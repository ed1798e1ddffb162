SPECIFICATION Spec
CONSTANTS
  Conns = {c1, c2}
  Timeout = 2
  Chunks = 2
  Returns = FALSE
PROPERTIES
  SuccessIsTransfer
