SPECIFICATION FairSpec
CONSTANTS
  Conns = {c1, c2}
  Timeout = 2
  Chunks = 2
  Returns = TRUE
INVARIANTS
  BusyHasConnection
PROPERTIES
  NoSuccessFromSilence
  Contract
  WaitEnds
