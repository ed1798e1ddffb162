SPECIFICATION Spec
CONSTANTS
  Conns = {c1}
  Reports <- SomeReports
PROPERTIES
  ReleaseAwaited
