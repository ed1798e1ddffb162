SPECIFICATION FairSpec
CONSTANTS
  Conns = {c1}
  Reports <- SomeReports
INVARIANTS
  TypeOK
PROPERTIES
  CommandsGiven
  ResultShown
  BoardLoads
