SPECIFICATION FairSpec
CONSTANTS
  Steps <- NineSteps
  InfoStep = 6
  Reports <- SomeReports
  WaitLimit = 3
  InsertLooks = 1
  RemoveLooks = 1
INVARIANTS
  TypeOK
  PolledWasConfigured
PROPERTIES
  NoPhantomKeys
  SharedCodes
  PollWaitEnds
  KeyboardFound
  ReportArrives
