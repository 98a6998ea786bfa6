SPECIFICATION FairSpec
CONSTANTS
  namespaces = namespaces
  sorts = sorts
  Files = {namespaces, sorts}
  MaxChoices = 3
  MaxFailures = 1
  MaxSessions = 2
CHECK_DEADLOCK FALSE
INVARIANTS LatestAccounted CleanExit
PROPERTY KeepsPromise
PROPERTY QuitEnds
