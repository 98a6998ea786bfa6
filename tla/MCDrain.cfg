SPECIFICATION FairSpec
CONSTANTS
  n1 = n1
  n2 = n2
  web = web
  agent = agent
  rs = rs
  Nodes = {n1, n2}
  NoNode = nonode
  Targets <- MCTargets
  Names = {web, agent}
  SortOf <- MCSortOf
  Controllers = {rs}
  OwnerOf <- MCOwnerOf
  IgnoreDaemonSets = TRUE
  Forced = FALSE
  DeleteEmptyDir = FALSE
  HasTimeout = TRUE
  MaxUid <- MCMaxUid
  MaxDocuments = 1
CHECK_DEADLOCK FALSE
INVARIANTS DrainedNodesEmpty RemovesWhatWasListed RemovesOnlyPermitted CordonsTold
PROPERTY CancelEnds
