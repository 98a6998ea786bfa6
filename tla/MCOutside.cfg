SPECIFICATION OutsideSpec
CONSTANTS
  data = data
  w1 = w1
  w2 = w2
  Contexts = {"prod", "dev"}
  FirstContext = "prod"
  Claims = {data}
  Workloads = {w1, w2}
  Consumer <- MCConsumer
  ReadOnlyMount = {w1}
  SubPath <- MCSubPath
  Node <- MCNode
  AccessModes <- MCModes
  Toolless = {w1}
  NoClaim = noclaim
  NoPod = nopod
  Unresolved = unresolved
  WholeVolume = whole
  MaxRun = 3
  MaxGen = 2
  MaxHelpers = 1
  MaxTasks = 2
  log = log
  net = net
  Ids <- MCIds
  Indexes <- MCIndexes
  Before <- MCBefore
  Missing = missing
  Foreign = foreign
  Sources = {"official"}
  MaxCommands = 2
  MaxFaults = 1
  MaxCrashes = 1
  MaxEdits = 1
CHECK_DEADLOCK FALSE
INVARIANTS HelpersAccounted PaneShowsItsOwn RecoveryNeverWidens RecoveryFinishes
PROPERTIES HelpersGo KeepsPlugins
