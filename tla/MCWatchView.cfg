SPECIFICATION FairSpec
CONSTANTS
  prod = prod
  dev = dev
  pods = pods
  nodes = nodes
  jobs = jobs
  k1 = k1
  k2 = k2
  Keys = {k1, k2}
  Objects <- MCObjects
  NoObj = noobj
  Partitions = {}
  NoPartition = none
  Home <- MCHome
  Contexts = {prod, dev}
  Views = {pods, nodes}
  Source <- MCSource
  NoContext = nocontext
  NoView = noview
  DefaultView = pods
  StableKeys = {k1}
  ViewCacheMax = 1
  ViewCacheMaxObjects = 2
  MaxGen = 3
  ChannelCap = 1
CHECK_DEADLOCK FALSE
INVARIANTS SnapshotsComplete
PROPERTIES TableSyncs
