SPECIFICATION Spec
CONSTANTS
  prod = prod
  dev = dev
  test = test
  pods = pods
  nodes = nodes
  jobs = jobs
  k1 = k1
  k2 = k2
  Keys = {k1, k2}
  Objects <- MCObjects
  NoObj = noobj
  Partitions = {}
  NoPartition = none
  Home <- MCHome
  Contexts = {prod, dev, test}
  Views = {pods, nodes, jobs}
  Source <- MCSource
  NoContext = nocontext
  NoView = noview
  DefaultView = pods
  StableKeys = {k1}
  ViewCacheMax = 2
  ViewCacheMaxObjects = 3
  MaxGen = 5
  ChannelCap = 1
CHECK_DEADLOCK FALSE
CONSTRAINT Explored
SYMMETRY MCSymmetry
INVARIANTS IsolationInv CacheBounded
PROPERTIES SwitchLandsAsAsked
