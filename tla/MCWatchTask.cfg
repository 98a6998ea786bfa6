SPECIFICATION WatchesSpec
CONSTANTS
  k1 = k1
  k2 = k2
  Keys = {k1, k2}
  Objects = {1, 2, 3}
  NoObj = 0
  Partitions = {}
  NoPartition = nopartition
  Home <- MCHome
  MaxRev = 3
  MaxFaults = 2
  ChannelCap = 1
  Servers <- MCServers
  na = na
  nb = nb
  Names = {na, nb}
  NameOf <- MCSpaces
  Versions = {1}
  None = none
  Notice = notice
  MaxGen = 3
  MaxChanges = 1
  MaxFailures = 2
  MaxInFlight = 1
CHECK_DEADLOCK FALSE
INVARIANTS RowsMirror NoticesTrue
PROPERTY TablesConverge
