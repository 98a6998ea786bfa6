SPECIFICATION PartsSpec
CONSTANTS
TailLines = 1
MaxPods = 2
MaxRuns = 2
MaxLines = 3
MaxTime = 4
MaxFaults = 1
MaxGen = 2
MaxInbox = 1
Pods = {p1, p2}
MaxChanges = 4
MaxFailures = 2
CHECK_DEADLOCK FALSE
INVARIANTS LinesConsecutive StreamsFollow
PROPERTIES LinesArrive FollowsSelector
