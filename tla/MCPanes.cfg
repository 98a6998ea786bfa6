SPECIFICATION PanesSpec
CONSTANTS
Ranks = {1, 2}
Filters = {"none", "text", "load", "age"}
SortKeys = {"none", "column", "load"}
Shapes <- MCShapes
None = None
MaxEvents = 3
MaxKeys = 2
MaxOld = 3
Source = 3
MaxGen = 2
MaxInbox = 3
CHECK_DEADLOCK FALSE
INVARIANTS RowsAreCurrent SelectionStays NeverOverReports NoIdleBar
PROPERTIES FilterKeepsObject
