SPECIFICATION Spec
CONSTANTS
    Paths <- MCPaths
    Long <- MCLong
    FirstTree <- DeepFile
    Calls <- MCCalls
    MaxEntries = 4
    MaxView = 1
    MaxLen = 2
    Inodes = {1, 2}
    MaxCalls = 2
    MaxOther = 1
    MaxCrashes = 1
 
INVARIANT BarrierIsDurable
INVARIANT IntentIsExact
CHECK_DEADLOCK FALSE
