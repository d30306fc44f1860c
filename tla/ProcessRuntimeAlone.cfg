\* One host thread through every host operation, with deadline, overflow and kills.
CONSTANTS
    Threads = {th1}
    Tokens = {t1}
    MAX_ACTIVE_EXECUTIONS = 1
    MAX_RETAINED_EXECUTIONS = 2
    Operations = {"start", "observe", "cancel", "reap", "wait", "drop"}
    Events = {"exit", "deadline", "overflow", "lost", "show", "kill"}
    NoToken = NoToken
    NoThread = NoThread
SPECIFICATION FairSpec
PROPERTIES CancelCompletes CallsReturn
CHECK_DEADLOCK FALSE
