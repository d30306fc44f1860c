\* Two host threads start and observe at once, with every start-up fault.
CONSTANTS
    Threads = {th1, th2}
    Tokens = {t1, t2}
    MAX_ACTIVE_EXECUTIONS = 2
    MAX_RETAINED_EXECUTIONS = 1
    Operations = {"start", "observe"}
    Events = {"exit", "spawn", "getrandom", "grace", "try_wait", "oom", "no_unit"}
    NoToken = NoToken
    NoThread = NoThread
SPECIFICATION Spec
SYMMETRY ThreadsAndTokens
INVARIANTS SlotAccounting RegistryAccounting CleanupIsReal
PROPERTIES TerminalSettles
CHECK_DEADLOCK FALSE
