\* Two processes, two settings, a bounded cache, kills and failing calls anywhere.
SPECIFICATION Spec
SYMMETRY Processes
VIEW Forgetful
CONSTANTS
    p1 = p1
    p2 = p2
    n1 = n1
    n2 = n2
    k1 = k1
    k2 = k2
    app1 = app1
    app2 = app2
    NoValue = NoValue
    Procs = {p1, p2}
    Namespaces = {n1, n2}
    Keys = {k1, k2}
    Artifacts = {app1, app2}
    Environments <- TwoSettings
    Builds <- UnstableBuilds
    Code <- SameCode
    PayloadBytes <- Sizes
    RecordBytes = 1
    MaxBytes = 6
    MaxEntries = 2
    MaxAge = 0
    HardLinks = TRUE
    Legacy <- LegacyEntry
    Faults = {"kill", "io"}
    MaxTime = 1
    MaxRequests = 3
INVARIANT LoadReturnsWhatWasStored
PROPERTY WrecksComeFromEvictions
PROPERTY ConcurrentAdmissionsSucceed
PROPERTY StoreLeavesCacheBounded
PROPERTY ImplementsLossyCache
CHECK_DEADLOCK FALSE
