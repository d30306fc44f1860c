\* Two overlapping runs that share the process-wide worker capacity.
SPECIFICATION FairSpec
CONSTANTS
    r1 = r1
    r2 = r2
    Items <- LongAndShort
    Runs = {r1, r2}
    MaxItems = 3
    Requested = 2
    MaxWorkers = 3
    SessionsFail = TRUE
    NoReport = NoReport
INVARIANT MergeIsByIndex
INVARIANT AtMostOneLateCall
PROPERTY RunsReturn
CHECK_DEADLOCK FALSE
