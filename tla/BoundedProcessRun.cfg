SPECIFICATION FairSpec
CONSTANTS
    Streams = {stdout, stderr}
    Limit = 1
    PipeCap = 1
    MaxOutput = 3
    StdinChunks = 2
    Deadline = 1
    MaxTime = 2
    Descendants = TRUE
INVARIANT CaptureIsExact
INVARIANT ChildIsReaped
PROPERTY CallReturns
CHECK_DEADLOCK FALSE
