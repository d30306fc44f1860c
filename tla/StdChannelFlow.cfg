SPECIFICATION FairSpec
CONSTANTS
    Slots = 3
    Producers = {p1, p2, p3}
    Items = 2
    CapacityArg = 2
    ProducersArg = 3
    Repeats = {p1}
    NoItem = NoItem
INVARIANT FifoWindow
INVARIANT CloseMeansDrained
INVARIANT CloseWaitsForProducers
CHECK_DEADLOCK FALSE
