SPECIFICATION Spec
CONSTANTS
    Calls = {c1}
    EnableRelay = TRUE
    Keys = {k1, k2}
    Readers = {r1}
    ConnectLimit = 1
    PruneThreshold = 0
    HardLimit = 1
    None = None
INVARIANTS SeenBounded SendsNeverBlock
CHECK_DEADLOCK FALSE
PROPERTIES SettledOnce WorkersEnd FallbackTried
