SPECIFICATION Spec
CONSTANTS
    Peers = {p1}
    MaxSessions = 2
INVARIANTS
    PanicNeedsRace
    SessionHasHandler
    NothingLeftOpen
PROPERTY
    StopReturns
CHECK_DEADLOCK FALSE
