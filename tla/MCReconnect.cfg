SPECIFICATION FairSpec
CONSTANTS
    PeerIDs = {p1, p2}
    Addressed = {p1}
    Entries = {e1, e2}
    Removers = {r1, r2}
    RetryLimits = {0, 1, 2}
    NoEntry = NoEntry
    NoPeer = NoPeer
INVARIANTS TypeOK EntryHasLoop OneLoopUnlessCancelled GaveUpAfterAllAttempts QuietAfterClose CancelStopsDialing
PROPERTIES NeverOverwritten LoopsEnd CloseReturns
CHECK_DEADLOCK FALSE
