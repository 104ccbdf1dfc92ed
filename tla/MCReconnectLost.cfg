SPECIFICATION FairSpec
CONSTANTS
    PeerIDs = {p1}
    Addressed = {p1}
    Entries = {e1, e2}
    Removers = {r1}
    RetryLimits = {0, 1, 2}
    NoEntry = NoEntry
    NoPeer = NoPeer
INVARIANT ReconnectNotLost
CHECK_DEADLOCK FALSE
