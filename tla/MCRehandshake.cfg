SPECIFICATION FairSpec
CONSTANTS
    Receivers = {r1}
    Attempts = {a1, a2}
    Handlers = {h1}
    DecryptLimit = 2
    Base = 1
    MaxBackoff = 3
    Window = 2
    MaxInWindow = 2
    FailThreshold = 2
    MaxCleared = 1
INVARIANTS TypeOK MarkHasHolder OverlapBounded BackoffMatchesFailures RateLimited
PROPERTIES ThresholdRemovesPeer MarkIsCleared
CHECK_DEADLOCK FALSE
