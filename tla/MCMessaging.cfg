SPECIFICATION Spec
CONSTANTS
    Threads = {t1, t2}
    Sizes = {1, 2, 4}
    MaxReassemblySize = 2
    MaxSends = 2
    MaxSessions = 2
    None = None
PROPERTIES WholeMessages NoSilentLoss
CHECK_DEADLOCK FALSE
