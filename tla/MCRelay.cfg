SPECIFICATION Spec
CONSTANTS
    Clients = {a, b}
    Relay = r
    None = None
INVARIANT RelayedPeersAgree
CHECK_DEADLOCK FALSE
