SPECIFICATION Spec
CONSTANTS
    Nodes = {n1, n2}
    Handshakes = {h1, h2, h3, h4, h5}
    None = None
SYMMETRY Symmetry
INVARIANTS TypeOK ResponderConfirmed NoSessionReturns NoCompletedPending
CHECK_DEADLOCK FALSE
