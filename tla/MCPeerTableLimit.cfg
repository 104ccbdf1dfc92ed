SPECIFICATION Spec
CONSTANTS
    p1 = p1
    p2 = p2
    p3 = p3
    u1 = u1
    v1 = v1
    t1 = t1
    u2 = u2
    u3 = u3
    Ids = {p1, p2, p3}
    Links = {u1, v1, t1, u2, u3}
    TcpLinks = {t1}
    Owner <- MCOwner
    Removals = {heartbeat, rehandshake}
    MaxPeers = 1
    MaxObjects = 3
    None = None
    Done = Done
SYMMETRY MCSymmetry
INVARIANTS AtMostMaxPeers
CHECK_DEADLOCK FALSE
