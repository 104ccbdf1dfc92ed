SPECIFICATION Spec
CONSTANTS
    Nodes = {n1, n2}
    Handshakes = {h1, h2, h3, h4}
    None = None
PROPERTY IgnoredIsRedundant
CHECK_DEADLOCK FALSE
