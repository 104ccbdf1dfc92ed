SPECIFICATION Spec
CONSTANTS
    Nodes = {n1, n2}
    Channels = {c1}
    MaxInFlight = 1
    MaxFaults = 2
INVARIANTS OnlyToMembers EarlyChannelsKnown SomeoneKnows LeaversForgotten
