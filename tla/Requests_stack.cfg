SPECIFICATION MCSpec
CONSTANTS
    Stacks <- Orders
    MaxChunks = 2
    MaxMessages = 2
    Connections = {c1, c2}
    Messages = {m1, m2}
    MaxReceived = 3
    MaxEntries = 4
INVARIANT SingleAnswer
INVARIANT ConnectionsSettle
INVARIANT InjectionTransparent
SYMMETRY Alike
CHECK_DEADLOCK FALSE
