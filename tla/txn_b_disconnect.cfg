SPECIFICATION Spec
CONSTANTS
    Turns = {t1}
    Convs = {c1}
    Keys = {}
    None = None
    MaxDeltas = 1
    FaultKinds = {}
    MaxFaults = 0
CHECK_DEADLOCK FALSE
INVARIANT DisconnectKeepsPartial
