SPECIFICATION Spec
CONSTANTS
    p1 = p1
    p2 = p2
    Procs = {p1}
    MaxEditions = 3
    MaxEvents = 1
    MaxCrashes = 0
    MaxLosses = 0
    MaxTogether = 2
INVARIANT
    AtMostOneCurrent
