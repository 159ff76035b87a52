SPECIFICATION FairSpec
CONSTANTS
    p1 = p1
    p2 = p2
    Procs = {p1, p2}
    MaxEditions = 2
    MaxEvents = 2
    MaxCrashes = 1
    MaxLosses = 1
    MaxTogether = 2
INVARIANTS
    RevokedNeverCurrent
    AckedRevoked
    NewestServed
PROPERTIES
    FiledEventsApply
