SPECIFICATION ProjectionSpec
CONSTANTS
    d1 = d1
    d2 = d2
    e1 = e1
    e2 = e2
    b1 = b1
    b2 = b2
    Documents = {d1, d2}
    Endpoints = {e1, e2}
    Builders = {b1, b2}
SYMMETRY MCAlike
INVARIANTS
    InstalledWhole
PROPERTIES
    RanksOwnEpoch
    WorkIsKept
