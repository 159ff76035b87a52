SPECIFICATION Spec
CONSTANTS
    o1 = o1
    Openers = {o1}
    c1 = c1
    c2 = c2
    r1 = r1
    r2 = r2
    Creators = {c1, c2}
    Restorers = {r1, r2}
    Existing = {1}
    MaxEditions = 2
    MaxEvents = 1
    MaxLosses = 1
SYMMETRY MCAlike
ACTION_CONSTRAINT MCVaultFirst
VIEW MCView
INVARIANTS
    ReportedIsWhole
    RevokedStaysRevoked
    RestoredAsDeclared
PROPERTIES
    NothingIsReplaced
\* The commands end when the backup and the home are there.
CHECK_DEADLOCK FALSE
