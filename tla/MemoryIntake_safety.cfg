SPECIFICATION Spec
CONSTANTS
    s1 = s1
    d1 = d1
    d2 = d2
    t1 = t1
    h1 = h1
    h2 = h2
    k1 = k1
    k2 = k2
    k3 = k3
    Sessions = {s1}
    Days = {d1, d2}
    Turns = {t1}
    NoTurn = NoTurn
    Events = {h1, h2}
    Origin <- MCOrigin
    Keys = {k1, k2, k3}
    None = None
    Cap = 2
    MaxVersion = 2
SYMMETRY KeySymmetry
INVARIANTS
    SpentOnce
    AutomaticWithinBudget
    NoDoubleCount
PROPERTIES
    RefundsSurvive
