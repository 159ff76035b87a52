SPECIFICATION Spec
CONSTANTS
    m1 = m1
    m2 = m2
    a1 = a1
    a2 = a2
    a3 = a3
    p1 = p1
    v1 = v1
    Memories = {m1, m2}
    Anchors = {a1, a2, a3}
    Proposals = {p1}
    TargetOf <- MCTargetOf
    Reviewers = {v1}
    None = None
    MaxEvidence = 1
    LastRevision <- MCLastRevision
SYMMETRY LikeSymmetry
INVARIANTS
    ActiveIsBacked
    ServedHasEvidence
    ChangesReachTheLive
CHECK_DEADLOCK FALSE
