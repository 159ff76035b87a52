SPECIFICATION Spec
CONSTANTS
    q1 = q1
    q2 = q2
    c1 = c1
    c2 = c2
    s1 = s1
    s2 = s2
    Proposals <- MCProposals
    Ours <- MCProposals
    TwoHumans <- MCElevated
    Calls = {c1, c2}
    Sessions = {s1}
    MaxNumber = 2
SYMMETRY MCCallsAlike
INVARIANTS
    PublishesAsConfirmed
PROPERTIES
    RecordedAsShown
    SourcesHeldAtAnswer
    LedgerSpec
