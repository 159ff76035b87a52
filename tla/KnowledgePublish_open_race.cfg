SPECIFICATION Spec
CONSTANTS
    q1 = q1
    q2 = q2
    k1 = k1
    a1 = a1
    h1 = h1
    h2 = h2
    p1 = p1
    p2 = p2
    Proposals <- MCOneProposals
    Keys <- MCKeys
    Agents <- MCAgents
    Humans = {h1, h2}
    Procs = {p1, p2}
    KeyOf <- MCOneKeyOf
    AuthorOf <- MCOneAuthorOf
    TwoHumans = {q1}
    MaxAttempts = 2
    MaxCrashes = 0
    SerialisedOpen = FALSE
SYMMETRY HumanProcSymmetry
INVARIANT
    FilesBackEditions
