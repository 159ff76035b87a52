SPECIFICATION FairSpec
CONSTANTS
    q1 = q1
    q2 = q2
    k1 = k1
    a1 = a1
    h1 = h1
    h2 = h2
    p1 = p1
    p2 = p2
    Proposals <- MCProposals
    Keys <- MCKeys
    Agents <- MCAgents
    Humans = {h1}
    Procs = {p1}
    KeyOf <- MCKeyOf
    AuthorOf <- MCAuthorOf
    TwoHumans = {}
    MaxAttempts = 2
    MaxCrashes = 1
    SerialisedOpen = TRUE
PROPERTY
    IntentsSettleUnlessBlocked
