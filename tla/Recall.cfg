SPECIFICATION FairSpec
CONSTANTS
    m1 = m1
    m2 = m2
    e1 = e1
    e2 = e2
    k1 = k1
    c1 = c1
    c2 = c2
    Memories = {m1, m2}
    Editions = {e1, e2}
    KeyOf <- MCKeyOf
    NumberOf <- MCNumberOf
    Routers = {c1, c2}
    None = None
    MaxChanges <- MCMaxChanges
    FirstRows <- MCFirstRows
INVARIANTS
    
    RouteExact
    VectorsExact
    RetiredStaysOut
    UndisturbedComplete
    FailsOnRevocationOnly
PROPERTY
    MapConverges
