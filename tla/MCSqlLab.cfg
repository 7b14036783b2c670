SPECIFICATION FairSpec
CONSTANTS
    h1 = h1
    h2 = h2
    h3 = h3
    Handlers = {h1, h2, h3}
    Procs = {p1, p2}
    Conns = {c1, c2, c3}
    MaxIdle = 1
    CutAfter = {1}
    Asks <- MCAsks
    Texts <- MCTexts
    Quoted <- MCQuoted
    NumberOf <- MCNumberOf
    Rank <- MCRank
    Holding <- MCHolding
    Condition <- MCCondition
    Null = Null
    NoConn = NoConn
CHECK_DEADLOCK FALSE
INVARIANTS
    ListingsCommitted
    ListingExplained
    ConnectionsKept
    SeedsWhole
PROPERTIES
    RequestsAtomic
    EveryRequestAnswered
