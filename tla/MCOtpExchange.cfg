SPECIFICATION Spec
CONSTANTS
    User = art
    Pass = 0
    Otp = 0
    RequireMA = TRUE
    Handlers = {h1, h2, h3}
    Requests <- MCRequests
    Token = {t1, t2, t3}
    Name = {art}
    Pwd = {good, empty, 0, 1, 2}
    EmptyPwd = empty
    NoHandler = NoHandler
    NoRequest = NoRequest
    NoSession = NoSession
    NoToken = NoToken
    NoReply = NoReply
    NoState = NoState
    Foreign = Foreign
    IntMax = 7
    OTPMin = 0
    OTPMax = 1
    MaxAttempts = 3
    RandomOrder = TRUE
    StateReuse = TRUE
    StateChecks <- Probes
    EmptyState = EmptyState
    SeedUser = art
    SeedPwd = 0
    art = art
    good = good
INVARIANTS
    FoundIsTheOneJudged
    NoticeMeansLoss
    ProbesNeverAccepted
    FirstGuessDecides
