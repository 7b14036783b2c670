SPECIFICATION Spec
CONSTANTS
    User = art
    Pass = good
    Otp = good
    RequireMA = FALSE
    Handlers = {h1, h2, h3}
    Requests <- MCRequests
    Token = {t1, t2, t3}
    Name = {art}
    Pwd = {good, bad, empty}
    EmptyPwd = empty
    IdMod = 3
    NoHandler = NoHandler
    NoRequest = NoRequest
    NoSession = NoSession
    NoToken = NoToken
    NoReply = NoReply
    NoState = NoState
    Foreign = Foreign
    ClientUser = art
    Expect = "accept"
    Timeout = 2
    Strays <- OddAnswers
    art = art
    good = good
    bad = bad
INVARIANTS
    PassMeansJudged
    FailMeansNetwork
