CONSTANTS
    User = art
    Pass = good
    Otp = otp
    RequireMA = TRUE
    Handlers = {h1, h2, h3}
    Token = {t1, t2, t3}
    Requests <- MCRequests
    Name = {art, bob}
    Pwd = {good, bad, otp, empty}
    EmptyPwd = empty
    IdMod = 2
    art = art
    bob = bob
    good = good
    bad = bad
    otp = otp
    NoState = NoState
    Foreign = Foreign
    NoHandler = NoHandler
    NoRequest = NoRequest
    NoSession = NoSession
    NoToken = NoToken
    NoReply = NoReply
SPECIFICATION FairSpec
INVARIANTS
    SingleUse
    ChallengeHonoured
    AcceptEarned
PROPERTIES
    Answered
    IssuesSingleUseTokens
