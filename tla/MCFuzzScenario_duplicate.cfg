SPECIFICATION FSpec
CONSTANTS
    OtherTypes = {"User-Name"}
    NoLength = NoLength
    NoTarget = NoTarget
    Seed <- Request
    Strategies <- DuplicateAny
    FuzzList <- NoLines
    Iterations = 10
    HealthcheckEvery = 3
    ExpectNoAccept = TRUE
    PacketAnswers = {"accept", "other", "timeout"}
INVARIANT CheckedInTime
