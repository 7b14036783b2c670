SPECIFICATION FSpec
CONSTANTS
    OtherTypes = {"User-Name"}
    NoLength = NoLength
    NoTarget = NoTarget
    Seed <- Request
    Strategies <- Everything
    FuzzList <- Lines
    Iterations = 13
    HealthcheckEvery = 3
    ExpectNoAccept = TRUE
    PacketAnswers = {"accept", "other", "timeout", "empty"}
INVARIANTS
    OkMeansUpAndRejecting
    CheckedInTime
    FramingKept
    OneChange
    LinesInTurn
