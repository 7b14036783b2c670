SPECIFICATION CFairSpec
CONSTANTS
    OTPMin = 1
    OTPMax = 3
    MaxAttempts = 4
    RandomOrder = FALSE
    StateReuse = FALSE
    StateChecks <- TwoChecks
    IntMax = 7
    StateValue = {s1, s2}
    s1 = s1
    s2 = s2
    Corrupted = Corrupted
    NoState = NoState
    EmptyState = EmptyState
    Text = {"", "late"}
    Answers <- WithEmptyDatagram
    NoRequest = NoRequest
INVARIANTS
    StateCarried
    RangeTried
PROPERTY
    Terminates
