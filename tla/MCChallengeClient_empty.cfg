SPECIFICATION CSpec
CONSTANTS
    OTPMin = 1
    OTPMax = 2
    MaxAttempts = 2
    RandomOrder = FALSE
    StateReuse = TRUE
    StateChecks <- OneCheck
    IntMax = 7
    StateValue = {s1, s2}
    s1 = s1
    s2 = s2
    Corrupted = Corrupted
    NoState = NoState
    EmptyState = EmptyState
    Text = {"", "late"}
    Answers <- WithEmptyDatagram
    NoRequest = NoRequest
INVARIANT NeverPanics
