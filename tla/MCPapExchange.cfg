SPECIFICATION FairSpec
CONSTANTS
    Byte <- MCByte
    MaxBody = 4
    MAType = 9
    MALen = 2
INVARIANTS
    NeverReadsBeyond
    ReportedExactly
PROPERTIES
    Ends
