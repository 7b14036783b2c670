SPECIFICATION BSpec
CONSTANTS
    ByteMod = 40
    RandomBytes = {0, 7}
    PadSizes = {30, 39}
    GarbageSizes = {0, 2}
    Commands <- MCCommands
    Responses <- MCResponses
    NoPacket = NoPacket
INVARIANTS
    DumpFaithful
    OneMutation
PROPERTY
    FuzzReachesItsEnd
