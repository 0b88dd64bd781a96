SPECIFICATION FairSpec
CONSTANTS
    Call = {c1, c2, c3}
    NoCall = NoCall
    Capacity = 1
    MaxStream = 2
    MaxChunk = 2
    Truncates = FALSE
INVARIANTS
    TypeOK
    NoLostCall
    OnePlace
    ResponseIntegrity
PROPERTIES
    Answered
    ImplementsSession
