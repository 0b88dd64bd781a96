SPECIFICATION Spec
CONSTANTS
    Call = {c1, c2}
    NoCall = NoCall
    Capacity = 1
    MaxStream = 2
    MaxChunk = 1
    Truncates = TRUE
INVARIANTS
    PendingWhole
