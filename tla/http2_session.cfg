SPECIFICATION FairSpec
CONSTANTS
    Call = {c1, c2, c3}
    MaxStreams = 2
    StreamWindow = 2
    ConnWindow = 2
    Lengths = {2, 3}
    Unknown = Unknown
    Coding <- EachCoding
    c1 = c1
    c2 = c2
    c3 = c3
INVARIANTS
    TypeOK
    CreditConserved
PROPERTIES
    ImplementsSession
    Collected
