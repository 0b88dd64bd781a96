SPECIFICATION FairSpec
CONSTANTS
    Via = {"none", "http", "socks5"}
    Reply <- MCReply
    Buffer = 7
INVARIANTS
    TypeOK
    OnlyGranted
    GrantedTaken
    NothingLeft
PROPERTIES
    Decided
