SPECIFICATION Spec
CONSTANTS
    NameA = NameA
    NameB = NameB
    Ip1 = Ip1
    Ip2 = Ip2
    Url <- MCUrl
    Ip <- MCIp
    NoUrl = NoUrl
    Status = {200, 302, 307}
    Limit = 10
INVARIANTS
    StrictOrigin
