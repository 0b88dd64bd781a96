SPECIFICATION Spec
CONSTANTS
    Task = {t1, t2}
    t1 = t1
    t2 = t2
    a = a
    a2 = a2
    b = b
    ha = ha
    hb = hb
    Origin = {a, a2, b}
    Host = {ha, hb}
    HostOf <- MCHostOf
    MaxHops = 2
    MaxIssue = 2
SYMMETRY Symmetry
INVARIANTS
    TypeOK
    ReadYourWrites
    CookieToOwner
    HintSolicited
    SameTwice
    NeverIndexed
    StoredWhenDone
