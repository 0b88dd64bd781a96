SPECIFICATION FairSpec
CONSTANTS
    Task = {t1, t2, t3}
    Origin = {o1}
    o80 = o80
    o443 = o443
    AltSvcKey <- SameKey
    Conn = {c1, c2}
    NoTask = NoTask
    NoConn = NoConn
    MaxHops = 1
    H2Faults = FALSE
INVARIANTS
    GracefulDegradation
    NoStorm
PROPERTIES
    Establishes
