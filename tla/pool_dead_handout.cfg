SPECIFICATION Spec
CONSTANTS
    Task = {t1, t2}
    Origin = {o1}
    o80 = o80
    o443 = o443
    AltSvcKey <- SameKey
    Conn = {c1, c2, c3, c4}
    NoTask = NoTask
    NoConn = NoConn
    MaxHops = 2
    H2Faults = TRUE
SYMMETRY Symmetry
PROPERTIES
    NoDeadHandout
