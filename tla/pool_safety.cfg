SPECIFICATION Spec
CONSTANTS
    Task = {t1, t2}
    Origin = {o80, o443}
    o80 = o80
    o443 = o443
    AltSvcKey <- HttpKey
    Conn = {c1, c2, c3, c4}
    NoTask = NoTask
    NoConn = NoConn
    MaxHops = 2
    H2Faults = TRUE
SYMMETRY Symmetry
INVARIANTS
    TypeOK
    SingleFlight
    HandoutMatches
    LockDiscipline
    ResendBound
PROPERTIES
    OverwriteOnlyDead
    ImplementsHttpCall
