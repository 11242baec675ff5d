SPECIFICATION Spec
CONSTANTS
    c1 = c1
    c2 = c2
    Clients = {c1, c2}
    Access <- MCAccess
    PublicDelay = 1
    DemoInterval = 2
    BufLen = 2
    LastMetric = 3
    Nobody = Nobody
INVARIANTS
    TypeOK
    PublicComplete
    PublicDelayed
    RealtimeComplete
PROPERTY
    PublicServed
CHECK_DEADLOCK FALSE
