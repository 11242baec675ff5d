SPECIFICATION Spec
CONSTANTS
    Ips = {ip1, ip2, ip3}
    Hour = 3
    MaxBans = 2
INVARIANTS
    OffendersHeld
    DetentionBounded
PROPERTY
    BansEnd
