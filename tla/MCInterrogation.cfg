SPECIFICATION Spec
CONSTANTS
    Ips = {ip1, ip2}
    MaxDrawn = 3
    None = None
    PowLimit = 2
    PowTtl = 1
SYMMETRY IpSymmetry
INVARIANTS
    TypeOK
    LoneSolverNotBanned
PROPERTY
    ChallengesOneTime
