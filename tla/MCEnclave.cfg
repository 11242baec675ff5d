SPECIFICATION Spec
CONSTANTS
    p1 = p1
    p2 = p2
    ip1 = ip1
    Pages <- OnePage
    Ips <- MCIps
    IpOf <- MCIpOf
    SealIds = {s1, s2}
    Offsets <- MCOffsets
    Window = 1
    Skew = 1
    SeqTtl = 3
    KeyTtl = 4
    RatchetAt = 2
    MaxLoads = 2
    NoSeal = NoSeal
SYMMETRY SealSymmetry
INVARIANTS
    SealAcceptedOnce
    FreshSeqsDistinct
