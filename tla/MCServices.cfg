CONSTANTS
    \* access tokens
    Tokens = {t1, t2, t3}
    MaxBatch = 2
    SpentTtl = 2
    PruneEvery = 1
    MaxSpent = 2
    MaxBoots = 2
    \* proofs
    Sids <- SidSet
    MaxProofs = 2
    MaxKeys = 3
    ProofTtl = 2
    \* calibration: sigma2 of 1 to 5 in 1/81, cutoffs in hundredths
    Rhythms <- RhythmSet
    Values <- VarianceSet
    Num = 1
    Den = 10
    MaxSamples = 9
    Warmup = 6
    Floor = 81
    Ceil = 405
    InitCutoff = 200
    Slack = 10
    Calibrations = {60, 3000}
    \* micro-stalls
    Window = 2
    MaxReqs = 6
    \* shadow filter
    ThrottleAfter = 2
    MaxRecords = 3
    MaxSeen = 3
    \* gates
    Calls = {c1, c2}
    BanTtl = 2
    HealthTtl = 2
    LookupTimeout = 1
    HealthTimeout = 1
    Stale = 1
    Operational = 2
SPECIFICATION MCSpec
SYMMETRY ServicesSymmetry
INVARIANTS
    TokensTypeOK
    MarkersInOrder
    LooseBrowserPasses
    PairsAligned
    ThrottledByItsOwn
PROPERTIES
    TokenOnce
    ProofsOneTime
    BansReachGates
    WritesNeedHealth
CHECK_DEADLOCK FALSE
