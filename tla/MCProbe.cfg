SPECIFICATION ProbeSpec
CONSTANTS
    Window = 4
    Window1m = 2
    Window5m = 6
    MinSamples = 2
    CreepSamples = 3
    Penalty = 5000
    StallMin = 500
    CreepTenths = 15
    CreepMin = 200
    Rtts = {100, 300, 600, 5200}
    NoMetric = NoMetric
    None = None
    Chain = "base"
INVARIANTS
    FreshOutageFlagged
    SteadyLevelUnflagged
PROPERTIES
    OutageEndsUnsafe
    RecoveryEndsSafe
