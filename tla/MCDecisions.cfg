CONSTANTS
    \* verdicts
    None = None
    Askable <- MCChains
    Readings <- MCMetrics
    Healths <- MCHealths
    \* trust
    Wallets = {w1, w2}
    Hashes = {h1, h2}
    NoHash = none
    Moments <- MomentSet
    OddSets <- OddSetSet
    Levels = {0, 4, 9}
    FreeLimit = 1
SYMMETRY TrustSymmetry
SPECIFICATION MCSpec
INVARIANTS
    SafeIsSafeEverywhere
    WorseNeverBetter
    OneChainSpoilsAll
    ConfidentBotNotAllowed
    CredentialNeverHurts
PROPERTIES
    OneWeakSignalNeverBans
