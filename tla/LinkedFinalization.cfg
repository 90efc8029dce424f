SPECIFICATION FairSpec
CONSTANTS
    Procs = {p1, p2}
    ClaimTtl = 2
    MaxTries = 2
    MaxFaults = 2
    MaxEpoch = 2
    MaxClock = 1
    Idle = Idle
INVARIANTS TypeOK ClearedMeansMarked
PROPERTIES LiveClaimKept ClaimantClears FinalizationCompletes
CHECK_DEADLOCK FALSE
