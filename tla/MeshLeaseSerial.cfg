\* One gateway process: repository calls are serialised, one default TTL.
CONSTANTS
    Nodes = {n1, n2, n3}
    Keys = {k1}
    Calls = {c1}
    Ttls = {2}
    MaxClock = 6
    SingleProcess = TRUE
    NoLease = NoLease
    Idle = Idle
SPECIFICATION Spec
INVARIANTS TypeOK MutualExclusion
PROPERTY NoLiveLeaseClobbered
CHECK_DEADLOCK FALSE
