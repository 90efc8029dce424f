\* Two gateways on one database: the statements of two calls interleave.
CONSTANTS
    Nodes = {n1, n2}
    Keys = {k1}
    Calls = {c1, c2}
    Ttls = {1}
    MaxClock = 3
    SingleProcess = FALSE
    NoLease = NoLease
    Idle = Idle
SPECIFICATION Spec
PROPERTY NoLiveLeaseClobbered
CHECK_DEADLOCK FALSE
