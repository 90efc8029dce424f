SPECIFICATION Spec
CONSTANTS
    Nodes = {n1, n2}
    Tokens = {t1, t2}
    Calls = {c1}
    Ttl = 2
    MaxClock = 1
    MaxChanges = 1
    MaxCrashes = 0
    NoToken = NoToken
    NoRow = NoRow
    NoSnapshot = NoSnapshot
    NoChange = NoChange
    Idle = Idle
SYMMETRY Symmetry
CHECK_DEADLOCK FALSE
INVARIANTS
    TokenSingleUse
