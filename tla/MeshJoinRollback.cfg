SPECIFICATION Spec
CONSTANTS
    Nodes = {n1, n2}
    Tokens = {t1, t2}
    Calls = {c1, c2}
    Ttl = 1
    MaxClock = 2
    MaxChanges = 2
    MaxCrashes = 2
    NoToken = NoToken
    NoRow = NoRow
    NoSnapshot = NoSnapshot
    NoChange = NoChange
    Idle = Idle
SYMMETRY Symmetry
CHECK_DEADLOCK FALSE
INVARIANTS
    TypeOK
    LocalArtifactsPresent
    RuntimeMatchesConfig
    ReusedOnlyAfterRestore
