\* Transactional callers: three attempts overlap.
SPECIFICATION Spec
CONSTANTS
    Runners = {r1, r2, r3}
    Payloads = {a, b}
    Strict = TRUE
    KeyEnforced = FALSE
    ClaimLease = 2
    StaleAfter = 1
    MaxTokens = 6
    MaxClock = 4
    NoRow = NoRow
    Idle = Idle
SYMMETRY AttemptSymmetry
INVARIANTS AtMostOnceDispatch RecoverySafe LedgersAgree
PROPERTIES ImplementsOneEffect
CHECK_DEADLOCK FALSE
