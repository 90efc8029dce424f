\* Callers that mirror the ledger with best effort; the provider deduplicates the key.
SPECIFICATION Spec
CONSTANTS
    Runners = {r1, r2}
    Payloads = {a, b}
    Strict = FALSE
    KeyEnforced = TRUE
    ClaimLease = 2
    StaleAfter = 1
    MaxTokens = 6
    MaxClock = 4
    NoRow = NoRow
    Idle = Idle
SYMMETRY AttemptSymmetry
INVARIANTS TypeOK OnePayload
CHECK_DEADLOCK FALSE
