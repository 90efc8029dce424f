\* Two processes, two executions in progress, one operator call.
CONSTANTS
    Procs = {p1, p2}
    Execs = {e1, e2}
    Calls = {c1}
    Events = {killSwitchOff}
    KillSwitchEvent = killSwitchOff
    LeaseTtl = 2
    RetryDelays = {1}
    Ceiling = 3
    Overrides = {0, 4}
    Budgets = {1}
    MaxVersion = 5
    MaxClock = 0
    NoOwner = NoOwner
    NoWait = NoWait
    Idle = Idle
SPECIFICATION Spec
SYMMETRY WorkerSymmetry
INVARIANTS TypeOK SingleCommitter VersionNamesRow RowConsistent DeadLetterMatches AttemptCeiling
PROPERTIES LiveLeaseNotStolen ImplementsLifecycle
CHECK_DEADLOCK FALSE
