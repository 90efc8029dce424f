\* What must happen: fairness of timers, database calls and the worker loop.
CONSTANTS
    Procs = {p1, p2}
    Execs = {e1}
    Calls = {c1}
    Events = {killSwitchOff}
    KillSwitchEvent = killSwitchOff
    LeaseTtl = 1
    RetryDelays = {1}
    Ceiling = 1
    Overrides = {0}
    Budgets = {1}
    MaxVersion = 4
    MaxClock = 0
    NoOwner = NoOwner
    NoWait = NoWait
    Idle = Idle
SPECIFICATION FairSpec
PROPERTIES OrphanReclaimed SwitchedOffRunResumes
CHECK_DEADLOCK FALSE
