\* Two passes over the same lanes, and one claim that expires under its handler.
SPECIFICATION Spec
CONSTANTS
    MaxEvents = 1
    l1 = l1
    l2 = l2
    Lanes = {l1}
    Scenarios <- ReplayScenarios
    Passes = {p1, p2}
    ControlPasses = {}
    Limit = 1
    MaxAsks = 0
    MaxAttempts = 2
    MaxFaults = 1
    NoOwner = NoOwner
INVARIANT CommandOnce
