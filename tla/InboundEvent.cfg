\* The main loop, the control loop and the maintenance tick over two events of
\* one or two conversations.
SPECIFICATION FairSpec
CONSTANTS
    MaxEvents = 2
    l1 = l1
    l2 = l2
    Lanes = {l1, l2}
    Scenarios <- QueueScenarios
    Passes = {main, control, tick}
    ControlPasses = {control}
    Limit = 1
    MaxAsks = 2
    MaxAttempts = 2
    MaxFaults = 1
    NoOwner = NoOwner
INVARIANTS
    TypeOK
    LaneOrder
    CompletedMeansDone
    CommandOncePerClaim
    BotLoopDecided
    AnswersItsOwn
PROPERTIES
    SettledIsFinal
    ImplementsLaneQueue
    EventuallySettled
