SPECIFICATION FairSpec
CONSTANTS
    MaxPushes = 3
    Failures <- MCAllFailures
    EarlyStop = FALSE
INVARIANTS
    StoppedIsQuiet
    DispatchedInOrder
PROPERTIES
    ImplementsMailbox
    StopReturns
    StopEndsRun
    PushedIsDispatched
\* a stopped process does nothing any more
CHECK_DEADLOCK FALSE
