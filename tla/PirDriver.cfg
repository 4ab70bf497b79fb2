SPECIFICATION FairSpec
CONSTANTS
    r1 = r1
    Runner <- MCOneRunner
    Failures <- MCAllFailures
INVARIANTS
    NeverLockedOut
    UnseenOnlyIfStopped
    LineHeldAfterRun
PROPERTIES
    MovingPersonIsSeen
