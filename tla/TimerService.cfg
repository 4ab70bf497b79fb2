SPECIFICATION FairSpec
CONSTANTS
    m1 = m1
    m2 = m2
    Message <- MCMessage
    NoMessage = NoMessage
    MaxStarts = 3
    Failures <- MCAllFailures
INVARIANTS
    OwnerWorkerInv
    AtMostOneWorker
    QuietAfterStop
PROPERTIES
    ImplementsTimer
    WorkerExceptionSurfaces
    CallsReturn
    ArmedSettles
\* a destroyed timer does nothing any more
CHECK_DEADLOCK FALSE
