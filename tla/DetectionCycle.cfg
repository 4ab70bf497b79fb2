SPECIFICATION CycleSpec
CONSTANTS
    FailingCalls <- MCNoCall
    MaxReports = 2
INVARIANTS
    BuzzIsTimed
    BuzzOrdersAlternate
    SilentUnlessRetrying
\* the sensor stops reporting
CHECK_DEADLOCK FALSE
