SPECIFICATION CycleSpec
CONSTANTS
    FailingCalls <- MCNoCall
    MaxReports = 1
INVARIANTS
    CooldownIsTimed
\* the sensor stops reporting
CHECK_DEADLOCK FALSE
