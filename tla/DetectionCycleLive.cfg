SPECIFICATION FairCycleSpec
CONSTANTS
    FailingCalls <- MCNoCall
    MaxReports = 1
PROPERTIES
    FirstWaitEnds
    RetryEnds
\* the sensor stops reporting
CHECK_DEADLOCK FALSE
