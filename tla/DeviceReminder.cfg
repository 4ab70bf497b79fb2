SPECIFICATION FairSpec
CONSTANTS
    FailingCalls <- MCAnyCall
    MaxReports = 2
INVARIANTS
    TypeOK
    DetectionIsTimed
    NoMutualWait
PROPERTIES
    HumanResumes
    BuzzerFallsSilent
\* the sensor stops reporting, and tasks whose receiver has ended do nothing any more
CHECK_DEADLOCK FALSE
