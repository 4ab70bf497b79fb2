SPECIFICATION Spec
CONSTANTS
    Duration = 3
    Failures <- MCAllFailures
INVARIANTS
    KickedInTimeIsQuiet
    HangIsReported
PROPERTIES
    KickLeavesGuarded
