SPECIFICATION FairSearchSpec
CONSTANTS
    Scans <- MCScans
    SearchFailures <- MCAllFailures
INVARIANTS
    UnpairedOnlyIfStopped
PROPERTIES
    StopEndsSearch
    StopComesBack
