\* App::run() comes to an end and the children may: the system really stops.
CHECK_DEADLOCK FALSE
SPECIFICATION Spec
CONSTANTS
    Tasks <- MCTasks
INVARIANTS
    OnlyAppSpawns
    ChildrenArePrefix
