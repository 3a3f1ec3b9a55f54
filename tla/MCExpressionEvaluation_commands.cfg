SPECIFICATION FairSpec
CONSTANTS
    Timeout = 3
    MaxCommands = 4
    Faults <- AllFail
INVARIANTS
    NothingLeftRunning
PROPERTIES
    ShownIsCurrent
    CommandsReturn
CHECK_DEADLOCK FALSE
