SPECIFICATION Spec
CONSTANTS
    Controllers = {cli}
    MaxStops = 1
    Faults <- NoFaults
INVARIANTS
    StackReadyAtPrompt
CHECK_DEADLOCK FALSE
