SPECIFICATION Spec
CONSTANTS
    Controllers = {cli}
    MaxStops = 2
    Faults <- NoFaults
INVARIANTS
    StopReachesController
CHECK_DEADLOCK FALSE
