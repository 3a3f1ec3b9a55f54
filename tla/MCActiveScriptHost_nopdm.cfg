SPECIFICATION Spec
CONSTANTS
    Breakpoints = {b1}
    InFile = {b1}
    MaxBreaks = 1
    Requests <- ResumableRequests
    Faults <- NoManager
INVARIANTS
    PdmIsOptional
CHECK_DEADLOCK FALSE
