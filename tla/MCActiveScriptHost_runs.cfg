SPECIFICATION FairSpec
CONSTANTS
    Breakpoints = {b1, b2, b3}
    InFile = {b1, b2}
    MaxBreaks = 3
    Requests <- EveryRequest
    Faults <- AnyFault
INVARIANTS
    OutcomeIsReported
    OrderlyTeardown
    BreakpointsAreDecided
    HeldIsPaused
PROPERTIES
    RunReturns
CHECK_DEADLOCK FALSE
