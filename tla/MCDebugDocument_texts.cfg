SPECIFICATION Spec
CONSTANTS
    MaxSize = 7
    Modulus = 12
INVARIANTS
    IndexIsExact
    BreakpointIsReportedWhereSet
    StopCanBeFound
    WrappedOffsetStaysInText
CHECK_DEADLOCK FALSE
