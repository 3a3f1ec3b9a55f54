SPECIFICATION Spec
CONSTANTS
    MaxHandlers = 2
    MaxCalls = 4
    Reentrant <- LastReentrant
INVARIANTS
    MirrorsAgree
    StopsAreCurrent
PROPERTIES
    TerminalIsFinal
    CallsAreAtomic
CHECK_DEADLOCK FALSE
