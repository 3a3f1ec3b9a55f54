SPECIFICATION Spec
CONSTANTS
    Controllers = {cli}
    MaxStops = 3
    Faults <- AllFaults
INVARIANTS
    CookiesAreRegistered
    NothingLeaks
    CommandsReachSeenStop
    NoStaleInspection
    NoPhantomPause
PROPERTIES
    ImplementsProtocol
CHECK_DEADLOCK FALSE
