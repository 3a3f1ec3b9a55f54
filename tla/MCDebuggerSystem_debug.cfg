SPECIFICATION FairSpec
CONSTANTS
    Controllers = {cli}
    MaxStops = 2
    ControlFaults <- CaptureFails
    Breakpoints = {b1}
    InFile = {b1}
    Requests <- DebugRequests
    HostFaults <- AnyHostFault
INVARIANTS
    TypeOK
    HeldStopIsReported
    CommandsMeetLiveSession
    ExitIsClean
PROPERTIES
    ImplementsHost
    SeenStopIsReleased
    SystemEnds
CHECK_DEADLOCK FALSE
