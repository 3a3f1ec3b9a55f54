SPECIFICATION Spec
CONSTANTS
    MaxApplications = 4
    MaxDocuments = 4
    Faults <- AllFail
INVARIANTS
    ApplicationAgrees
    DebuggerAgrees
    DocumentAgrees
PROPERTIES
    ImplementsRegistration
CHECK_DEADLOCK FALSE
