SPECIFICATION Spec
CONSTANTS
    N = 2
    MaxAttempts = 2
    MaxSessions = 2
INVARIANTS
    TypeOK
    WaitsWhole
    ToldIsStored
PROPERTIES
    ImplementsTransfer
    RetrySucceeds
CHECK_DEADLOCK FALSE
