SPECIFICATION Spec
CONSTANTS
    Workflows = {"sleep", "wake", "restart", "archive", "archive2", "restore", "restore2", "terminate"}
    NoWorkflow = NoWorkflow
    EarlierArchive = EarlierArchive
    TypeOf <- MCTypeOf
    Continuation <- MCContinuation
    Cancellable = {"archive"}
    Scenarios <- MCHosts
    MaxReceive = 1
INVARIANTS
    SessionIsValid
    LeaseIsRepairable
    InfrastructureIsRecorded
    HostMatchesLifecycle
    LeaseFencesWorkers
    DataSurvives
PROPERTIES
    DestroyedOnlyVerified
    DeletedIsFinal
CHECK_DEADLOCK FALSE
