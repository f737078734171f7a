SPECIFICATION FairSpec
CONSTANTS
    Workflows = {"provision", "bootstrap"}
    NoWorkflow = NoWorkflow
    EarlierArchive = EarlierArchive
    TypeOf <- MCTypeOf
    Continuation <- MCContinuation
    Cancellable = {"bootstrap"}
    Scenarios <- MCFirstStart
    MaxReceive = 2
INVARIANTS
    TypeOK
    LeaseAgreement
    LifecycleIsDriven
    SucceededIsRecorded
PROPERTIES
    TerminalIsFinal
    LeaseSpec
    CommandSettles
CHECK_DEADLOCK FALSE
