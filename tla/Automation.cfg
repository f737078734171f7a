SPECIFICATION Spec
CONSTANTS
    Workflows <- MCWorkflows
    NoWorkflow = NoWorkflow
    EarlierArchive = EarlierArchive
    Owners = {1}
    Owned <- MCOwned
    AutomaticID <- MCAutomaticID
    MaxTime = 3
    MaximumActivityEvidenceAge = 1
    SleepAfter = 1
    ArchiveAfter = 1
    Lifetime = 2
    Extension = 1
    MaxSleepAfter = 2
    EarlyWarning = 2
    LateWarning = 1
    Scenarios = {TRUE, FALSE}
INVARIANT QueuedWarningsWereSent
PROPERTY AutomationIsEarned
CHECK_DEADLOCK FALSE
