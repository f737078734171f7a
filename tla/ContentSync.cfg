SPECIFICATION Spec
CONSTANTS
    Syncs = {1, 2}
    Operations = {3, 4}
    NoWorkflow = 0
    InitialLives = {"SLEEPING"}
    MaxRevision = 2
    MaxSnapshot = 1
INVARIANTS
    RevisionsAreValid
    ActiveIsInstalled
    AttachedMissionsAreOnHost
CHECK_DEADLOCK FALSE
