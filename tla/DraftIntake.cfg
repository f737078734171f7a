SPECIFICATION Spec
CONSTANTS
    f1 = f1
    f2 = f2
    f3 = f3
    m1 = m1
    m2 = m2
    m3 = m3
    Forms = {f1, f2, f3}
    Messages = {m1, m2, m3}
    Default = "default"
    None = "none"
    Situations <- MCSituations
    MaxReceives = 2
INVARIANTS
    UploadOutcomeIsKept
    ReadyWaitsForServerMods
    AutomaticStartIsOnce
    MarkerIsPending
PROPERTY
    LoadedIsKeptUntilWoken
CHECK_DEADLOCK FALSE
