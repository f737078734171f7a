SPECIFICATION Spec
CONSTANTS
    Sessions = {1, 2, 3}
    States = {"RUNNING", "SLEEPING", "DELETED"}
    Wanted = {"RUNNING", "SLEEPING"}
    None = None
    Situations <- MCSituations
    PageSize = 1
    BackfillLimit = 2
INVARIANTS
    CutoverIsComplete
    UnmovedAreListed
CHECK_DEADLOCK FALSE
