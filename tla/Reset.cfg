SPECIFICATION Spec
CONSTANTS
    Sessions = {s1}
    Resets = {r1, r2}
    NoReset = NoReset
INVARIANTS
    LockNamesActiveReset
PROPERTIES
    SuccessLeavesNothing
CHECK_DEADLOCK FALSE
