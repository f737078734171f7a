SPECIFICATION Spec
CONSTANTS
    a1 = a1
    a2 = a2
    a3 = a3
    a4 = a4
    a5 = a5
    old = old
    second = second
    Attempts = {a1, a2, a3, a4, a5}
    Existing = {old, second}
    Owners = {"ann", "bob"}
    Workflows = {1, 2, 3, 4, 5}
    NoWorkflow = 0
    EarlierArchive = 9
    NoSession = NoSession
    Situations <- MCSituations
    MaxCandidate = 3
INVARIANTS
    SlugsAreUnique
    AcceptedIsKept
    DestructiveIsConfirmed
CHECK_DEADLOCK FALSE
