SPECIFICATION Spec
CONSTANTS
    Slots = {s1, s2}
    Kinds <- MCAskKinds
    Policies <- MCPolicies
    Edits <- MCEdits
    Device <- MCDevice
    Session <- MCSession
    Pro = TRUE
    Budget = 2
    SoftAt = 1
    PrewarmMax = 1
    MaxSpent = 10
    Faults = {"upstream", "client"}
INVARIANT ReleaseIsCurrent
INVARIANT OvershootBounded
CONSTRAINT BilledOrEdited
SYMMETRY SlotSymmetry
CHECK_DEADLOCK FALSE
