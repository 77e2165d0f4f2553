SPECIFICATION FairSpec
CONSTANTS
    Slots = {"s1"}
    Kinds <- MCKinds
    Policies <- MCAllPolicies
    Edits <- MCFewEdits
    Device <- MCDevice
    Session <- MCSession
    Pro = TRUE
    Budget = 2
    SoftAt = 1
    PrewarmMax = 0
    MaxSpent = 3
    Faults = {"upstream", "client", "audit"}
INVARIANT OverridesHold
INVARIANT DeliveredIsRecorded
INVARIANT BilledOnce
INVARIANT RewriteAnnounced
PROPERTY StreamsSettle
CHECK_DEADLOCK FALSE
