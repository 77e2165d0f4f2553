SPECIFICATION AllSpec
CONSTANTS
    Device <- MCDevice
    Session <- MCSession
    Inputs <- MCInputs
    Doctors = {"p1", "p2"}
    Turns = {1, 2, 3}
    DoctorOf <- MCDoctorOf
    Keys = {"a"}
    Moves = {{"requests", "repairable"}}
    MaxMonth = 2
    MaxNoted = 2
INVARIANT RealOnlyWhereReleased
INVARIANT AnomalyTrips
INVARIANT DetectedNeverLeaves
INVARIANT RepairIsInvisible
INVARIANT DoctorExact
INVARIANT DoctorAddsUp
INVARIANT UsageBilled
INVARIANT EditIsLocal
INVARIANT WasteExact
INVARIANT ShadowTrue
INVARIANT DlpSound
INVARIANT ChildSeesDecoys
CHECK_DEADLOCK FALSE
