SPECIFICATION Spec
CONSTANTS
    a = a
    Sessions = {a}
    Tasks = {"t1", "t2"}
    SessionOf <- MCSessionOf
    Fps = {"f", "g"}
    Modes = {"block", "alert", "off"}
    Repeats = 2
    Window = 1
    RateMultiplier = 1
    RateFloor = 1
    BaselineMin = 1
    MaxEvents = 2
    MaxTime = 2
    MaxRequests = 3
    MaxTrips = 2
    Faults = {"restart", "save", "hangup"}
INVARIANT StandingTripNoticed
INVARIANT RepeatExact
CHECK_DEADLOCK FALSE
