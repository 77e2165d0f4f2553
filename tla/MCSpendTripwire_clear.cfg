SPECIFICATION Spec
CONSTANTS
    a = a
    Sessions = {a}
    Tasks = {"t1", "t2"}
    SessionOf <- MCSessionOf
    Fps = {"f"}
    Modes = {"block"}
    Repeats = 2
    Window = 1
    RateMultiplier = 0
    RateFloor = 0
    BaselineMin = 0
    MaxEvents = 3
    MaxTime = 0
    MaxRequests = 3
    MaxTrips = 2
    Faults = {}
INVARIANT ClearNoticed
CHECK_DEADLOCK FALSE
