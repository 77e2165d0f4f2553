SPECIFICATION Spec
CONSTANTS
    a = a
    b = b
    Sessions = {a, b}
    Tasks = {"t1", "t2", "t3"}
    SessionOf <- MCSessionOf
    Running = {a, b}
    Budget = 1
    MaxPeriod = 2
    MaxBilled = 4
    Faults = {"crash", "flush"}
INVARIANT NoneLost
INVARIANT SwitchTracksSpend
CHECK_DEADLOCK FALSE
