SPECIFICATION Spec
CONSTANTS
    r1 = r1
    r2 = r2
    dev = dev
    Procs = {r1, r2, dev}
    Release = {r1, r2}
    Commands = {"key", "add", "in", "out"}
    MaxKeys = 3
    MaxFaults = 2
    Absent = Absent
    Torn = Torn
    Junk = Junk
SYMMETRY Symmetric
CONSTRAINT BeforeClash
INVARIANTS
    VaultOpens
CHECK_DEADLOCK FALSE
