SPECIFICATION Spec
CONSTANTS
    Procs = {p1, p2}
    NoProc = NoProc
    NoEvent = NoEvent
    Entries <- MCEntries
    InitialLogs <- MCLogs
    Faults = {"crash", "anchor", "diskfull", "loss", "edit"}
    MaxChunks = 3
    MaxKinds = 1
SYMMETRY Symmetry
INVARIANT ChainUnforked
INVARIANT AlarmsHaveCause
INVARIANT HashedEditDetected
PROPERTY AppendsAreAtomic
