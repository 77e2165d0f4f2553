SPECIFICATION Spec
CONSTANTS
    p1 = p1
    c1 = c1
    Proxies = {p1}
    Running = {p1}
    Clis = {c1}
    CliRules = {"c"}
    HandRules = {"h"}
    MaxWrites = 5
    MaxHand = 2
    Faults = {"cli", "proxy", "hangup"}
INVARIANT LoadedWasBlessed
INVARIANT FollowsFiles
INVARIANT NotLaundered
INVARIANT AlwaysLoads
CHECK_DEADLOCK FALSE
