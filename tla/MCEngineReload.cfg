SPECIFICATION Spec
CONSTANTS
    LastDay = 4
    Texts <- MCTexts
    Loadable <- MCLoadable
    Trusted = {"release"}
    NoFile = NoFile
    Rejected = Rejected
    NoLicense = NoLicense
    Default = Default
    Override = "warn"
    Dates = {0, 2, 3}
    MaxWrites = 3
    MaxBoots = 2
    MaxDrops = 1
INVARIANT FollowsOrTold
INVARIANT TierTold
PROPERTY ClockOnlyExpires
CHECK_DEADLOCK FALSE
