SPECIFICATION Spec
CONSTANTS
    Name = {default, other}
    default = default
    other = other
    Default = default
    MaxKeys = 2
    MaxFaults = 1
INVARIANTS TypeOK KeysSurvive StartsUnlessDamaged RewardsOwned
