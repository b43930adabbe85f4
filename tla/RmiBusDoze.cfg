\* Where F01 thinks that the doze registers are.
SPECIFICATION Spec
CONSTANTS
    Device <- MCDevice
    LastPage = 4
    MaxIrqs = 3
    RegBits = 2
    ForwardsOpen = TRUE
INVARIANT DozeApart
CHECK_DEADLOCK FALSE
