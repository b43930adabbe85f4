\* Over a transport whose handleOpen does not call RMITransport's, as I2C.
SPECIFICATION Spec
CONSTANTS
    Device <- MCDevice
    LastPage = 4
    MaxIrqs = 3
    RegBits = 2
    ForwardsOpen = FALSE
INVARIANT QuietAfterClose
CHECK_DEADLOCK FALSE
