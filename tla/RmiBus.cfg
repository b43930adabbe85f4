\* Over a transport that keeps track of being open, as SMBus.
SPECIFICATION Spec
CONSTANTS
    Device <- MCDevice
    LastPage = 4
    MaxIrqs = 3
    RegBits = 2
    ForwardsOpen = TRUE
INVARIANTS
    TypeOK
    MasksApart
    ScanComplete
    IrqsAsAsked
    AwakeWhenOn
    QuietAfterClose
PROPERTY AttendsReported
\* A driver that failed to start or was stopped comes to rest.
CHECK_DEADLOCK FALSE
