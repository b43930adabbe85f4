SPECIFICATION FunctionSpec
CONSTANTS
    Device <- MCDevice
    Device11 <- MCDevice11
    DeviceButtons <- MCDeviceButtons
INVARIANTS
    FunctionTypeOK
    DescriptorsExact
    TuningExact
    ConfigReaches20
    F11QueriesExact
    ReportsWhole
    PinsExact
    ControlsKept
CHECK_DEADLOCK FALSE
