\* A touchpad that is reset while the bus is open.
SPECIFICATION Spec
CONSTANTS
    Gate = Gate
    Other = {t1}
    NoThread = NoThread
    LastPage = 1
    PageSize = 4
    MaxInput = 2
    Request <- MCRequest
    MaxRetries = 1
INVARIANT ReconfigureCanLock
CHECK_DEADLOCK FALSE
