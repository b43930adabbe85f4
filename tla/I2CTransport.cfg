\* The work loop's thread and another one, two pages.
SPECIFICATION Spec
CONSTANTS
    Gate = Gate
    Other = {t1, t2}
    NoThread = NoThread
    LastPage = 1
    PageSize = 4
    MaxInput = 2
    Request <- MCRequest
    MaxRetries = 1
INVARIANTS
    TypeOK
    PageCoherent
    InterruptsFollowPower
PROPERTY KeepsPromise
\* A driver that failed to start, or whose threads wait for page_mutex, rests.
CHECK_DEADLOCK FALSE
