SPECIFICATION MCSpec
CONSTANTS
    MaxPins = 5
    RangeStart = 2
    RangeEnd = 4
    Stick <- MCStick
INVARIANTS
    TrackpointTypeOK
    ButtonsDense
    ClickFollowsPin
    ReportsFollowPins
    SticksExact
PROPERTY
    ImplementsButtons
CHECK_DEADLOCK FALSE
