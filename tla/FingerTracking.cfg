\* Two fingers, enough for a gesture and its thumb, a trackpoint, and a keyboard
\* thread that interferes.
SPECIFICATION Spec
CONSTANTS
    FingerCount = 2
    TypeCount = 4
    ThumbAt = 2
    GestureOver = 1
    KeyboardThread = TRUE
    ForceTouchTypes = {"DISABLE", "CLICK_AND_SIZE"}
INVARIANTS
    TypeOK
    TypesExclusive
    PacketSound
PROPERTY InvalidUnlessJudged
