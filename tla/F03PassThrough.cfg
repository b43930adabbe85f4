\* Two commands, the first with a parameter and a reply of two bytes.
SPECIFICATION Spec
CONSTANTS
    Script <- MCScript
    Byte = {"ack", "bat", "zero"}
    maxReinit = 1
    Beyond = 4
INVARIANTS
    TypeOK
    PacketMode
    ReplyInOrder
PROPERTY InitEnds
\* A driver that failed to attach or was stopped rests.
CHECK_DEADLOCK FALSE
