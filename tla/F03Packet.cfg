\* A trackpoint that keeps announcing itself.
SPECIFICATION Spec
CONSTANTS
    Script <- MCScript
    Byte = {"ack", "bat", "zero"}
    maxReinit = 1
    Beyond = 4
PROPERTY PacketFits
CHECK_DEADLOCK FALSE
