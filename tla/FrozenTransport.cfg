SPECIFICATION Spec
CONSTANTS
    Peers = {p, q}
    Dials = 1
    Conns = 3
    Inputs = 2
    MaxRx = 3
PROPERTY OwnedTransportIsFrozen
CHECK_DEADLOCK FALSE
