SPECIFICATION Spec
CONSTANTS
    Peers = {p, q}
    Dials = 1
    Conns = 3
    Inputs = 3
    MaxRx = 3
SYMMETRY Symmetry
INVARIANTS FlowInv LossIsTold
PROPERTY CallKeepsConnection
CHECK_DEADLOCK FALSE
