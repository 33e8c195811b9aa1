SPECIFICATION Spec
CONSTANTS
    YuvSlots = 1
    EncSlots = {e1, e2}
    NoSlot = NoSlot
    Deadlines = TRUE
    TxSlots = 1
    Pacing = TRUE
SYMMETRY Symmetry
INVARIANTS SlotsAreOwned CameraOff WakeUpsArrive
CHECK_DEADLOCK FALSE
