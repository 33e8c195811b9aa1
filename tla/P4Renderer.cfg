SPECIFICATION Spec
CONSTANTS
    Slots = 1
    Leases = 2
INVARIANTS UnitsPassThrough PaintsBackSurface EndIsReported
CHECK_DEADLOCK FALSE
