SPECIFICATION Spec
CONSTANTS
    Units = 4
    Numbers = 16
    Stream <- MCStream
    Base = 8
    Slots = 2
    MaxPackets = 3
    Pli = TRUE
INVARIANTS OneSlotFilling UnitsAreWhole
PROPERTY SkipIsAnswered
