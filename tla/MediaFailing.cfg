\* select() can fail
CONSTANT SelectMayFail = TRUE
SPECIFICATION FairSpec
INVARIANT MediaOwnsSocket
INVARIANT NoLostWakeup
PROPERTY CleaningEnds
PROPERTY StopReturns
\* A stopped transport really stops.
CHECK_DEADLOCK FALSE
