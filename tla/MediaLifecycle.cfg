\* select() never fails
CONSTANT SelectMayFail = FALSE
SPECIFICATION FairSpec
INVARIANT IdleReleasesPort
INVARIANT SingleCompletion
INVARIANT StopIsClean
PROPERTY PathSpec
\* A stopped transport really stops.
CHECK_DEADLOCK FALSE
