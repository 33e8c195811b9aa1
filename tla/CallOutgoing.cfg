CONSTANTS
  InCalls = {}
  OutCalls = {o1,o2}
  NoCall = NoCall
  MaxQueue = 2
  Policies = {}
  HasFallback = TRUE
  BindMayFail = TRUE
  o1 = o1
  o2 = o2
SPECIFICATION FairSpec
INVARIANT CallInv
INVARIANT IdleIsReusable
PROPERTY TerminationEnds
PROPERTY AttemptResolves
CHECK_DEADLOCK FALSE
