CONSTANTS
  InCalls = {i1}
  OutCalls = {o1}
  NoCall = NoCall
  MaxQueue = 3
  Policies = {"ring", "answer", "refuse"}
  HasFallback = FALSE
  BindMayFail = TRUE
  i1 = i1
  o1 = o1
SPECIFICATION Spec
INVARIANT CallHasDialog
INVARIANT MediaFollowsCall
INVARIANT ByeAwaitsAck
INVARIANT DelayedOfferWaits
CHECK_DEADLOCK FALSE
