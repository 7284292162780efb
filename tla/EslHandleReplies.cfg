\* Two threads make requests; the server sends nothing but replies.
SPECIFICATION Spec
CONSTANTS
  Thread = {t1, t2}
  None = None
  Ops <- MCRequests
  EventTypes <- MCPlainEvent
  CheckQ = {TRUE}
  MaxCalls = 3
  MaxEvents = 0
  PeerMayClose = TRUE
INVARIANT RepliesMatchInTime
PROPERTY SendRecvReturns
CHECK_DEADLOCK FALSE
