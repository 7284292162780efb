\* Two threads make requests while an event arrives.
SPECIFICATION Spec
CONSTANTS
  Thread = {t1, t2}
  None = None
  Ops <- MCUntimed
  EventTypes <- MCPlainEvent
  CheckQ = {TRUE}
  MaxCalls = 1
  MaxEvents = 1
  PeerMayClose = FALSE
INVARIANT ReplyMatches
CHECK_DEADLOCK FALSE
