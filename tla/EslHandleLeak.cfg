\* One thread disconnects while the other one starts to receive.
SPECIFICATION Spec
CONSTANTS
  Thread = {t1, t2}
  None = None
  Ops <- MCOneDisconnects
  EventTypes <- MCPlainEvent
  CheckQ = {TRUE}
  MaxCalls = 1
  MaxEvents = 0
  PeerMayClose = FALSE
PROPERTY DisconnectReturns
CHECK_DEADLOCK FALSE
