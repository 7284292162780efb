\* Two threads make any two calls, disconnecting included.
SPECIFICATION Spec
CONSTANTS
  Thread = {t1, t2}
  None = None
  Ops <- MCAllCalls
  EventTypes <- MCEventWithBody
  CheckQ = {TRUE}
  MaxCalls = 2
  MaxEvents = 2
  PeerMayClose = TRUE
SYMMETRY MCSymmetry
INVARIANTS LockBalanced EventsInOrder SuccessHasPacket ReaderAlone
CHECK_DEADLOCK FALSE
