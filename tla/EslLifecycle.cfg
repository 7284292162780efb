\* Two handles and a listening loop share three descriptors.
SPECIFICATION Spec
CONSTANTS
  Handle = {h1, h2}
  Fd = {0, 1, 2}
  Free = Free
  App = App
  Listener = Listener
  InitialSock <- MCInvalid
  MayReattach = FALSE
  MaxCalls = 3
SYMMETRY MCSymmetry
INVARIANTS ClosesOwnOnly NoOrphans ConnectedOwnsSocket Authenticated
CHECK_DEADLOCK FALSE
