\* Handles start as zeroed memory, as in the example client.
SPECIFICATION Spec
CONSTANTS
  Handle = {h1, h2}
  Fd = {0, 1, 2}
  Free = Free
  App = App
  Listener = Listener
  InitialSock = 0
  MayReattach = FALSE
  MaxCalls = 3
SYMMETRY MCSymmetry
INVARIANTS ClosesOwnOnly
CHECK_DEADLOCK FALSE
