\* Two threads send any two commands over a socket that may fill up or break.
SPECIFICATION Spec
CONSTANTS
  Thread = {t1, t2}
  None = None
  Char <- MCChar
  Request <- MCRequest
  CmdSize = 3
  AppSize = 4
  ArgSize = 4
  SendSize = 20
  LineSize = 7
  Reserve = 5
  Room = 2
  MaxCalls = 2
INVARIANTS BytesInOrder CommandsWhole SaysAll
PROPERTY SendReturns
CHECK_DEADLOCK FALSE
