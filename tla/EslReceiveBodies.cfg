\* The body of a message as it was sent.
SPECIFICATION Spec
CONSTANTS
  NUL = NUL
  LF = LF
  CR = CR
  None = None
  BadLength = BadLength
  Byte <- MCByte
  Header <- MCHeader
  NameOf <- MCNameOf
  ValueOf <- MCValueOf
  LengthOf <- MCLengthOf
  Messages <- MCTwoMessages
  HeaderMax = 6
  BufferMax = 8
  MaxMessages = 2
  MaxCalls = 3
  Interrupts = FALSE
INVARIANT BodiesIntact
CHECK_DEADLOCK FALSE
