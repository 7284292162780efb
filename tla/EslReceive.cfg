\* Every message of the server's repertoire, every way to cut the stream.
SPECIFICATION Spec
CONSTANTS
  NUL = NUL
  LF = LF
  CR = CR
  None = None
  BadLength = BadLength
  Byte <- MCByte
  Header <- MCHeader
  NameOf <- MCNameOf
  ValueOf <- MCValueOf
  LengthOf <- MCLengthOf
  Messages <- MCMessages
  HeaderMax = 6
  BufferMax = 8
  MaxMessages = 2
  MaxCalls = 3
  Interrupts = TRUE
INVARIANTS DecodesStream InnerIsCurrent
PROPERTIES FailureIsFinal ReturnsWhenPeerIsGone
CHECK_DEADLOCK FALSE
