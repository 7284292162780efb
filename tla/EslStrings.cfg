\* Every sequence over the alphabet of its kind, up to the length MaxLen
\* gives that kind.
SPECIFICATION Spec
CONSTANTS
  NUL = NUL
  LF = LF
  CR = CR
  Byte = {NUL, LF, CR, X}
  Section = {"one", "two"}
  MaxLen <- MCMaxLen
INVARIANTS
  LoopsAgree ReadsEveryPacket
  EncodesPrefix ValueSurvives FindsFirst Rejoins
  NothingBehindEnd LockedToItsSection PairIsClean CasBitsAreBinary
PROPERTY ChunkIndependent
CHECK_DEADLOCK FALSE
