\* Buffers with and without max_len: growth up to SIZE_MAX, tail space beyond
\* max_len, seek and loop.
SPECIFICATION Spec
CONSTANTS
  NUL = NUL
  LF = LF
  CR = CR
  Junk = Junk
  Byte = {NUL, LF, CR}
  StartLen = 2
  BlockSize = 3
  MaxLens = {0, 3}
  SizeMax = 6
  Chunks <- MCChunks
  Requests = {0, 1, 4}
  LoopSettings <- MCLoops
  LoopFloor <- MCLoopFloor
INVARIANTS Bounds Initialised DeliversWritten FreespaceHonest Footprint
PROPERTY TapeSpec
