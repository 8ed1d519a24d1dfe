SPECIFICATION FairSpec
CONSTANTS
  Window = 6
  Lookahead = 4
  BufSize = 17
  BlocksPerFrame = 6
  Stride = 2
  SYNC = SYNC
  DATA = DATA
  Headers <- MCHeaders
  NSrc = 2
  NDst = 2
  Inputs <- DirtyInputs
  SrcSizes = {0, 1, 9}
  DstSizes = {1, 12}
INVARIANTS BufferSafe FrameFillsBuffer
PROPERTIES ReturnsWhenDone CallReturns
