SPECIFICATION Spec
CONSTANTS
  Window = 6
  Lookahead = 4
  BufSize = 17
  BlocksPerFrame = 6
  Stride = 2
  SYNC = SYNC
  DATA = DATA
  Headers <- MCHeaders
  NSrc = 6
  NDst = 6
  Inputs <- PaddedInputs
  SrcSizes = {0, 3, 5, 7, 14}
  DstSizes = {40}
INVARIANTS BlocksIntact
