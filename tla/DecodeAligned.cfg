SPECIFICATION LiveSpec
CONSTANTS
  Window = 6
  Lookahead = 4
  BufSize = 17
  BlocksPerFrame = 6
  Stride = 2
  SYNC = SYNC
  DATA = DATA
  Headers <- MCHeaders
  NSrc = 6
  NDst = 2
  Inputs <- AlignedInputs
  SrcSizes = {0, 1, 3, 8, 20}
  DstSizes = {1, 2, 5, 40}
INVARIANTS NoBlockDropped BlocksIntact OneModePerFrame
PROPERTIES ImplementsFrameStream AllDelivered
