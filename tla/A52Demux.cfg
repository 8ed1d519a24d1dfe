SPECIFICATION FairSpec
CONSTANTS
  Files <- SomeFiles
  BufferSizes <- SomeSizes
  PacketSize = 24
  HeadSize = 268
INVARIANTS
  HeadBufSafe
  PayloadInOrder
PROPERTIES
  AllDecoded
\* The programs end.
CHECK_DEADLOCK FALSE
