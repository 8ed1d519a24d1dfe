SPECIFICATION LiveSpec
CONSTANTS
  Needed = 4
  FrameSize = 3
  PcmLength = 12
  SrcSizes <- MCSrcSizes
  DstSizes <- MCDstSizes
INVARIANTS PcmInOrder OutInOrder Ledger
PROPERTY AllDelivered
