SPECIFICATION ChannelSpec
CONSTANTS
  Sounds <- MCSounds
  Exponents <- MCExponents
  FrameContents <- MCFrameContents
  Offsets <- MCOffsets
  SentParameters <- sent_bai
  EncoderAllocation <- ac3_parametric_bit_allocation
  DecoderAllocation <- a52_bit_allocate
INVARIANTS ExponentsAgree MantissasAgree LargestThatFit
