SPECIFICATION FairSpec
CONSTANTS
  ChannelCounts = {1, 3, 4, 5, 6}
  frame_size = 768
  Contents <- MCContents
  Renewed <- MCRenewed
  MantissaBits <- MCMantissaBits
INVARIANTS AllocationMatchesHeader BestOffset FrameFits
PROPERTIES FrameIsWritten
