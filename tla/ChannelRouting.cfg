SPECIFICATION Spec
CONSTANTS
  Streams <- GoodStreams
INVARIANTS
  ChannelsInPlace
  OverlapMatches
  BiasOnce
  RoundTrip
  FullScale
