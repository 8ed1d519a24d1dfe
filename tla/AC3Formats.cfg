SPECIFICATION Spec
CONSTANTS
  Settings <- MCSettings
  Sources <- MCSources
  Destinations <- MCDestinations
  Wishes <- MCWishes
  Buffers <- MCBuffers
  MaxCalls = 4
CONSTRAINT ConvertsInStereo
INVARIANTS FrameLengthsAgree ListedOpens SuggestedOpens RoomSuffices CallsProgress
\* Sessions end.
CHECK_DEADLOCK FALSE
