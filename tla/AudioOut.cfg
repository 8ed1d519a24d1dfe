SPECIFICATION Spec
CONSTANTS
  Kinds <- SomeKinds
  Frames <- SomeFrames
INVARIANTS
  AnnouncedFormat
  SameFrameAccepted
