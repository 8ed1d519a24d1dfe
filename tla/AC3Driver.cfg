SPECIFICATION Spec
CONSTANTS
  Drivers = {d1}
  Streams = {s1, s2}
  Blocks = {b1, b2}
  NULL = NULL
  Formats <- MCFormats
  Bitrates <- MCBitrates
  Settings <- MCSettings
SYMMETRY Alike
INVARIANTS DispatchMatchesOpen BlocksOwned EncoderSetForStream QueryPredictsOpen
