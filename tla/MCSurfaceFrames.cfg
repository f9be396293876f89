SPECIFICATION FrameSpec
CONSTANTS
  Surfaces = {s1, s2}
  NoSurface = NoSurface
INVARIANTS FrameInv NothingIsForgotten
PROPERTY RequestsAreMet
