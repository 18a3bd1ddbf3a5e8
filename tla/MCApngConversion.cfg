CONSTANTS
  Chunks <- MCChunks
  MaxChunks = 8
  Pixels = {p1, p2}
  Frames <- MCFrames
  MaxFrames = 3
  MaxTimestamp = 1000
SYMMETRY PixelSymmetry
SPECIFICATION ApngSpec
INVARIANTS
  ParsesTheGrammar
  FramesGetTheirData
  DisplayedLayers
  Timeline
CHECK_DEADLOCK FALSE
