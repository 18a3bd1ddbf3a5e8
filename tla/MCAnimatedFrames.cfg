CONSTANTS
  MaxFrames = 3
  MaxPixels = 5
  MaxTimestamp = 3700
  PixelCounts = {1, 2}
  Durations = {0, 1, 9, 30}
  Clocks <- MCClocks
SPECIFICATION Spec
INVARIANTS
  CapsAreExact
  AlphaInStep
  StartTimes
CHECK_DEADLOCK FALSE
