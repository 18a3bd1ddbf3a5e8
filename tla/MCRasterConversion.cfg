CONSTANTS
  Files <- MCFiles
  Limits <- MCLimits
  MaxWidth = 14
  MaxHeight = 12
  MaxDataUrls = 3
  MaxDataUrlBytes = 3
  NoImage = NoImage
  Absent = Absent
SPECIFICATION Spec
INVARIANTS
  NeverUpscales
  OneLimitMet
  AspectKept
  WholePageShown
  FirstOpeningEntry
  EmbeddedWithinBudget
  PixelsBehindTheImage
CHECK_DEADLOCK FALSE
