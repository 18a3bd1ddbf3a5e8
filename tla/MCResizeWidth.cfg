CONSTANTS
  MaxWidth = 14
  MaxHeight = 12
  Loaded <- StripLoaded
  Pages <- StripPages
  Limits <- StripLimits
SPECIFICATION Spec
INVARIANT WidthLimitMet
CHECK_DEADLOCK FALSE
