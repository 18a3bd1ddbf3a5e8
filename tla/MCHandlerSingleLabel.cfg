CONSTANTS
  Events <- SingleLabelEvents
  Texts <- MCTexts
  Locations <- MCLocations
  Dns <- MCDns
  Addresses <- MCAddresses
  Bodies <- SmallBodies
  MaxRedirects = 1
  NoPeer = NoPeer
SPECIFICATION Spec
INVARIANT NoSingleLabels
CHECK_DEADLOCK FALSE
