CONSTANTS
  Events <- MCEvents
  Texts <- MCTexts
  Locations <- MCLocations
  Dns <- MCDns
  Addresses <- MCAddresses
  Bodies <- MCBodies
  MaxRedirects = 1
  NoPeer = NoPeer
SPECIFICATION Spec
INVARIANTS
  QueryReadsFields
  PeersAreRoutable
  HostnamesFitTheWire
  AnswersTheTable
  SniffsAsSpecified
CHECK_DEADLOCK FALSE
