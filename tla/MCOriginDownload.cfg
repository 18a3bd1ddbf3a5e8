CONSTANTS
  u1 = u1
  u2 = u2
  u3 = u3
  u4 = u4
  h1 = h1
  h2 = h2
  h3 = h3
  p1 = p1
  p2 = p2
  private = private
  Urls = {u1, u2, u3, u4}
  Empty = Empty
  Unresolvable = Unresolvable
  Refused = Refused
  NoLocation = NoLocation
  NoPeer = NoPeer
  Malformed = Malformed
  Addresses = {p1, p2, private}
  Public = {p1, p2}
  MaxCandidates = 2
  BodyLimit = 1
  MaxSize = 2
  MaxRedirects = 2
  Host <- MCHost
  LiteralAddress <- MCLiteralAddress
  Answers <- MCAnswers
  Statuses = {200, 302, 304}
  Deadline = 3
  Reserve = 1
  Horizon = 3
SPECIFICATION FairSpec
INVARIANTS
  PublicPeersOnly
  TransferWithinBudget
  DeliveredBody
  HopIsolation
PROPERTIES
  ImplementsFetch
  Termination
CHECK_DEADLOCK FALSE
