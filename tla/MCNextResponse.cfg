CONSTANTS
  HeaderCap = 3
  EventCap = 2
  ReadSize = 4
  MaxHeader = 4
  MaxContent = 3
  MaxLines = 6
SPECIFICATION Spec
INVARIANTS
  EventIsPrefix
  InvocationIsWhole
  GoodAnswerAccepted
CHECK_DEADLOCK FALSE
