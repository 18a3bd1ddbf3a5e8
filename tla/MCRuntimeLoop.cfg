CONSTANTS
  i1 = i1
  i2 = i2
  i3 = i3
  t1 = t1
  t2 = t2
  t3 = t3
  Invocations = {i1, i2, i3}
  Traces = {t1, t2, t3}
  TraceOf <- MCTraceOf
  NoInvocation = NoInvocation
SPECIFICATION FairSpec
INVARIANTS
  OneSubmission
  SettledBeforePoll
  TraceIsCurrent
PROPERTIES
  EventuallySettled
  ImplementsService
