\* What must eventually happen, with one fault.
SPECIFICATION FairSpec
CONSTANTS
  o1 = o1
  o2 = o2
  w1 = w1
  w2 = w2
  f1 = f1
  f2 = f2
  NoOccurrence = NoOccurrence
  Occurrences = {o1, o2}
  MaxIterations = 1
  Iterations <- OneEach
  Rejected = {o2}
  Workers = {w1}
  Finalizers = {f1, f2}
  InvokerConfigured = TRUE
  MaxFaults = 1
  MaxHistory = 1
CHECK_DEADLOCK FALSE
PROPERTIES
  FinalizationDecides
  ClaimIsSettled
  AggregationFollowsCompletion
