\* A hold is placed, released and placed again while evidence is written.
SPECIFICATION HoldSpec
CONSTANTS
  p1 = p1
  p2 = p2
  q1 = q1
  r1 = r1
  s1 = s1
  NoHold = NoHold
  Records = {r1}
  Objects = {s1}
  HoldCommands = {p1, p2, q1}
  Action <- PlaceAndRelease
  Overlapping = FALSE
  MaxAttempts = 2
  MaxVersion = 3
  MaxFaults = 1
CHECK_DEADLOCK FALSE
INVARIANTS
  HoldTypeOK
  RecordsMatchHold
  ObjectsMatchHold
PROPERTY VersionCountsTransitions
