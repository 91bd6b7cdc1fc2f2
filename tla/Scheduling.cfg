\* A schedule command races two cancellations, with two faults.
SPECIFICATION SchedulingSpec
CONSTANTS
  c1 = c1
  c2 = c2
  c3 = c3
  Commands = {c1, c2, c3}
  CommandKind <- ScheduleAndCancel
  ScheduleCount = 2
  MaxFaults = 2
  MaxHistory = 2
  AuditConfigs = {}
  CreatedAt = {}
  Delays = {}
CHECK_DEADLOCK FALSE
INVARIANTS
  SchedulingTypeOK
  NoSilentLeak
