\* Two schedule commands, one of each kind, race each other and a cancellation;
\* and the plans of the configurations they may have.
SPECIFICATION SchedulingSpec
CONSTANTS
  c1 = c1
  c2 = c2
  c3 = c3
  Commands = {c1, c2, c3}
  CommandKind <- ScheduleTwice
  ScheduleCount = 2
  MaxFaults = 0
  MaxHistory = 2
  AuditConfigs <- MCAuditConfigs
  CreatedAt = {600}
  Delays = {0, 17}
CHECK_DEADLOCK FALSE
INVARIANTS
  AllOrNothing
  NamesIdentify
  OccurrencesIdentify
  PlanIsExecutable
