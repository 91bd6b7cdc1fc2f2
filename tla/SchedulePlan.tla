----------------------------- MODULE SchedulePlan -----------------------------
(***************************************************************************)
(* What an audit's configuration asks of EventBridge Scheduler: the window *)
(* is resolved, the configuration is validated, and ScheduleBuilder turns  *)
(* it into one-time schedules, each with a name, a time and the event it   *)
(* delivers.  The handler of the event judges it by the audit item, which  *)
(* was written by another command, at another time.                        *)
(*                                                                         *)
(* Times are minutes (UTC) since the midnight before the first command; a  *)
(* time zone is its offset.  None stands for a key that is not given.  The *)
(* identifiers are left out of names and occurrence ids, but for the       *)
(* length of rcp-{stage}-{client_id}-{audit_id}; a hash stands for what is *)
(* hashed.                                                                 *)
(***************************************************************************)
EXTENDS AuditScheduling, Integers, Functions

CONSTANTS AuditConfigs,  \* audit configurations
          CreatedAt,     \* when `rcp audit create` runs
          Delays         \* minutes from there to the schedule command

None == -1

MAX_AUDIT_WINDOW == 48 * 60
MAX_BASELINE_OCCURRENCES_PER_AUDIT == 192
AWS_SCHEDULER_NAME_MAX_LENGTH == 64

Scenarios ==
  {"baseline_health", "burst_stability", "repeated_stability", "timeout_sensitivity"}

\* What a configuration holds; ends and durations may still be nonsense.
AuditConfig ==
  [start_time : Nat \cup {None}, end_time : Nat \cup {None}, duration : Int,
   offset : Int, environment : STRING, prefix_length : Nat, finalization : BOOLEAN,
   baseline : [enabled : BOOLEAN, interval : Int, requests : Int,
               scenario_type : Scenarios],
   burst : [enabled : BOOLEAN,
            windows : Seq([start_time : Nat, duration : Int, requests : Int,
                           concurrency : Int, scenario_type : Scenarios])],
   repeated : Seq([enabled : BOOLEAN, schedule_time : Nat \cup {None},
                   iterations : Int, scenario_type : Scenarios]),
   token : Nat \cup {None}]

ASSUME PlanAssumption ==
  /\ AuditConfigs \subseteq AuditConfig
  /\ CreatedAt \subseteq Nat
  /\ Delays \subseteq Nat

-----------------------------------------------------------------------------
(***************************************************************************)
(* Validation                                                              *)
(***************************************************************************)

Production(config) == config.environment \in {"production", "production allowed"}

EnvironmentAllowed(config) == config.environment # "production"

effective_caps(config) ==
  IF Production(config)
  THEN [requests |-> 25, burst |-> 100, concurrency |-> 2, iterations |-> 100]
  ELSE [requests |-> 100, burst |-> 500, concurrency |-> 5, iterations |-> 100]

\* The window a command works with; now is its own clock.
audit_window(config, now) ==
  LET start == IF config.start_time = None THEN now ELSE config.start_time
  IN  [start_time |-> start,
       end_time |-> IF config.end_time = None THEN start + config.duration
                    ELSE config.end_time]

validate_audit_window(config, window) ==
  /\ config.duration > 0
  /\ config.duration <= MAX_AUDIT_WINDOW
  /\ window.end_time > window.start_time
  /\ window.end_time - window.start_time <= MAX_AUDIT_WINDOW

RepeatedAt(repeated, window) ==
  IF repeated.schedule_time = None THEN window.start_time ELSE repeated.schedule_time

\* The windows are validated whether or not they are enabled.
validate_schedule_config(config, window) ==
  LET caps == effective_caps(config)
  IN  /\ config.baseline.requests <= caps.requests
      /\ \A w \in Range(config.burst.windows) :
           /\ w.requests <= caps.requests
           /\ w.requests <= caps.burst
           /\ w.concurrency <= caps.concurrency
      /\ \A r \in Range(config.repeated) :
           /\ r.iterations > 0
           /\ r.iterations <= caps.iterations
           /\ RepeatedAt(r, window) + r.iterations <= window.end_time

TokenAccepted(config, now) == config.token = None \/ config.token > now

\* What is stored of a token that is accepted.
validate_token_metadata(config, window) ==
  [expires_at |-> config.token,
   expires_before_audit_end |-> config.token # None /\ config.token < window.end_time]

-----------------------------------------------------------------------------
(***************************************************************************)
(* ScheduleBuilder                                                         *)
(***************************************************************************)

NameLengths ==
  [baseline |-> 8, burst |-> 5, repeated |-> 8, finalization |-> 12,
   baseline_health |-> 15, burst_stability |-> 15, repeated_stability |-> 18,
   timeout_sensitivity |-> 19]

\* The full name when it fits, else a part of it and a hash of the name and of
\* the configuration.  token is what a longer name_prefix adds.
schedule_name(config, token, type, scenario, stable_config) ==
  LET length == config.prefix_length
                  + (IF token = None THEN 0 ELSE 17)
                  + 1 + NameLengths[type]
                  + (IF type = "finalization" THEN 0 ELSE 1 + NameLengths[scenario])
  IN  [full_name |-> <<token, type, scenario>>,
       suffix |-> IF length <= AWS_SCHEDULER_NAME_MAX_LENGTH THEN <<>> ELSE stable_config]

\* Mutant: the index is left out.
execution_payload_NoIndex(type, scenario, scheduled_at, index) ==
  <<type, scenario, scheduled_at>>

\* The schedule_occurrence_id of the payload.
execution_payload(type, scenario, scheduled_at, index) ==
  <<type, scenario, scheduled_at>> \o (IF index = None THEN <<>> ELSE <<index>>)

\* A ScheduleDefinition: its name, when it fires, the occurrence it delivers
\* and when the work it asks for is over.
definition(name, type, scenario, at, index, over) ==
  [name |-> name, schedule_type |-> type, scenario_type |-> scenario, at |-> at,
   occurrence |-> execution_payload(type, scenario, at, index), over |-> over,
   requests |-> 0, concurrency |-> 0, iterations |-> 0]

\* start, start + interval, ... before the end of the window.
baseline_occurrence_times(window, interval) ==
  [k \in 1 .. (window.end_time - window.start_time + interval - 1) \div interval |->
     window.start_time + (k - 1) * interval]

BaselineAccepted(config, window) ==
  /\ config.baseline.interval > 0
  /\ Len(baseline_occurrence_times(window, config.baseline.interval))
       <= MAX_BASELINE_OCCURRENCES_PER_AUDIT

\* Mutant: the occurrence is not part of a name that fits.
baseline_name_NoToken(config, at) ==
  schedule_name(config, None, "baseline", config.baseline.scenario_type, <<at>>)

\* A baseline name that needs no hash gets the time of its occurrence, and may
\* need one then.
baseline_name(config, at) ==
  LET scenario == config.baseline.scenario_type
      name == schedule_name(config, None, "baseline", scenario, <<at>>)
  IN  IF name.suffix # <<>> THEN name
      ELSE schedule_name(config, at, "baseline", scenario, <<at>>)

build_baseline(config, window) ==
  LET times == baseline_occurrence_times(window, config.baseline.interval)
  IN  [k \in DOMAIN times |->
         definition(baseline_name(config, times[k]), "baseline",
                    config.baseline.scenario_type, times[k], None, times[k])]

\* HH:MM in the audit's time zone, on the UTC date of the audit's start.
burst_start(config, window, burst) ==
  (window.start_time \div 1440) * 1440 + burst.start_time - config.offset

\* Mutant: only the start is held against the window.
burst_window_times_StartOnly(config, window, burst) ==
  /\ burst.duration > 0 /\ burst.requests > 0 /\ burst.concurrency > 0
  /\ burst_start(config, window, burst) >= window.start_time
  /\ burst_start(config, window, burst) <= window.end_time

burst_window_times(config, window, burst) ==
  /\ burst.duration > 0 /\ burst.requests > 0 /\ burst.concurrency > 0
  /\ burst_start(config, window, burst) >= window.start_time
  /\ burst_start(config, window, burst) + burst.duration <= window.end_time

build_burst(config, window, burst, index) ==
  LET start == burst_start(config, window, burst)
      name == schedule_name(config, None, "burst", burst.scenario_type, <<index, start>>)
  IN  [definition(name, "burst", burst.scenario_type, start, index,
                  start + burst.duration)
         EXCEPT !.requests = burst.requests, !.concurrency = burst.concurrency]

build_repeated(config, window, repeated, index) ==
  LET at == RepeatedAt(repeated, window)
      name == schedule_name(config, None, "repeated", repeated.scenario_type,
                            <<index, at>>)
  IN  [definition(name, "repeated", repeated.scenario_type, at, index,
                  at + repeated.iterations)
         EXCEPT !.iterations = repeated.iterations]

build_finalization(config, window) ==
  LET end == window.end_time
      name == schedule_name(config, None, "finalization", "finalization",
                            <<window.start_time, end>>)
  IN  [definition(name, "finalization", "finalization", end, None, end)
         EXCEPT !.occurrence = <<"finalization", end>>]

\* The numbers of S in ascending order.
Ascending(S) ==
  CHOOSE s \in [1 .. Cardinality(S) -> S] : \A j, k \in DOMAIN s : j < k => s[j] < s[k]

\* The definitions, in the order the schedules are created.
build_all(config, window) ==
  LET windows == config.burst.windows
      bursts == IF config.burst.enabled
                THEN [i \in DOMAIN windows |-> build_burst(config, window, windows[i], i)]
                ELSE <<>>
      enabled == Ascending({i \in DOMAIN config.repeated : config.repeated[i].enabled})
      repeated == [k \in DOMAIN enabled |->
                     build_repeated(config, window, config.repeated[enabled[k]], enabled[k])]
  IN  (IF config.baseline.enabled THEN build_baseline(config, window) ELSE <<>>)
      \o bursts \o repeated
      \o (IF config.finalization THEN <<build_finalization(config, window)>> ELSE <<>>)

-----------------------------------------------------------------------------
(***************************************************************************)
(* The commands and the handler                                            *)
(***************************************************************************)

Now(i) == i.created_at + i.delay

\* The window the schedule command resolves and plans in.
PlanWindow(i) == audit_window(i.config, Now(i))

plan(i) == build_all(i.config, PlanWindow(i))

\* What the item says of the window and the token: `rcp audit create` wrote it
\* before the schedule command, schedule_audit writes it itself.  The
\* configuration that is stored keeps the window as the operator wrote it, so it
\* is resolved again when the audit is scheduled.
audit_item(i) ==
  IF i.kind = "schedule"
  THEN [audit_window |-> audit_window(i.config, i.created_at), temporary_token |-> None]
  ELSE [audit_window |-> PlanWindow(i),
        temporary_token |-> validate_token_metadata(i.config, PlanWindow(i)).expires_at]

\* The configurations that get as far as create_schedule.
Accepted(i) ==
  LET config == i.config
      window == PlanWindow(i)
  IN  /\ i.kind = "schedule" =>
           validate_audit_window(config, audit_window(config, i.created_at))
      /\ EnvironmentAllowed(config)
      /\ validate_audit_window(config, window)
      /\ validate_schedule_config(config, window)
      /\ TokenAccepted(config, Now(i))
      /\ config.baseline.enabled => BaselineAccepted(config, window)
      /\ config.burst.enabled =>
           \A w \in Range(config.burst.windows) : burst_window_times(config, window, w)

Inputs ==
  {i \in {[config |-> config, created_at |-> t, delay |-> n, kind |-> k] :
            config \in AuditConfigs, t \in CreatedAt, n \in Delays,
            k \in {"schedule", "schedule_audit"}} : Accepted(i)}

InWindow(item, d) ==
  d.at >= item.audit_window.start_time /\ d.at <= item.audit_window.end_time

TokenExpired(item, d) == item.temporary_token # None /\ item.temporary_token <= d.at

\* What a handler of the event checks, but for the lifecycle state.
ensure_execution_allowed(i, d) ==
  LET item == audit_item(i)
      caps == effective_caps(i.config)
  IN  /\ InWindow(item, d)
      /\ ~ TokenExpired(item, d)
      /\ d.requests <= caps.requests /\ d.requests <= caps.burst
      /\ d.concurrency <= caps.concurrency
      /\ d.iterations <= caps.iterations

Executions(i) == {d \in Range(plan(i)) : d.schedule_type # "finalization"}

-----------------------------------------------------------------------------
(***************************************************************************)
(* Properties                                                              *)
(***************************************************************************)

\* A command is about to call create_schedule for one of these inputs.
AtCreate(inputs) ==
  \E c \in Commands : command[c].pc = "create" /\ \E i \in inputs : i.kind = CommandKind[c]

\* Two burst windows, or two repeated schedules, of one scenario whose name is
\* short enough not to be hashed.
Twins(p) ==
  \E j, k \in DOMAIN p :
    /\ j # k /\ p[j].name = p[k].name /\ p[j].name.suffix = <<>>
    /\ p[j].schedule_type \in {"burst", "repeated"}

NameClashes ==
  {i \in Inputs : LET p == plan(i)
                  IN  /\ Cardinality({p[k].name : k \in DOMAIN p}) # Len(p)
                      /\ ~ Twins(p)}

\* The schedules a command is about to create have names of their own
\* (create_schedule of a name that exists fails, and the whole audit with it),
\* whichever of them are hashed, and baseline occurrences stay apart.  The
\* exception is two burst windows, or two repeated schedules, of one scenario
\* whose name is not hashed.
NamesIdentify == ~ AtCreate(NameClashes)

OccurrenceClashes ==
  {i \in Inputs : Cardinality({d.occurrence : d \in Range(plan(i))}) # Len(plan(i))}

\* No two schedules a command is about to create deliver the same occurrence,
\* not even two burst windows or two repeated schedules at the same time: the
\* second would be taken for a duplicate delivery and skipped.
OccurrencesIdentify == ~ AtCreate(OccurrenceClashes)

\* Why a handler may refuse an occurrence: the token has expired, as the
\* metadata of the audit said it would; the configuration fixes neither end of
\* the window, which was resolved twice; or a repeated schedule was given a time
\* before the window.
Foreseen(i, d) ==
  \/ /\ TokenExpired(audit_item(i), d)
     /\ validate_token_metadata(i.config, PlanWindow(i)).expires_before_audit_end
  \/ /\ i.config.start_time = None /\ i.config.end_time = None
     /\ i.kind = "schedule" /\ i.delay > 0
     /\ d.at > i.created_at + i.config.duration
  \/ d.schedule_type = "repeated" /\ d.at < PlanWindow(i).start_time

NotExecutable ==
  {i \in Inputs : \E d \in Executions(i) :
     \/ d.over > PlanWindow(i).end_time
     \/ ~ ensure_execution_allowed(i, d) /\ ~ Foreseen(i, d)}

\* The work of the schedules a command is about to create is over when the
\* finalization fires, and the handler refuses an occurrence only if the token
\* has expired, which the metadata stored with the audit said it would, if the
\* window was resolved twice because the configuration fixes neither end of it,
\* or if a repeated schedule was given a time before the window.
PlanIsExecutable == ~ AtCreate(NotExecutable)

=============================================================================
