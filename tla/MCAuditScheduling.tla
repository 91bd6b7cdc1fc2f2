------------------------- MODULE MCAuditScheduling -------------------------
(***************************************************************************)
(* Instances of AuditScheduling for TLC, and the configurations for which  *)
(* SchedulePlan is checked.                                                *)
(***************************************************************************)
EXTENDS SchedulePlan

CONSTANTS c1, c2, c3

ScheduleAndCancel ==
  [c \in Commands |-> IF c = c1 THEN "schedule"
                      ELSE IF c = c2 THEN "cancel_for_operator" ELSE "cancel"]

ScheduleTwice ==
  [c \in Commands |-> IF c = c1 THEN "schedule"
                      ELSE IF c = c2 THEN "schedule_audit"
                      ELSE "cancel_for_operator"]

-----------------------------------------------------------------------------

Burst(at, duration, requests, scenario) ==
  [start_time |-> at, duration |-> duration, requests |-> requests,
   concurrency |-> 2, scenario_type |-> scenario]

Repeat(enabled, at, iterations) ==
  [enabled |-> enabled, schedule_time |-> at, iterations |-> iterations,
   scenario_type |-> "repeated_stability"]

NoBursts == [enabled |-> FALSE, windows |-> <<>>]

\* Prefixes of 20, 30 and 45 characters: a baseline name fits, fits without
\* the time of the occurrence only, and never fits.
MCAuditConfigs ==
  LET c == [start_time : {None, 600}, end_time : {None, 720}, duration : {60},
            offset : {0, -300}, environment : {"staging", "production allowed"},
            prefix_length : {20, 30, 45}, finalization : {TRUE},
            baseline : {[enabled |-> TRUE, interval |-> n, requests |-> 1,
                         scenario_type |-> "baseline_health"] : n \in {7, 15}},
            burst : {NoBursts}, repeated : {<<>>}, token : {None, 640}]
      bursts == {[enabled |-> TRUE,
                  windows |-> <<Burst(640, 20, 25, "burst_stability"),
                                Burst(640, n, 25, s)>>] :
                   n \in {20, 21}, s \in {"burst_stability", "timeout_sensitivity"}}
                \cup {[enabled |-> b, windows |-> <<Burst(340, 20, 26, "burst_stability")>>]
                         : b \in BOOLEAN}
      repeats == {<<Repeat(TRUE, None, 5), Repeat(TRUE, None, n)>> : n \in {5, 60, 61}}
                 \cup {<<Repeat(FALSE, None, 5), Repeat(TRUE, t, 20)>> : t \in {590, 640}}
  IN  c
      \cup {[x EXCEPT !.burst = b] : x \in c, b \in bursts}
      \cup {[x EXCEPT !.repeated = r] : x \in c, r \in repeats}
      \cup {[x EXCEPT !.duration = 2880, !.end_time = None,
                      !.baseline.enabled = b] :
              x \in {y \in c : y.offset = 0}, b \in BOOLEAN}

=============================================================================
