----------------------------- MODULE AuditReport -----------------------------
(***************************************************************************)
(* From the runs of an audit to its certified report: the engine executes  *)
(* runs of the configured endpoints, each run adds raw results, and what   *)
(* aggregation, intelligence, reporting and certification make of them is  *)
(* a function of the results.                                              *)
(*                                                                         *)
(* A run that ends in an error leaves no raw results, so it is not a step. *)
(* The results of one endpoint in one run all go the same way: an          *)
(* endpoint's results mix over the runs of the audit.                      *)
(***************************************************************************)
EXTENDS IntegrityDomains

CONSTANTS Order,             \* the endpoints in the order of the configuration
          Retries,           \* endpoint["retries"]
          PayloadIterations, \* configurations of endpoint["payload_iterations"]
          IterationCounts,   \* schedule iterations of a run
          RequestCounts,     \* requests that are asked of a burst
          AuditCap,          \* max_requests_per_run of the audit's operational_caps,
          EnvironmentCap,    \* and of its execution_environment; 0 when not given
          MaxRuns            \* bound: runs of the audit

ASSUME ConfigAssumption ==
  /\ Order \in Seq(Int) /\ IsInjective(Order) /\ Len(Order) > 0
  /\ PayloadIterations \subseteq [Range(Order) -> Nat \ {0}]
  /\ IterationCounts \subseteq Nat /\ RequestCounts \subseteq Nat
  /\ AuditCap \in Nat /\ EnvironmentCap \in Nat

VARIABLES payload_iterations,  \* [endpoint -> count], fixed by the configuration
          evidence,            \* [endpoint -> [outcome -> number of raw results]]
          runs                 \* runs that have written their results

vars == <<payload_iterations, evidence, runs>>

Endpoints == Range(Order)

MAX_REPEATED_ITERATIONS == 100
MAX_REQUESTS_PER_RUN == 100

-----------------------------------------------------------------------------
(***************************************************************************)
(* One request                                                             *)
(***************************************************************************)

\* What one attempt at a request ends in.
Attempts ==
  {"pass", "status", "unexpected", "no json", "timeout", "refused",
   "protocol", "unserializable", "internal"}

\* How evaluate_response judges a response.
evaluate_response(attempt) ==
  CASE attempt = "pass" -> "PASS"
    [] attempt = "status" -> "HTTP_ERROR"
    [] attempt = "unexpected" -> "ASSERTION_FAILURE"
    [] attempt = "no json" -> "INVALID_RESPONSE"

\* The attempts that requests reports as an exception, and may be retried.
Retried == [timeout |-> "TIMEOUT", refused |-> "CONNECTION_ERROR", protocol |-> "HTTP_ERROR"]

\* The attempts that end the loop without a response.
Broken == [unserializable |-> "PAYLOAD_VALIDATION_ERROR", internal |-> "RUNNER_ERROR"]

FailureTypeOf(attempt) ==
  CASE attempt \in DOMAIN Retried -> Retried[attempt]
    [] attempt \in DOMAIN Broken -> Broken[attempt]
    [] attempt \notin DOMAIN Retried \cup DOMAIN Broken -> evaluate_response(attempt)

\* The attempt that ends the loop: the first that is not retried, else the last.
Final(attempts) ==
  LET ends == {i \in DOMAIN attempts : attempts[i] \notin DOMAIN Retried}
  IN  IF ends = {} THEN Len(attempts) ELSE Min(ends)

\* The failure type of a request whose payload was prepared.
execute(attempts) == FailureTypeOf(attempts[Final(attempts)])

\* The payload was not accepted: nothing is sent.
NotPrepared == [type |-> "PAYLOAD_VALIDATION_ERROR", ms |-> NoDuration]

\* The last attempt takes any number of whole milliseconds, rounded down: none
\* when requests gives up before it sends anything.
RunnerOutcomes ==
  {NotPrepared}
    \cup [type : {execute(a) : a \in [1 .. Retries + 1 -> Attempts]}, ms : Nat]

ASSUME OutcomesAssumption == Outcomes \subseteq RunnerOutcomes /\ IsFiniteSet(Outcomes)

-----------------------------------------------------------------------------
(***************************************************************************)
(* Runs                                                                    *)
(***************************************************************************)

\* counts[e] more results of endpoint e, that went as outcome[e].
Recorded(counts, outcome) ==
  [e \in Endpoints |->
     [o \in Outcomes |-> evidence[e][o] + IF o = outcome[e] THEN counts[e] ELSE 0]]

\* The requests of a burst go round the endpoints, starting at the first one.
BurstShare(r) ==
  [e \in Endpoints |-> Cardinality({n \in 1 .. r : Order[((n - 1) % Len(Order)) + 1] = e})]

\* The cap of the first source that gives one.
effective_caps(sources) ==
  LET given == {i \in DOMAIN sources : sources[i] > 0}
  IN  IF given = {} THEN MAX_REQUESTS_PER_RUN ELSE sources[Min(given)]

\* The handler of a scheduled burst knows the cap of the environment only.
ensure_execution_allowed(requested) == requested <= effective_caps(<<EnvironmentCap>>)

\* The requests of a burst. A manual one is cut to the cap; a scheduled one that
\* exceeds it is a configuration error, and the run fails.
resolve_burst_plan(mode, requested) ==
  LET cap == effective_caps(<<AuditCap, EnvironmentCap>>)
  IN  CASE mode = "manual_fallback" -> {Min({requested, cap})}
        [] mode = "scheduled_window" /\ ensure_execution_allowed(requested) ->
             {requested} \cap 1 .. cap
        [] mode = "scheduled_window" /\ ~ensure_execution_allowed(requested) -> {}

\* The schedule iterations of a run: more than the cap is a configuration error.
resolve_schedule_iteration_count(k) == {k} \cap 1 .. MAX_REPEATED_ITERATIONS

Init ==
  /\ payload_iterations \in PayloadIterations
  /\ evidence = [e \in Endpoints |-> [o \in Outcomes |-> 0]]
  /\ runs = 0

\* A baseline run (one schedule iteration) or a repeated one.
ExecuteIterations(k, outcome) ==
  /\ runs < MaxRuns
  /\ \E n \in resolve_schedule_iteration_count(k) :
       evidence' = Recorded([e \in Endpoints |-> n * payload_iterations[e]], outcome)
  /\ runs' = runs + 1
  /\ UNCHANGED payload_iterations

ExecuteBurst(mode, r, outcome) ==
  /\ runs < MaxRuns
  /\ \E n \in resolve_burst_plan(mode, r) : evidence' = Recorded(BurstShare(n), outcome)
  /\ runs' = runs + 1
  /\ UNCHANGED payload_iterations

Next ==
  \E outcome \in [Endpoints -> Outcomes] :
    \/ \E k \in IterationCounts : ExecuteIterations(k, outcome)
    \/ \E r \in RequestCounts, mode \in {"manual_fallback", "scheduled_window"} :
         ExecuteBurst(mode, r, outcome)

Spec == Init /\ [][Next]_vars

-----------------------------------------------------------------------------
(***************************************************************************)
(* What is made of the evidence                                            *)
(***************************************************************************)

aggregates == build_aggregates(evidence)

report == build(assemble_artifact(aggregates), "report")

terminal_state == determine_terminal_state(report, metadata_of(report))

Results(e) == Total(evidence[e], Outcomes)

Sections == Range(report.endpoints)

-----------------------------------------------------------------------------
(***************************************************************************)
(* Properties                                                              *)
(***************************************************************************)

AtMost(results, v) == Total(results, {o \in Timed : 1000 * o.ms <= v})
Below(results, v) == Total(results, {o \in Timed : 1000 * o.ms < v})

\* v is the least duration that at least pct per cent of the n results do not exceed.
IsPercentile(results, v, pct, n) ==
  /\ 100 * AtMost(results, v) >= pct * n
  /\ 100 * Below(results, v) < pct * n

(***************************************************************************)
(* The percentiles of a report are the nearest-rank percentiles of the raw *)
(* durations, for every number of results, and they are in order: the rank *)
(* is clamped and rounded up at the edges 1, 20 and 100                    *)
(* (aggregation/engine.py, _nearest_rank).                                 *)
(***************************************************************************)
PercentilesAreRanks ==
  \A s \in Sections :
    LET l == s.reliability_metrics.latency
        results == evidence[s.endpoint_id]
    IN  l.count > 0 =>
          /\ IsPercentile(results, l.p95, 95, l.count)
          /\ IsPercentile(results, l.p99, 99, l.count)
          /\ l.min <= l.median /\ l.median <= l.p95
          /\ l.p95 <= l.p99 /\ l.p99 <= l.max
          /\ l.min <= l.mean /\ l.mean <= l.max

(***************************************************************************)
(* The five labels of an endpoint, computed by three analyses from         *)
(* different thresholds, never contradict each other: a stable success     *)
(* rate is a consistent outcome, a suspected burst of timeouts is a        *)
(* degraded success rate, a suspected spike is a degraded latency, unless  *)
(* 95 per cent of the results took no time at all: latency_stability_v1    *)
(* then has no ratio to hold the maximum against (stability.py).           *)
(***************************************************************************)
LabelsAgree ==
  \A s \in Sections :
    LET stability == s.stability_analysis.label
        burst == s.burst_analysis.label
    IN  /\ stability.success_rate = "STABLE" => s.consistency_analysis.label = "CONSISTENT"
        /\ burst.failure = "BURST_SUSPECTED" => stability.success_rate = "DEGRADED"
        /\ burst.spike = "SPIKE_SUSPECTED" /\ s.reliability_metrics.latency.p95 > 0
             => stability.latency = "DEGRADED"

(***************************************************************************)
(* The score of the audit follows what happened: LOW when every result     *)
(* failed, HIGH when every result passed and every endpoint has enough of  *)
(* them, and never HIGH while no endpoint has five results (missing data   *)
(* is neutral, neither reward nor penalty: constants.py, LABEL_TO_SCORE).  *)
(***************************************************************************)
ScoreFollowsOutcome ==
  LET label == report.executive_summary.score_label
      passed == aggregates.request_counts.successful
      observed == Observed(evidence)
  IN  observed # {} =>
        /\ passed = 0 => label = "LOW_CONFIDENCE"
        /\ ( /\ passed = aggregates.request_counts.total
             /\ \A e \in observed : Results(e) >= MIN_EXECUTION_COUNT )
             => label = "HIGH_CONFIDENCE"
        /\ (\A e \in observed : Results(e) < MIN_LATENCY_COUNT)
             => label # "HIGH_CONFIDENCE"

(***************************************************************************)
(* Of a report that the platform generated itself, the forty checks        *)
(* of the eight domains find fault with one thing only: it is certified    *)
(* exactly when it has results and no two endpoints differ by more than    *)
(* one in their number (SI-2). Bursts start at the first endpoint every    *)
(* time, so two bursts of an odd number of requests are already too much.  *)
(***************************************************************************)
CertifiedIffEven ==
  terminal_state = "CERTIFIED" <=>
    /\ Observed(evidence) # {}
    /\ \A e, f \in Observed(evidence) : Results(e) <= Results(f) + 1

=============================================================================
