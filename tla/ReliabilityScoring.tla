------------------------- MODULE ReliabilityScoring -------------------------
(***************************************************************************)
(* What aggregation and reliability intelligence compute from the raw      *)
(* results of an audit: the aggregates (agg_v1) and the metrics, labels    *)
(* and scores of an endpoint and of the audit (intel_v1).                  *)
(*                                                                         *)
(* A raw result is the pair of its failure type and its duration; results  *)
(* are counted, never ordered, so the results of an endpoint are a bag.    *)
(* Every number the code keeps in three decimals is kept in thousandths.   *)
(***************************************************************************)
EXTENDS Integers, Sequences, FiniteSetsExt

CONSTANT Outcomes    \* the raw results that occur: [type, ms]

NoDuration == -1     \* duration_ms is None, or not a number >= 0

FailureTypes ==
  {"PASS", "ASSERTION_FAILURE", "HTTP_ERROR", "TIMEOUT", "CONNECTION_ERROR",
   "INVALID_RESPONSE", "RUNNER_ERROR", "PAYLOAD_VALIDATION_ERROR"}

MIN_EXECUTION_COUNT == 10
MIN_LATENCY_COUNT == 5
STABLE_THRESHOLD == 950
P99_MEAN_RATIO_THRESHOLD == 3
MAX_P95_RATIO_THRESHOLD == 2
MAX_P99_RATIO_THRESHOLD == 3
TIMEOUT_BURST_DIVISOR == 5            \* 0.20
VARIANCE_CONSISTENT_THRESHOLD == 50000
HIGH_CONFIDENCE_THRESHOLD == 800
MODERATE_CONFIDENCE_THRESHOLD == 500
ScoreLabels == {"HIGH_CONFIDENCE", "MODERATE_CONFIDENCE", "LOW_CONFIDENCE"}

\* quantize(..., ROUND_HALF_UP) of a quotient of naturals.
HalfUp(n, d) == (2 * n + d) \div (2 * d)

\* A ratio in thousandths.
Thousandths(n, d) == HalfUp(1000 * n, d)

-----------------------------------------------------------------------------
(***************************************************************************)
(* Aggregation                                                             *)
(***************************************************************************)

\* The sum of f over S.
Total(f, S) == MapThenSumSet(LAMBDA x : f[x], S)

Failing(type) == {o \in Outcomes : o.type = type}

request_counts(results) ==
  [total           |-> Total(results, Outcomes),
   successful      |-> Total(results, Failing("PASS")),
   failed          |-> Total(results, Outcomes \ Failing("PASS")),
   timeout         |-> Total(results, Failing("TIMEOUT")),
   network_failure |-> Total(results, Failing("CONNECTION_ERROR"))]

Timed == {o \in Outcomes : o.ms >= 0}

\* numeric[i - 1]: the i-th of the sorted durations.
Ranked(results, i) ==
  Min({o.ms : o \in {p \in Timed :
        Total(results, {q \in Timed : q.ms <= p.ms}) >= i}})

\* Mutant: the rank is rounded down.
nearest_rank_Down(results, percentile, count) ==
  Ranked(results, Max({1, Min({count, (percentile * count) \div 100})}))

nearest_rank(results, percentile, count) ==
  Ranked(results, Max({1, Min({count, (percentile * count + 99) \div 100})}))

NoLatency == [count |-> 0, min |-> 0, max |-> 0, mean |-> 0, median |-> 0,
              p95 |-> 0, p99 |-> 0]

latency_summary(results) ==
  LET count == Total(results, Timed)
      sum == Total([o \in Timed |-> o.ms * results[o]], Timed)
  IN  IF count = 0 THEN NoLatency
      ELSE [count  |-> count,
            min    |-> 1000 * Ranked(results, 1),
            max    |-> 1000 * Ranked(results, count),
            mean   |-> Thousandths(sum, count),
            median |-> IF count % 2 = 1
                       THEN 1000 * Ranked(results, count \div 2 + 1)
                       ELSE 500 * (Ranked(results, count \div 2)
                                     + Ranked(results, count \div 2 + 1)),
            p95    |-> 1000 * nearest_rank(results, 95, count),
            p99    |-> 1000 * nearest_rank(results, 99, count)]

classification_counts(results) ==
  [t \in FailureTypes |-> Total(results, Failing(t))]

\* One endpoint aggregate.
endpoint_aggregate(results) ==
  LET counts == request_counts(results)
  IN  [execution_count |-> counts.total,
       numerator       |-> counts.successful,
       denominator     |-> counts.total,
       latency         |-> latency_summary(results),
       timeout_count   |-> counts.timeout,
       classification  |-> classification_counts(results)]

\* The results of all endpoints together.
AllResults(evidence) ==
  [o \in Outcomes |-> Total([e \in DOMAIN evidence |-> evidence[e][o]], DOMAIN evidence)]

\* The endpoints of the audit are the ones that have results.
Observed(evidence) == {e \in DOMAIN evidence : Total(evidence[e], Outcomes) > 0}

build_aggregates(evidence) ==
  [request_counts |-> request_counts(AllResults(evidence)),
   latency        |-> latency_summary(AllResults(evidence)),
   endpoints      |-> [e \in Observed(evidence) |-> endpoint_aggregate(evidence[e])]]

-----------------------------------------------------------------------------
(***************************************************************************)
(* Metrics and labels of an endpoint                                       *)
(***************************************************************************)

\* An endpoint aggregate has results, so its success rate is never undefined.
compute_endpoint_metrics(aggregate) ==
  [execution_count |-> aggregate.execution_count,
   success_rate    |-> Thousandths(aggregate.numerator, aggregate.denominator),
   pass_count      |-> aggregate.numerator,
   timeout_count   |-> aggregate.timeout_count,
   latency         |-> aggregate.latency,
   classification  |-> aggregate.classification]

success_rate_stability_v1(m) ==
  CASE m.execution_count < MIN_EXECUTION_COUNT -> "INSUFFICIENT_DATA"
    [] m.execution_count >= MIN_EXECUTION_COUNT ->
         IF m.success_rate >= STABLE_THRESHOLD THEN "STABLE" ELSE "DEGRADED"

latency_stability_v1(m) ==
  LET l == m.latency
  IN  IF l.count < MIN_LATENCY_COUNT THEN "INSUFFICIENT_DATA"
      ELSE IF \/ l.mean > 0 /\ l.p99 > P99_MEAN_RATIO_THRESHOLD * l.mean
              \/ l.p95 > 0 /\ l.max > MAX_P95_RATIO_THRESHOLD * l.p95
      THEN "DEGRADED" ELSE "STABLE"

\* Mutant: a proportion of timeouts of the results that failed.
failure_burst_v1_OfFailures(m) ==
  CASE m.execution_count < MIN_EXECUTION_COUNT -> "INSUFFICIENT_DATA"
    [] m.execution_count >= MIN_EXECUTION_COUNT ->
         IF TIMEOUT_BURST_DIVISOR * m.timeout_count > m.execution_count - m.pass_count
         THEN "BURST_SUSPECTED" ELSE "NO_BURST_DETECTED"

failure_burst_v1(m) ==
  CASE m.execution_count < MIN_EXECUTION_COUNT -> "INSUFFICIENT_DATA"
    [] m.execution_count >= MIN_EXECUTION_COUNT ->
         IF TIMEOUT_BURST_DIVISOR * m.timeout_count > m.execution_count
         THEN "BURST_SUSPECTED" ELSE "NO_BURST_DETECTED"

latency_spike_v1(m) ==
  LET l == m.latency
  IN  IF l.count < MIN_LATENCY_COUNT \/ l.p99 = 0 THEN "INSUFFICIENT_DATA"
      ELSE IF l.max > MAX_P99_RATIO_THRESHOLD * l.p99 THEN "SPIKE_SUSPECTED"
      ELSE "NO_SPIKE_DETECTED"

\* The variance p (1 - p) of a Bernoulli outcome, in millionths.
OutcomeVariance(m) == m.success_rate * (1000 - m.success_rate)

outcome_consistency_v1(m) ==
  CASE m.execution_count < MIN_EXECUTION_COUNT -> "INSUFFICIENT_DATA"
    [] m.execution_count >= MIN_EXECUTION_COUNT ->
         IF OutcomeVariance(m) <= VARIANCE_CONSISTENT_THRESHOLD
         THEN "CONSISTENT" ELSE "INCONSISTENT"

compute_stability_analysis(m) ==
  [success_rate |-> success_rate_stability_v1(m), latency |-> latency_stability_v1(m)]

compute_burst_analysis(m) ==
  [failure |-> failure_burst_v1(m), spike |-> latency_spike_v1(m)]

compute_consistency_analysis(m) == outcome_consistency_v1(m)

-----------------------------------------------------------------------------
(***************************************************************************)
(* Scores                                                                  *)
(***************************************************************************)

\* Mutant: what is not known counts as good.
LABEL_TO_SCORE_Optimistic(label) ==
  CASE label \in {"STABLE", "CONSISTENT", "NO_BURST_DETECTED", "NO_SPIKE_DETECTED",
                  "INSUFFICIENT_DATA"} -> 1000
    [] label \in {"DEGRADED", "INCONSISTENT", "BURST_SUSPECTED", "SPIKE_SUSPECTED"} -> 0

LABEL_TO_SCORE(label) ==
  CASE label \in {"STABLE", "CONSISTENT", "NO_BURST_DETECTED", "NO_SPIKE_DETECTED"} -> 1000
    [] label \in {"DEGRADED", "INCONSISTENT", "BURST_SUSPECTED", "SPIKE_SUSPECTED"} -> 0
    [] label = "INSUFFICIENT_DATA" -> 500

stability_score(analysis) ==
  HalfUp(LABEL_TO_SCORE(analysis.success_rate) + LABEL_TO_SCORE(analysis.latency), 2)

burst_score(analysis) ==
  HalfUp(LABEL_TO_SCORE(analysis.failure) + LABEL_TO_SCORE(analysis.spike), 2)

consistency_score(label) == LABEL_TO_SCORE(label)

compute_endpoint_score(m, stability, burst, consistency) ==
  LET r == m.success_rate
      s == stability_score(stability)
      b == burst_score(burst)
      c == consistency_score(consistency)
  IN  [composite |-> HalfUp(50 * r + 20 * s + 15 * b + 15 * c, 100),
       reliability |-> r, stability |-> s, burst |-> b, consistency |-> c]

assign_score_label(score) ==
  CASE score >= HIGH_CONFIDENCE_THRESHOLD -> "HIGH_CONFIDENCE"
    [] score < HIGH_CONFIDENCE_THRESHOLD /\ score >= MODERATE_CONFIDENCE_THRESHOLD ->
         "MODERATE_CONFIDENCE"
    [] score < MODERATE_CONFIDENCE_THRESHOLD -> "LOW_CONFIDENCE"

\* The unweighted mean of one field over the endpoints, 0.000 without endpoints.
MeanOf(values) ==
  IF DOMAIN values = {} THEN 0
  ELSE HalfUp(Total(values, DOMAIN values), Cardinality(DOMAIN values))

component_breakdown(scores) ==
  [reliability |-> MeanOf([e \in DOMAIN scores |-> scores[e].reliability]),
   stability   |-> MeanOf([e \in DOMAIN scores |-> scores[e].stability]),
   burst       |-> MeanOf([e \in DOMAIN scores |-> scores[e].burst]),
   consistency |-> MeanOf([e \in DOMAIN scores |-> scores[e].consistency])]

compute_audit_score(scores) ==
  LET composite == MeanOf([e \in DOMAIN scores |-> scores[e].composite])
  IN  [value               |-> composite,
       score_label         |-> assign_score_label(composite),
       endpoint_count      |-> Cardinality(DOMAIN scores),
       component_breakdown |-> component_breakdown(scores)]

=============================================================================
