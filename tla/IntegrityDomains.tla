--------------------------- MODULE IntegrityDomains ---------------------------
(***************************************************************************)
(* The intelligence artifact and the report that are assembled from the    *)
(* aggregates, and the eight domains that platform integrity certifies a   *)
(* report by.                                                              *)
(*                                                                         *)
(* A field that is absent, or null, is not in the domain of its record. A  *)
(* domain is the set of its checks that fail; what a check says about the  *)
(* failure is left out. A hash is the value it is computed from.           *)
(***************************************************************************)
EXTENDS ReliabilityScoring, SequencesExt

REPORT_VERSION == "report_v1"
INTELLIGENCE_VERSION == "intel_v1"

SCORE_LABEL_DESCRIPTIONS == [l \in ScoreLabels |-> <<"description of", l>>]

-----------------------------------------------------------------------------
(***************************************************************************)
(* Assembly                                                                *)
(***************************************************************************)

\* record with one more field.
With(record, field, value) ==
  [f \in DOMAIN record \cup {field} |-> IF f = field THEN value ELSE record[f]]

\* The numbers of S in ascending order.
Ascending(S) ==
  CHOOSE s \in [1 .. Cardinality(S) -> S] : \A j, k \in DOMAIN s : j < k => s[j] < s[k]

\* One entry of "endpoints": every section with its trace or derivation.
endpoint_entry(e, metrics) ==
  LET stability == compute_stability_analysis(metrics)
      burst == compute_burst_analysis(metrics)
      consistency == compute_consistency_analysis(metrics)
  IN  [endpoint_id          |-> e,
       reliability_metrics  |->
         [execution_count |-> metrics.execution_count,
          pass_count      |-> metrics.pass_count,
          fail_count      |-> metrics.execution_count - metrics.pass_count,
          timeout_count   |-> metrics.timeout_count,
          success_rate    |-> metrics.success_rate,
          latency         |-> metrics.latency],
       stability_analysis   |-> [label |-> stability, methodology_trace |-> "stability"],
       burst_analysis       |-> [label |-> burst, methodology_trace |-> "burst"],
       consistency_analysis |-> [label |-> consistency, methodology_trace |-> "consistency"],
       endpoint_score       |->
         With(compute_endpoint_score(metrics, stability, burst, consistency),
              "score_derivation", "weights")]

\* AuditAggregate.request_counts and latency_summary_ms.
audit_reliability_summary(aggregates) ==
  LET counts == aggregates.request_counts
  IN  [total_executions   |-> counts.total,
       total_pass         |-> counts.successful,
       total_fail         |-> counts.failed,
       total_timeout      |-> counts.timeout,
       audit_success_rate |->
         IF counts.total > 0 THEN Thousandths(counts.successful, counts.total) ELSE 0,
       endpoint_count     |-> Cardinality(DOMAIN aggregates.endpoints),
       latency            |-> aggregates.latency]

input_lineage(aggregates) ==
  [aggregate_set_hash |-> aggregates,
   aggregation_job_id |-> "aggjob",
   aggregation_version |-> "agg_v1",
   aggregate_set_completion_created_at |-> "completed",
   endpoint_aggregate_count |-> Cardinality(DOMAIN aggregates.endpoints),
   source_raw_result_count |-> aggregates.request_counts.total,
   audit_lineage_manifest_ref |-> "manifest"]

build_methodology_disclosure ==
  [f \in {"intelligence_version", "scoring", "stability_label_definitions",
          "burst_label_definitions", "consistency_label_definitions",
          "label_to_score_mapping", "limitations"} |-> INTELLIGENCE_VERSION]

\* The endpoints in the order of their ids.
assemble_artifact(aggregates) ==
  LET ids == DOMAIN aggregates.endpoints
      metrics == [e \in ids |-> compute_endpoint_metrics(aggregates.endpoints[e])]
      entries == [e \in ids |-> endpoint_entry(e, metrics[e])]
      order == Ascending(ids)
  IN  [intelligence_version      |-> INTELLIGENCE_VERSION,
       intelligence_job_id       |-> "inteljob",
       generated_at              |-> "generated",
       input_lineage             |-> input_lineage(aggregates),
       audit_reliability_summary |-> audit_reliability_summary(aggregates),
       composite_score           |->
         With(compute_audit_score([e \in ids |-> entries[e].endpoint_score]),
              "aggregate_set_hash", aggregates),
       endpoints                 |-> [i \in DOMAIN order |-> entries[order[i]]],
       methodology_disclosure    |-> build_methodology_disclosure]

executive_summary(artifact) ==
  LET label == artifact.composite_score.score_label
  IN  [score_label             |-> label,
       composite_score_value   |-> artifact.composite_score.value,
       endpoint_count          |-> artifact.composite_score.endpoint_count,
       audit_success_rate      |-> artifact.audit_reliability_summary.audit_success_rate,
       total_executions        |-> artifact.audit_reliability_summary.total_executions,
       score_label_description |-> SCORE_LABEL_DESCRIPTIONS[label]]

\* ReportBuilder.build
build(artifact, report_id) ==
  [identity                |-> [report_id |-> report_id, report_version |-> REPORT_VERSION],
   intelligence_provenance |->
     [intelligence_version      |-> artifact.intelligence_version,
      intelligence_job_id       |-> artifact.intelligence_job_id,
      aggregate_set_hash        |-> artifact.composite_score.aggregate_set_hash,
      intelligence_completed_at |-> artifact.generated_at],
   executive_summary       |-> executive_summary(artifact),
   endpoints               |-> artifact.endpoints,
   input_lineage           |-> artifact.input_lineage,
   methodology_disclosure  |-> artifact.methodology_disclosure]

\* What ReportMetadata holds of a report once it is COMPLETE.
metadata_of(report) ==
  [report_id            |-> report.identity.report_id,
   report_version       |-> report.identity.report_version,
   intelligence_version |-> report.intelligence_provenance.intelligence_version,
   aggregate_set_hash   |-> report.intelligence_provenance.aggregate_set_hash,
   endpoint_count       |-> report.executive_summary.endpoint_count]

-----------------------------------------------------------------------------
(***************************************************************************)
(* The domains                                                             *)
(***************************************************************************)

\* The failing checks of a table from check to verdict.
Failures(checks) == {k \in DOMAIN checks : ~checks[k]}

\* In [0.0, 1.0]; thousandths have at most three decimals.
UnitScore(x) == x \in 0 .. 1000

ExecutionCount(section) == section.reliability_metrics.execution_count

HasTraces(section) ==
  \A a \in {"stability_analysis", "burst_analysis", "consistency_analysis"} :
    "methodology_trace" \in DOMAIN section[a]

check_runner_health(report) ==
  LET sections == Range(report.endpoints)
  IN  Failures(
        [RH1 |-> report.executive_summary.total_executions > 0,
         RH2 |-> \A s \in sections : ExecutionCount(s) # 0,
         RH3 |-> \A s \in sections :
                   ExecutionCount(s) > 0
                     => s.reliability_metrics.fail_count \in 0 .. ExecutionCount(s),
         RH4 |-> \A s \in sections : HasTraces(s)])

check_evidence_completeness(report) ==
  LET sections == Range(report.endpoints)
  IN  Failures(
        [EC1 |-> report.executive_summary.total_executions > 0,
         EC2 |-> \A s \in sections : ExecutionCount(s) # 0,
         EC3 |-> \A s \in sections :
                   {"execution_count", "pass_count", "fail_count", "success_rate"}
                     \subseteq DOMAIN s.reliability_metrics,
         EC4 |-> report.executive_summary.endpoint_count > 0])

check_evidence_integrity(report, metadata) ==
  LET own == metadata_of(report)
  IN  Failures(
        [EI1 |-> own.aggregate_set_hash = metadata.aggregate_set_hash,
         EI2 |-> own.report_id = metadata.report_id,
         EI3 |-> own.report_version = metadata.report_version,
         EI4 |-> own.intelligence_version = metadata.intelligence_version,
         EI5 |-> own.endpoint_count = metadata.endpoint_count])

check_evidence_lineage(report, metadata) ==
  LET provenance == report.intelligence_provenance
  IN  Failures(
        [EL1 |-> /\ "aggregate_set_hash" \in DOMAIN provenance
                 /\ "aggregate_set_hash" \in DOMAIN metadata,
         EL2 |-> provenance.aggregate_set_hash = metadata.aggregate_set_hash,
         EL3 |-> "intelligence_job_id" \in DOMAIN provenance,
         EL4 |-> {"aggregate_set_hash", "aggregation_job_id", "aggregation_version",
                  "aggregate_set_completion_created_at", "endpoint_aggregate_count",
                  "source_raw_result_count", "audit_lineage_manifest_ref"}
                   \subseteq DOMAIN report.input_lineage,
         EL5 |-> "intelligence_completed_at" \in DOMAIN provenance])

check_observation_coverage(report, metadata) ==
  LET sections == Range(report.endpoints)
      summary == report.executive_summary
  IN  Failures(
        [OC1 |-> \A s \in sections :
                   {"endpoint_score", "reliability_metrics", "stability_analysis",
                    "burst_analysis", "consistency_analysis"} \subseteq DOMAIN s,
         OC2 |-> summary.endpoint_count = Len(report.endpoints),
         OC3 |-> metadata.endpoint_count = Len(report.endpoints),
         OC4 |-> UnitScore(summary.audit_success_rate),
         OC5 |-> summary.total_executions =
                   Total([i \in DOMAIN report.endpoints |-> ExecutionCount(report.endpoints[i])],
                         DOMAIN report.endpoints)])

\* Mutant: the upper limit is the floor of the mean too.
WithinDensity_Floor(count, total, n) ==
  /\ count >= total \div n
  /\ count <= total \div n

\* SI-2: floor(mean) <= execution_count <= ceil(mean).
WithinDensity(count, total, n) ==
  /\ count >= total \div n
  /\ count <= (total + n - 1) \div n

check_scheduler_integrity(report) ==
  LET summary == report.executive_summary
  IN  Failures(
        [SI1 |-> summary.total_executions > 0,
         SI2 |-> /\ summary.endpoint_count > 0
                 /\ summary.total_executions > 0
                 /\ \A s \in Range(report.endpoints) :
                      WithinDensity(ExecutionCount(s), summary.total_executions,
                                    summary.endpoint_count),
         SI3 |-> "limitations" \in DOMAIN report.methodology_disclosure])

check_methodology_compliance(report) ==
  LET sections == Range(report.endpoints)
      disclosed == DOMAIN report.methodology_disclosure
  IN  Failures(
        [MC1 |-> "intelligence_version" \in disclosed,
         MC2 |-> DOMAIN build_methodology_disclosure \subseteq disclosed,
         MC3 |-> "limitations" \in disclosed,
         MC4 |-> \A s \in sections : HasTraces(s),
         MC5 |-> \A s \in sections : "score_derivation" \in DOMAIN s.endpoint_score])

ScoreFieldsInRange(section) ==
  \A f \in {"composite", "reliability", "stability", "burst", "consistency"} :
    UnitScore(section.endpoint_score[f])

check_report_integrity(report) ==
  LET summary == report.executive_summary
      ids == [i \in DOMAIN report.endpoints |-> report.endpoints[i].endpoint_id]
  IN  Failures(
        [RI1 |-> report.identity.report_version = REPORT_VERSION,
         RI2 |-> report.intelligence_provenance.intelligence_version = INTELLIGENCE_VERSION,
         RI3 |-> summary.score_label \in ScoreLabels,
         RI4 |-> UnitScore(summary.composite_score_value),
         RI5 |-> \A i \in 1 .. Len(ids) - 1 : ids[i] <= ids[i + 1],
         RI6 |-> Cardinality(Range(ids)) = Len(ids),
         RI7 |-> \A s \in Range(report.endpoints) : "endpoint_id" \in DOMAIN s,
         RI8 |-> \A s \in Range(report.endpoints) : ScoreFieldsInRange(s),
         RI9 |-> summary.score_label_description \in Range(SCORE_LABEL_DESCRIPTIONS)])

\* The metadata a certification reads has every key the domains require.
BlockedBy(metadata) ==
  {"report_id", "report_version", "intelligence_version", "aggregate_set_hash",
   "endpoint_count"} \ DOMAIN metadata

\* The domains run in this order, and every one runs whatever the others found.
DomainResults(report, metadata) ==
  << check_runner_health(report),
     check_evidence_completeness(report),
     check_evidence_integrity(report, metadata),
     check_evidence_lineage(report, metadata),
     check_observation_coverage(report, metadata),
     check_scheduler_integrity(report),
     check_methodology_compliance(report),
     check_report_integrity(report) >>

determine_terminal_state(report, metadata) ==
  IF BlockedBy(metadata) # {} THEN "CERTIFICATION_BLOCKED"
  ELSE IF UNION Range(DomainResults(report, metadata)) # {} THEN "CERTIFICATION_FAILED"
  ELSE "CERTIFIED"

=============================================================================
