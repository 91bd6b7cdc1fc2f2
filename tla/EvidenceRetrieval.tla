-------------------------- MODULE EvidenceRetrieval --------------------------
(***************************************************************************)
(* What an operator sees of an aggregation, at any moment of it: the       *)
(* queries of RetrievalService over the items that the invocations of      *)
(* Aggregation write.  A retrieval changes nothing; it is an expression    *)
(* over the state in which it is made.  One that makes two queries may be  *)
(* taken as atomic: once the first has found the manifest, the items of    *)
(* the set are not changed any more (AggregateSetIsSound).                 *)
(***************************************************************************)
EXTENDS Aggregation

\* The records under AUDIT#{audit_id}#EXEC#, all pages of the query.
list_aggregate_records == items

list_lineage_manifests == {x \in list_aggregate_records : x.kind = "LINEAGE"}
list_lineage_manifest_pages == {x \in list_aggregate_records : x.kind = "PAGE"}

get_aggregate_set_completion == {x \in list_aggregate_records : x.kind = "SET"}

\* apply_filter with the audit of the command: a failure classification is written
\* without audit_id and does not pass.
apply_filter(records) == {x \in records : x.kind # "FAILURE_CLASSIFICATION"}

get_aggregation_results ==
  LET records == apply_filter(list_aggregate_records)
      aggregates == {x \in records : x.kind = "AGGREGATE"}
  IN [records |-> aggregates,
      endpoint_count |-> Cardinality({x.scope : x \in aggregates} \ {"audit"}),
      completion_status |->
        IF \E x \in records : x.kind = "SET" THEN "COMPLETE" ELSE "none"]

get_aggregation_generation_status ==
  [completeness_status |->
     IF get_aggregate_set_completion = {} THEN "PENDING" ELSE "COMPLETE",
   source_raw_result_count |->
     {Cardinality(x.refs) : x \in get_aggregate_set_completion},
   endpoint_aggregate_count |->
     {Cardinality(Endpoints(x.refs)) : x \in get_aggregate_set_completion}]

\* Every page that is there, with or without its manifest.
EvidenceOfAllPages ==
  UNION {p.refs : p \in {x \in list_lineage_manifest_pages : x.scope = "audit"}}

\* The references on the pages of the audit's manifest; none without a manifest.
get_evidence_references ==
  IF \E x \in list_lineage_manifests : x.scope = "audit"
  THEN UNION {p.refs : p \in {x \in list_lineage_manifest_pages : x.scope = "audit"}}
  ELSE {}

\* A retrieval made while invocations write, die and overtake each other never shows
\* a part of the evidence as the whole: the references, the endpoints and the status
\* appear together, and agree with the counts the completion marker records
\* (get_evidence_references, get_aggregation_results, get_aggregation_generation_status).
RetrievalShowsWholeSet ==
  LET results == get_aggregation_results
      generation == get_aggregation_generation_status
      evidence == get_evidence_references
  IN /\ generation.completeness_status = "COMPLETE" <=> results.completion_status = "COMPLETE"
     /\ generation.completeness_status = "COMPLETE" =>
          /\ generation.source_raw_result_count = {Cardinality(evidence)}
          /\ generation.endpoint_aggregate_count = {results.endpoint_count}
          /\ results.endpoint_count = Cardinality(Endpoints(evidence))
     /\ generation.completeness_status = "PENDING" =>
          evidence = {} /\ results.records = {}

=============================================================================
