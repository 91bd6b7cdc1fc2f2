------------------------- MODULE MCEvidencePipeline -------------------------
(***************************************************************************)
(* Instances of EvidencePipeline for TLC.                                  *)
(***************************************************************************)
EXTENDS EvidencePipeline

CONSTANTS i1, i2, r1, r2, k1

Phase ==
  [c \in PipelineCommands |-> IF c \in {i1, i2} THEN "intelligence"
                              ELSE IF c \in {r1, r2} THEN "report" ELSE "certificate"]

=============================================================================
