-------------------------- MODULE EvidencePipeline --------------------------
(***************************************************************************)
(* Reliability intelligence, the deterministic report and the platform     *)
(* integrity certificate of one audit, as the operator's commands generate *)
(* them: IntelligenceEngine.generate, ReportingEngine.generate and         *)
(* CertificationEngine.certify.                                            *)
(*                                                                         *)
(* Each phase keeps a metadata item, a job item for each command and an    *)
(* S3 artifact under a key that contains the job id.  Commands run as      *)
(* operator processes: they overlap, are killed, and every call they make  *)
(* may fail, before or after it has taken effect.                          *)
(***************************************************************************)
EXTENDS Naturals, FiniteSets

CONSTANTS
  PipelineCommands,  \* invocations of the three commands; also their job ids
  PhaseOf,           \* command -> the phase it generates
  AggregateSet,      \* the aggregate set as the source of an artifact
  Nothing,
  MaxPipelineFaults  \* bound on killed commands and failed calls

Generated == {"intelligence", "report"}
AllPhases == Generated \cup {"certificate"}

ASSUME PipelineAssumption ==
  /\ PhaseOf \in [PipelineCommands -> AllPhases]
  /\ AggregateSet \notin PipelineCommands
  /\ Nothing \notin PipelineCommands \cup {AggregateSet}
  /\ MaxPipelineFaults \in Nat

VARIABLES
  aggregateSet,  \* is there a complete aggregate set?
  meta,          \* IntelligenceMetadata and ReportMetadata
  cert,          \* CertificationMetadata
  jobs,          \* job items: status
  artifacts,     \* S3: command -> the source of its artifact, or Nothing
  generator,     \* the running commands
  pipelineFaults

pipelineVars ==
  <<aggregateSet, meta, cert, jobs, artifacts, generator, pipelineFaults>>

-----------------------------------------------------------------------------

Statuses == {"absent", "PENDING", "IN_PROGRESS", "COMPLETE", "FAILED"}
TerminalStates == {"CERTIFIED", "CERTIFICATION_FAILED", "CERTIFICATION_BLOCKED"}

NoMetadata == [status |-> "absent", job |-> Nothing, ref |-> Nothing, count |-> 0]
NoCertificate == [state |-> "absent", ref |-> Nothing, report |-> Nothing]

Started ==
  {"gate", "put", "in_progress", "generate", "fail", "complete_job", "complete_meta",
   "cert_existing", "cert_job", "cert_in_progress", "check", "write_cert",
   "cert_meta", "cert_fail", "cert_close"}
Ended == {"refused", "already", "done", "raised", "killed", "dry_run"}

Generating(c) == generator[c].pc \in Started

GeneratorGoto(c, pc) == generator' = [generator EXCEPT ![c].pc = pc]

NewCommand ==
  [pc |-> "idle", existing |-> NoMetadata, source |-> Nothing,
   verdict |-> "absent", shown |-> FALSE]

\* The command ends; what it has read is of no use any more.
End(c, pc) ==
  generator' = [generator EXCEPT
    ![c] = [NewCommand EXCEPT !.pc = pc, !.shown = generator[c].shown]]

\* What a call leaves alone: everything but what it writes.
Reads(c) == UNCHANGED <<aggregateSet, meta, cert, jobs, artifacts, pipelineFaults>>
WritesJob(c) == UNCHANGED <<aggregateSet, meta, cert, artifacts, pipelineFaults>>
WritesMeta(c) == UNCHANGED <<aggregateSet, cert, jobs, artifacts, pipelineFaults>>
WritesBoth(c) == UNCHANGED <<aggregateSet, cert, artifacts, pipelineFaults>>

SetJob(c, status) == jobs' = [jobs EXCEPT ![c] = status]

PipelineFault ==
  pipelineFaults < MaxPipelineFaults /\ pipelineFaults' = pipelineFaults + 1

-----------------------------------------------------------------------------
(***************************************************************************)
(* Generating intelligence and the report                                  *)
(***************************************************************************)

\* The metadata is read: a generation in progress is an error, a complete one
\* is returned unless the command is forced.
ReadExisting(c, force) ==
  LET existing == meta[PhaseOf[c]]
  IN  /\ generator[c].pc = "idle"
      /\ IF existing.status = "IN_PROGRESS" THEN End(c, "refused")
         ELSE IF existing.status = "COMPLETE" /\ ~ force THEN End(c, "already")
         ELSE generator' = [generator EXCEPT ![c].pc = "gate", ![c].existing = existing]
      /\ Reads(c)

\* The prerequisite of a phase is there, or the command is refused.
Gate(c, holds, source) ==
  /\ generator[c].pc = "gate"
  /\ IF holds
     THEN generator' = [generator EXCEPT ![c].pc = "put", ![c].source = source]
     ELSE End(c, "refused")
  /\ Reads(c)

\* get_aggregate_set_completion: the completion marker of the aggregate set.
AggregateSetComplete == aggregateSet

GateIntelligence(c) == Gate(c, AggregateSetComplete, AggregateSet)

\* A dry run computes the scores of the aggregate set and writes nothing.
DryRun(c) ==
  /\ generator[c].pc = "gate"
  /\ AggregateSetComplete
  /\ End(c, "dry_run")
  /\ Reads(c)

\* Mutant: it is enough that the intelligence metadata exists.
IntelligenceComplete_Exists == meta["intelligence"].status # "absent"

\* get_intelligence_metadata, as the report's prerequisite.
IntelligenceComplete == meta["intelligence"].status = "COMPLETE"

GateReport(c) == Gate(c, IntelligenceComplete, meta["intelligence"].ref)

\* The job item, and the metadata for a first generation: if another command
\* has been faster, this one raises and leaves its job PENDING.  (No command
\* reads a job item: where a job is written next to the metadata, the two
\* writes are one step.)
PutMetadataOnce(c) ==
  LET p == PhaseOf[c]
  IN  /\ generator[c].pc = "put"
      /\ generator[c].existing = NoMetadata
      /\ IF meta[p].status = "absent"
         THEN /\ meta' = [meta EXCEPT ![p] = [status |-> "PENDING", job |-> c,
                                              ref |-> Nothing, count |-> 1]]
              /\ GeneratorGoto(c, "in_progress")
         ELSE End(c, "raised") /\ UNCHANGED meta
      /\ SetJob(c, "PENDING")
      /\ WritesBoth(c)

\* A further generation: the metadata is written without a condition, with a
\* count that goes up from the one that was read.
Regenerate(c, ref) ==
  /\ generator[c].pc = "put"
  /\ generator[c].existing # NoMetadata
  /\ meta' = [meta EXCEPT ![PhaseOf[c]] =
       [status |-> "PENDING", job |-> c, ref |-> ref,
        count |-> generator[c].existing.count + 1]]
  /\ SetJob(c, "PENDING")
  /\ generator' = [generator EXCEPT ![c].pc = "in_progress", ![c].existing = NoMetadata]
  /\ WritesBoth(c)

\* update_intelligence_metadata puts a whole new item.
RegenerateIntelligence(c) == Regenerate(c, Nothing)

\* Mutant: the report's metadata is put anew, as the intelligence's is.
RegenerateReport_Put(c) == Regenerate(c, Nothing)

\* regenerate_report_metadata updates fields and keeps the reference to the
\* last artifact.
RegenerateReport(c) == Regenerate(c, meta["report"].ref)

\* update_..._metadata_fields: an update_item without a condition.
InProgress(c) ==
  /\ generator[c].pc = "in_progress"
  /\ SetJob(c, "IN_PROGRESS")
  /\ meta' = [meta EXCEPT ![PhaseOf[c]].status = "IN_PROGRESS"]
  /\ GeneratorGoto(c, "generate")
  /\ WritesBoth(c)

\* write_artifact: put_object under a key that contains this command's job id.
PutArtifact(c) == artifacts' = [artifacts EXCEPT ![c] = generator[c].source]

\* The source is read, the artifact computed from it and written.
WriteArtifact(c) ==
  /\ generator[c].pc = "generate"
  /\ PutArtifact(c)
  /\ GeneratorGoto(c, "complete_job")
  /\ UNCHANGED <<aggregateSet, meta, cert, jobs, pipelineFaults>>

\* Reading, computing or writing fails; the artifact may have been written.
GenerationFails(c) ==
  /\ generator[c].pc = "generate"
  /\ PipelineFault
  /\ PutArtifact(c) \/ UNCHANGED artifacts
  /\ GeneratorGoto(c, "fail")
  /\ UNCHANGED <<aggregateSet, meta, cert, jobs>>

\* Mutant: only the job is marked FAILED.
Fail_JobOnly(c) ==
  /\ generator[c].pc = "fail"
  /\ SetJob(c, "FAILED")
  /\ End(c, "raised")
  /\ WritesJob(c)

Fail(c) ==
  /\ generator[c].pc = "fail"
  /\ SetJob(c, "FAILED")
  /\ meta' = [meta EXCEPT ![PhaseOf[c]].status = "FAILED"]
  /\ End(c, "raised")
  /\ WritesBoth(c)

CompleteJob(c) ==
  /\ generator[c].pc = "complete_job"
  /\ SetJob(c, "COMPLETE")
  /\ GeneratorGoto(c, "complete_meta")
  /\ WritesJob(c)

\* The metadata shows the artifact of this command from now on; its job id is
\* not written again.
CompleteMeta(c) ==
  /\ generator[c].pc = "complete_meta"
  /\ meta' = [meta EXCEPT ![PhaseOf[c]].status = "COMPLETE", ![PhaseOf[c]].ref = c]
  /\ generator' = [generator EXCEPT
       ![c] = [NewCommand EXCEPT !.pc = "done", !.shown = TRUE]]
  /\ WritesMeta(c)

-----------------------------------------------------------------------------
(***************************************************************************)
(* Certification                                                           *)
(***************************************************************************)

\* The report must be complete; its metadata is used from here on as it was
\* read.
CertificationGate(c) ==
  /\ generator[c].pc = "idle"
  /\ IF meta["report"].status = "COMPLETE"
     THEN generator' = [generator EXCEPT ![c].pc = "cert_existing",
                                         ![c].source = meta["report"].ref]
     ELSE End(c, "refused")
  /\ Reads(c)

\* Only a certificate that says CERTIFIED stops a command that is not forced.
ReadExistingCertificate(c, force) ==
  /\ generator[c].pc = "cert_existing"
  /\ IF cert.state = "CERTIFIED" /\ ~ force THEN End(c, "refused")
                                             ELSE GeneratorGoto(c, "cert_job")
  /\ Reads(c)

CertjobPending(c) ==
  /\ generator[c].pc = "cert_job"
  /\ SetJob(c, "PENDING")
  /\ GeneratorGoto(c, "cert_in_progress")
  /\ WritesJob(c)

CertjobInProgress(c) ==
  /\ generator[c].pc = "cert_in_progress"
  /\ SetJob(c, "IN_PROGRESS")
  /\ GeneratorGoto(c, "check")
  /\ WritesJob(c)

\* The report is read and the eight domains are checked.  If that raises,
\* every domain is BLOCKED, and the certificate says so.
CheckDomains(c) ==
  /\ generator[c].pc = "check"
  /\ \E verdict \in TerminalStates :
       /\ generator' = [generator EXCEPT ![c].pc = "write_cert",
                                         ![c].verdict = verdict]
       /\ IF verdict = "CERTIFICATION_BLOCKED" THEN PipelineFault
                                               ELSE UNCHANGED pipelineFaults
  /\ UNCHANGED <<aggregateSet, meta, cert, jobs, artifacts>>

WriteCertificate(c) ==
  /\ generator[c].pc = "write_cert"
  /\ PutArtifact(c)
  /\ GeneratorGoto(c, "cert_meta")
  /\ UNCHANGED <<aggregateSet, meta, cert, jobs, pipelineFaults>>

\* Mutant: the certificate refers to the report that is current by now.
CertificateOf_CurrentReport(c) ==
  [state |-> generator[c].verdict, ref |-> c, report |-> meta["report"].ref]

\* The metadata of the certificate, with the report it is about.
CertificateOf(c) ==
  [state |-> generator[c].verdict, ref |-> c, report |-> generator[c].source]

\* write_cert_metadata_complete: a put without a condition on the item.
WriteCertMetadata(c) ==
  /\ generator[c].pc = "cert_meta"
  /\ cert' = CertificateOf(c)
  /\ generator' = [generator EXCEPT ![c].pc = "cert_close", ![c].shown = TRUE]
  /\ UNCHANGED <<aggregateSet, meta, jobs, artifacts, pipelineFaults>>

\* The job is closed, as FAILED when the report could not be read.
CloseCertjob(c) ==
  /\ generator[c].pc = "cert_close"
  /\ SetJob(c, IF generator[c].verdict = "CERTIFICATION_BLOCKED" THEN "FAILED"
                                                                 ELSE "COMPLETE")
  /\ End(c, "done")
  /\ WritesJob(c)

\* A call between the first update of the job and the metadata fails: the job
\* is marked FAILED.  The call may have taken effect.
CertificationFails(c) ==
  /\ generator[c].pc \in {"cert_in_progress", "write_cert", "cert_meta"}
  /\ PipelineFault
  /\ \/ GeneratorGoto(c, "cert_fail") /\ UNCHANGED <<artifacts, cert>>
     \/ /\ generator[c].pc = "write_cert"
        /\ PutArtifact(c)
        /\ GeneratorGoto(c, "cert_fail")
        /\ UNCHANGED cert
     \/ /\ generator[c].pc = "cert_meta"
        /\ cert' = CertificateOf(c)
        /\ generator' = [generator EXCEPT ![c].pc = "cert_fail", ![c].shown = TRUE]
        /\ UNCHANGED artifacts
  /\ UNCHANGED <<aggregateSet, meta, jobs>>

FailCertjob(c) ==
  /\ generator[c].pc = "cert_fail"
  /\ SetJob(c, "FAILED")
  /\ End(c, "raised")
  /\ WritesJob(c)

-----------------------------------------------------------------------------
(***************************************************************************)
(* Retrieval: the reference is taken from the metadata, whatever its       *)
(* status, and the artifact read from S3.                                  *)
(***************************************************************************)

ReadArtifact(ref) ==
  CASE ref = Nothing -> Nothing
    [] ref # Nothing /\ artifacts[ref] = Nothing -> "S3_READ_FAILED"
    [] OTHER -> ref

RetrieveIntelligence == ReadArtifact(meta["intelligence"].ref)
RetrieveReport == ReadArtifact(meta["report"].ref)
RetrieveCertificate == ReadArtifact(cert.ref)

-----------------------------------------------------------------------------

\* The process is killed, or a call fails that nothing catches.
Kill(c) ==
  /\ Generating(c)
  /\ PipelineFault
  /\ End(c, "killed")
  /\ UNCHANGED <<aggregateSet, meta, cert, jobs, artifacts>>

\* The aggregation of the audit completes its set.
CompleteAggregateSet ==
  /\ ~ aggregateSet
  /\ aggregateSet' = TRUE
  /\ UNCHANGED <<meta, cert, jobs, artifacts, generator, pipelineFaults>>

PipelineInit ==
  /\ aggregateSet = FALSE
  /\ meta = [p \in Generated |-> NoMetadata]
  /\ cert = NoCertificate
  /\ jobs = [c \in PipelineCommands |-> "absent"]
  /\ artifacts = [c \in PipelineCommands |-> Nothing]
  /\ generator = [c \in PipelineCommands |-> NewCommand]
  /\ pipelineFaults = 0

\* IntelligenceEngine.generate, in its stages.
IntelligencePrerequisites(c) == GateIntelligence(c) \/ DryRun(c)
StartIntelligence(c) ==
  PutMetadataOnce(c) \/ RegenerateIntelligence(c) \/ InProgress(c)
ProduceIntelligence(c) == WriteArtifact(c) \/ Fail(c)

\* ReportingEngine.generate.
ReportPrerequisites(c) == GateReport(c)
StartReport(c) == PutMetadataOnce(c) \/ RegenerateReport(c) \/ InProgress(c)
ProduceReport(c) == WriteArtifact(c) \/ Fail(c)

Conclude(c) == CompleteJob(c) \/ CompleteMeta(c)

\* CertificationEngine.certify.
Certify(c) ==
  \/ \E force \in BOOLEAN : ReadExistingCertificate(c, force)
  \/ CertjobPending(c) \/ CertjobInProgress(c) \/ CheckDomains(c)
  \/ WriteCertificate(c) \/ WriteCertMetadata(c)
  \/ CloseCertjob(c) \/ FailCertjob(c)

Begin(c) ==
  \/ PhaseOf[c] \in Generated /\ \E force \in BOOLEAN : ReadExisting(c, force)
  \/ PhaseOf[c] = "certificate" /\ CertificationGate(c)

Continue(c) ==
  \/ /\ PhaseOf[c] = "intelligence"
     /\ \/ IntelligencePrerequisites(c) \/ StartIntelligence(c)
        \/ ProduceIntelligence(c) \/ Conclude(c)
  \/ /\ PhaseOf[c] = "report"
     /\ \/ ReportPrerequisites(c) \/ StartReport(c)
        \/ ProduceReport(c) \/ Conclude(c)
  \/ PhaseOf[c] = "certificate" /\ Certify(c)

PipelineNext ==
  \/ \E c \in PipelineCommands :
       Begin(c) \/ Continue(c) \/ GenerationFails(c) \/ CertificationFails(c)
         \/ Kill(c)
  \/ CompleteAggregateSet

\* A command that has been started runs to its end or is killed.
PipelineSpec ==
  PipelineInit /\ [][PipelineNext]_pipelineVars
    /\ \A c \in PipelineCommands : WF_pipelineVars(Continue(c))

-----------------------------------------------------------------------------
(***************************************************************************)
(* Properties                                                              *)
(***************************************************************************)

Metadata ==
  [status : Statuses, job : PipelineCommands \cup {Nothing},
   ref : PipelineCommands \cup {Nothing}, count : 0 .. Cardinality(PipelineCommands)]

PipelineTypeOK ==
  /\ aggregateSet \in BOOLEAN
  /\ meta \in [Generated -> Metadata]
  /\ cert.state \in TerminalStates \cup {"absent"}
  /\ jobs \in [PipelineCommands -> Statuses]
  /\ artifacts \in
       [PipelineCommands -> PipelineCommands \cup {AggregateSet, Nothing}]
  /\ \A c \in PipelineCommands :
       /\ generator[c].pc \in Started \cup Ended \cup {"idle"}
       /\ generator[c].existing \in Metadata
       /\ generator[c].shown \in BOOLEAN
       /\ generator[c].pc \in Started \ {"gate"} => generator[c].source # Nothing
  /\ pipelineFaults \in 0 .. MaxPipelineFaults

\* The commands, however they overlap, fail and are killed, keep the promise
\* of EvidenceChain about what a retrieval returns: an artifact is derived only
\* from one whose generation was completed, a retrieval never finds a
\* reference without its artifact, and a report that could be retrieved can
\* always be, also while it is generated again and when that fails.
Chain ==
  INSTANCE EvidenceChain WITH
    Artifacts <- PipelineCommands,
    published <- {[id |-> c, phase |-> PhaseOf[c], source |-> artifacts[c]] :
                    c \in {d \in PipelineCommands : artifacts[d] # Nothing}},
    exposed <- {c \in PipelineCommands : generator[c].shown},
    visible <- [intelligence |-> RetrieveIntelligence, report |-> RetrieveReport,
                certificate |-> RetrieveCertificate]

ImplementsChain == Chain!ChainSpec

\* The certificate that is shown is about the report its document was derived
\* from, although the report may have been generated again since it was read.
CertificateIsOfItsReport ==
  cert # NoCertificate =>
    /\ artifacts[cert.ref] = cert.report
    /\ artifacts[cert.report] \in PipelineCommands

\* A generation does not stay in progress: unless a call fails or a command is
\* killed, every status a command leaves behind is overwritten by a final one,
\* also when several commands generate the same phase at once.
GenerationEnds ==
  \A p \in Generated :
    meta[p].status \in {"PENDING", "IN_PROGRESS"}
      ~> (meta[p].status \in {"COMPLETE", "FAILED"}
           \/ \E c \in PipelineCommands : generator[c].pc = "killed")

=============================================================================
