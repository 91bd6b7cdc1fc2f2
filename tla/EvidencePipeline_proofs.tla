----------------------- MODULE EvidencePipeline_proofs -----------------------
(***************************************************************************)
(* Proofs about EvidencePipeline, for any number of commands of each phase *)
(* and any number of faults: what a retrieval shows is derived as          *)
(* EvidenceChain promises.                                                 *)
(***************************************************************************)
EXTENDS EvidencePipeline, FiniteSetTheorems, TLAPS

(***************************************************************************)
(* The shape of the state                                                  *)
(***************************************************************************)

MetadataRecord ==
  [status : Statuses, job : PipelineCommands \cup {Nothing},
   ref : PipelineCommands \cup {Nothing}, count : Nat]

GeneratorRecord ==
  [pc : Started \cup Ended \cup {"idle"}, existing : MetadataRecord,
   source : PipelineCommands \cup {AggregateSet, Nothing},
   verdict : TerminalStates \cup {"absent"}, shown : BOOLEAN]

CertificateRecord ==
  [state : TerminalStates \cup {"absent"}, ref : PipelineCommands \cup {Nothing},
   report : PipelineCommands \cup {AggregateSet, Nothing}]

\* Every item, artifact and command has the fields the code gives it.
PipelineShape ==
  /\ aggregateSet \in BOOLEAN
  /\ meta \in [Generated -> MetadataRecord]
  /\ cert \in CertificateRecord
  /\ jobs \in [PipelineCommands -> Statuses]
  /\ artifacts \in [PipelineCommands -> PipelineCommands \cup {AggregateSet, Nothing}]
  /\ generator \in [PipelineCommands -> GeneratorRecord]
  /\ pipelineFaults \in 0 .. MaxPipelineFaults

\* Every command but c is as it was.
OthersGenerate(c) ==
  \A d \in PipelineCommands : d # c => generator'[d] = generator[d]

\* Moving a command changes its program point and nothing else.
LEMMA GeneratorGotoFields ==
  ASSUME generator \in [PipelineCommands -> GeneratorRecord],
         NEW c \in PipelineCommands, NEW p \in Started, GeneratorGoto(c, p)
  PROVE  /\ generator' \in [PipelineCommands -> GeneratorRecord]
         /\ generator'[c].pc = p
         /\ generator'[c].existing = generator[c].existing
         /\ generator'[c].source = generator[c].source
         /\ generator'[c].verdict = generator[c].verdict
         /\ generator'[c].shown = generator[c].shown
         /\ OthersGenerate(c)
BY DEF GeneratorGoto, GeneratorRecord, OthersGenerate

\* A command that has ended keeps only whether its artifact was shown.
LEMMA EndFields ==
  ASSUME generator \in [PipelineCommands -> GeneratorRecord],
         NEW c \in PipelineCommands, NEW p \in Ended, End(c, p)
  PROVE  /\ generator' \in [PipelineCommands -> GeneratorRecord]
         /\ generator'[c].pc = p
         /\ generator'[c].existing = NoMetadata
         /\ generator'[c].shown = generator[c].shown
         /\ OthersGenerate(c)
BY DEF End, NewCommand, NoMetadata, GeneratorRecord, MetadataRecord, Statuses,
  OthersGenerate

\* The steps that keep something for later: what was read, the source, the
\* verdict, and that the artifact has been shown.
LEMMA SetExistingFields ==
  ASSUME generator \in [PipelineCommands -> GeneratorRecord],
         NEW c \in PipelineCommands, NEW p \in Started, NEW x \in MetadataRecord,
         generator' = [generator EXCEPT ![c].pc = p, ![c].existing = x]
  PROVE  /\ generator' \in [PipelineCommands -> GeneratorRecord]
         /\ generator'[c] = [generator[c] EXCEPT !.pc = p, !.existing = x]
         /\ OthersGenerate(c)
BY DEF GeneratorRecord, OthersGenerate

LEMMA SetSourceFields ==
  ASSUME generator \in [PipelineCommands -> GeneratorRecord],
         NEW c \in PipelineCommands, NEW p \in Started,
         NEW x \in PipelineCommands \cup {AggregateSet, Nothing},
         generator' = [generator EXCEPT ![c].pc = p, ![c].source = x]
  PROVE  /\ generator' \in [PipelineCommands -> GeneratorRecord]
         /\ generator'[c] = [generator[c] EXCEPT !.pc = p, !.source = x]
         /\ OthersGenerate(c)
BY DEF GeneratorRecord, OthersGenerate

LEMMA SetVerdictFields ==
  ASSUME generator \in [PipelineCommands -> GeneratorRecord],
         NEW c \in PipelineCommands, NEW p \in Started, NEW x \in TerminalStates,
         generator' = [generator EXCEPT ![c].pc = p, ![c].verdict = x]
  PROVE  /\ generator' \in [PipelineCommands -> GeneratorRecord]
         /\ generator'[c] = [generator[c] EXCEPT !.pc = p, !.verdict = x]
         /\ OthersGenerate(c)
BY DEF GeneratorRecord, OthersGenerate

LEMMA SetShownFields ==
  ASSUME generator \in [PipelineCommands -> GeneratorRecord],
         NEW c \in PipelineCommands, NEW p \in Started,
         generator' = [generator EXCEPT ![c].pc = p, ![c].shown = TRUE]
  PROVE  /\ generator' \in [PipelineCommands -> GeneratorRecord]
         /\ generator'[c] = [generator[c] EXCEPT !.pc = p, !.shown = TRUE]
         /\ OthersGenerate(c)
BY DEF GeneratorRecord, OthersGenerate

LEMMA PipelineInitShape == PipelineInit => PipelineShape
<1> SUFFICES ASSUME PipelineInit
             PROVE  PipelineShape
  OBVIOUS
<1>1. NoMetadata \in MetadataRecord
  BY DEF NoMetadata, MetadataRecord, Statuses
<1>2. NewCommand \in GeneratorRecord
  BY <1>1 DEF NewCommand, GeneratorRecord
<1>3. NoCertificate \in CertificateRecord
  BY DEF NoCertificate, CertificateRecord
<1>4. "absent" \in Statuses
  BY DEF Statuses
<1>5. 0 \in 0 .. MaxPipelineFaults
  BY PipelineAssumption DEF PipelineAssumption
<1>. QED
  BY <1>1, <1>2, <1>3, <1>4, <1>5 DEF PipelineInit, PipelineShape

\* Every step of a command of the first two phases keeps the shape.
LEMMA GenerateShape ==
  ASSUME PipelineShape, NEW c \in PipelineCommands, PhaseOf[c] \in Generated,
         \/ \E force \in BOOLEAN : ReadExisting(c, force)
         \/ GateIntelligence(c) \/ DryRun(c) \/ GateReport(c)
         \/ PutMetadataOnce(c) \/ RegenerateIntelligence(c) \/ RegenerateReport(c)
         \/ InProgress(c) \/ WriteArtifact(c) \/ GenerationFails(c) \/ Fail(c)
         \/ CompleteJob(c) \/ CompleteMeta(c)
  PROVE  PipelineShape'
<1> USE DEF PipelineShape
<1> DEFINE Keeps == /\ aggregateSet' \in BOOLEAN
                    /\ meta' \in [Generated -> MetadataRecord]
                    /\ cert' \in CertificateRecord
                    /\ jobs' \in [PipelineCommands -> Statuses]
                    /\ artifacts' \in
                         [PipelineCommands -> PipelineCommands \cup {AggregateSet, Nothing}]
                    /\ generator' \in [PipelineCommands -> GeneratorRecord]
                    /\ pipelineFaults' \in 0 .. MaxPipelineFaults
<1> SUFFICES Keeps
  OBVIOUS
<1> USE GeneratorGotoFields, EndFields
<1>1. ASSUME NEW force \in BOOLEAN, ReadExisting(c, force)
      PROVE  Keeps
  <2>1. meta[PhaseOf[c]] \in MetadataRecord
    OBVIOUS
  <2>2. generator' \in [PipelineCommands -> GeneratorRecord]
    BY <1>1, <2>1 DEF ReadExisting, Started, Ended, GeneratorRecord
  <2>. QED
    BY <1>1, <2>2 DEF ReadExisting, Reads
<1>2. CASE GateIntelligence(c) \/ DryRun(c)
  BY <1>2 DEF GateIntelligence, DryRun, Gate, Reads, Started, Ended, GeneratorRecord
<1>3. CASE GateReport(c)
  BY <1>3 DEF GateReport, Gate, Reads, Started, Ended, GeneratorRecord, MetadataRecord,
    Generated
<1>4. CASE PutMetadataOnce(c)
  BY <1>4 DEF PutMetadataOnce, WritesBoth, SetJob, Started, Ended, MetadataRecord,
    Statuses
<1>5. CASE RegenerateIntelligence(c) \/ RegenerateReport(c)
  <2>1. PICK ref \in PipelineCommands \cup {Nothing} : Regenerate(c, ref)
    BY <1>5 DEF RegenerateIntelligence, RegenerateReport, MetadataRecord, Generated
  <2>2. generator[c].existing.count + 1 \in Nat
    BY DEF GeneratorRecord, MetadataRecord
  <2>3. NoMetadata \in MetadataRecord
    BY DEF NoMetadata, MetadataRecord, Statuses
  <2>4. generator' \in [PipelineCommands -> GeneratorRecord]
    BY <2>1, <2>3 DEF Regenerate, GeneratorRecord, Started
  <2>5. meta' \in [Generated -> MetadataRecord]
    BY <2>1, <2>2 DEF Regenerate, MetadataRecord, Statuses
  <2>. QED
    BY <2>1, <2>4, <2>5 DEF Regenerate, WritesBoth, SetJob, Statuses
<1>6. CASE InProgress(c) \/ Fail(c)
  <2>1. meta' \in [Generated -> MetadataRecord]
    <3>1. PICK status \in Statuses : meta' = [meta EXCEPT ![PhaseOf[c]].status = status]
      BY <1>6 DEF InProgress, Fail, Statuses
    <3>. QED
      BY <3>1 DEF MetadataRecord
  <2>2. generator' \in [PipelineCommands -> GeneratorRecord]
    BY <1>6 DEF InProgress, Fail, Started, Ended
  <2>. QED
    BY <1>6, <2>1, <2>2 DEF InProgress, Fail, WritesBoth, SetJob, Statuses
<1>7. CASE WriteArtifact(c) \/ GenerationFails(c)
  <2>1. generator[c].source \in PipelineCommands \cup {AggregateSet, Nothing}
    BY DEF GeneratorRecord
  <2>. QED
    BY <1>7, <2>1, PipelineAssumption DEF PipelineAssumption, WriteArtifact,
      GenerationFails, PutArtifact, PipelineFault, Started
<1>8. CASE CompleteJob(c)
  BY <1>8 DEF CompleteJob, WritesJob, SetJob, Started, Statuses
<1>9. CASE CompleteMeta(c)
  <2>1. NewCommand \in GeneratorRecord
    BY DEF NewCommand, NoMetadata, GeneratorRecord, MetadataRecord, Statuses
  <2>2. generator' \in [PipelineCommands -> GeneratorRecord]
    BY <1>9, <2>1 DEF CompleteMeta, GeneratorRecord, Ended
  <2>. QED
    BY <1>9, <2>2 DEF CompleteMeta, WritesMeta, MetadataRecord, Statuses
<1>. QED
  BY <1>1, <1>2, <1>3, <1>4, <1>5, <1>6, <1>7, <1>8, <1>9

\* Every step of a certification keeps the shape.
LEMMA CertifyShape ==
  ASSUME PipelineShape, NEW c \in PipelineCommands,
         CertificationGate(c) \/ Certify(c) \/ CertificationFails(c) \/ Kill(c)
  PROVE  PipelineShape'
<1> USE DEF PipelineShape
<1> USE GeneratorGotoFields, EndFields
<1>1. CASE CertificationGate(c)
  BY <1>1 DEF CertificationGate, Reads, Started, Ended, GeneratorRecord, MetadataRecord,
    Generated
<1>2. ASSUME NEW force \in BOOLEAN, ReadExistingCertificate(c, force)
      PROVE  PipelineShape'
  BY <1>2 DEF ReadExistingCertificate, Reads, Started, Ended
<1>3. CASE CertjobPending(c) \/ CertjobInProgress(c) \/ CloseCertjob(c) \/ FailCertjob(c)
  BY <1>3 DEF CertjobPending, CertjobInProgress, CloseCertjob, FailCertjob, WritesJob,
    SetJob, Statuses, Started, Ended
<1>4. CASE CheckDomains(c)
  <2>1. generator' \in [PipelineCommands -> GeneratorRecord]
    <3>1. PICK verdict \in TerminalStates :
            generator' = [generator EXCEPT ![c].pc = "write_cert", ![c].verdict = verdict]
      BY <1>4 DEF CheckDomains
    <3>2. "write_cert" \in Started
      BY DEF Started
    <3>. QED
      BY <3>1, <3>2, SetVerdictFields
  <2>. QED
    BY <1>4, <2>1, PipelineAssumption DEF PipelineAssumption, CheckDomains, PipelineFault
<1>5. generator[c].source \in PipelineCommands \cup {AggregateSet, Nothing}
  BY DEF GeneratorRecord
<1>6. CASE WriteCertificate(c)
  BY <1>5, <1>6 DEF WriteCertificate, PutArtifact, Started
<1>7. CertificateOf(c) \in CertificateRecord
  BY DEF CertificateOf, CertificateRecord, GeneratorRecord
<1>8. CASE WriteCertMetadata(c)
  <2>1. generator' \in [PipelineCommands -> GeneratorRecord]
    <3>1. "cert_close" \in Started
      BY DEF Started
    <3>. QED
      BY <1>8, <3>1, SetShownFields DEF WriteCertMetadata
  <2>. QED
    BY <1>7, <1>8, <2>1 DEF WriteCertMetadata
<1>9. CASE CertificationFails(c)
  <2>1. generator' \in [PipelineCommands -> GeneratorRecord]
    BY <1>9, SetShownFields DEF CertificationFails, Started
  <2>. QED
    BY <1>5, <1>7, <1>9, <2>1, PipelineAssumption DEF PipelineAssumption,
      CertificationFails, PutArtifact, PipelineFault
<1>10. CASE Kill(c)
  BY <1>10, PipelineAssumption DEF PipelineAssumption, Kill, PipelineFault, Ended
<1>. QED
  BY <1>1, <1>2, <1>3, <1>4, <1>6, <1>8, <1>9, <1>10 DEF Certify

\* The steps of a command, by phase.
LEMMA CommandActions ==
  ASSUME NEW c \in PipelineCommands, Begin(c) \/ Continue(c)
  PROVE  \/ /\ PhaseOf[c] \in Generated
            /\ \/ \E force \in BOOLEAN : ReadExisting(c, force)
               \/ PutMetadataOnce(c) \/ InProgress(c) \/ WriteArtifact(c) \/ Fail(c)
               \/ CompleteJob(c) \/ CompleteMeta(c)
         \/ /\ PhaseOf[c] = "intelligence"
            /\ GateIntelligence(c) \/ DryRun(c) \/ RegenerateIntelligence(c)
         \/ /\ PhaseOf[c] = "report"
            /\ GateReport(c) \/ RegenerateReport(c)
         \/ /\ PhaseOf[c] = "certificate"
            /\ CertificationGate(c) \/ Certify(c)
BY DEF Begin, Continue, IntelligencePrerequisites, StartIntelligence, ProduceIntelligence,
  ReportPrerequisites, StartReport, ProduceReport, Conclude, Generated

\* Every step keeps the shape.
LEMMA PipelineShapeStep ==
  ASSUME PipelineShape, [PipelineNext]_pipelineVars
  PROVE  PipelineShape'
<1>1. ASSUME NEW c \in PipelineCommands, Begin(c) \/ Continue(c)
      PROVE  PipelineShape'
  BY <1>1, CommandActions, GenerateShape, CertifyShape DEF Generated
<1>2. ASSUME NEW c \in PipelineCommands, GenerationFails(c)
      PROVE  PipelineShape'
  <2>1. generator[c].source \in PipelineCommands \cup {AggregateSet, Nothing}
    BY DEF PipelineShape, GeneratorRecord
  <2>2. generator' \in [PipelineCommands -> GeneratorRecord]
    BY <1>2, GeneratorGotoFields DEF GenerationFails, PipelineShape, Started
  <2>. QED
    BY <1>2, <2>1, <2>2, PipelineAssumption DEF PipelineAssumption, GenerationFails,
      PutArtifact, PipelineFault, PipelineShape
<1>3. ASSUME NEW c \in PipelineCommands, CertificationFails(c) \/ Kill(c)
      PROVE  PipelineShape'
  BY <1>3, CertifyShape
<1>4. CASE CompleteAggregateSet
  BY <1>4 DEF CompleteAggregateSet, PipelineShape
<1>5. CASE UNCHANGED pipelineVars
  BY <1>5 DEF pipelineVars, PipelineShape
<1>. QED
  BY <1>1, <1>2, <1>3, <1>4, <1>5 DEF PipelineNext

-----------------------------------------------------------------------------
(***************************************************************************)
(* The inductive invariant                                                 *)
(***************************************************************************)

GeneratePcs ==
  {"gate", "put", "in_progress", "generate", "fail", "complete_job", "complete_meta"}
CertifyPcs ==
  {"cert_existing", "cert_job", "cert_in_progress", "check", "write_cert", "cert_meta",
   "cert_fail", "cert_close"}

\* A command that has not come to its artifact, and one that has written it.
NotWritten ==
  {"idle", "gate", "put", "in_progress", "generate", "cert_existing", "cert_job",
   "cert_in_progress", "check", "write_cert"}
Written == {"complete_job", "complete_meta", "cert_meta", "cert_close"}

\* The artifacts of a phase that its metadata has shown.
Shown(p) ==
  {c \in PipelineCommands :
     PhaseOf[c] = p /\ artifacts[c] # Nothing /\ generator[c].shown}

\* What a command of a phase may work from.
Derivable(p) ==
  IF p = "intelligence" THEN {AggregateSet}
  ELSE IF p = "report" THEN Shown("intelligence")
  ELSE Shown("report")

\* A command works from a source that has been shown, through to its artifact,
\* which it writes once.
CommandSound(c) ==
  /\ generator[c].pc \in (IF PhaseOf[c] = "certificate" THEN CertifyPcs ELSE GeneratePcs)
                           \cup Ended \cup {"idle"}
  /\ generator[c].pc \in NotWritten => artifacts[c] = Nothing
  /\ generator[c].pc \in Started \ {"gate"} => generator[c].source \in Derivable(PhaseOf[c])
  /\ generator[c].pc \in Written => artifacts[c] = generator[c].source
  /\ artifacts[c] # Nothing => artifacts[c] \in Derivable(PhaseOf[c])
  /\ generator[c].shown => artifacts[c] # Nothing

\* The reference in the metadata is that of an artifact which has been shown.
MetaSound(p) ==
  /\ meta[p].ref # Nothing => meta[p].ref \in Shown(p)
  /\ meta[p].status = "COMPLETE" => meta[p].ref # Nothing
  /\ meta[p].status = "absent" => meta[p].ref = Nothing

\* The certificate names the report from which it was derived.
CertSound ==
  cert # NoCertificate => cert.ref \in Shown("certificate") /\ artifacts[cert.ref] = cert.report

ChainInv ==
  /\ PipelineShape
  /\ \A c \in PipelineCommands : CommandSound(c)
  /\ \A p \in Generated : MetaSound(p)
  /\ CertSound

LEMMA PipelineInitSound == PipelineInit => ChainInv
<1> SUFFICES ASSUME PipelineInit
             PROVE  ChainInv
  OBVIOUS
<1>1. PipelineShape
  BY PipelineInitShape
<1>2. ASSUME NEW c \in PipelineCommands
      PROVE  CommandSound(c)
  BY DEF PipelineInit, CommandSound, NewCommand, NotWritten, Written, Started
<1>3. ASSUME NEW p \in Generated
      PROVE  MetaSound(p)
  BY DEF PipelineInit, MetaSound, NoMetadata
<1>. QED
  BY <1>1, <1>2, <1>3 DEF PipelineInit, ChainInv, CertSound

\* Artifacts stay as they are, and what has been shown stays shown.
EvidenceKept ==
  /\ \A d \in PipelineCommands : artifacts[d] # Nothing => artifacts'[d] = artifacts[d]
  /\ \A d \in PipelineCommands : generator[d].shown => generator'[d].shown

LEMMA ShownGrows ==
  ASSUME EvidenceKept, NEW p
  PROVE  Shown(p) \subseteq Shown(p)' /\ Derivable(p) \subseteq Derivable(p)'
BY DEF EvidenceKept, Shown, Derivable

LEMMA NothingIsNotDerivable ==
  ASSUME NEW p
  PROVE  Nothing \notin Derivable(p)
BY PipelineAssumption DEF PipelineAssumption, Derivable, Shown

\* A command that neither moves nor writes stays sound.
LEMMA StillSound ==
  ASSUME ChainInv, EvidenceKept, NEW d \in PipelineCommands,
         generator'[d] = generator[d], artifacts'[d] = artifacts[d]
  PROVE  CommandSound(d)'
BY ShownGrows DEF ChainInv, CommandSound

LEMMA MetaStillSound ==
  ASSUME ChainInv, EvidenceKept, NEW p \in Generated, meta'[p] = meta[p]
  PROVE  MetaSound(p)'
BY ShownGrows DEF ChainInv, MetaSound

LEMMA CertStillSound ==
  ASSUME ChainInv, EvidenceKept, cert' = cert
  PROVE  CertSound'
<1>1. CASE cert = NoCertificate
  BY <1>1 DEF CertSound
<1>2. CASE cert # NoCertificate
  <2>1. cert.ref \in Shown("certificate") /\ artifacts[cert.ref] = cert.report
    BY <1>2 DEF ChainInv, CertSound
  <2>2. artifacts'[cert.ref] = artifacts[cert.ref]
    BY <2>1 DEF EvidenceKept, Shown
  <2>. QED
    BY <2>1, <2>2, ShownGrows DEF CertSound
<1>. QED
  BY <1>1, <1>2

\* A step in which c writes neither an artifact nor what is shown: it is enough
\* that c and the metadata of its phase are sound.
LEMMA QuietStep ==
  ASSUME ChainInv, PipelineShape', NEW c \in PipelineCommands, OthersGenerate(c),
         generator'[c].shown = generator[c].shown,
         artifacts' = artifacts, cert' = cert,
         CommandSound(c)',
         \A p \in Generated : meta'[p] = meta[p] \/ MetaSound(p)'
  PROVE  ChainInv'
<1>1. EvidenceKept
  BY DEF EvidenceKept, OthersGenerate
<1>2. ASSUME NEW d \in PipelineCommands
      PROVE  CommandSound(d)'
  BY <1>1, StillSound DEF OthersGenerate
<1>3. ASSUME NEW p \in Generated
      PROVE  MetaSound(p)'
  BY <1>1, MetaStillSound
<1>4. CertSound'
  BY <1>1, CertStillSound
<1>. QED
  BY <1>2, <1>3, <1>4 DEF ChainInv

\* A command ends without having shown anything new.
LEMMA EndSound ==
  ASSUME ChainInv, NEW c \in PipelineCommands, NEW p \in Ended, End(c, p),
         artifacts' = artifacts
  PROVE  /\ CommandSound(c)'
         /\ OthersGenerate(c)
         /\ generator'[c].shown = generator[c].shown
<1>1. /\ generator'[c].pc = p
      /\ generator'[c].shown = generator[c].shown
      /\ OthersGenerate(c)
  BY EndFields DEF ChainInv, PipelineShape
<1>2. EvidenceKept
  BY <1>1 DEF EvidenceKept, OthersGenerate
<1>3. p \notin NotWritten /\ p \notin Started /\ p \notin Written
  BY DEF Ended, NotWritten, Started, Written
<1>. QED
  BY <1>1, <1>2, <1>3, ShownGrows DEF ChainInv, CommandSound

\* A command moves on with the source and the artifact it has.
LEMMA MoveSound ==
  ASSUME ChainInv, NEW c \in PipelineCommands, NEW p \in Started,
         OthersGenerate(c), artifacts' = artifacts,
         generator'[c].pc = p,
         generator'[c].source = generator[c].source,
         generator'[c].shown = generator[c].shown,
         p \in (IF PhaseOf[c] = "certificate" THEN CertifyPcs ELSE GeneratePcs),
         p \in NotWritten => generator[c].pc \in NotWritten,
         p # "gate" => generator[c].pc \in Started \ {"gate"},
         p \in Written => generator[c].pc \in Written
  PROVE  CommandSound(c)'
<1>1. EvidenceKept
  BY DEF EvidenceKept, OthersGenerate
<1>. QED
  BY <1>1, ShownGrows DEF ChainInv, CommandSound

\* c writes its artifact from its source.
LEMMA PublishSound ==
  ASSUME ChainInv, PipelineShape', NEW c \in PipelineCommands, NEW p \in Started,
         OthersGenerate(c), PutArtifact(c), meta' = meta, cert' = cert,
         generator[c].pc \in {"generate", "write_cert"},
         generator'[c].pc = p,
         generator'[c].source = generator[c].source,
         generator'[c].shown = generator[c].shown,
         p \in (IF PhaseOf[c] = "certificate" THEN CertifyPcs ELSE GeneratePcs),
         p \notin NotWritten
  PROVE  ChainInv'
<1>1. /\ artifacts[c] = Nothing
      /\ generator[c].source \in Derivable(PhaseOf[c])
  BY DEF ChainInv, CommandSound, NotWritten, Started
<1>2. /\ artifacts'[c] = generator[c].source
      /\ \A d \in PipelineCommands : d # c => artifacts'[d] = artifacts[d]
  BY DEF PutArtifact, ChainInv, PipelineShape
<1>3. EvidenceKept
  BY <1>1, <1>2 DEF EvidenceKept, OthersGenerate
<1>4. CommandSound(c)'
  BY <1>1, <1>2, <1>3, ShownGrows, NothingIsNotDerivable DEF ChainInv, CommandSound
<1>5. ASSUME NEW d \in PipelineCommands
      PROVE  CommandSound(d)'
  BY <1>2, <1>3, <1>4, StillSound DEF OthersGenerate
<1>6. ASSUME NEW q \in Generated
      PROVE  MetaSound(q)'
  BY <1>3, MetaStillSound
<1>7. CertSound'
  BY <1>3, CertStillSound
<1>. QED
  BY <1>5, <1>6, <1>7 DEF ChainInv

\* c shows the artifact it has written.
LEMMA ExposeSound ==
  ASSUME ChainInv, NEW c \in PipelineCommands, NEW p,
         OthersGenerate(c), artifacts' = artifacts,
         generator[c].pc \in Written,
         generator'[c].pc = p, generator'[c].shown = TRUE,
         \/ p = "done"
         \/ /\ p \in {"cert_close", "cert_fail"}
            /\ PhaseOf[c] = "certificate"
            /\ generator'[c].source = generator[c].source
  PROVE  /\ EvidenceKept
         /\ \A d \in PipelineCommands : CommandSound(d)'
         /\ c \in Shown(PhaseOf[c])'
         /\ artifacts[c] = generator[c].source
<1>1. /\ artifacts[c] = generator[c].source
      /\ artifacts[c] \in Derivable(PhaseOf[c])
  BY DEF ChainInv, CommandSound, Written, Started
<1>2. artifacts[c] # Nothing
  BY <1>1, NothingIsNotDerivable
<1>3. EvidenceKept
  BY DEF EvidenceKept, OthersGenerate
<1>4. CommandSound(c)'
  BY <1>1, <1>2, <1>3, ShownGrows DEF CommandSound, Ended, CertifyPcs, NotWritten,
    Started, Written
<1>5. ASSUME NEW d \in PipelineCommands
      PROVE  CommandSound(d)'
  BY <1>3, <1>4, StillSound DEF OthersGenerate
<1>. QED
  BY <1>1, <1>2, <1>3, <1>5 DEF Shown

\* The steps of a generation.
LEMMA GenerateSound ==
  ASSUME ChainInv, PipelineShape', NEW c \in PipelineCommands, PhaseOf[c] \in Generated,
         \/ \E force \in BOOLEAN : ReadExisting(c, force)
         \/ PutMetadataOnce(c) \/ InProgress(c) \/ WriteArtifact(c) \/ Fail(c)
         \/ CompleteJob(c) \/ CompleteMeta(c)
  PROVE  ChainInv'
<1>1. /\ generator \in [PipelineCommands -> GeneratorRecord]
      /\ meta \in [Generated -> MetadataRecord]
      /\ PhaseOf[c] # "certificate"
      /\ CommandSound(c)
  BY DEF ChainInv, PipelineShape, Generated
<1>2. Ended \cap Started = {} /\ "done" \in Ended /\ "raised" \in Ended
        /\ "refused" \in Ended /\ "already" \in Ended
  BY DEF Ended, Started
<1>3. ASSUME NEW force \in BOOLEAN, ReadExisting(c, force)
      PROVE  ChainInv'
  <2>1. artifacts' = artifacts /\ cert' = cert /\ meta' = meta
    BY <1>3 DEF ReadExisting, Reads
  <2>2. CASE End(c, "refused") \/ End(c, "already")
    BY <1>2, <2>1, <2>2, EndSound, QuietStep
  <2>3. CASE generator' = [generator EXCEPT ![c].pc = "gate",
                                            ![c].existing = meta[PhaseOf[c]]]
    <3>1. "gate" \in Started
      BY DEF Started
    <3>2. /\ generator'[c].pc = "gate"
          /\ generator'[c].source = generator[c].source
          /\ generator'[c].shown = generator[c].shown
          /\ OthersGenerate(c)
      <4>1. meta[PhaseOf[c]] \in MetadataRecord
        BY <1>1
      <4>2. /\ generator'[c] = [generator[c] EXCEPT !.pc = "gate",
                                                   !.existing = meta[PhaseOf[c]]]
            /\ OthersGenerate(c)
        BY <1>1, <2>3, <3>1, <4>1, SetExistingFields
      <4>3. generator[c] \in GeneratorRecord
        BY <1>1
      <4>. QED
        BY <4>2, <4>3 DEF GeneratorRecord
    <3>3. CommandSound(c)'
      BY <1>1, <1>3, <2>1, <3>1, <3>2, MoveSound DEF ReadExisting, GeneratePcs, NotWritten,
        Written
    <3>. QED
      BY <2>1, <3>2, <3>3, QuietStep
  <2>. QED
    BY <1>3, <2>2, <2>3 DEF ReadExisting
<1>4. CASE PutMetadataOnce(c)
  <2>1. artifacts' = artifacts /\ cert' = cert
    BY <1>4 DEF PutMetadataOnce, WritesBoth
  <2>2. CASE meta[PhaseOf[c]].status = "absent"
    <3>1. GeneratorGoto(c, "in_progress") /\ "in_progress" \in Started
      BY <1>4, <2>2 DEF PutMetadataOnce, Started
    <3>2. CommandSound(c)'
      BY <1>1, <1>4, <2>1, <3>1, GeneratorGotoFields, MoveSound DEF PutMetadataOnce,
        GeneratePcs, NotWritten, Written, Started
    <3>3. meta' = [meta EXCEPT ![PhaseOf[c]] = [status |-> "PENDING", job |-> c,
                                                ref |-> Nothing, count |-> 1]]
      BY <1>4, <2>2 DEF PutMetadataOnce
    <3>4. \A p \in Generated : meta'[p] = meta[p] \/ MetaSound(p)'
      BY <1>1, <3>3 DEF MetaSound
    <3>. QED
      BY <1>1, <2>1, <3>1, <3>2, <3>4, GeneratorGotoFields, QuietStep
  <2>3. CASE meta[PhaseOf[c]].status # "absent"
    BY <1>2, <1>4, <2>1, <2>3, EndSound, QuietStep DEF PutMetadataOnce
  <2>. QED
    BY <2>2, <2>3
<1>5. CASE InProgress(c)
  <2>1. artifacts' = artifacts /\ cert' = cert /\ GeneratorGoto(c, "generate")
          /\ "generate" \in Started
    BY <1>5 DEF InProgress, WritesBoth, Started
  <2>2. CommandSound(c)'
    BY <1>1, <1>5, <2>1, GeneratorGotoFields, MoveSound DEF InProgress, GeneratePcs,
      NotWritten, Written, Started
  <2>3. \A p \in Generated : meta'[p] = meta[p] \/ MetaSound(p)'
    <3>1. meta' = [meta EXCEPT ![PhaseOf[c]].status = "IN_PROGRESS"]
      BY <1>5 DEF InProgress
    <3>2. EvidenceKept
      BY <1>1, <2>1, GeneratorGotoFields DEF EvidenceKept, OthersGenerate
    <3>3. \A p \in Generated : MetaSound(p)
      BY DEF ChainInv
    <3>. QED
      BY <1>1, <3>1, <3>2, <3>3, ShownGrows DEF MetaSound, MetadataRecord
  <2>. QED
    BY <1>1, <2>1, <2>2, <2>3, GeneratorGotoFields, QuietStep
<1>6. CASE WriteArtifact(c)
  <2>1. GeneratorGoto(c, "complete_job") /\ "complete_job" \in Started
    BY <1>6 DEF WriteArtifact, Started
  <2>. QED
    BY <1>1, <1>6, <2>1, GeneratorGotoFields, PublishSound DEF WriteArtifact, GeneratePcs,
      NotWritten
<1>7. CASE Fail(c)
  <2>1. artifacts' = artifacts /\ cert' = cert /\ End(c, "raised")
    BY <1>7 DEF Fail, WritesBoth
  <2>2. \A p \in Generated : meta'[p] = meta[p] \/ MetaSound(p)'
    <3>1. meta' = [meta EXCEPT ![PhaseOf[c]].status = "FAILED"]
      BY <1>7 DEF Fail
    <3>2. EvidenceKept
      BY <1>1, <1>2, <2>1, EndFields DEF EvidenceKept, OthersGenerate
    <3>3. \A p \in Generated : MetaSound(p)
      BY DEF ChainInv
    <3>. QED
      BY <1>1, <3>1, <3>2, <3>3, ShownGrows DEF MetaSound, MetadataRecord
  <2>. QED
    BY <1>2, <2>1, <2>2, EndSound, QuietStep
<1>8. CASE CompleteJob(c)
  <2>1. /\ artifacts' = artifacts /\ cert' = cert /\ meta' = meta
        /\ GeneratorGoto(c, "complete_meta") /\ "complete_meta" \in Started
    BY <1>8 DEF CompleteJob, WritesJob, Started
  <2>2. CommandSound(c)'
    BY <1>1, <1>8, <2>1, GeneratorGotoFields, MoveSound DEF CompleteJob, GeneratePcs,
      NotWritten, Written, Started
  <2>. QED
    BY <1>1, <2>1, <2>2, GeneratorGotoFields, QuietStep
<1>9. CASE CompleteMeta(c)
  <2>1. artifacts' = artifacts /\ cert' = cert
    BY <1>9 DEF CompleteMeta, WritesMeta
  <2>2. generator'[c].pc = "done" /\ generator'[c].shown = TRUE /\ OthersGenerate(c)
    BY <1>1, <1>9 DEF CompleteMeta, NewCommand, OthersGenerate
  <2>3. /\ EvidenceKept
        /\ \A d \in PipelineCommands : CommandSound(d)'
        /\ c \in Shown(PhaseOf[c])'
    BY <1>9, <2>1, <2>2, ExposeSound DEF CompleteMeta, Written
  <2>4. ASSUME NEW p \in Generated
        PROVE  MetaSound(p)'
    <3>1. CASE p = PhaseOf[c]
      <4>1. meta'[p].status = "COMPLETE" /\ meta'[p].ref = c
        BY <1>1, <1>9, <3>1 DEF CompleteMeta, MetadataRecord
      <4>. QED
        BY <2>3, <3>1, <4>1, PipelineAssumption DEF PipelineAssumption, MetaSound
    <3>2. CASE p # PhaseOf[c]
      BY <1>1, <1>9, <2>3, <3>2, MetaStillSound DEF CompleteMeta
    <3>. QED
      BY <3>1, <3>2
  <2>5. CertSound'
    BY <2>1, <2>3, CertStillSound
  <2>. QED
    BY <2>3, <2>4, <2>5 DEF ChainInv
<1>. QED
  BY <1>3, <1>4, <1>5, <1>6, <1>7, <1>8, <1>9

\* What a phase's own prerequisite and its next generation do.
LEMMA PrerequisitesSound ==
  ASSUME ChainInv, PipelineShape', NEW c \in PipelineCommands,
         \/ /\ PhaseOf[c] = "intelligence"
            /\ GateIntelligence(c) \/ DryRun(c) \/ RegenerateIntelligence(c)
         \/ /\ PhaseOf[c] = "report"
            /\ GateReport(c) \/ RegenerateReport(c)
  PROVE  ChainInv'
<1>1. /\ generator \in [PipelineCommands -> GeneratorRecord]
      /\ generator[c] \in GeneratorRecord
      /\ meta \in [Generated -> MetadataRecord]
      /\ PhaseOf[c] # "certificate" /\ PhaseOf[c] \in Generated
      /\ CommandSound(c)
      /\ \A p \in Generated : MetaSound(p)
  BY DEF ChainInv, PipelineShape, Generated
<1>2. "refused" \in Ended /\ "dry_run" \in Ended /\ "put" \in Started
        /\ "in_progress" \in Started
  BY DEF Ended, Started
<1>3. ASSUME NEW holds, NEW source \in PipelineCommands \cup {AggregateSet, Nothing},
             holds => source \in Derivable(PhaseOf[c]), Gate(c, holds, source)
      PROVE  ChainInv'
  <2>1. artifacts' = artifacts /\ cert' = cert /\ meta' = meta
    BY <1>3 DEF Gate, Reads
  <2>2. CASE ~ holds
    BY <1>2, <1>3, <2>1, <2>2, EndSound, QuietStep DEF Gate
  <2>3. CASE holds
    <3>1. /\ generator'[c] = [generator[c] EXCEPT !.pc = "put", !.source = source]
          /\ OthersGenerate(c)
      BY <1>1, <1>2, <1>3, <2>3, SetSourceFields DEF Gate
    <3>2. /\ generator'[c].pc = "put" /\ generator'[c].source = source
          /\ generator'[c].shown = generator[c].shown
      BY <1>1, <3>1 DEF GeneratorRecord
    <3>3. EvidenceKept
      BY <2>1, <3>1, <3>2 DEF EvidenceKept, OthersGenerate
    <3>4. artifacts[c] = Nothing
      BY <1>1, <1>3 DEF Gate, CommandSound, NotWritten
    <3>5. CommandSound(c)'
      BY <1>1, <1>3, <2>1, <2>3, <3>2, <3>3, <3>4, ShownGrows DEF CommandSound,
        GeneratePcs, NotWritten, Written
    <3>. QED
      BY <2>1, <3>1, <3>2, <3>5, QuietStep
  <2>. QED
    BY <2>2, <2>3
<1>4. CASE PhaseOf[c] = "intelligence" /\ GateIntelligence(c)
  BY <1>3, <1>4 DEF GateIntelligence, Derivable
<1>5. CASE PhaseOf[c] = "report" /\ GateReport(c)
  <2>1. IntelligenceComplete => meta["intelligence"].ref \in Derivable(PhaseOf[c])
    BY <1>1, <1>5 DEF IntelligenceComplete, MetaSound, Derivable, Generated
  <2>2. meta["intelligence"].ref \in PipelineCommands \cup {AggregateSet, Nothing}
    BY <1>1 DEF MetadataRecord, Generated
  <2>. QED
    BY <1>3, <1>5, <2>1, <2>2 DEF GateReport
<1>6. CASE DryRun(c)
  <2>1. artifacts' = artifacts /\ cert' = cert /\ meta' = meta /\ End(c, "dry_run")
    BY <1>6 DEF DryRun, Reads
  <2>. QED
    BY <1>2, <2>1, EndSound, QuietStep
<1>7. ASSUME NEW ref, ref # Nothing => ref = meta[PhaseOf[c]].ref, Regenerate(c, ref)
      PROVE  ChainInv'
  <2>1. artifacts' = artifacts /\ cert' = cert
    BY <1>7 DEF Regenerate, WritesBoth
  <2>2. NoMetadata \in MetadataRecord
    BY DEF NoMetadata, MetadataRecord, Statuses
  <2>3. /\ generator'[c] = [generator[c] EXCEPT !.pc = "in_progress", !.existing = NoMetadata]
        /\ OthersGenerate(c)
    BY <1>1, <1>2, <1>7, <2>2, SetExistingFields DEF Regenerate
  <2>4. /\ generator'[c].pc = "in_progress"
        /\ generator'[c].source = generator[c].source
        /\ generator'[c].shown = generator[c].shown
    BY <1>1, <2>3 DEF GeneratorRecord
  <2>5. CommandSound(c)'
    BY <1>1, <1>2, <1>7, <2>1, <2>3, <2>4, MoveSound DEF Regenerate, GeneratePcs, NotWritten,
      Written, Started
  <2>6. EvidenceKept
    BY <2>1, <2>3, <2>4 DEF EvidenceKept, OthersGenerate
  <2>7. ASSUME NEW p \in Generated
        PROVE  meta'[p] = meta[p] \/ MetaSound(p)'
    <3>1. CASE p = PhaseOf[c]
      <4>1. meta'[p].status = "PENDING" /\ meta'[p].ref = ref
        BY <1>1, <1>7, <3>1 DEF Regenerate
      <4>2. MetaSound(p)
        BY <1>1
      <4>. QED
        BY <1>7, <2>6, <3>1, <4>1, <4>2, ShownGrows DEF MetaSound
    <3>2. CASE p # PhaseOf[c]
      BY <1>1, <1>7, <3>2 DEF Regenerate
    <3>. QED
      BY <3>1, <3>2
  <2>. QED
    BY <2>1, <2>3, <2>4, <2>5, <2>7, QuietStep
<1>8. CASE PhaseOf[c] = "intelligence" /\ RegenerateIntelligence(c)
  BY <1>7, <1>8 DEF RegenerateIntelligence
<1>9. CASE PhaseOf[c] = "report" /\ RegenerateReport(c)
  BY <1>7, <1>9 DEF RegenerateReport
<1>. QED
  BY <1>4, <1>5, <1>6, <1>8, <1>9

\* The steps of a certification, and the failures.
LEMMA CertifySound ==
  ASSUME ChainInv, PipelineShape', NEW c \in PipelineCommands,
         \/ PhaseOf[c] = "certificate" /\ (CertificationGate(c) \/ Certify(c))
         \/ CertificationFails(c) \/ GenerationFails(c) \/ Kill(c)
  PROVE  ChainInv'
<1>1. /\ generator \in [PipelineCommands -> GeneratorRecord]
      /\ generator[c] \in GeneratorRecord
      /\ meta \in [Generated -> MetadataRecord]
      /\ CommandSound(c)
      /\ \A p \in Generated : MetaSound(p)
  BY DEF ChainInv, PipelineShape
<1>2. "refused" \in Ended /\ "killed" \in Ended /\ "done" \in Ended /\ "raised" \in Ended
  BY DEF Ended
<1>3. CertifyPcs \subseteq Started /\ "fail" \in Started
  BY DEF CertifyPcs, Started
<1>4. ASSUME NEW p \in Ended, End(c, p), artifacts' = artifacts, cert' = cert, meta' = meta
      PROVE  ChainInv'
  BY <1>4, EndSound, QuietStep
<1>5. ASSUME NEW p \in CertifyPcs, GeneratorGoto(c, p), artifacts' = artifacts,
             cert' = cert, meta' = meta,
             PhaseOf[c] = "certificate",
             generator[c].pc \in CertifyPcs,
             p \in NotWritten => generator[c].pc \in NotWritten,
             p \notin Written
      PROVE  ChainInv'
  <2>1. p \in Started /\ p # "gate" /\ generator[c].pc \in Started \ {"gate"}
    BY <1>3, <1>5 DEF CertifyPcs
  <2>2. /\ generator'[c].pc = p
        /\ generator'[c].source = generator[c].source
        /\ generator'[c].shown = generator[c].shown
        /\ OthersGenerate(c)
    BY <1>1, <1>5, <2>1, GeneratorGotoFields
  <2>3. CommandSound(c)'
    BY <1>5, <2>1, <2>2, MoveSound
  <2>. QED
    BY <1>5, <2>2, <2>3, QuietStep
<1>6. CASE CertificationGate(c) /\ PhaseOf[c] = "certificate"
  <2>1. artifacts' = artifacts /\ cert' = cert /\ meta' = meta
    BY <1>6 DEF CertificationGate, Reads
  <2>2. CASE meta["report"].status # "COMPLETE"
    BY <1>2, <1>4, <1>6, <2>1, <2>2 DEF CertificationGate
  <2>3. CASE meta["report"].status = "COMPLETE"
    <3> DEFINE source == meta["report"].ref
    <3>1. source \in Derivable(PhaseOf[c])
      BY <1>1, <1>6, <2>3 DEF MetaSound, Derivable, Generated
    <3>2. source \in PipelineCommands \cup {AggregateSet, Nothing}
      BY <1>1 DEF MetadataRecord, Generated
    <3>3. generator' = [generator EXCEPT ![c].pc = "cert_existing", ![c].source = source]
      BY <1>6, <2>3 DEF CertificationGate
    <3>4. "cert_existing" \in CertifyPcs /\ "cert_existing" \in Started
            /\ "cert_existing" \notin Written
      BY DEF CertifyPcs, Started, Written
    <3> HIDE DEF source
    <3>5. /\ generator'[c] = [generator[c] EXCEPT !.pc = "cert_existing", !.source = source]
          /\ OthersGenerate(c)
      BY <1>1, <3>2, <3>3, <3>4, SetSourceFields
    <3>6. /\ generator'[c].pc = "cert_existing" /\ generator'[c].source = source
          /\ generator'[c].shown = generator[c].shown
      BY <1>1, <3>5 DEF GeneratorRecord
    <3>7. EvidenceKept
      BY <2>1, <3>5, <3>6 DEF EvidenceKept, OthersGenerate
    <3>8. artifacts[c] = Nothing
      BY <1>1, <1>6 DEF CertificationGate, CommandSound, NotWritten
    <3>9. CommandSound(c)'
      BY <1>1, <1>6, <2>1, <3>1, <3>4, <3>6, <3>7, <3>8, ShownGrows DEF CommandSound
    <3>. QED
      BY <2>1, <3>5, <3>6, <3>9, QuietStep
  <2>. QED
    BY <2>2, <2>3
<1>7. ASSUME NEW force \in BOOLEAN, ReadExistingCertificate(c, force),
             PhaseOf[c] = "certificate"
      PROVE  ChainInv'
  BY <1>2, <1>4, <1>5, <1>7 DEF ReadExistingCertificate, Reads, CertifyPcs, NotWritten,
    Written
<1>8. CASE PhaseOf[c] = "certificate" /\ CertjobPending(c)
  BY <1>5, <1>8 DEF CertjobPending, WritesJob, CertifyPcs, NotWritten, Written
<1>9. CASE PhaseOf[c] = "certificate" /\ CertjobInProgress(c)
  BY <1>5, <1>9 DEF CertjobInProgress, WritesJob, CertifyPcs, NotWritten, Written
<1>10. CASE PhaseOf[c] = "certificate" /\ CheckDomains(c)
  <2>1. PICK verdict \in TerminalStates :
          generator' = [generator EXCEPT ![c].pc = "write_cert", ![c].verdict = verdict]
    BY <1>10 DEF CheckDomains
  <2>2. "write_cert" \in Started
    BY DEF Started
  <2>3. /\ generator'[c] = [generator[c] EXCEPT !.pc = "write_cert", !.verdict = verdict]
        /\ OthersGenerate(c)
    BY <1>1, <2>1, <2>2, SetVerdictFields
  <2>4. /\ generator'[c].pc = "write_cert"
        /\ generator'[c].source = generator[c].source
        /\ generator'[c].shown = generator[c].shown
    BY <1>1, <2>3 DEF GeneratorRecord
  <2>5. artifacts' = artifacts /\ cert' = cert /\ meta' = meta
    BY <1>10 DEF CheckDomains
  <2>6. CommandSound(c)'
    BY <1>10, <2>2, <2>3, <2>4, <2>5, MoveSound DEF CheckDomains, CertifyPcs, NotWritten,
      Written, Started
  <2>. QED
    BY <2>3, <2>4, <2>5, <2>6, QuietStep
<1>11. CASE PhaseOf[c] = "certificate" /\ WriteCertificate(c)
  BY <1>1, <1>11, GeneratorGotoFields, PublishSound DEF WriteCertificate, CertifyPcs,
    Started, NotWritten
<1>12. ASSUME NEW p \in {"cert_close", "cert_fail"}, PhaseOf[c] = "certificate",
              generator[c].pc = "cert_meta",
              generator' = [generator EXCEPT ![c].pc = p, ![c].shown = TRUE],
              artifacts' = artifacts, meta' = meta, cert' = CertificateOf(c)
       PROVE  ChainInv'
  <2>1. p \in Started /\ "cert_meta" \in Written
    BY <1>12 DEF Started, Written
  <2>2. generator'[c] = [generator[c] EXCEPT !.pc = p, !.shown = TRUE] /\ OthersGenerate(c)
    BY <1>1, <1>12, <2>1, SetShownFields
  <2>3. /\ generator'[c].pc = p /\ generator'[c].shown = TRUE
        /\ generator'[c].source = generator[c].source
    BY <1>1, <2>2 DEF GeneratorRecord
  <2>4. /\ EvidenceKept
        /\ \A d \in PipelineCommands : CommandSound(d)'
        /\ c \in Shown(PhaseOf[c])'
        /\ artifacts[c] = generator[c].source
    BY <1>12, <2>1, <2>2, <2>3, ExposeSound
  <2>5. CertSound'
    BY <1>12, <2>4 DEF CertSound, CertificateOf
  <2>. QED
    BY <1>12, <2>4, <2>5, MetaStillSound DEF ChainInv
<1>13. CASE PhaseOf[c] = "certificate" /\ WriteCertMetadata(c)
  BY <1>12, <1>13 DEF WriteCertMetadata
<1>14. CASE PhaseOf[c] = "certificate" /\ (CloseCertjob(c) \/ FailCertjob(c))
  BY <1>2, <1>4, <1>14 DEF CloseCertjob, FailCertjob, WritesJob
<1>15. CASE CertificationFails(c)
  <2>1. PhaseOf[c] = "certificate"
    BY <1>1, <1>15 DEF CertificationFails, CommandSound, GeneratePcs, Ended
  <2>2. CASE GeneratorGoto(c, "cert_fail") /\ artifacts' = artifacts /\ cert' = cert
    BY <1>5, <1>15, <2>1, <2>2 DEF CertificationFails, CertifyPcs, NotWritten, Written
  <2>3. CASE generator[c].pc = "write_cert" /\ PutArtifact(c)
             /\ GeneratorGoto(c, "cert_fail") /\ cert' = cert
    BY <1>1, <1>15, <2>1, <2>3, GeneratorGotoFields, PublishSound DEF CertificationFails,
      CertifyPcs, Started, NotWritten
  <2>4. CASE /\ generator[c].pc = "cert_meta"
             /\ cert' = CertificateOf(c)
             /\ generator' = [generator EXCEPT ![c].pc = "cert_fail", ![c].shown = TRUE]
             /\ UNCHANGED artifacts
    BY <1>12, <1>15, <2>1, <2>4 DEF CertificationFails
  <2>. QED
    BY <1>15, <2>2, <2>3, <2>4 DEF CertificationFails
<1>16. CASE GenerationFails(c)
  <2>1. /\ PhaseOf[c] # "certificate"
        /\ generator[c].pc = "generate"
        /\ GeneratorGoto(c, "fail")
        /\ meta' = meta /\ cert' = cert
    BY <1>1, <1>16 DEF GenerationFails, CommandSound, CertifyPcs, Ended
  <2>2. /\ generator'[c].pc = "fail"
        /\ generator'[c].source = generator[c].source
        /\ generator'[c].shown = generator[c].shown
        /\ OthersGenerate(c)
    BY <1>1, <1>3, <2>1, GeneratorGotoFields
  <2>3. CASE PutArtifact(c)
    BY <1>3, <2>1, <2>2, <2>3, PublishSound DEF GeneratePcs, NotWritten
  <2>4. CASE artifacts' = artifacts
    <3>1. CommandSound(c)'
      BY <1>3, <2>1, <2>2, <2>4, MoveSound DEF GeneratePcs, NotWritten, Written, Started
    <3>. QED
      BY <2>1, <2>2, <2>4, <3>1, QuietStep
  <2>. QED
    BY <1>16, <2>3, <2>4 DEF GenerationFails
<1>17. CASE Kill(c)
  BY <1>2, <1>4, <1>17 DEF Kill
<1>. QED
  BY <1>6, <1>7, <1>8, <1>9, <1>10, <1>11, <1>13, <1>14, <1>15, <1>16, <1>17 DEF Certify

\* The invariant is inductive.
LEMMA ChainInvStep == ChainInv /\ [PipelineNext]_pipelineVars => ChainInv'
<1> SUFFICES ASSUME ChainInv, [PipelineNext]_pipelineVars
             PROVE  ChainInv'
  OBVIOUS
<1>1. PipelineShape'
  BY PipelineShapeStep DEF ChainInv
<1>2. ASSUME NEW c \in PipelineCommands, Begin(c) \/ Continue(c)
      PROVE  ChainInv'
  BY <1>1, <1>2, CommandActions, GenerateSound, PrerequisitesSound, CertifySound
<1>3. ASSUME NEW c \in PipelineCommands,
             GenerationFails(c) \/ CertificationFails(c) \/ Kill(c)
      PROVE  ChainInv'
  BY <1>1, <1>3, CertifySound
<1>4. CASE CompleteAggregateSet \/ UNCHANGED pipelineVars
  <2>1. UNCHANGED <<meta, cert, artifacts, generator>>
    BY <1>4 DEF CompleteAggregateSet, pipelineVars
  <2>2. EvidenceKept
    BY <2>1 DEF EvidenceKept
  <2>. QED
    BY <1>1, <2>1, <2>2, StillSound, MetaStillSound, CertStillSound DEF ChainInv
<1>. QED
  BY <1>2, <1>3, <1>4 DEF PipelineNext

LEMMA ChainInvHolds == PipelineSpec => []ChainInv
BY PipelineInitSound, ChainInvStep, PTL DEF PipelineSpec

-----------------------------------------------------------------------------
(***************************************************************************)
(* The certificate and the report                                          *)
(***************************************************************************)

\* The certificate that is shown is about the report its document was derived
\* from, for any number of reports generated in between and whatever fails: the
\* report it names is the one the certifying command read at its start.
THEOREM CertificatesAreOfTheirReports == PipelineSpec => []CertificateIsOfItsReport
<1>1. ChainInv => CertificateIsOfItsReport
  <2> SUFFICES ASSUME ChainInv, cert # NoCertificate
               PROVE  /\ artifacts[cert.ref] = cert.report
                      /\ artifacts[cert.report] \in PipelineCommands
    BY DEF CertificateIsOfItsReport
  <2>1. cert.ref \in Shown("certificate") /\ artifacts[cert.ref] = cert.report
    BY DEF ChainInv, CertSound
  <2>2. ASSUME NEW p, NEW c \in Shown(p)
        PROVE  /\ c \in PipelineCommands
               /\ artifacts[c] \in Derivable(p)
    BY DEF ChainInv, CommandSound, Shown
  <2>3. cert.report \in Shown("report")
    BY <2>1, <2>2 DEF Derivable
  <2>4. artifacts[cert.report] \in Shown("intelligence")
    BY <2>2, <2>3 DEF Derivable
  <2>. QED
    BY <2>1, <2>2, <2>4
<1>. QED
  BY <1>1, ChainInvHolds, PTL

-----------------------------------------------------------------------------
(***************************************************************************)
(* EvidencePipeline implements EvidenceChain                               *)
(***************************************************************************)

\* A retrieval finds the artifact of every reference it is given.
LEMMA RetrievalsFind ==
  ASSUME ChainInv
  PROVE  /\ RetrieveIntelligence = meta["intelligence"].ref
         /\ RetrieveReport = meta["report"].ref
         /\ RetrieveCertificate = cert.ref
<1>1. ASSUME NEW ref, ref # Nothing => artifacts[ref] # Nothing
      PROVE  ReadArtifact(ref) = ref
  BY <1>1 DEF ReadArtifact
<1>2. /\ meta["intelligence"].ref # Nothing => artifacts[meta["intelligence"].ref] # Nothing
      /\ meta["report"].ref # Nothing => artifacts[meta["report"].ref] # Nothing
  BY DEF ChainInv, MetaSound, Shown, Generated
<1>3. cert.ref # Nothing => artifacts[cert.ref] # Nothing
  BY DEF ChainInv, CertSound, Shown, NoCertificate
<1>. QED
  BY <1>1, <1>2, <1>3 DEF RetrieveIntelligence, RetrieveReport, RetrieveCertificate

\* The abstract state a pipeline state stands for.
PublishedNow ==
  {[id |-> c, phase |-> PhaseOf[c], source |-> artifacts[c]] :
     c \in {d \in PipelineCommands : artifacts[d] # Nothing}}
ExposedNow == {c \in PipelineCommands : generator[c].shown}
VisibleNow ==
  [intelligence |-> RetrieveIntelligence, report |-> RetrieveReport,
   certificate |-> RetrieveCertificate]

LEMMA VisibleIs ==
  ASSUME ChainInv
  PROVE  VisibleNow = [intelligence |-> meta["intelligence"].ref,
                       report |-> meta["report"].ref, certificate |-> cert.ref]
BY RetrievalsFind DEF VisibleNow

\* What may be shown to be derived from is what EvidenceChain allows.
LEMMA DerivableIsSource ==
  ASSUME ChainInv, NEW c \in PipelineCommands, NEW x \in Derivable(PhaseOf[c])
  PROVE  x \in Chain!Sources(PhaseOf[c])
<1>1. PhaseOf[c] \in {"intelligence", "report", "certificate"}
  BY PipelineAssumption DEF PipelineAssumption, AllPhases, Generated
<1>2. ASSUME NEW p, NEW y \in Shown(p)
      PROVE  y \in Chain!IdsOf(p) \cap ExposedNow
  <2> DEFINE a == [id |-> y, phase |-> PhaseOf[y], source |-> artifacts[y]]
  <2>1. y \in PipelineCommands /\ artifacts[y] # Nothing /\ PhaseOf[y] = p
          /\ generator[y].shown
    BY DEF Shown
  <2>2. a \in PublishedNow
    BY <2>1 DEF PublishedNow
  <2>3. a.phase = p /\ a.id = y
    BY <2>1
  <2>. QED
    BY <2>1, <2>2, <2>3 DEF Chain!IdsOf, ExposedNow, PublishedNow
<1>. QED
  BY <1>1, <1>2 DEF Derivable, Chain!Sources, ExposedNow

LEMMA VisibleInBoth ==
  ASSUME ChainInv, ChainInv'
  PROVE  /\ VisibleNow = [intelligence |-> meta["intelligence"].ref,
                          report |-> meta["report"].ref, certificate |-> cert.ref]
         /\ VisibleNow' = [intelligence |-> meta'["intelligence"].ref,
                           report |-> meta'["report"].ref, certificate |-> cert'.ref]
<1>1. ChainInv => VisibleNow = [intelligence |-> meta["intelligence"].ref,
                                report |-> meta["report"].ref, certificate |-> cert.ref]
  BY VisibleIs
<1>2. (ChainInv => VisibleNow = [intelligence |-> meta["intelligence"].ref,
                                 report |-> meta["report"].ref, certificate |-> cert.ref])'
  BY VisibleIs, PTL
<1>. QED
  BY <1>1, <1>2

\* Writing an artifact publishes it.
LEMMA PublishRefines ==
  ASSUME ChainInv, NEW c \in PipelineCommands, artifacts[c] = Nothing, PutArtifact(c),
         generator[c].source \in Derivable(PhaseOf[c]),
         ExposedNow' = ExposedNow, VisibleNow' = VisibleNow
  PROVE  Chain!ChainNext
<1>1. generator[c].source \in PipelineCommands \cup {AggregateSet}
  BY NothingIsNotDerivable DEF ChainInv, PipelineShape, GeneratorRecord
<1>2. PICK source \in PipelineCommands \cup {AggregateSet} : source = generator[c].source
  BY <1>1
<1> DEFINE new == [id |-> c, phase |-> PhaseOf[c], source |-> source]
<1>3. source \in Chain!Sources(PhaseOf[c]) /\ source # Nothing
  BY <1>2, DerivableIsSource, NothingIsNotDerivable
<1>4. PhaseOf[c] \in Chain!Phases
  BY PipelineAssumption DEF PipelineAssumption, AllPhases, Generated, Chain!Phases
<1>5. /\ artifacts'[c] = source
      /\ \A d \in PipelineCommands : d # c => artifacts'[d] = artifacts[d]
  BY <1>2 DEF PutArtifact, ChainInv, PipelineShape
<1>6. PublishedNow' = PublishedNow \cup {new}
  <2>1. ASSUME NEW x \in PublishedNow'
        PROVE  x \in PublishedNow \cup {new}
    BY <1>5 DEF PublishedNow
  <2>2. ASSUME NEW x \in PublishedNow
        PROVE  x \in PublishedNow'
    BY <1>5 DEF PublishedNow
  <2>3. new \in PublishedNow'
    BY <1>3, <1>5 DEF PublishedNow
  <2>. QED
    BY <2>1, <2>2, <2>3
<1>7. \A x \in PublishedNow : x.id # c
  BY DEF PublishedNow
<1>8. Chain!Publish(c, PhaseOf[c], source)
  BY <1>3, <1>6, <1>7 DEF Chain!Publish, PublishedNow, ExposedNow, VisibleNow
<1>. QED
  BY <1>4, <1>8 DEF Chain!ChainNext

\* Showing an artifact exposes it.
LEMMA ExposeRefines ==
  ASSUME ChainInv, NEW c \in PipelineCommands, artifacts[c] # Nothing,
         artifacts' = artifacts,
         generator'[c].shown = TRUE,
         \A d \in PipelineCommands : d # c => generator'[d].shown = generator[d].shown,
         VisibleNow' = [VisibleNow EXCEPT ![PhaseOf[c]] = c]
  PROVE  Chain!ChainNext
<1>1. PhaseOf[c] \in Chain!Phases
  BY PipelineAssumption DEF PipelineAssumption, AllPhases, Generated, Chain!Phases
<1>2. c \in Chain!IdsOf(PhaseOf[c])
  <2> DEFINE a == [id |-> c, phase |-> PhaseOf[c], source |-> artifacts[c]]
  <2>1. a \in PublishedNow /\ a.phase = PhaseOf[c] /\ a.id = c
    BY DEF PublishedNow
  <2>. QED
    BY <2>1 DEF Chain!IdsOf, PublishedNow
<1>3. ExposedNow' = ExposedNow \cup {c}
  BY DEF ExposedNow
<1>4. PublishedNow' = PublishedNow
  BY DEF PublishedNow
<1>5. Chain!Expose(c, PhaseOf[c])
  BY <1>2, <1>3, <1>4 DEF Chain!Expose, PublishedNow, ExposedNow, VisibleNow
<1>. QED
  BY <1>1, <1>5 DEF Chain!ChainNext

\* Generating intelligence again withdraws it.
LEMMA WithdrawRefines ==
  ASSUME artifacts' = artifacts, ExposedNow' = ExposedNow,
         VisibleNow' = [VisibleNow EXCEPT !["intelligence"] = Nothing]
  PROVE  Chain!ChainNext
<1>1. PublishedNow' = PublishedNow
  BY DEF PublishedNow
<1>2. Chain!Withdraw("intelligence")
  BY <1>1 DEF Chain!Withdraw, PublishedNow, ExposedNow, VisibleNow
<1>. QED
  BY <1>2 DEF Chain!ChainNext, Chain!Phases

\* A step that writes no artifact and moves no reference.
LEMMA StutterRefines ==
  ASSUME artifacts' = artifacts, ExposedNow' = ExposedNow, VisibleNow' = VisibleNow
  PROVE  UNCHANGED Chain!chainVars
<1>1. PublishedNow' = PublishedNow
  BY DEF PublishedNow
<1>. QED
  BY <1>1 DEF Chain!chainVars, PublishedNow, ExposedNow, VisibleNow

\* What leaves the references alone leaves what is visible alone, and a command
\* whose artifact is shown as before leaves what is exposed alone.
RefsKept ==
  (\A p \in Generated : meta'[p].ref = meta[p].ref) /\ cert'.ref = cert.ref

LEMMA VisibleKept ==
  ASSUME ChainInv, ChainInv', RefsKept
  PROVE  VisibleNow' = VisibleNow
BY VisibleInBoth DEF RefsKept, Generated

LEMMA ExposedKept ==
  ASSUME NEW c \in PipelineCommands, OthersGenerate(c),
         generator'[c].shown = generator[c].shown
  PROVE  ExposedNow' = ExposedNow
BY DEF ExposedNow, OthersGenerate

\* A step that writes no artifact and leaves the references alone, and one that
\* writes the command's artifact.
LEMMA QuietRefines ==
  ASSUME ChainInv, ChainInv', NEW c \in PipelineCommands, OthersGenerate(c),
         generator'[c].shown = generator[c].shown, artifacts' = artifacts, RefsKept
  PROVE  UNCHANGED Chain!chainVars
BY VisibleKept, ExposedKept, StutterRefines

LEMMA WriteRefines ==
  ASSUME ChainInv, ChainInv', NEW c \in PipelineCommands, OthersGenerate(c),
         generator[c].pc \in {"generate", "write_cert"}, PutArtifact(c),
         generator'[c].shown = generator[c].shown, RefsKept
  PROVE  Chain!ChainNext
<1>1. /\ artifacts[c] = Nothing
      /\ generator[c].source \in Derivable(PhaseOf[c])
  BY DEF ChainInv, CommandSound, NotWritten, Started
<1>. QED
  BY <1>1, VisibleKept, ExposedKept, PublishRefines

\* The steps of a generation refine steps of EvidenceChain.
LEMMA GenerateRefines ==
  ASSUME ChainInv, ChainInv', NEW c \in PipelineCommands, PhaseOf[c] \in Generated,
         \/ \E force \in BOOLEAN : ReadExisting(c, force)
         \/ PutMetadataOnce(c) \/ InProgress(c) \/ WriteArtifact(c) \/ Fail(c)
         \/ CompleteJob(c) \/ CompleteMeta(c)
  PROVE  Chain!ChainNext \/ UNCHANGED Chain!chainVars
<1>1. /\ generator \in [PipelineCommands -> GeneratorRecord]
      /\ generator[c] \in GeneratorRecord
      /\ meta \in [Generated -> MetadataRecord]
      /\ CommandSound(c)
      /\ \A p \in Generated : MetaSound(p)
  BY DEF ChainInv, PipelineShape
<1>2. "done" \in Ended /\ "raised" \in Ended /\ "refused" \in Ended /\ "already" \in Ended
  BY DEF Ended
<1>3. {"gate", "in_progress", "generate", "complete_job", "complete_meta"} \subseteq Started
  BY DEF Started
<1>4. ASSUME NEW force \in BOOLEAN, ReadExisting(c, force)
      PROVE  UNCHANGED Chain!chainVars
  <2>1. artifacts' = artifacts /\ RefsKept
    BY <1>4 DEF ReadExisting, Reads, RefsKept
  <2>2. CASE End(c, "refused") \/ End(c, "already")
    BY <1>1, <1>2, <2>1, <2>2, EndFields, QuietRefines
  <2>3. CASE generator' = [generator EXCEPT ![c].pc = "gate",
                                            ![c].existing = meta[PhaseOf[c]]]
    <3>1. meta[PhaseOf[c]] \in MetadataRecord /\ "gate" \in Started
      BY <1>1, <1>3
    <3>2. /\ generator'[c] = [generator[c] EXCEPT !.pc = "gate",
                                                 !.existing = meta[PhaseOf[c]]]
          /\ OthersGenerate(c)
      BY <1>1, <2>3, <3>1, SetExistingFields
    <3>3. generator'[c].shown = generator[c].shown
      BY <1>1, <3>2 DEF GeneratorRecord
    <3>. QED
      BY <2>1, <3>2, <3>3, QuietRefines
  <2>. QED
    BY <1>4, <2>2, <2>3 DEF ReadExisting
<1>5. CASE PutMetadataOnce(c)
  <2>1. artifacts' = artifacts /\ cert' = cert
    BY <1>5 DEF PutMetadataOnce, WritesBoth
  <2>2. CASE meta[PhaseOf[c]].status = "absent"
    <3>1. GeneratorGoto(c, "in_progress") /\ "in_progress" \in Started
      BY <1>3, <1>5, <2>2 DEF PutMetadataOnce
    <3>2. meta' = [meta EXCEPT ![PhaseOf[c]] = [status |-> "PENDING", job |-> c,
                                                ref |-> Nothing, count |-> 1]]
      BY <1>5, <2>2 DEF PutMetadataOnce
    <3>3. meta[PhaseOf[c]].ref = Nothing
      BY <1>1, <2>2 DEF MetaSound
    <3>4. RefsKept
      BY <1>1, <2>1, <3>2, <3>3 DEF RefsKept
    <3>. QED
      BY <1>1, <2>1, <3>1, <3>4, GeneratorGotoFields, QuietRefines
  <2>3. CASE meta[PhaseOf[c]].status # "absent"
    <3>1. End(c, "raised") /\ RefsKept
      BY <1>5, <2>1, <2>3 DEF PutMetadataOnce, RefsKept
    <3>. QED
      BY <1>1, <1>2, <2>1, <3>1, EndFields, QuietRefines
  <2>. QED
    BY <2>2, <2>3
<1>6. CASE InProgress(c)
  <2>1. /\ artifacts' = artifacts
        /\ meta' = [meta EXCEPT ![PhaseOf[c]].status = "IN_PROGRESS"]
        /\ cert' = cert
        /\ GeneratorGoto(c, "generate") /\ "generate" \in Started
    BY <1>3, <1>6 DEF InProgress, WritesBoth
  <2>2. RefsKept
    BY <1>1, <2>1 DEF RefsKept, MetadataRecord
  <2>. QED
    BY <1>1, <2>1, <2>2, GeneratorGotoFields, QuietRefines
<1>7. CASE WriteArtifact(c)
  <2>1. GeneratorGoto(c, "complete_job") /\ "complete_job" \in Started /\ RefsKept
    BY <1>3, <1>7 DEF WriteArtifact, RefsKept
  <2>. QED
    BY <1>1, <1>7, <2>1, GeneratorGotoFields, WriteRefines DEF WriteArtifact
<1>8. CASE Fail(c)
  <2>1. /\ artifacts' = artifacts
        /\ meta' = [meta EXCEPT ![PhaseOf[c]].status = "FAILED"]
        /\ cert' = cert
        /\ End(c, "raised")
    BY <1>8 DEF Fail, WritesBoth
  <2>2. RefsKept
    BY <1>1, <2>1 DEF RefsKept, MetadataRecord
  <2>. QED
    BY <1>1, <1>2, <2>1, <2>2, EndFields, QuietRefines
<1>9. CASE CompleteJob(c)
  <2>1. /\ artifacts' = artifacts
        /\ GeneratorGoto(c, "complete_meta") /\ "complete_meta" \in Started
        /\ RefsKept
    BY <1>3, <1>9 DEF CompleteJob, WritesJob, RefsKept
  <2>. QED
    BY <1>1, <2>1, GeneratorGotoFields, QuietRefines
<1>10. CASE CompleteMeta(c)
  <2>1. artifacts' = artifacts /\ cert' = cert
    BY <1>10 DEF CompleteMeta, WritesMeta
  <2>2. generator'[c].shown = TRUE /\ \A d \in PipelineCommands :
                                        d # c => generator'[d].shown = generator[d].shown
    BY <1>1, <1>10 DEF CompleteMeta, NewCommand
  <2>3. artifacts[c] # Nothing
    BY <1>10, NothingIsNotDerivable DEF CompleteMeta, ChainInv, CommandSound, Written, Started
  <2>4. /\ meta'[PhaseOf[c]].ref = c
        /\ \A p \in Generated : p # PhaseOf[c] => meta'[p] = meta[p]
    BY <1>1, <1>10 DEF CompleteMeta, MetadataRecord
  <2>5. VisibleNow' = [VisibleNow EXCEPT ![PhaseOf[c]] = c]
    BY <2>1, <2>4, VisibleInBoth DEF Generated
  <2>. QED
    BY <2>1, <2>2, <2>3, <2>5, ExposeRefines
<1>. QED
  BY <1>4, <1>5, <1>6, <1>7, <1>8, <1>9, <1>10

\* A phase's own prerequisite changes nothing that can be retrieved; its next
\* generation keeps the reference, or withdraws it.
LEMMA PrerequisitesRefine ==
  ASSUME ChainInv, ChainInv', NEW c \in PipelineCommands,
         \/ /\ PhaseOf[c] = "intelligence"
            /\ GateIntelligence(c) \/ DryRun(c) \/ RegenerateIntelligence(c)
         \/ /\ PhaseOf[c] = "report"
            /\ GateReport(c) \/ RegenerateReport(c)
  PROVE  Chain!ChainNext \/ UNCHANGED Chain!chainVars
<1>1. /\ generator \in [PipelineCommands -> GeneratorRecord]
      /\ generator[c] \in GeneratorRecord
      /\ meta \in [Generated -> MetadataRecord]
      /\ PhaseOf[c] \in Generated
  BY DEF ChainInv, PipelineShape, Generated
<1>2. "refused" \in Ended /\ "dry_run" \in Ended /\ "put" \in Started
        /\ "in_progress" \in Started
  BY DEF Ended, Started
<1>3. ASSUME NEW holds, NEW source \in PipelineCommands \cup {AggregateSet, Nothing},
             Gate(c, holds, source)
      PROVE  UNCHANGED Chain!chainVars
  <2>1. artifacts' = artifacts /\ RefsKept
    BY <1>3 DEF Gate, Reads, RefsKept
  <2>2. CASE ~ holds
    BY <1>1, <1>2, <1>3, <2>1, <2>2, EndFields, QuietRefines DEF Gate
  <2>3. CASE holds
    <3>1. /\ generator'[c] = [generator[c] EXCEPT !.pc = "put", !.source = source]
          /\ OthersGenerate(c)
      BY <1>1, <1>2, <1>3, <2>3, SetSourceFields DEF Gate
    <3>2. generator'[c].shown = generator[c].shown
      BY <1>1, <3>1 DEF GeneratorRecord
    <3>. QED
      BY <2>1, <3>1, <3>2, QuietRefines
  <2>. QED
    BY <2>2, <2>3
<1>4. CASE PhaseOf[c] = "intelligence" /\ GateIntelligence(c)
  BY <1>3, <1>4 DEF GateIntelligence
<1>5. CASE PhaseOf[c] = "report" /\ GateReport(c)
  <2>1. meta["intelligence"].ref \in PipelineCommands \cup {AggregateSet, Nothing}
    BY <1>1 DEF MetadataRecord, Generated
  <2>. QED
    BY <1>3, <1>5, <2>1 DEF GateReport
<1>6. CASE DryRun(c)
  <2>1. artifacts' = artifacts /\ RefsKept /\ End(c, "dry_run")
    BY <1>6 DEF DryRun, Reads, RefsKept
  <2>. QED
    BY <1>1, <1>2, <2>1, EndFields, QuietRefines
<1>7. ASSUME NEW ref, Regenerate(c, ref)
      PROVE  /\ artifacts' = artifacts /\ cert' = cert
             /\ OthersGenerate(c) /\ generator'[c].shown = generator[c].shown
             /\ meta'[PhaseOf[c]].ref = ref
             /\ \A p \in Generated : p # PhaseOf[c] => meta'[p] = meta[p]
  <2>1. NoMetadata \in MetadataRecord
    BY DEF NoMetadata, MetadataRecord, Statuses
  <2>2. /\ generator'[c] = [generator[c] EXCEPT !.pc = "in_progress", !.existing = NoMetadata]
        /\ OthersGenerate(c)
    BY <1>1, <1>2, <1>7, <2>1, SetExistingFields DEF Regenerate
  <2>3. generator'[c].shown = generator[c].shown
    BY <1>1, <2>2 DEF GeneratorRecord
  <2>. QED
    BY <1>1, <1>7, <2>2, <2>3 DEF Regenerate, WritesBoth
<1>8. CASE PhaseOf[c] = "intelligence" /\ RegenerateIntelligence(c)
  <2>1. /\ artifacts' = artifacts /\ cert' = cert
        /\ OthersGenerate(c) /\ generator'[c].shown = generator[c].shown
        /\ meta'[PhaseOf[c]].ref = Nothing
        /\ \A p \in Generated : p # PhaseOf[c] => meta'[p] = meta[p]
    BY <1>7, <1>8 DEF RegenerateIntelligence
  <2>2. VisibleNow' = [VisibleNow EXCEPT !["intelligence"] = Nothing]
    BY <1>8, <2>1, VisibleInBoth DEF Generated
  <2>. QED
    BY <2>1, <2>2, ExposedKept, WithdrawRefines
<1>9. CASE PhaseOf[c] = "report" /\ RegenerateReport(c)
  <2>1. /\ artifacts' = artifacts /\ cert' = cert
        /\ OthersGenerate(c) /\ generator'[c].shown = generator[c].shown
        /\ meta'[PhaseOf[c]].ref = meta["report"].ref
        /\ \A p \in Generated : p # PhaseOf[c] => meta'[p] = meta[p]
    BY <1>7, <1>9 DEF RegenerateReport
  <2>2. RefsKept
    BY <1>9, <2>1 DEF RefsKept
  <2>. QED
    BY <2>1, <2>2, QuietRefines
<1>. QED
  BY <1>4, <1>5, <1>6, <1>8, <1>9

\* The metadata of the certificate is written, whether or not the call that
\* writes it returns.
LEMMA CertificateRefines ==
  ASSUME ChainInv, ChainInv', NEW c \in PipelineCommands, PhaseOf[c] = "certificate",
         NEW p \in {"cert_close", "cert_fail"}, generator[c].pc = "cert_meta",
         generator' = [generator EXCEPT ![c].pc = p, ![c].shown = TRUE],
         artifacts' = artifacts, meta' = meta, cert' = CertificateOf(c)
  PROVE  Chain!ChainNext
<1>1. /\ generator \in [PipelineCommands -> GeneratorRecord]
      /\ generator[c] \in GeneratorRecord
      /\ p \in Started
  BY DEF ChainInv, PipelineShape, Started
<1>2. generator'[c] = [generator[c] EXCEPT !.pc = p, !.shown = TRUE] /\ OthersGenerate(c)
  BY <1>1, SetShownFields
<1>3. generator'[c].shown = TRUE
  BY <1>1, <1>2 DEF GeneratorRecord
<1>4. artifacts[c] # Nothing
  BY NothingIsNotDerivable DEF ChainInv, CommandSound, Written, Started
<1>5. VisibleNow' = [VisibleNow EXCEPT ![PhaseOf[c]] = c]
  BY VisibleInBoth DEF CertificateOf
<1>. QED
  BY <1>2, <1>3, <1>4, <1>5, ExposeRefines DEF OthersGenerate

\* The steps of a certification, and the failures.
LEMMA CertifyRefines ==
  ASSUME ChainInv, ChainInv', NEW c \in PipelineCommands,
         \/ PhaseOf[c] = "certificate" /\ (CertificationGate(c) \/ Certify(c))
         \/ CertificationFails(c) \/ GenerationFails(c) \/ Kill(c)
  PROVE  Chain!ChainNext \/ UNCHANGED Chain!chainVars
<1>1. /\ generator \in [PipelineCommands -> GeneratorRecord]
      /\ generator[c] \in GeneratorRecord
      /\ meta \in [Generated -> MetadataRecord]
      /\ CommandSound(c)
  BY DEF ChainInv, PipelineShape
<1>2. "refused" \in Ended /\ "killed" \in Ended /\ "done" \in Ended /\ "raised" \in Ended
  BY DEF Ended
<1>3. CertifyPcs \subseteq Started /\ "fail" \in Started
  BY DEF CertifyPcs, Started
<1>4. ASSUME NEW p \in Ended, End(c, p), artifacts' = artifacts, RefsKept
      PROVE  UNCHANGED Chain!chainVars
  BY <1>1, <1>4, EndFields, QuietRefines
<1>5. ASSUME NEW p \in Started, GeneratorGoto(c, p), artifacts' = artifacts, RefsKept
      PROVE  UNCHANGED Chain!chainVars
  BY <1>1, <1>5, GeneratorGotoFields, QuietRefines
<1>6. ASSUME NEW p \in Started, GeneratorGoto(c, p), PutArtifact(c), RefsKept,
             generator[c].pc \in {"generate", "write_cert"}
      PROVE  Chain!ChainNext
  BY <1>1, <1>6, GeneratorGotoFields, WriteRefines
<1>7. CASE CertificationGate(c)
  <2>1. artifacts' = artifacts /\ RefsKept
    BY <1>7 DEF CertificationGate, Reads, RefsKept
  <2>2. CASE meta["report"].status # "COMPLETE"
    BY <1>2, <1>4, <1>7, <2>1, <2>2 DEF CertificationGate
  <2>3. CASE meta["report"].status = "COMPLETE"
    <3> DEFINE source == meta["report"].ref
    <3>1. source \in PipelineCommands \cup {AggregateSet, Nothing}
      BY <1>1 DEF MetadataRecord, Generated
    <3>2. generator' = [generator EXCEPT ![c].pc = "cert_existing", ![c].source = source]
      BY <1>7, <2>3 DEF CertificationGate
    <3>3. "cert_existing" \in Started
      BY DEF Started
    <3> HIDE DEF source
    <3>4. /\ generator'[c] = [generator[c] EXCEPT !.pc = "cert_existing", !.source = source]
          /\ OthersGenerate(c)
      BY <1>1, <3>1, <3>2, <3>3, SetSourceFields
    <3>5. generator'[c].shown = generator[c].shown
      BY <1>1, <3>4 DEF GeneratorRecord
    <3>. QED
      BY <2>1, <3>4, <3>5, QuietRefines
  <2>. QED
    BY <2>2, <2>3
<1>8. ASSUME NEW force \in BOOLEAN, ReadExistingCertificate(c, force)
      PROVE  UNCHANGED Chain!chainVars
  <2>1. artifacts' = artifacts /\ RefsKept /\ "cert_job" \in Started
    BY <1>8 DEF ReadExistingCertificate, Reads, RefsKept, Started
  <2>. QED
    BY <1>2, <1>4, <1>5, <1>8, <2>1 DEF ReadExistingCertificate
<1>9. CASE CertjobPending(c) \/ CertjobInProgress(c) \/ CloseCertjob(c) \/ FailCertjob(c)
  <2>1. artifacts' = artifacts /\ RefsKept
    BY <1>9 DEF CertjobPending, CertjobInProgress, CloseCertjob, FailCertjob, WritesJob,
      RefsKept
  <2>2. "cert_in_progress" \in Started /\ "check" \in Started
    BY DEF Started
  <2>. QED
    BY <1>2, <1>4, <1>5, <1>9, <2>1, <2>2 DEF CertjobPending, CertjobInProgress,
      CloseCertjob, FailCertjob
<1>10. CASE CheckDomains(c)
  <2>1. PICK verdict \in TerminalStates :
          generator' = [generator EXCEPT ![c].pc = "write_cert", ![c].verdict = verdict]
    BY <1>10 DEF CheckDomains
  <2>2. "write_cert" \in Started
    BY DEF Started
  <2>3. /\ generator'[c] = [generator[c] EXCEPT !.pc = "write_cert", !.verdict = verdict]
        /\ OthersGenerate(c)
    BY <1>1, <2>1, <2>2, SetVerdictFields
  <2>4. generator'[c].shown = generator[c].shown
    BY <1>1, <2>3 DEF GeneratorRecord
  <2>5. artifacts' = artifacts /\ RefsKept
    BY <1>10 DEF CheckDomains, RefsKept
  <2>. QED
    BY <2>3, <2>4, <2>5, QuietRefines
<1>11. CASE WriteCertificate(c)
  <2>1. RefsKept /\ "cert_meta" \in Started
    BY <1>11 DEF WriteCertificate, RefsKept, Started
  <2>. QED
    BY <1>6, <1>11, <2>1 DEF WriteCertificate
<1>12. CASE PhaseOf[c] = "certificate" /\ WriteCertMetadata(c)
  BY <1>12, CertificateRefines DEF WriteCertMetadata
<1>13. CASE CertificationFails(c)
  <2>1. PhaseOf[c] = "certificate" /\ "cert_fail" \in Started
    BY <1>1, <1>13 DEF CertificationFails, CommandSound, GeneratePcs, Ended, Started
  <2>2. meta' = meta
    BY <1>13 DEF CertificationFails
  <2>3. CASE GeneratorGoto(c, "cert_fail") /\ artifacts' = artifacts /\ cert' = cert
    BY <1>5, <2>1, <2>2, <2>3 DEF RefsKept
  <2>4. CASE generator[c].pc = "write_cert" /\ PutArtifact(c)
             /\ GeneratorGoto(c, "cert_fail") /\ cert' = cert
    BY <1>6, <2>1, <2>2, <2>4 DEF RefsKept
  <2>5. CASE /\ generator[c].pc = "cert_meta"
             /\ cert' = CertificateOf(c)
             /\ generator' = [generator EXCEPT ![c].pc = "cert_fail", ![c].shown = TRUE]
             /\ UNCHANGED artifacts
    BY <2>1, <2>2, <2>5, CertificateRefines
  <2>. QED
    BY <1>13, <2>3, <2>4, <2>5 DEF CertificationFails
<1>14. CASE GenerationFails(c)
  <2>1. /\ generator[c].pc = "generate"
        /\ GeneratorGoto(c, "fail")
        /\ RefsKept
        /\ PutArtifact(c) \/ artifacts' = artifacts
    BY <1>14 DEF GenerationFails, RefsKept
  <2>. QED
    BY <1>3, <1>5, <1>6, <2>1
<1>15. CASE Kill(c)
  <2>1. artifacts' = artifacts /\ RefsKept
    BY <1>15 DEF Kill, RefsKept
  <2>. QED
    BY <1>2, <1>4, <1>15, <2>1 DEF Kill
<1>. QED
  BY <1>7, <1>8, <1>9, <1>10, <1>11, <1>12, <1>13, <1>14, <1>15 DEF Certify

\* Every step of the pipeline is a step of EvidenceChain, or changes nothing
\* that EvidenceChain speaks of.
LEMMA StepRefines ==
  ASSUME ChainInv, ChainInv', [PipelineNext]_pipelineVars
  PROVE  [Chain!ChainNext]_Chain!chainVars
<1>1. ASSUME NEW c \in PipelineCommands, Begin(c) \/ Continue(c)
      PROVE  Chain!ChainNext \/ UNCHANGED Chain!chainVars
  BY <1>1, CommandActions, GenerateRefines, PrerequisitesRefine, CertifyRefines
<1>2. ASSUME NEW c \in PipelineCommands,
             GenerationFails(c) \/ CertificationFails(c) \/ Kill(c)
      PROVE  Chain!ChainNext \/ UNCHANGED Chain!chainVars
  BY <1>2, CertifyRefines
<1>3. CASE CompleteAggregateSet \/ UNCHANGED pipelineVars
  <2>1. UNCHANGED <<meta, cert, artifacts, generator>>
    BY <1>3 DEF CompleteAggregateSet, pipelineVars
  <2>2. RefsKept /\ ExposedNow' = ExposedNow
    BY <2>1 DEF RefsKept, ExposedNow
  <2>. QED
    BY <2>1, <2>2, VisibleKept, StutterRefines
<1>. QED
  BY <1>1, <1>2, <1>3 DEF PipelineNext

LEMMA InitRefines == PipelineInit => Chain!ChainInit
<1> SUFFICES ASSUME PipelineInit
             PROVE  Chain!ChainInit
  OBVIOUS
<1>1. VisibleNow = [intelligence |-> Nothing, report |-> Nothing, certificate |-> Nothing]
  BY PipelineInitSound, VisibleIs DEF PipelineInit, NoMetadata, NoCertificate, Generated
<1>2. PublishedNow = {} /\ ExposedNow = {}
  BY DEF PipelineInit, PublishedNow, ExposedNow, NewCommand
<1>. QED
  BY <1>1, <1>2 DEF Chain!ChainInit, Chain!Phases, PublishedNow, ExposedNow, VisibleNow

\* The commands, however they overlap, fail and are killed, implement
\* EvidenceChain: an artifact is written once and derived only from one that had
\* been completed, a retrieval never finds a reference without its artifact, and
\* only generating intelligence again takes back what could be retrieved.
THEOREM PipelineImplementsChain == PipelineSpec => ImplementsChain
<1>1. ChainInv /\ ChainInv' /\ [PipelineNext]_pipelineVars
        => [Chain!ChainNext]_Chain!chainVars
  BY StepRefines
<1>. QED
  BY <1>1, InitRefines, ChainInvHolds, PTL DEF PipelineSpec, ImplementsChain, Chain!ChainSpec

-----------------------------------------------------------------------------
(***************************************************************************)
(* The types of the state                                                  *)
(*                                                                         *)
(* The generation count of a phase is taken from what a command read when  *)
(* it started, so that it is bounded by the commands that have written a   *)
(* job item, for each of them adds one to a count read before.             *)
(***************************************************************************)

Begun == {c \in PipelineCommands : jobs[c] # "absent"}

\* A command that has not written its job item yet.
Fresh == {"idle", "gate", "put", "cert_existing", "cert_job"}

CountInv ==
  /\ \A p \in Generated : meta[p].count <= Cardinality(Begun)
  /\ \A c \in PipelineCommands :
       /\ generator[c].existing.count <= Cardinality(Begun)
       /\ generator[c].pc \in Fresh => jobs[c] = "absent"

\* The jobs of a step: c's job item is written, or none.
JobsStep(c) ==
  \/ jobs' = jobs
  \/ \E status \in Statuses \ {"absent"} : SetJob(c, status)

LEMMA BegunGrows ==
  ASSUME IsFiniteSet(PipelineCommands), PipelineShape, NEW c \in PipelineCommands,
         JobsStep(c)
  PROVE  /\ Cardinality(Begun) \in Nat /\ Cardinality(Begun') \in Nat
         /\ Cardinality(Begun) <= Cardinality(Begun')
         /\ jobs[c] = "absent" /\ jobs' # jobs
              => Cardinality(Begun') = Cardinality(Begun) + 1
         /\ Cardinality(Begun) <= Cardinality(PipelineCommands)
<1>1. jobs \in [PipelineCommands -> Statuses]
  BY DEF PipelineShape
<1>2. Begun \subseteq PipelineCommands /\ Begun' \subseteq PipelineCommands
  BY DEF Begun
<1>3. /\ IsFiniteSet(Begun) /\ IsFiniteSet(Begun')
      /\ Cardinality(Begun) <= Cardinality(PipelineCommands)
  BY <1>2, FS_Subset
<1>4. Cardinality(Begun) \in Nat /\ Cardinality(Begun') \in Nat
  BY <1>3, FS_CardinalityType
<1>5. Begun' = Begun \/ (Begun' = Begun \cup {c})
  BY <1>1 DEF Begun, JobsStep, SetJob
<1>6. jobs[c] = "absent" /\ jobs' # jobs => Begun' = Begun \cup {c} /\ c \notin Begun
  BY <1>1 DEF Begun, JobsStep, SetJob
<1>7. Cardinality(Begun \cup {c}) =
        IF c \in Begun THEN Cardinality(Begun) ELSE Cardinality(Begun) + 1
  BY <1>3, FS_AddElement
<1>8. CASE Begun' = Begun
  <2>1. ~ (jobs[c] = "absent" /\ jobs' # jobs)
    BY <1>6, <1>8
  <2>. QED
    BY <1>3, <1>4, <1>8, <2>1
<1>9. CASE Begun' = Begun \cup {c} /\ c \notin Begun
  <2>1. Cardinality(Begun') = Cardinality(Begun) + 1
    BY <1>7, <1>9
  <2>. QED
    BY <1>3, <1>4, <2>1
<1>. QED
  BY <1>5, <1>8, <1>9

LEMMA CountStep ==
  ASSUME IsFiniteSet(PipelineCommands), PipelineShape, PipelineShape', CountInv,
         NEW c \in PipelineCommands, OthersGenerate(c), JobsStep(c),
         \A p \in Generated :
           meta'[p].count = meta[p].count \/ meta'[p].count <= Cardinality(Begun'),
         generator'[c].existing.count <= Cardinality(Begun),
         generator'[c].pc \in Fresh => generator[c].pc \in Fresh /\ jobs' = jobs
  PROVE  CountInv'
<1>1. /\ Cardinality(Begun) \in Nat /\ Cardinality(Begun') \in Nat
      /\ Cardinality(Begun) <= Cardinality(Begun')
  BY BegunGrows
<1>2. ASSUME NEW p \in Generated
      PROVE  meta'[p].count <= Cardinality(Begun')
  BY <1>1 DEF CountInv, PipelineShape, MetadataRecord
<1>3. ASSUME NEW d \in PipelineCommands
      PROVE  generator'[d].existing.count <= Cardinality(Begun')
  <2>1. generator'[d].existing.count <= Cardinality(Begun)
    BY DEF CountInv, OthersGenerate
  <2>2. generator'[d].existing.count \in Nat
    BY DEF PipelineShape, GeneratorRecord, MetadataRecord
  <2>. QED
    BY <1>1, <2>1, <2>2
<1>4. ASSUME NEW d \in PipelineCommands, generator'[d].pc \in Fresh
      PROVE  jobs'[d] = "absent"
  <2>1. CASE d = c
    BY <1>4, <2>1 DEF CountInv
  <2>2. CASE d # c
    BY <1>4, <2>2 DEF CountInv, OthersGenerate, JobsStep, SetJob, PipelineShape
  <2>. QED
    BY <2>1, <2>2
<1>. QED
  BY <1>2, <1>3, <1>4 DEF CountInv

\* A step that moves the command, or ends it, and counts nothing.
LEMMA CountQuiet ==
  ASSUME IsFiniteSet(PipelineCommands), PipelineShape, PipelineShape', CountInv,
         NEW c \in PipelineCommands, JobsStep(c),
         \A p \in Generated : meta'[p].count = meta[p].count,
         \/ \E p \in Ended : End(c, p)
         \/ \E p \in Started :
              /\ GeneratorGoto(c, p)
              /\ p \in Fresh => generator[c].pc \in Fresh /\ jobs' = jobs
  PROVE  CountInv'
<1>1. /\ generator \in [PipelineCommands -> GeneratorRecord]
      /\ generator[c] \in GeneratorRecord
  BY DEF PipelineShape
<1>2. CASE \E p \in Ended : End(c, p)
  <2>1. PICK p \in Ended : End(c, p)
    BY <1>2
  <2>2. generator'[c].pc = p /\ generator'[c].existing = NoMetadata /\ OthersGenerate(c)
    BY <1>1, <2>1, EndFields
  <2>3. p \notin Fresh
    BY DEF Ended, Fresh
  <2>4. generator'[c].existing.count <= Cardinality(Begun)
    BY <2>2, BegunGrows DEF NoMetadata
  <2>. QED
    BY <2>2, <2>3, <2>4, CountStep
<1>3. CASE \E p \in Started :
             /\ GeneratorGoto(c, p)
             /\ p \in Fresh => generator[c].pc \in Fresh /\ jobs' = jobs
  <2>1. PICK p \in Started :
          /\ GeneratorGoto(c, p)
          /\ p \in Fresh => generator[c].pc \in Fresh /\ jobs' = jobs
    BY <1>3
  <2>2. /\ generator'[c].pc = p /\ generator'[c].existing = generator[c].existing
        /\ OthersGenerate(c)
    BY <1>1, <2>1, GeneratorGotoFields
  <2>3. generator'[c].existing.count <= Cardinality(Begun)
    BY <2>2 DEF CountInv
  <2>. QED
    BY <2>1, <2>2, <2>3, CountStep
<1>. QED
  BY <1>2, <1>3

\* The steps that keep what was read, the source, the verdict or that the
\* artifact has been shown.
LEMMA CountKeeps ==
  ASSUME IsFiniteSet(PipelineCommands), PipelineShape, PipelineShape', CountInv,
         NEW c \in PipelineCommands, JobsStep(c),
         \A p \in Generated :
           meta'[p].count = meta[p].count \/ meta'[p].count <= Cardinality(Begun'),
         OthersGenerate(c),
         generator'[c].existing = generator[c].existing
           \/ generator'[c].existing = NoMetadata
           \/ \E p \in Generated : generator'[c].existing = meta[p],
         generator'[c].pc \in Fresh => generator[c].pc \in Fresh /\ jobs' = jobs
  PROVE  CountInv'
<1>1. generator'[c].existing.count <= Cardinality(Begun)
  BY BegunGrows DEF CountInv, NoMetadata
<1>. QED
  BY <1>1, CountStep

LEMMA GenerateCounts ==
  ASSUME IsFiniteSet(PipelineCommands), PipelineShape, PipelineShape', CountInv,
         NEW c \in PipelineCommands, PhaseOf[c] \in Generated,
         \/ \E force \in BOOLEAN : ReadExisting(c, force)
         \/ GateIntelligence(c) \/ DryRun(c) \/ GateReport(c)
         \/ PutMetadataOnce(c) \/ RegenerateIntelligence(c) \/ RegenerateReport(c)
         \/ InProgress(c) \/ WriteArtifact(c) \/ GenerationFails(c) \/ Fail(c)
         \/ CompleteJob(c) \/ CompleteMeta(c)
  PROVE  CountInv'
<1>1. /\ generator \in [PipelineCommands -> GeneratorRecord]
      /\ generator[c] \in GeneratorRecord
      /\ meta \in [Generated -> MetadataRecord]
      /\ meta[PhaseOf[c]] \in MetadataRecord
      /\ jobs \in [PipelineCommands -> Statuses]
  BY DEF PipelineShape
<1>2. {"refused", "already", "raised", "done", "dry_run"} \subseteq Ended
  BY DEF Ended
<1>3. {"gate", "put", "in_progress", "generate", "fail", "complete_job", "complete_meta"}
        \subseteq Started
  BY DEF Started
<1>4. ASSUME NEW force \in BOOLEAN, ReadExisting(c, force)
      PROVE  CountInv'
  <2>1. JobsStep(c) /\ meta' = meta /\ jobs' = jobs /\ generator[c].pc \in Fresh
    BY <1>4 DEF ReadExisting, Reads, JobsStep, Fresh
  <2>2. CASE End(c, "refused") \/ End(c, "already")
    BY <1>2, <2>1, <2>2, CountQuiet
  <2>3. CASE generator' = [generator EXCEPT ![c].pc = "gate",
                                            ![c].existing = meta[PhaseOf[c]]]
    <3>1. /\ generator'[c] = [generator[c] EXCEPT !.pc = "gate",
                                                 !.existing = meta[PhaseOf[c]]]
          /\ OthersGenerate(c)
      BY <1>1, <1>3, <2>3, SetExistingFields
    <3>2. generator'[c].existing = meta[PhaseOf[c]]
      BY <1>1, <3>1 DEF GeneratorRecord
    <3>. QED
      BY <2>1, <3>1, <3>2, CountKeeps
  <2>. QED
    BY <1>4, <2>2, <2>3 DEF ReadExisting
<1>5. ASSUME NEW holds, NEW source \in PipelineCommands \cup {AggregateSet, Nothing},
             Gate(c, holds, source)
      PROVE  CountInv'
  <2>1. JobsStep(c) /\ meta' = meta /\ jobs' = jobs /\ generator[c].pc \in Fresh
    BY <1>5 DEF Gate, Reads, JobsStep, Fresh
  <2>2. CASE ~ holds
    BY <1>2, <1>5, <2>1, <2>2, CountQuiet DEF Gate
  <2>3. CASE holds
    <3>1. /\ generator'[c] = [generator[c] EXCEPT !.pc = "put", !.source = source]
          /\ OthersGenerate(c)
      BY <1>1, <1>3, <1>5, <2>3, SetSourceFields DEF Gate
    <3>2. generator'[c].existing = generator[c].existing
      BY <1>1, <3>1 DEF GeneratorRecord
    <3>. QED
      BY <2>1, <3>1, <3>2, CountKeeps
  <2>. QED
    BY <2>2, <2>3
<1>6. CASE GateIntelligence(c) \/ GateReport(c)
  <2>1. meta["intelligence"].ref \in PipelineCommands \cup {AggregateSet, Nothing}
    BY <1>1 DEF MetadataRecord, Generated
  <2>. QED
    BY <1>5, <1>6, <2>1 DEF GateIntelligence, GateReport
<1>7. CASE DryRun(c)
  BY <1>2, <1>7, CountQuiet DEF DryRun, Reads, JobsStep
<1>8. CASE PutMetadataOnce(c)
  <2>1. SetJob(c, "PENDING") /\ JobsStep(c) /\ jobs[c] = "absent"
    BY <1>8 DEF PutMetadataOnce, JobsStep, Statuses, CountInv, Fresh
  <2>2. CASE meta[PhaseOf[c]].status = "absent"
    <3>1. GeneratorGoto(c, "in_progress")
      BY <1>8, <2>2 DEF PutMetadataOnce
    <3>2. meta' = [meta EXCEPT ![PhaseOf[c]] = [status |-> "PENDING", job |-> c,
                                                ref |-> Nothing, count |-> 1]]
      BY <1>8, <2>2 DEF PutMetadataOnce
    <3>3. jobs' # jobs
      BY <1>1, <2>1 DEF SetJob
    <3>4. 1 <= Cardinality(Begun')
      BY <2>1, <3>3, BegunGrows
    <3>5. /\ generator'[c].pc = "in_progress"
          /\ generator'[c].existing = generator[c].existing
          /\ OthersGenerate(c)
      BY <1>1, <1>3, <3>1, GeneratorGotoFields
    <3>6. \A p \in Generated :
            meta'[p].count = meta[p].count \/ meta'[p].count <= Cardinality(Begun')
      BY <1>1, <3>2, <3>4
    <3>. QED
      BY <2>1, <3>5, <3>6, CountKeeps DEF Fresh
  <2>3. CASE meta[PhaseOf[c]].status # "absent"
    <3>1. End(c, "raised") /\ meta' = meta
      BY <1>8, <2>3 DEF PutMetadataOnce
    <3>. QED
      BY <1>2, <2>1, <3>1, CountQuiet
  <2>. QED
    BY <2>2, <2>3
<1>9. ASSUME NEW ref, Regenerate(c, ref)
      PROVE  CountInv'
  <2>1. SetJob(c, "PENDING") /\ JobsStep(c) /\ jobs[c] = "absent"
    BY <1>9 DEF Regenerate, JobsStep, Statuses, CountInv, Fresh
  <2>2. jobs' # jobs
    BY <1>1, <2>1 DEF SetJob
  <2>3. generator[c].existing.count \in Nat
    BY <1>1 DEF GeneratorRecord, MetadataRecord
  <2>4. generator[c].existing.count + 1 <= Cardinality(Begun')
    BY <2>1, <2>2, <2>3, BegunGrows DEF CountInv
  <2>5. NoMetadata \in MetadataRecord
    BY DEF NoMetadata, MetadataRecord, Statuses
  <2>6. /\ generator'[c] = [generator[c] EXCEPT !.pc = "in_progress", !.existing = NoMetadata]
        /\ OthersGenerate(c)
    BY <1>1, <1>3, <1>9, <2>5, SetExistingFields DEF Regenerate
  <2>7. generator'[c].existing = NoMetadata /\ generator'[c].pc = "in_progress"
    BY <1>1, <2>6 DEF GeneratorRecord
  <2>8. \A p \in Generated :
          meta'[p].count = meta[p].count \/ meta'[p].count <= Cardinality(Begun')
    BY <1>1, <1>9, <2>4 DEF Regenerate
  <2>. QED
    BY <2>1, <2>6, <2>7, <2>8, CountKeeps DEF Fresh
<1>10. CASE RegenerateIntelligence(c) \/ RegenerateReport(c)
  BY <1>9, <1>10 DEF RegenerateIntelligence, RegenerateReport
<1>11. CASE InProgress(c)
  <2>1. GeneratorGoto(c, "generate") /\ JobsStep(c)
    BY <1>11 DEF InProgress, JobsStep, Statuses
  <2>2. \A p \in Generated : meta'[p].count = meta[p].count
    BY <1>1, <1>11 DEF InProgress, MetadataRecord
  <2>. QED
    BY <1>3, <2>1, <2>2, CountQuiet DEF Fresh
<1>12. CASE Fail(c)
  <2>1. End(c, "raised") /\ JobsStep(c)
    BY <1>12 DEF Fail, JobsStep, Statuses
  <2>2. \A p \in Generated : meta'[p].count = meta[p].count
    BY <1>1, <1>12 DEF Fail, MetadataRecord
  <2>. QED
    BY <1>2, <2>1, <2>2, CountQuiet
<1>13. CASE WriteArtifact(c) \/ GenerationFails(c) \/ CompleteJob(c)
  <2>1. JobsStep(c) /\ meta' = meta
    BY <1>13 DEF WriteArtifact, GenerationFails, CompleteJob, WritesJob, JobsStep, Statuses
  <2>. QED
    BY <1>3, <1>13, <2>1, CountQuiet DEF WriteArtifact, GenerationFails, CompleteJob, Fresh
<1>14. CASE CompleteMeta(c)
  <2>1. JobsStep(c)
    BY <1>14 DEF CompleteMeta, WritesMeta, JobsStep
  <2>2. \A p \in Generated : meta'[p].count = meta[p].count
    BY <1>1, <1>14 DEF CompleteMeta, MetadataRecord
  <2>3. /\ generator'[c].pc = "done" /\ generator'[c].existing = NoMetadata
        /\ OthersGenerate(c)
    BY <1>1, <1>14 DEF CompleteMeta, NewCommand, OthersGenerate
  <2>. QED
    BY <2>1, <2>2, <2>3, CountKeeps DEF Fresh
<1>. QED
  BY <1>4, <1>6, <1>7, <1>8, <1>10, <1>11, <1>12, <1>13, <1>14

LEMMA CertifyCounts ==
  ASSUME IsFiniteSet(PipelineCommands), PipelineShape, PipelineShape', CountInv,
         NEW c \in PipelineCommands,
         CertificationGate(c) \/ Certify(c) \/ CertificationFails(c) \/ Kill(c)
  PROVE  CountInv'
<1>1. /\ generator \in [PipelineCommands -> GeneratorRecord]
      /\ generator[c] \in GeneratorRecord
      /\ meta \in [Generated -> MetadataRecord]
  BY DEF PipelineShape
<1>2. {"refused", "raised", "done", "killed"} \subseteq Ended
  BY DEF Ended
<1>3. {"cert_existing", "cert_job", "cert_in_progress", "check", "write_cert", "cert_meta",
       "cert_fail", "cert_close"} \subseteq Started
  BY DEF Started
<1>4. meta' = meta /\ JobsStep(c)
  BY DEF CertificationGate, Certify, ReadExistingCertificate, CertjobPending,
    CertjobInProgress, CheckDomains, WriteCertificate, WriteCertMetadata, CloseCertjob,
    FailCertjob, CertificationFails, Kill, Reads, WritesJob, JobsStep, Statuses
<1>5. CASE CertificationGate(c)
  <2>1. CASE meta["report"].status # "COMPLETE"
    BY <1>2, <1>4, <1>5, <2>1, CountQuiet DEF CertificationGate
  <2>2. CASE meta["report"].status = "COMPLETE"
    <3> DEFINE source == meta["report"].ref
    <3>1. source \in PipelineCommands \cup {AggregateSet, Nothing}
      BY <1>1 DEF MetadataRecord, Generated
    <3>2. /\ generator' = [generator EXCEPT ![c].pc = "cert_existing", ![c].source = source]
          /\ generator[c].pc \in Fresh /\ jobs' = jobs
      BY <1>5, <2>2 DEF CertificationGate, Fresh, Reads
    <3> HIDE DEF source
    <3>3. /\ generator'[c] = [generator[c] EXCEPT !.pc = "cert_existing", !.source = source]
          /\ OthersGenerate(c)
      BY <1>1, <1>3, <3>1, <3>2, SetSourceFields
    <3>4. generator'[c].existing = generator[c].existing
      BY <1>1, <3>3 DEF GeneratorRecord
    <3>. QED
      BY <1>4, <3>2, <3>3, <3>4, CountKeeps
  <2>. QED
    BY <2>1, <2>2
<1>6. ASSUME NEW force \in BOOLEAN, ReadExistingCertificate(c, force)
      PROVE  CountInv'
  BY <1>2, <1>3, <1>4, <1>6, CountQuiet DEF ReadExistingCertificate, Fresh, Reads
<1>7. CASE CertjobPending(c) \/ CertjobInProgress(c) \/ WriteCertificate(c)
  BY <1>3, <1>4, <1>7, CountQuiet DEF CertjobPending, CertjobInProgress, WriteCertificate,
    Fresh
<1>8. CASE CloseCertjob(c) \/ FailCertjob(c) \/ Kill(c)
  BY <1>2, <1>4, <1>8, CountQuiet DEF CloseCertjob, FailCertjob, Kill
<1>9. CASE CheckDomains(c)
  <2>1. PICK verdict \in TerminalStates :
          generator' = [generator EXCEPT ![c].pc = "write_cert", ![c].verdict = verdict]
    BY <1>9 DEF CheckDomains
  <2>2. /\ generator'[c] = [generator[c] EXCEPT !.pc = "write_cert", !.verdict = verdict]
        /\ OthersGenerate(c)
    BY <1>1, <1>3, <2>1, SetVerdictFields
  <2>3. generator'[c].existing = generator[c].existing /\ generator'[c].pc = "write_cert"
    BY <1>1, <2>2 DEF GeneratorRecord
  <2>. QED
    BY <1>4, <2>2, <2>3, CountKeeps DEF Fresh
<1>10. ASSUME NEW p \in {"cert_close", "cert_fail"},
              generator' = [generator EXCEPT ![c].pc = p, ![c].shown = TRUE]
       PROVE  CountInv'
  <2>1. generator'[c] = [generator[c] EXCEPT !.pc = p, !.shown = TRUE] /\ OthersGenerate(c)
    BY <1>1, <1>3, <1>10, SetShownFields
  <2>2. generator'[c].existing = generator[c].existing /\ generator'[c].pc = p
    BY <1>1, <2>1 DEF GeneratorRecord
  <2>. QED
    BY <1>4, <2>1, <2>2, CountKeeps DEF Fresh
<1>11. CASE WriteCertMetadata(c)
  BY <1>10, <1>11 DEF WriteCertMetadata
<1>12. CASE CertificationFails(c)
  BY <1>3, <1>4, <1>10, <1>12, CountQuiet DEF CertificationFails, Fresh
<1>. QED
  BY <1>5, <1>6, <1>7, <1>8, <1>9, <1>11, <1>12 DEF Certify

LEMMA CountInvStep ==
  ASSUME IsFiniteSet(PipelineCommands), PipelineShape, PipelineShape', CountInv,
         [PipelineNext]_pipelineVars
  PROVE  CountInv'
<1>1. ASSUME NEW c \in PipelineCommands, Begin(c) \/ Continue(c)
      PROVE  CountInv'
  BY <1>1, CommandActions, GenerateCounts, CertifyCounts DEF Generated
<1>2. ASSUME NEW c \in PipelineCommands, GenerationFails(c)
      PROVE  CountInv'
  <2>1. /\ GeneratorGoto(c, "fail") /\ "fail" \in Started /\ "fail" \notin Fresh
        /\ meta' = meta /\ JobsStep(c)
    BY <1>2 DEF GenerationFails, JobsStep, Started, Fresh
  <2>. QED
    BY <2>1, CountQuiet
<1>3. ASSUME NEW c \in PipelineCommands, CertificationFails(c) \/ Kill(c)
      PROVE  CountInv'
  BY <1>3, CertifyCounts
<1>4. CASE CompleteAggregateSet \/ UNCHANGED pipelineVars
  <2>1. UNCHANGED <<meta, jobs, generator>>
    BY <1>4 DEF CompleteAggregateSet, pipelineVars
  <2>2. Begun' = Begun
    BY <2>1 DEF Begun
  <2>. QED
    BY <2>1, <2>2 DEF CountInv
<1>. QED
  BY <1>1, <1>2, <1>3, <1>4 DEF PipelineNext

\* The items, the jobs, the artifacts and the commands have the shape the code
\* gives them; a generation count never exceeds the number of commands, and a
\* command that is past its prerequisite has a source.  The number of commands
\* is finite, for the count to have a bound.
THEOREM PipelineTypeCorrect ==
  ASSUME IsFiniteSet(PipelineCommands)
  PROVE  PipelineSpec => []PipelineTypeOK
<1>1. PipelineInit => CountInv
  <2> SUFFICES ASSUME PipelineInit
               PROVE  CountInv
    OBVIOUS
  <2>1. Begun \in SUBSET PipelineCommands
    BY DEF Begun
  <2>2. Cardinality(Begun) \in Nat
    BY <2>1, FS_Subset, FS_CardinalityType
  <2>. QED
    BY <2>2 DEF PipelineInit, CountInv, NewCommand, NoMetadata
<1>2. ChainInv /\ ChainInv' /\ CountInv /\ [PipelineNext]_pipelineVars => CountInv'
  BY CountInvStep DEF ChainInv
<1>3. ChainInv /\ CountInv => PipelineTypeOK
  <2> SUFFICES ASSUME ChainInv, CountInv
               PROVE  PipelineTypeOK
    OBVIOUS
  <2>1. /\ Cardinality(Begun) \in Nat /\ Cardinality(PipelineCommands) \in Nat
        /\ Cardinality(Begun) <= Cardinality(PipelineCommands)
    <3>1. Begun \in SUBSET PipelineCommands
      BY DEF Begun
    <3>. QED
      BY <3>1, FS_Subset, FS_CardinalityType
  <2>2. ASSUME NEW m \in MetadataRecord, m.count <= Cardinality(Begun)
        PROVE  m \in Metadata
    BY <2>1, <2>2 DEF MetadataRecord, Metadata
  <2>3. meta \in [Generated -> Metadata]
    <3>1. meta \in [Generated -> MetadataRecord]
      BY DEF ChainInv, PipelineShape
    <3>2. ASSUME NEW p \in Generated
          PROVE  meta[p] \in Metadata
      BY <2>2, <3>1 DEF CountInv
    <3>. QED
      BY <3>1, <3>2
  <2>4. ASSUME NEW c \in PipelineCommands
        PROVE  /\ generator[c].pc \in Started \cup Ended \cup {"idle"}
               /\ generator[c].existing \in Metadata
               /\ generator[c].shown \in BOOLEAN
               /\ generator[c].pc \in Started \ {"gate"} => generator[c].source # Nothing
    <3>1. generator[c] \in GeneratorRecord
      BY DEF ChainInv, PipelineShape
    <3>2. generator[c].existing \in Metadata
      BY <2>2, <3>1 DEF CountInv, GeneratorRecord
    <3>3. generator[c].pc \in Started \ {"gate"} => generator[c].source # Nothing
      BY NothingIsNotDerivable DEF ChainInv, CommandSound
    <3>. QED
      BY <3>1, <3>2, <3>3 DEF GeneratorRecord
  <2>5. /\ aggregateSet \in BOOLEAN
        /\ cert.state \in TerminalStates \cup {"absent"}
        /\ jobs \in [PipelineCommands -> Statuses]
        /\ artifacts \in [PipelineCommands -> PipelineCommands \cup {AggregateSet, Nothing}]
        /\ pipelineFaults \in 0 .. MaxPipelineFaults
    BY DEF ChainInv, PipelineShape, CertificateRecord
  <2>. QED
    BY <2>3, <2>4, <2>5 DEF PipelineTypeOK
<1>. QED
  BY <1>1, <1>2, <1>3, ChainInvHolds, PTL DEF PipelineSpec

=============================================================================
