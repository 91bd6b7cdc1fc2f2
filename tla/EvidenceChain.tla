---------------------------- MODULE EvidenceChain ----------------------------
(***************************************************************************)
(* What the phases after aggregation promise of the evidence of one audit: *)
(* intelligence is derived from the aggregate set, a report from           *)
(* intelligence, a certificate from a report.  An artifact is published    *)
(* once and never changes, only an artifact that has been exposed is       *)
(* derived from, and what a phase shows at any time is one of its          *)
(* published artifacts.  Intelligence is withdrawn while it is generated   *)
(* again; a report and a certificate are only ever replaced.               *)
(***************************************************************************)

CONSTANTS
  Artifacts,     \* the artifacts that may be published
  AggregateSet,  \* the aggregate set, the root of the chain
  Nothing

Phases == {"intelligence", "report", "certificate"}

VARIABLES
  published,   \* the published artifacts: [id, phase, source]
  exposed,     \* the ids a phase has shown at some time
  visible      \* phase -> the id it shows, or Nothing

chainVars == <<published, exposed, visible>>

-----------------------------------------------------------------------------

ChainInit ==
  /\ published = {}
  /\ exposed = {}
  /\ visible = [p \in Phases |-> Nothing]

IdsOf(phase) == {x.id : x \in {y \in published : y.phase = phase}}

\* What an artifact of a phase may be derived from.
Sources(phase) ==
  CASE phase = "intelligence" -> {AggregateSet}
    [] phase = "report"       -> IdsOf("intelligence") \cap exposed
    [] phase = "certificate"  -> IdsOf("report") \cap exposed

Publish(id, phase, source) ==
  /\ \A x \in published : x.id # id
  /\ source \in Sources(phase)
  /\ published' = published \cup {[id |-> id, phase |-> phase, source |-> source]}
  /\ UNCHANGED <<exposed, visible>>

Expose(id, phase) ==
  /\ id \in IdsOf(phase)
  /\ exposed' = exposed \cup {id}
  /\ visible' = [visible EXCEPT ![phase] = id]
  /\ UNCHANGED published

Withdraw(phase) ==
  /\ phase = "intelligence"
  /\ visible' = [visible EXCEPT ![phase] = Nothing]
  /\ UNCHANGED <<published, exposed>>

ChainNext ==
  \E phase \in Phases :
    \/ \E id \in Artifacts :
         \/ \E source \in Artifacts \cup {AggregateSet} : Publish(id, phase, source)
         \/ Expose(id, phase)
    \/ Withdraw(phase)

ChainSpec == ChainInit /\ [][ChainNext]_chainVars

=============================================================================
