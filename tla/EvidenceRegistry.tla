--------------------------- MODULE EvidenceRegistry ---------------------------
(***************************************************************************)
(* The registry of returned evidence (internal/portplan/evidence_core.go): *)
(* what a record of one command output must be, and must find registered,  *)
(* to be registered; and how the states of rows and backend cells advance. *)
(* One frozen campaign, one family, lane, provider and producer.           *)
(*                                                                         *)
(* Output identity and evidence kind are one name, as validateOutputsV1    *)
(* demands, and a subject is a row and a cell: operation, backend and      *)
(* symbol come with them.  A record's hashes, paths and typed key are      *)
(* abstracted to fits, the envelope is that of the frozen campaign, and    *)
(* its contents to sound, the artifact is what its kind asks for.  pair    *)
(* and outcome are what a benchstat artifact says: the two receipts it     *)
(* compares, and how they come out under the qualification contract.       *)
(***************************************************************************)
EXTENDS Integers, FiniteSets

CONSTANTS
  Commands,       \* identities of the frozen commands
  Campaign,       \* command -> its frozen description
  IdentityNeeded, \* <<action, role>> of the identity commands (12 in the code)
  Receipts,       \* receipt identities: a hash of the record
  Record          \* receipt -> the record it is the identity of

Roles == {"host", "old", "new", "direct", "selector", "object"}

SourceActions == {"source_commit", "source_tree", "source_parent", "source_status"}
HostActions   == {"host_uname", "host_cpu", "go_version", "file_digest"}

(* The kind of evidence a command produces besides its streams.            *)
Artifact(c) ==
  LET action == Campaign[c].action
  IN  CASE action \in SourceActions \cup HostActions -> "identity"
        [] action \in {"go_test_focused", "go_test_full"} -> "test"
        [] action = "go_test_race" -> "race"
        [] action \in {"go_fuzz_replay", "go_fuzz"} -> "fuzz"
        [] action = "go_benchmark" ->
             IF Campaign[c].role = "old" THEN "incumbent-benchmark" ELSE "candidate-benchmark"
        [] action = "benchstat" -> "benchstat"
        [] action = "provider_guard" -> "provider-guard"
        [] action = "selector_test" -> "selector"
        [] action = "final_selector_test" -> "final-selector"
        [] action = "go_object_build" -> "object"
        [] action = "go_objdump" -> "disassembly"
        [] action = "quiet_affinity_recheck" -> "quiet-affinity"
        [] action = "state_transition" -> "state-transition"
        [] action = "not_applicable" -> "not-applicable"
        [] OTHER -> "index"

Streams    == {"stdout", "stderr", "exit", "argv-env"}
Outputs(c) == Streams \cup {Artifact(c)}

(* Kinds that prove something about the code under test.                   *)
ProofKinds == {"test", "race", "fuzz", "object", "disassembly", "incumbent-benchmark",
               "candidate-benchmark", "benchstat", "provider-guard", "selector",
               "final-selector", "quiet-affinity", "state-transition", "not-applicable",
               "index"}
Kinds == Streams \cup {"identity"} \cup ProofKinds

TerminalProofKinds == {"incumbent-benchmark", "candidate-benchmark", "benchstat",
                       "provider-guard", "selector", "final-selector"}

RowStates  == {"snapshot_planned", "scalar_private", "scalar_green", "family_published",
               "complete"}
CellStates == {"eligible", "direct_built", "hard_gates_green", "dispatch_candidate",
               "selected", "direct_only", "not_applicable"}
States     == RowStates \cup CellStates

NoState == ""

CommandType == [action : STRING, role : Roles, key : {"row", "cell", "other"},
                row : STRING, cell : STRING, batch : STRING,
                initial : {"snapshot_planned", "eligible"}]

RecordType ==
  [command : Commands, output : Kinds,
   fits : BOOLEAN, sound : BOOLEAN, frozen : BOOLEAN,
   subject : {"none", "row", "backend_cell"}, from : States \cup {NoState}, to : States \cup {NoState},
   disposition : {"", "selected", "direct_only", "not_applicable"},
   qualification : {"", "pass", "fail", "inconclusive"}, proofs : SUBSET Receipts,
   pair : Receipts \X Receipts, outcome : {"pass", "fail", "inconclusive", "stale"}]

ASSUME CampaignAssumption == Campaign \in [Commands -> CommandType]
(* A cell's key is a hash of its row and backend (CellKeyV1).              *)
ASSUME CellAssumption ==
  \A c, d \in Commands : Campaign[c].key = "cell" /\ Campaign[d].key = "cell" =>
    (Campaign[c].cell = Campaign[d].cell => Campaign[c].row = Campaign[d].row)
SameCell(c, d) == Campaign[c].row = Campaign[d].row /\ Campaign[c].cell = Campaign[d].cell
Benchmark(c)   == Campaign[c].action = "go_benchmark"

SameBatch(c, d) == SameCell(c, d) /\ Campaign[c].batch = Campaign[d].batch

(* A row and cell has one benchmark of each source in each of its batches, *)
(* and a comparison of the two (validateBenchmarkTopologyV1).              *)
ASSUME BenchmarkAssumption ==
  /\ \A c, d \in Commands :
       /\ Benchmark(c) /\ Benchmark(d) /\ SameBatch(c, d)
       /\ Campaign[c].role = "old" <=> Campaign[d].role = "old"
       => c = d
  /\ \A c \in Commands :
       Benchmark(c) => \E d \in Commands : Campaign[d].action = "benchstat" /\ SameBatch(c, d)

(* Every row and cell is benchmarked in one batch; nothing in the code     *)
(* demands it.                                                             *)
OneBatch ==
  \A c, d \in Commands : Benchmark(c) /\ Benchmark(d) /\ SameCell(c, d) => SameBatch(c, d)
ASSUME RecordAssumption   == Record \in [Receipts -> RecordType]

command(r) == Campaign[Record[r].command]
output(r)  == Record[r].output
subject(r) == Record[r].subject
from(r)    == Record[r].from
to(r)      == Record[r].to

VARIABLES
  registered,  \* the receipts in receipts, contents and keys
  states       \* <<subject, storage>> -> state

registryVars == <<registered, states>>

Unset == "unset"

(* The storage a state subject is keyed by is its command's row or cell.   *)
Subjects == ({"row"} \X {Campaign[c].row : c \in Commands})
              \cup ({"backend_cell"} \X {Campaign[c].cell : c \in Commands})
SubjectOf(r) == <<subject(r), IF subject(r) = "row" THEN command(r).row ELSE command(r).cell>>

RegistryInit == registered = {} /\ states = [s \in Subjects |-> Unset]

-----------------------------------------------------------------------------
(* What other records a record needs *)

SourceRole(r) == CASE command(r).role = "old"  -> "old"
                   [] command(r).role = "host" -> "host"
                   [] OTHER -> "new"

registeredCommandOutput(R, c, kind) == \E q \in R : Record[q].command = c /\ output(q) = kind

(* The exit of the record's command, which is only ever registered as      *)
(* zero, and its invocation are there.                                     *)
registeredSuccessfulExit(r, R) ==
  \A kind \in {"exit", "argv-env"} : registeredCommandOutput(R, Record[r].command, kind)

(* Every identity command has answered, and as it was frozen.              *)
identityBound(R) ==
  \A needed \in IdentityNeeded :
    \E q \in R :
      /\ output(q) = "identity" /\ Record[q].frozen
      /\ <<command(q).action, command(q).role>> = needed
      /\ registeredSuccessfulExit(q, R)

SameSubject(p, q) == SameCell(Record[p].command, Record[q].command)

(* Variant: a second benchmark of one source is not refused.               *)
benchmarkProofsAny(r, R) ==
  LET of(kind) == {q \in R : output(q) = kind /\ SameSubject(q, r)}
  IN  \E old \in of("incumbent-benchmark"), new \in of("candidate-benchmark") :
        /\ registeredSuccessfulExit(old, R) /\ registeredSuccessfulExit(new, R)
        /\ Record[r].pair = <<old, new>>

(* The benchmarks of the row and cell, whatever their batch: one of each   *)
(* source, both successful.                                                *)
benchmarkProofs(r, R) ==
  LET of(kind) == {q \in R : output(q) = kind /\ SameSubject(q, r)}
  IN  \E old \in of("incumbent-benchmark"), new \in of("candidate-benchmark") :
        /\ of("incumbent-benchmark") = {old} /\ of("candidate-benchmark") = {new}
        /\ registeredSuccessfulExit(old, R) /\ registeredSuccessfulExit(new, R)
        /\ Record[r].pair = <<old, new>>

(* The artifact alone: a zero exit, the frozen invocation, canonical       *)
(* state, affinity, index or identity.                                     *)
canonicalArtifact(r) == Record[r].sound

validateArtifactSemantics(r, R) ==
  /\ canonicalArtifact(r)
  /\ \/ output(r) \in {"exit", "argv-env"}
     \/ output(r) = "identity" /\ registeredSuccessfulExit(r, R)
     \/ /\ output(r) \notin {"exit", "argv-env", "identity"}
        /\ identityBound(R)
        /\ output(r) = "benchstat" => benchmarkProofs(r, R) /\ Record[r].outcome # "stale"
        /\ output(r) \in ProofKinds => registeredSuccessfulExit(r, R)

-----------------------------------------------------------------------------
(* State transitions *)

(* The table is a Go map, which answers "" for a state it does not hold: a *)
(* row transition from such a state to "", and from "" to "", is legal.    *)
RowSuccessor(state) ==
  CASE state = "snapshot_planned" -> "scalar_private"
    [] state = "scalar_private"   -> "scalar_green"
    [] state = "scalar_green"     -> "family_published"
    [] state = "family_published" -> "complete"
    [] OTHER                      -> NoState

legalRowTransition(a, b) == RowSuccessor(a) = b

legalCellTransition(a, b) ==
  <<a, b>> \in {<<"eligible", "direct_built">>, <<"eligible", "not_applicable">>,
                <<"direct_built", "hard_gates_green">>,
                <<"hard_gates_green", "dispatch_candidate">>,
                <<"dispatch_candidate", "selected">>, <<"dispatch_candidate", "direct_only">>}

(* Variant: a proof about another row or cell is taken.                    *)
sameProofContextLoose(t, p) ==
  CASE output(p) = "state-transition"   -> SubjectOf(p) = SubjectOf(t)
    [] output(p) \in TerminalProofKinds -> TRUE
    [] OTHER                            -> SourceRole(p) = SourceRole(t)

(* A proof is about the transition's row and cell, and about its source    *)
(* unless its kind fixes the command that makes it.                        *)
sameProofContext(t, p) ==
  /\ SameSubject(t, p)
  /\ CASE output(p) = "state-transition"   -> /\ SubjectOf(p) = SubjectOf(t)
                                              /\ SourceRole(p) = SourceRole(t)
       [] output(p) \in TerminalProofKinds -> TRUE
       [] OTHER                            -> SourceRole(p) = SourceRole(t)

(* Every proof named is registered, in context, of a kind of its own, and  *)
(* raw evidence, save the hard gates a dispatch candidate stands on.       *)
ProofsAdmissible(t, R) ==
  /\ Record[t].proofs \subseteq R
  /\ \A p \in Record[t].proofs :
       /\ sameProofContext(t, p)
       /\ IF output(p) = "state-transition"
          THEN /\ to(t) = "dispatch_candidate"
               /\ subject(p) = "backend_cell"
               /\ from(p) = "direct_built" /\ to(p) = "hard_gates_green"
          ELSE subject(p) = "none"
       /\ \A q \in Record[t].proofs : output(q) = output(p) => q = p

RequiredKinds(state) ==
  CASE state \in {"family_published", "complete"} -> {"index"}
    [] state = "direct_built"       -> {"object", "disassembly", "test"}
    [] state = "hard_gates_green"   -> {"test", "race", "fuzz", "object", "disassembly"}
    [] state = "dispatch_candidate" -> {"state-transition"}
    [] state = "selected"           -> TerminalProofKinds
    [] state = "direct_only"        -> TerminalProofKinds \ {"final-selector"}
    [] OTHER                        -> {}

(* The qualification a terminal transition may claim: that of the          *)
(* benchstat among its proofs, which compares two others of them.          *)
qualificationOutcome(t, R, outcome) ==
  /\ \A p \in Record[t].proofs : registeredSuccessfulExit(p, R)
  /\ \E old, new, stat \in Record[t].proofs :
       /\ output(old) = "incumbent-benchmark" /\ output(new) = "candidate-benchmark"
       /\ output(stat) = "benchstat" /\ Record[stat].pair = <<old, new>>
       /\ Record[stat].outcome = outcome

Unqualified(t) == Record[t].disposition = "" /\ Record[t].qualification = ""

(* A direct build and green hard gates take any disposition.               *)
Disposed(t, R) ==
  CASE to(t) \in {"selected", "direct_only"} ->
         LET claim == Record[t].qualification
         IN  /\ Record[t].disposition = to(t)
             /\ claim \in IF to(t) = "selected" THEN {"pass"} ELSE {"fail", "inconclusive"}
             /\ qualificationOutcome(t, R, claim)
    [] to(t) \in {"direct_built", "hard_gates_green"} -> TRUE
    [] OTHER -> Unqualified(t)

Raw(r) == from(r) = NoState /\ to(r) = NoState /\ Record[r].proofs = {} /\ Unqualified(r)

(* A not_applicable transition takes any qualification; that its reason is *)
(* the frozen one is part of fits.                                         *)
NotApplicable(r) == /\ output(r) = "not-applicable" /\ from(r) = "eligible"
                    /\ Record[r].disposition = "not_applicable" /\ Record[r].proofs = {}

Transition(r, R) ==
  /\ output(r) = "state-transition"
  /\ IF subject(r) = "row" THEN legalRowTransition(from(r), to(r))
                           ELSE legalCellTransition(from(r), to(r))
  /\ ProofsAdmissible(r, R)
  /\ RequiredKinds(to(r)) \subseteq {output(p) : p \in Record[r].proofs}
  /\ Disposed(r, R)

validateState(r, R) ==
  CASE subject(r) = "none" -> Raw(r)
    [] subject(r) = "row"  -> command(r).key = "row" /\ Transition(r, R)
    [] subject(r) = "backend_cell" ->
         /\ command(r).key = "cell"
         /\ IF to(r) = "not_applicable" THEN NotApplicable(r) ELSE Transition(r, R)

(* The record names the frozen campaign, sources, host, command, output    *)
(* and binding, its path and size agree, and its identity is its hash.     *)
validateEvidenceEnvelope(r) == Record[r].fits

(* What a record needs of itself and of others, whatever came before it.   *)
Supported(r, R) ==
  validateEvidenceEnvelope(r) /\ validateArtifactSemantics(r, R) /\ validateState(r, R)

-----------------------------------------------------------------------------
(* Registration *)

StateOf(r) == IF states[SubjectOf(r)] = Unset THEN command(r).initial ELSE states[SubjectOf(r)]

(* Variant: the state a subject is in is not asked for.                    *)
validateAddAnywhere(r) ==
  /\ ~ registeredCommandOutput(registered, Record[r].command, output(r))
  /\ r \notin registered

(* One record for each command output, and transitions from where their    *)
(* subject is.                                                             *)
validateAdd(r) ==
  /\ ~ registeredCommandOutput(registered, Record[r].command, output(r))
  /\ r \notin registered
  /\ subject(r) # "none" => from(r) = StateOf(r)

Valid(r) == Supported(r, registered) /\ validateAdd(r)

(* Variant: the state of a subject is recorded once.                       *)
commitAddOnce(r) ==
  /\ registered' = registered \cup {r}
  /\ states' = IF subject(r) # "none" /\ states[SubjectOf(r)] = Unset
               THEN [states EXCEPT ![SubjectOf(r)] = to(r)] ELSE states

commitAdd(r) ==
  /\ registered' = registered \cup {r}
  /\ states' = IF subject(r) = "none" THEN states
               ELSE [states EXCEPT ![SubjectOf(r)] = to(r)]

Register(r) == Valid(r) /\ commitAdd(r)

RegistrySpec == RegistryInit /\ [][\E r \in Receipts : Register(r)]_registryVars

-----------------------------------------------------------------------------
(* Properties *)

(* The registry holds receipts and the states of the campaign's subjects.  *)
RegistryTypeOK ==
  /\ registered \subseteq Receipts
  /\ states \in [Subjects -> States \cup {NoState, Unset}]

Transitions(s) == {t \in registered : subject(t) # "none" /\ SubjectOf(t) = s}

Moves(t)  == from(t) # to(t)
Starts(t) == from(t) = command(t).initial

(* In whatever order records come, the transitions registered for a row or *)
(* cell that move it are one history that starts once, never branches nor  *)
(* joins and ends in the state the registry holds: there are no two        *)
(* accounts of one subject.  A record that moves nothing, which the row    *)
(* table lets pass from "" to "", is registered only for a row that has    *)
(* lost its state.                                                         *)
UnbranchedHistory ==
  \A s \in Subjects :
    LET T    == Transitions(s)
        Path == {t \in T : Moves(t)}
    IN  /\ states[s] = Unset <=> T = {}
        /\ \A t \in T \ Path : from(t) = NoState /\ states[s] = NoState
        /\ \A t \in Path :
             /\ from(t) # states[s]
             /\ to(t) = states[s] \/ \E u \in Path : from(u) = to(t)
             /\ \A u \in Path :
                  from(t) = from(u) \/ to(t) = to(u) \/ (Starts(t) /\ Starts(u)) => t = u

(* Every transition stays inside the states that the schema of the records *)
(* admits for its subject: a row goes from one of its first four states to *)
(* one of its last four.  "prerequisite_state":{"enum":["snapshot_planned",*)
(* "scalar_private","scalar_green","family_published"]},"current_state":   *)
(* {"enum":["scalar_private","scalar_green","family_published","complete"]}*)
(* (docs/porting/simdutf-port-v1/inputs/evidence-schema-v1.json:20).       *)
RowRecordsInSchema ==
  \A t \in registered :
    subject(t) = "row" => /\ from(t) \in RowStates \ {"complete"}
                          /\ to(t) \in RowStates \ {"snapshot_planned"}

(* Registered evidence of the record's row and cell, its command's success *)
(* with it.                                                                *)
Evidenced(t, kind) ==
  \E p \in registered : /\ output(p) = kind /\ SameSubject(p, t)
                        /\ registeredSuccessfulExit(p, registered)

(* A cell reaches dispatch only on evidence: behind a selected cell there  *)
(* are, about that very cell, the direct build, the hard gates, the guards *)
(* and selectors, a benchmark of either source, and a comparison of these  *)
(* two that passes; and the host and sources were as frozen.               *)
SelectedStandsOnProofs ==
  \A t \in registered :
    to(t) = "selected" =>
      /\ \A kind \in {"object", "disassembly", "test", "race", "fuzz"} \cup TerminalProofKinds :
           Evidenced(t, kind)
      /\ \E stat \in registered :
           /\ output(stat) = "benchstat" /\ Record[stat].outcome = "pass"
           /\ SameSubject(stat, t)
           /\ \E old, new \in registered :
                /\ Record[stat].pair = <<old, new>>
                /\ output(old) = "incumbent-benchmark" /\ output(new) = "candidate-benchmark"
                /\ SameSubject(old, t) /\ SameSubject(new, t)
      /\ identityBound(registered)
=============================================================================
