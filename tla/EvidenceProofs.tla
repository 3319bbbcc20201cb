---------------------------- MODULE EvidenceProofs ----------------------------
(***************************************************************************)
(* Proofs about EvidenceRegistry, for any campaign and any records in any  *)
(* order, about ReturnIndex, the command that drives the registry, for any *)
(* directory of records, and about Completion, the audit that closes it.   *)
(*                                                                         *)
(* Two ideas carry the registry's.  Legal transitions only ever climb      *)
(* (Rank), save the one from no state to no state, which no row comes back *)
(* from, so the history of a subject is a chain that cannot close or fork. *)
(* And what a registered record stands on is never taken back (Grounded),  *)
(* so what was true when each transition was registered can be collected   *)
(* behind the last one.                                                    *)
(*                                                                         *)
(* The command is a run of the registry (Implements), so what the registry *)
(* promises holds of it.  Its last sweep registers nothing: the passes end *)
(* with one that refused all that was left, or after as many as there are  *)
(* records, each of which registered one (Settling).  So its verdict is    *)
(* that of the set of records, where a cell has one batch of benchmarks:   *)
(* what supported a record when it came still supports it in the end       *)
(* (SupportStays), and of a consistent set nothing is left over, because   *)
(* among the records that are left one would call for nothing but what is  *)
(* registered (ConsistentIsRegistered).  Where a cell has two, every       *)
(* comparison that is accepted is of one pair (Compared).                  *)
(*                                                                         *)
(* The registry and the closing audit agree (Completion), for every        *)
(* campaign and plan.  From the registry to the audit: where a subject is  *)
(* was reached by a transition, which left from where another one arrived, *)
(* down to the start, and a history that never branches has room for       *)
(* nothing else.  From the audit to the registry: the last transition of a *)
(* closed chain has no successor, so it ends where the registry says the   *)
(* subject is.                                                             *)
(***************************************************************************)
EXTENDS ReturnIndex, Completion, TLAPS, FiniteSetTheorems

(* The states of a subject, and none.                                      *)
Stages == States \cup {NoState}

(* How far along its chain a state is.                                     *)
Rank == [state \in Stages |->
  CASE state \in {"snapshot_planned", "eligible"}         -> 0
    [] state \in {"scalar_private", "direct_built"}       -> 1
    [] state \in {"scalar_green", "hard_gates_green"}     -> 2
    [] state \in {"family_published", "dispatch_candidate"} -> 3
    [] state = NoState                                         -> 5
    [] OTHER                                              -> 4]

(* No transition of a subject goes beyond where the subject is.            *)
Climbing ==
  \A t \in registered : subject(t) # "none" =>
    /\ from(t) \in Stages /\ to(t) \in Stages
    /\ from(t) # NoState => Rank[from(t)] < Rank[to(t)]
    /\ from(t) = NoState => to(t) = NoState
    /\ states[SubjectOf(t)] \in Stages
    /\ Rank[to(t)] <= Rank[states[SubjectOf(t)]]

History == RegistryTypeOK /\ UnbranchedHistory /\ Climbing

-----------------------------------------------------------------------------

LEMMA NoStateIsNone == NoState \notin States /\ NoState # Unset /\ NoState # "selected"
BY DEF NoState, States, RowStates, CellStates, Unset

LEMMA UnsetIsNoState == Unset \notin Stages
<1>1. Unset \notin States
  BY DEF Unset, States, RowStates, CellStates
<1>2. QED
  BY <1>1, NoStateIsNone DEF Stages, Unset

LEMMA StagesOfRecords ==
  ASSUME NEW r \in Receipts
  PROVE  /\ Record[r].command \in Commands /\ subject(r) \in {"none", "row", "backend_cell"}
         /\ from(r) \in Stages /\ to(r) \in Stages
BY RecordAssumption DEF RecordType, subject, from, to, Stages

(* A record that moves a subject moves it up.                              *)
LEMMA Climbs ==
  ASSUME NEW r \in Receipts, NEW R, validateState(r, R), subject(r) # "none"
  PROVE  /\ from(r) \in Stages /\ to(r) \in Stages
         /\ Rank[from(r)] \in 0..5 /\ Rank[to(r)] \in 0..5
         /\ from(r) # NoState => Rank[from(r)] < Rank[to(r)]
         /\ from(r) = NoState => to(r) = NoState
<1>1. subject(r) \in {"row", "backend_cell"}
  BY RecordAssumption DEF RecordType, subject
<1>2. \/ legalRowTransition(from(r), to(r))
      \/ legalCellTransition(from(r), to(r))
      \/ from(r) = "eligible" /\ to(r) = "not_applicable"
  BY <1>1 DEF validateState, Transition, NotApplicable
<1>3. from(r) \in Stages /\ to(r) \in Stages
  BY StagesOfRecords
<1>4. CASE legalRowTransition(from(r), to(r))
  BY <1>3, <1>4, NoStateIsNone
     DEF legalRowTransition, RowSuccessor, Rank, Stages, States, RowStates, CellStates
<1>5. CASE ~ legalRowTransition(from(r), to(r))
  BY <1>2, <1>3, <1>5, NoStateIsNone
     DEF legalCellTransition, Rank, Stages, States, RowStates, CellStates
<1>6. QED
  BY <1>3, <1>4, <1>5

(* What a subject starts from comes before everything.                     *)
LEMMA StartsLow ==
  ASSUME NEW r \in Receipts
  PROVE  /\ command(r).initial \in States /\ command(r).initial # NoState
         /\ Rank[command(r).initial] = 0
<1>1. command(r).initial \in {"snapshot_planned", "eligible"}
  BY RecordAssumption, CampaignAssumption DEF RecordType, CommandType, command
<1>2. QED
  BY <1>1, NoStateIsNone DEF Rank, Stages, States, RowStates, CellStates

LEMMA SubjectsOfTransitions ==
  ASSUME NEW r \in Receipts, subject(r) # "none"
  PROVE  SubjectOf(r) \in Subjects
BY RecordAssumption DEF RecordType, SubjectOf, Subjects, subject, command

LEMMA RankType == \A s \in Stages : Rank[s] \in 0..5 /\ (s = NoState <=> Rank[s] = 5)
BY NoStateIsNone DEF Rank, Stages, States, RowStates, CellStates


LEMMA HistoryInit == RegistryInit => History
BY UnsetIsNoState
   DEF RegistryInit, History, RegistryTypeOK, UnbranchedHistory, Climbing, Transitions

(* A record without a state changes no history.                            *)
LEMMA RawKeepsHistory ==
  ASSUME History, NEW r \in Receipts, Register(r), subject(r) = "none"
  PROVE  History'
<1>1. registered' = registered \cup {r} /\ states' = states
  BY DEF Register, commitAdd
<1>2. \A s : Transitions(s)' = Transitions(s)
  BY <1>1 DEF Transitions
<1>3. RegistryTypeOK'
  BY <1>1 DEF History, RegistryTypeOK
<1>4. UnbranchedHistory'
  BY <1>1, <1>2 DEF History, UnbranchedHistory
<1>5. Climbing'
  BY <1>1 DEF History, Climbing
<1>6. QED
  BY <1>3, <1>4, <1>5 DEF History

LEMMA TransitionKeepsHistory ==
  ASSUME History, NEW r \in Receipts, Register(r), subject(r) # "none"
  PROVE  History'
<1> DEFINE s == SubjectOf(r)
<1>1. /\ registered' = registered \cup {r}
      /\ states' = [states EXCEPT ![s] = to(r)]
      /\ from(r) = StateOf(r)
      /\ validateState(r, registered)
  BY DEF Register, commitAdd, Valid, Supported, validateAdd
<1>2. /\ from(r) \in Stages /\ to(r) \in Stages
      /\ Rank[from(r)] \in 0..5 /\ Rank[to(r)] \in 0..5
      /\ from(r) # NoState => Rank[from(r)] < Rank[to(r)]
      /\ from(r) = NoState => to(r) = NoState
  BY <1>1, Climbs
<1>3. s \in Subjects
  BY SubjectsOfTransitions
<1>4. RegistryTypeOK'
  BY <1>1, <1>2 DEF History, RegistryTypeOK, Stages
<1>5. states'[s] = to(r) /\ \A o \in Subjects \ {s} : states'[o] = states[o]
  BY <1>1, <1>3 DEF History, RegistryTypeOK
<1>6. /\ Transitions(s)' = Transitions(s) \cup {r}
      /\ \A o \in Subjects \ {s} : Transitions(o)' = Transitions(o)
  BY <1>1 DEF Transitions
(* The transitions before r end where r starts.                            *)
<1>7. \A t \in Transitions(s) :
        /\ states[s] = from(r)
        /\ from(t) \in Stages /\ to(t) \in Stages
        /\ Rank[from(t)] \in 0..5 /\ Rank[to(t)] \in 0..5
        /\ from(t) # NoState => Rank[from(t)] < Rank[to(t)]
        /\ from(t) = NoState => to(t) = NoState
        /\ Rank[to(t)] <= Rank[from(r)]
  <2> SUFFICES ASSUME NEW t \in Transitions(s)
               PROVE  /\ states[s] = from(r)
                      /\ from(t) \in Stages /\ to(t) \in Stages
                      /\ Rank[from(t)] \in 0..5 /\ Rank[to(t)] \in 0..5
                      /\ from(t) # NoState => Rank[from(t)] < Rank[to(t)]
                      /\ from(t) = NoState => to(t) = NoState
                      /\ Rank[to(t)] <= Rank[from(r)]
    OBVIOUS
  <2>1. t \in registered /\ subject(t) # "none" /\ SubjectOf(t) = s
    BY DEF Transitions
  <2>2. states[s] \in Stages
    BY <2>1 DEF History, Climbing
  <2>3. states[s] = from(r)
    BY <1>1, <2>2, UnsetIsNoState DEF StateOf
  <2>4. QED
    BY <2>1, <2>3, RankType DEF History, Climbing
<1>8. UnbranchedHistory'
  <2> DEFINE path(T) == {t \in T : Moves(t)}
             told(T, state) ==
               /\ state = Unset <=> T = {}
               /\ \A t \in T \ path(T) : from(t) = NoState /\ state = NoState
               /\ \A t \in path(T) :
                    /\ from(t) # state
                    /\ to(t) = state \/ \E u \in path(T) : from(u) = to(t)
                    /\ \A u \in path(T) :
                         \/ from(t) = from(u) \/ to(t) = to(u)
                         \/ Starts(t) /\ Starts(u)
                         => t = u
  <2>1. \A o \in Subjects : told(Transitions(o), states[o])
    BY DEF History, UnbranchedHistory
  <2>2. SUFFICES \A o \in Subjects : told(Transitions(o)', states'[o])
    BY DEF UnbranchedHistory
  <2> HIDE DEF told
  <2>3. ASSUME NEW o \in Subjects, o # s PROVE told(Transitions(o)', states'[o])
    BY <2>1, <2>3, <1>5, <1>6
  <2>4. told(Transitions(s) \cup {r}, to(r))
    <3>1. told(Transitions(s), states[s])
      BY <2>1, <1>3
    <3>2. to(r) # Unset
      BY <1>2, UnsetIsNoState
    (* A record that moves nothing finds the row without a state.            *)
    <3>3. CASE from(r) = NoState
      <4>1. ~ Moves(r) /\ to(r) = NoState
        BY <3>3, <1>2 DEF Moves
      <4>2. states[s] = NoState
        BY <3>3, <1>1, StartsLow DEF StateOf
      <4>3. path(Transitions(s) \cup {r}) = path(Transitions(s))
        BY <4>1
      <4>4. QED
        BY <3>1, <3>2, <3>3, <4>1, <4>2, <4>3 DEF told
    <3>4. CASE from(r) # NoState
      <4>1. Rank[from(r)] < Rank[to(r)] /\ Moves(r)
        BY <3>4, <1>2 DEF Moves
      <4>2. \A t \in Transitions(s) : from(t) # NoState /\ Rank[from(t)] < Rank[to(t)] /\ Moves(t)
        <5> SUFFICES ASSUME NEW t \in Transitions(s), from(t) = NoState PROVE FALSE
          BY <1>7 DEF Moves
        <5>1. Rank[to(t)] = 5 /\ Rank[to(t)] <= Rank[from(r)]
          BY <1>7, RankType
        <5>2. QED
          BY <5>1, <4>1, <1>2
      <4>3. \A t \in Transitions(s) :
              from(t) # to(r) /\ from(t) # from(r) /\ to(t) # to(r) /\ from(r) # to(r)
        BY <4>1, <4>2, <1>2, <1>7
      <4>4. \A t \in Transitions(s) : ~ Starts(r)
        <5> SUFFICES ASSUME NEW t \in Transitions(s), Starts(r) PROVE FALSE
          OBVIOUS
        <5>1. Rank[from(r)] = 0
          BY StartsLow DEF Starts
        <5>2. QED
          BY <5>1, <4>2, <1>7
      <4>5. \A t \in Transitions(s) : states[s] = from(r)
        BY <1>7
      <4>6. path(Transitions(s)) = Transitions(s)
              /\ path(Transitions(s) \cup {r}) = Transitions(s) \cup {r}
        BY <4>1, <4>2
      <4>7. from(r) # to(r)
        BY <4>1 DEF Moves
      <4> HIDE DEF path
      <4>8. QED
        BY <3>1, <3>2, <4>3, <4>4, <4>5, <4>6, <4>7 DEF told
    <3>5. QED
      BY <3>3, <3>4
  <2>5. QED
    BY <2>3, <2>4, <1>5, <1>6
<1>9. Climbing'
  <2> SUFFICES ASSUME NEW t \in registered', subject(t) # "none"
               PROVE  /\ from(t) \in Stages /\ to(t) \in Stages
                      /\ from(t) # NoState => Rank[from(t)] < Rank[to(t)]
                      /\ from(t) = NoState => to(t) = NoState
                      /\ states'[SubjectOf(t)] \in Stages
                      /\ Rank[to(t)] <= Rank[states'[SubjectOf(t)]]
    BY DEF Climbing
  <2>1. CASE t = r
    BY <2>1, <1>2, <1>5
  <2>2. CASE t # r /\ SubjectOf(t) = s
    <3>1. t \in Transitions(s)
      BY <2>2, <1>1 DEF Transitions
    <3>2. Rank[from(r)] <= Rank[to(r)]
      BY <1>2
    <3>3. QED
      BY <3>1, <3>2, <2>2, <1>2, <1>5, <1>7
  <2>3. CASE t # r /\ SubjectOf(t) # s
    <3>1. t \in registered /\ t \in Receipts
      BY <2>3, <1>1 DEF History, RegistryTypeOK
    <3>2. SubjectOf(t) \in Subjects \ {s}
      BY <2>3, <3>1, SubjectsOfTransitions
    <3>3. QED
      BY <3>1, <3>2, <1>5 DEF History, Climbing
  <2>4. QED
    BY <2>1, <2>2, <2>3
<1>10. QED
  BY <1>4, <1>8, <1>9 DEF History

LEMMA HistoryInvariant == RegistrySpec => []History
<1>1. History /\ [\E r \in Receipts : Register(r)]_registryVars => History'
  <2>1. ASSUME History, NEW r \in Receipts, Register(r) PROVE History'
    BY <2>1, RawKeepsHistory, TransitionKeepsHistory
  <2>2. ASSUME History, UNCHANGED registryVars PROVE History'
    BY <2>2 DEF History, RegistryTypeOK, UnbranchedHistory, Climbing, Transitions, registryVars
  <2>3. QED
    BY <2>1, <2>2
<1>2. QED
  BY <1>1, HistoryInit, PTL DEF RegistrySpec

(* For every campaign, and whatever is presented to the registry in        *)
(* whatever order, it holds receipts and states of subjects, or the empty  *)
(* one that the row table answers.                                         *)
THEOREM TypeCorrect == RegistrySpec => []RegistryTypeOK
BY HistoryInvariant, PTL DEF History

(* The transitions that move a row or cell start once, never branch or     *)
(* join, and end in the state the registry holds, those of a row that      *)
(* leaves its table included; the others are of a row that has left it.    *)
THEOREM Unbranched == RegistrySpec => []UnbranchedHistory
BY HistoryInvariant, PTL DEF History

-----------------------------------------------------------------------------
(* What registered records stand on *)

CellStep(t) == subject(t) = "backend_cell" /\ to(t) # "not_applicable"

(* What a record stood on when it was registered, as far as it cannot be   *)
(* lost: not that it was the only benchmark of its cell, say.              *)
Grounded(t, R) ==
  /\ output(t) \in ProofKinds => registeredSuccessfulExit(t, R)
  /\ subject(t) = "backend_cell" => command(t).key = "cell"
  /\ subject(t) = "row" => legalRowTransition(from(t), to(t))
  /\ CellStep(t) =>
       /\ legalCellTransition(from(t), to(t))
       /\ ProofsAdmissible(t, R)
       /\ RequiredKinds(to(t)) \subseteq {output(p) : p \in Record[t].proofs}
  /\ to(t) = "selected" =>
       /\ CellStep(t)
       /\ identityBound(R)
       /\ qualificationOutcome(t, R, "pass")

(* A subject got to where it is, and to where each transition leaves from, *)
(* by a registered transition that moved it.                               *)
Arrives(s, state) == \E u \in Transitions(s) : Moves(u) /\ to(u) = state
Connected ==
  /\ \A s \in Subjects : states[s] # Unset => Arrives(s, states[s])
  /\ \A t \in registered : subject(t) # "none" =>
       from(t) = command(t).initial \/ Arrives(SubjectOf(t), from(t))

Standing == /\ RegistryTypeOK
            /\ \A t \in registered : Grounded(t, registered)
            /\ Connected

LEMMA ExitStays ==
  ASSUME NEW R, NEW S, R \subseteq S, NEW r, registeredSuccessfulExit(r, R)
  PROVE  registeredSuccessfulExit(r, S)
BY DEF registeredSuccessfulExit, registeredCommandOutput

LEMMA IdentityStays ==
  ASSUME NEW R, NEW S, R \subseteq S, identityBound(R)
  PROVE  identityBound(S)
<1> SUFFICES ASSUME NEW needed \in IdentityNeeded
             PROVE  \E q \in S : /\ output(q) = "identity" /\ Record[q].frozen
                                 /\ <<command(q).action, command(q).role>> = needed
                                 /\ registeredSuccessfulExit(q, S)
  BY DEF identityBound
<1>1. PICK q \in R : /\ output(q) = "identity" /\ Record[q].frozen
                     /\ <<command(q).action, command(q).role>> = needed
                     /\ registeredSuccessfulExit(q, R)
  BY DEF identityBound
<1>2. registeredSuccessfulExit(q, S)
  BY <1>1, ExitStays
<1>3. QED
  BY <1>1, <1>2

LEMMA QualificationStays ==
  ASSUME NEW R, NEW S, R \subseteq S, NEW t, NEW o, qualificationOutcome(t, R, o)
  PROVE  qualificationOutcome(t, S, o)
<1>1. \A p \in Record[t].proofs : registeredSuccessfulExit(p, S)
  BY ExitStays DEF qualificationOutcome
<1>2. QED
  BY <1>1 DEF qualificationOutcome

LEMMA GroundedStays ==
  ASSUME NEW R, NEW S, R \subseteq S, NEW t, Grounded(t, R)
  PROVE  Grounded(t, S)
<1>1. output(t) \in ProofKinds => registeredSuccessfulExit(t, S)
  BY ExitStays DEF Grounded
<1>2. CellStep(t) => ProofsAdmissible(t, S)
  BY DEF Grounded, ProofsAdmissible
<1>3. to(t) = "selected" => identityBound(S) /\ qualificationOutcome(t, S, "pass")
  BY IdentityStays, QualificationStays DEF Grounded
<1>4. QED
  BY <1>1, <1>2, <1>3 DEF Grounded

(* What is checked at registration grounds the record.                     *)
LEMMA SupportedIsGrounded ==
  ASSUME NEW R, NEW r \in Receipts, Supported(r, R)
  PROVE  Grounded(r, R)
<1>1. validateArtifactSemantics(r, R) /\ validateState(r, R)
  BY DEF Supported
<1>2. subject(r) \in {"none", "row", "backend_cell"}
  BY RecordAssumption DEF RecordType, subject
<1>3. output(r) \in ProofKinds =>
        /\ registeredSuccessfulExit(r, R)
        /\ identityBound(R)
  BY <1>1 DEF validateArtifactSemantics, ProofKinds
<1>4. subject(r) = "none" => to(r) = NoState
  BY <1>1 DEF validateState, Raw
<1>5. subject(r) # "none" =>
        \/ Transition(r, R)
        \/ subject(r) = "backend_cell" /\ to(r) = "not_applicable"
  BY <1>1, <1>2 DEF validateState
<1>6. subject(r) = "backend_cell" => command(r).key = "cell"
  BY <1>1 DEF validateState
<1>7. CellStep(r) => Transition(r, R) /\ legalCellTransition(from(r), to(r))
  BY <1>5 DEF CellStep, Transition
<1>8. ASSUME to(r) = "selected" PROVE CellStep(r) /\ Transition(r, R)
  <2>1. Transition(r, R)
    BY <1>4, <1>5, <1>8, NoStateIsNone
  <2>2. subject(r) # "row"
    BY <2>1, <1>8, NoStateIsNone DEF Transition, legalRowTransition, RowSuccessor
  <2>3. QED
    BY <2>1, <2>2, <1>2, <1>4, <1>8, NoStateIsNone DEF CellStep
<1>9. ASSUME to(r) = "selected" PROVE identityBound(R) /\ qualificationOutcome(r, R, "pass")
  <2>1. Transition(r, R)
    BY <1>8, <1>9
  <2>2. identityBound(R)
    BY <2>1, <1>3 DEF Transition, ProofKinds
  <2>3. qualificationOutcome(r, R, "pass")
    BY <2>1, <1>9 DEF Transition, Disposed
  <2>4. QED
    BY <2>2, <2>3
<1>10. subject(r) = "row" => legalRowTransition(from(r), to(r))
  BY <1>5 DEF Transition
<1>11. QED
  BY <1>3, <1>6, <1>7, <1>8, <1>9, <1>10 DEF Grounded, Transition

LEMMA ConnectedStays ==
  ASSUME RegistryTypeOK, Connected, NEW r \in Receipts, Register(r)
  PROVE  Connected'
<1>1. registered' = registered \cup {r} /\ validateState(r, registered)
  BY DEF Register, commitAdd, Valid, Supported
<1>2. \A s : /\ Transitions(s) \subseteq Transitions(s)'
             /\ subject(r) = "none" => Transitions(s)' = Transitions(s)
  BY <1>1 DEF Transitions
<1>3. CASE subject(r) = "none"
  <2>1. states' = states /\ \A s : Transitions(s)' = Transitions(s)
    BY <1>2, <1>3 DEF Register, commitAdd
  <2>2. QED
    BY <2>1, <1>1, <1>3 DEF Connected, Arrives
<1>4. CASE subject(r) # "none"
  <2> DEFINE s == SubjectOf(r)
  <2>1. s \in Subjects /\ states' = [states EXCEPT ![s] = to(r)]
    BY <1>4, SubjectsOfTransitions DEF Register, commitAdd
  <2>2. states'[s] = to(r) /\ \A o \in Subjects \ {s} : states'[o] = states[o]
    BY <2>1 DEF RegistryTypeOK
  <2>3. r \in Transitions(s)' /\ from(r) = StateOf(r)
    BY <1>1, <1>4 DEF Transitions, Register, Valid, validateAdd
  <2>4. \A o \in Subjects :
          states'[o] # Unset => \E u \in Transitions(o)' : Moves(u) /\ to(u) = states'[o]
    <3> SUFFICES ASSUME NEW o \in Subjects, states'[o] # Unset
                 PROVE  \E u \in Transitions(o)' : Moves(u) /\ to(u) = states'[o]
      OBVIOUS
    <3>1. CASE o = s
      <4>1. CASE Moves(r)
        BY <3>1, <4>1, <2>2, <2>3
      <4>2. CASE ~ Moves(r)
        <5>1. from(r) = NoState
          BY <4>2, <1>1, <1>4, Climbs, RankType DEF Moves
        <5>2. states[s] = NoState /\ to(r) = NoState
          BY <5>1, <4>2, <2>3, StartsLow DEF StateOf, Moves
        <5>3. Arrives(s, states[s])
          BY <5>2, <2>1, NoStateIsNone DEF Connected
        <5>4. QED
          BY <3>1, <5>2, <5>3, <2>2, <1>2 DEF Arrives
      <4>3. QED
        BY <4>1, <4>2
    <3>2. CASE o # s
      <4>1. states'[o] = states[o]
        BY <3>2, <2>2
      <4>2. \E u \in Transitions(o) : Moves(u) /\ to(u) = states[o]
        BY <4>1 DEF Connected, Arrives
      <4>3. QED
        BY <4>1, <4>2, <1>2
    <3>3. QED
      BY <3>1, <3>2
  <2>5. \/ from(r) = command(r).initial
        \/ \E u \in Transitions(s)' : Moves(u) /\ to(u) = from(r)
    <3>2. CASE states[s] = Unset
      BY <2>3, <3>2 DEF StateOf
    <3>3. CASE states[s] # Unset
      <4>1. from(r) = states[s] /\ Arrives(s, states[s])
        BY <2>3, <3>3, <2>1 DEF StateOf, Connected
      <4>2. QED
        BY <4>1, <1>2 DEF Arrives
    <3>4. QED
      BY <3>2, <3>3
  <2>6. \A t \in registered : subject(t) # "none" =>
          \/ from(t) = command(t).initial
          \/ \E u \in Transitions(SubjectOf(t))' : Moves(u) /\ to(u) = from(t)
    BY <1>2 DEF Connected, Arrives
  <2>7. \A t \in registered' : subject(t) # "none" =>
          \/ from(t) = command(t).initial
          \/ \E u \in Transitions(SubjectOf(t))' : Moves(u) /\ to(u) = from(t)
    BY <2>5, <2>6, <1>1
  <2>8. QED
    BY <2>4, <2>7 DEF Connected, Arrives
<1>5. QED
  BY <1>3, <1>4

LEMMA StandingInvariant == RegistrySpec => []Standing
<1>1. RegistryInit => Standing
  BY DEF RegistryInit, Standing, RegistryTypeOK, Connected, Unset
<1>2. Standing /\ [\E r \in Receipts : Register(r)]_registryVars => Standing'
  <2>1. ASSUME Standing, RegistryTypeOK', NEW r \in Receipts, Register(r) PROVE Standing'
    <3>1. registered' = registered \cup {r} /\ Supported(r, registered)
      BY <2>1 DEF Register, commitAdd, Valid
    <3>2. Grounded(r, registered)
      BY <3>1, SupportedIsGrounded
    <3>3. \A t \in registered' : Grounded(t, registered')
      BY <2>1, <3>1, <3>2, GroundedStays DEF Standing
    <3>4. Connected'
      BY <2>1, ConnectedStays DEF Standing
    <3>5. QED
      BY <2>1, <3>3, <3>4 DEF Standing
  <2>2. ASSUME Standing, NEW r \in Receipts, Register(r) PROVE RegistryTypeOK'
    <3>1. registered' \subseteq Receipts
      BY <2>2 DEF Register, commitAdd, Standing, RegistryTypeOK
    <3>2. subject(r) # "none" => to(r) \in Stages
      BY <2>2, Climbs DEF Register, Valid, Supported
    <3>3. QED
      BY <2>2, <3>1, <3>2 DEF Register, commitAdd, Standing, RegistryTypeOK, Stages
  <2>3. ASSUME Standing, UNCHANGED registryVars PROVE Standing'
    BY <2>3 DEF Standing, RegistryTypeOK, Connected, Arrives, Transitions, registryVars
  <2>4. QED
    BY <2>1, <2>2, <2>3
<1>3. QED
  BY <1>1, <1>2, PTL DEF RegistrySpec

(* Cells have rows.                                                        *)
LEMMA OneRow ==
  ASSUME NEW t \in Receipts, NEW u \in Receipts,
         command(t).key = "cell", command(u).key = "cell",
         subject(t) = "backend_cell", SubjectOf(u) = SubjectOf(t)
  PROVE  SameSubject(u, t)
<1>1. Record[t].command \in Commands /\ Record[u].command \in Commands
  BY RecordAssumption DEF RecordType
<1>2. command(u).cell = command(t).cell
  BY DEF SubjectOf
<1>3. QED
  BY <1>1, <1>2, CellAssumption DEF command, SameSubject, SameCell

(* The transition that brought the cell of t to where t leaves from, about *)
(* the same row and cell.                                                  *)
LEMMA Predecessor ==
  ASSUME Standing, NEW t \in registered, CellStep(t), from(t) # "eligible"
  PROVE  \E u \in registered : CellStep(u) /\ to(u) = from(t) /\ SameSubject(u, t)
<1>1. t \in Receipts /\ Grounded(t, registered)
  BY DEF Standing, RegistryTypeOK
<1>2. legalCellTransition(from(t), to(t)) /\ subject(t) = "backend_cell"
  BY <1>1 DEF Grounded, CellStep
<1>3. command(t).initial \in {"snapshot_planned", "eligible"}
  BY <1>1, RecordAssumption, CampaignAssumption DEF RecordType, CommandType, command
<1>4. from(t) # command(t).initial /\ from(t) # "not_applicable"
  BY <1>2, <1>3 DEF legalCellTransition
<1>5. PICK u \in Transitions(SubjectOf(t)) : to(u) = from(t)
  BY <1>2, <1>4 DEF Standing, Connected, Arrives
<1>6. /\ u \in registered /\ u \in Receipts /\ SubjectOf(u) = SubjectOf(t)
      /\ Grounded(u, registered)
  BY <1>5 DEF Transitions, Standing, RegistryTypeOK
<1>7. subject(u) = "backend_cell"
  BY <1>2, <1>6 DEF SubjectOf
<1>8. SameSubject(u, t)
  BY <1>1, <1>2, <1>6, <1>7, OneRow DEF Grounded
<1>9. QED
  BY <1>4, <1>5, <1>6, <1>7, <1>8 DEF CellStep

(* A kind that a cell's transition needs is evidenced for its row and cell.*)
LEMMA NeededIsEvidenced ==
  ASSUME Standing, NEW t \in registered, CellStep(t),
         NEW kind \in RequiredKinds(to(t)), kind \in ProofKinds
  PROVE  \E p \in registered : /\ p \in Record[t].proofs /\ output(p) = kind
                               /\ SameSubject(p, t)
                               /\ registeredSuccessfulExit(p, registered)
<1>1. Grounded(t, registered)
  BY DEF Standing
<1>2. PICK p \in Record[t].proofs : output(p) = kind
  BY <1>1 DEF Grounded
<1>3. p \in registered /\ sameProofContext(t, p)
  BY <1>1, <1>2 DEF Grounded, ProofsAdmissible
<1>4. Grounded(p, registered)
  BY <1>3 DEF Standing
<1>5. SameSubject(p, t)
  BY <1>3 DEF sameProofContext, SameSubject, SameCell
<1>6. QED
  BY <1>2, <1>3, <1>4, <1>5 DEF Grounded

LEMMA StandingSelects == Standing => SelectedStandsOnProofs
<1> SUFFICES ASSUME Standing, NEW t \in registered, to(t) = "selected"
             PROVE
      /\ \A kind \in {"object", "disassembly", "test", "race", "fuzz"} \cup TerminalProofKinds :
           Evidenced(t, kind)
      /\ \E stat \in registered :
           /\ output(stat) = "benchstat" /\ Record[stat].outcome = "pass"
           /\ SameSubject(stat, t)
           /\ \E old, new \in registered :
                /\ Record[stat].pair = <<old, new>>
                /\ output(old) = "incumbent-benchmark" /\ output(new) = "candidate-benchmark"
                /\ SameSubject(old, t) /\ SameSubject(new, t)
      /\ identityBound(registered)
  BY DEF SelectedStandsOnProofs
<1>1. /\ CellStep(t) /\ identityBound(registered)
      /\ qualificationOutcome(t, registered, "pass")
      /\ legalCellTransition(from(t), to(t)) /\ ProofsAdmissible(t, registered)
  BY DEF Standing, Grounded
<1>2. from(t) = "dispatch_candidate"
  BY <1>1 DEF legalCellTransition
<1>3. \A kind \in TerminalProofKinds : Evidenced(t, kind)
  <2> SUFFICES ASSUME NEW kind \in TerminalProofKinds PROVE Evidenced(t, kind)
    OBVIOUS
  <2>1. kind \in RequiredKinds(to(t)) /\ kind \in ProofKinds
    BY DEF RequiredKinds, TerminalProofKinds, ProofKinds
  <2>2. QED
    BY <1>1, <2>1, NeededIsEvidenced DEF Evidenced
(* The candidate stands on green gates, these on the gates' proofs.        *)
<1>4. PICK u \in registered : CellStep(u) /\ to(u) = "dispatch_candidate" /\ SameSubject(u, t)
  BY <1>1, <1>2, Predecessor
<1>5. PICK g \in Record[u].proofs :
        g \in registered /\ output(g) = "state-transition" /\ SameSubject(g, u)
  <2>1. "state-transition" \in RequiredKinds(to(u)) /\ "state-transition" \in ProofKinds
    BY <1>4 DEF RequiredKinds, ProofKinds
  <2>2. QED
    BY <1>4, <2>1, NeededIsEvidenced
<1>6. CellStep(g) /\ to(g) = "hard_gates_green"
  BY <1>4, <1>5 DEF Standing, Grounded, ProofsAdmissible, CellStep
<1>7. \A kind \in {"object", "disassembly", "test", "race", "fuzz"} : Evidenced(t, kind)
  <2> SUFFICES ASSUME NEW kind \in {"object", "disassembly", "test", "race", "fuzz"}
               PROVE  Evidenced(t, kind)
    OBVIOUS
  <2>1. kind \in RequiredKinds(to(g)) /\ kind \in ProofKinds
    BY <1>6 DEF RequiredKinds, ProofKinds
  <2>2. PICK p \in registered : /\ output(p) = kind /\ SameSubject(p, g)
                                /\ registeredSuccessfulExit(p, registered)
    BY <1>5, <1>6, <2>1, NeededIsEvidenced
  <2>3. SameSubject(p, t)
    BY <2>2, <1>4, <1>5 DEF SameSubject, SameCell
  <2>4. QED
    BY <2>2, <2>3 DEF Evidenced
<1>8. PICK old, new, stat \in Record[t].proofs :
        /\ output(old) = "incumbent-benchmark" /\ output(new) = "candidate-benchmark"
        /\ output(stat) = "benchstat" /\ Record[stat].pair = <<old, new>>
        /\ Record[stat].outcome = "pass"
  BY <1>1 DEF qualificationOutcome
<1>9. \A p \in {old, new, stat} : p \in registered /\ SameSubject(p, t)
  BY <1>1, <1>8 DEF ProofsAdmissible, sameProofContext, SameSubject, SameCell
<1>10. QED
  BY <1>1, <1>3, <1>7, <1>8, <1>9

(* No cell is selected for dispatch but on the whole of its evidence, in   *)
(* every campaign whose cells have one row each.                           *)
THEOREM SelectedStands == RegistrySpec => []SelectedStandsOnProofs
BY StandingInvariant, StandingSelects, PTL
-----------------------------------------------------------------------------
(* The verdict does not depend on the order *)

(* Records of outputs of their commands, no two of one output.             *)
Exact(R) ==
  /\ R \subseteq Receipts
  /\ \A q \in R : output(q) \in Outputs(Record[q].command)
  /\ \A q, p \in R :
       Record[q].command = Record[p].command /\ output(q) = output(p) => q = p

BenchmarkKinds == {"incumbent-benchmark", "candidate-benchmark"}

(* Where its row and cell has one batch, the only command that makes this  *)
(* kind for it.                                                            *)
LEMMA OneBenchmark ==
  ASSUME OneBatch, NEW R, Exact(R), NEW q \in R, NEW p \in R, SameSubject(q, p),
         output(q) \in BenchmarkKinds, output(p) = output(q)
  PROVE  q = p
<1> DEFINE c == Record[q].command
           d == Record[p].command
<1>1. c \in Commands /\ d \in Commands /\ q \in Receipts /\ p \in Receipts
  BY RecordAssumption DEF Exact, RecordType
<1>2. output(q) = Artifact(c) /\ output(p) = Artifact(d)
  BY DEF Exact, Outputs, Streams, BenchmarkKinds
<1>3. ASSUME NEW k \in Commands, Artifact(k) \in BenchmarkKinds
      PROVE  /\ Campaign[k].action = "go_benchmark"
             /\ Campaign[k].role = "old" <=> Artifact(k) = "incumbent-benchmark"
  BY <1>3 DEF Artifact, BenchmarkKinds, SourceActions, HostActions
<1>4. /\ Campaign[c].action = "go_benchmark" /\ Campaign[d].action = "go_benchmark"
      /\ Campaign[c].role = "old" <=> Campaign[d].role = "old"
  BY <1>1, <1>2, <1>3
<1>5. Campaign[c].row = Campaign[d].row /\ Campaign[c].cell = Campaign[d].cell
  BY DEF SameSubject, SameCell
<1>6. Benchmark(c) /\ Benchmark(d) /\ SameBatch(c, d)
  BY <1>1, <1>4, <1>5 DEF OneBatch, Benchmark, SameCell
<1>7. c = d
  BY <1>1, <1>4, <1>6, BenchmarkAssumption
<1> QED
  BY <1>7 DEF Exact

LEMMA BenchmarksStay ==
  ASSUME OneBatch, NEW R, NEW S, S \subseteq R, Exact(R), NEW r, benchmarkProofs(r, S)
  PROVE  benchmarkProofs(r, R)
<1> DEFINE of(kind, X) == {q \in X : output(q) = kind /\ SameSubject(q, r)}
<1>1. PICK old \in S, new \in S :
        /\ of("incumbent-benchmark", S) = {old} /\ of("candidate-benchmark", S) = {new}
        /\ registeredSuccessfulExit(old, S) /\ registeredSuccessfulExit(new, S)
        /\ Record[r].pair = <<old, new>>
  BY DEF benchmarkProofs
<1>2. ASSUME NEW kind \in BenchmarkKinds, NEW b, of(kind, S) = {b}
      PROVE  of(kind, R) = {b}
  <2>1. b \in S /\ b \in R /\ output(b) = kind /\ SameSubject(b, r)
    BY <1>2
  <2>2. ASSUME NEW q \in of(kind, R) PROVE q = b
    <3>1. SameSubject(q, b)
      BY <2>1, <2>2 DEF SameSubject, SameCell
    <3> QED
      BY <2>1, <2>2, <3>1, OneBenchmark
  <2> QED
    BY <2>1, <2>2
<1>3. of("incumbent-benchmark", R) = {old} /\ of("candidate-benchmark", R) = {new}
  BY <1>1, <1>2 DEF BenchmarkKinds
<1>4. registeredSuccessfulExit(old, R) /\ registeredSuccessfulExit(new, R)
  BY <1>1, ExitStays
<1> QED
  BY <1>1, <1>3, <1>4 DEF benchmarkProofs

LEMMA TransitionStays ==
  ASSUME NEW R, NEW S, S \subseteq R, NEW t, Transition(t, S)
  PROVE  Transition(t, R)
<1>1. ProofsAdmissible(t, R)
  BY DEF Transition, ProofsAdmissible
<1>2. Disposed(t, R)
  <2>1. \A o : qualificationOutcome(t, S, o) => qualificationOutcome(t, R, o)
    BY QualificationStays
  <2> QED
    BY <2>1 DEF Transition, Disposed
<1> QED
  BY <1>1, <1>2 DEF Transition

(* What supported a record when it was registered supports it among all    *)
(* the records there are in the end.                                       *)
LEMMA SupportStays ==
  ASSUME OneBatch, NEW R, NEW S, S \subseteq R, Exact(R), NEW r \in Receipts, Supported(r, S)
  PROVE  Supported(r, R)
<1>1. validateArtifactSemantics(r, R)
  <2>1. registeredSuccessfulExit(r, S) => registeredSuccessfulExit(r, R)
    BY ExitStays
  <2>2. identityBound(S) => identityBound(R)
    BY IdentityStays
  <2>3. benchmarkProofs(r, S) => benchmarkProofs(r, R)
    BY BenchmarksStay
  <2> QED
    BY <2>1, <2>2, <2>3 DEF Supported, validateArtifactSemantics
<1>2. validateState(r, R)
  <2>1. Transition(r, S) => Transition(r, R)
    BY TransitionStays
  <2>2. subject(r) \in {"none", "row", "backend_cell"}
    BY RecordAssumption DEF RecordType, subject
  <2> QED
    BY <2>1, <2>2 DEF Supported, validateState
<1> QED
  BY <1>1, <1>2 DEF Supported

(* What of the records of R a record calls for is in D.                    *)
Equipped(r, D, R) ==
  /\ output(r) \notin {"exit", "argv-env"} =>
       \A q \in R : output(q) \in {"exit", "argv-env"} => q \in D
  /\ output(r) \notin {"exit", "argv-env", "identity"} =>
       \A q \in R : output(q) = "identity" => q \in D
  /\ output(r) = "benchstat" => \A q \in R : output(q) \in BenchmarkKinds => q \in D
  /\ subject(r) # "none" => Record[r].proofs \subseteq D

LEMMA ExitFound ==
  ASSUME NEW R, NEW D, \A q \in R : output(q) \in {"exit", "argv-env"} => q \in D,
         NEW r, registeredSuccessfulExit(r, R)
  PROVE  registeredSuccessfulExit(r, D)
BY DEF registeredSuccessfulExit, registeredCommandOutput

(* A record supported by all is supported by part of them that has what it *)
(* calls for.                                                              *)
LEMMA SupportSuffices ==
  ASSUME NEW R, NEW D, D \subseteq R, NEW r \in Receipts, Supported(r, R), Equipped(r, D, R)
  PROVE  Supported(r, D)
<1>1. output(r) \notin {"exit", "argv-env"} =>
        \A q : registeredSuccessfulExit(q, R) => registeredSuccessfulExit(q, D)
  BY ExitFound DEF Equipped
<1>2. validateArtifactSemantics(r, R) /\ validateState(r, R)
  BY DEF Supported
<1>3. ASSUME output(r) \notin {"exit", "argv-env", "identity"} PROVE identityBound(D)
  <2>1. identityBound(R)
    BY <1>2, <1>3 DEF validateArtifactSemantics
  <2>2. \A q \in R : output(q) = "identity" => q \in D
    BY <1>3 DEF Equipped
  <2>3. \A q : registeredSuccessfulExit(q, R) => registeredSuccessfulExit(q, D)
    BY <1>1, <1>3
  <2> QED
    BY <2>1, <2>2, <2>3 DEF identityBound
<1>4. ASSUME output(r) = "benchstat" PROVE benchmarkProofs(r, D)
  <2> DEFINE of(kind, X) == {q \in X : output(q) = kind /\ SameSubject(q, r)}
  <2>1. PICK old \in R, new \in R :
          /\ of("incumbent-benchmark", R) = {old} /\ of("candidate-benchmark", R) = {new}
          /\ registeredSuccessfulExit(old, R) /\ registeredSuccessfulExit(new, R)
          /\ Record[r].pair = <<old, new>>
    BY <1>2, <1>4 DEF validateArtifactSemantics, benchmarkProofs
  <2>2. \A kind \in BenchmarkKinds : of(kind, D) = of(kind, R)
    BY <1>4 DEF Equipped
  <2>3. of("incumbent-benchmark", D) = {old} /\ of("candidate-benchmark", D) = {new}
    BY <2>1, <2>2 DEF BenchmarkKinds
  <2>4. old \in D /\ new \in D
    BY <2>3
  <2>5. registeredSuccessfulExit(old, D) /\ registeredSuccessfulExit(new, D)
    BY <1>1, <1>4, <2>1
  <2> QED
    BY <2>1, <2>3, <2>4, <2>5 DEF benchmarkProofs
<1>5. validateArtifactSemantics(r, D)
  BY <1>1, <1>2, <1>3, <1>4 DEF validateArtifactSemantics
<1>6. validateState(r, D)
  <2>1. ASSUME Transition(r, R), subject(r) # "none" PROVE Transition(r, D)
    <3>1. output(r) = "state-transition" /\ Record[r].proofs \subseteq D
      BY <2>1 DEF Transition, Equipped
    <3>2. ProofsAdmissible(r, D)
      BY <2>1, <3>1 DEF Transition, ProofsAdmissible
    <3>3. \A o : qualificationOutcome(r, R, o) => qualificationOutcome(r, D, o)
      BY <1>1, <3>1 DEF qualificationOutcome
    <3>4. Disposed(r, D)
      BY <2>1, <3>3 DEF Transition, Disposed
    <3> QED
      BY <2>1, <3>2, <3>4 DEF Transition
  <2>2. subject(r) \in {"none", "row", "backend_cell"}
    BY RecordAssumption DEF RecordType, subject
  <2> QED
    BY <1>2, <2>1, <2>2 DEF validateState
<1> QED
  BY <1>5, <1>6 DEF Supported

-----------------------------------------------------------------------------
(* The command that reads a directory *)

(* The first n records are registered or would be refused now.             *)
Refused(n) == \A i \in 1..n : i \in done \/ ~ Valid(files[i])

Settling ==
  /\ TypeOK
  /\ Cardinality(done) >= IF progress THEN pass + 1 ELSE pass
  /\ pc = "pass"  => progress \/ Refused(at - 1)
  /\ pc = "sweep" => Refused(Len(files))

-----------------------------------------------------------------------------

LEMMA FilesAreReceipts ==
  ASSUME files \in Listings, NEW i \in 1..Len(files)
  PROVE  Len(files) \in Nat /\ DOMAIN files = 1..Len(files) /\ files[i] \in Receipts
BY ListingsAssumption

LEMMA FilesHaveLength ==
  ASSUME files \in Listings
  PROVE  Len(files) \in Nat /\ DOMAIN files = 1..Len(files)
BY ListingsAssumption

LEMMA ValidSame ==
  ASSUME UNCHANGED registryVars, NEW r, Valid(r)' PROVE Valid(r)
BY DEF Valid, validateAdd, StateOf, registryVars

(* A registration leaves the registry well typed.                          *)
LEMMA RegisterType ==
  ASSUME RegistryTypeOK, NEW r \in Receipts, Register(r)
  PROVE  RegistryTypeOK'
<1>1. registered' \subseteq Receipts
  BY DEF Register, commitAdd, RegistryTypeOK
<1>2. subject(r) # "none" => to(r) \in Stages
  BY StagesOfRecords
<1>3. QED
  BY <1>1, <1>2 DEF Register, commitAdd, RegistryTypeOK, Stages

LEMMA CountedSet ==
  ASSUME files \in Listings, NEW D \in SUBSET DOMAIN files
  PROVE  /\ IsFiniteSet(D) /\ Cardinality(D) \in Nat
         /\ Cardinality(D) >= Len(files) => D = DOMAIN files
         /\ \A i \in DOMAIN files \ D : Cardinality(D \cup {i}) = Cardinality(D) + 1
<1>1. IsFiniteSet(DOMAIN files) /\ Cardinality(DOMAIN files) = Len(files)
  BY FilesHaveLength, FS_Interval
<1>2. IsFiniteSet(D) /\ Cardinality(D) <= Len(files)
      /\ (Cardinality(D) = Len(files) => D = DOMAIN files)
  BY <1>1, FS_Subset
<1>3. Cardinality(D) \in Nat
  BY <1>2, FS_CardinalityType
<1>4. \A i \in DOMAIN files \ D : Cardinality(D \cup {i}) = Cardinality(D) + 1
  BY <1>2, FS_AddElement
<1>5. QED
  BY <1>2, <1>3, <1>4, FilesHaveLength

LEMMA SettlingInit == Init => Settling
<1> SUFFICES ASSUME Init PROVE Settling
  OBVIOUS
<1>1. Len(files) \in Nat
  BY FilesHaveLength DEF Init
<1>2. RegistryTypeOK
  BY DEF Init, RegistryInit, RegistryTypeOK
<1>3. TypeOK
  <2>1. registered = {files[i] : i \in done}
    BY DEF Init, RegistryInit
  <2>2. pass \in 0..Len(files) /\ at \in 1..(Len(files) + 1)
    BY <1>1 DEF Init
  <2>3. QED
    BY <1>2, <2>1, <2>2 DEF Init, TypeOK
<1>4. Cardinality(done) = 0
  BY FS_EmptySet DEF Init
<1>5. Refused(at - 1)
  BY DEF Init, Refused
<1>6. QED
  BY <1>3, <1>4, <1>5 DEF Init, Settling

(* Accepting a record: the registry and done grow together.                *)
LEMMA AcceptSettles == ASSUME Settling, Accept PROVE Settling'
<1>1. /\ at \in 1..Len(files) /\ at \notin done /\ files \in Listings
      /\ done \subseteq DOMAIN files /\ Register(files[at])
      /\ registered = {files[i] : i \in done} /\ RegistryTypeOK
      /\ files' = files /\ pass' = pass /\ pc' = pc /\ pc = "pass"
      /\ done' = done \cup {at} /\ progress' = TRUE /\ at' = at + 1
      /\ pass \in 0..Len(files) /\ Cardinality(done) >= pass
  <2>1. Len(files) \in Nat /\ at \in 1..(Len(files) + 1) /\ pass \in Nat
    BY FilesHaveLength DEF Settling, TypeOK
  <2>2. Cardinality(done) \in Nat
    BY CountedSet DEF Settling, TypeOK
  <2>3. Cardinality(done) >= pass
    BY <2>1, <2>2 DEF Settling
  <2>4. QED
    BY <2>1, <2>3 DEF Settling, TypeOK, Accept
<1>2. Len(files) \in Nat /\ DOMAIN files = 1..Len(files) /\ files[at] \in Receipts
  BY <1>1, FilesAreReceipts
<1>3. RegistryTypeOK'
  BY <1>1, <1>2, RegisterType
<1>4. registered' = {files'[i] : i \in done'}
  <2>1. registered' = registered \cup {files[at]}
    BY <1>1 DEF Register, commitAdd
  <2>2. QED
    BY <1>1, <2>1
<1>5. TypeOK'
  BY <1>1, <1>2, <1>3, <1>4 DEF TypeOK
<1>6. Cardinality(done) \in Nat /\ Cardinality(done') = Cardinality(done) + 1
  BY <1>1, <1>2, CountedSet
<1>7. Cardinality(done)' >= pass' + 1
  BY <1>1, <1>6
<1>8. QED
  BY <1>1, <1>5, <1>7 DEF Settling

(* A step that registers nothing keeps what was refused refused.           *)
LEMMA RefusedStays ==
  ASSUME UNCHANGED <<registered, states, files, done>>, NEW n, Refused(n)
  PROVE  \A i \in 1..n : i \in done' \/ ~ Valid(files[i])'
<1> SUFFICES ASSUME NEW i \in 1..n, i \notin done', Valid(files[i])' PROVE FALSE
  OBVIOUS
<1>1. Valid(files[i])
  BY ValidSame DEF registryVars
<1>2. QED
  BY <1>1 DEF Refused
(* The other steps of the passes register nothing.                         *)
LEMMA PassSettles == ASSUME Settling, Empty \/ Skip \/ Refuse PROVE Settling'
<1>1. Len(files) \in Nat /\ at \in 1..(Len(files) + 1)
  BY FilesHaveLength DEF Settling, TypeOK
<1>2. /\ UNCHANGED <<registered, states, files, done, pass, progress>>
      /\ pc = "pass"
  BY DEF Empty, Skip, Refuse
<1>3. RegistryTypeOK'
  BY <1>2 DEF Settling, TypeOK, RegistryTypeOK
<1>4. TypeOK'
  BY <1>1, <1>2, <1>3 DEF Settling, TypeOK, Ended, Empty, Skip, Refuse
<1>5. progress \/ \A i \in 1..(at - 1) : i \in done' \/ ~ Valid(files[i])'
  BY <1>2, RefusedStays DEF Settling
<1>6. CASE Empty
  BY <1>2, <1>4, <1>6 DEF Settling, Empty
<1>7. ASSUME Skip \/ Refuse PROVE progress' \/ Refused(at - 1)'
  <2>1. at' = at + 1 /\ at \in 1..Len(files)
    BY <1>1, <1>7 DEF Skip, Refuse
  <2>2. ASSUME NEW i \in {at} PROVE i \in done' \/ ~ Valid(files[i])'
    <3>1. i = at
      OBVIOUS
    <3>2. CASE Skip
      BY <3>1, <3>2, <1>2 DEF Skip
    <3>3. CASE Refuse
      <4>1. ~ Valid(files[i])
        BY <3>1, <3>3 DEF Refuse
      <4>2. QED
        BY <4>1, <1>2, ValidSame DEF registryVars
    <3>4. QED
      BY <1>7, <3>2, <3>3
  <2>3. \A i \in 1..(at' - 1) : i \in 1..(at - 1) \/ i = at
    BY <2>1, <1>1
  <2>4. QED
    BY <2>2, <2>3, <1>2, <1>5 DEF Refused
<1>8. CASE Skip \/ Refuse
  BY <1>2, <1>4, <1>7, <1>8 DEF Settling, Skip, Refuse
<1>9. QED
  BY <1>6, <1>8

(* Between passes.  When the last pass registered something there was a    *)
(* registration for each record.                                           *)
LEMMA TurnSettles == ASSUME Settling, NextPass \/ LastPass PROVE Settling'
<1>1. /\ Len(files) \in Nat /\ DOMAIN files = 1..Len(files) /\ pass \in 0..Len(files)
      /\ at \in 1..(Len(files) + 1) /\ at > Len(files) /\ pc = "pass"
      /\ UNCHANGED <<registered, states, files, done>>
  BY FilesHaveLength DEF Settling, TypeOK, NextPass, LastPass, EndOfPass
<1>2. RegistryTypeOK'
  BY <1>1 DEF Settling, TypeOK, RegistryTypeOK
<1>3. /\ Cardinality(done) \in Nat
      /\ Cardinality(done) >= Len(files) => done = DOMAIN files
  BY CountedSet DEF Settling, TypeOK
<1>4. CASE NextPass
  <2>1. progress /\ pass' = pass + 1 /\ at' = 1 /\ progress' = FALSE /\ pc' = pc
        /\ pass + 1 < Len(files)
    BY <1>4 DEF NextPass
  <2>2. TypeOK'
    <3>1. pass' \in 0..Len(files') /\ at' \in 1..(Len(files') + 1)
      BY <1>1, <2>1
    <3>2. registered' = {files'[i] : i \in done'}
      BY <1>1 DEF Settling, TypeOK
    <3>3. QED
      BY <1>1, <1>2, <2>1, <3>1, <3>2 DEF Settling, TypeOK
  <2>3. Refused(at - 1)'
    BY <2>1 DEF Refused
  <2>4. QED
    BY <1>1, <2>1, <2>2, <2>3 DEF Settling
<1>5. CASE LastPass
  <2>1. pc' = "sweep" /\ at' = 1 /\ UNCHANGED <<pass, progress>>
    BY <1>5 DEF LastPass
  <2>2. TypeOK'
    BY <1>1, <1>2, <2>1 DEF Settling, TypeOK
  <2>3. Refused(Len(files))
    <3>1. CASE progress
      <4>1. pass + 1 >= Len(files)
        BY <1>1, <1>5, <3>1 DEF LastPass
      <4>2. Cardinality(done) >= pass + 1
        BY <3>1 DEF Settling
      <4>3. done = 1..Len(files)
        BY <1>1, <1>3, <4>1, <4>2
      <4>4. QED
        BY <4>3 DEF Refused
    <3>2. CASE ~ progress
      <4>1. Refused(at - 1) /\ at - 1 = Len(files)
        BY <1>1, <3>2 DEF Settling
      <4>2. QED
        BY <4>1
    <3>3. QED
      BY <3>1, <3>2
  <2>4. Refused(Len(files))'
    BY <1>1, <2>3, RefusedStays DEF Refused
  <2>5. QED
    BY <1>1, <2>1, <2>2, <2>4 DEF Settling
<1>6. QED
  BY <1>4, <1>5

(* What the sweep presents is refused again.                               *)
LEMMA SweepSettles == ASSUME Settling, Sweep \/ Gate PROVE Settling'
<1>1. /\ Len(files) \in Nat /\ at \in 1..(Len(files) + 1) /\ pc = "sweep"
      /\ UNCHANGED <<files, done, pass, progress>> /\ Refused(Len(files))
  BY FilesHaveLength DEF Settling, TypeOK, Sweep, Gate
<1>2. UNCHANGED registryVars
  <2>1. CASE Gate
    BY <2>1 DEF Gate, registryVars
  <2>2. CASE Sweep
    <3>1. at \in 1..Len(files)
      BY <1>1, <2>2 DEF Sweep
    <3>2. ~ (at \notin done /\ Valid(files[at]))
      BY <3>1, <1>1 DEF Refused
    <3>3. QED
      BY <3>2, <2>2 DEF Sweep
  <2>3. QED
    BY <2>1, <2>2
<1>3. RegistryTypeOK'
  BY <1>2 DEF Settling, TypeOK, RegistryTypeOK, registryVars
<1>4. at' \in 1..(Len(files) + 1) /\ pc' \in {"sweep"} \cup Ended
  BY <1>1 DEF Sweep, Gate, Ended
<1>5. TypeOK'
  BY <1>1, <1>2, <1>3, <1>4 DEF Settling, TypeOK, registryVars
<1>6. Refused(Len(files))'
  BY <1>1, <1>2, RefusedStays DEF Refused, registryVars
<1>7. pc' # "pass"
  BY <1>4 DEF Ended
<1>8. QED
  BY <1>1, <1>5, <1>6, <1>7 DEF Settling

LEMMA StutterSettles == ASSUME Settling, UNCHANGED vars PROVE Settling'
<1>1. UNCHANGED <<registered, states, files, done>> /\ UNCHANGED <<pass, at, progress, pc>>
  BY DEF vars
<1>2. TypeOK'
  BY <1>1 DEF Settling, TypeOK, RegistryTypeOK
<1>3. pc = "pass" => progress \/ Refused(at - 1)'
  BY <1>1, RefusedStays DEF Settling, Refused
<1>4. pc = "sweep" => Refused(Len(files))'
  BY <1>1, RefusedStays DEF Settling, Refused
<1>5. QED
  BY <1>1, <1>2, <1>3, <1>4 DEF Settling

LEMMA SettlingInvariant == Spec => []Settling
<1>1. Settling /\ [Next]_vars => Settling'
  BY AcceptSettles, PassSettles, TurnSettles, SweepSettles, StutterSettles DEF Next
<1>2. QED
  BY SettlingInit, <1>1, PTL DEF Spec

(* For any listing of any records, the loops stay in their bounds, a row   *)
(* is in one of its states or, as the row table answers, in none, and the  *)
(* registry ends with what the passes accepted: the sweep, which would     *)
(* still register, never does.                                             *)
THEOREM IndexTypeCorrect == Spec => []TypeOK
BY SettlingInvariant, PTL DEF Settling

(* The command is a run of the registry: each of its steps presents one    *)
(* record or leaves the registry alone.                                    *)
THEOREM Implements == Spec => RegistrySpec
<1>1. Init => RegistryInit
  BY DEF Init
<1>2. Settling /\ [Next]_vars => [\E r \in Receipts : Register(r)]_registryVars
  <2> SUFFICES ASSUME Settling, Next, ~ UNCHANGED registryVars
               PROVE  \E r \in Receipts : Register(r)
    BY DEF vars, registryVars
  <2>1. CASE Accept
    <3>1. at \in 1..Len(files) /\ files \in Listings
      BY <2>1, FilesHaveLength DEF Accept, Settling, TypeOK
    <3>2. QED
      BY <2>1, <3>1, FilesAreReceipts DEF Accept
  <2>2. CASE Sweep
    <3>1. at \in 1..Len(files) /\ files \in Listings
      BY <2>2, FilesHaveLength DEF Sweep, Settling, TypeOK
    <3>2. Register(files[at])
      BY <2>2 DEF Sweep, Register
    <3>3. QED
      BY <3>1, <3>2, FilesAreReceipts
  <2>3. QED
    BY <2>1, <2>2 DEF Next, Empty, Skip, Refuse, NextPass, LastPass, Gate, registryVars
<1>3. QED
  BY <1>1, <1>2, SettlingInvariant, PTL DEF Spec, RegistrySpec

(* In whatever order a directory lists its records, each subject gets one  *)
(* history, which ends where the registry says the subject is.             *)
THEOREM IndexUnbranched == Spec => []UnbranchedHistory
BY Implements, Unbranched, PTL

(* And no cell is selected without its evidence.                           *)
THEOREM IndexSelectedStands == Spec => []SelectedStandsOnProofs
BY Implements, SelectedStands, PTL

-----------------------------------------------------------------------------
(* The command follows the life of rows and cells *)

RowNames  == {Campaign[c].row : c \in Commands}
CellNames == {Campaign[c].cell : c \in Commands}
RowStages  == [r \in RowNames |-> StageOf(<<"row", r>>, "snapshot_planned")]
CellStages == [b \in CellNames |-> StageOf(<<"backend_cell", b>>, "eligible")]
Verdict == CASE pc = "ok" -> "accepted" [] pc = "failed" -> "refused" [] OTHER -> "open"

(* Before its first transition a subject's command gives it the first      *)
(* stage of its kind, or no transition is legal but to no stage.           *)
LEMMA RegisteredMoves ==
  ASSUME Standing, NEW r \in Receipts, Register(r), subject(r) # "none"
  PROVE  \/ /\ subject(r) = "row"
            /\ to(r) \in Lifecycle!AfterRow(StageOf(SubjectOf(r), "snapshot_planned"))
         \/ subject(r) = "row" /\ states[SubjectOf(r)] = NoState /\ to(r) = NoState
         \/ /\ subject(r) = "backend_cell"
            /\ to(r) \in Lifecycle!AfterCell(StageOf(SubjectOf(r), "eligible"))
<1>1. /\ validateState(r, registered) /\ from(r) = StateOf(r)
      /\ subject(r) \in {"row", "backend_cell"}
      /\ command(r).initial \in {"snapshot_planned", "eligible"}
  BY RecordAssumption, CampaignAssumption
     DEF Register, Valid, Supported, validateAdd, RecordType, CommandType, subject, command
<1>2. NoState \notin States /\ NoState # Unset /\ Lifecycle!NoStage = NoState
  BY NoStateIsNone DEF NoState, Lifecycle!NoStage
<1>3. CASE subject(r) = "row"
  <2> DEFINE s == SubjectOf(r)
  <2>1. legalRowTransition(from(r), to(r))
    BY <1>1, <1>3 DEF validateState, Transition
  <2>2. CASE states[s] = Unset
    BY <1>1, <1>2, <1>3, <2>1, <2>2
       DEF StageOf, StateOf, legalRowTransition, RowSuccessor, Lifecycle!AfterRow
  <2>3. CASE states[s] # Unset
    (* The transition that brought the row there is the table's too.         *)
    <3>1. PICK u \in Transitions(s) : Moves(u) /\ to(u) = states[s]
      BY <2>3, SubjectsOfTransitions DEF Standing, Connected, Arrives
    <3>2. u \in registered /\ subject(u) = "row"
      BY <3>1, <1>3 DEF Transitions, SubjectOf
    <3>3. legalRowTransition(from(u), to(u))
      BY <3>2 DEF Standing, Grounded
    <3>4. states[s] \in {"scalar_private", "scalar_green", "family_published", "complete",
                         NoState}
      BY <3>1, <3>3 DEF legalRowTransition, RowSuccessor
    <3>5. from(r) = states[s] /\ StageOf(s, "snapshot_planned") = states[s]
      BY <1>1, <2>3 DEF StateOf, StageOf
    <3>6. QED
      BY <1>2, <1>3, <2>1, <3>4, <3>5
         DEF legalRowTransition, RowSuccessor, Lifecycle!AfterRow, States, RowStates
  <2>4. QED
    BY <2>2, <2>3
<1>4. CASE subject(r) = "backend_cell"
  <2>1. legalCellTransition(from(r), to(r))
    BY <1>1, <1>4 DEF validateState, Transition, NotApplicable, legalCellTransition
  <2>2. StageOf(SubjectOf(r), "eligible") = from(r)
    BY <1>1, <2>1 DEF StageOf, StateOf, legalCellTransition
  <2>3. QED
    BY <1>4, <2>1, <2>2 DEF legalCellTransition, Lifecycle!AfterCell
<1>5. QED
  BY <1>1, <1>3, <1>4

(* Registering a record moves the stage of its subject and no other.       *)
LEMMA RegisterAdvances ==
  ASSUME RegistryTypeOK, Standing, NEW r \in Receipts, Register(r), Verdict = "open", Verdict' = "open"
  PROVE  Lifecycle!AdvanceRow \/ Lifecycle!AdvanceCell \/ UNCHANGED <<RowStages, CellStages, Verdict>>
<1>1. CASE subject(r) = "none"
  <2>1. states' = states
    BY <1>1 DEF Register, commitAdd
  <2>2. QED
    BY <2>1 DEF RowStages, CellStages, StageOf
<1>2. CASE subject(r) # "none"
  <2>1. Record[r].command \in Commands
    BY RecordAssumption DEF RecordType
  <2>2. /\ SubjectOf(r) \in Subjects
        /\ states' = [states EXCEPT ![SubjectOf(r)] = to(r)]
        /\ to(r) # Unset
    <3>1. to(r) \in Stages
      BY StagesOfRecords
    <3>2. QED
      BY <1>2, <3>1, SubjectsOfTransitions, UnsetIsNoState DEF Register, commitAdd
  <2>3. /\ states'[SubjectOf(r)] = to(r)
        /\ \A o : o \in Subjects /\ o # SubjectOf(r) => states'[o] = states[o]
    BY <2>2 DEF RegistryTypeOK
  <2>4. ASSUME NEW n \in RowNames PROVE <<"row", n>> \in Subjects
    BY <2>4 DEF RowNames, Subjects
  <2>5. ASSUME NEW n \in CellNames PROVE <<"backend_cell", n>> \in Subjects
    BY <2>5 DEF CellNames, Subjects
  <2>6. CASE /\ subject(r) = "row"
             /\ to(r) \in Lifecycle!AfterRow(StageOf(SubjectOf(r), "snapshot_planned"))
    <3> DEFINE n == command(r).row
    <3>1. n \in RowNames /\ SubjectOf(r) = <<"row", n>>
      BY <2>1, <2>6 DEF RowNames, command, SubjectOf
    <3>2. RowStages[n] = StageOf(SubjectOf(r), "snapshot_planned") /\ RowStages'[n] = to(r)
      BY <3>1, <2>2, <2>3 DEF RowStages, StageOf
    <3>3. RowStages' = [RowStages EXCEPT ![n] = to(r)]
      <4>1. ASSUME NEW m \in RowNames, m # n PROVE RowStages'[m] = RowStages[m]
        BY <4>1, <3>1, <2>3, <2>4 DEF RowStages, StageOf
      <4>2. QED
        BY <3>1, <3>2, <4>1 DEF RowStages
    <3>4. CellStages' = CellStages
      <4>1. ASSUME NEW m \in CellNames PROVE states'[<<"backend_cell", m>>] = states[<<"backend_cell", m>>]
        BY <4>1, <3>1, <2>3, <2>5
      <4>2. QED
        BY <4>1 DEF CellStages, StageOf
    <3>5. QED
      BY <3>1, <3>2, <3>3, <3>4, <2>6
         DEF Lifecycle!AdvanceRow, RowStages, CellStages, RowNames, CellNames, Verdict
  <2>7. CASE /\ subject(r) = "backend_cell"
             /\ to(r) \in Lifecycle!AfterCell(StageOf(SubjectOf(r), "eligible"))
    <3> DEFINE n == command(r).cell
    <3>1. n \in CellNames /\ SubjectOf(r) = <<"backend_cell", n>>
      BY <2>1, <2>7 DEF CellNames, command, SubjectOf
    <3>2. CellStages[n] = StageOf(SubjectOf(r), "eligible") /\ CellStages'[n] = to(r)
      BY <3>1, <2>2, <2>3 DEF CellStages, StageOf
    <3>3. CellStages' = [CellStages EXCEPT ![n] = to(r)]
      <4>1. ASSUME NEW m \in CellNames, m # n PROVE CellStages'[m] = CellStages[m]
        BY <4>1, <3>1, <2>3, <2>5 DEF CellStages, StageOf
      <4>2. QED
        BY <3>1, <3>2, <4>1 DEF CellStages
    <3>4. RowStages' = RowStages
      <4>1. ASSUME NEW m \in RowNames PROVE states'[<<"row", m>>] = states[<<"row", m>>]
        BY <4>1, <3>1, <2>3, <2>4
      <4>2. QED
        BY <4>1 DEF RowStages, StageOf
    <3>5. QED
      BY <3>1, <3>2, <3>3, <3>4, <2>7
         DEF Lifecycle!AdvanceCell, RowStages, CellStages, RowNames, CellNames, Verdict
  <2>8. CASE states[SubjectOf(r)] = NoState /\ to(r) = NoState
    <3>1. states' = states
      BY <2>2, <2>8 DEF RegistryTypeOK
    <3>2. QED
      BY <3>1 DEF RowStages, CellStages, StageOf
  <2>9. QED
    BY <1>2, <2>6, <2>7, <2>8, RegisteredMoves
<1>3. QED
  BY <1>1, <1>2

LEMMA StepFollows ==
  ASSUME Settling, Standing, Next
  PROVE  Lifecycle!Next \/ UNCHANGED <<RowStages, CellStages, Verdict>>
<1>1. RegistryTypeOK /\ pc \in {"pass", "sweep"} \cup Ended
  BY DEF Settling, TypeOK
<1>2. CASE Accept
  <2>1. at \in 1..Len(files) /\ files \in Listings
    BY <1>2, FilesHaveLength DEF Accept, Settling, TypeOK
  <2>2. files[at] \in Receipts /\ Register(files[at])
    BY <1>2, <2>1, FilesAreReceipts DEF Accept
  <2>3. Verdict = "open" /\ Verdict' = "open"
    BY <1>2 DEF Accept, Verdict
  <2>4. QED
    BY <1>1, <2>2, <2>3, RegisterAdvances DEF Lifecycle!Next
<1>3. CASE Sweep
  <2>1. at \in 1..Len(files) /\ Refused(Len(files)) /\ pc = "sweep"
    BY <1>3, FilesHaveLength DEF Sweep, Settling, TypeOK
  <2>2. ~ (at \notin done /\ Valid(files[at]))
    BY <2>1 DEF Refused
  <2>3. UNCHANGED <<registered, states>> /\ pc' \in {"sweep", "failed"}
    BY <1>3, <2>1, <2>2 DEF Sweep, registryVars
  <2>4. UNCHANGED <<RowStages, CellStages>>
    BY <2>3 DEF RowStages, CellStages, StageOf
  <2>5. Verdict = "open" /\ Verdict' \in {"open", "refused"}
    BY <2>1, <2>3 DEF Verdict
  <2>6. QED
    BY <2>4, <2>5 DEF Lifecycle!Next, Lifecycle!Decide, RowStages, CellStages, Verdict,
                      RowNames, CellNames
<1>4. CASE Empty \/ Gate
  <2>1. UNCHANGED <<registered, states>> /\ pc \in {"pass", "sweep"} /\ pc' \in {"ok", "failed"}
    BY <1>4 DEF Empty, Gate
  <2>2. UNCHANGED <<RowStages, CellStages>>
    BY <2>1 DEF RowStages, CellStages, StageOf
  <2>3. Verdict = "open" /\ Verdict' \in {"accepted", "refused"}
    BY <2>1 DEF Verdict
  <2>4. QED
    BY <2>2, <2>3 DEF Lifecycle!Next, Lifecycle!Decide, RowStages, CellStages, Verdict,
                      RowNames, CellNames
<1>5. CASE Skip \/ Refuse \/ NextPass \/ LastPass
  <2>1. UNCHANGED <<registered, states>> /\ pc = "pass" /\ pc' \in {"pass", "sweep"}
    BY <1>5 DEF Skip, Refuse, NextPass, LastPass, EndOfPass
  <2>2. Verdict = "open" /\ Verdict' = "open"
    BY <2>1 DEF Verdict
  <2>3. QED
    BY <2>1, <2>2 DEF RowStages, CellStages, StageOf
<1>6. QED
  BY <1>2, <1>3, <1>4, <1>5 DEF Next

(* For any campaign and any listing, the command is a life of rows and     *)
(* cells: stages advance one by one along the tables of legal transitions, *)
(* nothing moves twice or back, a row loses its stage before its first     *)
(* step or after its last and never gets one again, and nothing moves once *)
(* there is a verdict.                                                     *)
THEOREM LifecycleFollowed == Spec => Lifecycle!Moves
<1>1. Init => Lifecycle!Init
  <2> SUFFICES ASSUME Init PROVE Lifecycle!Init
    OBVIOUS
  <2>1. states = [s \in Subjects |-> Unset] /\ pc = "pass"
    BY DEF Init, RegistryInit
  <2>2. RowStages = [r \in RowNames |-> "snapshot_planned"]
    BY <2>1 DEF RowStages, RowNames, StageOf, Subjects
  <2>3. CellStages = [b \in CellNames |-> "eligible"]
    BY <2>1 DEF CellStages, CellNames, StageOf, Subjects
  <2>4. Verdict = "open"
    BY <2>1 DEF Verdict
  <2>5. QED
    BY <2>2, <2>3, <2>4 DEF Lifecycle!Init, RowStages, CellStages, RowNames, CellNames, Verdict
<1>2. Settling /\ Standing /\ [Next]_vars => [Lifecycle!Next]_(Lifecycle!vars)
  <2> SUFFICES ASSUME Settling, Standing, [Next]_vars PROVE [Lifecycle!Next]_(Lifecycle!vars)
    OBVIOUS
  <2>1. Lifecycle!vars = <<RowStages, CellStages, Verdict>>
    BY DEF Lifecycle!vars, RowStages, CellStages, RowNames, CellNames, Verdict
  <2>2. CASE Next
    <3>1. Lifecycle!Next \/ UNCHANGED <<RowStages, CellStages, Verdict>>
      BY <2>2, StepFollows
    <3>2. QED
      BY <3>1 DEF Lifecycle!vars, RowStages, CellStages, RowNames, CellNames, Verdict
  <2>3. CASE UNCHANGED vars
    <3>1. UNCHANGED <<RowStages, CellStages, Verdict>>
      BY <2>3 DEF vars, RowStages, CellStages, Verdict, StageOf
    <3>2. QED
      BY <3>1 DEF Lifecycle!vars, RowStages, CellStages, RowNames, CellNames, Verdict
  <2>4. QED
    BY <2>2, <2>3
<1>3. Spec => []Standing
  BY Implements, StandingInvariant, PTL
<1>4. QED
  BY <1>1, <1>2, <1>3, SettlingInvariant, PTL DEF Spec, Lifecycle!Moves
-----------------------------------------------------------------------------
(* The verdict is that of the set *)

Listed == {files[i] : i \in DOMAIN files}
Moving == {r \in Listed : subject(r) # "none"}
Steps  == {t \in Moving : Moves(t)}

(* No output was registered twice, and each record was supported by some   *)
(* of those that are registered.                                           *)
Accounted ==
  /\ \A i, j \in done :
       /\ Record[files[i]].command = Record[files[j]].command
       /\ output(files[i]) = output(files[j])
       => i = j
  /\ \A r \in registered : \E S \in SUBSET registered : Supported(r, S)

(* The sweep goes past registered records only, and what was decided is    *)
(* what the set of records deserves.                                       *)
Deciding ==
  /\ Settling /\ Accounted /\ Standing /\ UnbranchedHistory
  /\ pc = "sweep" => files # << >> /\ \A i \in 1..(at - 1) : i \in done
  /\ VerdictOfTheSet

LEMMA AcceptAccounts ==
  ASSUME Settling, Accounted, Accept
  PROVE  Accounted'
<1>1. /\ at \in 1..Len(files) /\ files \in Listings /\ done \subseteq DOMAIN files
      /\ registered = {files[i] : i \in done} /\ files' = files /\ done' = done \cup {at}
      /\ Valid(files[at]) /\ registered' = registered \cup {files[at]} /\ at \notin done
  BY FilesHaveLength DEF Settling, TypeOK, Accept, Register, commitAdd
<1>2. \A i \in done : ~ /\ Record[files[i]].command = Record[files[at]].command
                        /\ output(files[i]) = output(files[at])
  BY <1>1 DEF Valid, validateAdd, registeredCommandOutput
<1>3. ASSUME NEW i \in done', NEW j \in done',
             Record[files'[i]].command = Record[files'[j]].command,
             output(files'[i]) = output(files'[j])
      PROVE  i = j
  BY <1>1, <1>2, <1>3 DEF Accounted
<1>4. ASSUME NEW r \in registered' PROVE \E S \in SUBSET registered' : Supported(r, S)
  <2>1. \E S \in SUBSET registered : Supported(r, S)
    <3>1. CASE r = files[at]
      BY <1>1, <3>1 DEF Valid
    <3>2. CASE r # files[at]
      BY <1>1, <3>2 DEF Accounted
    <3> QED
      BY <3>1, <3>2
  <2> QED
    BY <1>1, <2>1
<1> QED
  BY <1>3, <1>4 DEF Accounted

(* Every step registers what Accept registers, or nothing.                 *)
LEMMA OnlyAcceptRegisters ==
  ASSUME Settling, [Next]_vars, ~ Accept
  PROVE  UNCHANGED <<registered, states, files, done>>
<1>1. CASE Sweep
  <2>1. at \in 1..Len(files) /\ Refused(Len(files))
    BY <1>1, FilesHaveLength DEF Sweep, Settling, TypeOK
  <2>2. ~ (at \notin done /\ Valid(files[at]))
    BY <2>1 DEF Refused
  <2> QED
    BY <1>1, <2>2 DEF Sweep, registryVars
<1> QED
  BY <1>1 DEF Next, vars, Empty, Skip, Refuse, NextPass, LastPass, Gate

LEMMA AccountedStays ==
  ASSUME Settling, Accounted, [Next]_vars
  PROVE  Accounted'
<1>1. CASE Accept
  BY <1>1, AcceptAccounts
<1>2. CASE ~ Accept
  BY <1>2, OnlyAcceptRegisters DEF Accounted
<1> QED
  BY <1>1, <1>2

LEMMA ListedExact ==
  ASSUME files \in Listings, Complete(Listed),
         \A i, j \in DOMAIN files :
           /\ Record[files[i]].command = Record[files[j]].command
           /\ output(files[i]) = output(files[j])
           => i = j
  PROVE  Exact(Listed)
<1>1. Listed \subseteq Receipts
  BY FilesHaveLength, FilesAreReceipts DEF Listed
<1> QED
  BY <1>1 DEF Exact, Complete, Listed

(* What was registered completely is consistent.                           *)
LEMMA CompleteIsConsistent ==
  ASSUME OneBatch, Settling, Accounted, Standing, UnbranchedHistory,
         done = DOMAIN files, Complete(registered)
  PROVE  Consistent(files)
<1>1. files \in Listings /\ registered = Listed
  BY DEF Settling, TypeOK, Listed
<1>2. \A i, j \in DOMAIN files :
        /\ Record[files[i]].command = Record[files[j]].command
        /\ output(files[i]) = output(files[j])
        => i = j
  BY DEF Accounted
<1>3. Exact(Listed)
  BY <1>1, <1>2, ListedExact
<1>4. \A r \in Listed : Supported(r, Listed)
  <2> SUFFICES ASSUME NEW r \in Listed PROVE Supported(r, Listed)
    OBVIOUS
  <2>1. PICK S \in SUBSET Listed : Supported(r, S)
    BY <1>1 DEF Accounted
  <2>2. r \in Receipts
    BY <1>3 DEF Exact
  <2> QED
    BY <1>3, <2>1, <2>2, SupportStays
<1>5. ASSUME NEW t \in Moving
      PROVE  /\ t \in Steps => \A u \in Steps :
                  SubjectOf(u) = SubjectOf(t) /\ (from(u) = from(t) \/ (Starts(u) /\ Starts(t)))
                  => u = t
             /\ Starts(t) \/ \E u \in Steps : SubjectOf(u) = SubjectOf(t) /\ to(u) = from(t)
  <2>1. t \in Receipts /\ t \in registered /\ subject(t) # "none"
    BY <1>1, <1>3 DEF Exact, Moving
  <2>2. SubjectOf(t) \in Subjects /\ t \in Transitions(SubjectOf(t))
    BY <2>1, SubjectsOfTransitions DEF Transitions
  <2>3. \A u \in Steps : SubjectOf(u) = SubjectOf(t) =>
          u \in Transitions(SubjectOf(t)) /\ Moves(u)
    BY <1>1 DEF Moving, Steps, Transitions
  <2>4. \A u \in Transitions(SubjectOf(t)) :
          Moves(u) => u \in Steps /\ SubjectOf(u) = SubjectOf(t)
    BY <1>1 DEF Moving, Steps, Transitions
  <2>5. Moves(t) => \A u \in Transitions(SubjectOf(t)) :
          Moves(u) /\ (from(u) = from(t) \/ (Starts(u) /\ Starts(t))) => u = t
    BY <2>2 DEF UnbranchedHistory
  <2>6. Starts(t) \/ Arrives(SubjectOf(t), from(t))
    BY <2>1 DEF Standing, Connected, Starts
  <2>7. t \in Steps => Moves(t)
    BY DEF Steps
  <2> QED
    BY <2>3, <2>4, <2>5, <2>6, <2>7 DEF Arrives
<1> QED
  BY <1>2, <1>4, <1>5 DEF Consistent, Listed, Moving, Steps

(* A set of listed records that is not empty has one whose transition      *)
(* leaves from the lowest state.                                           *)
LEMMA LowestTransition ==
  ASSUME NEW L, L # {}, \A t \in L : Rank[from(t)] \in 0..5
  PROVE  \E t \in L : \A u \in L : Rank[from(t)] <= Rank[from(u)]
<1> DEFINE least(k) == /\ \E t \in L : Rank[from(t)] = k
                       /\ \A u \in L : k <= Rank[from(u)]
<1>1. \E k \in 0..5 : least(k)
  OBVIOUS
<1> QED
  BY <1>1

(* When all the records are consistent and complete, none of them is left  *)
(* refused: those that call for nothing were registered, then those that   *)
(* call for these, and so on up to the transitions, from the lowest.       *)
LEMMA ConsistentIsRegistered ==
  ASSUME Settling, Standing, UnbranchedHistory, Refused(Len(files)),
         Consistent(files), Complete(Listed)
  PROVE  done = DOMAIN files
<1> DEFINE R == Listed
           D == registered
           legalTransition(r) ==
             \/ subject(r) = "row" /\ legalRowTransition(from(r), to(r))
             \/ subject(r) = "backend_cell" /\ legalCellTransition(from(r), to(r))
<1>1. /\ files \in Listings /\ done \subseteq DOMAIN files /\ D = {files[i] : i \in done}
      /\ DOMAIN files = 1..Len(files) /\ RegistryTypeOK
  BY FilesHaveLength DEF Settling, TypeOK
<1>2. Exact(R)
  BY <1>1, ListedExact DEF Consistent
<1>3. D \subseteq R /\ R \subseteq Receipts
  BY <1>1, <1>2 DEF Listed, Exact
<1>4. \A r \in R : Supported(r, R)
  BY DEF Consistent, Listed
(* Of what is listed nothing is presented in vain.                         *)
<1>5. ASSUME NEW r \in R, Supported(r, D), subject(r) # "none" => from(r) = StateOf(r)
      PROVE  r \in D
  <2> SUFFICES ASSUME r \notin D PROVE FALSE
    OBVIOUS
  <2>1. PICK i \in DOMAIN files : r = files[i]
    BY DEF Listed
  <2>2. i \notin done
    BY <1>1, <2>1
  <2>3. ~ registeredCommandOutput(D, Record[r].command, output(r))
    BY <1>2, <1>3 DEF Exact, registeredCommandOutput
  <2>4. Valid(files[i])
    BY <1>5, <2>1, <2>3 DEF Valid, validateAdd
  <2> QED
    BY <1>1, <2>2, <2>4 DEF Refused
<1>6. ASSUME NEW r \in R
      PROVE  /\ subject(r) \in {"none", "row", "backend_cell"}
             /\ subject(r) # "none" => output(r) \in {"state-transition", "not-applicable"}
  <2>1. subject(r) \in {"none", "row", "backend_cell"}
    BY <1>3, RecordAssumption DEF RecordType, subject
  <2>2. validateState(r, R)
    BY <1>4 DEF Supported
  <2> QED
    BY <2>1, <2>2 DEF validateState, Transition, NotApplicable
<1>7. ASSUME NEW r \in R, subject(r) = "none", Equipped(r, D, R) PROVE r \in D
  BY <1>3, <1>4, <1>5, <1>7, SupportSuffices
<1>8. \A r \in R : output(r) \in {"exit", "argv-env"} => r \in D
  BY <1>6, <1>7 DEF Equipped
<1>9. \A r \in R : output(r) = "identity" => r \in D
  BY <1>6, <1>7, <1>8 DEF Equipped
<1>10. \A r \in R : subject(r) = "none" /\ output(r) # "benchstat" => r \in D
  BY <1>7, <1>8, <1>9 DEF Equipped
<1>11. \A r \in R : subject(r) = "none" => r \in D
  <2>1. \A r \in R : output(r) \in BenchmarkKinds => r \in D
    BY <1>6, <1>10 DEF BenchmarkKinds
  <2> QED
    BY <1>7, <1>8, <1>9, <1>10, <2>1 DEF Equipped
<1>12. \A t \in Moving : /\ t \in R /\ t \in Receipts /\ validateState(t, R)
                         /\ from(t) \in Stages /\ to(t) \in Stages
                         /\ Rank[from(t)] \in 0..5 /\ Rank[to(t)] \in 0..5
                         /\ from(t) # NoState => Rank[from(t)] < Rank[to(t)]
                         /\ from(t) = NoState => ~ Moves(t)
  BY <1>3, <1>4, Climbs DEF Moving, Supported, Moves
<1>13. ASSUME NEW t \in Moving
       PROVE  legalTransition(t) /\ (Transition(t, R) \/ NotApplicable(t))
  BY <1>6, <1>12, <1>13 DEF Moving, validateState, Transition, NotApplicable, legalCellTransition
<1>14. ASSUME NEW t \in Moving, t \notin D,
              \A u \in Moving \ D : Rank[from(t)] <= Rank[from(u)]
       PROVE  FALSE
  <2> DEFINE s == SubjectOf(t)
  <2>1. \A u \in Moving : Rank[from(u)] < Rank[from(t)] => u \in D
    BY <1>12, <1>14
  <2>2. Record[t].proofs \subseteq D
    <3> SUFFICES ASSUME NEW p \in Record[t].proofs PROVE p \in D
      OBVIOUS
    <3>1. Transition(t, R) /\ legalTransition(t)
      BY <1>14, <1>13 DEF NotApplicable
    <3>2. /\ p \in R
          /\ output(p) # "state-transition" => subject(p) = "none"
          /\ output(p) = "state-transition" =>
               to(t) = "dispatch_candidate" /\ from(p) = "direct_built"
      BY <3>1 DEF Transition, ProofsAdmissible
    <3>3. CASE subject(p) = "none"
      BY <1>11, <3>2, <3>3
    <3>4. CASE subject(p) # "none"
      <4>1. p \in Moving
        BY <3>2, <3>4 DEF Moving
      <4>2. from(t) = "hard_gates_green" /\ from(p) = "direct_built"
        <5>1. to(t) = "dispatch_candidate" /\ from(p) = "direct_built"
          BY <3>2, <3>4
        <5>2. RowSuccessor(from(t)) # "dispatch_candidate"
          BY DEF RowSuccessor, NoState
        <5>3. QED
          BY <3>1, <5>1, <5>2 DEF legalRowTransition, legalCellTransition
      <4>3. Rank[from(p)] < Rank[from(t)]
        BY <4>2, NoStateIsNone DEF Rank, Stages, States, RowStates, CellStates
      <4> QED
        BY <2>1, <4>1, <4>3
    <3> QED
      BY <3>3, <3>4
  <2>3. from(t) = StateOf(t)
    <3>1. s \in Subjects
      BY <1>12, <1>14, SubjectsOfTransitions DEF Moving
    <3>2. t \notin Transitions(s)
      BY <1>14 DEF Transitions
    <3>3. \A u \in Transitions(s) : u \in Moving /\ SubjectOf(u) = s
      BY <1>3 DEF Transitions, Moving
    <3>4. ASSUME NEW u \in Transitions(s), Moves(u), Moves(t),
                 from(u) = from(t) \/ (Starts(u) /\ Starts(t))
          PROVE  FALSE
      <4>1. u \in Moving /\ SubjectOf(u) = SubjectOf(t)
        BY <3>3
      <4>2. u = t
        BY <1>14, <3>4, <4>1 DEF Consistent, Listed, Moving
      <4> QED
        BY <3>2, <4>2
    <3>5. CASE Starts(t)
      <4>1. SUFFICES ASSUME states[s] # Unset PROVE FALSE
        BY <3>5 DEF StateOf, Starts
      <4> DEFINE L == {u \in Transitions(s) : Moves(u)}
      <4>2. L # {} /\ \A u \in L : Rank[from(u)] \in 0..5
        BY <1>12, <3>1, <3>3, <4>1 DEF Standing, Connected, Arrives
      <4>3. PICK u \in L : \A v \in L : Rank[from(u)] <= Rank[from(v)]
        <5> HIDE DEF L
        <5> QED
          BY <4>2, LowestTransition
      <4>4. ~ Arrives(s, from(u))
        <5> SUFFICES ASSUME NEW v \in L, to(v) = from(u) PROVE FALSE
          BY DEF Arrives
        <5>1. v \in Moving /\ u \in Moving /\ Moves(v)
          BY <3>3
        <5>2. Rank[from(v)] < Rank[from(u)]
          BY <1>12, <5>1
        <5> QED
          BY <1>12, <4>3, <5>1, <5>2
      <4>5. Starts(u)
        BY <3>3, <4>3, <4>4 DEF Standing, Connected, Transitions, Starts
      <4>6. Moves(t)
        BY <1>12, <1>14, <3>5, StartsLow, Climbs DEF Starts, Moves, Moving
      <4> QED
        BY <3>4, <3>5, <4>5, <4>6
    <3>6. ASSUME NEW u \in Steps, SubjectOf(u) = s, to(u) = from(t)
          PROVE  from(t) = StateOf(t)
      <4>1. u \in Moving /\ Moves(u) /\ Rank[from(u)] < Rank[to(u)]
        BY <1>12, <3>6 DEF Steps
      <4>2. u \in Transitions(s)
        BY <1>12, <1>14, <2>1, <3>6, <4>1 DEF Transitions, Moving
      <4>3. to(u) = states[s]
        <5> SUFFICES ASSUME NEW v \in Transitions(s), Moves(v), from(v) = from(t) PROVE FALSE
          BY <3>1, <3>6, <4>1, <4>2 DEF UnbranchedHistory
        <5>1. v \in Moving
          BY <3>3
        <5>2. from(t) # NoState
          BY <1>12, <5>1
        <5>3. Moves(t)
          BY <1>12, <1>14, <5>2 DEF Moves
        <5> QED
          BY <3>4, <5>3
      <4>4. to(u) # Unset
        BY <1>12, <4>1, UnsetIsNoState
      <4> QED
        BY <3>6, <4>3, <4>4 DEF StateOf
    <3> QED
      BY <1>14, <3>5, <3>6 DEF Consistent, Listed, Moving, Steps
  <2>4. Equipped(t, D, R)
    <3>1. output(t) # "benchstat"
      BY <1>6, <1>14 DEF Moving
    <3> QED
      BY <1>8, <1>9, <2>2, <3>1 DEF Equipped
  <2> QED
    BY <1>4, <1>3, <1>5, <1>12, <1>14, <2>3, <2>4, SupportSuffices
<1>15. R \subseteq D
  <2> SUFFICES ASSUME NEW r \in R, r \notin D PROVE FALSE
    OBVIOUS
  <2>1. Moving \ D # {} /\ \A u \in Moving \ D : Rank[from(u)] \in 0..5
    BY <1>11, <1>12 DEF Moving
  <2>2. \E t \in Moving \ D : \A u \in Moving \ D : Rank[from(t)] <= Rank[from(u)]
    BY <2>1, LowestTransition
  <2> QED
    BY <1>14, <2>2
<1> QED
  <2>1. ASSUME NEW i \in DOMAIN files PROVE i \in done
    <3>1. PICK j \in done : files[i] = files[j]
      BY <1>1, <1>15 DEF Listed
    <3> QED
      BY <1>1, <3>1 DEF Consistent
  <2> QED
    BY <1>1, <2>1

(* What the sweep leaves behind it is registered.                          *)
LEMMA SweepDecides ==
  ASSUME Deciding, Sweep
  PROVE  /\ pc' = "sweep" => \A i \in 1..(at' - 1) : i \in done'
         /\ pc' \in {"sweep", "failed"}
         /\ pc' = "failed" => ~ (Consistent(files) /\ Complete(Listed))
<1>1. /\ at \in 1..Len(files) /\ Refused(Len(files)) /\ pc = "sweep" /\ done' = done
      /\ \A i \in 1..(at - 1) : i \in done
      /\ Len(files) \in Nat /\ DOMAIN files = 1..Len(files)
  BY FilesHaveLength DEF Deciding, Settling, TypeOK, Sweep
<1>2. CASE at \in done
  <2>1. at' = at + 1 /\ pc' = "sweep"
    BY <1>1, <1>2 DEF Sweep
  <2>2. \A i \in 1..at : i \in 1..(at - 1) \/ i = at
    BY <1>1
  <2> QED
    BY <1>1, <1>2, <2>1, <2>2
<1>3. CASE at \notin done
  <2>1. pc' = "failed"
    BY <1>1, <1>3 DEF Sweep, Refused
  <2>2. ASSUME Consistent(files), Complete(Listed) PROVE FALSE
    <3>1. done = DOMAIN files
      BY <1>1, <2>2, ConsistentIsRegistered DEF Deciding
    <3> QED
      BY <1>1, <1>3, <3>1
  <2> QED
    BY <2>1, <2>2
<1> QED
  BY <1>2, <1>3

LEMMA GateDecides ==
  ASSUME Deciding, Gate
  PROVE  /\ pc' \in Ended
         /\ OneBatch => (pc' = "ok" <=> files # << >> /\ Consistent(files) /\ Complete(Listed))
<1>1. /\ files \in Listings /\ done \subseteq DOMAIN files /\ registered = {files[i] : i \in done}
      /\ Len(files) \in Nat /\ DOMAIN files = 1..Len(files)
      /\ at \in 1..(Len(files) + 1) /\ at > Len(files)
      /\ files # << >> /\ \A i \in 1..(at - 1) : i \in done
  BY FilesHaveLength DEF Deciding, Settling, TypeOK, Gate
<1>2. done = DOMAIN files
  <2>1. \A i \in 1..Len(files) : i \in 1..(at - 1)
    BY <1>1
  <2> QED
    BY <1>1, <2>1
<1>3. registered = Listed
  BY <1>1, <1>2 DEF Listed
<1>4. OneBatch /\ Complete(registered) => Consistent(files)
  BY <1>2, CompleteIsConsistent DEF Deciding
<1> QED
  BY <1>1, <1>3, <1>4 DEF Gate, Ended

LEMMA DecidingStays ==
  ASSUME Deciding, [Next]_vars, Settling', Standing', UnbranchedHistory'
  PROVE  Deciding'
<1>1. Accounted'
  BY AccountedStays DEF Deciding
<1>2. files' = files
  BY DEF Next, vars, Empty, Skip, Accept, Refuse, NextPass, LastPass, Sweep, Gate
<1>3. pc \in {"pass", "sweep"} \cup Ended
  BY DEF Deciding, Settling, TypeOK
<1> DEFINE Swept == pc = "sweep" => files # << >> /\ \A i \in 1..(at - 1) : i \in done
<1>4. Swept' /\ VerdictOfTheSet'
  <2>1. CASE Sweep
    <3>1. pc = "sweep" /\ files # << >>
      BY <2>1 DEF Deciding, Sweep
    <3> QED
      BY <1>2, <2>1, <3>1, SweepDecides DEF VerdictOfTheSet, Listed, Ended
  <2>2. CASE Gate
    BY <1>2, <2>2, GateDecides DEF VerdictOfTheSet, Listed, Ended
  <2>3. CASE Empty
    BY <1>2, <2>3 DEF Empty, VerdictOfTheSet
  <2>4. CASE LastPass
    <3>1. pc' = "sweep" /\ at' = 1 /\ files # << >>
      BY <2>4 DEF LastPass, EndOfPass
    <3> QED
      BY <1>2, <3>1 DEF VerdictOfTheSet, Ended
  <2>5. CASE Skip \/ Accept \/ Refuse \/ NextPass
    <3>1. pc' = "pass"
      BY <2>5 DEF Skip, Accept, Refuse, NextPass, EndOfPass
    <3> QED
      BY <3>1 DEF VerdictOfTheSet, Ended
  <2>6. CASE UNCHANGED vars
    BY <2>6 DEF vars, Deciding, VerdictOfTheSet
  <2> QED
    BY <2>1, <2>2, <2>3, <2>4, <2>5, <2>6 DEF Next
<1> QED
  BY <1>1, <1>4 DEF Deciding

(* For any campaign that benchmarks each cell in one batch, and for any    *)
(* directory, the command succeeds exactly when the records, as a set, are *)
(* consistent and complete: neither the names of the files, nor that the   *)
(* passes are bounded, nor that a record is judged by what happened to be  *)
(* registered before it, changes the verdict.                              *)
THEOREM OrderIndependent == Spec => []VerdictOfTheSet
<1>1. Init => Accounted
  BY DEF Init, RegistryInit, Accounted
<1>2. Init /\ Settling /\ Standing /\ UnbranchedHistory => Deciding
  BY <1>1 DEF Init, Deciding, VerdictOfTheSet, Ended
<1>3. Spec => []Standing
  BY Implements, StandingInvariant, PTL
<1>4. Deciding /\ [Next]_vars /\ Settling' /\ Standing' /\ UnbranchedHistory' => Deciding'
  BY DecidingStays
<1>5. Deciding => VerdictOfTheSet
  BY DEF Deciding
<1> QED
  BY <1>2, <1>3, <1>4, <1>5, SettlingInvariant, IndexUnbranched, PTL DEF Spec

-----------------------------------------------------------------------------
(* A cell with two batches *)

(* The cell of each registered comparison has one benchmark of each source *)
(* to compare, so that all its comparisons are of one pair.                *)
Compares(r, R) ==
  \E old, new \in R :
    /\ output(old) = "incumbent-benchmark" /\ SameSubject(old, r)
    /\ output(new) = "candidate-benchmark" /\ SameSubject(new, r)
    /\ Record[r].pair = <<old, new>>

Compared ==
  /\ \A r \in registered : output(r) = "benchstat" => Compares(r, registered)
  /\ \A r, q \in registered :
       output(r) = "benchstat" /\ output(q) = "benchstat" /\ SameSubject(q, r) =>
         Record[q].pair = Record[r].pair

LEMMA ComparedStays ==
  ASSUME Compared, NEW r, Register(r)
  PROVE  Compared'
<1>1. registered' = registered \cup {r} /\ validateArtifactSemantics(r, registered)
  BY DEF Register, commitAdd, Valid, Supported
<1>2. ASSUME output(r) = "benchstat"
      PROVE  /\ Compares(r, registered)
             /\ \A q \in registered : output(q) = "benchstat" /\ SameSubject(q, r) =>
                  Record[q].pair = Record[r].pair
  <2> DEFINE of(kind) == {q \in registered : output(q) = kind /\ SameSubject(q, r)}
  <2>1. PICK old \in registered, new \in registered :
          /\ of("incumbent-benchmark") = {old} /\ of("candidate-benchmark") = {new}
          /\ Record[r].pair = <<old, new>>
    BY <1>1, <1>2 DEF validateArtifactSemantics, benchmarkProofs
  <2>2. ASSUME NEW q \in registered, output(q) = "benchstat", SameSubject(q, r)
        PROVE  Record[q].pair = Record[r].pair
    <3>1. PICK o \in registered, n \in registered :
            /\ output(o) = "incumbent-benchmark" /\ SameSubject(o, q)
            /\ output(n) = "candidate-benchmark" /\ SameSubject(n, q)
            /\ Record[q].pair = <<o, n>>
      BY <2>2 DEF Compared, Compares
    <3>2. SameSubject(o, r) /\ SameSubject(n, r)
      BY <2>2, <3>1 DEF SameSubject, SameCell
    <3>3. o \in of("incumbent-benchmark") /\ n \in of("candidate-benchmark")
      BY <3>1, <3>2
    <3> QED
      BY <2>1, <3>1, <3>3
  <2>3. old \in of("incumbent-benchmark") /\ new \in of("candidate-benchmark")
    BY <2>1
  <2> QED
    BY <2>1, <2>2, <2>3 DEF Compares
<1>3. \A q : Compares(q, registered) => Compares(q, registered')
  BY <1>1 DEF Compares
<1>4. \A q : SameSubject(q, r) <=> SameSubject(r, q)
  BY DEF SameSubject, SameCell
<1> QED
  BY <1>1, <1>2, <1>3, <1>4 DEF Compared

LEMMA ComparedInvariant == RegistrySpec => []Compared
<1>1. RegistryInit => Compared
  BY DEF RegistryInit, Compared
<1>2. Compared /\ [\E r \in Receipts : Register(r)]_registryVars => Compared'
  BY ComparedStays DEF Compared, registryVars
<1>3. QED
  BY <1>1, <1>2, PTL DEF RegistrySpec

LEMMA AcceptedIsComplete == Spec => [](pc = "ok" => Complete(registered))
<1> DEFINE Inv == pc = "ok" => Complete(registered)
<1>1. Init => Inv
  BY DEF Init
<1>2. Inv /\ [Next]_vars => Inv'
  <2> SUFFICES ASSUME Inv, [Next]_vars, pc' = "ok" PROVE Complete(registered')
    BY DEF Complete, registeredCommandOutput
  <2>1. UNCHANGED registered /\ Complete(registered)
    BY DEF Next, vars, Empty, Skip, Accept, Refuse, NextPass, LastPass, EndOfPass, Sweep, Gate
  <2> QED
    BY <2>1
<1>3. QED
  BY <1>1, <1>2, PTL DEF Spec

(* For any campaign and any directory, evidence is accepted with each      *)
(* comparison that of its own batch only where no row and cell has two     *)
(* batches: of a campaign that has, every order of the records is refused, *)
(* or a comparison is of benchmarks that are not its own.                  *)
THEOREM BatchesApart == Spec => []BatchesShareNoCell
<1>1. Compared /\ (pc = "ok" => Complete(registered)) => BatchesShareNoCell
  <2> DEFINE Own(r) == \A i \in {1, 2} : command(Record[r].pair[i]).batch = command(r).batch
  <2> SUFFICES ASSUME Compared, Complete(registered),
                      \A r \in registered : output(r) = "benchstat" => Own(r),
                      NEW c \in Commands, NEW d \in Commands,
                      Benchmark(c), Benchmark(d), SameCell(c, d)
               PROVE  Campaign[c].batch = Campaign[d].batch
    BY DEF BatchesShareNoCell, OneBatch, SameBatch
  <2>1. ASSUME NEW b \in Commands, Benchmark(b)
        PROVE  \E r \in registered : output(r) = "benchstat" /\ SameBatch(b, Record[r].command)
    <3>1. PICK k \in Commands : Campaign[k].action = "benchstat" /\ SameBatch(b, k)
      BY <2>1, BenchmarkAssumption
    <3>2. "benchstat" \in Outputs(k)
      BY <3>1 DEF Outputs, Artifact, SourceActions, HostActions
    <3> QED
      BY <3>1, <3>2 DEF Complete, registeredCommandOutput
  <2>2. PICK r \in registered : output(r) = "benchstat" /\ SameBatch(c, Record[r].command)
    BY <2>1
  <2>3. PICK q \in registered : output(q) = "benchstat" /\ SameBatch(d, Record[q].command)
    BY <2>1
  <2>4. SameSubject(q, r)
    BY <2>2, <2>3 DEF SameSubject, SameBatch, SameCell
  <2>5. Record[q].pair = Record[r].pair
    BY <2>2, <2>3, <2>4 DEF Compared
  <2>6. command(r).batch = command(q).batch
    BY <2>2, <2>3, <2>5
  <2> QED
    BY <2>2, <2>3, <2>6 DEF SameBatch, command
<1>2. Spec => []Compared
  BY Implements, ComparedInvariant, PTL
<1>3. QED
  BY <1>1, <1>2, AcceptedIsComplete, PTL

-----------------------------------------------------------------------------
(* The closing audit *)

(* What the registry's check of a transition leaves behind for good.       *)
Taken(t, R) ==
  /\ subject(t) = "row" =>
       /\ output(t) = "state-transition" /\ Unqualified(t)
       /\ legalRowTransition(from(t), to(t)) /\ ProofsAdmissible(t, R)
  /\ subject(t) = "backend_cell" /\ to(t) # "not_applicable" =>
       /\ output(t) = "state-transition"
       /\ legalCellTransition(from(t), to(t)) /\ ProofsAdmissible(t, R)
       /\ to(t) = "dispatch_candidate" => Unqualified(t)
       /\ to(t) = "selected" => /\ Record[t].disposition = "selected"
                                /\ Record[t].qualification = "pass"
       /\ to(t) = "direct_only" => /\ Record[t].disposition = "direct_only"
                                   /\ Record[t].qualification \in {"fail", "inconclusive"}
  /\ subject(t) = "backend_cell" /\ to(t) = "not_applicable" =>
       /\ output(t) = "not-applicable" /\ from(t) = "eligible"
       /\ Record[t].disposition = "not_applicable" /\ Record[t].proofs = {}

AllTaken == RegistryTypeOK /\ \A t \in registered : Taken(t, registered)

LEMMA TakenStays ==
  ASSUME NEW R, NEW S, R \subseteq S, NEW t, Taken(t, R)
  PROVE  Taken(t, S)
<1>1. ProofsAdmissible(t, R) => ProofsAdmissible(t, S)
  BY DEF ProofsAdmissible
<1>2. QED
  BY <1>1 DEF Taken

LEMMA SupportedIsTaken ==
  ASSUME NEW R, NEW r \in Receipts, Supported(r, R)
  PROVE  Taken(r, R)
<1>1. validateState(r, R)
  BY DEF Supported
<1>2. CASE subject(r) = "row"
  <2>1. Transition(r, R) /\ legalRowTransition(from(r), to(r))
    BY <1>1, <1>2 DEF validateState, Transition
  <2>2. to(r) \notin {"selected", "direct_only", "direct_built", "hard_gates_green"}
    BY <2>1 DEF legalRowTransition, RowSuccessor, NoState
  <2>3. Unqualified(r)
    BY <2>1, <2>2 DEF Transition, Disposed
  <2>4. QED
    BY <1>2, <2>1, <2>3 DEF Taken, Transition
<1>3. CASE subject(r) = "backend_cell" /\ to(r) # "not_applicable"
  <2>1. Transition(r, R) /\ legalCellTransition(from(r), to(r))
    BY <1>1, <1>3 DEF validateState, Transition
  <2>2. /\ to(r) = "dispatch_candidate" => Unqualified(r)
        /\ to(r) = "selected" => /\ Record[r].disposition = "selected"
                                 /\ Record[r].qualification = "pass"
        /\ to(r) = "direct_only" => /\ Record[r].disposition = "direct_only"
                                    /\ Record[r].qualification \in {"fail", "inconclusive"}
    BY <2>1 DEF Transition, Disposed
  <2>3. QED
    BY <1>3, <2>1, <2>2 DEF Taken, Transition
<1>4. CASE subject(r) = "backend_cell" /\ to(r) = "not_applicable"
  <2>1. NotApplicable(r)
    BY <1>1, <1>4 DEF validateState
  <2>2. QED
    BY <1>4, <2>1 DEF Taken, NotApplicable
<1>5. CASE subject(r) = "none"
  BY <1>5 DEF Taken
<1>6. QED
  BY <1>2, <1>3, <1>4, <1>5, RecordAssumption DEF RecordType, subject

LEMMA TakenInvariant == RegistrySpec => []AllTaken
<1>1. RegistryInit => AllTaken
  BY DEF RegistryInit, AllTaken, RegistryTypeOK
<1>2. /\ AllTaken /\ RegistryTypeOK'
      /\ [\E r \in Receipts : Register(r)]_registryVars
      => AllTaken'
  <2>1. ASSUME AllTaken, RegistryTypeOK', NEW r \in Receipts, Register(r) PROVE AllTaken'
    <3>1. registered' = registered \cup {r} /\ Taken(r, registered)
      BY <2>1, SupportedIsTaken DEF Register, commitAdd, Valid
    <3>2. QED
      BY <2>1, <3>1, TakenStays DEF AllTaken
  <2>2. ASSUME AllTaken, UNCHANGED registryVars PROVE AllTaken'
    BY <2>2 DEF AllTaken, RegistryTypeOK, registryVars
  <2>3. QED
    BY <2>1, <2>2
<1>3. QED
  BY <1>1, <1>2, TypeCorrect, PTL DEF RegistrySpec

(* What both directions start from.                                        *)
Agreeable == History /\ Standing /\ AllTaken

-----------------------------------------------------------------------------
(* The transitions of one subject *)

LEMMA OfOneSubject ==
  ASSUME Agreeable, NEW s, NEW t \in TransitionsIn(s, registered)
  PROVE  /\ t \in registered /\ t \in Receipts /\ s \in Subjects
         /\ subject(t) # "none" /\ SubjectOf(t) = s /\ subject(t) = s[1]
         /\ subject(t) \in {"row", "backend_cell"}
         /\ Taken(t, registered) /\ UsesFinalSource(t)
         /\ subject(t) = "backend_cell" => Moves(t)
<1>1. t \in registered /\ t \in Receipts /\ subject(t) # "none" /\ SubjectOf(t) = s
  BY DEF TransitionsIn, Agreeable, AllTaken, RegistryTypeOK
<1>2. s \in Subjects
  BY <1>1, SubjectsOfTransitions
<1>3. subject(t) = s[1]
  BY <1>1 DEF SubjectOf
<1>4. UsesFinalSource(t)
  BY <1>1, DirectAssumption DEF UsesFinalSource, SourceRole
<1>5. subject(t) \in {"row", "backend_cell"}
  BY <1>1, RecordAssumption DEF RecordType, subject
<1>6. Taken(t, registered)
  BY <1>1 DEF Agreeable, AllTaken
<1>7. subject(t) = "backend_cell" => Moves(t)
  BY <1>6 DEF Taken, legalCellTransition, Moves
<1>8. QED
  BY <1>1, <1>2, <1>3, <1>4, <1>5, <1>6, <1>7

LEMMA Alone ==
  ASSUME Agreeable, NEW s,
         NEW t \in TransitionsIn(s, registered), NEW u \in TransitionsIn(s, registered),
         Moves(t), Moves(u), from(t) = from(u) \/ to(t) = to(u)
  PROVE  t = u
<1>1. s \in Subjects
  BY OfOneSubject
<1>2. t \in Transitions(s) /\ u \in Transitions(s)
  BY DEF Transitions, TransitionsIn
<1>3. QED
  BY <1>1, <1>2 DEF Agreeable, History, UnbranchedHistory

LEMMA Reached ==
  ASSUME Agreeable, NEW s \in Subjects, states[s] # Unset
  PROVE  \E t \in TransitionsIn(s, registered) : to(t) = states[s]
BY DEF Agreeable, Standing, Connected, Arrives, Transitions, TransitionsIn

LEMMA Preceded ==
  ASSUME Agreeable, NEW s, NEW t \in TransitionsIn(s, registered),
         from(t) \notin {"snapshot_planned", "eligible"}
  PROVE  \E u \in TransitionsIn(s, registered) : to(u) = from(t)
<1>1. t \in registered /\ t \in Receipts /\ subject(t) # "none" /\ SubjectOf(t) = s
  BY OfOneSubject
<1>2. command(t).initial \in {"snapshot_planned", "eligible"}
  BY <1>1, RecordAssumption, CampaignAssumption DEF RecordType, CommandType, command
<1>3. Arrives(s, from(t))
  BY <1>1, <1>2 DEF Agreeable, Standing, Connected
<1>4. QED
  BY <1>3 DEF Arrives, Transitions, TransitionsIn

(* A row that is complete went through its whole chain.                    *)
LEMMA RowChainRuns ==
  ASSUME Agreeable, NEW r, <<"row", r>> \in Subjects, states[<<"row", r>>] = "complete"
  PROVE  Closes(TransitionsIn(<<"row", r>>, registered), RowChain)
<1> DEFINE s == <<"row", r>>
           T == TransitionsIn(s, registered)
(* The row has not lost its state.                                         *)
<1>0. \A t \in T : Moves(t) /\ to(t) # NoState
  <2> SUFFICES ASSUME NEW t \in T PROVE Moves(t) /\ to(t) # NoState
    OBVIOUS
  <2>1. /\ t \in registered /\ subject(t) # "none" /\ SubjectOf(t) = s /\ s \in Subjects
        /\ t \in Transitions(s)
    BY OfOneSubject DEF Transitions, TransitionsIn
  <2>2. states[s] # NoState /\ states[s] \in Stages /\ to(t) \in Stages
    BY <2>1, StagesOfRecords DEF NoState, Agreeable, History, Climbing, RegistryTypeOK
  <2>3. Moves(t)
    BY <2>1, <2>2 DEF Agreeable, History, UnbranchedHistory
  <2>4. Rank[to(t)] <= Rank[states[s]]
    BY <2>1 DEF Agreeable, History, Climbing
  <2>5. to(t) # NoState
    BY <2>2, <2>4, RankType
  <2>6. QED
    BY <2>3, <2>5
<1>1. \A t \in T : legalRowTransition(from(t), to(t)) /\ UsesFinalSource(t)
  BY OfOneSubject DEF Taken
<1>2. PICK d \in T : to(d) = "complete"
  BY Reached DEF Unset
<1>3. from(d) = "family_published"
  BY <1>1, <1>2 DEF legalRowTransition, RowSuccessor, NoState
<1>4. PICK c \in T : to(c) = "family_published"
  BY <1>3, Preceded
<1>5. from(c) = "scalar_green"
  BY <1>1, <1>4 DEF legalRowTransition, RowSuccessor, NoState
<1>6. PICK b \in T : to(b) = "scalar_green"
  BY <1>5, Preceded
<1>7. from(b) = "scalar_private"
  BY <1>1, <1>6 DEF legalRowTransition, RowSuccessor, NoState
<1>8. PICK a \in T : to(a) = "scalar_private"
  BY <1>7, Preceded
<1>9. from(a) = "snapshot_planned"
  BY <1>1, <1>8 DEF legalRowTransition, RowSuccessor, NoState
<1>10. {<<from(t), to(t)>> : t \in T} = RowChain
  <2>1. \A t \in T : <<from(t), to(t)>> \in RowChain
    BY <1>0, <1>1 DEF legalRowTransition, RowSuccessor, RowChain
  <2>2. \A pair \in RowChain : \E t \in T : pair = <<from(t), to(t)>>
    BY <1>2, <1>3, <1>4, <1>5, <1>6, <1>7, <1>8, <1>9 DEF RowChain
  <2>3. QED
    BY <2>1, <2>2
<1>11. \A t, u \in T : to(t) = to(u) => t = u
  BY <1>0, Alone
<1>12. QED
  BY <1>1, <1>10, <1>11 DEF Closes

(* Every transition of a cell but the one that sets it aside goes back to  *)
(* the direct build.                                                       *)
LEMMA BackToTheBuild ==
  ASSUME Agreeable, NEW c, NEW t \in TransitionsIn(<<"backend_cell", c>>, registered),
         to(t) # "not_applicable"
  PROVE  \E u \in TransitionsIn(<<"backend_cell", c>>, registered) :
           from(u) = "eligible" /\ to(u) = "direct_built"
<1> DEFINE T == TransitionsIn(<<"backend_cell", c>>, registered)
<1>1. \A u \in T : to(u) # "not_applicable" => legalCellTransition(from(u), to(u))
  BY OfOneSubject DEF Taken
<1>2. ASSUME NEW u \in T, to(u) = "direct_built" PROVE from(u) = "eligible"
  BY <1>1, <1>2 DEF legalCellTransition
<1>3. ASSUME NEW u \in T, to(u) = "hard_gates_green"
      PROVE  \E v \in T : to(v) = "direct_built"
  <2>1. from(u) = "direct_built"
    BY <1>1, <1>3 DEF legalCellTransition
  <2>2. QED
    BY <2>1, Preceded
<1>4. ASSUME NEW u \in T, to(u) = "dispatch_candidate"
      PROVE  \E v \in T : to(v) = "direct_built"
  <2>1. from(u) = "hard_gates_green"
    BY <1>1, <1>4 DEF legalCellTransition
  <2>2. QED
    BY <2>1, <1>3, Preceded
<1>5. ASSUME to(t) \in {"selected", "direct_only"} PROVE \E v \in T : to(v) = "direct_built"
  <2>1. from(t) = "dispatch_candidate"
    BY <1>1, <1>5 DEF legalCellTransition
  <2>2. QED
    BY <2>1, <1>4, Preceded
<1>6. to(t) \in {"direct_built", "hard_gates_green", "dispatch_candidate", "selected",
                 "direct_only"}
  BY <1>1 DEF legalCellTransition
<1>7. QED
  BY <1>2, <1>3, <1>4, <1>5, <1>6

(* A cell set aside was set aside at once.                                 *)
LEMMA AsideAtOnce ==
  ASSUME Agreeable, NEW c, <<"backend_cell", c>> \in Subjects,
         states[<<"backend_cell", c>>] = "not_applicable"
  PROVE  Closes(TransitionsIn(<<"backend_cell", c>>, registered), CellChain("not_applicable"))
<1> DEFINE T == TransitionsIn(<<"backend_cell", c>>, registered)
<1>1. PICK d \in T : to(d) = "not_applicable"
  BY Reached DEF Unset
<1>2. from(d) = "eligible"
  BY <1>1, OfOneSubject DEF Taken
<1>3. \A t \in T : to(t) = "not_applicable"
  <2> SUFFICES ASSUME NEW t \in T, to(t) # "not_applicable" PROVE FALSE
    OBVIOUS
  <2>1. PICK u \in T : from(u) = "eligible" /\ to(u) = "direct_built"
    BY BackToTheBuild
  <2>2. QED
    BY <1>1, <1>2, <2>1, Alone, OfOneSubject
<1>4. \A t \in T : t = d
  BY <1>1, <1>3, Alone, OfOneSubject
<1>5. {<<from(t), to(t)>> : t \in T} = {<<"eligible", "not_applicable">>}
  BY <1>1, <1>2, <1>4
<1>6. QED
  BY <1>4, <1>5, OfOneSubject DEF Closes, CellChain

(* A cell that was decided went through its whole chain, and has no other  *)
(* end.                                                                    *)
LEMMA CellChainRuns ==
  ASSUME Agreeable, NEW c, <<"backend_cell", c>> \in Subjects,
         NEW end \in {"selected", "direct_only"}, states[<<"backend_cell", c>>] = end
  PROVE  Closes(TransitionsIn(<<"backend_cell", c>>, registered), CellChain(end))
<1> DEFINE T == TransitionsIn(<<"backend_cell", c>>, registered)
<1>0. \A t \in T : Moves(t)
  BY OfOneSubject
<1>1. \A t \in T : to(t) # "not_applicable" => legalCellTransition(from(t), to(t))
  BY OfOneSubject DEF Taken
<1>2. PICK e \in T : to(e) = end
  BY Reached DEF Unset
<1>3. from(e) = "dispatch_candidate"
  BY <1>1, <1>2 DEF legalCellTransition
<1>4. PICK d \in T : to(d) = "dispatch_candidate"
  BY <1>3, Preceded
<1>5. from(d) = "hard_gates_green"
  BY <1>1, <1>4 DEF legalCellTransition
<1>6. PICK b \in T : to(b) = "hard_gates_green"
  BY <1>5, Preceded
<1>7. from(b) = "direct_built"
  BY <1>1, <1>6 DEF legalCellTransition
<1>8. PICK a \in T : from(a) = "eligible" /\ to(a) = "direct_built"
  BY <1>2, BackToTheBuild
<1>9. ASSUME NEW t \in T PROVE t \in {a, b, d, e}
  <2>1. to(t) # "not_applicable"
    <3>1. to(t) = "not_applicable" => from(t) = "eligible"
      BY OfOneSubject DEF Taken
    <3>2. QED
      BY <3>1, <1>0, <1>8, Alone
  <2>2. legalCellTransition(from(t), to(t))
    BY <2>1, <1>1
  <2>3. from(t) \in {"eligible", "direct_built", "hard_gates_green", "dispatch_candidate"}
    BY <2>2 DEF legalCellTransition
  <2>4. QED
    BY <2>3, <1>0, <1>3, <1>5, <1>7, <1>8, Alone
<1>10. {<<from(t), to(t)>> : t \in T} = CellChain(end)
  <2>1. \A t \in T : <<from(t), to(t)>> \in CellChain(end)
    BY <1>2, <1>3, <1>4, <1>5, <1>6, <1>7, <1>8, <1>9 DEF CellChain
  <2>2. \A pair \in CellChain(end) : \E t \in T : pair = <<from(t), to(t)>>
    BY <1>2, <1>3, <1>4, <1>5, <1>6, <1>7, <1>8 DEF CellChain
  <2>3. QED
    BY <2>1, <2>2
<1>11. \A t, u \in T : to(t) = to(u) => t = u
  BY <1>0, Alone
<1>12. QED
  BY <1>10, <1>11, OfOneSubject DEF Closes

-----------------------------------------------------------------------------
(* From the registry to the audit *)

Settled == \A s \in PlannedSubjects : s \in Subjects /\ states[s] \in Final(s)

LEMMA ProofsStand ==
  ASSUME Agreeable, NEW s, NEW t \in TransitionsIn(s, registered), NEW p \in Record[t].proofs
  PROVE  /\ ProofStands(t, p, registered)
         /\ subject(p) # "none" => SubjectOf(p) = s
<1>1. Taken(t, registered) /\ subject(t) \in {"row", "backend_cell"} /\ SubjectOf(t) = s
  BY OfOneSubject
<1>2. ProofsAdmissible(t, registered)
  BY <1>1 DEF Taken
<1>3. p \in registered /\ sameProofContext(t, p)
  BY <1>2 DEF ProofsAdmissible
<1>4. output(p) # "state-transition" => subject(p) = "none"
  BY <1>2 DEF ProofsAdmissible
<1>5. output(p) = "state-transition" =>
        /\ SubjectOf(p) = s
        /\ to(t) = "dispatch_candidate" /\ to(p) = "hard_gates_green"
  <2>1. output(p) = "state-transition" =>
          to(t) = "dispatch_candidate" /\ to(p) = "hard_gates_green"
    BY <1>2 DEF ProofsAdmissible
  <2>2. output(p) = "state-transition" => SubjectOf(p) = SubjectOf(t)
    <3>1. "state-transition" \notin TerminalProofKinds
      BY DEF TerminalProofKinds
    <3>2. QED
      BY <1>3, <3>1 DEF sameProofContext
  <2>3. QED
    BY <1>1, <2>1, <2>2
<1>6. p # t
  BY <1>1, <1>4, <1>5
<1>7. QED
  BY <1>3, <1>4, <1>5, <1>6 DEF ProofStands

LEMMA ClaimsOfThePlanned ==
  ASSUME ~ Objectionable(registered), NEW s \in PlannedSubjects,
         NEW t \in TransitionsIn(s, registered)
  PROVE  /\ to(t) \notin {"selected", "direct_only"} => Record[t].qualification = ""
         /\ to(t) \in {"direct_built", "hard_gates_green"} => Record[t].disposition = ""
         /\ subject(t) = "row" => \A p \in Record[t].proofs : UsesFinalSource(p)
         /\ \A o \in PlannedSubjects : \A u \in TransitionsIn(o, registered) :
              s # o => Record[t].proofs \cap Record[u].proofs = {}
<1> DEFINE T == UNION {TransitionsIn(o, registered) : o \in PlannedSubjects}
<1>1. \A o \in PlannedSubjects : \A u \in TransitionsIn(o, registered) :
        u \in T /\ SubjectOf(u) = o
  BY DEF TransitionsIn
<1>2. \A v \in T :
        /\ ~ (to(v) \notin {"selected", "direct_only"} /\ Record[v].qualification # "")
        /\ ~ (to(v) \in {"direct_built", "hard_gates_green"} /\ Record[v].disposition # "")
        /\ ~ (subject(v) = "row" /\ \E p \in Record[v].proofs : ~ UsesFinalSource(p))
        /\ ~ \E u \in T : /\ SubjectOf(v) # SubjectOf(u)
                          /\ Record[v].proofs \cap Record[u].proofs # {}
  BY DEF Objectionable
<1> HIDE DEF T
<1>3. t \in T
  BY <1>1
<1>4. ASSUME NEW o \in PlannedSubjects, NEW u \in TransitionsIn(o, registered), s # o
      PROVE  Record[t].proofs \cap Record[u].proofs = {}
  <2>1. u \in T /\ SubjectOf(t) # SubjectOf(u)
    BY <1>1, <1>4
  <2>2. QED
    BY <1>2, <1>3, <2>1
<1>5. QED
  BY <1>2, <1>3, <1>4

LEMMA RowsClose ==
  ASSUME Agreeable, Settled, ~ Objectionable(registered), NEW r \in PlannedRows
  PROVE  RowCloses(r, registered)
<1> DEFINE s == <<"row", r>>
           T == TransitionsIn(s, registered)
<1>1. s \in PlannedSubjects
  BY DEF PlannedSubjects
<1>2. s \in Subjects /\ states[s] = "complete"
  BY <1>1 DEF Settled, Final
<1>3. Closes(T, RowChain)
  BY <1>2, RowChainRuns
<1>4. \A t \in T : output(t) = "state-transition" /\ Unqualified(t)
  BY OfOneSubject DEF Taken
<1>5. \A t \in T : \A p \in Record[t].proofs :
        ProofStands(t, p, registered) /\ UsesFinalSource(p)
  BY <1>1, ProofsStand, ClaimsOfThePlanned, OfOneSubject
<1>6. QED
  BY <1>3, <1>4, <1>5 DEF RowCloses

LEMMA CellsClose ==
  ASSUME Agreeable, Settled, ~ Objectionable(registered), NEW c \in PlannedCells
  PROVE  \E end \in Ends(c) : CellCloses(c, end, registered)
<1> DEFINE s == <<"backend_cell", c>>
           T == TransitionsIn(s, registered)
<1>1. s \in PlannedSubjects
  BY DEF PlannedSubjects
<1>2. s \in Subjects /\ states[s] \in Final(s)
  BY <1>1 DEF Settled
<1>3. \A t \in T : \A p \in Record[t].proofs : ProofStands(t, p, registered)
  BY ProofsStand
<1>4. \A t \in T : Taken(t, registered) /\ subject(t) = "backend_cell"
  BY OfOneSubject
<1>5. \A t \in T :
        /\ to(t) \notin {"selected", "direct_only"} => Record[t].qualification = ""
        /\ to(t) \in {"direct_built", "hard_gates_green"} => Record[t].disposition = ""
  BY <1>1, ClaimsOfThePlanned
<1>6. CASE Plan[c].outcome = "not_applicable"
  <2> DEFINE end == <<"not_applicable", "">>
  <2>1. states[s] = "not_applicable" /\ end \in Ends(c)
    BY <1>2, <1>6 DEF Final, Ends
  <2>2. Closes(T, CellChain(end[1]))
    BY <1>2, <2>1, AsideAtOnce
  <2>3. \A t \in T : to(t) = "not_applicable"
    <3>1. \A t \in T : <<from(t), to(t)>> \in CellChain("not_applicable")
      BY <2>2 DEF Closes
    <3>2. QED
      BY <3>1 DEF CellChain
  <2>4. \A t \in T : /\ output(t) = "not-applicable"
                    /\ <<Record[t].disposition, Record[t].qualification>> = end
    BY <1>4, <1>5, <2>3 DEF Taken
  <2>5. CellCloses(c, end, registered)
    BY <1>3, <2>2, <2>3, <2>4 DEF CellCloses
  <2>6. QED
    BY <2>1, <2>5
<1>7. CASE Plan[c].outcome # "not_applicable"
  <2>1. states[s] \in {"selected", "direct_only"}
    BY <1>2, <1>7 DEF Final
  <2>2. PICK d \in T : to(d) = states[s]
    BY <1>2, <2>1, Reached DEF Unset
  <2> DEFINE end == <<states[s], Record[d].qualification>>
  <2>3. end \in Ends(c)
    BY <1>4, <1>7, <2>1, <2>2 DEF Taken, Ends
  <2>4. Closes(T, CellChain(end[1]))
    BY <1>2, <2>1, CellChainRuns
  <2>5. \A t \in T : to(t) # "not_applicable"
    <3>1. \A t \in T : <<from(t), to(t)>> \in CellChain(states[s])
      BY <2>4 DEF Closes
    <3>2. QED
      BY <2>1, <3>1 DEF CellChain
  <2>6. \A t \in T : output(t) = "state-transition"
    BY <1>4, <2>5 DEF Taken
  <2>7. ASSUME NEW t \in T
        PROVE  <<Record[t].disposition, Record[t].qualification>> =
                 IF to(t) = end[1] THEN end ELSE <<"", "">>
    <3>1. CASE to(t) = states[s]
      <4>1. t = d
        BY <2>2, <3>1, Alone, OfOneSubject
      <4>2. Record[d].disposition = states[s]
        BY <1>4, <2>1, <2>2 DEF Taken
      <4>3. QED
        BY <3>1, <4>1, <4>2
    <3>2. CASE to(t) # states[s]
      <4>1. <<from(t), to(t)>> \in CellChain(states[s])
        BY <2>4 DEF Closes
      <4>2. to(t) \in {"direct_built", "hard_gates_green", "dispatch_candidate"}
        BY <2>1, <3>2, <4>1 DEF CellChain
      <4>3. Record[t].qualification = ""
        BY <1>5, <4>2
      <4>4. Record[t].disposition = ""
        BY <1>4, <1>5, <4>2 DEF Taken, Unqualified
      <4>5. QED
        BY <3>2, <4>3, <4>4
    <3>3. QED
      BY <3>1, <3>2
  <2>8. CellCloses(c, end, registered)
    BY <1>3, <2>4, <2>5, <2>6, <2>7 DEF CellCloses
  <2>9. QED
    BY <2>3, <2>8
<1>8. QED
  BY <1>6, <1>7

LEMMA NothingReused ==
  ASSUME Agreeable, ~ Objectionable(registered)
  PROVE  NoneReused(registered)
<1> DEFINE receipts == [s \in PlannedSubjects |-> ReceiptsOf(s, registered)]
<1> SUFFICES ASSUME NEW s \in PlannedSubjects, NEW o \in PlannedSubjects, s # o,
                    NEW x, x \in ReceiptsOf(s, registered), x \in ReceiptsOf(o, registered)
             PROVE  FALSE
  BY DEF NoneReused
<1>1. x \in TransitionsIn(s, registered)
        \/ \E t \in TransitionsIn(s, registered) : x \in Record[t].proofs
  BY DEF ReceiptsOf
<1>2. x \in TransitionsIn(o, registered)
        \/ \E u \in TransitionsIn(o, registered) : x \in Record[u].proofs
  BY DEF ReceiptsOf
<1>3. \A p \in PlannedSubjects, q \in PlannedSubjects :
        p # q /\ x \in TransitionsIn(p, registered) =>
          /\ x \notin TransitionsIn(q, registered)
          /\ \A u \in TransitionsIn(q, registered) : x \notin Record[u].proofs
  BY ProofsStand, OfOneSubject
<1>4. \A t \in TransitionsIn(s, registered), u \in TransitionsIn(o, registered) :
        ~ (x \in Record[t].proofs /\ x \in Record[u].proofs)
  BY ClaimsOfThePlanned
<1>5. QED
  BY <1>1, <1>2, <1>3, <1>4

LEMMA SettledIsCompletable ==
  ASSUME Agreeable, Settled, ~ Objectionable(registered)
  PROVE  Completable(registered)
<1>1. \A r \in PlannedRows : RowCloses(r, registered)
  BY RowsClose
<1>2. validateFamilyPublication(registered)
  <2> SUFFICES ASSUME NEW r \in PlannedRows
               PROVE  \E t \in TransitionsIn(<<"row", r>>, registered) :
                        /\ to(t) = "family_published" /\ from(t) = "scalar_green"
                        /\ UsesFinalSource(t)
                        /\ \A u \in TransitionsIn(<<"row", r>>, registered) :
                             to(u) = "family_published" => u = t
    BY DEF validateFamilyPublication
  <2> DEFINE T == TransitionsIn(<<"row", r>>, registered)
  <2>1. Closes(T, RowChain)
    BY <1>1 DEF RowCloses
  <2>2. <<"scalar_green", "family_published">> \in {<<from(t), to(t)>> : t \in T}
    BY <2>1 DEF Closes, RowChain
  <2>3. PICK t \in T : <<"scalar_green", "family_published">> = <<from(t), to(t)>>
    BY <2>2
  <2>4. QED
    BY <2>1, <2>3 DEF Closes
<1>3. validateCompletionRegistry(registered)
  BY DEF Objectionable
<1>4. QED
  BY <1>1, <1>2, <1>3, CellsClose, NothingReused DEF Completable

-----------------------------------------------------------------------------
(* From the audit to the registry *)

(* Where a closed chain ends, nothing leaves.                              *)
LEMMA EndOfChain ==
  ASSUME Agreeable, NEW s, NEW chain, Closes(TransitionsIn(s, registered), chain),
         NEW a, NEW b, <<a, b>> \in chain, \A pair \in chain : pair[1] # b
  PROVE  s \in Subjects /\ states[s] = b
<1> DEFINE T == TransitionsIn(s, registered)
<1>1. \A t \in T : <<from(t), to(t)>> \in chain
  BY DEF Closes
<1>2. <<a, b>> \in {<<from(t), to(t)>> : t \in T}
  BY DEF Closes
<1>3. PICK t \in T : <<a, b>> = <<from(t), to(t)>>
  BY <1>2
<1>4. s \in Subjects /\ t \in Transitions(s)
  BY <1>3, OfOneSubject DEF Transitions, TransitionsIn
<1>5. to(t) = states[s] \/ \E u \in Transitions(s) : from(u) = to(t)
  <2>1. CASE Moves(t)
    BY <1>4, <2>1 DEF Agreeable, History, UnbranchedHistory
  <2>2. CASE ~ Moves(t)
    <3>1. from(t) = states[s]
      BY <1>4, <2>2 DEF Agreeable, History, UnbranchedHistory
    <3>2. QED
      BY <2>2, <3>1 DEF Moves
  <2>3. QED
    BY <2>1, <2>2
<1>6. \A u \in Transitions(s) : from(u) # b
  <2> SUFFICES ASSUME NEW u \in Transitions(s) PROVE from(u) # b
    OBVIOUS
  <2>1. <<from(u), to(u)>> \in chain
    BY <1>1 DEF Transitions, TransitionsIn
  <2>2. <<from(u), to(u)>>[1] # b
    BY <2>1
  <2>3. QED
    BY <2>2
<1>7. QED
  BY <1>3, <1>4, <1>5, <1>6

LEMMA CompletableIsSettled ==
  ASSUME Agreeable, Completable(registered)
  PROVE  Settled
<1> SUFFICES ASSUME NEW s \in PlannedSubjects PROVE s \in Subjects /\ states[s] \in Final(s)
  BY DEF Settled
<1>1. CASE \E r \in PlannedRows : s = <<"row", r>>
  <2>1. PICK r \in PlannedRows : s = <<"row", r>>
    BY <1>1
  <2>2. Closes(TransitionsIn(s, registered), RowChain)
    BY <2>1 DEF Completable, RowCloses
  <2>3. /\ <<"family_published", "complete">> \in RowChain
        /\ \A pair \in RowChain : pair[1] # "complete"
    BY DEF RowChain
  <2>4. s \in Subjects /\ states[s] = "complete"
    BY <2>2, <2>3, EndOfChain
  <2>5. QED
    BY <2>1, <2>4 DEF Final
<1>2. CASE \E c \in PlannedCells : s = <<"backend_cell", c>>
  <2>1. PICK c \in PlannedCells : s = <<"backend_cell", c>>
    BY <1>2
  <2>2. PICK end \in Ends(c) : CellCloses(c, end, registered)
    BY DEF Completable
  <2>3. Closes(TransitionsIn(s, registered), CellChain(end[1]))
    BY <2>1, <2>2 DEF CellCloses
  <2>4. CASE Plan[c].outcome = "not_applicable"
    <3>1. end[1] = "not_applicable"
      <4>1. end = <<"not_applicable", "">>
        BY <2>4 DEF Ends
      <4>2. QED
        BY <4>1
    <3>2. /\ <<"eligible", "not_applicable">> \in CellChain(end[1])
          /\ \A pair \in CellChain(end[1]) : pair[1] # "not_applicable"
      BY <3>1 DEF CellChain
    <3>3. s \in Subjects /\ states[s] = "not_applicable"
      BY <2>3, <3>2, EndOfChain
    <3>4. QED
      BY <2>1, <2>4, <3>3 DEF Final
  <2>5. CASE Plan[c].outcome # "not_applicable"
    <3>1. end[1] \in {"selected", "direct_only"}
      BY <2>5 DEF Ends
    <3>2. /\ <<"dispatch_candidate", end[1]>> \in CellChain(end[1])
          /\ \A pair \in CellChain(end[1]) : pair[1] # end[1]
      BY <3>1 DEF CellChain
    <3>3. s \in Subjects /\ states[s] = end[1]
      BY <2>3, <3>2, EndOfChain
    <3>4. QED
      BY <2>1, <2>5, <3>1, <3>3 DEF Final
  <2>6. QED
    BY <2>4, <2>5
<1>3. QED
  BY <1>1, <1>2 DEF PlannedSubjects

LEMMA CompletableIsUnobjectionable ==
  ASSUME Agreeable, Completable(registered)
  PROVE  ~ Objectionable(registered)
<1> DEFINE T == UNION {TransitionsIn(s, registered) : s \in PlannedSubjects}
<1>1. validateCompletionRegistry(registered)
  BY DEF Completable
<1>2. ASSUME NEW t \in T
      PROVE  /\ to(t) \notin {"selected", "direct_only"} => Record[t].qualification = ""
             /\ to(t) \in {"direct_built", "hard_gates_green"} => Record[t].disposition = ""
             /\ subject(t) = "row" => \A p \in Record[t].proofs : UsesFinalSource(p)
             /\ \A u \in T : SubjectOf(t) # SubjectOf(u)
                               => Record[t].proofs \cap Record[u].proofs = {}
  <2>1. PICK s \in PlannedSubjects : t \in TransitionsIn(s, registered)
    OBVIOUS
  <2>2. SubjectOf(t) = s /\ subject(t) = s[1] /\ Taken(t, registered)
    BY <2>1, OfOneSubject
  <2>3. \A u \in T : SubjectOf(t) # SubjectOf(u) => Record[t].proofs \cap Record[u].proofs = {}
    <3> SUFFICES ASSUME NEW u \in T, SubjectOf(u) # s
                 PROVE  Record[t].proofs \cap Record[u].proofs = {}
      BY <2>2
    <3>1. PICK o \in PlannedSubjects : u \in TransitionsIn(o, registered)
      OBVIOUS
    <3>2. o # s
      BY <3>1, OfOneSubject
    <3>3. ReceiptsOf(s, registered) \cap ReceiptsOf(o, registered) = {}
      BY <3>2 DEF Completable, NoneReused
    <3>4. /\ Record[t].proofs \subseteq ReceiptsOf(s, registered)
          /\ Record[u].proofs \subseteq ReceiptsOf(o, registered)
      BY <2>1, <3>1 DEF ReceiptsOf
    <3>5. QED
      BY <3>3, <3>4
  <2>4. CASE \E r \in PlannedRows : s = <<"row", r>>
    <3>1. PICK r \in PlannedRows : s = <<"row", r>>
      BY <2>4
    <3>2. RowCloses(r, registered)
      BY DEF Completable
    <3>3. Unqualified(t) /\ \A p \in Record[t].proofs : UsesFinalSource(p)
      BY <2>1, <3>1, <3>2 DEF RowCloses
    <3>4. QED
      BY <2>3, <3>3 DEF Unqualified
  <2>5. CASE \E c \in PlannedCells : s = <<"backend_cell", c>>
    <3>1. PICK c \in PlannedCells : s = <<"backend_cell", c>>
      BY <2>5
    <3>2. PICK end \in Ends(c) : CellCloses(c, end, registered)
      BY DEF Completable
    <3>3. <<Record[t].disposition, Record[t].qualification>> =
            IF to(t) = end[1] THEN end ELSE <<"", "">>
      BY <2>1, <3>1, <3>2 DEF CellCloses
    <3>4. end \in {<<"not_applicable", "">>, <<"selected", "pass">>, <<"direct_only", "fail">>,
                   <<"direct_only", "inconclusive">>}
      BY DEF Ends
    <3>5. /\ to(t) \notin {"selected", "direct_only"} => Record[t].qualification = ""
          /\ to(t) \in {"direct_built", "hard_gates_green"} => Record[t].disposition = ""
      <4>1. CASE to(t) # end[1]
        BY <3>3, <4>1
      <4>2. CASE to(t) = end[1]
        <5>1. <<Record[t].disposition, Record[t].qualification>> = end
          BY <3>3, <4>2
        <5>2. end[2] = Record[t].qualification
          BY <5>1
        <5>3. end[1] \in {"not_applicable", "selected", "direct_only"}
                /\ (end[1] \notin {"selected", "direct_only"} => end[2] = "")
          <6>1. CASE end = <<"not_applicable", "">>
            BY <6>1
          <6>2. CASE end = <<"selected", "pass">>
            BY <6>2
          <6>3. CASE end = <<"direct_only", "fail">>
            BY <6>3
          <6>4. CASE end = <<"direct_only", "inconclusive">>
            BY <6>4
          <6>5. QED
            BY <3>4, <6>1, <6>2, <6>3, <6>4
        <5>4. QED
          BY <4>2, <5>2, <5>3
      <4>3. QED
        BY <4>1, <4>2
    <3>6. subject(t) = "backend_cell"
      BY <2>2, <3>1
    <3> HIDE DEF T
    <3>7. QED
      BY <2>3, <3>5, <3>6
  <2>6. (\E r \in PlannedRows : s = <<"row", r>>) \/ \E c \in PlannedCells : s = <<"backend_cell", c>>
    BY <2>1 DEF PlannedSubjects
  <2> HIDE DEF T
  <2>7. QED
    BY <2>4, <2>5, <2>6
<1>3. QED
  BY <1>1, <1>2 DEF Objectionable

(* For every campaign, every plan and every order of records: a completion *)
(* document passes the audit exactly when the registry holds every planned *)
(* row and cell at its end and nothing registered is objectionable.        *)
THEOREM Agreement == RegistrySpec => []CompletableWhenSettled
<1>1. Agreeable => CompletableWhenSettled
  BY SettledIsCompletable, CompletableIsSettled, CompletableIsUnobjectionable
     DEF CompletableWhenSettled, Settled
<1>2. QED
  BY <1>1, HistoryInvariant, StandingInvariant, TakenInvariant, PTL DEF Agreeable
=============================================================================
