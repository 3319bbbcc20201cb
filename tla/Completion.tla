------------------------------ MODULE Completion ------------------------------
(***************************************************************************)
(* The closing audit of the port (internal/portplan/completion.go) reads   *)
(* the registry and derives the history of every row and cell once more,   *)
(* from the receipts alone: which evidence can be closed.                  *)
(*                                                                         *)
(* A completion document names for each row and cell the receipts of its   *)
(* history; the audit derives them and compares, so they are left out of   *)
(* the document here.  What it is free to say is how a cell ended.  The    *)
(* frozen inputs are as they are regenerated, there is one family, whose   *)
(* evidence is of the campaign and the source the audit is about, and a    *)
(* record is what its receipt identity is the hash of.                     *)
(***************************************************************************)
EXTENDS EvidenceRegistry

CONSTANT Plan  \* planned cell -> [row, outcome] of the frozen classification

ASSUME PlanAssumption ==
  Plan \in [DOMAIN Plan -> [row : STRING, outcome : {"eligible", "not_applicable"}]]

(* Only direct commands produce transitions (allowedActionRoleV1).         *)
ASSUME DirectAssumption == \A r \in Receipts : subject(r) # "none" => command(r).role = "direct"

PlannedCells    == DOMAIN Plan
PlannedRows     == {Plan[c].row : c \in PlannedCells}
PlannedSubjects == ({"row"} \X PlannedRows) \cup ({"backend_cell"} \X PlannedCells)

UsesFinalSource(q) == SourceRole(q) = "new"

TransitionsIn(s, R) == {t \in R : subject(t) # "none" /\ SubjectOf(t) = s}

RowChain == {<<"snapshot_planned", "scalar_private">>, <<"scalar_private", "scalar_green">>,
             <<"scalar_green", "family_published">>, <<"family_published", "complete">>}

CellChain(end) ==
  IF end = "not_applicable" THEN {<<"eligible", "not_applicable">>}
  ELSE {<<"eligible", "direct_built">>, <<"direct_built", "hard_gates_green">>,
        <<"hard_gates_green", "dispatch_candidate">>, <<"dispatch_candidate", end>>}

(* The transitions are the chain's: each once, and no other.               *)
Closes(T, chain) ==
  /\ \A t \in T : UsesFinalSource(t)
  /\ {<<from(t), to(t)>> : t \in T} = chain
  /\ \A t, u \in T : to(t) = to(u) => t = u

ProofStands(t, p, R) == p \in R /\ p # t /\ sameProofContext(t, p)

RowCloses(r, R) ==
  LET T == TransitionsIn(<<"row", r>>, R)
  IN  /\ Closes(T, RowChain)
      /\ \A t \in T :
           /\ output(t) = "state-transition" /\ Unqualified(t)
           /\ \A p \in Record[t].proofs : ProofStands(t, p, R) /\ UsesFinalSource(p)

(* What the document may say of a cell's end: <<state, qualification>>.    *)
Ends(c) == IF Plan[c].outcome = "not_applicable" THEN {<<"not_applicable", "">>}
           ELSE {<<"selected", "pass">>, <<"direct_only", "fail">>,
                 <<"direct_only", "inconclusive">>}

(* Variant: what only the last transition may say is looked for there only.*)
CellClosesAtEnd(c, end, R) ==
  LET T == TransitionsIn(<<"backend_cell", c>>, R)
  IN  /\ Closes(T, CellChain(end[1]))
      /\ \A t \in T :
           /\ output(t) = IF to(t) = "not_applicable" THEN "not-applicable"
                                                      ELSE "state-transition"
           /\ to(t) = end[1] => <<Record[t].disposition, Record[t].qualification>> = end
           /\ \A p \in Record[t].proofs : ProofStands(t, p, R)

CellCloses(c, end, R) ==
  LET T == TransitionsIn(<<"backend_cell", c>>, R)
  IN  /\ Closes(T, CellChain(end[1]))
      /\ \A t \in T :
           /\ output(t) = IF to(t) = "not_applicable" THEN "not-applicable"
                                                      ELSE "state-transition"
           /\ <<Record[t].disposition, Record[t].qualification>> =
                IF to(t) = end[1] THEN end ELSE <<"", "">>
           /\ \A p \in Record[t].proofs : ProofStands(t, p, R)

(* The receipts a row or cell is closed with.                              *)
ReceiptsOf(s, R) ==
  LET T == TransitionsIn(s, R) IN T \cup UNION {Record[t].proofs : t \in T}

(* "proof is reused": a receipt closes one row or cell.                    *)
NoneReused(R) ==
  LET receipts == [s \in PlannedSubjects |-> ReceiptsOf(s, R)]
  IN  \A s, o \in PlannedSubjects : s # o => receipts[s] \cap receipts[o] = {}

(* Each record is of a planned row, and of a cell of this row; what it     *)
(* says of itself was checked when it was registered.                      *)
validateCompletionRegistry(R) ==
  \A q \in R : /\ command(q).row \in PlannedRows
               /\ \/ command(q).cell = ""
                  \/ /\ command(q).cell \in PlannedCells
                     /\ Plan[command(q).cell].row = command(q).row

validateFamilyPublication(R) ==
  \A r \in PlannedRows :
    \E t \in TransitionsIn(<<"row", r>>, R) :
      /\ to(t) = "family_published" /\ from(t) = "scalar_green" /\ UsesFinalSource(t)
      /\ \A u \in TransitionsIn(<<"row", r>>, R) : to(u) = "family_published" => u = t

(* Some completion document passes ValidateCompletionV1.                   *)
Completable(R) ==
  /\ \A r \in PlannedRows : RowCloses(r, R)
  /\ \A c \in PlannedCells : \E end \in Ends(c) : CellCloses(c, end, R)
  /\ NoneReused(R)
  /\ validateFamilyPublication(R)
  /\ validateCompletionRegistry(R)

-----------------------------------------------------------------------------
(* Properties *)

Final(s) ==
  CASE s[1] = "row"                                          -> {"complete"}
    [] s[1] # "row" /\ Plan[s[2]].outcome = "not_applicable" -> {"not_applicable"}
    [] OTHER                                                 -> {"selected", "direct_only"}

(* What the registry takes and the audit does not: a record of nothing     *)
(* planned, a claim made before the end or about an inapplicable cell, a   *)
(* row's proof from the old source, and one proof of two subjects.         *)
Objectionable(R) ==
  LET T == UNION {TransitionsIn(s, R) : s \in PlannedSubjects}
  IN  \/ ~ validateCompletionRegistry(R)
      \/ \E t \in T :
           \/ to(t) \notin {"selected", "direct_only"} /\ Record[t].qualification # ""
           \/ to(t) \in {"direct_built", "hard_gates_green"} /\ Record[t].disposition # ""
           \/ subject(t) = "row" /\ \E p \in Record[t].proofs : ~ UsesFinalSource(p)
           \/ \E u \in T : /\ SubjectOf(t) # SubjectOf(u)
                            /\ Record[t].proofs \cap Record[u].proofs # {}

(* The registry and the audit agree on when the port is done, in whatever  *)
(* order the evidence came: a document passes exactly when the registry    *)
(* holds every planned row complete and every planned cell at its end,     *)
(* save for the four things the registry takes and no audit ever will.     *)
CompletableWhenSettled ==
  Completable(registered) <=>
    /\ \A s \in PlannedSubjects : s \in Subjects /\ states[s] \in Final(s)
    /\ ~ Objectionable(registered)
=============================================================================
