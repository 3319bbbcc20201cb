--------------------------- MODULE PortLifecycle ---------------------------
(***************************************************************************)
(* What a reader of the evidence may rely on, evidence left out: a row of  *)
(* the port goes through its five stages one by one, a cell through its    *)
(* four or straight to not_applicable, nothing ever goes back or leaps,    *)
(* one of them moves at a time, and the verdict, which always comes, is    *)
(* final: nothing moves after it.  A row may lose its stage before the     *)
(* first step or after the last, never on the way, and gets none again.    *)
(***************************************************************************)
CONSTANTS Rows, Cells

VARIABLES
  row,      \* row -> its stage, or none
  cell,     \* cell -> its stage
  verdict   \* "open", "accepted" or "refused"

vars == <<row, cell, verdict>>

NoStage == ""

AfterRow(stage) ==
  CASE stage = "snapshot_planned" -> {"scalar_private", NoStage}
    [] stage = "scalar_private"   -> {"scalar_green"}
    [] stage = "scalar_green"     -> {"family_published"}
    [] stage = "family_published" -> {"complete"}
    [] stage = "complete"         -> {NoStage}
    [] OTHER                      -> {}

AfterCell(stage) ==
  CASE stage = "eligible"           -> {"direct_built", "not_applicable"}
    [] stage = "direct_built"       -> {"hard_gates_green"}
    [] stage = "hard_gates_green"   -> {"dispatch_candidate"}
    [] stage = "dispatch_candidate" -> {"selected", "direct_only"}
    [] OTHER                        -> {}

Init ==
  /\ row = [r \in Rows |-> "snapshot_planned"]
  /\ cell = [c \in Cells |-> "eligible"]
  /\ verdict = "open"

AdvanceRow ==
  /\ verdict = "open"
  /\ \E r \in Rows : \E stage \in AfterRow(row[r]) : row' = [row EXCEPT ![r] = stage]
  /\ UNCHANGED <<cell, verdict>>

AdvanceCell ==
  /\ verdict = "open"
  /\ \E c \in Cells : \E stage \in AfterCell(cell[c]) : cell' = [cell EXCEPT ![c] = stage]
  /\ UNCHANGED <<row, verdict>>

Decide ==
  /\ verdict = "open"
  /\ verdict' \in {"accepted", "refused"}
  /\ UNCHANGED <<row, cell>>

Next == AdvanceRow \/ AdvanceCell \/ Decide

Moves == Init /\ [][Next]_vars

Spec == Moves /\ <>(verdict # "open")
=============================================================================
