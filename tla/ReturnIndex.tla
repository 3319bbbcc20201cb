------------------------------ MODULE ReturnIndex ------------------------------
(***************************************************************************)
(* simdutf-evidence return-index: the records of a directory, in the order *)
(* of their file names, are presented to an empty registry again and again *)
(* until a pass registers nothing; what is left is presented once more and *)
(* fails the command; then every required output must have been returned.  *)
(***************************************************************************)
EXTENDS EvidenceRegistry, Sequences

CONSTANT Listings  \* the directories explored: sequences of receipts

ASSUME ListingsAssumption == Listings \subseteq Seq(Receipts)

VARIABLES
  files,     \* the directory's records, in name order
  done,      \* indexes whose record was registered
  pass, at,  \* the loops' counters; at is i + 1
  progress,
  pc

vars == <<registered, states, files, done, pass, at, progress, pc>>

Init ==
  /\ RegistryInit
  /\ files \in Listings
  /\ done = {} /\ pass = 0 /\ at = 1 /\ progress = FALSE
  /\ pc = "pass"

Ended == {"ok", "failed"}

(* "return-index registry is empty"                                        *)
Empty ==
  /\ pc = "pass" /\ files = << >>
  /\ pc' = "failed"
  /\ UNCHANGED <<registered, states, files, done, pass, at, progress>>

Skip ==
  /\ pc = "pass" /\ at <= Len(files) /\ at \in done
  /\ at' = at + 1
  /\ UNCHANGED <<registered, states, files, done, pass, progress, pc>>

(* Variant: the registry is written before it is asked.                    *)
AcceptFirst ==
  /\ pc = "pass" /\ at <= Len(files) /\ at \notin done
  /\ commitAdd(files[at])
  /\ IF Valid(files[at]) THEN done' = done \cup {at} /\ progress' = TRUE
                         ELSE UNCHANGED <<done, progress>>
  /\ at' = at + 1
  /\ UNCHANGED <<files, pass, pc>>

Accept ==
  /\ pc = "pass" /\ at <= Len(files) /\ at \notin done
  /\ Register(files[at])
  /\ done' = done \cup {at} /\ progress' = TRUE /\ at' = at + 1
  /\ UNCHANGED <<files, pass, pc>>

Refuse ==
  /\ pc = "pass" /\ at <= Len(files) /\ at \notin done
  /\ ~ Valid(files[at])
  /\ at' = at + 1
  /\ UNCHANGED <<registered, states, files, done, pass, progress, pc>>

EndOfPass == pc = "pass" /\ files # << >> /\ at > Len(files)

(* Variant: one pass is thought enough.                                    *)
NextPassNever ==
  /\ EndOfPass /\ progress /\ pass + 1 < Len(files)
  /\ pc' = "sweep" /\ at' = 1
  /\ UNCHANGED <<registered, states, files, done, pass, progress>>

(* Variant: passes go on as long as records are left.                      *)
NextPassForced ==
  /\ EndOfPass /\ done # DOMAIN files
  /\ pass' = 0 /\ at' = 1 /\ progress' = FALSE
  /\ UNCHANGED <<registered, states, files, done, pc>>

NextPass ==
  /\ EndOfPass /\ progress /\ pass + 1 < Len(files)
  /\ pass' = pass + 1 /\ at' = 1 /\ progress' = FALSE
  /\ UNCHANGED <<registered, states, files, done, pc>>

LastPass ==
  /\ EndOfPass /\ ~ (progress /\ pass + 1 < Len(files))
  /\ pc' = "sweep" /\ at' = 1
  /\ UNCHANGED <<registered, states, files, done, pass, progress>>

(* The sweep presents what is left once more and reports the first error.  *)
(* What it would still register it registers.                              *)
Sweep ==
  /\ pc = "sweep" /\ at <= Len(files)
  /\ LET left  == at \notin done
         valid == Valid(files[at])
     IN  /\ IF left /\ valid THEN commitAdd(files[at]) ELSE UNCHANGED registryVars
         /\ IF left /\ ~ valid THEN pc' = "failed" /\ UNCHANGED at
                               ELSE at' = at + 1 /\ UNCHANGED pc
  /\ UNCHANGED <<files, done, pass, progress>>

(* RenderReturnIndexV1: each output of each command, and nothing else.     *)
Complete(R) ==
  /\ \A c \in Commands : \A kind \in Outputs(c) : registeredCommandOutput(R, c, kind)
  /\ \A q \in R : output(q) \in Outputs(Record[q].command)

Gate ==
  /\ pc = "sweep" /\ at > Len(files)
  /\ pc' = IF Complete(registered) THEN "ok" ELSE "failed"
  /\ UNCHANGED <<registered, states, files, done, pass, at, progress>>

Next == Empty \/ Skip \/ Accept \/ Refuse \/ NextPass \/ LastPass \/ Sweep \/ Gate

Spec == Init /\ [][Next]_vars /\ WF_vars(Next)

-----------------------------------------------------------------------------
(* Properties *)

(* The loops stay in their bounds, and the registry holds the records that *)
(* were accepted and nothing of those that were refused.                   *)
TypeOK ==
  /\ RegistryTypeOK
  /\ files \in Listings
  /\ done \subseteq DOMAIN files
  /\ pass \in 0..Len(files) /\ at \in 1..(Len(files) + 1)
  /\ progress \in BOOLEAN /\ pc \in {"pass", "sweep"} \cup Ended
  /\ registered = {files[i] : i \in done}

(* Taken together, without an order: no output is returned twice, every    *)
(* record is supported by the others, and each subject's transitions leave *)
(* from its initial state or from where another one arrived; those that    *)
(* move it start once and leave each from a state of its own.              *)
Consistent(listing) ==
  LET R    == {listing[i] : i \in DOMAIN listing}
      T    == {r \in R : subject(r) # "none"}
      Path == {t \in T : Moves(t)}
  IN  /\ \A i, j \in DOMAIN listing :
           /\ Record[listing[i]].command = Record[listing[j]].command
           /\ output(listing[i]) = output(listing[j])
           => i = j
      /\ \A r \in R : Supported(r, R)
      /\ \A t, u \in Path :
           SubjectOf(u) = SubjectOf(t) /\ (from(u) = from(t) \/ (Starts(u) /\ Starts(t))) => u = t
      /\ \A t \in T :
           Starts(t) \/ \E u \in Path : SubjectOf(u) = SubjectOf(t) /\ to(u) = from(t)

(* Where every cell is benchmarked in one batch, the command succeeds      *)
(* exactly for complete and consistent evidence: what the files are called *)
(* does not matter, a pass for each record is enough, and the last sweep   *)
(* never saves a record the passes gave up.                                *)
VerdictOfTheSet ==
  OneBatch /\ pc \in Ended =>
    (pc = "ok" <=> /\ files # << >>
                   /\ Consistent(files)
                   /\ Complete({files[i] : i \in DOMAIN files}))

(* A frozen campaign may benchmark a cell in two batches, but a comparison *)
(* is taken only while the cell has one benchmark of each source: what the *)
(* first batch has returned refuses the second one's for good.  Evidence   *)
(* that is accepted, each comparison that of its own batch, is of a        *)
(* campaign with one batch for each row and cell.                          *)
BatchesShareNoCell ==
  /\ pc = "ok"
  /\ \A r \in registered : output(r) = "benchstat" =>
       \A i \in {1, 2} : command(Record[r].pair[i]).batch = command(r).batch
  => OneBatch

(* Seen from its rows, cells and verdict the command is PortLifecycle: a   *)
(* subject no record has moved is where every subject starts.              *)
StageOf(s, first) == IF states[s] = Unset THEN first ELSE states[s]

Lifecycle == INSTANCE PortLifecycle WITH
  Rows    <- {Campaign[c].row : c \in Commands},
  Cells   <- {Campaign[c].cell : c \in Commands},
  row     <- [r \in {Campaign[c].row : c \in Commands} |->
                StageOf(<<"row", r>>, "snapshot_planned")],
  cell    <- [b \in {Campaign[c].cell : c \in Commands} |->
                StageOf(<<"backend_cell", b>>, "eligible")],
  verdict <- CASE pc = "ok" -> "accepted" [] pc = "failed" -> "refused" [] OTHER -> "open"

(* Whatever order the records are in, and whatever is wrong with them, the *)
(* stages advance one at a time along the code's tables, a row that has    *)
(* lost its stage gets none again, a refused record moves nothing, and the *)
(* passes end in a verdict after which nothing moves.                      *)
FollowsLifecycle == Lifecycle!Spec
=============================================================================
