-------------------------- MODULE FetchCorporaProofs --------------------------
(***************************************************************************)
(* For any number of processes, corpora, attempts and faults: nothing      *)
(* unverified is installed, and processes that all report success have     *)
(* certified the whole tree together.  No temporary file outlives a run    *)
(* that was not killed.                                                    *)
(*                                                                         *)
(* CertifiedTogether is not inductive: a process can report success while  *)
(* another, which saw the file before it was repaired, is about to remove  *)
(* it.  What is inductive looks at one entry at a time: once every process *)
(* is past an entry, or has seen it good and only has to say so, the entry *)
(* is good, because nobody is left who could remove it.                    *)
(***************************************************************************)
EXTENDS FetchCorpora, TLAPS

(* p will not touch entry e again in this run.                             *)
Past(p, e) == \/ cur[p] > e
              \/ cur[p] = e /\ pc[p] = "decide" /\ seen[p] = "good"

PastMeansGood ==
  \A e \in Entries : (\A p \in Procs : Past(p, e)) => dst[e] = "good"

AtEntry  == {"open", "decide", "remove", "get", "copy", "check", "install"}
AfterAll == {"stat", "create", "fill", "ok"}

(* What a process may assume of its own state at its label.                *)
Local(p) ==
  /\ pc[p] = "install" => tmp[p] = "good"
  /\ pc[p] \in AtEntry => cur[p] \in Entries
  /\ pc[p] \in AfterAll => cur[p] = N + 1

IInv == TypeOK /\ (\A p \in Procs : Local(p)) /\ PastMeansGood

-----------------------------------------------------------------------------

LEMMA InitIInv == Init => IInv
<1> SUFFICES ASSUME Init PROVE IInv
  OBVIOUS
<1>1. TypeOK
  BY NumberAssumption DEF Init, TypeOK, Labels, Running, Files, Entries
<1>2. PastMeansGood
  <2>1. PICK p \in Procs : TRUE
    BY ProcsAssumption
  <2>2. \A e \in Entries : ~ Past(p, e)
    BY <2>1, NumberAssumption DEF Init, Past, Entries
  <2> QED
    BY <2>1, <2>2 DEF PastMeansGood
<1> QED
  BY <1>1, <1>2, NumberAssumption DEF Init, IInv, Local, AtEntry, AfterAll, Entries

(* A process moves to a label and nobody else moves.                       *)
LEMMA GotoType ==
  ASSUME pc \in [Procs -> Labels], NEW p \in Procs, NEW l \in Labels, Goto(p, l)
  PROVE  /\ pc' \in [Procs -> Labels]
         /\ pc'[p] = l
         /\ \A q \in Procs \ {p} : pc'[q] = pc[q]
BY DEF Goto

LEMMA FaultType ==
  ASSUME faults \in 0..MaxFaults, Fault \/ NoFault
  PROVE  faults' \in 0..MaxFaults
BY NumberAssumption DEF Fault, NoFault

(* Which labels a step of p can lead to.                                   *)
Target(p, labels) == \E l \in labels : Goto(p, l)

LEMMA TargetType ==
  ASSUME pc \in [Procs -> Labels], NEW p \in Procs, NEW labels \in SUBSET Labels,
         Target(p, labels)
  PROVE  /\ pc' \in [Procs -> Labels]
         /\ pc'[p] \in labels
         /\ \A q \in Procs \ {p} : pc'[q] = pc[q]
BY GotoType DEF Target

-----------------------------------------------------------------------------

LEMMA AdvanceTarget ==
  ASSUME TypeOK, NEW p \in Procs, cur[p] \in Entries, Advance(p)
  PROVE  /\ Target(p, {"stat", "open"})
         /\ cur' \in [Procs -> 1..(N + 1)]
         /\ cur'[p] = cur[p] + 1
         /\ \A q \in Procs \ {p} : cur'[q] = cur[q]
         /\ pc'[p] = "stat" => cur'[p] = N + 1
         /\ pc'[p] = "open" => cur'[p] \in Entries
<1>1. Target(p, {"stat", "open"})
  BY DEF Advance, Target
<1>2. cur' = [cur EXCEPT ![p] = cur[p] + 1]
  BY DEF Advance
<1>3. cur[p] + 1 \in 1..(N + 1)
  BY NumberAssumption DEF Entries
<1>4. /\ cur' \in [Procs -> 1..(N + 1)]
      /\ cur'[p] = cur[p] + 1
      /\ \A q \in Procs \ {p} : cur'[q] = cur[q]
  BY <1>2, <1>3 DEF TypeOK
<1>5. pc'[p] = IF cur[p] = N THEN "stat" ELSE "open"
  BY DEF Advance, Goto, TypeOK
<1> QED
  BY <1>1, <1>3, <1>4, <1>5, NumberAssumption DEF Entries

LEMMA RetryTarget ==
  ASSUME TypeOK, NEW p \in Procs, Retry(p)
  PROVE  /\ Target(p, {"get", "unavailable"})
         /\ tmp' \in [Procs -> {"none", "partial", "good", "bad"}]
         /\ UNCHANGED <<cur, seen, tries, dst, sums>>
<1>1. Target(p, {"get", "unavailable"})
  BY DEF Retry, Target
<1>2. tmp' \in [Procs -> {"none", "partial", "good", "bad"}]
  BY DEF Retry, TypeOK
<1> QED
  BY <1>1, <1>2 DEF Retry

(* Each operation keeps the types and leaves its process at a label whose  *)
(* assumptions hold.                                                       *)
Kept(p) == TypeOK' /\ Local(p)'

LEMMA OpenKeeps ==
  ASSUME TypeOK, NEW p \in Procs, Local(p), Open(p) PROVE Kept(p)
<1>1. Target(p, {"decide"}) /\ (Fault \/ NoFault) /\ pc[p] = "open"
      /\ UNCHANGED <<cur, tries, tmp, dst, sums>>
  BY DEF Open, Target
<1>2. pc' \in [Procs -> Labels] /\ pc'[p] = "decide"
  BY <1>1, TargetType DEF TypeOK, Labels, Running
<1>3. seen' \in [Procs -> Files \cup {"unreadable"}]
  <2>1. cur[p] \in Entries
    BY <1>1 DEF Local, AtEntry
  <2> QED
    BY <2>1 DEF Open, TypeOK
<1>4. faults' \in 0..MaxFaults
  BY <1>1, FaultType DEF TypeOK
<1> QED
  BY <1>1, <1>2, <1>3, <1>4 DEF Kept, TypeOK, Local, AtEntry, AfterAll

LEMMA DecideKeeps ==
  ASSUME TypeOK, NEW p \in Procs, Local(p), Decide(p) PROVE Kept(p)
<1>1. pc[p] = "decide" /\ tries' = [tries EXCEPT ![p] = 0]
      /\ UNCHANGED <<seen, tmp, dst, sums, faults>>
  BY DEF Decide
<1>2. tries' \in [Procs -> 0..Attempts]
  BY <1>1, NumberAssumption DEF TypeOK
<1>3. cur[p] \in Entries
  BY <1>1 DEF Local, AtEntry
<1>4. CASE Advance(p)
  <2>1. pc' \in [Procs -> Labels] /\ pc'[p] \in {"stat", "open"}
    BY <1>3, <1>4, AdvanceTarget, TargetType DEF TypeOK, Labels, Running
  <2> QED
    BY <1>1, <1>2, <1>3, <1>4, <2>1, AdvanceTarget DEF Kept, TypeOK, Local, AtEntry, AfterAll
<1>5. CASE Target(p, {"get", "remove"}) /\ UNCHANGED cur
  <2>1. pc' \in [Procs -> Labels] /\ pc'[p] \in {"get", "remove"}
    BY <1>5, TargetType DEF TypeOK, Labels, Running
  <2> QED
    BY <1>1, <1>2, <1>3, <1>5, <2>1 DEF Kept, TypeOK, Local, AtEntry, AfterAll
<1> QED
  BY <1>4, <1>5 DEF Decide, Target

LEMMA RemoveKeeps ==
  ASSUME TypeOK, NEW p \in Procs, Local(p), Remove(p) PROVE Kept(p)
<1>1. Target(p, {"error", "get"}) /\ pc[p] = "remove" /\ (Fault \/ NoFault)
      /\ UNCHANGED <<cur, seen, tries, tmp, sums>>
  BY DEF Remove, Target
<1>2. pc' \in [Procs -> Labels] /\ pc'[p] \in {"error", "get"}
  BY <1>1, TargetType DEF TypeOK, Labels, Running, Failed
<1>3. dst' \in [Entries -> Files]
  BY DEF Remove, TypeOK, Files
<1>4. faults' \in 0..MaxFaults
  BY <1>1, FaultType DEF TypeOK
<1> QED
  BY <1>1, <1>2, <1>3, <1>4 DEF Kept, TypeOK, Local, AtEntry, AfterAll

LEMMA MkdirKeeps ==
  ASSUME TypeOK, NEW p \in Procs, Local(p), MkdirFails(p) PROVE Kept(p)
<1>1. /\ Target(p, {"error"}) /\ pc[p] = "get" /\ Fault
      /\ UNCHANGED <<cur, seen, tries, tmp, dst, sums>>
  BY DEF MkdirFails, Target
<1>2. pc' \in [Procs -> Labels] /\ pc'[p] = "error"
  BY <1>1, TargetType DEF TypeOK, Labels, Running, Failed
<1>3. faults' \in 0..MaxFaults
  BY <1>1, FaultType DEF TypeOK
<1> QED
  BY <1>1, <1>2, <1>3 DEF Kept, TypeOK, Local, AtEntry, AfterAll

LEMMA GetKeeps ==
  ASSUME TypeOK, NEW p \in Procs, Local(p), Get(p) PROVE Kept(p)
<1>1. /\ Target(p, {"get", "unavailable", "copy"}) /\ (Fault \/ NoFault)
      /\ pc[p] = "get" /\ UNCHANGED <<cur, seen, dst, sums>>
  BY DEF Get, Target
<1>2. pc' \in [Procs -> Labels] /\ pc'[p] \in {"get", "unavailable", "copy"}
  BY <1>1, TargetType DEF TypeOK, Labels, Running, Failed
<1>3. tries' \in [Procs -> 0..Attempts]
  <2>1. tries[p] < Attempts /\ tries' = [tries EXCEPT ![p] = tries[p] + 1]
    BY DEF Get
  <2>2. tries[p] + 1 \in 0..Attempts
    BY <2>1, NumberAssumption DEF TypeOK
  <2> QED
    BY <2>1, <2>2 DEF TypeOK
<1>4. tmp' \in [Procs -> {"none", "partial", "good", "bad"}]
  BY DEF Get, TypeOK
<1>5. faults' \in 0..MaxFaults
  BY <1>1, FaultType DEF TypeOK
<1> QED
  BY <1>1, <1>2, <1>3, <1>4, <1>5 DEF Kept, TypeOK, Local, AtEntry, AfterAll

LEMMA CopyKeeps ==
  ASSUME TypeOK, NEW p \in Procs, Local(p), Copy(p) PROVE Kept(p)
<1>1. /\ Target(p, {"check", "get", "unavailable"}) /\ (Fault \/ NoFault)
      /\ pc[p] = "copy" /\ UNCHANGED <<cur, seen, tries, dst, sums>>
      /\ tmp' \in [Procs -> {"none", "partial", "good", "bad"}]
  <2>1. CASE Fault /\ Retry(p)
    BY <2>1, RetryTarget DEF Copy, Target
  <2>2. CASE Goto(p, "check") /\ (Fault \/ NoFault)
             /\ (\/ tmp' = [tmp EXCEPT ![p] = "good"]
                 \/ tmp' = [tmp EXCEPT ![p] = "bad"])
             /\ UNCHANGED <<cur, seen, tries, dst, sums>>
    <3>1. Target(p, {"check", "get", "unavailable"}) /\ pc[p] = "copy"
      BY <2>2 DEF Copy, Target
    <3>2. tmp' \in [Procs -> {"none", "partial", "good", "bad"}]
      BY <2>2 DEF TypeOK
    <3> QED
      BY <2>2, <3>1, <3>2
  <2> QED
    BY <2>1, <2>2 DEF Copy
<1>2. pc' \in [Procs -> Labels] /\ pc'[p] \in {"check", "get", "unavailable"}
  BY <1>1, TargetType DEF TypeOK, Labels, Running, Failed
<1>3. faults' \in 0..MaxFaults
  BY <1>1, FaultType DEF TypeOK
<1> QED
  BY <1>1, <1>2, <1>3 DEF Kept, TypeOK, Local, AtEntry, AfterAll

LEMMA CheckKeeps ==
  ASSUME TypeOK, NEW p \in Procs, Local(p), Check(p) PROVE Kept(p)
<1>1. /\ Target(p, {"install", "invalid"}) /\ pc[p] = "check"
      /\ UNCHANGED <<cur, seen, tries, dst, sums, faults>>
      /\ tmp' \in [Procs -> {"none", "partial", "good", "bad"}]
  BY DEF Check, Target, TypeOK
<1>2. pc' \in [Procs -> Labels] /\ pc'[p] \in {"install", "invalid"}
  BY <1>1, TargetType DEF TypeOK, Labels, Running, Failed
<1>3. pc'[p] = "install" => tmp'[p] = "good"
  BY DEF Check, Goto, TypeOK
<1> QED
  BY <1>1, <1>2, <1>3 DEF Kept, TypeOK, Local, AtEntry, AfterAll

LEMMA InstallKeeps ==
  ASSUME TypeOK, NEW p \in Procs, Local(p), Install(p) PROVE Kept(p)
<1>1. pc[p] = "install" /\ cur[p] \in Entries /\ tmp[p] = "good" /\ (Fault \/ NoFault)
  BY DEF Install, Local, AtEntry
<1>2. faults' \in 0..MaxFaults
  BY <1>1, FaultType DEF TypeOK
<1>3. CASE Advance(p) /\ dst' = [dst EXCEPT ![cur[p]] = tmp[p]]
           /\ tmp' = [tmp EXCEPT ![p] = "none"] /\ UNCHANGED <<seen, tries, sums>>
  <2>1. pc' \in [Procs -> Labels] /\ pc'[p] \in {"stat", "open"}
    BY <1>1, <1>3, AdvanceTarget, TargetType DEF TypeOK, Labels, Running
  <2>2. dst' \in [Entries -> Files] /\ tmp' \in [Procs -> {"none", "partial", "good", "bad"}]
    BY <1>1, <1>3 DEF TypeOK, Files
  <2> QED
    BY <1>1, <1>2, <1>3, <2>1, <2>2, AdvanceTarget
       DEF Kept, TypeOK, Local, AtEntry, AfterAll
<1>4. CASE Retry(p)
  <2>1. pc' \in [Procs -> Labels] /\ pc'[p] \in {"get", "unavailable"}
    BY <1>4, RetryTarget, TargetType DEF TypeOK, Labels, Running, Failed
  <2> QED
    BY <1>1, <1>2, <1>4, <2>1, RetryTarget DEF Kept, TypeOK, Local, AtEntry, AfterAll
<1> QED
  BY <1>3, <1>4 DEF Install

LEMMA ChecksumsKeep ==
  ASSUME TypeOK, NEW p \in Procs, Local(p), Stat(p) \/ Create(p) \/ Fill(p) PROVE Kept(p)
<1>1. /\ Target(p, {"create", "ok", "error", "fill"}) /\ (Fault \/ NoFault)
      /\ pc[p] \in {"stat", "create", "fill"} /\ UNCHANGED <<cur, seen, tries, tmp, dst>>
  BY DEF Stat, Create, Fill, Target
<1>2. pc' \in [Procs -> Labels] /\ pc'[p] \in {"create", "ok", "error", "fill"}
  BY <1>1, TargetType DEF TypeOK, Labels, Running, Failed
<1>3. sums' \in {"absent", "canonical", "empty", "frozen"}
  BY DEF Stat, Create, Fill, TypeOK
<1>4. faults' \in 0..MaxFaults
  BY <1>1, FaultType DEF TypeOK
<1> QED
  BY <1>1, <1>2, <1>3, <1>4 DEF Kept, TypeOK, Local, AtEntry, AfterAll

LEMMA CrashKeeps ==
  ASSUME TypeOK, NEW p \in Procs, Crash(p) PROVE Kept(p)
<1>1. /\ Target(p, {"crashed"}) /\ (Fault \/ NoFault)
      /\ UNCHANGED <<cur, seen, tries, tmp, dst, sums>>
  BY DEF Crash, Target
<1>2. pc' \in [Procs -> Labels] /\ pc'[p] = "crashed"
  BY <1>1, TargetType DEF TypeOK, Labels, Failed
<1>3. faults' \in 0..MaxFaults
  BY <1>1, FaultType DEF TypeOK
<1> QED
  BY <1>1, <1>2, <1>3 DEF Kept, TypeOK, Local, AtEntry, AfterAll

LEMMA RerunKeeps ==
  ASSUME TypeOK, NEW p \in Procs, Rerun(p) PROVE Kept(p)
<1>1. Target(p, {"open"}) /\ UNCHANGED <<seen, tries, dst, sums, faults>>
  BY DEF Rerun, Target
<1>2. pc' \in [Procs -> Labels] /\ pc'[p] = "open"
  BY <1>1, TargetType DEF TypeOK, Labels, Running
<1>3. /\ cur' \in [Procs -> 1..(N + 1)] /\ cur'[p] = 1
      /\ tmp' \in [Procs -> {"none", "partial", "good", "bad"}]
  BY NumberAssumption DEF Rerun, TypeOK
<1> QED
  BY <1>1, <1>2, <1>3, NumberAssumption DEF Kept, TypeOK, Local, AtEntry, AfterAll, Entries

-----------------------------------------------------------------------------

(* One process's step leaves the state of the others alone.                *)
Act(p) == Step(p) \/ Crash(p) \/ Rerun(p)

LEMMA OthersUntouched ==
  ASSUME TypeOK, NEW p \in Procs, Act(p), NEW q \in Procs \ {p}
  PROVE  pc'[q] = pc[q] /\ cur'[q] = cur[q] /\ tmp'[q] = tmp[q] /\ seen'[q] = seen[q]
<1> USE DEF TypeOK, Goto
<1>1. pc'[q] = pc[q]
  BY DEF Act, Step, Open, Decide, Remove, MkdirFails, Get, Copy, Check, Install, Stat, Create, Fill,
     Crash, Rerun, Advance, Retry
<1>2. cur'[q] = cur[q]
  BY DEF Act, Step, Open, Decide, Remove, MkdirFails, Get, Copy, Check, Install, Stat, Create, Fill,
     Crash, Rerun, Advance, Retry
<1>3. tmp'[q] = tmp[q]
  BY DEF Act, Step, Open, Decide, Remove, MkdirFails, Get, Copy, Check, Install, Stat, Create, Fill,
     Crash, Rerun, Advance, Retry
<1>4. seen'[q] = seen[q]
  BY DEF Act, Step, Open, Decide, Remove, MkdirFails, Get, Copy, Check, Install, Stat, Create, Fill,
     Crash, Rerun, Advance, Retry
<1> QED
  BY <1>1, <1>2, <1>3, <1>4

LEMMA ActKeeps ==
  ASSUME TypeOK, NEW p \in Procs, Local(p), Act(p) PROVE Kept(p)
BY OpenKeeps, DecideKeeps, RemoveKeeps, MkdirKeeps, GetKeeps, CopyKeeps, CheckKeeps, InstallKeeps,
   ChecksumsKeep, CrashKeeps, RerunKeeps DEF Act, Step

(* A file only disappears while its remover is at that entry, and only a   *)
(* verified temporary file takes a name.                                   *)
LEMMA DstStep ==
  ASSUME TypeOK, NEW p \in Procs, Local(p), Act(p), NEW e \in Entries, dst'[e] # dst[e]
  PROVE  /\ cur[p] = e
         /\ \/ dst'[e] = "absent" /\ ~ Past(p, e)'
            \/ dst'[e] = "good"
<1>1. CASE Remove(p)
  <2>1. /\ cur[p] = e /\ dst'[e] = "absent" /\ UNCHANGED cur
        /\ Goto(p, "get")
    BY <1>1 DEF Remove, TypeOK
  <2>2. pc'[p] = "get" /\ cur'[p] = e /\ ~(e > e)
    BY <2>1 DEF Goto, TypeOK, Entries
  <2> QED
    BY <2>1, <2>2 DEF Past
<1>2. CASE Install(p)
  BY <1>2 DEF Install, Retry, Local, TypeOK
<1>3. CASE ~ Remove(p) /\ ~ Install(p)
  <2>1. dst' = dst
    BY <1>3 DEF Act, Step, Open, Decide, MkdirFails, Get, Copy, Check, Stat, Create, Fill, Crash,
       Rerun, Retry
  <2> QED
    BY <2>1
<1> QED
  BY <1>1, <1>2, <1>3

(* A process gets past an entry only by seeing it good or by making it so. *)
LEMMA PastStep ==
  ASSUME TypeOK, NEW p \in Procs, Local(p), Act(p), NEW e \in Entries,
         Past(p, e)', ~ Past(p, e)
  PROVE  dst'[e] = "good"
<1>1. CASE Open(p)
  <2>1. UNCHANGED <<cur, dst>> /\ cur[p] \in Entries
    BY <1>1 DEF Open, Local, AtEntry
  <2>2. cur[p] = e /\ seen'[p] = "good"
    BY <2>1 DEF Past
  <2>3. seen' = [seen EXCEPT ![p] = dst[cur[p]]] \/ seen' = [seen EXCEPT ![p] = "unreadable"]
    BY <1>1 DEF Open
  <2>4. seen'[p] = dst[cur[p]] \/ seen'[p] = "unreadable"
    BY <2>3 DEF TypeOK
  <2> QED
    BY <2>1, <2>2, <2>4
<1>2. CASE Decide(p)
  <2>1. pc[p] = "decide" /\ cur[p] \in Entries /\ UNCHANGED <<seen, dst>>
    BY <1>2 DEF Decide, Local, AtEntry
  <2>2. CASE seen[p] = "good" /\ Advance(p)
    <3>1. cur'[p] = cur[p] + 1 /\ pc'[p] # "decide"
      BY <2>1, <2>2, AdvanceTarget DEF Advance, Goto, TypeOK
    <3>2. cur'[p] > e
      BY <3>1 DEF Past
    <3> QED
      BY <2>1, <2>2, <3>1, <3>2 DEF Past, Entries
  <2>3. CASE (Goto(p, "get") \/ Goto(p, "remove")) /\ UNCHANGED cur
    <3>1. pc'[p] \in {"get", "remove"}
      BY <2>3 DEF Goto, TypeOK
    <3> QED
      BY <2>3, <3>1 DEF Past
  <2> QED
    BY <1>2, <2>2, <2>3 DEF Decide
<1>3. CASE Install(p)
  <2>1. pc[p] = "install" /\ cur[p] \in Entries /\ tmp[p] = "good"
    BY <1>3 DEF Install, Local, AtEntry
  <2>2. CASE Advance(p) /\ dst' = [dst EXCEPT ![cur[p]] = tmp[p]]
    <3>1. cur'[p] = cur[p] + 1 /\ pc'[p] # "decide"
      BY <2>1, <2>2, AdvanceTarget DEF Advance, Goto, TypeOK
    <3>2. cur'[p] > e /\ ~(cur[p] > e)
      BY <3>1 DEF Past
    <3>3. cur[p] = e
      BY <2>1, <3>1, <3>2 DEF Entries
    <3> QED
      BY <2>1, <2>2, <3>3 DEF TypeOK
  <2>3. CASE Retry(p)
    <3>1. UNCHANGED cur /\ pc'[p] \in {"get", "unavailable"}
      BY <2>3 DEF Retry, Goto, TypeOK
    <3> QED
      BY <3>1 DEF Past
  <2> QED
    BY <1>3, <2>2, <2>3 DEF Install
<1>4. CASE Rerun(p)
  <2>1. cur'[p] = 1 /\ pc'[p] = "open"
    BY <1>4 DEF Rerun, Goto, TypeOK
  <2> QED
    BY <2>1, NumberAssumption DEF Past, Entries
<1>5. CASE Remove(p) \/ MkdirFails(p) \/ Get(p) \/ Copy(p) \/ Check(p) \/ Stat(p) \/ Create(p) \/ Fill(p)
           \/ Crash(p)
  <2>1. UNCHANGED cur /\ pc'[p] # "decide"
    BY <1>5 DEF Remove, MkdirFails, Get, Copy, Check, Stat, Create, Fill, Crash, Retry, Goto, TypeOK
  <2> QED
    BY <2>1 DEF Past
<1> QED
  BY <1>1, <1>2, <1>3, <1>4, <1>5 DEF Act, Step

LEMMA ActKeepsIInv ==
  ASSUME IInv, NEW p \in Procs, Act(p) PROVE IInv'
<1>1. TypeOK /\ Local(p) /\ PastMeansGood
  BY DEF IInv
<1>2. TypeOK' /\ Local(p)'
  BY <1>1, ActKeeps DEF Kept
<1>3. ASSUME NEW q \in Procs PROVE Local(q)'
  <2>1. CASE q = p
    BY <1>2, <2>1
  <2>2. CASE q # p
    BY <1>1, <2>2, OthersUntouched DEF IInv, Local
  <2> QED
    BY <2>1, <2>2
<1>4. ASSUME NEW e \in Entries, \A q \in Procs : Past(q, e)' PROVE dst'[e] = "good"
  <2>1. \A q \in Procs \ {p} : Past(q, e)
    BY <1>1, <1>4, OthersUntouched DEF Past
  <2>2. CASE Past(p, e)
    <3>1. dst[e] = "good"
      BY <1>1, <2>1, <2>2 DEF PastMeansGood
    <3> QED
      BY <1>1, <1>4, <3>1, DstStep
  <2>3. CASE ~ Past(p, e)
    BY <1>1, <1>4, <2>3, PastStep
  <2> QED
    BY <2>2, <2>3
<1> QED
  BY <1>2, <1>3, <1>4 DEF IInv, PastMeansGood

THEOREM Invariance == Spec => []IInv
<1>1. IInv /\ [Next]_vars => IInv'
  <2>1. ASSUME IInv, UNCHANGED vars PROVE IInv'
    BY <2>1 DEF vars, IInv, TypeOK, Local, PastMeansGood, Past
  <2> QED
    BY <2>1, ActKeepsIInv DEF Next, Act
<1> QED
  BY <1>1, InitIInv, PTL DEF Spec

(* Every variable keeps to its domain.                                     *)
THEOREM TypeCorrect == Spec => []TypeOK
<1>1. IInv => TypeOK
  BY DEF IInv
<1> QED
  BY <1>1, Invariance, PTL

(* Processes that have all reported success certified the tree, however    *)
(* many they are and however their runs overlapped, failed and restarted.  *)
THEOREM Certified == Spec => []CertifiedTogether
<1>1. IInv => CertifiedTogether
  <2>1. SUFFICES ASSUME IInv, \A p \in Procs : pc[p] = "ok", NEW e \in Entries
                 PROVE  dst[e] = "good"
    BY DEF CertifiedTogether
  <2>2. \A p \in Procs : cur[p] = N + 1
    BY <2>1 DEF IInv, Local, AfterAll
  <2>3. N + 1 > e
    BY NumberAssumption DEF Entries
  <2>4. \A p \in Procs : Past(p, e)
    BY <2>2, <2>3 DEF Past
  <2> QED
    BY <2>1, <2>4 DEF IInv, PastMeansGood
<1> QED
  BY <1>1, Invariance, PTL

(* No step of any run ever puts a file in place that is not the frozen one. *)
THEOREM Unverified == Spec => NothingUnverified
<1>1. IInv /\ [Next]_vars => [\A e \in Entries : dst'[e] = "bad" => dst[e] = "bad"]_vars
  <2>1. SUFFICES ASSUME IInv, Next, NEW e \in Entries, dst'[e] = "bad", dst[e] # "bad"
                 PROVE  FALSE
    OBVIOUS
  <2>2. PICK p \in Procs : Act(p)
    BY <2>1 DEF Next, Act
  <2> QED
    BY <2>1, <2>2, DstStep DEF IInv
<1> QED
  BY <1>1, Invariance, PTL DEF Spec, NothingUnverified

-----------------------------------------------------------------------------

(* A temporary file stays behind only where a process was killed: on every *)
(* path that ends a run or goes back for another attempt it is gone.       *)
THEOREM NoTempLeft == Spec => []TempsCleanedUp
<1>1. Init => TempsCleanedUp
  BY DEF Init, TempsCleanedUp
<1>2. TypeOK /\ TempsCleanedUp /\ [Next]_vars => TempsCleanedUp'
  <2> SUFFICES ASSUME TypeOK, TempsCleanedUp, [Next]_vars, NEW q \in Procs, tmp'[q] # "none"
               PROVE  pc'[q] \in {"copy", "check", "install", "crashed"}
    BY DEF TempsCleanedUp
  <2> DEFINE Held(label) == label \in {"copy", "check", "install", "crashed"}
  <2>1. tmp[q] # "none" => Held(pc[q])
    BY DEF TempsCleanedUp
  <2>2. ASSUME NEW p \in Procs, Act(p) PROVE Held(pc'[q])
    <3>1. CASE p # q
      BY <2>1, <2>2, <3>1, OthersUntouched
    <3>2. CASE p = q
      <4>1. CASE Get(q) \/ Copy(q)
        BY <2>1, <4>1 DEF Get, Copy, Retry, Goto, TypeOK
      <4>2. CASE Check(q) \/ Install(q)
        BY <2>1, <4>2 DEF Check, Install, Retry, Goto, TypeOK
      <4>3. CASE Crash(q)
        BY <4>3 DEF Crash, Goto, TypeOK
      <4>4. CASE Rerun(q)
        BY <4>4 DEF Rerun, TypeOK
      <4>5. CASE Open(q) \/ Decide(q) \/ Remove(q) \/ MkdirFails(q)
                 \/ Stat(q) \/ Create(q) \/ Fill(q)
        BY <2>1, <4>5 DEF Open, Decide, Remove, MkdirFails, Stat, Create, Fill
      <4> QED
        BY <2>2, <3>2, <4>1, <4>2, <4>3, <4>4, <4>5 DEF Act, Step
    <3> QED
      BY <3>1, <3>2
  <2>3. CASE UNCHANGED vars
    BY <2>1, <2>3 DEF vars
  <2> QED
    BY <2>2, <2>3 DEF Next, Act
<1> QED
  BY <1>1, <1>2, TypeCorrect, PTL DEF Spec
=============================================================================
