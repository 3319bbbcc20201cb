----------------------------- MODULE FetchCorpora -----------------------------
(***************************************************************************)
(* internal/cmd/fetch-corpora: runs of the command that provisions the     *)
(* frozen benchmark corpora under one destination root, by several         *)
(* processes, with transport failures, corrupt downloads, file-system      *)
(* errors, crashes between any two system calls, and new runs after        *)
(* failed ones.                                                            *)
(*                                                                         *)
(* A file is what verifyFile can tell of it: "good" (frozen size and       *)
(* digest), "bad" or "absent".  A file open for verification keeps its     *)
(* contents when the name is removed or renamed over, so verifyFile's      *)
(* answer is the state at the time of its open, used any time later.       *)
(***************************************************************************)
EXTENDS Integers

CONSTANTS
  Procs,      \* the processes run on this root
  N,          \* number of corpus entries, handled in the order 1..N
  Attempts,   \* len(retryBackoff)
  MaxFaults   \* bound: injected failures and crashes altogether

ASSUME ProcsAssumption  == Procs # {}
ASSUME NumberAssumption == N \in Nat \ {0} /\ Attempts \in Nat \ {0} /\ MaxFaults \in Nat

Entries == 1..N

VARIABLES
  pc,      \* pc[p]: the next system call of p, or how its last run ended
  cur,     \* cur[p]: the entry p provisions; N + 1 after the last
  seen,    \* seen[p]: verifyFile's answer
  tries,   \* tries[p]: fetch attempts made for the entry
  tmp,     \* tmp[p]: contents of the temporary file of p's run, or "none"
  dst,     \* dst[e]: the installed file
  sums,    \* SHA256SUMS: "canonical" is one found there, "frozen" one written
  faults   \* failures injected so far

vars == <<pc, cur, seen, tries, tmp, dst, sums, faults>>

Files   == {"absent", "good", "bad"}
Failed  == {"error", "invalid", "unavailable", "crashed"}
Running == {"open", "decide", "remove", "get", "copy", "check", "install",
            "stat", "create", "fill"}
Labels  == Running \cup Failed \cup {"ok"}

Init ==
  /\ pc    = [p \in Procs |-> "open"]
  /\ cur   = [p \in Procs |-> 1]
  /\ seen  = [p \in Procs |-> "absent"]
  /\ tries = [p \in Procs |-> 0]
  /\ tmp   = [p \in Procs |-> "none"]
  /\ dst \in [Entries -> Files]
  /\ sums \in {"absent", "canonical"}
  /\ faults = 0

-----------------------------------------------------------------------------

Goto(p, label) == pc' = [pc EXCEPT ![p] = label]
Fault          == faults < MaxFaults /\ faults' = faults + 1
NoFault        == faults' = faults

(* provision returns nil: the next entry, or the checksums.                *)
Advance(p) ==
  /\ cur' = [cur EXCEPT ![p] = @ + 1]
  /\ Goto(p, IF cur[p] = N THEN "stat" ELSE "open")

-----------------------------------------------------------------------------
(* provision *)

Open(p) ==
  /\ pc[p] = "open"
  /\ \/ seen' = [seen EXCEPT ![p] = dst[cur[p]]] /\ NoFault
     \/ seen' = [seen EXCEPT ![p] = "unreadable"] /\ Fault
  /\ Goto(p, "decide")
  /\ UNCHANGED <<cur, tries, tmp, dst, sums>>

(* Variant: an answer other than a mismatch counts as verified.            *)
DecideTrusting(p) ==
  /\ pc[p] = "decide"
  /\ \/ seen[p] \in {"good", "unreadable"} /\ Advance(p)
     \/ seen[p] = "absent" /\ Goto(p, "get") /\ UNCHANGED cur
     \/ seen[p] = "bad" /\ Goto(p, "remove") /\ UNCHANGED cur
  /\ tries' = [tries EXCEPT ![p] = 0]
  /\ UNCHANGED <<seen, tmp, dst, sums, faults>>

(* Variant: a missing file is not told from a corrupt one.                 *)
DecideWithoutNotExist(p) ==
  /\ pc[p] = "decide"
  /\ \/ seen[p] = "good" /\ Advance(p)
     \/ seen[p] \in {"absent", "bad", "unreadable"} /\ Goto(p, "remove") /\ UNCHANGED cur
  /\ tries' = [tries EXCEPT ![p] = 0]
  /\ UNCHANGED <<seen, tmp, dst, sums, faults>>

(* The switch on verifyErr: whatever is not ErrNotExist is a corrupt file. *)
Decide(p) ==
  /\ pc[p] = "decide"
  /\ \/ seen[p] = "good" /\ Advance(p)
     \/ seen[p] = "absent" /\ Goto(p, "get") /\ UNCHANGED cur
     \/ seen[p] \in {"bad", "unreadable"} /\ Goto(p, "remove") /\ UNCHANGED cur
  /\ tries' = [tries EXCEPT ![p] = 0]
  /\ UNCHANGED <<seen, tmp, dst, sums, faults>>

Remove(p) ==
  /\ pc[p] = "remove"
  /\ \/ /\ dst[cur[p]] = "absent" /\ NoFault
        /\ Goto(p, "error") /\ UNCHANGED dst
     \/ /\ dst[cur[p]] # "absent" /\ NoFault
        /\ Goto(p, "get") /\ dst' = [dst EXCEPT ![cur[p]] = "absent"]
     \/ Fault /\ Goto(p, "error") /\ UNCHANGED dst
  /\ UNCHANGED <<cur, seen, tries, tmp, sums>>

-----------------------------------------------------------------------------
(* fetchInto and fetchAttempt *)

(* The attempt failed in transport: the next one, up to the budget.  The   *)
(* deferred cleanup has removed the temporary file.                        *)
Retry(p) ==
  /\ Goto(p, IF tries[p] < Attempts THEN "get" ELSE "unavailable")
  /\ tmp' = [tmp EXCEPT ![p] = "none"]
  /\ UNCHANGED <<cur, seen, tries, dst, sums>>

(* MkdirAll, before the first attempt, fails.                              *)
MkdirFails(p) ==
  /\ pc[p] = "get" /\ tries[p] = 0
  /\ Fault /\ Goto(p, "error")
  /\ UNCHANGED <<cur, seen, tries, tmp, dst, sums>>

(* Variant: one attempt more than there are backoffs.                      *)
GetOnceMore(p) ==
  /\ pc[p] = "get"
  /\ tries' = [tries EXCEPT ![p] = @ + 1]
  /\ \/ /\ Fault
        /\ Goto(p, IF tries[p] < Attempts THEN "get" ELSE "unavailable")
        /\ UNCHANGED tmp
     \/ /\ NoFault
        /\ Goto(p, "copy")
        /\ tmp' = [tmp EXCEPT ![p] = "partial"]
  /\ UNCHANGED <<cur, seen, dst, sums>>

(* client.Get and CreateTemp.                                              *)
Get(p) ==
  /\ pc[p] = "get"
  /\ tries[p] < Attempts
  /\ tries' = [tries EXCEPT ![p] = @ + 1]
  /\ \/ /\ Fault
        /\ Goto(p, IF tries[p] + 1 < Attempts THEN "get" ELSE "unavailable")
        /\ UNCHANGED tmp
     \/ /\ NoFault
        /\ Goto(p, "copy")
        /\ tmp' = [tmp EXCEPT ![p] = "partial"]
  /\ UNCHANGED <<cur, seen, dst, sums>>

(* Variant: a failed copy leaves its temporary file.                       *)
CopyLeaking(p) ==
  /\ pc[p] = "copy"
  /\ \/ /\ Goto(p, "check") /\ NoFault
        /\ tmp' = [tmp EXCEPT ![p] = "good"]
     \/ /\ Goto(p, "check") /\ Fault
        /\ tmp' = [tmp EXCEPT ![p] = "bad"]
     \/ /\ Goto(p, IF tries[p] < Attempts THEN "get" ELSE "unavailable") /\ Fault
        /\ UNCHANGED tmp
  /\ UNCHANGED <<cur, seen, tries, dst, sums>>

(* io.Copy of the body: all of it, right or wrong, or an error.            *)
Copy(p) ==
  /\ pc[p] = "copy"
  /\ \/ /\ Goto(p, "check") /\ NoFault
        /\ tmp' = [tmp EXCEPT ![p] = "good"]
        /\ UNCHANGED <<cur, seen, tries, dst, sums>>
     \/ /\ Goto(p, "check") /\ Fault
        /\ tmp' = [tmp EXCEPT ![p] = "bad"]
        /\ UNCHANGED <<cur, seen, tries, dst, sums>>
     \/ Fault /\ Retry(p)

(* Variant: the digest is computed and not compared.                       *)
CheckNothing(p) ==
  /\ pc[p] = "check"
  /\ Goto(p, "install")
  /\ UNCHANGED <<cur, seen, tries, tmp, dst, sums, faults>>

(* A mismatch is CORPUS-INVALID: cleaned up and never retried.             *)
Check(p) ==
  /\ pc[p] = "check"
  /\ \/ tmp[p] = "good" /\ Goto(p, "install") /\ UNCHANGED tmp
     \/ /\ tmp[p] = "bad" /\ Goto(p, "invalid")
        /\ tmp' = [tmp EXCEPT ![p] = "none"]
  /\ UNCHANGED <<cur, seen, tries, dst, sums, faults>>

(* Close and rename into place; either may fail, and is retried.           *)
Install(p) ==
  /\ pc[p] = "install"
  /\ \/ /\ NoFault
        /\ dst' = [dst EXCEPT ![cur[p]] = tmp[p]]
        /\ tmp' = [tmp EXCEPT ![p] = "none"]
        /\ Advance(p)
        /\ UNCHANGED <<seen, tries, sums>>
     \/ Fault /\ Retry(p)

-----------------------------------------------------------------------------
(* writeChecksumsIfAbsent *)

Stat(p) ==
  /\ pc[p] = "stat"
  /\ \/ NoFault /\ Goto(p, IF sums = "absent" THEN "create" ELSE "ok")
     \/ Fault /\ Goto(p, "error")
  /\ UNCHANGED <<cur, seen, tries, tmp, dst, sums>>

(* os.WriteFile opens with O_CREATE and O_TRUNC, then writes.              *)
Create(p) ==
  /\ pc[p] = "create"
  /\ \/ NoFault /\ Goto(p, "fill") /\ sums' = "empty"
     \/ Fault /\ Goto(p, "error") /\ UNCHANGED sums
  /\ UNCHANGED <<cur, seen, tries, tmp, dst>>

Fill(p) ==
  /\ pc[p] = "fill"
  /\ \/ NoFault /\ Goto(p, "ok") /\ sums' = "frozen"
     \/ Fault /\ Goto(p, "error") /\ UNCHANGED sums
  /\ UNCHANGED <<cur, seen, tries, tmp, dst>>

-----------------------------------------------------------------------------
(* The process is killed: nothing deferred runs.                           *)
Crash(p) ==
  /\ pc[p] \in Running
  /\ Fault /\ Goto(p, "crashed")
  /\ UNCHANGED <<cur, seen, tries, tmp, dst, sums>>

(* A new run after one that did not succeed.  It knows nothing of the old  *)
(* run's temporary file, which stays in the directory for good.            *)
Rerun(p) ==
  /\ pc[p] \in Failed
  /\ Goto(p, "open")
  /\ cur' = [cur EXCEPT ![p] = 1]
  /\ tmp' = [tmp EXCEPT ![p] = "none"]
  /\ UNCHANGED <<seen, tries, dst, sums, faults>>

Step(p) == \/ Open(p) \/ Decide(p) \/ Remove(p)
           \/ MkdirFails(p) \/ Get(p) \/ Copy(p) \/ Check(p) \/ Install(p)
           \/ Stat(p) \/ Create(p) \/ Fill(p)

Next == \E p \in Procs : Step(p) \/ Crash(p) \/ Rerun(p)

Spec     == Init /\ [][Next]_vars

(* A process that can run runs, and a job that failed is run again.        *)
FairSpec == Spec /\ \A p \in Procs : WF_vars(Step(p)) /\ WF_vars(Rerun(p))

-----------------------------------------------------------------------------
(* Properties *)

TypeOK ==
  /\ pc \in [Procs -> Labels]
  /\ cur \in [Procs -> 1..(N + 1)]
  /\ seen \in [Procs -> Files \cup {"unreadable"}]
  /\ tries \in [Procs -> 0..Attempts]
  /\ tmp \in [Procs -> {"none", "partial", "good", "bad"}]
  /\ dst \in [Entries -> Files]
  /\ sums \in {"absent", "canonical", "empty", "frozen"}
  /\ faults \in 0..MaxFaults

(* "Nothing unverified is ever left at dst" (main.go:198): no step of any  *)
(* run, in whatever order they interleave, fail or die, puts a wrong file  *)
(* in place.                                                               *)
NothingUnverified ==
  [][\A e \in Entries : dst'[e] = "bad" => dst[e] = "bad"]_vars

(* When every process has reported success the tree is certified, though   *)
(* their checks, removals and installs overlapped: a cache saved after     *)
(* success holds no file that was missing or wrong.                        *)
CertifiedTogether ==
  (\A p \in Procs : pc[p] = "ok") => \A e \in Entries : dst[e] = "good"

(* Only a killed process leaves a temporary file behind: every error path  *)
(* between CreateTemp and the rename cleans up.                            *)
TempsCleanedUp ==
  \A p \in Procs : tmp[p] # "none" => pc[p] \in {"copy", "check", "install", "crashed"}

(* "A truncated cache entry must self-heal" (main.go:32): once the faults  *)
(* are over and jobs are run again, every corpus is in place and stays,    *)
(* and every process ends well.                                            *)
SelfHeals == <>[](/\ \A e \in Entries : dst[e] = "good"
                  /\ \A p \in Procs : pc[p] = "ok")

(* writeChecksumsIfAbsent "emits the frozen SHA256SUMS next to the corpus  *)
(* so `shasum -a 256 -c SHA256SUMS` works" (main.go:267): it is there in   *)
(* full after a successful run.                                            *)
ChecksumsWork ==
  (\A p \in Procs : pc[p] = "ok") => sums \in {"canonical", "frozen"}

=============================================================================
