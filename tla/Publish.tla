-------------------------------- MODULE Publish --------------------------------
(***************************************************************************)
(* publish of internal/portplan/cmd/simdutf-portplan: replacing the        *)
(* directory out of generated artifacts by a set just rendered, through a  *)
(* temporary directory, a backup out.previous, renames and a rollback,     *)
(* with file-system errors, crashes and several runs at once.              *)
(*                                                                         *)
(* A directory is "absent", "empty", "partial" (some files of a set gone), *)
(* or the version whose files it holds, all of them.  rename(2) of a       *)
(* directory replaces an empty one and fails on a non-empty one.           *)
(***************************************************************************)
EXTENDS Integers

CONSTANTS
  Procs,      \* the processes that publish
  Versions,   \* artifact sets they may have rendered
  MaxFaults,  \* bound: injected errors and crashes
  MaxRuns     \* bound: runs started altogether

ASSUME ProcsAssumption == Procs # {}
ASSUME VersionsAssumption ==
  Versions # {} /\ Versions \cap {"absent", "empty", "partial", "none"} = {}
ASSUME BoundsAssumption == MaxFaults \in Nat /\ MaxRuns \in Nat

VARIABLES
  pc,
  ver,      \* ver[p]: the version p rendered
  tmp,      \* tmp[p]: the temporary directory of p's run, or "none"
  out,
  backup,   \* out.previous
  faults, runs

vars == <<pc, ver, tmp, out, backup, faults, runs>>

Directories == Versions \cup {"absent", "empty", "partial"}
Running     == {"write", "lstatBackup", "lstatOut", "setAside", "replace", "rollback",
                "unlink", "empty", "rmdir", "install", "verify"}
Ended       == {"ok", "failed", "crashed"}
Labels      == {"idle"} \cup Running \cup Ended

Init ==
  /\ pc = [p \in Procs |-> "idle"]
  /\ ver \in [Procs -> Versions]
  /\ out \in Versions \cup {"absent"}
  /\ backup \in Versions \cup {"absent"}
  /\ tmp = [p \in Procs |-> "none"]
  /\ faults = 0 /\ runs = 0

-----------------------------------------------------------------------------

Goto(p, label) == pc' = [pc EXCEPT ![p] = label]
NoFault        == faults' = faults
Fault          == faults < MaxFaults /\ faults' = faults + 1

(* Returning an error runs the deferred RemoveAll(temporary).              *)
Fail(p) == Goto(p, "failed") /\ tmp' = [tmp EXCEPT ![p] = "none"]

(* A system call fails and publish returns its error.                      *)
ErrorAt(p) ==
  /\ pc[p] \in Running \ {"replace", "unlink", "empty"}
  /\ Fault /\ Fail(p)
  /\ UNCHANGED <<ver, out, backup, runs>>

(* A run begins: artifacts rendered, temporary directory made.             *)
Begin(p) ==
  /\ pc[p] \in {"idle"} \cup Ended
  /\ runs < MaxRuns /\ runs' = runs + 1
  /\ \E v \in Versions : ver' = [ver EXCEPT ![p] = v]
  /\ tmp' = [tmp EXCEPT ![p] = "partial"]
  /\ Goto(p, "write") /\ NoFault
  /\ UNCHANGED <<out, backup>>

(* Variant: a write that fails is not noticed.                             *)
WriteFilesUnchecked(p) ==
  /\ pc[p] = "write"
  /\ tmp' = [tmp EXCEPT ![p] = ver[p]] \/ UNCHANGED tmp
  /\ Goto(p, "lstatBackup") /\ NoFault
  /\ UNCHANGED <<ver, out, backup, runs>>

(* Every file written, synced and read back.                               *)
WriteFiles(p) ==
  /\ pc[p] = "write"
  /\ tmp' = [tmp EXCEPT ![p] = ver[p]]
  /\ Goto(p, "lstatBackup") /\ NoFault
  /\ UNCHANGED <<ver, out, backup, runs>>

(* Variant: a backup that is there is not looked for.                      *)
LstatBackupBlind(p) ==
  /\ pc[p] = "lstatBackup" /\ NoFault
  /\ Goto(p, "lstatOut") /\ UNCHANGED tmp
  /\ UNCHANGED <<ver, out, backup, runs>>

(* "refusing to replace existing backup"                                   *)
LstatBackup(p) ==
  /\ pc[p] = "lstatBackup" /\ NoFault
  /\ \/ backup = "absent" /\ Goto(p, "lstatOut") /\ UNCHANGED tmp
     \/ backup # "absent" /\ Fail(p)
  /\ UNCHANGED <<ver, out, backup, runs>>

LstatOut(p) ==
  /\ pc[p] = "lstatOut" /\ NoFault
  /\ Goto(p, IF out = "absent" THEN "install" ELSE "setAside")
  /\ UNCHANGED <<ver, tmp, out, backup, runs>>

(* Rename(out, backup)                                                     *)
SetAside(p) ==
  /\ pc[p] = "setAside" /\ NoFault
  /\ \/ /\ out # "absent" /\ backup \in {"absent", "empty"}
        /\ backup' = out /\ out' = "absent"
        /\ Goto(p, "replace") /\ UNCHANGED tmp
     \/ /\ out = "absent" \/ backup \notin {"absent", "empty"}
        /\ Fail(p) /\ UNCHANGED <<out, backup>>
  /\ UNCHANGED <<ver, runs>>

(* Rename(temporary, out), with the old set in backup.                     *)
Replace(p) ==
  /\ pc[p] = "replace"
  /\ \/ /\ out \in {"absent", "empty"} /\ NoFault
        /\ out' = tmp[p] /\ tmp' = [tmp EXCEPT ![p] = "none"]
        /\ Goto(p, "unlink")
     \/ /\ out \notin {"absent", "empty"} /\ NoFault
        /\ Goto(p, "rollback") /\ UNCHANGED <<out, tmp>>
     \/ Fault /\ Goto(p, "rollback") /\ UNCHANGED <<out, tmp>>
  /\ UNCHANGED <<ver, backup, runs>>

(* Variant: the error path deletes the backup in place of restoring it.    *)
RollbackByRemoval(p) ==
  /\ pc[p] = "rollback" /\ NoFault
  /\ backup' = "absent" /\ UNCHANGED out
  /\ Fail(p)
  /\ UNCHANGED <<ver, runs>>

(* Rename(backup, out); if that fails too, both errors are reported.       *)
Rollback(p) ==
  /\ pc[p] = "rollback" /\ NoFault
  /\ IF backup # "absent" /\ out \in {"absent", "empty"}
     THEN out' = backup /\ backup' = "absent"
     ELSE UNCHANGED <<out, backup>>
  /\ Fail(p)
  /\ UNCHANGED <<ver, runs>>

(* RemoveAll(backup) goes file by file, then removes the directory; an     *)
(* error on the way leaves what is left.                                   *)
Unlink(p) ==
  /\ pc[p] = "unlink"
  /\ \/ /\ backup = "absent" /\ NoFault
        /\ Goto(p, "verify") /\ UNCHANGED <<tmp, backup>>
     \/ /\ backup # "absent" /\ NoFault
        /\ backup' = "partial"
        /\ Goto(p, "empty") /\ UNCHANGED tmp
     \/ Fault /\ Fail(p) /\ UNCHANGED backup
  /\ UNCHANGED <<ver, out, runs>>

Empty(p) ==
  /\ pc[p] = "empty"
  /\ \/ NoFault /\ backup' = "empty" /\ Goto(p, "rmdir") /\ UNCHANGED tmp
     \/ Fault /\ Fail(p) /\ UNCHANGED backup
  /\ UNCHANGED <<ver, out, runs>>

Rmdir(p) ==
  /\ pc[p] = "rmdir" /\ NoFault
  /\ \/ /\ backup \in {"absent", "empty"}
        /\ backup' = "absent"
        /\ Goto(p, "verify") /\ UNCHANGED tmp
     \/ /\ backup \notin {"absent", "empty"}
        /\ Fail(p) /\ UNCHANGED backup
  /\ UNCHANGED <<ver, out, runs>>

(* Variant: the two names are exchanged.                                   *)
InstallExchanging(p) ==
  /\ pc[p] = "install" /\ NoFault
  /\ out' = tmp[p] /\ tmp' = [tmp EXCEPT ![p] = out]
  /\ Goto(p, "verify")
  /\ UNCHANGED <<ver, backup, runs>>

(* Rename(temporary, out), with nothing to replace.                        *)
Install(p) ==
  /\ pc[p] = "install" /\ NoFault
  /\ \/ /\ out \in {"absent", "empty"}
        /\ out' = tmp[p] /\ tmp' = [tmp EXCEPT ![p] = "none"]
        /\ Goto(p, "verify")
     \/ out \notin {"absent", "empty"} /\ Fail(p) /\ UNCHANGED out
  /\ UNCHANGED <<ver, backup, runs>>

(* verifyDirectory(out, artifacts)                                         *)
Verify(p) ==
  /\ pc[p] = "verify" /\ NoFault
  /\ \/ out = ver[p] /\ Goto(p, "ok") /\ UNCHANGED tmp
     \/ out # ver[p] /\ Fail(p)
  /\ UNCHANGED <<ver, out, backup, runs>>

(* The process is killed: the temporary directory and the backup stay.     *)
Crash(p) ==
  /\ pc[p] \in Running
  /\ Fault /\ Goto(p, "crashed")
  /\ UNCHANGED <<ver, tmp, out, backup, runs>>

Step(p) == \/ Begin(p) \/ WriteFiles(p) \/ LstatBackup(p) \/ LstatOut(p)
           \/ SetAside(p) \/ Replace(p) \/ Rollback(p)
           \/ Unlink(p) \/ Empty(p) \/ Rmdir(p)
           \/ Install(p) \/ Verify(p)

Next == \E p \in Procs : Step(p) \/ ErrorAt(p) \/ Crash(p)

Spec == Init /\ [][Next]_vars

-----------------------------------------------------------------------------
(* Properties *)

TypeOK ==
  /\ pc \in [Procs -> Labels]
  /\ ver \in [Procs -> Versions]
  /\ tmp \in [Procs -> Versions \cup {"partial", "none"}]
  /\ out \in Directories /\ backup \in Directories
  /\ faults \in 0..MaxFaults /\ runs \in 0..MaxRuns

(* Whatever fails, dies or overlaps, a reader of out finds the artifacts   *)
(* of one rendering, all of them, or no directory at all: the rollback     *)
(* never puts back a set that someone has begun to delete.                 *)
OutNeverTorn == out \in Versions \cup {"absent"}

(* A published set is not lost: the old one is only deleted when out holds *)
(* a whole one, and stays so until the deletion is over.                   *)
SetSurvives  == out \in Versions \/ backup \in Versions
NothingLost  == [][SetSurvives => SetSurvives']_vars

(* When every run that was started has succeeded, a set is in place and    *)
(* there is no leftover backup to make the next run refuse.                *)
SuccessSettles ==
  (\A p \in Procs : pc[p] = "ok") => out \in Versions /\ backup = "absent"
=============================================================================
