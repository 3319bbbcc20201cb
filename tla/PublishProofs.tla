----------------------------- MODULE PublishProofs -----------------------------
(***************************************************************************)
(* Proofs about Publish, for any processes, versions and bounds.  out is   *)
(* torn if a rollback restores a set whose deletion has begun, and lost if *)
(* a deletion meets a set that has just been set aside.  Neither happens   *)
(* because out.previous has one holder at a time: a directory that is not  *)
(* empty cannot be renamed over.                                           *)
(***************************************************************************)
EXTENDS Publish, TLAPS

(* p has set the old directory aside and not yet restored or emptied it.   *)
Holding == {"replace", "rollback", "unlink", "empty"}

(* Where a process has published nothing in this run and cannot without    *)
(* finding out.previous absent, or will fail if it is another's.           *)
Blocked == {"idle", "write", "lstatBackup", "failed", "crashed", "rmdir"} \cup Holding

(* Where a process can be when nothing was ever published.                 *)
Fresh == {"idle", "write", "lstatBackup", "lstatOut", "install", "failed", "crashed"}

OneHolder ==
  \A p, q \in Procs : pc[p] \in Holding /\ pc[q] \in Holding => p = q

HolderState ==
  \A p \in Procs :
    /\ pc[p] \in {"replace", "rollback", "unlink"} => backup \in Versions
    /\ pc[p] = "empty" => backup = "partial"
    /\ pc[p] \in {"unlink", "empty"} => out \in Versions

TempsWhole ==
  \A p \in Procs :
    pc[p] \in {"lstatBackup", "lstatOut", "setAside", "replace", "install"}
      => tmp[p] \in Versions

Survives ==
  \/ SetSurvives
  \/ out = "absent" /\ backup = "absent" /\ \A p \in Procs : pc[p] \in Fresh

LeftoverExplained ==
  backup # "absent" => \E p \in Procs : pc[p] \in Blocked

IInv == /\ TypeOK /\ OutNeverTorn
        /\ OneHolder /\ HolderState /\ TempsWhole
        /\ Survives /\ LeftoverExplained

-----------------------------------------------------------------------------

LEMMA InitIInv == Init => IInv
BY ProcsAssumption, VersionsAssumption, BoundsAssumption
   DEF Init, IInv, TypeOK, OutNeverTorn, OneHolder, HolderState, TempsWhole, Survives,
       SetSurvives, LeftoverExplained, Labels, Running, Ended, Directories, Holding,
       Blocked, Fresh

LEMMA BeginKeeps == ASSUME IInv, NEW p \in Procs, Begin(p) PROVE IInv'
<1> USE VersionsAssumption, BoundsAssumption DEF IInv, Begin, Goto, Fail, Fault, NoFault
<1>1. TypeOK'
  BY DEF TypeOK, Labels, Running, Ended, Directories, TempsWhole
<1>2. OutNeverTorn'
  BY DEF OutNeverTorn, TypeOK, TempsWhole, HolderState
<1>3. OneHolder'
  BY DEF OneHolder, TypeOK, Holding, HolderState
<1>4. HolderState'
  BY DEF HolderState, TypeOK, OutNeverTorn, OneHolder, Holding, TempsWhole
<1>5. TempsWhole'
  BY DEF TempsWhole, TypeOK
<1>6. Survives'
  BY DEF Survives, SetSurvives, TypeOK, HolderState, TempsWhole, OutNeverTorn, Fresh
<1>7. LeftoverExplained'
  BY DEF LeftoverExplained, TypeOK, Blocked, Holding, HolderState
<1> QED
  BY <1>1, <1>2, <1>3, <1>4, <1>5, <1>6, <1>7

LEMMA WriteFilesKeeps == ASSUME IInv, NEW p \in Procs, WriteFiles(p) PROVE IInv'
<1> USE VersionsAssumption, BoundsAssumption DEF IInv, WriteFiles, Goto, Fail, Fault, NoFault
<1>1. TypeOK'
  BY DEF TypeOK, Labels, Running, Ended, Directories, TempsWhole
<1>2. OutNeverTorn'
  BY DEF OutNeverTorn, TypeOK, TempsWhole, HolderState
<1>3. OneHolder'
  BY DEF OneHolder, TypeOK, Holding, HolderState
<1>4. HolderState'
  BY DEF HolderState, TypeOK, OutNeverTorn, OneHolder, Holding, TempsWhole
<1>5. TempsWhole'
  BY DEF TempsWhole, TypeOK
<1>6. Survives'
  BY DEF Survives, SetSurvives, TypeOK, HolderState, TempsWhole, OutNeverTorn, Fresh
<1>7. LeftoverExplained'
  BY DEF LeftoverExplained, TypeOK, Blocked, Holding, HolderState
<1> QED
  BY <1>1, <1>2, <1>3, <1>4, <1>5, <1>6, <1>7

LEMMA LstatBackupKeeps == ASSUME IInv, NEW p \in Procs, LstatBackup(p) PROVE IInv'
<1> USE VersionsAssumption, BoundsAssumption DEF IInv, LstatBackup, Goto, Fail, Fault, NoFault
<1>1. TypeOK'
  BY DEF TypeOK, Labels, Running, Ended, Directories, TempsWhole
<1>2. OutNeverTorn'
  BY DEF OutNeverTorn, TypeOK, TempsWhole, HolderState
<1>3. OneHolder'
  BY DEF OneHolder, TypeOK, Holding, HolderState
<1>4. HolderState'
  BY DEF HolderState, TypeOK, OutNeverTorn, OneHolder, Holding, TempsWhole
<1>5. TempsWhole'
  BY DEF TempsWhole, TypeOK
<1>6. Survives'
  BY DEF Survives, SetSurvives, TypeOK, HolderState, TempsWhole, OutNeverTorn, Fresh
<1>7. LeftoverExplained'
  BY DEF LeftoverExplained, TypeOK, Blocked, Holding, HolderState
<1> QED
  BY <1>1, <1>2, <1>3, <1>4, <1>5, <1>6, <1>7

LEMMA LstatOutKeeps == ASSUME IInv, NEW p \in Procs, LstatOut(p) PROVE IInv'
<1> USE VersionsAssumption, BoundsAssumption DEF IInv, LstatOut, Goto, Fail, Fault, NoFault
<1>1. TypeOK'
  BY DEF TypeOK, Labels, Running, Ended, Directories, TempsWhole
<1>2. OutNeverTorn'
  BY DEF OutNeverTorn, TypeOK, TempsWhole, HolderState
<1>3. OneHolder'
  BY DEF OneHolder, TypeOK, Holding, HolderState
<1>4. HolderState'
  BY DEF HolderState, TypeOK, OutNeverTorn, OneHolder, Holding, TempsWhole
<1>5. TempsWhole'
  BY DEF TempsWhole, TypeOK
<1>6. Survives'
  BY DEF Survives, SetSurvives, TypeOK, HolderState, TempsWhole, OutNeverTorn, Fresh
<1>7. LeftoverExplained'
  BY DEF LeftoverExplained, TypeOK, Blocked, Holding, HolderState
<1> QED
  BY <1>1, <1>2, <1>3, <1>4, <1>5, <1>6, <1>7

LEMMA SetAsideKeeps == ASSUME IInv, NEW p \in Procs, SetAside(p) PROVE IInv'
<1> USE VersionsAssumption, BoundsAssumption DEF IInv, SetAside, Goto, Fail, Fault, NoFault
<1>1. TypeOK'
  BY DEF TypeOK, Labels, Running, Ended, Directories, TempsWhole
<1>2. OutNeverTorn'
  BY DEF OutNeverTorn, TypeOK, TempsWhole, HolderState
<1>3. OneHolder'
  BY DEF OneHolder, TypeOK, Holding, HolderState
<1>4. HolderState'
  BY DEF HolderState, TypeOK, OutNeverTorn, OneHolder, Holding, TempsWhole
<1>5. TempsWhole'
  BY DEF TempsWhole, TypeOK
<1>6. Survives'
  BY DEF Survives, SetSurvives, TypeOK, HolderState, TempsWhole, OutNeverTorn, Fresh
<1>7. LeftoverExplained'
  BY DEF LeftoverExplained, TypeOK, Blocked, Holding, HolderState
<1> QED
  BY <1>1, <1>2, <1>3, <1>4, <1>5, <1>6, <1>7

LEMMA ReplaceKeeps == ASSUME IInv, NEW p \in Procs, Replace(p) PROVE IInv'
<1> USE VersionsAssumption, BoundsAssumption DEF IInv, Replace, Goto, Fail, Fault, NoFault
<1>1. TypeOK'
  BY DEF TypeOK, Labels, Running, Ended, Directories, TempsWhole
<1>2. OutNeverTorn'
  BY DEF OutNeverTorn, TypeOK, TempsWhole, HolderState
<1>3. OneHolder'
  BY DEF OneHolder, TypeOK, Holding, HolderState
<1>4. HolderState'
  BY DEF HolderState, TypeOK, OutNeverTorn, OneHolder, Holding, TempsWhole
<1>5. TempsWhole'
  BY DEF TempsWhole, TypeOK
<1>6. Survives'
  BY DEF Survives, SetSurvives, TypeOK, HolderState, TempsWhole, OutNeverTorn, Fresh
<1>7. LeftoverExplained'
  BY DEF LeftoverExplained, TypeOK, Blocked, Holding, HolderState
<1> QED
  BY <1>1, <1>2, <1>3, <1>4, <1>5, <1>6, <1>7

LEMMA RollbackKeeps == ASSUME IInv, NEW p \in Procs, Rollback(p) PROVE IInv'
<1> USE VersionsAssumption, BoundsAssumption DEF IInv, Rollback, Goto, Fail, Fault, NoFault
<1>1. TypeOK'
  BY DEF TypeOK, Labels, Running, Ended, Directories, TempsWhole
<1>2. OutNeverTorn'
  BY DEF OutNeverTorn, TypeOK, TempsWhole, HolderState
<1>3. OneHolder'
  BY DEF OneHolder, TypeOK, Holding, HolderState
<1>4. HolderState'
  BY DEF HolderState, TypeOK, OutNeverTorn, OneHolder, Holding, TempsWhole
<1>5. TempsWhole'
  BY DEF TempsWhole, TypeOK
<1>6. Survives'
  BY DEF Survives, SetSurvives, TypeOK, HolderState, TempsWhole, OutNeverTorn, Fresh
<1>7. LeftoverExplained'
  BY DEF LeftoverExplained, TypeOK, Blocked, Holding, HolderState
<1> QED
  BY <1>1, <1>2, <1>3, <1>4, <1>5, <1>6, <1>7

LEMMA UnlinkKeeps == ASSUME IInv, NEW p \in Procs, Unlink(p) PROVE IInv'
<1> USE VersionsAssumption, BoundsAssumption DEF IInv, Unlink, Goto, Fail, Fault, NoFault
<1>1. TypeOK'
  BY DEF TypeOK, Labels, Running, Ended, Directories, TempsWhole
<1>2. OutNeverTorn'
  BY DEF OutNeverTorn, TypeOK, TempsWhole, HolderState
<1>3. OneHolder'
  BY DEF OneHolder, TypeOK, Holding, HolderState
<1>4. HolderState'
  BY DEF HolderState, TypeOK, OutNeverTorn, OneHolder, Holding, TempsWhole
<1>5. TempsWhole'
  BY DEF TempsWhole, TypeOK
<1>6. Survives'
  BY DEF Survives, SetSurvives, TypeOK, HolderState, TempsWhole, OutNeverTorn, Fresh
<1>7. LeftoverExplained'
  BY DEF LeftoverExplained, TypeOK, Blocked, Holding, HolderState
<1> QED
  BY <1>1, <1>2, <1>3, <1>4, <1>5, <1>6, <1>7

LEMMA EmptyKeeps == ASSUME IInv, NEW p \in Procs, Empty(p) PROVE IInv'
<1> USE VersionsAssumption, BoundsAssumption DEF IInv, Empty, Goto, Fail, Fault, NoFault
<1>1. TypeOK'
  BY DEF TypeOK, Labels, Running, Ended, Directories, TempsWhole
<1>2. OutNeverTorn'
  BY DEF OutNeverTorn, TypeOK, TempsWhole, HolderState
<1>3. OneHolder'
  BY DEF OneHolder, TypeOK, Holding, HolderState
<1>4. HolderState'
  BY DEF HolderState, TypeOK, OutNeverTorn, OneHolder, Holding, TempsWhole
<1>5. TempsWhole'
  BY DEF TempsWhole, TypeOK
<1>6. Survives'
  BY DEF Survives, SetSurvives, TypeOK, HolderState, TempsWhole, OutNeverTorn, Fresh
<1>7. LeftoverExplained'
  BY DEF LeftoverExplained, TypeOK, Blocked, Holding, HolderState
<1> QED
  BY <1>1, <1>2, <1>3, <1>4, <1>5, <1>6, <1>7

LEMMA RmdirKeeps == ASSUME IInv, NEW p \in Procs, Rmdir(p) PROVE IInv'
<1> USE VersionsAssumption, BoundsAssumption DEF IInv, Rmdir, Goto, Fail, Fault, NoFault
<1>1. TypeOK'
  BY DEF TypeOK, Labels, Running, Ended, Directories, TempsWhole
<1>2. OutNeverTorn'
  BY DEF OutNeverTorn, TypeOK, TempsWhole, HolderState
<1>3. OneHolder'
  BY DEF OneHolder, TypeOK, Holding, HolderState
<1>4. HolderState'
  BY DEF HolderState, TypeOK, OutNeverTorn, OneHolder, Holding, TempsWhole
<1>5. TempsWhole'
  BY DEF TempsWhole, TypeOK
<1>6. Survives'
  BY DEF Survives, SetSurvives, TypeOK, HolderState, TempsWhole, OutNeverTorn, Fresh
<1>7. LeftoverExplained'
  BY DEF LeftoverExplained, TypeOK, Blocked, Holding, HolderState
<1> QED
  BY <1>1, <1>2, <1>3, <1>4, <1>5, <1>6, <1>7

LEMMA InstallKeeps == ASSUME IInv, NEW p \in Procs, Install(p) PROVE IInv'
<1> USE VersionsAssumption, BoundsAssumption DEF IInv, Install, Goto, Fail, Fault, NoFault
<1>1. TypeOK'
  BY DEF TypeOK, Labels, Running, Ended, Directories, TempsWhole
<1>2. OutNeverTorn'
  BY DEF OutNeverTorn, TypeOK, TempsWhole, HolderState
<1>3. OneHolder'
  BY DEF OneHolder, TypeOK, Holding, HolderState
<1>4. HolderState'
  BY DEF HolderState, TypeOK, OutNeverTorn, OneHolder, Holding, TempsWhole
<1>5. TempsWhole'
  BY DEF TempsWhole, TypeOK
<1>6. Survives'
  BY DEF Survives, SetSurvives, TypeOK, HolderState, TempsWhole, OutNeverTorn, Fresh
<1>7. LeftoverExplained'
  BY DEF LeftoverExplained, TypeOK, Blocked, Holding, HolderState
<1> QED
  BY <1>1, <1>2, <1>3, <1>4, <1>5, <1>6, <1>7

LEMMA VerifyKeeps == ASSUME IInv, NEW p \in Procs, Verify(p) PROVE IInv'
<1> USE VersionsAssumption, BoundsAssumption DEF IInv, Verify, Goto, Fail, Fault, NoFault
<1>1. TypeOK'
  BY DEF TypeOK, Labels, Running, Ended, Directories, TempsWhole
<1>2. OutNeverTorn'
  BY DEF OutNeverTorn, TypeOK, TempsWhole, HolderState
<1>3. OneHolder'
  BY DEF OneHolder, TypeOK, Holding, HolderState
<1>4. HolderState'
  BY DEF HolderState, TypeOK, OutNeverTorn, OneHolder, Holding, TempsWhole
<1>5. TempsWhole'
  BY DEF TempsWhole, TypeOK
<1>6. Survives'
  BY DEF Survives, SetSurvives, TypeOK, HolderState, TempsWhole, OutNeverTorn, Fresh
<1>7. LeftoverExplained'
  BY DEF LeftoverExplained, TypeOK, Blocked, Holding, HolderState
<1> QED
  BY <1>1, <1>2, <1>3, <1>4, <1>5, <1>6, <1>7

LEMMA ErrorAtKeeps == ASSUME IInv, NEW p \in Procs, ErrorAt(p) PROVE IInv'
<1> USE VersionsAssumption, BoundsAssumption DEF IInv, ErrorAt, Goto, Fail, Fault, NoFault
<1>1. TypeOK'
  BY DEF TypeOK, Labels, Running, Ended, Directories, TempsWhole
<1>2. OutNeverTorn'
  BY DEF OutNeverTorn, TypeOK, TempsWhole, HolderState
<1>3. OneHolder'
  BY DEF OneHolder, TypeOK, Holding, HolderState
<1>4. HolderState'
  BY DEF HolderState, TypeOK, OutNeverTorn, OneHolder, Holding, TempsWhole
<1>5. TempsWhole'
  BY DEF TempsWhole, TypeOK
<1>6. Survives'
  BY DEF Survives, SetSurvives, TypeOK, HolderState, TempsWhole, OutNeverTorn, Fresh
<1>7. LeftoverExplained'
  BY DEF LeftoverExplained, TypeOK, Blocked, Holding, HolderState
<1> QED
  BY <1>1, <1>2, <1>3, <1>4, <1>5, <1>6, <1>7

LEMMA CrashKeeps == ASSUME IInv, NEW p \in Procs, Crash(p) PROVE IInv'
<1> USE VersionsAssumption, BoundsAssumption DEF IInv, Crash, Goto, Fail, Fault, NoFault
<1>1. TypeOK'
  BY DEF TypeOK, Labels, Running, Ended, Directories, TempsWhole
<1>2. OutNeverTorn'
  BY DEF OutNeverTorn, TypeOK, TempsWhole, HolderState
<1>3. OneHolder'
  BY DEF OneHolder, TypeOK, Holding, HolderState
<1>4. HolderState'
  BY DEF HolderState, TypeOK, OutNeverTorn, OneHolder, Holding, TempsWhole
<1>5. TempsWhole'
  BY DEF TempsWhole, TypeOK
<1>6. Survives'
  BY DEF Survives, SetSurvives, TypeOK, HolderState, TempsWhole, OutNeverTorn, Fresh
<1>7. LeftoverExplained'
  BY DEF LeftoverExplained, TypeOK, Blocked, Holding, HolderState
<1> QED
  BY <1>1, <1>2, <1>3, <1>4, <1>5, <1>6, <1>7

-----------------------------------------------------------------------------

LEMMA NextKeeps == ASSUME IInv, [Next]_vars PROVE IInv'
<1>1. CASE UNCHANGED vars
  BY <1>1 DEF vars, IInv, TypeOK, OutNeverTorn, OneHolder, HolderState, TempsWhole,
              Survives, SetSurvives, LeftoverExplained
<1>2. CASE Next
  <2>1. PICK p \in Procs : Step(p) \/ ErrorAt(p) \/ Crash(p)
    BY <1>2 DEF Next
  <2> QED
    BY <2>1, BeginKeeps, WriteFilesKeeps, LstatBackupKeeps, LstatOutKeeps, SetAsideKeeps,
       ReplaceKeeps, RollbackKeeps, UnlinkKeeps, EmptyKeeps, RmdirKeeps, InstallKeeps,
       VerifyKeeps, ErrorAtKeeps, CrashKeeps DEF Step
<1> QED
  BY <1>1, <1>2

(* publish (main.go:381) keeps its invariant whatever fails or overlaps.   *)
THEOREM Invariance == Spec => []IInv
<1>1. Init => IInv
  BY InitIInv
<1>2. IInv /\ [Next]_vars => IInv'
  BY NextKeeps
<1> QED
  BY <1>1, <1>2, PTL DEF Spec

(* Every variable of publish keeps its domain.                             *)
THEOREM TypeCorrect == Spec => []TypeOK
<1>1. IInv => TypeOK
  BY DEF IInv
<1> QED
  BY <1>1, Invariance, PTL

(* Readers of out never see a torn set: for any number of publishers,      *)
(* failures and crashes (renames and rollback, main.go:413-420).           *)
THEOREM NeverTorn == Spec => []OutNeverTorn
<1>1. IInv => OutNeverTorn
  BY DEF IInv
<1> QED
  BY <1>1, Invariance, PTL

(* The deletion of the backup (main.go:421) never takes the last whole     *)
(* set: whoever deletes is the only holder, and out is whole meanwhile.    *)
THEOREM NeverLost == Spec => NothingLost
<1>1. IInv /\ IInv' /\ [Next]_vars => [SetSurvives => SetSurvives']_vars
  <2> SUFFICES ASSUME IInv, IInv', [Next]_vars, SetSurvives PROVE SetSurvives'
    OBVIOUS
  <2>1. CASE UNCHANGED vars
    BY <2>1 DEF vars, SetSurvives
  <2>2. CASE Next
    <3> USE VersionsAssumption DEF IInv, SetSurvives, OutNeverTorn
    <3>1. PICK p \in Procs : Step(p) \/ ErrorAt(p) \/ Crash(p)
      BY <2>2 DEF Next
    <3>2. CASE UNCHANGED <<out, backup>>
      BY <3>2
    <3>3. CASE SetAside(p) \/ Replace(p) \/ Install(p)
      BY <3>3 DEF SetAside, Replace, Install, TempsWhole
    <3>4. CASE Rollback(p) \/ Unlink(p) \/ Empty(p)
      BY <3>4 DEF Rollback, Unlink, Empty, HolderState
    <3>5. CASE Rmdir(p)
      BY <3>5 DEF Rmdir
    <3> QED
      BY <3>1, <3>2, <3>3, <3>4, <3>5
         DEF Step, Begin, WriteFiles, LstatBackup, LstatOut, Verify, ErrorAt, Crash
  <2> QED
    BY <2>1, <2>2
<1> QED
  BY <1>1, Invariance, PTL DEF Spec, NothingLost

(* A leftover backup is never the doing of runs that all succeeded.        *)
THEOREM Settles == Spec => []SuccessSettles
<1>1. IInv => SuccessSettles
  BY ProcsAssumption, VersionsAssumption DEF IInv, SuccessSettles, Survives, SetSurvives, LeftoverExplained,
     Blocked, Holding, Fresh
<1> QED
  BY <1>1, Invariance, PTL
=============================================================================
