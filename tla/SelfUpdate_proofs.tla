-------------------------- MODULE SelfUpdate_proofs --------------------------
(***************************************************************************)
(* That a self-update never leaves Agent Control without a working binary, *)
(* for every set of versions, every filesystem layout, every fault and     *)
(* every place where the process may be killed.                            *)
(*                                                                         *)
(* A single property is not inductive: what the rename puts in place is    *)
(* good because it was verified several steps before, what a failed rename *)
(* puts back is good because the backup of the same attempt was.           *)
(***************************************************************************)
EXTENDS SelfUpdate, TLAPS

Works == Versions \ Broken

(* The binary and its backup, where there is one, passed the verification, *)
(* and so did the binary the process was started from.                     *)
FilesWork == exe \in Works \cup {Missing} /\ bak \in Works \cup {Missing}
RunningWorks == running \in Works

(* The replacement starts from a verified target.                          *)
TargetWorks ==
    pc \in {"backup", "stage", "rename", "restore", "publish"} => target \in Works

(* A configuration is stored once its version runs or is in place.         *)
AskedWorks == pc = "store" => target \notin Broken

(* On unix the path is never vacated.                                      *)
InPlace == platform = "unix" => exe # Missing

(* Up to the rename, the backup of this attempt is what was in place: if   *)
(* that was not the running version, a restart had been requested.         *)
BackedUp ==
    pc \in {"stage", "rename", "restore"} =>
        bak # Missing /\ (bak # running => restart)

(* Between the rename and the request, only the replaced binary waits.     *)
Pending ==
    (pc \notin {"down", "publish"} /\ exe \in Versions \ {running}) => restart

IInv ==
    /\ TypeOK
    /\ FilesWork
    /\ RunningWorks
    /\ TargetWorks
    /\ AskedWorks
    /\ InPlace
    /\ BackedUp
    /\ Pending
    /\ WorkingCopy
    /\ StoredWorks

-----------------------------------------------------------------------------
(* The initial states satisfy the inductive invariant.                     *)
LEMMA InitIInv == Init => IInv
<1>. SUFFICES ASSUME Init PROVE IInv
  OBVIOUS
<1>. USE VersionsAssumption, BoundsAssumption
<1>1. TypeOK
  <2>1. pkgs \in [Versions -> {"none", "whole", "torn"}]
    BY DEF Init
  <2>2. messages \in 0..MaxMessages /\ crashes \in 0..MaxCrashes
    BY DEF Init
  <2>3. QED
    BY <2>2 DEF Init, TypeOK, Pcs, Upgrading, Asked, File
<1>2. QED
  BY <1>1 DEF Init, IInv, FilesWork, RunningWorks, TargetWorks, AskedWorks,
              InPlace, BackedUp, Pending, WorkingCopy, StoredWorks, Works

(* The steps that touch neither the files nor the version that runs.       *)
LEMMA CallStep ==
    ASSUME IInv,
           BootUpdate \/ (\E v \in Asked : ReceiveConfig(v)) \/ Retry \/ Update
    PROVE  IInv'
<1>. USE VersionsAssumption, BoundsAssumption DEF IInv, Call, Goto
<1>1. CASE BootUpdate
  BY <1>1 DEF BootUpdate, TypeOK, FilesWork, RunningWorks, TargetWorks,
              AskedWorks, InPlace, BackedUp, Pending, WorkingCopy, StoredWorks,
              Pcs, Upgrading, files, pkgVars, gate, history
<1>2. CASE \E v \in Asked : ReceiveConfig(v)
  BY <1>2 DEF ReceiveConfig, TypeOK, FilesWork, RunningWorks, TargetWorks,
              AskedWorks, InPlace, BackedUp, Pending, WorkingCopy, StoredWorks,
              Pcs, Upgrading, files, pkgVars, gate
<1>3. CASE Retry
  BY <1>3 DEF Retry, TypeOK, FilesWork, RunningWorks, TargetWorks, AskedWorks,
              InPlace, BackedUp, Pending, WorkingCopy, StoredWorks, Pcs, Asked,
              files, pkgVars, gate, history
<1>4. CASE Update
  <2>1. /\ pc = "update"
        /\ pc' \in {"store", "idle", "install"}
        /\ pc' = "store" => target \in {NoVersion, running}
        /\ pc' = "install" => target \notin {NoVersion, running}
        /\ key' \in {key, NoVersion, target} /\ cooling' \in {cooling, FALSE}
        /\ UNCHANGED <<platform, exe, bak, stored, pkgs, latest, running, caller,
                       target, restart, messages, crashes>>
    BY <1>4 DEF Update, ReturnOk, ReturnErr, files, pkgVars, call, gate, history
  <2>2. TypeOK'
    BY <2>1 DEF TypeOK, Pcs, Upgrading, Asked
  <2>3. AskedWorks'
    BY <2>1 DEF TypeOK, AskedWorks, RunningWorks, Works
  <2>4. QED
    BY <2>1, <2>2, <2>3 DEF FilesWork, RunningWorks, TargetWorks, InPlace, BackedUp,
                            Pending, WorkingCopy, StoredWorks
<1>5. QED
  BY <1>1, <1>2, <1>3, <1>4

(* The steps that prepare the package of the target.                       *)
LEMMA PackageStep ==
    ASSUME IInv, Install \/ Extract \/ Retain \/ Verify
    PROVE  IInv'
<1>. USE VersionsAssumption DEF IInv, Goto
<1>1. CASE Install
  BY <1>1 DEF Install, TypeOK, FilesWork, RunningWorks, TargetWorks, AskedWorks,
              InPlace, BackedUp, Pending, WorkingCopy, StoredWorks, Pcs,
              Upgrading, files, call, gate, history
<1>2. CASE Extract
  BY <1>2 DEF Extract, TypeOK, FilesWork, RunningWorks, TargetWorks, AskedWorks,
              InPlace, BackedUp, Pending, WorkingCopy, StoredWorks, Pcs,
              Upgrading, files, call, gate, history
<1>3. CASE Retain
  BY <1>3 DEF Retain, TypeOK, FilesWork, RunningWorks, TargetWorks, AskedWorks,
              InPlace, BackedUp, Pending, WorkingCopy, StoredWorks, Pcs,
              Upgrading, files, call, gate, history, Asked
<1>4. CASE Verify
  BY <1>4 DEF Verify, TypeOK, FilesWork, RunningWorks, TargetWorks, AskedWorks,
              InPlace, BackedUp, Pending, WorkingCopy, StoredWorks, Pcs,
              Upgrading, files, pkgVars, call, gate, history, Works
<1>5. QED
  BY <1>1, <1>2, <1>3, <1>4

(* replace_binary.                                                         *)
LEMMA ReplaceStep ==
    ASSUME IInv, Backup \/ Stage \/ Rename \/ Restore
    PROVE  IInv'
<1>. USE VersionsAssumption DEF IInv, Goto
<1>1. CASE Backup
  BY <1>1 DEF Backup, TypeOK, FilesWork, RunningWorks, TargetWorks, AskedWorks,
              InPlace, BackedUp, Pending, WorkingCopy, StoredWorks, Pcs,
              Upgrading, pkgVars, call, gate, history, File, Works
<1>2. CASE Stage
  BY <1>2 DEF Stage, TypeOK, FilesWork, RunningWorks, TargetWorks, AskedWorks,
              InPlace, BackedUp, Pending, WorkingCopy, StoredWorks, Pcs,
              Upgrading, files, call, gate, history
<1>3. CASE Rename
  BY <1>3 DEF Rename, TypeOK, FilesWork, RunningWorks, TargetWorks, AskedWorks,
              InPlace, BackedUp, Pending, WorkingCopy, StoredWorks, Pcs,
              Upgrading, pkgVars, call, gate, history, File
<1>4. CASE Restore
  BY <1>4 DEF Restore, TypeOK, FilesWork, RunningWorks, TargetWorks, AskedWorks,
              InPlace, BackedUp, Pending, WorkingCopy, StoredWorks, Pcs,
              Upgrading, files, pkgVars, call, gate, history, File
<1>5. QED
  BY <1>1, <1>2, <1>3, <1>4

(* The end of an attempt, the passing of time, and the ends of a process.  *)
LEMMA EndStep ==
    ASSUME IInv,
           PublishRestart \/ RecordFailure \/ StoreConfig \/ CooldownElapses
    PROVE  IInv'
<1>. USE VersionsAssumption DEF IInv, Goto
<1>1. CASE PublishRestart
  BY <1>1 DEF PublishRestart, TypeOK, FilesWork, RunningWorks, TargetWorks,
              AskedWorks, InPlace, BackedUp, Pending, WorkingCopy, StoredWorks,
              Pcs, ReturnOk, files, pkgVars, call, history, Asked, Works
<1>2. CASE RecordFailure
  BY <1>2 DEF RecordFailure, TypeOK, FilesWork, RunningWorks, TargetWorks,
              AskedWorks, InPlace, BackedUp, Pending, WorkingCopy, StoredWorks,
              Pcs, Upgrading, ReturnErr, files, pkgVars, call, history, Asked
<1>3. CASE StoreConfig
  BY <1>3 DEF StoreConfig, TypeOK, FilesWork, RunningWorks, TargetWorks,
              AskedWorks, InPlace, BackedUp, Pending, WorkingCopy, StoredWorks,
              Pcs, Upgrading, files, pkgVars, call, gate, history
<1>4. CASE CooldownElapses
  <2>1. /\ cooling' = FALSE
        /\ UNCHANGED <<platform, exe, bak, stored, pkgs, latest, pc, running, caller,
                       target, key, restart, messages, crashes>>
    BY <1>4 DEF CooldownElapses, files, pkgVars, call, history
  <2>2. TypeOK'
    BY <2>1 DEF TypeOK
  <2>3. QED
    BY <2>1, <2>2 DEF FilesWork, RunningWorks, TargetWorks, AskedWorks, InPlace,
                      BackedUp, Pending, WorkingCopy, StoredWorks
<1>5. QED
  BY <1>1, <1>2, <1>3, <1>4

(* The ends of a process and the start of the next one.                    *)
LEMMA ProcessStep ==
    ASSUME IInv, Start \/ RestartRequested \/ StopRequested \/ Killed
    PROVE  IInv'
<1>. USE VersionsAssumption, BoundsAssumption DEF IInv, Goto
<1>1. CASE Start
  BY <1>1 DEF Start, TypeOK, FilesWork, RunningWorks, TargetWorks, AskedWorks,
              InPlace, BackedUp, Pending, WorkingCopy, StoredWorks, Pcs,
              Upgrading, files, pkgVars, call, gate, history, Works
<1>2. CASE RestartRequested
  BY <1>2 DEF RestartRequested, TypeOK, FilesWork, RunningWorks, TargetWorks,
              AskedWorks, InPlace, BackedUp, Pending, WorkingCopy, StoredWorks,
              Pcs, Upgrading, ProcessEnds, files, call, Asked
<1>3. CASE StopRequested
  BY <1>3 DEF StopRequested, TypeOK, FilesWork, RunningWorks, TargetWorks,
              AskedWorks, InPlace, BackedUp, Pending, WorkingCopy, StoredWorks,
              Pcs, Upgrading, ProcessEnds, files, call, Asked
<1>4. CASE Killed
  <2>1. crashes' \in 0..MaxCrashes
    BY <1>4 DEF Killed, TypeOK
  <2>2. /\ pc' = "down" /\ key' = NoVersion /\ cooling' = FALSE
        /\ restart' = FALSE /\ latest' = NoVersion
        /\ UNCHANGED <<platform, exe, bak, stored, pkgs, running, caller, target, messages>>
    BY <1>4 DEF Killed, ProcessEnds, files, call
  <2>3. TypeOK'
    BY <2>1, <2>2 DEF TypeOK, Pcs, Upgrading, Asked
  <2>4. QED
    BY <2>2, <2>3 DEF FilesWork, RunningWorks, TargetWorks, AskedWorks, InPlace,
                      BackedUp, Pending, WorkingCopy, StoredWorks
<1>5. QED
  BY <1>1, <1>2, <1>3, <1>4

(* Every action preserves the inductive invariant.                         *)
LEMMA NextIInv == IInv /\ [Next]_vars => IInv'
<1>. SUFFICES ASSUME IInv, [Next]_vars PROVE IInv'
  OBVIOUS
<1>1. CASE Next
  BY <1>1, CallStep, PackageStep, ReplaceStep, EndStep, ProcessStep
     DEF Next, Upgrade
<1>2. CASE UNCHANGED vars
  BY <1>2 DEF IInv, TypeOK, FilesWork, RunningWorks, TargetWorks, AskedWorks,
              InPlace, BackedUp, Pending, WorkingCopy, StoredWorks, vars, files,
              pkgVars, call, gate, history
<1>3. QED
  BY <1>1, <1>2

(* The inductive invariant holds throughout update, retry and the          *)
(* replacement of the binary.                                              *)
THEOREM Invariance == Spec => []IInv
  BY InitIInv, NextIInv, PTL DEF Spec

-----------------------------------------------------------------------------
(* The variables of the updater keep their types, and an upgrade always    *)
(* has a version for its target.                                           *)
THEOREM TypeCorrect == Spec => []TypeOK
<1>1. IInv => TypeOK
  BY DEF IInv
<1>2. QED
  BY <1>1, Invariance, PTL

(* On unix a verified binary is in place whatever fails and wherever the   *)
(* process is killed, in any number of attempts.                           *)
THEOREM BinaryWorksCorrect == Spec => []BinaryWorks
<1>1. IInv => BinaryWorks
  BY DEF IInv, BinaryWorks, FilesWork, InPlace, Works
<1>2. QED
  BY <1>1, Invariance, PTL

(* Where the path is vacated (windows), the backup is a working binary.    *)
THEOREM WorkingCopyCorrect == Spec => []WorkingCopy
<1>1. IInv => WorkingCopy
  BY DEF IInv
<1>2. QED
  BY <1>1, Invariance, PTL

(* No configuration whose version failed its verification is persisted.    *)
THEOREM StoredWorksCorrect == Spec => []StoredWorks
<1>1. IInv => StoredWorks
  BY DEF IInv
<1>2. QED
  BY <1>1, Invariance, PTL

(* An idle process that is not the binary on disk has a restart pending.   *)
THEOREM RestartPendingCorrect == Spec => []RestartPending
<1>1. IInv => RestartPending
  BY DEF IInv, Pending, RestartPending
<1>2. QED
  BY <1>1, Invariance, PTL
=============================================================================
