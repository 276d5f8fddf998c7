------------------------ MODULE PackageManager_proofs ------------------------
(***************************************************************************)
(* That no purge takes a package from under the supervisor that runs it,   *)
(* for all packages, hooks and faults, and all configurations that list at *)
(* most two packages: the manager tracks one package per agent, so the one *)
(* that was installed before the current one is the last it spares.  And,  *)
(* for configurations of any size, what failed installs leave on disk.     *)
(***************************************************************************)
EXTENDS PackageManager, FiniteSetTheorems, TLAPS

AtMostTwo == \A c \in Configs : \E p, q \in Packages : c \subseteq {p, q}

Installing == {"loop", "download", "extract", "hook", "clean", "retain"}
InHand == {"download", "extract", "hook", "clean", "retain"}
Done == wanted \ todo

(* The configuration being installed lists at most two packages.           *)
WantedPair == \E p, q \in Packages : wanted \subseteq {p, q}

(* The package in hand is still to be installed.                           *)
Hand == pc \in InHand => pkg \in todo

(* While packages are missing, the tracked one is the only one installed.  *)
Tracked ==
    pc \in Installing =>
        /\ Done \subseteq {latest} \cap Present
        /\ todo = {} => wanted = {}

(* Once installed, all are there, and a lone package is the tracked one.   *)
AllThere ==
    pc = "installed" =>
        /\ wanted \subseteq Present
        /\ Lone(wanted) => wanted \subseteq {latest}

(* A lone package that runs is on disk, and is the tracked one until the   *)
(* install of its successor tracks that.                                   *)
LoneKept ==
    (Lone(running) /\ (pc = "idle" \/ Lone(wanted))) =>
        /\ running \subseteq Present
        /\ pc \in Installing \cup {"idle"} => running \subseteq {latest}

RestKept == pc = "idle" => running \subseteq Present

(* The package whose directory is being filled does not run, if what runs  *)
(* and what is installed are lone packages.                                *)
FillsAnother ==
    (pc \in {"download", "extract", "hook"} /\ Lone(running) /\ Lone(wanted)) =>
        pkg \notin running

(* What is about to be tracked is on disk.                                 *)
Filled == pc \in {"extract", "hook", "clean", "retain"} => pkg \in Present

IInv ==
    /\ TypeOK
    /\ WantedPair
    /\ Hand
    /\ Tracked
    /\ AllThere
    /\ LoneKept
    /\ RestKept
    /\ FillsAnother
    /\ Filled

-----------------------------------------------------------------------------
(* The initial states satisfy the inductive invariant.                     *)
LEMMA InitIInv == Init => IInv
<1>. SUFFICES ASSUME Init PROVE IInv
  OBVIOUS
<1>. USE NoPackageAssumption DEF Init
<1>1. TypeOK
  BY DEF TypeOK, Contents, Pcs
<1>2. QED
  BY <1>1 DEF IInv, WantedPair, Hand, Tracked, AllThere, LoneKept, RestKept,
              FillsAnother, Filled, InHand, Done

(* The start of an install, over what runs.                                *)
LEMMA InstallPackagesStep ==
    ASSUME AtMostTwo, IInv, NEW c \in Configs, InstallPackages(c)
    PROVE  IInv'
<1>. USE ConfigsAssumption DEF IInv, InstallPackages
<1>1. TypeOK'
  BY DEF TypeOK, Goto, Pcs
<1>2. QED
  BY <1>1 DEF AtMostTwo, Goto, WantedPair, Hand, Tracked, AllThere, LoneKept,
              RestKept, FillsAnother, Filled, InHand, Done, Present

(* install takes the next package, or finds its directory.                 *)
LEMMA InstallStep ==
    ASSUME IInv, NEW p \in Packages, Install(p)
    PROVE  IInv'
<1>. USE DEF IInv, Install
<1>1. TypeOK'
  BY DEF TypeOK, Goto, Pcs
<1>2. QED
  BY <1>1 DEF Goto, WantedPair, Hand, Tracked, AllThere, LoneKept, RestKept,
              FillsAnother, Filled, Installing, Done, Present

(* The download, and the new directory.                                    *)
LEMMA DownloadStep ==
    ASSUME IInv, Download
    PROVE  IInv'
<1>. USE HookedAssumption, NoPackageAssumption DEF IInv
<1>1. TypeOK'
  BY DEF TypeOK, Download, Holds, Goto, Pcs, Contents
<1>2. QED
  BY <1>1 DEF Download, TypeOK, Holds, Goto, WantedPair, Hand, Tracked,
              AllThere, LoneKept, RestKept, FillsAnother, Filled, Installing,
              InHand, Done, Present

(* The extraction; a failed one deletes the directory.                     *)
LEMMA ExtractPackageStep ==
    ASSUME IInv, ExtractPackage
    PROVE  IInv'
<1>. USE HookedAssumption, NoPackageAssumption DEF IInv
<1>1. TypeOK'
  BY DEF TypeOK, ExtractPackage, Holds, Goto, Pcs, Contents
<1>2. QED
  BY <1>1 DEF ExtractPackage, TypeOK, Holds, Goto, WantedPair, Hand, Tracked,
              AllThere, LoneKept, RestKept, FillsAnother, Filled, Installing,
              InHand, Done, Present

(* The post-download hook.                                                 *)
LEMMA ExecuteHookStep ==
    ASSUME IInv, ExecuteHook
    PROVE  IInv'
<1>. USE HookedAssumption, NoPackageAssumption DEF IInv
<1>1. TypeOK'
  BY DEF TypeOK, ExecuteHook, Holds, Goto, Pcs, Contents
<1>2. QED
  BY <1>1 DEF ExecuteHook, TypeOK, Holds, Goto, WantedPair, Hand, Tracked,
              AllThere, LoneKept, RestKept, FillsAnother, Filled, Installing,
              InHand, Done, Present

(* The deletion of the downloaded archive.                                 *)
LEMMA DeleteTemporaryStep ==
    ASSUME IInv, DeleteTemporary
    PROVE  IInv'
<1>. USE HookedAssumption, NoPackageAssumption DEF IInv
<1>1. TypeOK'
  BY DEF TypeOK, DeleteTemporary, Goto, Pcs
<1>2. QED
  BY <1>1 DEF DeleteTemporary, Goto, WantedPair, Hand, Tracked, AllThere,
              LoneKept, RestKept, FillsAnother, Filled, Installing, InHand,
              Done, Present

(* The start of the supervisor on what was installed.                      *)
LEMMA SpinUpStep ==
    ASSUME IInv, SpinUp
    PROVE  IInv'
<1>. USE HookedAssumption, NoPackageAssumption DEF IInv
<1>1. TypeOK'
  BY DEF TypeOK, SpinUp, Goto, Pcs
<1>2. QED
  BY <1>1 DEF SpinUp, Goto, WantedPair, Hand, Tracked, AllThere, LoneKept,
              RestKept, FillsAnother, Filled, Installing, InHand, Present

(* A failed install leaves nothing running.                                *)
LEMMA InstallFailsStep ==
    ASSUME IInv, InstallFails
    PROVE  IInv'
<1>. USE HookedAssumption, NoPackageAssumption DEF IInv
<1>1. TypeOK'
  BY DEF TypeOK, InstallFails, Goto, Pcs
<1>2. QED
  BY <1>1 DEF InstallFails, Goto, WantedPair, Hand, Tracked, AllThere, LoneKept,
              RestKept, FillsAnother, Filled, Installing, InHand

(* The stop of the supervisor.                                             *)
LEMMA StopStep ==
    ASSUME IInv, Stop
    PROVE  IInv'
<1>. USE HookedAssumption, NoPackageAssumption DEF IInv
<1>1. TypeOK'
  BY DEF TypeOK, Stop
<1>2. QED
  BY <1>1 DEF Stop, WantedPair, Hand, Tracked, AllThere, LoneKept, RestKept,
              FillsAnother, Filled, Done, Present

(* A kill at any place loses the tracked package.                          *)
LEMMA CrashStep ==
    ASSUME IInv, Crash
    PROVE  IInv'
<1>. USE HookedAssumption, NoPackageAssumption DEF IInv
<1>1. TypeOK'
  BY DEF TypeOK, Crash, Pcs
<1>2. QED
  BY <1>1 DEF Crash, WantedPair, Hand, Tracked, AllThere, LoneKept, RestKept,
              FillsAnother, Filled, Installing, InHand

(* Only the packages that are neither in hand nor tracked are purged.      *)
LEMMA RetainPackagesStep ==
    ASSUME IInv, RetainPackages
    PROVE  IInv'
<1>. USE DEF IInv, RetainPackages
<1>1. /\ dirs' \in [Packages -> Contents]
      /\ {pkg, latest} \cap Present \subseteq Present'
  BY DEF TypeOK, Present, Contents
<1>2. TypeOK'
  BY <1>1 DEF TypeOK, Goto, Pcs, Installed
<1>3. CASE pc' = "failed"
  BY <1>1, <1>2, <1>3
  DEF TypeOK, Goto, WantedPair, Hand, Tracked, AllThere, LoneKept, RestKept,
      FillsAnother, Filled, Installing, InHand, Done, Lone
<1>4. CASE pc' # "failed"
  <2>1. /\ todo' = todo \ {pkg} /\ latest' = pkg
        /\ pc' = IF todo = {pkg} THEN "installed" ELSE "loop"
        /\ UNCHANGED <<wanted, pkg, running>>
    BY <1>4 DEF Goto, Installed
  <2>2. pkg \in todo /\ todo \subseteq wanted /\ pkg \in Present'
    <3>1. pkg \in todo /\ todo \subseteq wanted
      BY DEF Hand, InHand, TypeOK
    <3>2. pkg \in Present
      BY DEF Filled
    <3>3. QED
      BY <1>1, <3>1, <3>2
  <2>3. Done \subseteq {latest} \cap Present'
    BY <1>1 DEF Tracked, Installing
  <2>4. (Lone(running) /\ Lone(wanted)) => running \subseteq Present'
    BY <1>1 DEF LoneKept, Installing
  <2>5. CASE todo = {pkg}
    <3>1. wanted \subseteq Present'
      BY <2>2, <2>3, <2>5 DEF Done
    <3>2. Lone(wanted) => wanted \subseteq {pkg}
      BY <2>2 DEF Lone
    <3>3. QED
      BY <1>2, <2>1, <2>4, <2>5, <3>1, <3>2 DEF WantedPair, Hand, Tracked,
                          AllThere, LoneKept, RestKept, FillsAnother, Filled,
                          Installing, InHand
  <2>6. CASE todo # {pkg}
    <3>1. PICK r \in todo : r # pkg
      BY <2>2, <2>6
    <3>2. Done = {}
      BY <2>2, <3>1 DEF WantedPair, Done
    <3>3. ~ Lone(wanted)
      BY <2>2, <3>1 DEF Lone
    <3>4. QED
      BY <1>2, <2>1, <2>2, <3>1, <3>3 DEF WantedPair, Hand, Tracked, AllThere,
                          LoneKept, RestKept, FillsAnother, Filled, InHand, Done
  <2>7. QED
    BY <2>5, <2>6
<1>5. QED
  BY <1>3, <1>4

(* Every action preserves the inductive invariant, if no configuration     *)
(* lists more than two packages.                                           *)
LEMMA NextIInv == AtMostTwo /\ IInv /\ [Next]_vars => IInv'
<1>. SUFFICES ASSUME AtMostTwo, IInv, [Next]_vars PROVE IInv'
  OBVIOUS
<1>1. CASE Next
  BY <1>1, InstallPackagesStep, InstallStep, DownloadStep, ExtractPackageStep,
     ExecuteHookStep, DeleteTemporaryStep, RetainPackagesStep, SpinUpStep,
     InstallFailsStep, StopStep, CrashStep
  DEF Next
<1>2. CASE UNCHANGED vars
  BY <1>2 DEF vars, IInv, TypeOK, WantedPair, Hand, Tracked, AllThere, LoneKept,
              RestKept, FillsAnother, Filled, Done, Present
<1>3. QED
  BY <1>1, <1>2

(* With at most two packages per configuration, what runs keeps its        *)
(* directories through every failed install, purge and crash.              *)
THEOREM RunningKeptCorrect == AtMostTwo => (Spec => []RunningKept)
<1>. SUFFICES ASSUME AtMostTwo PROVE Spec => []RunningKept
  OBVIOUS
<1>1. IInv => RunningKept
  BY DEF IInv, RunningKept, LoneKept, RestKept
<1>2. QED
  BY <1>1, InitIInv, NextIInv, PTL DEF Spec

-----------------------------------------------------------------------------
(* What is on disk, as long as no hook and no deletion failed and nobody   *)
(* killed the process, for configurations of any size.                     *)

(* Only the package in hand may be in the making, at the place its install *)
(* has reached.                                                            *)
WholeOrInHand ==
    ~ marred =>
        \A p \in Present :
            \/ dirs[p] = "whole"
            \/ p = pkg /\ pc = "extract" /\ dirs[p] = "partial"
            \/ p = pkg /\ pc = "hook" /\ dirs[p] = "unhooked"

(* Besides the package in hand at most two are on disk.                    *)
TwoBesides ==
    ~ marred =>
        \E p, q \in Packages :
            Present \subseteq
                {p, q} \cup (IF pc \in {"extract", "hook", "clean", "retain"}
                            THEN {pkg} ELSE {})

DiskInv == TypeOK /\ WholeOrInHand /\ TwoBesides

(* At first nothing is on disk.                                            *)
LEMMA InitDiskInv == Init => DiskInv
<1>. SUFFICES ASSUME Init PROVE DiskInv
  OBVIOUS
<1>1. TypeOK
  BY InitIInv DEF IInv
<1>2. Present = {} /\ pkg \in Packages
  BY DEF Init, Present
<1>3. QED
  BY <1>1, <1>2 DEF DiskInv, WholeOrInHand, TwoBesides

(* Every action keeps types, whatever the configurations.                  *)
LEMMA NextType == TypeOK /\ [Next]_vars => TypeOK'
<1>. SUFFICES ASSUME TypeOK, [Next]_vars PROVE TypeOK'
  OBVIOUS
<1>. USE ConfigsAssumption DEF TypeOK, Pcs, Goto
<1>1. CASE \E c \in Configs : InstallPackages(c)
  BY <1>1 DEF InstallPackages
<1>2. CASE \E p \in Packages : Install(p)
  BY <1>2 DEF Install
<1>3. CASE Download
  BY <1>3 DEF Download, Holds, Contents
<1>4. CASE ExtractPackage
  BY <1>4 DEF ExtractPackage, Holds, Contents
<1>5. CASE ExecuteHook
  BY <1>5 DEF ExecuteHook, Holds, Contents
<1>6. CASE DeleteTemporary
  BY <1>6 DEF DeleteTemporary
<1>7. CASE RetainPackages
  <2>1. dirs' \in [Packages -> Contents]
    BY <1>7 DEF RetainPackages, Contents
  <2>2. QED
    BY <1>7, <2>1 DEF RetainPackages, Installed
<1>8. CASE SpinUp \/ InstallFails \/ Stop
  BY <1>8 DEF SpinUp, InstallFails, Stop
<1>9. CASE Crash
  BY <1>9 DEF Crash
<1>10. CASE UNCHANGED vars
  BY <1>10 DEF vars
<1>11. QED
  BY <1>1, <1>2, <1>3, <1>4, <1>5, <1>6, <1>7, <1>8, <1>9, <1>10 DEF Next

(* What an install leaves on disk: a directory is created for a download,  *)
(* taken away by a failed extraction, and purged once two others are kept. *)
LEMMA NextDiskInv == DiskInv /\ [Next]_vars => DiskInv'
<1>. SUFFICES ASSUME DiskInv, [Next]_vars PROVE WholeOrInHand' /\ TwoBesides'
  BY NextType DEF DiskInv
<1>0. CASE marred'
  BY <1>0 DEF WholeOrInHand, TwoBesides
<1>. SUFFICES ASSUME ~ marred' PROVE WholeOrInHand' /\ TwoBesides'
  BY <1>0
<1>. USE DEF DiskInv
<1>1. ~ marred
  BY DEF Next, vars, InstallPackages, Install, Download, ExtractPackage, TypeOK,
         ExecuteHook, DeleteTemporary, RetainPackages, SpinUp, InstallFails,
         Stop, Crash
<1>2. CASE \/ \E c \in Configs : InstallPackages(c)
           \/ DeleteTemporary \/ SpinUp \/ InstallFails \/ Stop \/ Crash
           \/ UNCHANGED vars
  <2>1. Present' = Present /\ UNCHANGED <<dirs, pkg>>
    BY <1>2 DEF InstallPackages, DeleteTemporary, SpinUp, InstallFails, Stop,
                Crash, vars, Present
  <2>2. QED
    BY <1>1, <1>2, <2>1 DEF WholeOrInHand, TwoBesides, InstallPackages, DeleteTemporary,
                SpinUp, InstallFails, Stop, Crash, vars, Goto
<1>3. CASE \E p \in Packages : Install(p)
  <2>1. pc = "loop" /\ Present' = Present /\ UNCHANGED dirs
    BY <1>3 DEF Install, Present
  <2>2. QED
    BY <1>1, <1>3, <2>1 DEF WholeOrInHand, TwoBesides, Install, Goto
<1>4. CASE Download \/ ExtractPackage \/ ExecuteHook
  <2>1. PICK p, q \in Packages :
           Present \subseteq
             {p, q} \cup (IF pc \in {"extract", "hook", "clean", "retain"}
                         THEN {pkg} ELSE {})
    BY <1>1 DEF TwoBesides
  <2>2. pkg' = pkg /\ pkg \in Packages
    BY <1>4 DEF Download, ExtractPackage, ExecuteHook, TypeOK
  <2>3. CASE pc = "download" /\ pc' = "failed" /\ UNCHANGED dirs
    <3>1. Present' = Present /\ Present \subseteq {p, q}
      BY <2>1, <2>3 DEF Present
    <3>2. QED
      BY <1>1, <2>2, <2>3, <3>1 DEF WholeOrInHand, TwoBesides
  <2>4. CASE ~ (pc = "download" /\ pc' = "failed" /\ UNCHANGED dirs)
    <3>1. PICK what \in {"none", "partial", "unhooked", "whole"} :
             /\ dirs' = [dirs EXCEPT ![pkg] = what]
             /\ what = "none" => pc' = "failed"
             /\ what = "partial" => pc' = "extract"
             /\ what = "unhooked" => pc' = "hook"
             /\ what = "whole" => pc' = "clean"
      BY <1>4, <2>4 DEF Download, ExtractPackage, ExecuteHook, Holds, Goto
    <3>2. \A r \in Packages : dirs'[r] = IF r = pkg THEN what ELSE dirs[r]
      BY <3>1 DEF TypeOK
    <3>3. WholeOrInHand'
      BY <1>1, <1>4, <2>2, <3>1, <3>2 DEF WholeOrInHand, Present
    <3>4. TwoBesides'
      <4>1. \A r \in Present' : r \in {p, q} \/ (r = pkg /\ what # "none")
        BY <2>1, <3>2 DEF Present
      <4>2. QED
        BY <2>2, <3>1, <4>1 DEF TwoBesides
    <3>5. QED
      BY <3>3, <3>4
  <2>5. QED
    BY <2>3, <2>4
<1>5. CASE RetainPackages
  <2>1. \A p \in Packages : dirs'[p] = "none" \/ dirs'[p] = dirs[p]
    BY <1>5 DEF RetainPackages
  <2>2. pc = "retain" /\ pc' \in {"loop", "installed", "failed"}
    BY <1>5 DEF RetainPackages, Installed, Goto
  <2>3. WholeOrInHand'
    BY <1>1, <2>1, <2>2 DEF WholeOrInHand, Present
  <2>4. dirs' = [p \in Packages |-> IF p \in Present \ {pkg, latest} THEN "none" ELSE dirs[p]]
    BY <1>1, <1>5 DEF RetainPackages
  <2>5. Present' \subseteq {pkg, latest}
    BY <2>4 DEF Present
  <2>6. pkg \in Packages /\ Present' \subseteq Packages
    BY DEF TypeOK, Present
  <2>7. \E p, q \in Packages : Present' \subseteq {p, q}
    <3>1. CASE latest \in Packages
      BY <2>5, <2>6, <3>1
    <3>2. CASE latest \notin Packages
      <4>1. Present' \subseteq {pkg, pkg}
        BY <2>5, <2>6, <3>2
      <4>2. QED
        BY <2>6, <4>1
    <3>3. QED
      BY <3>1, <3>2
  <2>8. TwoBesides'
    BY <2>2, <2>7 DEF TwoBesides
  <2>9. QED
    BY <2>3, <2>8
<1>6. QED
  BY <1>2, <1>3, <1>4, <1>5 DEF Next

(* At rest at most two packages are on disk, for configurations of any     *)
(* size: failed downloads and extractions do not pile up.                  *)
THEOREM DiskBoundedCorrect == Spec => []DiskBounded
<1>1. DiskInv => DiskBounded
  <2>. SUFFICES ASSUME DiskInv, pc = "idle", ~ marred
                PROVE  Cardinality(Present) <= 2
    BY DEF DiskBounded
  <2>1. PICK p, q \in Packages : Present \subseteq {p, q}
    BY DEF DiskInv, TwoBesides
  <2>2. IsFiniteSet({p, q}) /\ Cardinality({p, q}) \in Nat /\ Cardinality({p, q}) <= 2
    <3>1. CASE p = q
      <4>1. {p, q} = {p}
        BY <3>1
      <4>2. QED
        BY <4>1, FS_Singleton
    <3>2. CASE p # q
      <4>1. IsFiniteSet({q}) /\ Cardinality({q}) = 1
        BY FS_Singleton
      <4>2. {p, q} = {q} \cup {p} /\ p \notin {q}
        BY <3>2
      <4>3. IsFiniteSet({p, q}) /\ Cardinality({p, q}) = 2
        BY <4>1, <4>2, FS_AddElement
      <4>4. QED
        BY <4>3
    <3>3. QED
      BY <3>1, <3>2
  <2>3. IsFiniteSet(Present) /\ Cardinality(Present) <= Cardinality({p, q})
    BY <2>1, <2>2, FS_Subset
  <2>4. Cardinality(Present) \in Nat
    BY <2>3, FS_CardinalityType
  <2>5. QED
    BY <2>2, <2>3, <2>4
<1>2. QED
  BY <1>1, InitDiskInv, NextDiskInv, PTL DEF Spec

(* With at most two packages per configuration, what the supervisor runs   *)
(* was extracted completely and its hook has run, unless a hook or a       *)
(* deletion failed or the process was killed: a directory that an install  *)
(* takes for an installed package is never one a failed install left.      *)
THEOREM RunsCompleteCorrect == AtMostTwo => (Spec => []RunsComplete)
<1>. SUFFICES ASSUME AtMostTwo PROVE Spec => []RunsComplete
  OBVIOUS
<1>1. RunningKept /\ DiskInv => RunsComplete
  BY DEF RunningKept, DiskInv, WholeOrInHand, RunsComplete
<1>2. Spec => []RunningKept
  BY RunningKeptCorrect
<1>3. QED
  BY <1>1, <1>2, InitDiskInv, NextDiskInv, PTL DEF Spec
=============================================================================
