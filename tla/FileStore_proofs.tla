--------------------------- MODULE FileStore_proofs ---------------------------
(***************************************************************************)
(* That the files of an agent, although they are written in place by three *)
(* threads and cut short by crashes, behave as an atomic store, and that   *)
(* an agent keeps its instance id: for all configurations, identifiers and *)
(* numbers of faults.                                                      *)
(*                                                                         *)
(* The lock alone does not give that.  An update reads and writes under    *)
(* two locks, and is atomic because nobody else may write the same file in *)
(* between: the main thread works on the files of an agent only while its  *)
(* threads do not run.                                                     *)
(***************************************************************************)
EXTENDS FileStore, FiniteSetTheorems, TLAPS

InLock(t) == pc[t] \in {"open", "fill", "sync"}
Writing(t) == pc[t] = "lock" \/ InLock(t)

(* Each file holds what belongs into it, and so does what was read of it.  *)
FilesTyped ==
    /\ file["config"] \in RemoteConfig \cup {None, Torn}
    /\ file["id"] \in DataStored \cup {None, Torn}

(* Exactly the thread inside a write holds the lock.                       *)
Locked == \A t \in Threads : InLock(t) <=> writer = t

(* The main thread builds and cleans only agents that do not run.          *)
Apart ==
    /\ pc["main"] # "idle" => ~ live
    /\ pc["runtime"] # "idle" => live
    /\ pc["client"] # "idle" => live

(* What the locals of a thread say at each point of an operation.          *)
Reads(t) ==
    \/ op[t] = "load" /\ key[t] = "config"
    \/ op[t] = "update" /\ key[t] = "config" /\ t = "runtime" /\ data[t] \in [state : States]
    \/ op[t] = "identity" /\ key[t] = "id" /\ t = "main"

Removes(t) ==
    \/ op[t] = "delete" /\ key[t] = "config" /\ t = "runtime"
    \/ op[t] = "clean" /\ t = "main"

(* A new id is written only if no id is in use.                            *)
WritesId(t) ==
    /\ op[t] = "identity" /\ key[t] = "id" /\ t = "main"
    /\ data[t] \in DataStored /\ data[t].of = ident
    /\ issued = {}

WritesConfig(t) ==
    /\ op[t] \in {"store", "update"} /\ key[t] = "config" /\ t = "runtime"
    /\ data[t] \in RemoteConfig
    /\ op[t] = "store" => data[t].state = "Applying"

(* What an update is about to write differs from what is stored by then    *)
(* only in its state.                                                      *)
Updates(t, d) ==
    op[t] = "update" => /\ d \in RemoteConfig
                        /\ data[t] = [d EXCEPT !.state = data[t].state]

Locals ==
    \A t \in Threads :
        /\ pc[t] = "get" => Reads(t)
        /\ pc[t] = "remove" => Removes(t)
        /\ Writing(t) => WritesId(t) \/ WritesConfig(t)
        /\ pc[t] \in {"lock", "open"} => Updates(t, file["config"])
        /\ pc[t] = "fill" => Updates(t, before) /\ file[key[t]] = Torn
        /\ pc[t] = "sync" => file[key[t]] = data[t]

(* The id that is in use is the stored one, made for these identifiers.    *)
IdStored ==
    issued # {} =>
        /\ file["id"] \in DataStored
        /\ file["id"].of = ident
        /\ issued = {file["id"].id}

IInv ==
    /\ TypeOK
    /\ FilesTyped
    /\ Locked
    /\ Apart
    /\ Locals
    /\ IdStored

-----------------------------------------------------------------------------
(* Values that differ from the marks.                                      *)
LEMMA Marks ==
    /\ \A d \in RemoteConfig : d \notin {None, Torn}
    /\ \A d \in DataStored : d \notin {None, Torn}
    /\ None # Torn
BY NoneAssumption

(* The initial states satisfy the inductive invariant.                     *)
LEMMA InitIInv == Init => IInv
<1>. SUFFICES ASSUME Init PROVE IInv
  OBVIOUS
<1>1. TypeOK
  <2>1. 0 \in 0..MaxIds /\ 0 \in 0..MaxFaults
    BY BoundsAssumption
  <2>2. QED
    BY <2>1 DEF Init, TypeOK, Content, Keys, Threads, Ops
<1>2. FilesTyped /\ Locked /\ Apart /\ Locals /\ IdStored
  BY NoThreadAssumption DEF Init, FilesTyped, Locked, InLock, Writing, Apart, Locals,
       IdStored, Keys, Threads
<1>3. QED
  BY <1>1, <1>2 DEF IInv

(* Entering an operation.                                                  *)
LEMMA BeginStep ==
    ASSUME IInv,
           StoreRemote \/ UpdateState \/ DeleteRemote \/ LoadRemote
             \/ EffectiveConfig \/ GetInstanceId \/ Clean
    PROVE  IInv'
<1>. USE DEF IInv, Begin, Goto, disk, history
<1>1. UNCHANGED <<file, dir, ident, live, writer, got, before, ids, issued, faults>>
  BY DEF StoreRemote, UpdateState, DeleteRemote, LoadRemote, EffectiveConfig,
         GetInstanceId, Clean
<1>2. TypeOK'
  BY <1>1 DEF TypeOK, StoreRemote, UpdateState, DeleteRemote, LoadRemote,
         EffectiveConfig, GetInstanceId, Clean, Threads, Keys, Ops, Content, RemoteConfig, States
<1>3. Locked' /\ Apart'
  BY <1>1 DEF TypeOK, Locked, Apart, InLock, StoreRemote, UpdateState, DeleteRemote,
         LoadRemote, EffectiveConfig, GetInstanceId, Clean, Threads
<1>4. Locals'
  BY <1>1 DEF TypeOK, Locals, Reads, Removes, Writing, InLock, WritesId, WritesConfig, Updates,
         StoreRemote, UpdateState, DeleteRemote, LoadRemote, EffectiveConfig,
         GetInstanceId, Clean, Threads, RemoteConfig, States
<1>5. FilesTyped' /\ IdStored'
  BY <1>1 DEF FilesTyped, IdStored
<1>6. QED
  BY <1>2, <1>3, <1>4, <1>5

(* Reading.                                                                *)
LEMMA GetStep ==
    ASSUME IInv, NEW t \in Threads, Get(t)
    PROVE  IInv'
<1>. USE DEF IInv, Get, Goto, Return, Unlocked, Issue, disk
<1>. DEFINE d == file[key[t]]
<1>1. key[t] \in Keys /\ d \in Content
  BY DEF TypeOK
<1>2. Reads(t)
  BY DEF Locals
<1>3. CASE op[t] = "load" \/ d = Torn \/ (op[t] = "update" /\ d = None)
  <2>1. UNCHANGED <<live, ids, issued>> /\ Return(t)
    BY <1>2, <1>3 DEF Matches, Reads
  <2>2. TypeOK'
    BY <1>1, <2>1 DEF TypeOK, Keys, Threads, Ops, Content
  <2>3. Locked' /\ Apart'
    BY <2>1 DEF TypeOK, Locked, Apart, InLock, Threads
  <2>4. Locals'
    BY <2>1 DEF TypeOK, Locals, Reads, Removes, Writing, InLock, WritesId,
           WritesConfig, Updates, Threads
  <2>5. FilesTyped' /\ IdStored'
    BY <2>1 DEF FilesTyped, IdStored
  <2>6. QED
    BY <2>2, <2>3, <2>4, <2>5
<1>4. CASE op[t] = "update" /\ d \notin {None, Torn}
  <2>1. /\ UNCHANGED <<live, op, key, ids, issued>>
        /\ data' = [data EXCEPT ![t] = [d EXCEPT !.state = data[t].state]]
        /\ pc' = [pc EXCEPT ![t] = "lock"]
    BY <1>4
  <2>2. d \in RemoteConfig /\ d = file["config"] /\ t = "runtime" /\ key[t] = "config"
    BY <1>2, <1>4 DEF Reads, FilesTyped
  <2>3. data'[t] \in RemoteConfig /\ data'[t] = [d EXCEPT !.state = data'[t].state]
    <3>1. data[t].state \in States
      BY <1>2, <1>4 DEF Reads
    <3>2. data'[t] = [d EXCEPT !.state = data[t].state]
      BY <2>1 DEF TypeOK
    <3>3. QED
      BY <2>2, <3>1, <3>2 DEF RemoteConfig
  <2>4. TypeOK'
    <3>1. data' \in [Threads -> Content \cup [state : States]]
      BY <2>1, <2>3 DEF TypeOK, Content
    <3>2. QED
      BY <1>1, <2>1, <3>1 DEF TypeOK
  <2>5. Locked' /\ Apart'
    BY <2>1, <2>2 DEF TypeOK, Locked, Apart, InLock, Threads
  <2>6. Locals'
    BY <1>4, <2>1, <2>2, <2>3 DEF TypeOK, Locals, Reads, Removes, Writing, InLock,
           WritesId, WritesConfig, Updates, Threads
  <2>7. FilesTyped' /\ IdStored'
    BY <2>1 DEF FilesTyped, IdStored
  <2>8. QED
    BY <2>4, <2>5, <2>6, <2>7
<1>5. CASE op[t] = "identity" /\ d # Torn /\ Matches(d)
  <2>1. UNCHANGED ids /\ Issue(d.id) /\ Return(t)
    BY <1>2, <1>5 DEF Reads
  <2>2. d \in DataStored /\ d = file["id"] /\ t = "main"
    BY <1>2, <1>5 DEF Reads, FilesTyped, Matches
  <2>3. issued' = {d.id}
    BY <2>1, <2>2 DEF IdStored
  <2>4. TypeOK'
    <3>1. d.id \in 1..MaxIds
      BY <2>2 DEF DataStored
    <3>2. QED
      BY <1>1, <2>1, <2>3, <3>1 DEF TypeOK, Keys, Threads, Ops, Content
  <2>5. Locked' /\ Apart'
    BY <2>1, <2>2 DEF TypeOK, Locked, Apart, InLock, Threads
  <2>6. Locals'
    BY <2>1, <2>2 DEF TypeOK, Apart, Locals, Reads, Removes, Writing, InLock, WritesId,
           WritesConfig, Updates, Threads
  <2>7. FilesTyped' /\ IdStored'
    BY <1>5, <2>2, <2>3 DEF FilesTyped, IdStored, Matches
  <2>8. QED
    BY <2>4, <2>5, <2>6, <2>7
<1>6. CASE op[t] = "identity" /\ d # Torn /\ ~ Matches(d)
  <2>1. /\ UNCHANGED <<live, op, key, issued>>
        /\ ids < MaxIds /\ ids' = ids + 1
        /\ data' = [data EXCEPT ![t] = [id |-> ids + 1, of |-> ident]]
        /\ pc' = [pc EXCEPT ![t] = "lock"]
    BY <1>2, <1>6 DEF Reads
  <2>2. d = file["id"] /\ t = "main" /\ key[t] = "id"
    BY <1>2, <1>6 DEF Reads
  <2>3. issued = {}
    BY <1>6, <2>2, Marks DEF IdStored, Matches
  <2>4. ids' \in 1..MaxIds
    BY <2>1, BoundsAssumption DEF TypeOK
  <2>5. data'[t] \in DataStored /\ data'[t].of = ident
    BY <2>1, <2>4 DEF TypeOK, DataStored
  <2>6. TypeOK'
    <3>1. data' \in [Threads -> Content \cup [state : States]]
      BY <2>1, <2>5 DEF TypeOK, Content
    <3>2. ids' \in 0..MaxIds
      BY <2>1, BoundsAssumption DEF TypeOK
    <3>3. pc' \in [Threads -> {"idle", "get", "lock", "open", "fill", "sync", "remove"}]
      BY <2>1 DEF TypeOK
    <3>4. got' \in [Threads -> Content]
      BY <1>1 DEF TypeOK
    <3>5. QED
      BY <2>1, <3>1, <3>2, <3>3, <3>4 DEF TypeOK
  <2>7. Locked' /\ Apart'
    BY <2>1, <2>2 DEF TypeOK, Locked, Apart, InLock, Threads
  <2>8. Locals'
    BY <1>6, <2>1, <2>2, <2>3, <2>5 DEF TypeOK, Locals, Reads, Removes, Writing,
           InLock, WritesId, WritesConfig, Updates, Threads
  <2>9. FilesTyped' /\ IdStored'
    BY <2>1 DEF FilesTyped, IdStored
  <2>10. QED
    BY <2>6, <2>7, <2>8, <2>9
<1>7. QED
  BY <1>2, <1>3, <1>4, <1>5, <1>6 DEF Reads

(* A read that fails, a removal that fails.                                *)
LEMMA ReturnStep ==
    ASSUME IInv, NEW t \in Threads, GetFails(t) \/ RemoveFails(t)
    PROVE  IInv'
<1>. USE DEF IInv, GetFails, RemoveFails, Fails, Goto, Return, disk
<1>1. TypeOK'
  <2>1. faults' \in 0..MaxFaults
    BY BoundsAssumption DEF TypeOK
  <2>2. Return(t) /\ UNCHANGED <<file, dir, ident, live, writer, got, before, ids, issued>>
    OBVIOUS
  <2>3. QED
    BY <2>1, <2>2 DEF TypeOK, Threads, Keys, Ops, Content
<1>2. Locked' /\ Apart'
  BY DEF TypeOK, Locked, InLock, Apart, Threads
<1>3. Locals'
  BY DEF TypeOK, Locals, Reads, Removes, Writing, InLock, WritesId, WritesConfig,
         Updates, Threads
<1>4. FilesTyped' /\ IdStored'
  BY DEF FilesTyped, IdStored
<1>5. QED
  BY <1>1, <1>2, <1>3, <1>4

(* The write lock is taken only by a thread that is about to change a file.*)
LEMMA LockStep ==
    ASSUME IInv, NEW t \in Threads, Lock(t)
    PROVE  IInv'
<1>. USE DEF IInv, Lock, Goto, disk, history
<1>1. TypeOK'
  BY DEF TypeOK, Threads, Keys, Ops, Content
<1>2. Locked' /\ Apart'
  BY NoThreadAssumption DEF TypeOK, Locked, InLock, Apart, Threads
<1>3. Locals'
  BY DEF TypeOK, Locals, Reads, Removes, Writing, InLock, WritesId, WritesConfig,
         Updates, Threads
<1>4. FilesTyped' /\ IdStored'
  BY DEF FilesTyped, IdStored
<1>5. QED
  BY <1>1, <1>2, <1>3, <1>4

(* Opening a file for writing truncates it, under the lock.                *)
LEMMA OpenStep ==
    ASSUME IInv, NEW t \in Threads, Open(t)
    PROVE  IInv'
<1>. USE DEF IInv, Open, Goto
<1>1. TypeOK'
  BY DEF TypeOK, Threads, Keys, Ops, Content
<1>2. Locked' /\ Apart'
  BY DEF TypeOK, Locked, InLock, Apart, Threads
<1>3. Locals'
  BY NoThreadAssumption DEF TypeOK, Locked, Locals, Reads, Removes, Writing, InLock, WritesId,
         WritesConfig, Updates, Threads, Keys
<1>4. FilesTyped' /\ IdStored'
  BY DEF TypeOK, FilesTyped, IdStored, Locals, Writing, InLock, WritesId, WritesConfig, Keys
<1>5. QED
  BY <1>1, <1>2, <1>3, <1>4

(* The file gets what the thread holds, which is of the file's kind.       *)
LEMMA FillStep ==
    ASSUME IInv, NEW t \in Threads, Fill(t)
    PROVE  IInv'
<1>. USE DEF IInv, Fill, Goto, history
<1>0. data[t] \in Content
  BY DEF Locals, Writing, InLock, WritesId, WritesConfig, Content
<1>1. TypeOK'
  BY <1>0 DEF TypeOK, Threads, Keys, Ops
<1>2. Locked' /\ Apart'
  BY DEF TypeOK, Locked, InLock, Apart, Threads
<1>3. Locals'
  BY NoThreadAssumption DEF TypeOK, Locked, Apart, Locals, Reads, Removes, Writing, InLock, WritesId,
         WritesConfig, Updates, Threads, Keys
<1>4. FilesTyped' /\ IdStored'
  BY DEF TypeOK, FilesTyped, IdStored, Locals, Writing, InLock, WritesId, WritesConfig, Keys
<1>5. QED
  BY <1>1, <1>2, <1>3, <1>4

(* The write is complete: the lock is released and the call returns.       *)
LEMMA SyncStep ==
    ASSUME IInv, NEW t \in Threads, Sync(t)
    PROVE  IInv'
<1>. USE DEF IInv, Sync, Goto, Return, disk
<1>1. WritesId(t) \/ WritesConfig(t)
  BY DEF Locals, Writing, InLock
<1>2. CASE WritesId(t)
  <2>1. /\ file["id"] = data[t] /\ data[t] \in DataStored /\ data[t].of = ident
        /\ issued' = {data[t].id} /\ live' = TRUE /\ t = "main"
    BY <1>2 DEF Locals, WritesId, Issue
  <2>2. TypeOK'
    <3>1. data[t].id \in 1..MaxIds
      BY <2>1 DEF DataStored
    <3>2. QED
      BY <2>1, <3>1 DEF TypeOK, Keys, Threads, Ops, Content
  <2>3. Locked' /\ Apart'
    BY <2>1, NoThreadAssumption DEF TypeOK, Locked, Apart, InLock, Threads
  <2>4. Locals'
    BY <2>1, NoThreadAssumption DEF TypeOK, Locked, Apart, Locals, Reads, Removes,
           Writing, InLock, WritesId, WritesConfig, Updates, Threads
  <2>5. FilesTyped' /\ IdStored'
    BY <2>1 DEF FilesTyped, IdStored
  <2>6. QED
    BY <2>2, <2>3, <2>4, <2>5
<1>3. CASE WritesConfig(t)
  <2>1. UNCHANGED <<live, issued>>
    BY <1>3 DEF WritesConfig
  <2>2. TypeOK'
    BY <2>1 DEF TypeOK, Keys, Threads, Ops, Content
  <2>3. Locked' /\ Apart'
    BY <2>1, NoThreadAssumption DEF TypeOK, Locked, Apart, InLock, Threads
  <2>4. Locals'
    BY <2>1, NoThreadAssumption DEF TypeOK, Locked, Locals, Reads, Removes,
           Writing, InLock, WritesId, WritesConfig, Updates, Threads
  <2>5. FilesTyped' /\ IdStored'
    BY <2>1 DEF FilesTyped, IdStored
  <2>6. QED
    BY <2>2, <2>3, <2>4, <2>5
<1>4. QED
  BY <1>1, <1>2, <1>3

(* A write that fails leaves the file as it is and releases the lock.      *)
LEMMA WriteFailsStep ==
    ASSUME IInv, NEW t \in Threads, WriteFails(t)
    PROVE  IInv'
<1>. USE DEF IInv, WriteFails, Fails, Goto, Return, disk
<1>1. TypeOK'
  <2>1. faults' \in 0..MaxFaults
    BY BoundsAssumption DEF TypeOK
  <2>2. QED
    BY <2>1 DEF TypeOK, Threads, Keys, Ops, Content
<1>2. Locked' /\ Apart'
  BY NoThreadAssumption DEF TypeOK, Locked, InLock, Apart, Threads
<1>3. Locals'
  BY NoThreadAssumption DEF TypeOK, Locked, Locals, Reads, Removes, Writing, InLock,
         WritesId, WritesConfig, Updates, Threads
<1>4. FilesTyped' /\ IdStored'
  BY DEF FilesTyped, IdStored
<1>5. QED
  BY <1>1, <1>2, <1>3, <1>4

(* A file is removed under the lock.                                       *)
LEMMA RemoveStep ==
    ASSUME IInv, NEW t \in Threads, RemoveFile(t)
    PROVE  IInv'
<1>. USE DEF IInv, RemoveFile, Goto, Return
<1>1. Removes(t)
  BY DEF Locals
<1>2. TypeOK'
  <2>1. file' \in [Keys -> Content] /\ issued' \subseteq 1..MaxIds
    BY DEF TypeOK, Content
  <2>2. key' \in [Threads -> Keys]
    BY DEF TypeOK, Keys
  <2>3. pc' \in [Threads -> {"idle", "get", "lock", "open", "fill", "sync", "remove"}]
    BY DEF TypeOK
  <2>4. op' \in [Threads -> Ops]
    BY DEF TypeOK, Ops
  <2>5. data' \in [Threads -> Content \cup [state : States]]
    BY DEF TypeOK, Content
  <2>6. QED
    BY <2>1, <2>2, <2>3, <2>4, <2>5 DEF TypeOK
<1>3. Locked' /\ Apart'
  BY <1>1 DEF TypeOK, Locked, InLock, Apart, Threads, Removes
<1>4. Locals'
  BY <1>1, NoThreadAssumption DEF TypeOK, Apart, Locked, Locals, Reads, Removes,
         Writing, InLock, WritesId, WritesConfig, Updates, Threads, Keys
<1>5. FilesTyped' /\ IdStored'
  BY <1>1 DEF TypeOK, FilesTyped, IdStored, Removes, Keys
<1>6. QED
  BY <1>2, <1>3, <1>4, <1>5

(* Only an agent with no call under way is stopped.                        *)
LEMMA StopStep == ASSUME IInv, StopAgent PROVE IInv'
<1>. USE DEF IInv, StopAgent, disk, thread, history
<1>1. TypeOK' /\ Locked' /\ FilesTyped' /\ IdStored'
  BY DEF TypeOK, Locked, InLock, FilesTyped, IdStored
<1>2. Apart'
  BY DEF Apart
<1>3. Locals'
  BY DEF Locals, Reads, Removes, Writing, InLock, WritesId, WritesConfig, Updates
<1>4. QED
  BY <1>1, <1>2, <1>3

(* Of what was not synced, only the file of the writer may be lost: if     *)
(* that is the id, no id was in use.                                       *)
LEMMA CrashStep == ASSUME IInv, Crash PROVE IInv'
<1>. USE DEF IInv, Crash, Fails
<1>1. PICK i \in Idents : ident' = i /\ issued' = IF i = ident THEN issued ELSE {}
  OBVIOUS
<1>2. \/ file' = file
      \/ \E t \in Threads : pc[t] = "sync" /\ file' = [file EXCEPT ![key[t]] = Torn]
  OBVIOUS
<1>3. \/ file' = file
      \/ file' = [file EXCEPT !["config"] = Torn]
      \/ file' = [file EXCEPT !["id"] = Torn] /\ issued = {}
  BY <1>2 DEF Locals, Writing, InLock, WritesId, WritesConfig
<1>4. TypeOK'
  <2>1. faults' \in 0..MaxFaults
    BY BoundsAssumption DEF TypeOK
  <2>2. QED
    BY <1>1, <1>3, <2>1 DEF TypeOK, Threads, Keys, Ops, Content
<1>5. Locked' /\ Apart' /\ Locals'
  BY NoThreadAssumption DEF Locked, Apart, Locals, InLock, Writing, Threads
<1>6. FilesTyped' /\ IdStored'
  BY <1>1, <1>3 DEF TypeOK, FilesTyped, IdStored, Keys
<1>7. QED
  BY <1>4, <1>5, <1>6

(* Every action preserves the inductive invariant.                         *)
LEMMA NextIInv == ASSUME IInv, [Next]_vars PROVE IInv'
<1>1. CASE UNCHANGED vars
  BY <1>1 DEF vars, disk, thread, history, IInv, TypeOK, FilesTyped, Locked, Apart, Locals, Reads,
       Removes, Writing, InLock, WritesId, WritesConfig, Updates, IdStored
<1>2. CASE Next
  BY <1>2, BeginStep, GetStep, ReturnStep, LockStep, OpenStep, FillStep, SyncStep,
     WriteFailsStep, RemoveStep, StopStep, CrashStep DEF Next, Step
<1>3. QED
  BY <1>1, <1>2

(* The inductive invariant holds throughout.                               *)
LEMMA Invariant == Spec => []IInv
BY InitIInv, NextIInv, PTL DEF Spec

(* The variables of the store keep their types: every file holds what      *)
(* belongs into it, through every interleaving and crash.                  *)
THEOREM TypeCorrect == Spec => []TypeOK
<1>1. IInv => TypeOK
  BY DEF IInv
<1>2. QED
  BY <1>1, Invariant, PTL

(* An agent keeps its instance id from its first build to its removal, for *)
(* any number of restarts, failures and identifiers of the host.           *)
THEOREM IdentityStableCorrect == Spec => []IdentityStable
<1>1. Cardinality({}) = 0 /\ \A x : Cardinality({x}) = 1
  BY FS_EmptySet, FS_Singleton, Zenon
<1>2. IInv => issued = {} \/ \E x : issued = {x}
  BY DEF IInv, IdStored
<1>3. IInv => Cardinality(issued) = 0 \/ Cardinality(issued) = 1
  BY <1>1, <1>2, Zenon
<1>4. IInv => IdentityStable
  BY <1>3 DEF IdentityStable
<1>5. QED
  BY <1>4, Invariant, PTL

-----------------------------------------------------------------------------
(* What the callers of the store see.                                      *)
View == [k \in Keys |-> Value(k)]
view == <<View, got, faults>>

(* A thread that does not hold the lock does not change the view by moving. *)
LEMMA SameView ==
    ASSUME IInv, NEW t \in Threads, ~ InLock(t),
           \A u \in Threads \ {t} : pc'[u] = pc[u] /\ key'[u] = key[u],
           UNCHANGED <<file, writer, before>>
    PROVE  View' = View
BY NoThreadAssumption DEF IInv, TypeOK, Locked, View, Value, InLock

(* Entering an operation does not touch the store.                         *)
LEMMA BeginRefines ==
    ASSUME IInv,
           StoreRemote \/ UpdateState \/ DeleteRemote \/ LoadRemote
             \/ EffectiveConfig \/ GetInstanceId \/ Clean
    PROVE  UNCHANGED view
<1>1. PICK t \in Threads : \E o, k, v, label : Begin(t, o, k, v, label)
  BY DEF StoreRemote, UpdateState, DeleteRemote, LoadRemote, EffectiveConfig,
         GetInstanceId, Clean, Threads
<1>2. ~ InLock(t) /\ UNCHANGED <<file, writer, before, got, faults>>
  BY <1>1 DEF Begin, InLock, disk, history
<1>3. \A u \in Threads \ {t} : pc'[u] = pc[u] /\ key'[u] = key[u]
  BY <1>1 DEF Begin, Goto, IInv, TypeOK
<1>4. QED
  BY <1>2, <1>3, SameView DEF view

(* A read is atomic: nobody writes while the read lock is held.            *)
LEMMA GetRefines ==
    ASSUME IInv, NEW t \in Threads, Get(t)
    PROVE  Atomic!Read(t, key[t]) /\ key[t] \in Keys
<1>1. ~ InLock(t) /\ UNCHANGED <<file, writer, before, faults>> /\ writer = NoThread
  BY DEF Get, InLock, disk, Unlocked
<1>2. \A u \in Threads \ {t} : pc'[u] = pc[u] /\ key'[u] = key[u]
  BY DEF Get, Return, Goto, IInv, TypeOK
<1>3. View' = View
  BY <1>1, <1>2, SameView
<1>4. key[t] \in Keys
  BY DEF IInv, TypeOK
<1>5. View[key[t]] = file[key[t]]
  BY <1>1, <1>4 DEF View, Value
<1>6. got' = [got EXCEPT ![t] = View[key[t]]]
  BY <1>5 DEF Get
<1>7. QED
  BY <1>1, <1>3, <1>4, <1>6 DEF Atomic!Read, View

(* An operation that fails before it writes is a fault that costs nothing. *)
LEMMA ReturnRefines ==
    ASSUME IInv, NEW t \in Threads, GetFails(t) \/ RemoveFails(t)
    PROVE  Atomic!Fault
<1>1. ~ InLock(t) /\ UNCHANGED <<file, writer, before, got>> /\ faults' = faults + 1
  BY DEF GetFails, RemoveFails, InLock, disk, Fails
<1>2. \A u \in Threads \ {t} : pc'[u] = pc[u] /\ key'[u] = key[u]
  BY DEF GetFails, RemoveFails, Return, Goto, IInv, TypeOK
<1>3. View' = View
  BY <1>1, <1>2, SameView
<1>4. QED
  BY <1>1, <1>3 DEF Atomic!Fault, View

(* Taking the lock and truncating the file are not seen.                   *)
LEMMA LockRefines ==
    ASSUME IInv, NEW t \in Threads, Lock(t)
    PROVE  UNCHANGED view
<1>1. View' = View
  BY NoThreadAssumption DEF IInv, TypeOK, Lock, Goto, View, Value
<1>2. QED
  BY <1>1 DEF Lock, history, view

(* A truncated file is one the abstract store has not written yet.         *)
LEMMA OpenRefines ==
    ASSUME IInv, NEW t \in Threads, Open(t)
    PROVE  UNCHANGED view
<1>1. writer = t /\ key[t] \in Keys
  BY DEF Open, IInv, TypeOK, Locked, InLock
<1>2. View' = View
  BY <1>1, NoThreadAssumption DEF IInv, TypeOK, Open, Goto, View, Value
<1>3. QED
  BY <1>2 DEF Open, view

(* The write takes effect when the file is filled: a new value is put, or  *)
(* the state of the one that is stored is replaced.                        *)
LEMMA FillRefines ==
    ASSUME IInv, NEW t \in Threads, Fill(t)
    PROVE  Atomic!Next
<1>1. /\ writer = t /\ key[t] \in Keys
      /\ UNCHANGED <<got, faults, writer, key, before, data>>
      /\ t # NoThread
  BY NoThreadAssumption DEF Fill, IInv, TypeOK, Locked, InLock, history
<1>2. View' = [View EXCEPT ![key[t]] = data[t]]
  BY <1>1, NoThreadAssumption DEF IInv, TypeOK, Fill, Goto, View, Value
<1>3. View[key[t]] = before
  BY <1>1 DEF Fill, View, Value
<1>4. WritesId(t) \/ WritesConfig(t)
  BY DEF IInv, Fill, Locals, Writing, InLock
<1>5. CASE WritesId(t)
  <2>1. Atomic!Put("id", data[t])
    BY <1>1, <1>2, <1>5 DEF Atomic!Put, View, WritesId
  <2>2. QED
    BY <1>5, <2>1 DEF Atomic!Next, WritesId, Keys
<1>6. CASE WritesConfig(t) /\ op[t] = "store"
  <2>1. Atomic!Put("config", data[t])
    BY <1>1, <1>2, <1>6 DEF Atomic!Put, View, WritesConfig
  <2>2. data[t] \in {v \in RemoteConfig : v.state = "Applying"}
    BY <1>6 DEF WritesConfig
  <2>3. QED
    BY <2>1, <2>2 DEF Atomic!Next, Keys
<1>7. CASE WritesConfig(t) /\ op[t] = "update"
  <2>1. /\ before \in RemoteConfig
        /\ data[t] = [before EXCEPT !.state = data[t].state]
    BY <1>7 DEF IInv, Locals, Updates, Fill
  <2>2. data[t].state \in States
    BY <1>7 DEF WritesConfig, RemoteConfig
  <2>3. key[t] = "config"
    BY <1>7 DEF WritesConfig
  <2>4. View' = [View EXCEPT !["config"].state = data[t].state]
    <3>1. View["config"] = before
      BY <1>3, <2>3
    <3>2. View' = [View EXCEPT !["config"] = [before EXCEPT !.state = data[t].state]]
      BY <1>2, <2>1, <2>3
    <3>3. QED
      BY <3>1, <3>2
  <2>5. View["config"] \notin {None, Torn}
    BY <1>3, <2>1, <2>3, Marks
  <2>6. Atomic!Update("config", data[t].state)
    BY <1>1, <2>4, <2>5 DEF Atomic!Update, View
  <2>7. QED
    BY <2>2, <2>6 DEF Atomic!Next
<1>8. QED
  BY <1>4, <1>5, <1>6, <1>7 DEF WritesConfig

(* Syncing the file is not seen.                                           *)
LEMMA SyncRefines ==
    ASSUME IInv, NEW t \in Threads, Sync(t)
    PROVE  UNCHANGED view
<1>1. writer = t
  BY DEF Sync, IInv, Locked, InLock
<1>2. View' = View
  BY <1>1 DEF Sync, disk, View, Value
<1>3. QED
  BY <1>2 DEF Sync, view

(* A write that fails leaves the old value, an unreadable file, or the new *)
(* value, which was seen when the file was filled.                         *)
LEMMA WriteFailsRefines ==
    ASSUME IInv, NEW t \in Threads, WriteFails(t)
    PROVE  Atomic!Fault
<1>1. /\ writer = t /\ writer' = NoThread /\ t # NoThread /\ key[t] \in Keys
      /\ UNCHANGED <<file, got>> /\ faults' = faults + 1
  BY NoThreadAssumption DEF WriteFails, IInv, TypeOK, Locked, InLock, disk, Fails
<1>2. \A k \in Keys : View'[k] = file[k]
  BY <1>1 DEF View, Value
<1>3. CASE pc[t] = "fill"
  <2>1. file[key[t]] = Torn
    BY <1>3 DEF IInv, Locals
  <2>2. View' = [View EXCEPT ![key[t]] = Torn]
    BY <1>1, <1>2, <2>1 DEF View, Value
  <2>3. QED
    BY <1>1, <2>2 DEF Atomic!Fault, View
<1>4. CASE pc[t] # "fill"
  <2>1. View' = View
    BY <1>1, <1>2, <1>4 DEF View, Value
  <2>2. QED
    BY <1>1, <2>1 DEF Atomic!Fault, View
<1>5. QED
  BY <1>3, <1>4

(* Removing the file is the atomic removal: no writer is inside.           *)
LEMMA RemoveRefines ==
    ASSUME IInv, NEW t \in Threads, RemoveFile(t)
    PROVE  Atomic!Remove(key[t]) /\ key[t] \in Keys
<1>1. /\ writer = NoThread /\ key[t] \in Keys
      /\ UNCHANGED <<writer, got, faults>>
      /\ file' = [file EXCEPT ![key[t]] = None]
  BY DEF RemoveFile, IInv, TypeOK
<1>2. View' = [View EXCEPT ![key[t]] = None]
  BY <1>1 DEF IInv, TypeOK, View, Value
<1>3. QED
  BY <1>1, <1>2 DEF Atomic!Remove, View

(* Stopping the agent does not touch the store.                            *)
LEMMA StopRefines == ASSUME IInv, StopAgent PROVE UNCHANGED view
BY DEF StopAgent, disk, thread, history, view, View, Value

(* The end of the process costs at most the value that was being written.  *)
LEMMA CrashRefines == ASSUME IInv, Crash PROVE Atomic!Fault
<1>1. writer' = NoThread /\ UNCHANGED got /\ faults' = faults + 1
  BY DEF Crash, Fails
<1>2. \A k \in Keys : View'[k] = file'[k]
  BY <1>1 DEF View, Value
<1>3. CASE \E t \in Threads : pc[t] = "sync" /\ file' = [file EXCEPT ![key[t]] = Torn]
  <2>1. PICK t \in Threads : pc[t] = "sync" /\ file' = [file EXCEPT ![key[t]] = Torn]
    BY <1>3
  <2>2. writer = t /\ key[t] \in Keys
    BY <2>1 DEF IInv, TypeOK, Locked, InLock
  <2>3. View' = [View EXCEPT ![key[t]] = Torn]
    BY <1>2, <2>1, <2>2 DEF IInv, TypeOK, View, Value
  <2>4. QED
    BY <1>1, <2>2, <2>3 DEF Atomic!Fault, View
<1>4. CASE file' = file /\ \E t \in Threads : pc[t] = "fill"
  <2>1. PICK t \in Threads : pc[t] = "fill"
    BY <1>4
  <2>2. writer = t /\ key[t] \in Keys /\ t # NoThread /\ file[key[t]] = Torn
    BY <2>1, NoThreadAssumption DEF IInv, TypeOK, Locked, InLock, Locals
  <2>3. View' = [View EXCEPT ![key[t]] = Torn]
    BY <1>2, <1>4, <2>1, <2>2 DEF View, Value
  <2>4. QED
    BY <1>1, <2>2, <2>3 DEF Atomic!Fault, View
<1>5. CASE file' = file /\ ~ \E t \in Threads : pc[t] = "fill"
  <2>1. View' = View
    BY <1>2, <1>5 DEF IInv, TypeOK, View, Value
  <2>2. QED
    BY <1>1, <2>1 DEF Atomic!Fault, View
<1>6. QED
  BY <1>3, <1>4, <1>5 DEF Crash

(* Every step of the files is a step of the atomic store, or none.         *)
LEMMA NextRefines ==
    ASSUME IInv, [Next]_vars
    PROVE  [Atomic!Next]_view
<1>1. CASE UNCHANGED vars
  BY <1>1 DEF vars, disk, thread, history, view, View, Value
<1>2. CASE StoreRemote \/ UpdateState \/ DeleteRemote \/ LoadRemote
             \/ EffectiveConfig \/ GetInstanceId \/ Clean
  BY <1>2, BeginRefines
<1>3. ASSUME NEW t \in Threads, Step(t)
      PROVE  [Atomic!Next]_view
  <2>1. CASE Get(t)
    BY <2>1, GetRefines DEF Atomic!Next
  <2>2. CASE RemoveFile(t)
    BY <2>2, RemoveRefines DEF Atomic!Next
  <2>3. CASE GetFails(t) \/ RemoveFails(t)
    BY <2>3, ReturnRefines DEF Atomic!Next
  <2>4. CASE WriteFails(t)
    BY <2>4, WriteFailsRefines DEF Atomic!Next
  <2>5. CASE Fill(t)
    BY <2>5, FillRefines
  <2>6. CASE Lock(t) \/ Open(t) \/ Sync(t)
    BY <2>6, LockRefines, OpenRefines, SyncRefines
  <2>7. QED
    BY <1>3, <2>1, <2>2, <2>3, <2>4, <2>5, <2>6 DEF Step
<1>4. CASE StopAgent
  BY <1>4, StopRefines
<1>5. CASE Crash
  BY <1>5, CrashRefines DEF Atomic!Next
<1>6. QED
  BY <1>1, <1>2, <1>3, <1>4, <1>5 DEF Next

(* The files behave as an atomic store: every reader gets a whole value,   *)
(* an update changes the state of the value that is there and nothing      *)
(* else, and only faults make a value unreadable.  For all configurations, *)
(* identifiers and numbers of faults.                                      *)
THEOREM StoreIsAtomicCorrect == Spec => StoreIsAtomic
<1>1. Init => Atomic!Init
  BY DEF Init, Atomic!Init, Value
<1>2. IInv /\ [Next]_vars => [Atomic!Next]_<<View, got, faults>>
  BY NextRefines DEF view
<1>3. QED
  BY <1>1, <1>2, Invariant, PTL DEF Spec, StoreIsAtomic, Atomic!Spec, View
=============================================================================
