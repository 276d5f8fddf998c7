------------------------------ MODULE FileStore ------------------------------
(***************************************************************************)
(* The files that Agent Control keeps for one sub-agent under fleet-data:  *)
(* the remote configuration with its state, and the instance id with the   *)
(* identifiers it was made for.  A file is written in place: it is         *)
(* truncated, filled and synced, and the process may end in between.       *)
(*                                                                         *)
(* Three threads use them: the main thread gets the instance id when it    *)
(* builds the agent and deletes both files when it cleans up after it; the *)
(* sub-agent's thread stores, updates, deletes and loads the configuration;*)
(* the thread of its OpAMP client loads it for the effective config.       *)
(*                                                                         *)
(* Source: agent-control/src/on_host/file_store.rs, values.rs,             *)
(* values/config_repository.rs, opamp/instance_id, opamp/effective_config, *)
(* agent_control/resource_cleaner/on_host.rs, fs/src.                      *)
(***************************************************************************)
EXTENDS Naturals, FiniteSets

CONSTANTS
    Configs,      \* remote configurations, hash included
    Idents,       \* host identifiers the process may find when it starts
    None,         \* there is no file
    Torn,         \* the file does not parse: empty or cut short
    NoThread,
    MaxIds,       \* bound on the instance ids created
    MaxFaults     \* bound on failed operations and on ends of the process

States == {"Applying", "Applied", "Failed"}
Threads == {"main", "runtime", "client"}
Keys == {"config", "id"}
RemoteConfig == [config : Configs, state : States]
DataStored == [id : 1..MaxIds, of : Idents]
Content == RemoteConfig \cup DataStored \cup {None, Torn}

ASSUME NoneAssumption ==
    /\ None \notin RemoteConfig \cup DataStored
    /\ Torn \notin RemoteConfig \cup DataStored \cup {None}
ASSUME NoThreadAssumption == NoThread \notin Threads
ASSUME BoundsAssumption == MaxIds \in Nat /\ MaxFaults \in Nat

VARIABLES
    (* Disk. *)
    file,      \* content of the file at each key
    dir,       \* the directory of the agent exists
    (* The process. *)
    ident,     \* the identifiers found at start
    live,      \* the agent was built: its two threads run
    writer,    \* holder of the write lock of `remote_dir`
    pc,        \* where each thread is
    op,        \* the operation each thread is in
    key,       \* the key of that operation
    data,      \* the value it is to write, or the state to put in it
    got,       \* the value it read last
    (* History. *)
    before,    \* content of the file when the writer truncated it
    ids,       \* instance ids created so far
    issued,    \* ids the agent was built with since its id was last deleted
               \* or the identifiers changed
    faults

disk == <<file, dir>>
thread == <<pc, op, key, data>>
history == <<before, ids, issued, faults>>
vars == <<disk, ident, live, writer, thread, got, history>>

Ops == {"identity", "clean", "load", "store", "update", "delete"}

TypeOK ==
    /\ file \in [Keys -> Content]
    /\ dir \in BOOLEAN
    /\ ident \in Idents
    /\ live \in BOOLEAN
    /\ writer \in Threads \cup {NoThread}
    /\ pc \in [Threads -> {"idle", "get", "lock", "open", "fill", "sync", "remove"}]
    /\ op \in [Threads -> Ops]
    /\ key \in [Threads -> Keys]
    /\ data \in [Threads -> Content \cup [state : States]]
    /\ got \in [Threads -> Content]
    /\ before \in Content
    /\ ids \in 0..MaxIds
    /\ issued \subseteq 1..MaxIds
    /\ faults \in 0..MaxFaults

Init ==
    /\ file = [k \in Keys |-> None]
    /\ dir = FALSE
    /\ ident \in Idents
    /\ live = FALSE
    /\ writer = NoThread
    /\ pc = [t \in Threads |-> "idle"]
    /\ op = [t \in Threads |-> "load"]
    /\ key = [t \in Threads |-> "config"]
    /\ data = [t \in Threads |-> None]
    /\ got = [t \in Threads |-> None]
    /\ before = None
    /\ ids = 0
    /\ issued = {}
    /\ faults = 0

-----------------------------------------------------------------------------
Goto(t, label) == pc' = [pc EXCEPT ![t] = label]
(* The operation returns: its locals are gone.                             *)
Return(t) ==
    /\ Goto(t, "idle")
    /\ op' = [op EXCEPT ![t] = "load"]
    /\ key' = [key EXCEPT ![t] = "config"]
    /\ data' = [data EXCEPT ![t] = None]
Fails == faults < MaxFaults /\ faults' = faults + 1

(* A thread enters an operation.                                           *)
Begin(t, o, k, v, label) ==
    /\ pc[t] = "idle"
    /\ op' = [op EXCEPT ![t] = o]
    /\ key' = [key EXCEPT ![t] = k]
    /\ data' = [data EXCEPT ![t] = v]
    /\ Goto(t, label)
    /\ UNCHANGED <<disk, ident, live, writer, got, history>>

(* The operations of the configuration repository, each on behalf of the   *)
(* thread that calls it.                                                   *)
StoreRemote == \E c \in Configs :
    live /\ Begin("runtime", "store", "config", [config |-> c, state |-> "Applying"], "lock")
UpdateState == \E s \in States :
    live /\ Begin("runtime", "update", "config", [state |-> s], "get")
DeleteRemote == live /\ Begin("runtime", "delete", "config", None, "remove")
LoadRemote == live /\ Begin("runtime", "load", "config", None, "get")
EffectiveConfig == live /\ Begin("client", "load", "config", None, "get")

(* The main thread builds the agent, starting with its instance id.        *)
GetInstanceId == ~ live /\ Begin("main", "identity", "id", None, "get")

(* remove_agent_resources: the configuration goes first, then the id.      *)
Clean == ~ live /\ Begin("main", "clean", "config", None, "remove")

(* Mutant: the stored id is used when the identifiers differ.              *)
Matches_Inverted(d) == d \notin {None, Torn} /\ d.of # ident

(* The identifiers match: the stored id is the agent's id.                 *)
Matches(d) == d \notin {None, Torn} /\ d.of = ident

Issue(id) ==
    /\ issued' = issued \cup {id}
    /\ live' = TRUE

(* Mutant: the read lock is not taken.                                     *)
Unlocked_Never == TRUE

(* The read lock excludes a writer.                                        *)
Unlocked == writer = NoThread

(* get_remote_data reads the whole file under the read lock, and releases  *)
(* it.  A file that does not parse is an error to every caller.            *)
Get(t) ==
    /\ pc[t] = "get"
    /\ Unlocked
    /\ LET d == file[key[t]]
       IN /\ got' = [got EXCEPT ![t] = d]
          /\ \/ /\ op[t] = "load" \/ d = Torn \/ (op[t] = "update" /\ d = None)
                /\ Return(t)
                /\ UNCHANGED <<live, ids, issued>>
             \/ /\ op[t] = "update" /\ d \notin {None, Torn}
                /\ data' = [data EXCEPT ![t] = [d EXCEPT !.state = data[t].state]]
                /\ Goto(t, "lock")
                /\ UNCHANGED <<live, op, key, ids, issued>>
             \/ /\ op[t] = "identity" /\ Matches(d)
                /\ Issue(d.id)
                /\ Return(t)
                /\ UNCHANGED ids
             \/ /\ op[t] = "identity" /\ ~ Matches(d) /\ d # Torn
                /\ ids < MaxIds /\ ids' = ids + 1
                /\ data' = [data EXCEPT ![t] = [id |-> ids + 1, of |-> ident]]
                /\ Goto(t, "lock")
                /\ UNCHANGED <<live, op, key, issued>>
    /\ UNCHANGED <<disk, ident, writer, before, faults>>

(* A failed read is an error to every caller as well.                      *)
GetFails(t) ==
    /\ pc[t] = "get"
    /\ Fails
    /\ Return(t)
    /\ UNCHANGED <<disk, ident, live, writer, got, before, ids, issued>>

(* set_remote_data: the write lock is held to the end.  The directory is   *)
(* made if it is not there.                                                *)
Lock(t) ==
    /\ pc[t] = "lock"
    /\ writer = NoThread
    /\ writer' = t
    /\ dir' = TRUE
    /\ Goto(t, "open")
    /\ UNCHANGED <<file, ident, live, op, key, data, got, history>>

(* The file is opened: created, or truncated.                              *)
Open(t) ==
    /\ pc[t] = "open"
    /\ before' = file[key[t]]
    /\ file' = [file EXCEPT ![key[t]] = Torn]
    /\ Goto(t, "fill")
    /\ UNCHANGED <<dir, ident, live, writer, op, key, data, got, ids, issued, faults>>

Fill(t) ==
    /\ pc[t] = "fill"
    /\ file' = [file EXCEPT ![key[t]] = data[t]]
    /\ Goto(t, "sync")
    /\ UNCHANGED <<dir, ident, live, writer, op, key, data, got, history>>

(* The write returns; a new instance id is handed out only now.            *)
Sync(t) ==
    /\ pc[t] = "sync"
    /\ writer' = NoThread
    /\ before' = None
    /\ Return(t)
    /\ IF op[t] = "identity" THEN Issue(data[t].id) ELSE UNCHANGED <<live, issued>>
    /\ UNCHANGED <<disk, ident, got, ids, faults>>

(* One of the steps of a write fails: the lock is released, and the file   *)
(* stays as that step left it.                                             *)
WriteFails(t) ==
    /\ pc[t] \in {"open", "fill", "sync"}
    /\ Fails
    /\ writer' = NoThread
    /\ before' = None
    /\ Return(t)
    /\ UNCHANGED <<disk, ident, live, got, ids, issued>>

(* delete_remote_data removes the file, if it exists, under the write      *)
(* lock.  The cleaner goes on to the instance id.                          *)
RemoveFile(t) ==
    /\ pc[t] = "remove"
    /\ writer = NoThread
    /\ file' = [file EXCEPT ![key[t]] = None]
    /\ issued' = IF key[t] = "id" THEN {} ELSE issued
    /\ \/ /\ op[t] = "clean" /\ key[t] = "config"
          /\ key' = [key EXCEPT ![t] = "id"]
          /\ UNCHANGED <<pc, op, data>>
       \/ op[t] = "delete" /\ Return(t)
       \/ key[t] = "id" /\ Return(t)
    /\ UNCHANGED <<dir, ident, live, writer, got, before, ids, faults>>

RemoveFails(t) ==
    /\ pc[t] = "remove"
    /\ Fails
    /\ Return(t)
    /\ UNCHANGED <<disk, ident, live, writer, got, before, ids, issued>>

Step(t) ==
    \/ Get(t) \/ GetFails(t)
    \/ Lock(t) \/ Open(t) \/ Fill(t) \/ Sync(t) \/ WriteFails(t)
    \/ RemoveFile(t) \/ RemoveFails(t)

(* The agent is stopped, to be removed or built again: its threads are     *)
(* joined, so both are between two operations.                             *)
StopAgent ==
    /\ live
    /\ pc["runtime"] = "idle" /\ pc["client"] = "idle"
    /\ live' = FALSE
    /\ UNCHANGED <<disk, ident, writer, thread, got, history>>

(* The process ends at any point, killed or with the machine, and starts   *)
(* again, where it may find other identifiers.  What was not synced may be *)
(* lost.                                                                   *)
Crash ==
    /\ Fails
    /\ file' \in {file} \cup {[file EXCEPT ![key[t]] = Torn] :
                                t \in {u \in Threads : pc[u] = "sync"}}
    /\ \E i \in Idents :
         /\ ident' = i
         /\ issued' = IF i = ident THEN issued ELSE {}
    /\ live' = FALSE
    /\ writer' = NoThread
    /\ pc' = [t \in Threads |-> "idle"]
    /\ op' = [t \in Threads |-> "load"]
    /\ key' = [t \in Threads |-> "config"]
    /\ data' = [t \in Threads |-> None]
    /\ before' = None
    /\ UNCHANGED <<dir, got, ids>>

Next ==
    \/ StoreRemote \/ UpdateState \/ DeleteRemote \/ LoadRemote \/ EffectiveConfig
    \/ GetInstanceId \/ Clean
    \/ \E t \in Threads : Step(t)
    \/ StopAgent
    \/ Crash

Spec == Init /\ [][Next]_vars

-----------------------------------------------------------------------------
(* The value of a key, as the callers of the store see it: until a writer  *)
(* has filled the file it truncated, the one from before.                  *)
Value(k) ==
    IF writer # NoThread /\ pc[writer] = "fill" /\ key[writer] = k THEN before ELSE file[k]

Atomic == INSTANCE AtomicStore WITH
    Fresh <- [k \in Keys |-> IF k = "id" THEN DataStored
                             ELSE {v \in RemoteConfig : v.state = "Applying"}],
    Unreadable <- Torn,
    val <- [k \in Keys |-> Value(k)]

(* The files behave as an atomic store, although they are written in       *)
(* place and update_state reads and writes under two locks: no reader sees *)
(* a file that is being written, an update changes nothing but the state   *)
(* and never brings back a configuration that was deleted, and only a      *)
(* failed write or the end of the process leaves an unreadable file.       *)
StoreIsAtomic == Atomic!Spec

(* An agent keeps its instance id from its first build to its removal, as  *)
(* long as the host keeps its identifiers: over restarts, failed writes    *)
(* and ends of the process, also between creating an id and using it.      *)
IdentityStable == Cardinality(issued) <= 1
=============================================================================
