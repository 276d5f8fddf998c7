---------------------------- MODULE RenderedFiles ----------------------------
(***************************************************************************)
(* The directory that an on-host agent owns: the files and directories its *)
(* agent type declares, rendered and written at every start and apply, and *)
(* the files its process creates there by itself.  A manifest records what *)
(* was written, so that the next write deletes what is no longer declared. *)
(* Entries that are not persistent are wiped at stop and before a write.   *)
(*                                                                         *)
(* Source: agent-control/src/agent_type/runtime_config/on_host/            *)
(* filesystem.rs, filesystem/rendered.rs, and the calls in                 *)
(* sub_agent/on_host/supervisor.rs and resource_cleaner/on_host.rs.        *)
(*                                                                         *)
(* A path is the sequence of its segments below that directory.  A tree is *)
(* a function from the declared paths; a `dir_content_from_map` entry is a *)
(* directory that is not persistent, with one file per key of the map.     *)
(***************************************************************************)
EXTENDS Naturals, Sequences

CONSTANTS
    Trees,      \* the trees the agent type and its variables may render to
    OwnFiles,   \* paths of the files the agent's process creates
    MaxFaults   \* bound on failed operations and ends of the process

VARIABLES
    (* Disk. *)
    disk,       \* what is at each path
    manifest,   \* the paths in the manifest; empty too if it cannot be read
    (* The supervisor. *)
    pc,
    tree,       \* the tree of the supervisor
    (* History. *)
    written,    \* paths Agent Control has written
    lost,       \* paths whose writing or deletion was cut short or not noted
    faults

vars == <<disk, manifest, pc, tree, written, lost, faults>>

Declared(t) == DOMAIN t
Paths == OwnFiles \cup UNION {Declared(t) : t \in Trees}
Below(p) == {q \in Paths : Len(p) <= Len(q) /\ SubSeq(q, 1, Len(p)) = p}
Above(p) == {q \in Paths : p # q /\ p \in Below(q)}

(* The process does not write the files that Agent Control declares.       *)
Assumptions ==
    /\ Paths \subseteq Seq(STRING)
    /\ \A t \in Trees : OwnFiles \cap Declared(t) = {}

(* What the writing of an entry puts at its path.                          *)
Rendered(e) == IF e.kind = "dir" THEN "dir" ELSE e.text

TypeOK ==
    /\ DOMAIN disk = Paths
    /\ manifest \subseteq Paths
    /\ pc \in {"down", "wipe", "reconcile", "write", "save", "running"}
    /\ tree \in Trees
    /\ written \subseteq Paths
    /\ lost \subseteq Paths
    /\ faults \in 0..MaxFaults

Init ==
    /\ disk = [p \in Paths |-> "none"]
    /\ manifest = {}
    /\ pc = "down"
    /\ tree \in Trees
    /\ written = {}
    /\ lost = {}
    /\ faults = 0

-----------------------------------------------------------------------------
Fails == faults < MaxFaults /\ faults' = faults + 1
NoFault == UNCHANGED faults

(* delete_path of every path in S: a directory goes with all it holds.     *)
Without(S) == [p \in Paths |-> IF \E q \in S : p \in Below(q) THEN "none" ELSE disk[p]]

(* Part of that, when the deletion of a path in R fails.                   *)
Partly(R) == {Without(S) : S \in SUBSET UNION {Below(p) : p \in R}}

(* Mutant: the first entry that is not persistent is deleted with its      *)
(* parent.                                                                 *)
EphemeralRoots_Parents(t) ==
    LET gone == {p \in Declared(t) : ~ t[p].persistent}
    IN gone \cup {q \in Declared(t) : \E p \in gone : q \in Above(p)}

(* What delete_ephemeral deletes: the walk descends into persistent        *)
(* entries and deletes the first entry on a path that is not.              *)
EphemeralRoots(t) ==
    {p \in Declared(t) : ~ t[p].persistent /\ \A q \in Above(p) : t[q].persistent}

(* A start, or an apply once the old threads are stopped: the old tree is  *)
(* forgotten.                                                              *)
SpinUp ==
    /\ pc \in {"down", "running"}
    /\ tree' \in Trees
    /\ pc' = "wipe"
    /\ UNCHANGED <<disk, manifest, written, lost, faults>>

(* delete_ephemeral: a deletion that fails ends the walk, and is logged.   *)
DeleteEphemeral(next) ==
    /\ \/ disk' = Without(EphemeralRoots(tree)) /\ NoFault
       \/ Fails /\ disk' \in Partly(EphemeralRoots(tree))
    /\ pc' = next
    /\ UNCHANGED <<manifest, tree, written, lost>>

WipeBeforeWrite == pc = "wipe" /\ DeleteEphemeral("reconcile")
Stop == pc = "running" /\ DeleteEphemeral("down")

(* Mutant: the difference is taken the other way round.                    *)
Stale_Swapped == Declared(tree) \ manifest

(* Owned by the previous write, and no longer declared.                    *)
Stale == manifest \ Declared(tree)

(* Stale paths are deleted, the deepest first; a failure is only logged.   *)
Reconcile ==
    /\ pc = "reconcile"
    /\ \/ disk' = Without(Stale) /\ NoFault /\ UNCHANGED lost
       \/ /\ Fails
          /\ disk' \in Partly(Stale)
          /\ lost' = lost \cup Stale
    /\ pc' = "write"
    /\ UNCHANGED <<manifest, tree, written>>

(* A directory cannot be made where a file is, nor a file written where a  *)
(* directory is.                                                           *)
Conflict(p) ==
    \/ tree[p].kind = "dir" /\ disk[p] \notin {"none", "dir"}
    \/ tree[p].kind = "file" /\ disk[p] = "dir"

(* The entries in `done` are written, and the next one may be half done.   *)
DiskAfter(done) == [p \in Paths |-> IF p \in done THEN Rendered(tree[p]) ELSE disk[p]]

WriteEntries ==
    /\ pc = "write"
    /\ \A p \in Declared(tree) : ~ Conflict(p)
    /\ disk' = DiskAfter(Declared(tree))
    /\ written' = written \cup Declared(tree)
    /\ pc' = "save"
    /\ UNCHANGED <<manifest, tree, lost, faults>>

(* The first entry that fails ends the write, and the start with it.  A    *)
(* parent is written before what it holds, siblings in any order.          *)
WriteFails ==
    /\ pc = "write"
    /\ \E done \in SUBSET {p \in Declared(tree) : ~ Conflict(p)} :
         /\ done # Declared(tree)
         /\ \A p \in done : Above(p) \subseteq done
         /\ \/ (\E p \in Declared(tree) : Conflict(p)) /\ NoFault /\ disk' = DiskAfter(done)
            \/ /\ Fails
               /\ \/ disk' = DiskAfter(done)
                  \/ \E p \in Declared(tree) \ done :
                       /\ tree[p].kind = "file" /\ ~ Conflict(p)
                       /\ Above(p) \subseteq done
                       /\ disk' = [DiskAfter(done) EXCEPT ![p] = "torn"]
    /\ written' = written \cup Declared(tree)
    /\ lost' = lost \cup Declared(tree)
    /\ pc' = "down"
    /\ UNCHANGED <<manifest, tree>>

(* The manifest is replaced.  A failure is logged, and leaves the previous *)
(* one or an unreadable one.                                               *)
SaveManifest ==
    /\ pc = "save"
    /\ \/ manifest' = Declared(tree) /\ NoFault /\ UNCHANGED lost
       \/ /\ Fails
          /\ manifest' \in {manifest, {}}
          /\ lost' = lost \cup manifest \cup Declared(tree)
    /\ pc' = "running"
    /\ UNCHANGED <<disk, tree, written>>

(* The agent's process creates a file next to the declared ones.           *)
AgentWrites(p) ==
    /\ pc = "running"
    /\ \A q \in Above(p) : disk[q] = "dir"
    /\ disk' = [disk EXCEPT ![p] = "own"]
    /\ UNCHANGED <<manifest, pc, tree, written, lost, faults>>

(* The process of Agent Control ends, wherever it is.                      *)
Crash ==
    /\ Fails
    /\ lost' = IF pc = "save" THEN lost \cup Declared(tree) ELSE lost
    /\ pc' = "down"
    /\ UNCHANGED <<disk, manifest, tree, written>>

(* The agent was removed from the fleet: the cleaner deletes everything.   *)
(* When that fails anything may be left, with or without the manifest, and *)
(* the agent may come back to it.                                          *)
RemoveAgent ==
    /\ pc = "down"
    /\ \/ /\ NoFault
          /\ disk' = [p \in Paths |-> "none"]
          /\ manifest' = {}
          /\ UNCHANGED lost
       \/ /\ Fails
          /\ disk' \in Partly(Paths)
          /\ \/ UNCHANGED <<manifest, lost>>
             \/ manifest' = {} /\ lost' = lost \cup manifest
    /\ UNCHANGED <<pc, tree, written>>

Next ==
    \/ SpinUp \/ WipeBeforeWrite \/ Reconcile \/ WriteEntries \/ WriteFails
    \/ SaveManifest
    \/ \E p \in OwnFiles : AgentWrites(p)
    \/ Stop \/ Crash \/ RemoveAgent

Spec == Init /\ [][Next]_vars

-----------------------------------------------------------------------------
(* A supervisor that started finds exactly what its tree declares: every   *)
(* declared file and directory with its content, and nothing that Agent    *)
(* Control wrote for an earlier tree, unless the very write or deletion    *)
(* concerned was cut short or could not be recorded.                       *)
FilesAsDeclared ==
    pc = "running" =>
        /\ \A p \in Declared(tree) : disk[p] = Rendered(tree[p])
        /\ \A p \in written \ (Declared(tree) \cup lost) : disk[p] = "none"

(* A file that the agent created stays as long as every directory above it *)
(* is declared persistent: through stops, applies, failures and crashes,   *)
(* and whatever happens to the entries beside it; only the removal of the  *)
(* agent takes it.                                                         *)
OwnFilesStay ==
    [][\A p \in OwnFiles :
         (disk[p] = "own" /\ ~ RemoveAgent
            /\ \A q \in Above(p) : q \in Declared(tree) /\ tree[q].persistent)
         => disk'[p] = "own"]_vars
=============================================================================
