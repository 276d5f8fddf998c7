---------------------------- MODULE AgentControl ----------------------------
(***************************************************************************)
(* The Agent Control runtime: the process that starts one sub-agent per    *)
(* entry of its dynamic configuration, receives new configurations from    *)
(* Fleet over OpAMP, and keeps the running sub-agents, the in-memory       *)
(* `current_dynamic_config`, the configuration persisted on disk and the   *)
(* status reported to Fleet in step with each other.                       *)
(*                                                                         *)
(* Source: agent-control/src/agent_control.rs, sub_agent/collection.rs,    *)
(* agent_control/config_repository/store.rs, agent_control/config.rs,      *)
(* agent_control/resource_cleaner/on_host.rs, values.rs.                   *)
(*                                                                         *)
(* A remote configuration message is named by its hash; Content gives what *)
(* the message carries.  The handler of a message is cut into steps at the *)
(* points where it touches the disk, the sub-agents or the OpAMP client,   *)
(* because the process may crash between any two of them.                  *)
(***************************************************************************)
EXTENDS FiniteSets

CONSTANTS
    AgentIds,    \* the agent ids a configuration may name
    AgentTypes,  \* the fully qualified agent types it may give them
    Registry,    \* the agent types the registry knows
    NoAgent,     \* "no entry for this id"
    Hashes,      \* hashes of the remote configurations Fleet may send
    Content,     \* what the message with a given hash carries
    Reset,       \* an empty message: go back to the local configuration
    Malformed,   \* refused by the OpAMP callbacks, a validator or the parser
    Local,       \* the agents of the local configuration file
    NoRemote,    \* no remote configuration is persisted
    NoStatus,    \* nothing was reported to Fleet yet
    Faults       \* the kinds of failure of the environment that may happen

FaultKinds == {"build", "clean", "store", "read", "report", "update", "crash"}

(* A configuration: which ids it names, and the agent type of each.        *)
Config == [AgentIds -> AgentTypes \cup {NoAgent}]
States == {"Applying", "Applied", "Failed"}

ASSUME NoAgentAssumption == NoAgent \notin AgentTypes
ASSUME RegistryAssumption == Registry \subseteq AgentTypes
ASSUME LocalAssumption == Local \in Config
ASSUME ContentAssumption == Content \in [Hashes -> Config \cup {Reset, Malformed}]
ASSUME MarkAssumption == Reset \notin Config /\ Malformed \notin Config
ASSUME FaultsAssumption == Faults \subseteq FaultKinds

(* The record `RemoteConfig` kept under fleet-data and the status message. *)
RemoteConfig == [agents : Config, hash : Hashes, state : States]
Status == [hash : Hashes, state : States]
ASSUME NoRemoteAssumption == NoRemote \notin RemoteConfig
ASSUME NoStatusAssumption == NoStatus \notin Status

VARIABLES
    (* Disk: survives a crash. *)
    remote,     \* persisted remote configuration
    resources,  \* ids with files, stored config or OpAMP identity on disk
    (* Fleet: what the server last heard. *)
    reported,
    (* The process. *)
    pc,         \* where the main thread is
    current,    \* `current_dynamic_config` of process_events
    coll,       \* `sub_agents`, the collection of stoppers, by id
    orphans,    \* running sub-agents whose stopper was dropped
    msg,        \* hash of the message in hand
    new,        \* `new_dynamic_config`
    verdict,    \* state of the boot: `build_and_start_config_state`
    restart,    \* SelfUpdateRestartRequested is in the internal channel
    (* History. *)
    degraded,   \* since the process started, an error path returned with
                \* sub-agents, memory and disk possibly apart
    lost        \* the store or the OpAMP client refused the last answer

disk == <<remote, resources>>
volatile == <<current, coll, orphans, msg, new, verdict, restart, degraded, lost>>
vars == <<remote, resources, reported, pc, current, coll, orphans, msg, new,
          verdict, restart, degraded, lost>>

Empty == [a \in AgentIds |-> NoAgent]
Agents(c) == {a \in AgentIds : c[a] # NoAgent}

Pcs == {"down", "bootReport", "bootPersist", "bootEffective", "idle", "validate", "check",
        "store", "apply", "commit", "partial", "reportApplied",
        "reportFailed", "reject", "stopped"}

TypeOK ==
    /\ remote \in RemoteConfig \cup {NoRemote}
    /\ resources \subseteq AgentIds
    /\ reported \in Status \cup {NoStatus}
    /\ pc \in Pcs
    /\ current \in Config
    /\ coll \in Config
    /\ orphans \subseteq AgentIds \X AgentTypes
    /\ msg \in Hashes
    /\ new \in Config
    /\ verdict \in {"Applied", "Failed"}
    /\ restart \in BOOLEAN
    /\ degraded \in BOOLEAN
    /\ lost \in BOOLEAN

Init ==
    /\ remote = NoRemote
    /\ resources = {}
    /\ reported = NoStatus
    /\ pc = "down"
    /\ current = Empty
    /\ coll = Empty
    /\ orphans = {}
    /\ msg \in Hashes
    /\ new = Empty
    /\ verdict = "Applied"
    /\ restart = FALSE
    /\ degraded = FALSE
    /\ lost = FALSE

-----------------------------------------------------------------------------
(* The environment's failures.  A call that can fail fails for any subset  *)
(* of what it is applied to, when its kind of fault is switched on.        *)
MayFail(kind) == kind \in Faults
FailureSets(kind, S) == IF MayFail(kind) THEN SUBSET S ELSE {{}}

Report(h, s) == reported' = [hash |-> h, state |-> s]
Goto(label) == pc' = label

(* _load_config: the local file is required; a persisted remote            *)
(* configuration replaces its dynamic part.                                *)
LoadConfig == IF remote = NoRemote THEN Local ELSE remote.agents

(* update_state fails when there is no remote configuration to update.     *)
UpdateState(s) ==
    /\ remote # NoRemote
    /\ remote' = [remote EXCEPT !.state = s]

(* RegistryDynamicConfigValidator: every agent type is in the registry.    *)
Valid(c) == \A a \in Agents(c) : c[a] \in Registry

(* Version updater: whether it asks for a restart is the updater's affair. *)
VersionUpdate == restart' \in {restart, TRUE}

-----------------------------------------------------------------------------
(* Start of the process: load the configuration, reclaim the resources of  *)
(* ids that it no longer names, build and run its agents.  A failed build  *)
(* is skipped; `current` is the whole configuration nevertheless.          *)
Boot ==
    /\ pc = "down"
    /\ LET boot == LoadConfig
       IN \E kept \in FailureSets("clean", resources \ Agents(boot)),
             bad \in FailureSets("build", Agents(boot)) :
            /\ current' = boot
            /\ coll' = [a \in AgentIds |-> IF a \in bad THEN NoAgent ELSE boot[a]]
            /\ resources' = (resources \cap Agents(boot)) \cup kept
                            \cup (Agents(boot) \ bad)
            /\ verdict' = IF bad = {} THEN "Applied" ELSE "Failed"
            /\ degraded' = (bad \cup kept # {})
    /\ Goto("bootReport")
    /\ UNCHANGED <<remote, reported, orphans, msg, new, restart, lost>>

(* The persisted state is compared with the outcome of the boot.  Two      *)
(* failures are equal only if their messages are, so Failed may differ     *)
(* from Failed.                                                            *)
BootStatusDiffers ==
    remote # NoRemote /\ (remote.state # verdict \/ verdict = "Failed")

(* A different state is reported.  A store that cannot be read is only     *)
(* logged.                                                                 *)
BootReport ==
    /\ pc = "bootReport"
    /\ \/ /\ BootStatusDiffers
          /\ Report(remote.hash, verdict)
          /\ Goto("bootPersist")
          /\ UNCHANGED degraded
       \/ /\ remote # NoRemote => remote.state = verdict
          /\ Goto("bootEffective")
          /\ UNCHANGED <<reported, degraded>>
       \/ /\ MayFail("read")
          /\ degraded' = TRUE
          /\ Goto("bootEffective")
          /\ UNCHANGED reported
    /\ UNCHANGED <<disk, current, coll, orphans, msg, new, verdict, restart, lost>>

(* The outcome of the boot is persisted after it was reported.             *)
BootPersist ==
    /\ pc = "bootPersist"
    /\ UpdateState(verdict)
    /\ Goto("bootEffective")
    /\ UNCHANGED <<resources, reported, volatile>>

(* The effective config is sent, and the update of Agent Control itself is *)
(* tried once, its errors ignored, before the event loop.                  *)
BootEffective ==
    /\ pc = "bootEffective"
    /\ VersionUpdate
    /\ Goto("idle")
    /\ UNCHANGED <<disk, reported, current, coll, orphans, msg, new, verdict,
                   degraded, lost>>

-----------------------------------------------------------------------------
(* Mutant: the message is handled without reporting Applying first.        *)
ReceiveRemoteConfig_Unreported(h) ==
    /\ pc = "idle"
    /\ msg' = h
    /\ Goto("validate")
    /\ lost' = FALSE
    /\ UNCHANGED <<disk, reported, current, coll, orphans, new, verdict,
                   restart, degraded>>

(* handle_remote_config.  First step: report Applying; if that fails the   *)
(* message is dropped.                                                     *)
ReceiveRemoteConfig(h) ==
    /\ pc = "idle"
    /\ msg' = h
    /\ \/ Report(h, "Applying") /\ Goto("validate")
       \/ MayFail("report") /\ UNCHANGED <<reported, pc>>
    /\ lost' = FALSE
    /\ UNCHANGED <<remote, resources, current, coll, orphans, new, verdict,
                   restart, degraded>>

(* A message that arrived as failed, fails the signature validation or     *)
(* does not parse is rejected; an empty one deletes the persisted          *)
(* configuration and loads the local one.                                  *)
ValidateRemoteConfig ==
    /\ pc = "validate"
    /\ \/ /\ Content[msg] = Malformed
          /\ Goto("reject")
          /\ UNCHANGED <<remote, new>>
       \/ /\ Content[msg] = Reset
          /\ remote' = NoRemote
          /\ new' = Local
          /\ Goto("check")
       \/ /\ Content[msg] = Reset
          /\ \/ MayFail("store") /\ UNCHANGED remote
             \/ MayFail("read") /\ remote' = NoRemote
          /\ Goto("reject")
          /\ UNCHANGED new
       \/ /\ Content[msg] \in Config
          /\ new' = Content[msg]
          /\ Goto("check")
          /\ UNCHANGED remote
    /\ UNCHANGED <<resources, reported, current, coll, orphans, msg, verdict,
                   restart, degraded, lost>>

(* Mutant: the dynamic configuration is not validated.                     *)
CheckAndUpdateVersion_Unchecked ==
    /\ pc = "check"
    /\ VersionUpdate
    /\ Goto("store")
    /\ UNCHANGED <<disk, reported, current, coll, orphans, msg, new, verdict,
                   degraded, lost>>

(* The agents must be of known types, and the version updater must succeed.*)
CheckAndUpdateVersion ==
    /\ pc = "check"
    /\ \/ ~ Valid(new) /\ Goto("reject") /\ UNCHANGED restart
       \/ Valid(new) /\ MayFail("update") /\ Goto("reject") /\ UNCHANGED restart
       \/ Valid(new) /\ VersionUpdate /\ Goto("store")
    /\ UNCHANGED <<remote, resources, reported, current, coll, orphans, msg,
                   new, verdict, degraded, lost>>

(* The configuration is persisted as Applying before it is applied.        *)
StoreRemoteConfig ==
    /\ pc = "store"
    /\ \/ /\ Content[msg] # Reset
          /\ remote' = [agents |-> new, hash |-> msg, state |-> "Applying"]
          /\ Goto("apply")
       \/ Content[msg] = Reset /\ Goto("apply") /\ UNCHANGED remote
       \/ /\ Content[msg] # Reset
          /\ MayFail("store")
          /\ Goto("reject")
          /\ UNCHANGED remote
    /\ UNCHANGED <<resources, reported, current, coll, orphans, msg, new,
                   verdict, restart, degraded, lost>>

(* What apply_remote_config_agents does with each id, deciding from        *)
(* `current`, never from the collection.                                   *)
Created == {a \in Agents(new) : current[a] = NoAgent}
Recreated == {a \in Agents(new) : current[a] \notin {NoAgent, new[a]}}
(* Mutant: the arguments of sub_agents_difference are swapped.             *)
Removed_Swapped == Agents(new) \ Agents(current)
Removed == Agents(current) \ Agents(new)
NotFound == {a \in Recreated \cup Removed : coll[a] = NoAgent}

(* The collection after the two loops, when the ids in `bad` cannot be     *)
(* built.  Removing an id that is not in the collection fails before the   *)
(* rebuild, so such an id is not built either.                             *)
CollectionAfter(bad) ==
    [a \in AgentIds |->
        CASE a \in Created -> IF a \in bad THEN coll[a] ELSE new[a]
          [] a \in Recreated -> IF a \in bad \cup NotFound THEN NoAgent ELSE new[a]
          [] a \in Removed -> NoAgent
          [] OTHER -> coll[a]]

(* HashMap::insert drops the previous stopper of the id: its sub-agent     *)
(* keeps running, with nobody left to stop it.                             *)
OrphansAfter(bad) ==
    orphans \cup {<<a, coll[a]>> : a \in {b \in Created \ bad : coll[b] # NoAgent}}

(* Mutant: recreating an agent cleans its resources as a removal does.     *)
ResourcesAfter_CleanRecreated(bad, kept) ==
    (resources \ ((Removed \cup Recreated) \ kept)) \cup (Created \ bad)

(* Running an agent leaves files, a stored config and an identity on disk; *)
(* the resource cleaner deletes those of a removed agent.                  *)
ResourcesAfter(bad, kept) ==
    (resources \ (Removed \ kept))
        \cup ((Created \cup (Recreated \ NotFound)) \ bad)

(* apply_remote_config_agents: create, recreate and remove, as much as     *)
(* possible, collecting the errors.                                        *)
ApplyAgents ==
    /\ pc = "apply"
    /\ \E bad \in FailureSets("build", Created \cup (Recreated \ NotFound)),
          kept \in FailureSets("clean", Removed) :
         /\ coll' = CollectionAfter(bad)
         /\ orphans' = OrphansAfter(bad)
         /\ resources' = ResourcesAfter(bad, kept)
         /\ LET errors == bad \cup kept \cup NotFound
            IN /\ Goto(IF errors = {} THEN "commit" ELSE "partial")
               /\ degraded' = (degraded \/ errors # {})
    /\ UNCHANGED <<remote, reported, current, msg, new, verdict, restart, lost>>

(* The update_state of either branch failed: the error is returned at once,*)
(* nothing is reported and `current` keeps its old value.                  *)
UpdateStateFails ==
    /\ pc \in {"commit", "partial"}
    /\ remote = NoRemote \/ MayFail("store")
    /\ degraded' = TRUE
    /\ Goto("idle")
    /\ lost' = TRUE
    /\ UNCHANGED <<remote, resources, reported, current, coll, orphans, msg,
                   new, verdict, restart>>

(* Everything was applied: persist Applied, then report it.                *)
CommitApplied ==
    /\ pc = "commit"
    /\ UpdateState("Applied")
    /\ Goto("reportApplied")
    /\ UNCHANGED <<resources, reported, volatile>>

(* Some agents failed: persist Failed, then report it.                     *)
CommitFailed ==
    /\ pc = "partial"
    /\ UpdateState("Failed")
    /\ Goto("reportFailed")
    /\ UNCHANGED <<resources, reported, volatile>>

(* Only a message that got this far replaces `current_dynamic_config`; an  *)
(* OpAMP client that refuses the status or the effective config leaves it. *)
ReportApplied ==
    /\ pc = "reportApplied"
    /\ \/ /\ Report(msg, "Applied")
          /\ current' = new
          /\ UNCHANGED <<degraded, lost>>
       \/ /\ MayFail("report")
          /\ Report(msg, "Applied") \/ UNCHANGED reported
          /\ degraded' = TRUE /\ lost' = TRUE
          /\ UNCHANGED current
    /\ Goto("idle")
    /\ UNCHANGED <<remote, resources, coll, orphans, msg, new, verdict, restart>>

(* Mutant: the error is logged and never reported.                         *)
ReportFailed_Silent ==
    /\ pc \in {"reject", "reportFailed"}
    /\ Goto("idle")
    /\ UNCHANGED <<disk, reported, volatile>>

(* The error is only logged by process_events: `current` is unchanged.     *)
ReportFailed ==
    /\ pc \in {"reject", "reportFailed"}
    /\ \/ Report(msg, "Failed") /\ UNCHANGED lost
       \/ MayFail("report") /\ lost' = TRUE /\ UNCHANGED reported
    /\ Goto("idle")
    /\ UNCHANGED <<disk, current, coll, orphans, msg, new, verdict, restart,
                   degraded>>

-----------------------------------------------------------------------------
(* The other arms of process_events.                                       *)

(* Tick of the self-update heartbeat: version_updater.retry().             *)
SelfUpdateRetry ==
    /\ pc = "idle"
    /\ VersionUpdate
    /\ UNCHANGED <<disk, reported, pc, current, coll, orphans, msg, new,
                   verdict, degraded, lost>>

(* sub_agents.stop(): every sub-agent of the collection is stopped.        *)
StopAll ==
    /\ pc = "idle"
    /\ coll' = Empty
    /\ Goto("stopped")
    /\ UNCHANGED <<disk, reported, current, orphans, msg, new, verdict, degraded, lost>>

(* Mutant: the request is consumed without leaving the loop.               *)
SelfUpdateRestart_Ignored ==
    /\ pc = "idle" /\ restart /\ restart' = FALSE
    /\ UNCHANGED <<disk, reported, pc, current, coll, orphans, msg, new,
                   verdict, degraded, lost>>

SelfUpdateRestart == restart /\ restart' = FALSE /\ StopAll

StopRequested == UNCHANGED restart /\ StopAll

(* The process ends, by itself or not, and all its threads with it.        *)
ProcessEnds ==
    /\ Goto("down")
    /\ current' = Empty
    /\ coll' = Empty
    /\ orphans' = {}
    /\ new' = Empty
    /\ restart' = FALSE
    /\ degraded' = FALSE
    /\ lost' = FALSE
    /\ UNCHANGED <<disk, reported, msg, verdict>>

Exit == pc = "stopped" /\ ProcessEnds

(* run() returns an error when the boot status cannot be reported or       *)
(* persisted, or the effective config cannot be sent.                      *)
BootFails ==
    /\ \/ pc = "bootReport" /\ BootStatusDiffers /\ MayFail("report")
       \/ pc = "bootPersist" /\ MayFail("store")
       \/ pc = "bootEffective" /\ MayFail("report")
    /\ ProcessEnds

Crash == pc # "down" /\ MayFail("crash") /\ ProcessEnds

Handler ==
    \/ ValidateRemoteConfig
    \/ CheckAndUpdateVersion
    \/ StoreRemoteConfig
    \/ ApplyAgents
    \/ UpdateStateFails
    \/ CommitApplied
    \/ CommitFailed
    \/ ReportApplied
    \/ ReportFailed

Start == Boot \/ BootReport \/ BootPersist \/ BootEffective

Next ==
    \/ Start
    \/ \E h \in Hashes : ReceiveRemoteConfig(h)
    \/ Handler
    \/ SelfUpdateRetry
    \/ SelfUpdateRestart
    \/ StopRequested
    \/ Exit
    \/ BootFails
    \/ Crash

Spec == Init /\ [][Next]_vars

(* The main thread runs its handler to the end; the service manager starts *)
(* the process again; crossbeam's select! picks at random among the ready  *)
(* channels, so a request in the internal channel is not passed over       *)
(* for ever.                                                               *)
FairSpec == Spec /\ WF_vars(Start) /\ WF_vars(Handler) /\ WF_vars(Exit)
                 /\ SF_vars(SelfUpdateRestart)

-----------------------------------------------------------------------------
(* While no error path was taken since the process started, the idle       *)
(* runtime is in step: the collection holds exactly the agents of          *)
(* `current_dynamic_config`, no sub-agent runs unsupervised, the disk has  *)
(* the resources of those agents and no others, and a persisted remote     *)
(* configuration is the one that runs, marked Applied.  process_events     *)
(* decides every later change from `current_dynamic_config` alone.         *)
InStep ==
    (pc = "idle" /\ ~ degraded) =>
        /\ coll = current
        /\ orphans = {}
        /\ resources = Agents(current)
        /\ remote # NoRemote => remote.agents = current /\ remote.state = "Applied"

(* When Fleet last heard Applied for a hash, that configuration is on disk:*)
(* a crash at any point, followed by a start, runs it again.  The handler  *)
(* withdraws the status (Applying) before it touches the disk and persists *)
(* before it reports.                                                      *)
AppliedSurvivesCrash ==
    (reported # NoStatus /\ reported.state = "Applied") =>
        remote # NoRemote /\ remote.hash = reported.hash

(* A sub-agent in the collection keeps its resources: neither the cleaning *)
(* of removed agents nor the purge at start reaches the files, the stored  *)
(* config or the identity of an agent that is still supervised, even after *)
(* partial failures.                                                       *)
SupervisedKeepResources == \A a \in Agents(coll) : a \in resources

(* No start of the process ever loads a remote configuration that would    *)
(* have been rejected: what is persisted names known agent types only and  *)
(* is what the message with its hash carried.                              *)
OnlyCheckedPersisted ==
    remote # NoRemote =>
        Valid(remote.agents) /\ remote.agents = Content[remote.hash]

(* A message that carries a configuration, or is refused, is answered with *)
(* Applied or Failed, whatever sub-agents fail to build or resources to go,*)
(* unless the process ends or the store or the client refuses the answer.  *)
Answered(h) == reported # NoStatus /\ reported.hash = h /\ reported.state # "Applying"
ConfigAnswered ==
    \A h \in Hashes :
        (pc = "validate" /\ msg = h /\ Content[h] # Reset)
            ~> (Answered(h) \/ lost \/ pc \in {"stopped", "down"})

(* A self-update restart that was requested takes the process down,        *)
(* whatever else keeps arriving.                                           *)
RestartHappens == restart ~> (pc \in {"stopped", "down"})

(* The reset to the local configuration is reported Applied "once it is    *)
(* successfully applied" (docs/opamp-communication-flows).                 *)
ResetAnswered ==
    \A h \in Hashes :
        (pc = "validate" /\ msg = h /\ Content[h] = Reset)
            ~> (Answered(h) \/ pc \in {"stopped", "down"})
=============================================================================
