---------------------------- MODULE K8sResources ----------------------------
(***************************************************************************)
(* Agent Control on Kubernetes: who writes and who deletes the objects of  *)
(* the sub-agents in the cluster.                                          *)
(*                                                                         *)
(* The supervisor of a sub-agent is a thread that compares the objects of  *)
(* its manifest with a cache of the cluster and applies what differs, over *)
(* and over.  The garbage collector deletes what agents that are gone left *)
(* behind: at the start of the process (`retain`), and when an agent is    *)
(* removed (`collect`).  It finds the ConfigMaps of Agent Control with a   *)
(* query, and everything else in the same cache, which a watch keeps up    *)
(* with the cluster, always a little late.                                 *)
(*                                                                         *)
(* Source: agent-control/src/sub_agent/k8s/{supervisor,builder}.rs,        *)
(* agent_control/resource_cleaner/k8s_garbage_collector.rs,                *)
(* agent_control/run/k8s.rs, k8s/{client,dynamic_object,reflectors,        *)
(* configmap_store,annotations,labels}.rs, opamp/instance_id/              *)
(* {getter,storer}.rs, utils/thread_context.rs.                            *)
(*                                                                         *)
(* What happens to a message before and after its agents are created and   *)
(* removed, what an agent that cannot be built or cleaned does to it and   *)
(* to the messages that follow, is AgentControl's; the handling of one     *)
(* sub-agent's own configuration is SubAgent's.                            *)
(***************************************************************************)
EXTENDS Naturals, FiniteSets

CONSTANTS
    Agents,      \* agent ids; also names their fleet-data ConfigMaps
    Types,       \* agent types
    Versions,    \* configurations of a sub-agent
    LocalVersion,\* the one in its local configuration
    Names,       \* names of the objects sub-agents create
    Manifest,    \* the objects an agent of a type has with a configuration
    Configs,     \* configurations of Agent Control Fleet may send
    NoType, NoVersion, NoObj,
    Idents,      \* identifiers of the host: cluster name and fleet id
    MaxMessages, \* bound on the messages of Fleet
    MaxFaults    \* bound on everything that may go wrong

Keys == Names \cup Agents
Config == [Agents -> Types \cup {NoType}]

ASSUME NamesAssumption == Names \cap Agents = {}
ASSUME ManifestAssumption ==
    Manifest \in [Agents \X Types \X Versions -> SUBSET Names]
ASSUME ConfigsAssumption == Configs \subseteq Config
ASSUME BoundsAssumption == MaxMessages \in Nat /\ MaxFaults \in Nat
ASSUME LocalVersionAssumption == LocalVersion \in Versions
ASSUME NoneAssumption ==
    NoType \notin Types \cup (Types \X Idents) /\ NoVersion \notin Versions
ASSUME NonEmptyAssumption == Agents # {} /\ Types # {} /\ Names # {} /\ Idents # {}

(* Most agent types name their objects after the agent id, some give them  *)
(* a constant name: nothing keeps two agents from sharing a name.          *)

(* Labels, annotations and content of an object.  A fleet-data ConfigMap   *)
(* holds the identity of the agent and, perhaps, its remote configuration; *)
(* its type annotation is missing until a configuration is stored.         *)
Obj == [agent : Agents, owner : {"sub"}, type : Types, body : Versions]
FleetData == [agent : Agents, owner : {"ac", "sub"}, type : Types \cup {NoType},
              ident : Idents, remote : Versions \cup {NoVersion}]
ASSUME NoObjAssumption == NoObj \notin Obj \cup FleetData

VARIABLES
    (* The cluster and the host: survive a crash. *)
    cluster,   \* the object of each name
    config,    \* agents of the persisted configuration of Agent Control
    ident,     \* identifiers the process runs with
    (* The reflectors. *)
    cache,     \* what the watch has delivered
    watching,  \* the watch is alive
    (* The main thread. *)
    pc,
    coll,      \* types of the sub-agents in the collection
    subject,   \* the agent being stopped or collected, with its type
    garbage,   \* listed by the garbage collector, not deleted yet
    (* The threads of each sub-agent. *)
    rt,        \* its runtime
    enforced,  \* type and configuration its supervisor was started with
    phase,     \* its objects supervisor
    todo,      \* names left in this round
    seen,      \* what the GET before the commit returned
    cancel,    \* the supervisor was told to stop
    (* Bounds and history. *)
    messages, faults,
    gone,      \* agents collected, with their type, and not built again
    missed,    \* names of objects a listing did not find, with their agent
               \* and type
    failed,    \* agents whose collection ended with an error
    known      \* what the agent's identity was created for

host == <<cluster, config, ident>>
reflector == <<cache, watching>>
main == <<pc, coll, subject, garbage>>
agents == <<rt, enforced, phase, todo, seen, cancel>>
history == <<messages, faults, gone, missed, failed, known>>
vars == <<host, reflector, main, agents, history>>

TypeOK ==
    /\ cluster \in [Keys -> Obj \cup FleetData \cup {NoObj}]
    /\ \A a \in Agents : cluster[a] \in FleetData \cup {NoObj}
    /\ \A n \in Names : cluster[n] \in Obj \cup {NoObj}
    /\ cache \in [Keys -> Obj \cup FleetData \cup {NoObj}]
    /\ config \in Config /\ coll \in Config
    /\ ident \in Idents
    /\ watching \in BOOLEAN
    /\ pc \in {"down", "retainData", "retainObjects", "retainLast", "idle", "apply",
               "stop", "collectData", "collectObjects", "collectLast"}
    /\ subject \in Agents \X Types
    /\ garbage \subseteq Keys
    /\ rt \in [Agents -> {"off", "start", "idle", "apply", "stop"}]
    /\ enforced \in [Agents -> [type : Types, version : Versions]]
    /\ phase \in [Agents -> {"off", "round", "commit"}]
    /\ todo \in [Agents -> SUBSET Names]
    /\ seen \in [Agents -> [name : Names, obj : Obj \cup {NoObj}]]
    /\ cancel \in [Agents -> BOOLEAN]
    /\ messages \in 0..MaxMessages /\ faults \in 0..MaxFaults
    /\ gone \subseteq Agents \X Types
    /\ missed \subseteq Keys \X (Agents \X Types)
    /\ failed \subseteq Agents
    /\ known \in [Agents -> (Types \X Idents) \cup {NoType}]

NotEnforced == [type |-> CHOOSE t \in Types : TRUE, version |-> LocalVersion]
NotSeen == [name |-> CHOOSE n \in Names : TRUE, obj |-> NoObj]
NoSubject == CHOOSE s \in Agents \X Types : TRUE

Init ==
    /\ cluster = [k \in Keys |-> NoObj]
    /\ config \in Configs
    /\ ident = CHOOSE i \in Idents : TRUE
    /\ cache = cluster
    /\ watching = FALSE
    /\ pc = "down"
    /\ coll = [a \in Agents |-> NoType]
    /\ subject = NoSubject
    /\ garbage = {}
    /\ rt = [a \in Agents |-> "off"]
    /\ enforced = [a \in Agents |-> NotEnforced]
    /\ phase = [a \in Agents |-> "off"]
    /\ todo = [a \in Agents |-> {}]
    /\ seen = [a \in Agents |-> NotSeen]
    /\ cancel = [a \in Agents |-> FALSE]
    /\ messages = 0 /\ faults = 0
    /\ gone = {} /\ missed = {} /\ failed = {}
    /\ known = [a \in Agents |-> NoType]

-----------------------------------------------------------------------------
(* What the supervisor of an agent wants under the names of its manifest:  *)
(* labels, annotations and content are what has_changed compares.          *)
Desired(a) == [agent |-> a, owner |-> "sub", type |-> enforced[a].type,
               body |-> enforced[a].version]

Objects(a) == Manifest[<<a, enforced[a].type, enforced[a].version>>]
Own(a) == {a} \cup {n \in Names : \E t \in Types, v \in Versions : n \in Manifest[<<a, t, v>>]}

(* The name of objects of two agents.                                      *)
Contested(k) == \E a, b \in Agents : a # b /\ k \in Own(a) \cap Own(b)

(* set_configmap_key: one key of the ConfigMap is written, and the         *)
(* annotations are added to those that are there.                          *)
SetIdentity(a) ==
    cluster' = [cluster EXCEPT ![a] =
        IF @ = NoObj
        THEN [agent |-> a, owner |-> "ac", type |-> NoType, ident |-> ident,
              remote |-> NoVersion]
        ELSE [@ EXCEPT !.owner = "ac", !.ident = ident]]

SetRemote(a, v) ==
    cluster' = [cluster EXCEPT ![a].owner = "sub", ![a].type = coll[a],
                               ![a].remote = v]

(* The configuration a sub-agent starts with.                              *)
Loaded(a) == IF cluster[a] = NoObj \/ cluster[a].remote = NoVersion
             THEN LocalVersion ELSE cluster[a].remote

-----------------------------------------------------------------------------
(* The garbage collector.                                                  *)
Retaining == pc \in {"retainData", "retainObjects", "retainLast"}

(* Mutant: the label selector is forgotten.                                *)
ConfigMapsToDelete_Unselected ==
    {a \in Agents : cluster[a] # NoObj /\ cluster[a].owner = "ac"}

(* list_configmaps asks the API server, by label, and keeps the ConfigMaps *)
(* Agent Control owns.                                                     *)
ConfigMapsToDelete ==
    {a \in Agents : /\ cluster[a] # NoObj
                    /\ cluster[a].owner = "ac"
                    /\ IF Retaining THEN config[a] = NoType ELSE a = subject[1]}

(* Mutant: `collect` compares only the type.                               *)
ShouldDeleteAgent_AnyAgent(id, type) ==
    IF Retaining THEN config[id] = NoType \/ type \notin {config[id], NoType}
    ELSE type = subject[2]

(* should_delete_agent_id: `retain` deletes for an id that is not          *)
(* configured or has another type, `collect` for the removed id and type.  *)
(* An object without the annotation of its type is spared.                 *)
ShouldDeleteAgent(id, type) ==
    IF Retaining THEN config[id] = NoType \/ type \notin {config[id], NoType}
    ELSE <<id, type>> = subject

(* should_delete_dynamic_object: objects of sub-agents, which all have the *)
(* labels of Agent Control and a valid id.                                 *)
ShouldDelete(o) == o # NoObj /\ o.owner = "sub" /\ ShouldDeleteAgent(o.agent, o.type)

GcConfigMaps ==
    /\ pc \in {"retainData", "collectData"}
    /\ garbage' = ConfigMapsToDelete
    /\ pc' = IF Retaining THEN "retainObjects" ELSE "collectObjects"
    /\ UNCHANGED <<host, reflector, coll, subject, agents, history>>

(* The listed objects are deleted by name, one after the other.  A dynamic *)
(* object that is not there any more is no error; a ConfigMap would be,    *)
(* but nobody else deletes one that the query found.                       *)
GcDelete(k) ==
    /\ k \in garbage
    /\ pc \in {"retainObjects", "collectObjects"} => cluster[k] # NoObj
    /\ cluster' = [cluster EXCEPT ![k] = NoObj]
    /\ garbage' = garbage \ {k}
    /\ UNCHANGED <<config, ident, reflector, pc, coll, subject, agents, history>>

(* What is in the cluster under these names, with its agent and type.      *)
LeftUnder(names) ==
    {p \in names \X (Agents \X Types) :
        p[2] = <<cluster[p[1]].agent, cluster[p[1]].type>>}

ToDelete == {k \in Keys : ShouldDelete(cluster[k])}

(* Once the ConfigMaps are deleted, the other objects are listed.          *)
GcObjects ==
    /\ pc \in {"retainObjects", "collectObjects"}
    /\ garbage = {}
    /\ watching
    /\ garbage' = {k \in Keys : ShouldDelete(cache[k])}
    /\ pc' = IF Retaining THEN "retainLast" ELSE "collectLast"
    /\ missed' = IF Retaining THEN missed
                 ELSE missed \cup LeftUnder(ToDelete \ garbage')
    /\ UNCHANGED <<host, reflector, coll, subject, agents, messages, faults,
                   gone, failed, known>>

(* Where a cache has to be built, any error of the discovery of its kind   *)
(* is taken for a kind the cluster does not have: its objects are skipped, *)
(* the others are listed in caches just filled, and that is no error.      *)
GcSkips ==
    /\ pc \in {"retainObjects", "collectObjects"}
    /\ garbage = {}
    /\ ~ watching
    /\ \E skipped \in SUBSET ToDelete \ {{}} :
         /\ garbage' = ToDelete \ skipped
         /\ missed' = missed \cup LeftUnder(skipped)
    /\ pc' = IF Retaining THEN "retainLast" ELSE "collectLast"
    /\ UNCHANGED <<host, reflector, coll, subject, agents, messages, faults,
                   gone, failed, known>>

RetainDone ==
    /\ pc = "retainLast"
    /\ garbage = {}
    /\ pc' = "apply"
    /\ gone' = {p \in Agents \X Types : config[p[1]] # p[2]}
    /\ UNCHANGED <<host, reflector, coll, subject, garbage, agents, messages,
                   faults, missed, failed, known>>

CollectDone ==
    /\ pc = "collectLast"
    /\ garbage = {}
    /\ pc' = "apply"
    /\ gone' = gone \cup {subject}
    /\ subject' = NoSubject
    /\ UNCHANGED <<host, reflector, coll, garbage, agents, messages, faults,
                   missed, failed, known>>

-----------------------------------------------------------------------------
(* The main thread.                                                        *)

(* run_k8s: the persisted configuration is loaded and what it does not     *)
(* name is deleted before anything is built.                               *)
Boot ==
    /\ pc = "down"
    /\ pc' = "retainData"
    /\ UNCHANGED <<host, reflector, coll, subject, garbage, agents, history>>

(* A configuration of Agent Control is persisted, then applied.  The one   *)
(* after a partly failed application is AgentControl's.                    *)
RemoteConfig(c) ==
    /\ pc = "idle"
    /\ failed = {}
    /\ messages < MaxMessages
    /\ messages' = messages + 1
    /\ config' = c
    /\ known' = [a \in Agents |-> IF c[a] = config[a] THEN known[a] ELSE NoType]
    /\ pc' = "apply"
    /\ UNCHANGED <<cluster, ident, reflector, coll, subject, garbage, agents,
                   faults, gone, missed, failed>>

(* InstanceIDWithIdentifiersGetter: the stored identity is used if it was  *)
(* created for these identifiers, else a new one is stored.  Then the      *)
(* sub-agent runs.                                                         *)
NeedsIdentity(a) == cluster[a] = NoObj \/ cluster[a].ident # ident

Build(a) ==
    /\ pc = "apply"
    /\ config[a] # NoType /\ coll[a] = NoType
    /\ IF NeedsIdentity(a)
       THEN SetIdentity(a) /\ known' = [known EXCEPT ![a] = <<config[a], ident>>]
       ELSE UNCHANGED <<cluster, known>>
    /\ coll' = [coll EXCEPT ![a] = config[a]]
    /\ rt' = [rt EXCEPT ![a] = "start"]
    /\ gone' = gone \ {<<a, config[a]>>}
    /\ missed' = {p \in missed : p[2] # <<a, config[a]>>}
    /\ UNCHANGED <<config, ident, reflector, pc, subject, garbage, enforced, phase,
                   todo, seen, cancel, messages, faults, failed>>

Recreated == {a \in Agents : coll[a] # NoType /\ config[a] \notin {NoType, coll[a]}}
Removed == {a \in Agents : coll[a] # NoType /\ config[a] = NoType}
Unbuilt == {a \in Agents : config[a] # NoType /\ coll[a] = NoType}

(* An agent whose type changed is stopped and built again; an agent that   *)
(* is not configured any more is stopped once the others are built.        *)
StopAgent(a) ==
    /\ pc = "apply"
    /\ a \in Recreated \/ (a \in Removed /\ Recreated \cup Unbuilt = {})
    /\ subject' = <<a, coll[a]>>
    /\ pc' = "stop"
    /\ UNCHANGED <<host, reflector, coll, garbage, agents, history>>

(* stop_and_remove returns when the threads of the sub-agent have ended.   *)
(* Only a removed agent is cleaned.                                        *)
Stopped ==
    /\ pc = "stop"
    /\ rt[subject[1]] = "off"
    /\ coll' = [coll EXCEPT ![subject[1]] = NoType]
    /\ \/ config[subject[1]] = NoType /\ pc' = "collectData" /\ UNCHANGED subject
       \/ config[subject[1]] # NoType /\ pc' = "apply" /\ subject' = NoSubject
    /\ UNCHANGED <<host, reflector, garbage, agents, history>>

Applied ==
    /\ pc = "apply"
    /\ Recreated \cup Removed \cup Unbuilt = {}
    /\ pc' = "idle"
    /\ UNCHANGED <<host, reflector, coll, subject, garbage, agents, history>>

-----------------------------------------------------------------------------
(* The runtime of a sub-agent.                                             *)
StartSupervisor(a, v) ==
    /\ enforced' = [enforced EXCEPT ![a] = [type |-> coll[a], version |-> v]]
    /\ phase' = [phase EXCEPT ![a] = "round"]
    /\ todo' = [todo EXCEPT ![a] = Manifest[<<a, coll[a], v>>]]
    /\ rt' = [rt EXCEPT ![a] = "idle"]
    /\ cancel' = [cancel EXCEPT ![a] = FALSE]

(* The supervisor starts with the stored configuration, whose state may    *)
(* have to be stored.                                                      *)
StartSubAgent(a) ==
    /\ rt[a] = "start"
    /\ StartSupervisor(a, Loaded(a))
    /\ \/ cluster[a] # NoObj /\ cluster[a].remote # NoVersion
          /\ SetRemote(a, cluster[a].remote)
       \/ UNCHANGED cluster
    /\ UNCHANGED <<config, ident, reflector, main, seen, history>>

(* A configuration of Fleet is stored and replaces a different one: the    *)
(* supervisor is told to stop, and the runtime waits for it.               *)
SubAgentConfig(a, v) ==
    /\ rt[a] = "idle"
    /\ messages < MaxMessages
    /\ messages' = messages + 1
    /\ cluster[a] # NoObj    \* it has held the identity since the build
    /\ SetRemote(a, v)
    /\ IF v = enforced[a].version THEN UNCHANGED <<rt, cancel>>
       ELSE /\ rt' = [rt EXCEPT ![a] = "apply"]
            /\ cancel' = [cancel EXCEPT ![a] = TRUE]
    /\ UNCHANGED <<config, ident, reflector, main, enforced, phase, todo, seen,
                   faults, gone, missed, failed, known>>

ApplySubAgentConfig(a) ==
    /\ rt[a] = "apply"
    /\ phase[a] = "off"
    /\ StartSupervisor(a, Loaded(a))
    /\ UNCHANGED <<host, reflector, main, seen, history>>

(* The main thread asks the runtime to stop, which stops the supervisor.   *)
StopRuntime(a) ==
    /\ pc = "stop" /\ subject[1] = a
    /\ rt[a] = "idle"
    /\ rt' = [rt EXCEPT ![a] = "stop"]
    /\ cancel' = [cancel EXCEPT ![a] = TRUE]
    /\ UNCHANGED <<host, reflector, main, enforced, phase, todo, seen, history>>

(* What a runtime that has ended leaves in the process: nothing.           *)
RuntimeEnds(a) ==
    /\ rt' = [rt EXCEPT ![a] = "off"]
    /\ enforced' = [enforced EXCEPT ![a] = NotEnforced]
    /\ cancel' = [cancel EXCEPT ![a] = FALSE]

(* Mutant: the runtime does not join the thread of the supervisor.         *)
RuntimeStopped_NoJoin(a) ==
    /\ rt[a] = "stop"
    /\ rt' = [rt EXCEPT ![a] = "off"]
    /\ UNCHANGED <<host, reflector, main, enforced, phase, todo, seen, cancel, history>>

RuntimeStopped(a) ==
    /\ rt[a] = "stop"
    /\ phase[a] = "off"
    /\ RuntimeEnds(a)
    /\ UNCHANGED <<host, reflector, main, phase, todo, seen, history>>

-----------------------------------------------------------------------------
(* The objects supervisor.                                                 *)
(* has_changed asks the cache.  A changed object is read from the cluster  *)
(* before it is written.                                                   *)
Check(a, n) ==
    /\ phase[a] = "round" /\ n \in todo[a]
    /\ watching
    /\ todo' = [todo EXCEPT ![a] = @ \ {n}]
    /\ IF cache[n] = Desired(a) THEN UNCHANGED <<phase, seen>>
       ELSE /\ phase' = [phase EXCEPT ![a] = "commit"]
            /\ seen' = [seen EXCEPT ![a] = [name |-> n, obj |-> cluster[n]]]
    /\ UNCHANGED <<host, reflector, main, rt, enforced, cancel, history>>

(* The commit of an entry is refused if the object changed after it was    *)
(* read; that, as any error, ends the round.                               *)
Commit(a) ==
    /\ phase[a] = "commit"
    /\ LET n == seen[a].name
       IN \/ /\ cluster[n] = seen[a].obj
             /\ cluster' = [cluster EXCEPT ![n] = Desired(a)]
             /\ UNCHANGED todo
          \/ /\ cluster[n] # seen[a].obj
             /\ todo' = [todo EXCEPT ![a] = {}]
             /\ UNCHANGED cluster
    /\ phase' = [phase EXCEPT ![a] = "round"]
    /\ seen' = [seen EXCEPT ![a] = NotSeen]
    /\ UNCHANGED <<config, ident, reflector, main, rt, enforced, cancel, history>>

(* Mutant: the thread ends when the wait is over.                          *)
NextRound_Once(a) ==
    /\ phase[a] = "round" /\ todo[a] = {}
    /\ phase' = [phase EXCEPT ![a] = "off"]
    /\ UNCHANGED <<host, reflector, main, rt, enforced, todo, seen, cancel, history>>

(* Between two rounds, is_cancelled_with_timeout: the stop message ends    *)
(* the thread, otherwise the next round begins when the interval is over.  *)
NextRound(a) ==
    /\ phase[a] = "round" /\ todo[a] = {}
    /\ \/ cancel[a] /\ phase' = [phase EXCEPT ![a] = "off"] /\ UNCHANGED todo
       \/ ~ cancel[a] /\ todo' = [todo EXCEPT ![a] = Objects(a)] /\ UNCHANGED phase
    /\ UNCHANGED <<host, reflector, main, rt, enforced, seen, cancel, history>>

-----------------------------------------------------------------------------
(* The reflectors.                                                         *)

(* The watch delivers a change.                                            *)
Sync(k) ==
    /\ watching
    /\ cache[k] # cluster[k]
    /\ cache' = [cache EXCEPT ![k] = cluster[k]]
    /\ UNCHANGED <<host, watching, main, agents, history>>

(* get_or_create: whoever needs a cache whose watch has ended builds a new *)
(* one and waits until it is filled.                                       *)
Reconnect ==
    /\ ~ watching
    /\ \/ pc \in {"retainObjects", "collectObjects"} /\ garbage = {}
       \/ \E a \in Agents : phase[a] = "round" /\ todo[a] # {}
    /\ watching' = TRUE
    /\ cache' = cluster
    /\ UNCHANGED <<host, main, agents, history>>

-----------------------------------------------------------------------------
(* What may go wrong.                                                      *)
Fault == faults < MaxFaults /\ faults' = faults + 1

WatchFails ==
    /\ Fault
    /\ watching /\ watching' = FALSE
    /\ UNCHANGED <<host, cache, main, agents, messages, gone, missed, failed, known>>

(* Someone else edits or deletes an object.                                *)
Tamper(n) ==
    /\ Fault
    /\ cluster[n] # NoObj
    /\ \E o \in {NoObj} \cup {[cluster[n] EXCEPT !.body = v] : v \in Versions} :
         o # cluster[n] /\ cluster' = [cluster EXCEPT ![n] = o]
    /\ UNCHANGED <<config, ident, reflector, main, agents, messages, gone, missed, failed, known>>

(* A request of the supervisor fails, or the cache cannot be built in the  *)
(* attempts there are: apply_resources stops at the first error.           *)
RoundFails(a) ==
    /\ Fault
    /\ phase[a] = "commit" \/ todo[a] # {}
    /\ phase' = [phase EXCEPT ![a] = "round"]
    /\ todo' = [todo EXCEPT ![a] = {}]
    /\ seen' = [seen EXCEPT ![a] = NotSeen]
    /\ UNCHANGED <<host, reflector, main, rt, enforced, cancel, messages, gone,
                   missed, failed, known>>

(* A request of `collect` fails: the rest of the objects stay.  The error  *)
(* is noted and the application of the configuration goes on.              *)
CollectFails ==
    /\ Fault
    /\ pc \in {"collectData", "collectObjects", "collectLast"}
    /\ pc' = "apply"
    /\ subject' = NoSubject /\ garbage' = {}
    /\ failed' = failed \cup {subject[1]}
    /\ UNCHANGED <<host, reflector, coll, agents, messages, gone, missed, known>>

(* The process ends: it crashes, or a request of `retain` fails.  It may   *)
(* come back with other identifiers.  `retain` will start the history of   *)
(* what is gone anew.                                                      *)
ProcessEnds ==
    /\ Fault
    /\ pc # "down" /\ pc' = "down"
    /\ ident' \in Idents
    /\ cache' = [k \in Keys |-> NoObj] /\ watching' = FALSE
    /\ coll' = [a \in Agents |-> NoType]
    /\ subject' = NoSubject /\ garbage' = {}
    /\ rt' = [a \in Agents |-> "off"]
    /\ enforced' = [a \in Agents |-> NotEnforced]
    /\ phase' = [a \in Agents |-> "off"]
    /\ todo' = [a \in Agents |-> {}]
    /\ seen' = [a \in Agents |-> NotSeen]
    /\ cancel' = [a \in Agents |-> FALSE]
    /\ gone' = {} /\ missed' = {} /\ failed' = {}
    /\ UNCHANGED <<cluster, config, messages, known>>

-----------------------------------------------------------------------------
Collector ==
    \/ GcConfigMaps \/ GcObjects \/ GcSkips \/ RetainDone \/ CollectDone
    \/ \E k \in Keys : GcDelete(k)

Main ==
    \/ Boot \/ Stopped \/ Applied \/ Collector
    \/ \E a \in Agents : Build(a) \/ StopAgent(a)

Runtime(a) ==
    \/ StartSubAgent(a) \/ ApplySubAgentConfig(a)
    \/ StopRuntime(a) \/ RuntimeStopped(a)

Supervisor(a) ==
    \/ Commit(a) \/ NextRound(a)
    \/ \E n \in Names : Check(a, n)

Watch == Reconnect \/ \E k \in Keys : Sync(k)

Fleet ==
    \/ \E c \in Configs : RemoteConfig(c)
    \/ \E a \in Agents, v \in Versions : SubAgentConfig(a, v)

Environment ==
    \/ WatchFails \/ CollectFails \/ ProcessEnds
    \/ \E n \in Names : Tamper(n)
    \/ \E a \in Agents : RoundFails(a)

Next ==
    \/ Main \/ Watch \/ Fleet \/ Environment
    \/ \E a \in Agents : Runtime(a) \/ Supervisor(a)

Spec == Init /\ [][Next]_vars

(* Threads are scheduled, the kubelet restarts the process, and a live     *)
(* watch delivers every change.                                            *)
FairSpec ==
    /\ Spec
    /\ WF_vars(Main)
    /\ WF_vars(Watch)
    /\ \A a \in Agents : WF_vars(Runtime(a)) /\ WF_vars(Supervisor(a))

-----------------------------------------------------------------------------
(* What was collected is gone and stays gone: once `retain` or `collect`   *)
(* has finished, no object of a removed agent and type exists or appears   *)
(* again before that agent is built again, except under a name where the   *)
(* listing missed it: the cache of `collect` lagged, or its kind could not *)
(* be discovered.  The identity of a removed agent is found by a query, so *)
(* it goes whatever the cache says, unless a stored configuration made the *)
(* ConfigMap the sub-agent's or the collection failed.                     *)
NoZombies ==
    /\ \A k \in Keys :
        LET o == cluster[k] IN
        o # NoObj /\ o.owner = "sub" /\ <<o.agent, o.type>> \in gone
            => <<k, <<o.agent, o.type>>>> \in missed
    /\ pc = "idle" =>
        \A a \in Agents : config[a] = NoType /\ cluster[a] # NoObj
                          => cluster[a].owner = "sub" \/ a \in failed

(* The garbage collector deletes by name what it found in a cache.  What   *)
(* it deletes is not an object the configuration wants, that is, the       *)
(* identity of a configured agent, or an object annotated with its         *)
(* configured type.  The one exception is a name two agents share: when    *)
(* `collect` deletes what it found there, the object may by then be the    *)
(* other agent's.  `retain` is right about such names too.                 *)
OnlyOutdatedDeleted ==
    [][\A k \in garbage :
        cluster[k] # NoObj /\ cluster'[k] = NoObj /\ UNCHANGED faults
            => \/ config[cluster[k].agent] = NoType
               \/ /\ cluster[k].owner = "sub"
                  /\ cluster[k].type # config[cluster[k].agent]
               \/ pc = "collectLast" /\ Contested(k)]_vars

(* An identity that was created for an agent stays its identity as long as *)
(* the agent stays configured with that type and the host keeps its        *)
(* identifiers, through crashes, restarts and the garbage collector.       *)
IdentityKept ==
    [][\A a \in Agents :
        coll[a] = NoType /\ coll'[a] # NoType /\ known[a] = <<coll'[a], ident>>
            => cluster'[a] = cluster[a]]_vars

(* When the disturbances are over, every running agent has the objects of  *)
(* its manifest, as its configuration wants them, for good.                *)
Converges ==
    <>[](\A a \in Agents :
            /\ coll[a] = config[a]
            /\ coll[a] # NoType => \A n \in Objects(a) : cluster[n] = Desired(a))

=============================================================================
