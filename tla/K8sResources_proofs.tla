------------------------- MODULE K8sResources_proofs -------------------------
(***************************************************************************)
(* That the garbage collector of Agent Control on Kubernetes deletes only  *)
(* what the configuration does not want, that what it has collected stays  *)
(* gone, and that an agent keeps its identity: for all agents, types,      *)
(* manifests, configurations and numbers of messages and faults.           *)
(*                                                                         *)
(* The collector lists objects in a cache that lags behind the cluster and *)
(* deletes them by name some steps later.  That is sound because of who    *)
(* may write in between.  While it retains, nobody does: no agent is       *)
(* built.  While it collects, nobody writes the objects of the agent it    *)
(* collects: the threads of that agent were joined, and another agent      *)
(* writes only what is labelled with its id, and under a name of that      *)
(* agent only if the two share it.                                         *)
(***************************************************************************)
EXTENDS K8sResources, TLAPS

Collecting == pc \in {"collectData", "collectObjects", "collectLast"}
Listed == pc \in {"retainObjects", "retainLast", "collectObjects", "collectLast"}

(* An object lies under a name of the agent it is labelled with.           *)
WellNamed(f) == \A k \in Keys : f[k] # NoObj => k \in Own(f[k].agent)

(* The threads of an agent exist only while it is in the collection, and   *)
(* its supervisor works for the type it has there, on names of the agent.  *)
Threaded ==
    \A a \in Agents :
        /\ rt[a] # "off" => coll[a] # NoType
        /\ phase[a] # "off" => /\ rt[a] \in {"idle", "apply", "stop"}
                               /\ enforced[a].type = coll[a]
        /\ phase[a] = "off" => todo[a] = {}
        /\ todo[a] \subseteq Own(a)
        /\ phase[a] = "commit" => seen[a].name \in Own(a)

(* Nothing is built before `retain` has finished, the cache is empty until *)
(* the collector asks for it, and the main thread idles only once the      *)
(* collection is what the configuration says.                              *)
Sequenced ==
    /\ pc = "down" \/ Retaining => coll = [a \in Agents |-> NoType]
    /\ pc \in {"down", "retainData"} => ~ watching
    /\ pc = "idle" => coll = config
    /\ Collecting => config[subject[1]] = NoType /\ coll[subject[1]] = NoType
    /\ garbage # {} => Listed

(* While `retain` runs the cache may lag, but not on what it is asked for. *)
Fresh ==
    Retaining /\ watching =>
        \A k \in Keys : cluster[k] # NoObj =>
            /\ cache[k] # NoObj
            /\ cache[k].owner = cluster[k].owner
            /\ cache[k].agent = cluster[k].agent
            /\ cache[k].type = cluster[k].type

(* What is about to be deleted is not wanted, or is under a name that      *)
(* another agent has too; while `collect` runs the name is one of the      *)
(* removed agent's.                                                        *)
Unwanted(o) ==
    \/ config[o.agent] = NoType
    \/ o.owner = "sub" /\ o.type # config[o.agent]

GarbageUnwanted ==
    /\ \A k \in garbage : cluster[k] # NoObj =>
            Unwanted(cluster[k]) \/ (pc = "collectLast" /\ Contested(k))
    /\ Collecting => garbage \subseteq Own(subject[1])
    /\ pc = "collectObjects" => garbage \subseteq Agents

(* When all that was listed is deleted, the objects of the removed agents  *)
(* are gone, except those the listing missed.                              *)
Collected ==
    \A k \in Keys :
        LET o == cluster[k]
            m == <<k, <<o.agent, o.type>>>>
        IN
        o # NoObj /\ o.owner = "sub" /\ o.type # NoType =>
            /\ pc = "retainLast" /\ config[o.agent] # o.type
                 => k \in garbage \/ m \in missed
            /\ pc = "collectLast" /\ <<o.agent, o.type>> = subject
                 => k \in garbage \/ m \in missed
            /\ <<o.agent, o.type>> \in gone => m \in missed

(* An agent in the collection is not gone.                                 *)
BuiltIsNotGone == \A a \in Agents : coll[a] # NoType => <<a, coll[a]>> \notin gone

(* The identity of an agent that is neither configured nor in the          *)
(* collection is deleted, or is about to be, or its collection failed.     *)
IdentityCollected ==
    \A a \in Agents :
        config[a] = NoType /\ coll[a] = NoType /\ cluster[a] # NoObj =>
            \/ cluster[a].owner = "sub"
            \/ a \in failed
            \/ pc \in {"down", "retainData"}
            \/ pc = "retainObjects" /\ a \in garbage
            \/ pc = "collectData" /\ a = subject[1]
            \/ pc = "collectObjects" /\ a \in garbage

(* An identity that was created is stored, and its ConfigMap is not one    *)
(* the collector takes for an object of another type.                      *)
IdentityStored ==
    \A a \in Agents :
        known[a] # NoType =>
            /\ known[a][1] = config[a] /\ config[a] # NoType
            /\ cluster[a] # NoObj
            /\ cluster[a].ident = known[a][2]
            /\ cluster[a].owner = "ac" \/ cluster[a].type = config[a]
            /\ coll[a] \in {NoType, config[a]}

IInv ==
    /\ TypeOK
    /\ WellNamed(cluster) /\ WellNamed(cache)
    /\ Threaded
    /\ Sequenced
    /\ Fresh
    /\ GarbageUnwanted
    /\ Collected
    /\ BuiltIsNotGone
    /\ IdentityCollected
    /\ IdentityStored

-----------------------------------------------------------------------------
(* Whose a name is.                                                        *)
LEMMA OwnNames ==
    /\ \A a \in Agents : Own(a) \subseteq Keys /\ a \in Own(a)
    /\ \A a, b \in Agents : b \in Own(a) => b = a
<1>1. \A a \in Agents, t \in Types, v \in Versions : Manifest[<<a, t, v>>] \subseteq Names
  BY ManifestAssumption
<1>2. ASSUME NEW a \in Agents
      PROVE  Own(a) \subseteq Keys /\ a \in Own(a)
  BY <1>1 DEF Own, Keys
<1>3. ASSUME NEW a \in Agents, NEW b \in Agents, b \in Own(a) PROVE b = a
  BY <1>1, <1>3, NamesAssumption DEF Own
<1>4. QED
  BY <1>2, <1>3

(* Agents share only names of objects: fleet data is of one agent.         *)
LEMMA FleetDataNotContested == \A a \in Agents : ~ Contested(a)
BY OwnNames DEF Contested

(* Whose a name is does not change.                                        *)
LEMMA NamesConstant ==
    /\ \A a \in Agents : Own(a)' = Own(a)
    /\ \A k \in Keys : Contested(k)' = Contested(k)
BY DEF Own, Contested

(* The objects of a manifest are the agent's.                              *)
LEMMA ManifestOwn ==
    ASSUME NEW a \in Agents, NEW t \in Types, NEW v \in Versions
    PROVE  Manifest[<<a, t, v>>] \subseteq Own(a) \cap Names
BY ManifestAssumption DEF Own

(* An object is labelled with an agent, and is not the mark of its absence. *)
LEMMA Objects_Typed ==
    /\ \A o \in Obj : /\ o # NoObj /\ o.agent \in Agents /\ o.owner = "sub"
                      /\ o.type \in Types /\ o.type # NoType /\ o.body \in Versions
    /\ \A o \in FleetData : /\ o # NoObj /\ o.agent \in Agents /\ o.owner \in {"ac", "sub"}
                            /\ o.type \in Types \cup {NoType} /\ o.ident \in Idents
                            /\ o.remote \in Versions \cup {NoVersion}
BY NoObjAssumption, NoneAssumption DEF Obj, FleetData

(* A ConfigMap of fleet data is that of the agent it is named after.       *)
LEMMA FleetDataOwn ==
    ASSUME IInv, NEW a \in Agents, cluster[a] # NoObj
    PROVE  cluster[a] \in FleetData /\ cluster[a].agent = a
<1>1. cluster[a] \in FleetData
  BY DEF IInv, TypeOK
<1>2. cluster[a].agent \in Agents /\ a \in Keys
  BY <1>1, Objects_Typed DEF Keys
<1>3. a \in Own(cluster[a].agent)
  BY <1>2 DEF IInv, WellNamed
<1>4. QED
  BY <1>1, <1>2, <1>3, OwnNames

(* The initial states satisfy the inductive invariant.                     *)
LEMMA InitIInv == Init => IInv
<1>. SUFFICES ASSUME Init PROVE IInv
  OBVIOUS
<1>1. /\ NotEnforced \in [type : Types, version : Versions]
      /\ NotSeen \in [name : Names, obj : Obj \cup {NoObj}]
      /\ NoSubject \in Agents \X Types
      /\ (CHOOSE i \in Idents : TRUE) \in Idents
  <2>1. (CHOOSE t \in Types : TRUE) \in Types
    BY NonEmptyAssumption
  <2>2. (CHOOSE n \in Names : TRUE) \in Names
    BY NonEmptyAssumption
  <2>3. (CHOOSE i \in Idents : TRUE) \in Idents
    BY NonEmptyAssumption
  <2>4. \E a \in Agents, t \in Types : <<a, t>> \in Agents \X Types
    BY NonEmptyAssumption
  <2>5. NoSubject \in Agents \X Types
    BY <2>4, Zenon DEF NoSubject
  <2>6. QED
    BY <2>1, <2>2, <2>3, <2>5, LocalVersionAssumption DEF NotEnforced, NotSeen
<1>2. TypeOK
  <2>1. 0 \in 0..MaxMessages /\ 0 \in 0..MaxFaults
    BY BoundsAssumption
  <2>2. config \in Config /\ coll \in Config
    BY ConfigsAssumption DEF Init, Config
  <2>3. QED
    BY <1>1, <2>1, <2>2 DEF Init, TypeOK, Keys
<1>3. WellNamed(cluster) /\ WellNamed(cache) /\ Threaded /\ Fresh
  BY DEF Init, WellNamed, Threaded, Fresh, Retaining, Keys
<1>4. Sequenced /\ GarbageUnwanted /\ Collected
  BY DEF Init, Sequenced, GarbageUnwanted, Collected, Retaining, Collecting, Listed
<1>5. BuiltIsNotGone /\ IdentityCollected /\ IdentityStored
  BY DEF Init, BuiltIsNotGone, IdentityCollected, IdentityStored
<1>6. QED
  BY <1>2, <1>3, <1>4, <1>5 DEF IInv

-----------------------------------------------------------------------------
(* What does not depend on the threads of the agents.                      *)
Shared ==
    /\ WellNamed(cluster) /\ WellNamed(cache)
    /\ Sequenced
    /\ Fresh
    /\ GarbageUnwanted
    /\ Collected
    /\ BuiltIsNotGone
    /\ IdentityCollected
    /\ IdentityStored

(* A step inside a thread of an agent leaves the shared state alone.       *)
LEMMA Untouched ==
    ASSUME IInv, UNCHANGED <<host, reflector, main, gone, missed, failed, known>>
    PROVE  Shared'
<1>. USE DEF IInv, host, reflector, main
<1>1. WellNamed(cluster)' /\ WellNamed(cache)'
  BY DEF WellNamed
<1>2. Sequenced' /\ Fresh'
  BY DEF Sequenced, Fresh, Retaining, Collecting, Listed
<1>3. GarbageUnwanted' /\ Collected'
  BY DEF GarbageUnwanted, Unwanted, Collecting, Collected
<1>4. BuiltIsNotGone' /\ IdentityCollected' /\ IdentityStored'
  BY DEF BuiltIsNotGone, IdentityCollected, IdentityStored
<1>5. QED
  BY <1>1, <1>2, <1>3, <1>4 DEF Shared

(* A running agent writes an object under a name of its own: the collector *)
(* is not working on that name.                                            *)
LEMMA AgentWrites ==
    ASSUME IInv, NEW a \in Agents, NEW k \in Own(a), NEW o,
           cluster' = [cluster EXCEPT ![k] = o],
           o # NoObj, o.agent = a, o.owner = "sub", o.type = coll[a],
           coll[a] # NoType,
           k = a => cluster[a] # NoObj /\ o.ident = cluster[a].ident,
           UNCHANGED <<config, ident, reflector, main, gone, missed, failed, known>>
    PROVE  Shared'
<1>. USE DEF IInv, reflector, main
<1>1. /\ k \in Keys /\ cluster'[k] = o
      /\ \A j \in Keys \ {k} : cluster'[j] = cluster[j]
      /\ \A b \in Agents \ {a} : cluster'[b] = cluster[b]
  BY OwnNames DEF TypeOK, Keys
<1>2. ~ Retaining /\ pc # "down"
  BY DEF Sequenced
<1>3. Collecting => a # subject[1] /\ subject \in Agents \X Types
  BY DEF Sequenced, TypeOK
<1>4. k \in garbage => pc = "collectLast" /\ Contested(k)
  <2>1. SUFFICES ASSUME k \in garbage PROVE pc = "collectLast" /\ Contested(k)
    OBVIOUS
  <2>2. Collecting /\ pc \in {"collectObjects", "collectLast"}
    BY <1>2, <2>1 DEF Sequenced, Listed, Retaining, Collecting
  <2>3. k \in Own(subject[1]) /\ a # subject[1] /\ subject[1] \in Agents
    BY <1>3, <2>1, <2>2 DEF GarbageUnwanted
  <2>4. k \notin Agents
    BY <2>3, OwnNames
  <2>5. QED
    BY <2>1, <2>2, <2>3, <2>4 DEF GarbageUnwanted, Contested
<1>5. WellNamed(cluster)' /\ WellNamed(cache)'
  BY <1>1 DEF WellNamed
<1>6. Sequenced' /\ Fresh'
  BY <1>2 DEF Sequenced, Fresh, Retaining, Collecting, Listed
<1>7. GarbageUnwanted'
  BY <1>1, <1>4, NamesConstant DEF TypeOK, GarbageUnwanted, Unwanted, Collecting
<1>8. Collected'
  <2>1. pc = "collectLast" => <<a, coll[a]>> # subject
    BY <1>3 DEF Collecting
  <2>2. <<a, coll[a]>> \notin gone
    BY DEF BuiltIsNotGone
  <2>3. QED
    BY <1>1, <1>2, <2>1, <2>2 DEF Collected, Retaining
<1>9. BuiltIsNotGone'
  BY DEF BuiltIsNotGone
<1>10. IdentityCollected'
  BY <1>1 DEF IdentityCollected, Keys
<1>11. IdentityStored'
  BY <1>1 DEF IdentityStored
<1>12. QED
  BY <1>5, <1>6, <1>7, <1>8, <1>9, <1>10, <1>11 DEF Shared

(* The supervisor of an agent is started for the type it is built with.    *)
LEMMA StartSupervisorStep ==
    ASSUME IInv, NEW a \in Agents, NEW v \in Versions, StartSupervisor(a, v),
           rt[a] # "off", UNCHANGED <<coll, seen>>
    PROVE  /\ Threaded'
           /\ rt' \in [Agents -> {"off", "start", "idle", "apply", "stop"}]
           /\ enforced' \in [Agents -> [type : Types, version : Versions]]
           /\ phase' \in [Agents -> {"off", "round", "commit"}]
           /\ todo' \in [Agents -> SUBSET Names]
           /\ cancel' \in [Agents -> BOOLEAN]
<1>. USE DEF IInv, StartSupervisor
<1>1. coll[a] \in Types /\ coll[a] # NoType
  <2>1. coll[a] # NoType
    BY DEF Threaded
  <2>2. QED
    BY <2>1 DEF TypeOK, Config
<1>2. Manifest[<<a, coll[a], v>>] \subseteq Own(a) \cap Names
  BY <1>1, ManifestOwn
<1>3. rt' \in [Agents -> {"off", "start", "idle", "apply", "stop"}]
  BY DEF TypeOK
<1>4. enforced' \in [Agents -> [type : Types, version : Versions]]
  BY <1>1 DEF TypeOK
<1>5. phase' \in [Agents -> {"off", "round", "commit"}] /\ todo' \in [Agents -> SUBSET Names]
  BY <1>2 DEF TypeOK
<1>6. cancel' \in [Agents -> BOOLEAN]
  BY DEF TypeOK
<1>7. Threaded'
  <2>1. \A b \in Agents : Own(b)' = Own(b)
    BY DEF Own
  <2>2. QED
    BY <1>1, <1>2, <2>1 DEF TypeOK, Threaded
<1>8. QED
  BY <1>3, <1>4, <1>5, <1>6, <1>7

(* The configuration a sub-agent starts with is one of its configurations. *)
LEMMA LoadedVersion ==
    ASSUME TypeOK, NEW a \in Agents
    PROVE  Loaded(a) \in Versions
BY LocalVersionAssumption, Objects_Typed DEF TypeOK, Loaded

(* A stored configuration makes the ConfigMap the sub-agent's, and leaves  *)
(* the identity in it.                                                     *)
LEMMA SetRemoteWrites ==
    ASSUME IInv, NEW a \in Agents, NEW v \in Versions, SetRemote(a, v),
           coll[a] # NoType, cluster[a] # NoObj
    PROVE  \E o \in FleetData :
             /\ cluster' = [cluster EXCEPT ![a] = o]
             /\ o.agent = a /\ o.owner = "sub" /\ o.type = coll[a]
             /\ o.ident = cluster[a].ident
<1>1. cluster[a] \in FleetData /\ cluster[a].agent = a
  BY FleetDataOwn
<1>2. coll[a] \in Types
  BY DEF IInv, TypeOK, Config
<1>. DEFINE o == [cluster[a] EXCEPT !.owner = "sub", !.type = coll[a], !.remote = v]
<1>3. o \in FleetData /\ o.agent = a /\ o.owner = "sub" /\ o.type = coll[a]
      /\ o.ident = cluster[a].ident
  BY <1>1, <1>2 DEF FleetData
<1>4. cluster' = [cluster EXCEPT ![a] = o]
  BY DEF SetRemote, IInv, TypeOK, Keys
<1>5. QED
  BY <1>3, <1>4

(* What a write of fleet data does to the types.                           *)
LEMMA ClusterTyped ==
    ASSUME TypeOK, NEW k \in Keys, NEW o, cluster' = [cluster EXCEPT ![k] = o],
           \/ k \in Agents /\ o \in FleetData \cup {NoObj}
           \/ k \in Names /\ o \in Obj \cup {NoObj}
    PROVE  /\ cluster' \in [Keys -> Obj \cup FleetData \cup {NoObj}]
           /\ \A a \in Agents : cluster'[a] \in FleetData \cup {NoObj}
           /\ \A n \in Names : cluster'[n] \in Obj \cup {NoObj}
BY NamesAssumption DEF TypeOK, Keys

(* The supervisor of a sub-agent starts.                                   *)
LEMMA StartSubAgentStep ==
    ASSUME IInv, NEW a \in Agents, StartSubAgent(a)
    PROVE  IInv'
<1>. USE DEF StartSubAgent
<1>1. Loaded(a) \in Versions
  BY LoadedVersion DEF IInv
<1>2. /\ Threaded'
      /\ rt' \in [Agents -> {"off", "start", "idle", "apply", "stop"}]
      /\ enforced' \in [Agents -> [type : Types, version : Versions]]
      /\ phase' \in [Agents -> {"off", "round", "commit"}]
      /\ todo' \in [Agents -> SUBSET Names]
      /\ cancel' \in [Agents -> BOOLEAN]
  BY <1>1, StartSupervisorStep DEF main
<1>3. UNCHANGED <<config, ident, reflector, main, seen, messages, faults, gone, missed, failed, known>>
  BY DEF history
<1>4. coll[a] # NoType
  BY DEF IInv, Threaded
<1>5. CASE UNCHANGED cluster
  <2>1. Shared'
    BY <1>3, <1>5, Untouched DEF host
  <2>2. TypeOK'
    BY <1>2, <1>3, <1>5 DEF IInv, TypeOK, reflector, main
  <2>3. QED
    BY <1>2, <2>1, <2>2 DEF IInv, Shared
<1>6. CASE cluster[a] # NoObj /\ cluster[a].remote # NoVersion
             /\ SetRemote(a, cluster[a].remote)
  <2>1. cluster[a].remote \in Versions
    BY <1>6, Objects_Typed DEF IInv, TypeOK
  <2>2. PICK o \in FleetData :
             /\ cluster' = [cluster EXCEPT ![a] = o]
             /\ o.agent = a /\ o.owner = "sub" /\ o.type = coll[a]
             /\ o.ident = cluster[a].ident
    BY <1>4, <1>6, <2>1, SetRemoteWrites
  <2>3. Shared'
    BY <1>3, <1>4, <1>6, <2>2, OwnNames, AgentWrites, Objects_Typed
  <2>4. TypeOK'
    BY <1>2, <1>3, <2>2, ClusterTyped DEF IInv, TypeOK, reflector, main, Keys
  <2>5. QED
    BY <1>2, <2>3, <2>4 DEF IInv, Shared
<1>7. QED
  BY <1>5, <1>6

(* A configuration of Fleet is stored for a sub-agent.                     *)
LEMMA SubAgentConfigStep ==
    ASSUME IInv, NEW a \in Agents, NEW v \in Versions, SubAgentConfig(a, v)
    PROVE  IInv'
<1>1. coll[a] # NoType
  BY DEF SubAgentConfig, IInv, Threaded
<1>2. PICK o \in FleetData :
             /\ cluster' = [cluster EXCEPT ![a] = o]
             /\ o.agent = a /\ o.owner = "sub" /\ o.type = coll[a]
             /\ o.ident = cluster[a].ident
  BY <1>1, SetRemoteWrites DEF SubAgentConfig
<1>3. Shared'
  BY <1>1, <1>2, OwnNames, AgentWrites, Objects_Typed DEF SubAgentConfig
<1>4. /\ rt' \in [Agents -> {"off", "start", "idle", "apply", "stop"}]
      /\ cancel' \in [Agents -> BOOLEAN]
  BY DEF SubAgentConfig, IInv, TypeOK
<1>5. messages' \in 0..MaxMessages
  BY BoundsAssumption DEF SubAgentConfig, IInv, TypeOK
<1>6. TypeOK'
  BY <1>2, <1>4, <1>5, ClusterTyped DEF SubAgentConfig, IInv, TypeOK, reflector, main, Keys
<1>7. Threaded'
  <2>1. \A b \in Agents : /\ rt'[b] # "off" => rt[b] # "off"
                          /\ rt[b] \in {"idle", "apply", "stop"}
                               => rt'[b] \in {"idle", "apply", "stop"}
    BY DEF SubAgentConfig, IInv, TypeOK
  <2>2. UNCHANGED <<coll, enforced, phase, todo, seen>>
    BY DEF SubAgentConfig, main
  <2>3. \A b \in Agents : Own(b)' = Own(b)
    BY DEF Own
  <2>4. Threaded
    BY DEF IInv
  <2>5. QED
    BY <2>1, <2>2, <2>3, <2>4 DEF Threaded
<1>8. QED
  BY <1>3, <1>6, <1>7 DEF IInv, Shared

(* A step of one agent's threads that leaves the rest alone is right when  *)
(* it is for that agent.                                                   *)
LEMMA ThreadStep ==
    ASSUME IInv, NEW a \in Agents,
           UNCHANGED <<host, reflector, main, messages, gone, missed, failed, known>>,
           faults' \in 0..MaxFaults,
           rt' \in [Agents -> {"off", "start", "idle", "apply", "stop"}],
           enforced' \in [Agents -> [type : Types, version : Versions]],
           phase' \in [Agents -> {"off", "round", "commit"}],
           todo' \in [Agents -> SUBSET Names],
           seen' \in [Agents -> [name : Names, obj : Obj \cup {NoObj}]],
           cancel' \in [Agents -> BOOLEAN],
           \A b \in Agents \ {a} : /\ rt'[b] = rt[b] /\ enforced'[b] = enforced[b]
                                   /\ phase'[b] = phase[b] /\ todo'[b] = todo[b]
                                   /\ seen'[b] = seen[b],
           rt'[a] # "off" => coll[a] # NoType,
           phase'[a] # "off" => /\ rt'[a] \in {"idle", "apply", "stop"}
                                /\ enforced'[a].type = coll[a],
           phase'[a] = "off" => todo'[a] = {},
           todo'[a] \subseteq Own(a),
           phase'[a] = "commit" => seen'[a].name \in Own(a)
    PROVE  IInv'
<1>1. Shared'
  BY Untouched
<1>2. TypeOK'
  BY DEF IInv, TypeOK, host, reflector, main
<1>3. Threaded'
  <2>1. \A b \in Agents : Own(b)' = Own(b)
    BY DEF Own
  <2>2. Threaded /\ UNCHANGED coll
    BY DEF IInv, main
  <2>3. QED
    BY <2>1, <2>2 DEF Threaded
<1>4. QED
  BY <1>1, <1>2, <1>3 DEF IInv, Shared

(* The runtime of an agent: a new supervisor, and the two steps of a stop. *)
LEMMA RuntimeStep ==
    ASSUME IInv, NEW a \in Agents,
           ApplySubAgentConfig(a) \/ StopRuntime(a) \/ RuntimeStopped(a)
    PROVE  IInv'
<1>1. CASE ApplySubAgentConfig(a)
  <2>1. Loaded(a) \in Versions
    BY LoadedVersion DEF IInv
  <2>2. UNCHANGED <<host, reflector, main, seen, messages, faults, gone, missed, failed, known>>
    BY <1>1 DEF ApplySubAgentConfig, history
  <2>3. /\ Threaded'
        /\ rt' \in [Agents -> {"off", "start", "idle", "apply", "stop"}]
        /\ enforced' \in [Agents -> [type : Types, version : Versions]]
        /\ phase' \in [Agents -> {"off", "round", "commit"}]
        /\ todo' \in [Agents -> SUBSET Names]
        /\ cancel' \in [Agents -> BOOLEAN]
    BY <1>1, <2>1, <2>2, StartSupervisorStep DEF main, ApplySubAgentConfig
  <2>4. TypeOK'
    BY <2>2, <2>3 DEF IInv, TypeOK, host, reflector, main
  <2>5. QED
    BY <2>2, <2>3, <2>4, Untouched DEF IInv, Shared
<1>2. CASE StopRuntime(a)
  <2>1. /\ UNCHANGED <<host, reflector, main, enforced, phase, todo, seen, messages, faults,
                       gone, missed, failed, known>>
        /\ rt' = [rt EXCEPT ![a] = "stop"] /\ cancel' = [cancel EXCEPT ![a] = TRUE]
        /\ rt[a] = "idle"
    BY <1>2 DEF StopRuntime, history
  <2>2. /\ rt' \in [Agents -> {"off", "start", "idle", "apply", "stop"}]
        /\ cancel' \in [Agents -> BOOLEAN]
        /\ rt'[a] = "stop" /\ \A b \in Agents \ {a} : rt'[b] = rt[b]
    BY <2>1 DEF IInv, TypeOK
  <2>3. QED
    BY <2>1, <2>2, ThreadStep DEF IInv, TypeOK, Threaded
<1>3. CASE RuntimeStopped(a)
  <2>1. /\ UNCHANGED <<host, reflector, main, phase, todo, seen, messages, faults,
                       gone, missed, failed, known>>
        /\ rt' = [rt EXCEPT ![a] = "off"] /\ cancel' = [cancel EXCEPT ![a] = FALSE]
        /\ enforced' = [enforced EXCEPT ![a] = NotEnforced]
        /\ phase[a] = "off"
    BY <1>3 DEF RuntimeStopped, RuntimeEnds, history
  <2>2. NotEnforced \in [type : Types, version : Versions]
    <3>1. (CHOOSE t \in Types : TRUE) \in Types
      BY NonEmptyAssumption
    <3>2. QED
      BY <3>1, LocalVersionAssumption DEF NotEnforced
  <2>3. /\ rt' \in [Agents -> {"off", "start", "idle", "apply", "stop"}]
        /\ enforced' \in [Agents -> [type : Types, version : Versions]]
        /\ cancel' \in [Agents -> BOOLEAN]
        /\ rt'[a] = "off"
        /\ \A b \in Agents \ {a} : rt'[b] = rt[b] /\ enforced'[b] = enforced[b]
    BY <2>1, <2>2 DEF IInv, TypeOK
  <2>4. /\ phase \in [Agents -> {"off", "round", "commit"}]
        /\ todo \in [Agents -> SUBSET Names]
        /\ seen \in [Agents -> [name : Names, obj : Obj \cup {NoObj}]]
        /\ faults \in 0..MaxFaults
        /\ todo[a] = {}
    BY <2>1 DEF IInv, TypeOK, Threaded
  <2>5. QED
    BY <2>1, <2>3, <2>4, ThreadStep
<1>4. QED
  BY <1>1, <1>2, <1>3

(* The supervisor compares, goes on to its next round, or gives a round up. *)
LEMMA RoundStep ==
    ASSUME IInv, NEW a \in Agents,
           NextRound(a) \/ RoundFails(a) \/ \E n \in Names : Check(a, n)
    PROVE  IInv'
<1>1. CASE NextRound(a)
  <2>1. phase[a] # "off"
    BY <1>1 DEF NextRound
  <2>2. Objects(a) \subseteq Own(a) \cap Names
    BY ManifestOwn DEF Objects, IInv, TypeOK
  <2>3. QED
    <3>1. UNCHANGED <<host, reflector, main, rt, enforced, seen, cancel, messages, faults,
                      gone, missed, failed, known>>
      BY <1>1 DEF NextRound, history
    <3>2. CASE phase' = [phase EXCEPT ![a] = "off"] /\ UNCHANGED todo
      <4>1. /\ phase' \in [Agents -> {"off", "round", "commit"}] /\ phase'[a] = "off"
            /\ \A b \in Agents \ {a} : phase'[b] = phase[b]
        BY <3>2 DEF IInv, TypeOK
      <4>2. todo'[a] = {}
        BY <1>1, <3>2 DEF NextRound
      <4>3. QED
        BY <3>1, <3>2, <4>1, <4>2, ThreadStep DEF IInv, TypeOK, Threaded
    <3>3. CASE todo' = [todo EXCEPT ![a] = Objects(a)] /\ UNCHANGED phase
      <4>1. /\ todo' \in [Agents -> SUBSET Names] /\ todo'[a] = Objects(a)
            /\ \A b \in Agents \ {a} : todo'[b] = todo[b]
        BY <2>2, <3>3 DEF IInv, TypeOK
      <4>2. QED
        <5>1. /\ rt \in [Agents -> {"off", "start", "idle", "apply", "stop"}]
              /\ enforced \in [Agents -> [type : Types, version : Versions]]
              /\ phase \in [Agents -> {"off", "round", "commit"}]
              /\ seen \in [Agents -> [name : Names, obj : Obj \cup {NoObj}]]
              /\ cancel \in [Agents -> BOOLEAN] /\ faults \in 0..MaxFaults
          BY DEF IInv, TypeOK
        <5>2. /\ rt[a] # "off" => coll[a] # NoType
              /\ rt[a] \in {"idle", "apply", "stop"} /\ enforced[a].type = coll[a]
              /\ phase[a] = "commit" => seen[a].name \in Own(a)
          BY <2>1 DEF IInv, Threaded
        <5>3. QED
          BY <2>1, <2>2, <3>1, <3>3, <4>1, <5>1, <5>2, ThreadStep
    <3>4. QED
      BY <1>1, <3>2, <3>3 DEF NextRound
<1>2. CASE RoundFails(a)
  <2>1. NotSeen \in [name : Names, obj : Obj \cup {NoObj}]
    <3>1. (CHOOSE n \in Names : TRUE) \in Names
      BY NonEmptyAssumption
    <3>2. QED
      BY <3>1 DEF NotSeen
  <2>2. faults' \in 0..MaxFaults
    BY <1>2, BoundsAssumption DEF RoundFails, Fault, IInv, TypeOK
  <2>3. phase[a] # "off"
    BY <1>2 DEF RoundFails, IInv, Threaded
  <2>4. QED
    <3>1. /\ UNCHANGED <<host, reflector, main, rt, enforced, cancel, messages, gone, missed, failed, known>>
          /\ phase' = [phase EXCEPT ![a] = "round"]
          /\ todo' = [todo EXCEPT ![a] = {}]
          /\ seen' = [seen EXCEPT ![a] = NotSeen]
      BY <1>2 DEF RoundFails
    <3>2. /\ phase' \in [Agents -> {"off", "round", "commit"}] /\ phase'[a] = "round"
          /\ todo' \in [Agents -> SUBSET Names] /\ todo'[a] = {}
          /\ seen' \in [Agents -> [name : Names, obj : Obj \cup {NoObj}]]
          /\ \A b \in Agents \ {a} : phase'[b] = phase[b] /\ todo'[b] = todo[b] /\ seen'[b] = seen[b]
      BY <2>1, <3>1 DEF IInv, TypeOK
    <3>3. QED
      BY <2>2, <2>3, <3>1, <3>2, ThreadStep DEF IInv, TypeOK, Threaded
<1>3. ASSUME NEW n \in Names, Check(a, n) PROVE IInv'
  <2>1. n \in Own(a) /\ phase[a] # "off"
    BY <1>3 DEF Check, IInv, Threaded
  <2>2. cluster[n] \in Obj \cup {NoObj}
    BY DEF IInv, TypeOK
  <2>3. /\ UNCHANGED <<host, reflector, main, rt, enforced, cancel, messages, faults, gone,
                       missed, failed, known>>
        /\ todo' = [todo EXCEPT ![a] = @ \ {n}]
    BY <1>3 DEF Check, history
  <2>4. CASE UNCHANGED <<phase, seen>>
    BY <2>1, <2>3, <2>4, ThreadStep DEF IInv, TypeOK, Threaded
  <2>5. CASE /\ phase' = [phase EXCEPT ![a] = "commit"]
             /\ seen' = [seen EXCEPT ![a] = [name |-> n, obj |-> cluster[n]]]
    <3>1. /\ rt \in [Agents -> {"off", "start", "idle", "apply", "stop"}]
          /\ enforced \in [Agents -> [type : Types, version : Versions]]
          /\ cancel \in [Agents -> BOOLEAN] /\ faults \in 0..MaxFaults
          /\ phase' \in [Agents -> {"off", "round", "commit"}]
          /\ todo' \in [Agents -> SUBSET Names] /\ todo'[a] = todo[a] \ {n}
          /\ seen' \in [Agents -> [name : Names, obj : Obj \cup {NoObj}]]
          /\ phase'[a] = "commit" /\ seen'[a].name = n
          /\ \A b \in Agents \ {a} : phase'[b] = phase[b] /\ todo'[b] = todo[b] /\ seen'[b] = seen[b]
      BY <2>2, <2>3, <2>5 DEF IInv, TypeOK
    <3>2. /\ rt[a] \in {"idle", "apply", "stop"} /\ enforced[a].type = coll[a]
          /\ coll[a] # NoType /\ todo[a] \subseteq Own(a)
      BY <2>1 DEF IInv, Threaded
    <3>3. QED
      BY <2>1, <2>3, <3>1, <3>2, ThreadStep
  <2>6. QED
    BY <1>3, <2>4, <2>5 DEF Check
<1>4. QED
  BY <1>1, <1>2, <1>3

(* The supervisor writes an object, or its commit is refused.              *)
LEMMA CommitStep ==
    ASSUME IInv, NEW a \in Agents, Commit(a)
    PROVE  IInv'
<1>. DEFINE n == seen[a].name
<1>1. /\ UNCHANGED <<config, ident, reflector, main, rt, enforced, cancel, messages, faults,
                     gone, missed, failed, known>>
      /\ phase' = [phase EXCEPT ![a] = "round"]
      /\ seen' = [seen EXCEPT ![a] = NotSeen]
  BY DEF Commit, history
<1>2. NotSeen \in [name : Names, obj : Obj \cup {NoObj}]
  <2>1. (CHOOSE m \in Names : TRUE) \in Names
    BY NonEmptyAssumption
  <2>2. QED
    BY <2>1 DEF NotSeen
<1>3. /\ n \in Own(a) /\ n \in Names
      /\ phase[a] # "off" /\ enforced[a].type = coll[a] /\ coll[a] # NoType
      /\ rt[a] \in {"idle", "apply", "stop"} /\ todo[a] \subseteq Own(a)
  BY DEF Commit, IInv, TypeOK, Threaded
<1>4. CASE cluster' = cluster /\ todo' = [todo EXCEPT ![a] = {}]
  BY <1>1, <1>2, <1>3, <1>4, ThreadStep DEF IInv, TypeOK, host
<1>5. CASE cluster' = [cluster EXCEPT ![n] = Desired(a)] /\ todo' = todo
  <2>1. /\ Desired(a) \in Obj /\ Desired(a).agent = a /\ Desired(a).owner = "sub"
        /\ Desired(a).type = coll[a] /\ Desired(a) # NoObj
    <3>1. enforced[a] \in [type : Types, version : Versions]
      BY DEF IInv, TypeOK
    <3>2. Desired(a) \in Obj /\ Desired(a).agent = a /\ Desired(a).type = coll[a]
      BY <1>3, <3>1 DEF Desired, Obj
    <3>3. QED
      BY <3>2, Objects_Typed
  <2>2. n # a
    BY <1>3, NamesAssumption
  <2>3. Shared'
    BY <1>1, <1>3, <1>5, <2>1, <2>2, AgentWrites
  <2>4. TypeOK'
    <3>1. /\ cluster' \in [Keys -> Obj \cup FleetData \cup {NoObj}]
          /\ \A b \in Agents : cluster'[b] \in FleetData \cup {NoObj}
          /\ \A m \in Names : cluster'[m] \in Obj \cup {NoObj}
      BY <1>3, <1>5, <2>1, ClusterTyped DEF IInv, Keys
    <3>2. /\ phase' \in [Agents -> {"off", "round", "commit"}]
          /\ seen' \in [Agents -> [name : Names, obj : Obj \cup {NoObj}]]
      BY <1>1, <1>2 DEF IInv, TypeOK
    <3>3. QED
      BY <1>1, <1>5, <3>1, <3>2 DEF IInv, TypeOK, reflector, main
  <2>5. Threaded'
    <3>1. \A b \in Agents : Own(b)' = Own(b)
      BY DEF Own
    <3>2. Threaded /\ UNCHANGED coll /\ TypeOK
      BY <1>1 DEF IInv, main
    <3>3. QED
      BY <1>1, <1>3, <1>5, <3>1, <3>2 DEF Threaded, TypeOK
  <2>6. QED
    BY <2>3, <2>4, <2>5 DEF IInv, Shared
<1>6. QED
  BY <1>4, <1>5 DEF Commit

-----------------------------------------------------------------------------
(* The main thread.  Most of its steps leave the threads of the agents and *)
(* the cluster alone.                                                      *)
LEMMA ThreadsAlone ==
    ASSUME IInv, UNCHANGED <<agents, coll>>
    PROVE  Threaded'
<1>1. \A b \in Agents : Own(b)' = Own(b)
  BY DEF Own
<1>2. QED
  BY <1>1 DEF IInv, Threaded, agents

(* The collector works only in its own states.                             *)
LEMMA NoGarbage ==
    ASSUME IInv, ~ Listed
    PROVE  garbage = {}
BY DEF IInv, Sequenced

(* The process boots, or the main thread is done with a configuration.     *)
LEMMA BootStep == ASSUME IInv, Boot PROVE IInv'
<1>. USE DEF Boot, host, reflector, history
<1>1. garbage = {}
  BY NoGarbage DEF Listed
<1>2. TypeOK'
  BY DEF IInv, TypeOK, agents
<1>3. Threaded'
  BY ThreadsAlone
<1>4. WellNamed(cluster)' /\ WellNamed(cache)' /\ BuiltIsNotGone' /\ IdentityStored'
  BY DEF IInv, WellNamed, BuiltIsNotGone, IdentityStored
<1>5. Sequenced' /\ Fresh'
  BY <1>1 DEF IInv, Sequenced, Fresh, Retaining, Collecting
<1>6. GarbageUnwanted' /\ Collected' /\ IdentityCollected'
  BY <1>1 DEF IInv, GarbageUnwanted, Collecting, Collected, IdentityCollected
<1>7. QED
  BY <1>2, <1>3, <1>4, <1>5, <1>6 DEF IInv

(* The end of the application of a configuration.                          *)
LEMMA AppliedStep == ASSUME IInv, Applied PROVE IInv'
<1>. USE DEF Applied, host, reflector, history
<1>1. garbage = {}
  BY NoGarbage DEF Listed
<1>2. TypeOK'
  BY DEF IInv, TypeOK, agents
<1>3. Threaded'
  BY ThreadsAlone
<1>4. WellNamed(cluster)' /\ WellNamed(cache)' /\ BuiltIsNotGone' /\ IdentityStored'
  BY DEF IInv, WellNamed, BuiltIsNotGone, IdentityStored
<1>5. Sequenced' /\ Fresh'
  <2>1. \A a \in Agents : coll[a] = config[a]
    BY DEF Recreated, Removed, Unbuilt
  <2>2. coll = config
    BY <2>1 DEF IInv, TypeOK, Config
  <2>3. QED
    BY <1>1, <2>2 DEF Sequenced, Fresh, Retaining, Collecting
<1>6. GarbageUnwanted' /\ Collected' /\ IdentityCollected'
  BY <1>1 DEF IInv, GarbageUnwanted, Collecting, Collected, IdentityCollected
<1>7. QED
  BY <1>2, <1>3, <1>4, <1>5, <1>6 DEF IInv

(* A configuration of Agent Control arrives: what it removes was built.    *)
LEMMA RemoteConfigStep ==
    ASSUME IInv, NEW c \in Configs, RemoteConfig(c)
    PROVE  IInv'
<1>. USE DEF RemoteConfig, reflector
<1>1. garbage = {} /\ coll = config
  BY NoGarbage DEF Listed, IInv, Sequenced
<1>2. c \in Config
  BY ConfigsAssumption
<1>3. TypeOK'
  <2>1. messages' \in 0..MaxMessages
    BY BoundsAssumption DEF IInv, TypeOK
  <2>2. known' \in [Agents -> (Types \X Idents) \cup {NoType}]
    BY DEF IInv, TypeOK
  <2>3. QED
    BY <1>2, <2>1, <2>2 DEF IInv, TypeOK, agents
<1>4. Threaded'
  BY ThreadsAlone
<1>5. WellNamed(cluster)' /\ WellNamed(cache)' /\ BuiltIsNotGone'
  BY DEF IInv, WellNamed, BuiltIsNotGone
<1>6. Sequenced' /\ Fresh' /\ GarbageUnwanted'
  BY <1>1 DEF Sequenced, Fresh, Retaining, Collecting, GarbageUnwanted
<1>7. Collected'
  BY DEF IInv, Collected
<1>8. IdentityCollected'
  BY <1>1 DEF IInv, IdentityCollected
<1>9. IdentityStored'
  BY <1>1 DEF IInv, TypeOK, IdentityStored
<1>10. QED
  BY <1>3, <1>4, <1>5, <1>6, <1>7, <1>8, <1>9 DEF IInv

(* An agent is to be stopped.                                              *)
LEMMA StopAgentStep ==
    ASSUME IInv, NEW a \in Agents, StopAgent(a)
    PROVE  IInv'
<1>. USE DEF StopAgent, host, reflector, history
<1>1. garbage = {}
  BY NoGarbage DEF Listed
<1>2. TypeOK'
  <2>1. coll[a] \in Types
    BY DEF Recreated, Removed, IInv, TypeOK, Config
  <2>2. subject' \in Agents \X Types
    BY <2>1
  <2>3. QED
    BY <2>2 DEF IInv, TypeOK, agents
<1>3. Threaded'
  BY ThreadsAlone
<1>4. WellNamed(cluster)' /\ WellNamed(cache)' /\ BuiltIsNotGone' /\ IdentityStored'
  BY DEF IInv, WellNamed, BuiltIsNotGone, IdentityStored
<1>5. Sequenced' /\ Fresh'
  BY <1>1 DEF Sequenced, Fresh, Retaining, Collecting
<1>6. GarbageUnwanted' /\ Collected' /\ IdentityCollected'
  BY <1>1 DEF IInv, GarbageUnwanted, Collecting, Collected, IdentityCollected
<1>7. QED
  BY <1>2, <1>3, <1>4, <1>5, <1>6 DEF IInv

(* The threads of an agent have ended: it leaves the collection.           *)
LEMMA StoppedStep == ASSUME IInv, Stopped PROVE IInv'
<1>. USE DEF Stopped, host, reflector, history
<1>. DEFINE s == subject[1]
<1>1. garbage = {}
  BY NoGarbage DEF Listed
<1>2. s \in Agents /\ coll' = [coll EXCEPT ![s] = NoType] /\ rt[s] = "off"
  BY DEF IInv, TypeOK
<1>3. /\ coll'[s] = NoType
      /\ \A b \in Agents \ {s} : coll'[b] = coll[b]
  BY <1>2 DEF IInv, TypeOK, Config
<1>4. TypeOK'
  <2>1. NoSubject \in Agents \X Types
    <3>1. \E a \in Agents, t \in Types : <<a, t>> \in Agents \X Types
      BY NonEmptyAssumption
    <3>2. QED
      BY <3>1, Zenon DEF NoSubject
  <2>2. coll' \in Config
    BY <1>2 DEF IInv, TypeOK, Config
  <2>3. QED
    BY <2>1, <2>2 DEF IInv, TypeOK, agents
<1>5. Threaded'
  <2>1. \A b \in Agents : Own(b)' = Own(b)
    BY DEF Own
  <2>2. UNCHANGED agents /\ Threaded
    BY DEF IInv
  <2>3. QED
    BY <1>2, <1>3, <2>1, <2>2 DEF Threaded, agents
<1>6. WellNamed(cluster)' /\ WellNamed(cache)'
  BY DEF IInv, WellNamed
<1>7. BuiltIsNotGone' /\ IdentityStored'
  BY <1>3 DEF IInv, BuiltIsNotGone, IdentityStored
<1>8. Sequenced' /\ Fresh'
  BY <1>1, <1>3 DEF Sequenced, Fresh, Retaining, Collecting
<1>9. GarbageUnwanted' /\ Collected'
  BY <1>1 DEF IInv, GarbageUnwanted, Collecting, Collected
<1>10. IdentityCollected'
  BY <1>3 DEF IInv, IdentityCollected
<1>11. QED
  BY <1>4, <1>5, <1>6, <1>7, <1>8, <1>9, <1>10 DEF IInv

(* An identity is written into the ConfigMap of the agent, which becomes   *)
(* Agent Control's.                                                        *)
LEMMA SetIdentityWrites ==
    ASSUME IInv, NEW a \in Agents, SetIdentity(a)
    PROVE  \E o \in FleetData :
             /\ cluster' = [cluster EXCEPT ![a] = o]
             /\ o.agent = a /\ o.owner = "ac" /\ o.ident = ident
<1>1. ident \in Idents /\ a \in Keys /\ cluster \in [Keys -> Obj \cup FleetData \cup {NoObj}]
  BY DEF IInv, TypeOK, Keys
<1>2. CASE cluster[a] = NoObj
  <2>. DEFINE o == [agent |-> a, owner |-> "ac", type |-> NoType, ident |-> ident,
                    remote |-> NoVersion]
  <2>1. o \in FleetData /\ o.agent = a /\ o.owner = "ac" /\ o.ident = ident
    BY <1>1 DEF FleetData
  <2>2. cluster' = [cluster EXCEPT ![a] = o]
    BY <1>1, <1>2 DEF SetIdentity
  <2>3. QED
    BY <2>1, <2>2
<1>3. CASE cluster[a] # NoObj
  <2>. DEFINE o == [cluster[a] EXCEPT !.owner = "ac", !.ident = ident]
  <2>1. cluster[a] \in FleetData /\ cluster[a].agent = a
    BY <1>3, FleetDataOwn
  <2>2. o \in FleetData /\ o.agent = a /\ o.owner = "ac" /\ o.ident = ident
    BY <1>1, <2>1 DEF FleetData
  <2>3. cluster' = [cluster EXCEPT ![a] = o]
    BY <1>1, <1>3 DEF SetIdentity
  <2>4. QED
    BY <2>2, <2>3
<1>4. QED
  BY <1>2, <1>3

(* An agent is built: it is not gone any more.                             *)
LEMMA BuildStep ==
    ASSUME IInv, NEW a \in Agents, Build(a)
    PROVE  IInv'
<1>1. /\ pc = "apply" /\ config[a] # NoType /\ coll[a] = NoType
      /\ coll' = [coll EXCEPT ![a] = config[a]]
      /\ rt' = [rt EXCEPT ![a] = "start"]
      /\ gone' = gone \ {<<a, config[a]>>}
      /\ missed' = {p \in missed : p[2] # <<a, config[a]>>}
      /\ UNCHANGED <<config, ident, cache, watching, pc, subject, garbage, enforced, phase,
                     todo, seen, cancel, messages, faults, failed>>
  BY DEF Build, reflector
<1>2. garbage = {}
  BY <1>1, NoGarbage DEF Listed
<1>3. /\ config[a] \in Types
      /\ coll'[a] = config[a] /\ \A b \in Agents \ {a} : coll'[b] = coll[b]
      /\ rt'[a] = "start" /\ \A b \in Agents \ {a} : rt'[b] = rt[b]
  BY <1>1 DEF IInv, TypeOK, Config
<1>4. \/ /\ UNCHANGED <<cluster, known>>
      \/ \E o \in FleetData :
             /\ cluster' = [cluster EXCEPT ![a] = o]
             /\ o.agent = a /\ o.owner = "ac" /\ o.ident = ident
             /\ known' = [known EXCEPT ![a] = <<config[a], ident>>]
  BY SetIdentityWrites DEF Build
<1>5. /\ cluster' \in [Keys -> Obj \cup FleetData \cup {NoObj}]
      /\ \A b \in Agents : cluster'[b] \in FleetData \cup {NoObj}
      /\ \A m \in Names : cluster'[m] \in Obj \cup {NoObj}
      /\ known' \in [Agents -> (Types \X Idents) \cup {NoType}]
  <2>1. CASE UNCHANGED <<cluster, known>>
    BY <2>1 DEF IInv, TypeOK
  <2>2. CASE \E o \in FleetData : /\ cluster' = [cluster EXCEPT ![a] = o]
                                  /\ known' = [known EXCEPT ![a] = <<config[a], ident>>]
    <3>1. PICK o \in FleetData : cluster' = [cluster EXCEPT ![a] = o]
      BY <2>2
    <3>2. known' \in [Agents -> (Types \X Idents) \cup {NoType}]
      BY <1>3, <2>2 DEF IInv, TypeOK
    <3>3. QED
      BY <3>1, <3>2, ClusterTyped DEF IInv, Keys
  <2>3. QED
    BY <1>4, <2>1, <2>2
<1>6. /\ \A k \in Keys \ {a} : cluster'[k] = cluster[k]
      /\ \/ cluster'[a] = cluster[a] /\ known'[a] = known[a]
         \/ /\ cluster'[a] # NoObj /\ cluster'[a].owner = "ac" /\ cluster'[a].agent = a
            /\ cluster'[a].ident = ident /\ known'[a] = <<config[a], ident>>
      /\ \A b \in Agents \ {a} : known'[b] = known[b] /\ cluster'[b] = cluster[b]
  BY <1>4, Objects_Typed DEF IInv, TypeOK, Keys
<1>7. TypeOK'
  <2>1. coll' \in Config
    BY <1>1, <1>3 DEF IInv, TypeOK, Config
  <2>2. rt' \in [Agents -> {"off", "start", "idle", "apply", "stop"}]
    BY <1>1 DEF IInv, TypeOK
  <2>3. gone' \subseteq Agents \X Types /\ missed' \subseteq Keys \X (Agents \X Types)
    BY <1>1 DEF IInv, TypeOK
  <2>4. QED
    BY <1>1, <1>5, <2>1, <2>2, <2>3 DEF IInv, TypeOK
<1>8. Threaded'
  <2>1. \A b \in Agents : Own(b)' = Own(b)
    BY DEF Own
  <2>2. rt[a] = "off" /\ phase[a] = "off"
    BY <1>1 DEF IInv, Threaded
  <2>3. QED
    BY <1>1, <1>3, <2>1, <2>2 DEF IInv, Threaded
<1>9. WellNamed(cluster)' /\ WellNamed(cache)'
  BY <1>1, <1>6, OwnNames DEF IInv, WellNamed
<1>10. Sequenced' /\ Fresh' /\ GarbageUnwanted'
  BY <1>1, <1>2 DEF Sequenced, Fresh, Retaining, Collecting, GarbageUnwanted
<1>11. Collected'
  <2>1. ASSUME NEW k \in Keys, cluster'[k] # NoObj, cluster'[k].owner = "sub",
               cluster'[k].type # NoType, <<cluster'[k].agent, cluster'[k].type>> \in gone'
        PROVE  <<k, <<cluster'[k].agent, cluster'[k].type>>>> \in missed'
    <3>. DEFINE o == cluster[k]
    <3>1. cluster'[k] = o
      BY <1>6, <2>1
    <3>2. <<k, <<o.agent, o.type>>>> \in missed
      BY <1>1, <2>1, <3>1 DEF IInv, Collected
    <3>3. <<o.agent, o.type>> # <<a, config[a]>>
      BY <1>1, <2>1, <3>1
    <3>4. QED
      BY <1>1, <3>1, <3>2, <3>3
  <2>2. QED
    BY <1>1, <2>1 DEF Collected
<1>12. BuiltIsNotGone'
  BY <1>1, <1>3 DEF IInv, BuiltIsNotGone
<1>13. IdentityCollected'
  BY <1>1, <1>3, <1>6 DEF IInv, IdentityCollected
<1>14. IdentityStored'
  BY <1>1, <1>3, <1>6 DEF IInv, IdentityStored
<1>15. QED
  BY <1>7, <1>8, <1>9, <1>10, <1>11, <1>12, <1>13, <1>14 DEF IInv

-----------------------------------------------------------------------------
(* The garbage collector lists the ConfigMaps.                             *)
LEMMA GcConfigMapsStep == ASSUME IInv, GcConfigMaps PROVE IInv'
<1>. USE DEF GcConfigMaps, host, reflector, history
<1>1. garbage' = ConfigMapsToDelete /\ garbage' \subseteq Agents
  BY DEF ConfigMapsToDelete
<1>2. \/ pc = "retainData" /\ pc' = "retainObjects" /\ Retaining
      \/ pc = "collectData" /\ pc' = "collectObjects" /\ ~ Retaining /\ Collecting
  BY DEF Retaining, Collecting
<1>3. \A b \in garbage' : cluster[b] # NoObj /\ cluster[b].agent = b /\ config[b] = NoType
  <2>1. TAKE b \in garbage'
  <2>2. cluster[b] # NoObj /\ b \in Agents
    BY <1>1 DEF ConfigMapsToDelete
  <2>3. config[b] = NoType
    BY <1>1, <1>2 DEF ConfigMapsToDelete, IInv, Sequenced
  <2>4. QED
    BY <2>2, <2>3, FleetDataOwn
<1>4. TypeOK'
  BY <1>1, <1>2 DEF IInv, TypeOK, agents, Keys
<1>5. Threaded'
  BY ThreadsAlone
<1>6. WellNamed(cluster)' /\ WellNamed(cache)' /\ BuiltIsNotGone' /\ IdentityStored'
  BY DEF IInv, WellNamed, BuiltIsNotGone, IdentityStored
<1>7. Sequenced' /\ Fresh'
  BY <1>2 DEF IInv, Sequenced, Fresh, Retaining, Collecting, Listed
<1>8. GarbageUnwanted'
  <2>1. \A k \in garbage' : Unwanted(cluster[k])'
    BY <1>3 DEF Unwanted
  <2>2. ASSUME Collecting' PROVE garbage' \subseteq Own(subject[1])
    <3>1. garbage' \subseteq {subject[1]} /\ subject[1] \in Agents
      BY <1>1, <1>2, <2>2 DEF ConfigMapsToDelete, Collecting, IInv, TypeOK
    <3>2. QED
      BY <3>1, OwnNames
  <2>3. Own(subject[1])' = Own(subject[1])
    BY DEF Own
  <2>4. QED
    BY <1>1, <2>1, <2>2, <2>3 DEF GarbageUnwanted
<1>9. Collected'
  BY <1>2 DEF IInv, Collected
<1>10. IdentityCollected'
  <2>1. \A b \in Agents : cluster[b] # NoObj => cluster[b].owner \in {"ac", "sub"}
    BY Objects_Typed DEF IInv, TypeOK
  <2>2. QED
    BY <1>1, <1>2, <2>1 DEF IInv, IdentityCollected, ConfigMapsToDelete
<1>11. QED
  BY <1>4, <1>5, <1>6, <1>7, <1>8, <1>9, <1>10 DEF IInv

(* It deletes one of the names it has listed.                              *)
LEMMA GcDeleteStep ==
    ASSUME IInv, NEW k \in Keys, GcDelete(k)
    PROVE  IInv'
<1>. USE DEF GcDelete, reflector, history
<1>1. /\ k \in garbage /\ cluster'[k] = NoObj
      /\ \A j \in Keys \ {k} : cluster'[j] = cluster[j]
      /\ garbage' = garbage \ {k}
  BY DEF IInv, TypeOK
<1>2. cluster' \in [Keys -> Obj \cup FleetData \cup {NoObj}]
      /\ (\A b \in Agents : cluster'[b] \in FleetData \cup {NoObj})
      /\ (\A m \in Names : cluster'[m] \in Obj \cup {NoObj})
  BY ClusterTyped DEF IInv, Keys
<1>3. TypeOK'
  BY <1>2 DEF IInv, TypeOK, agents
<1>4. Threaded'
  BY ThreadsAlone
<1>5. WellNamed(cluster)' /\ WellNamed(cache)' /\ BuiltIsNotGone'
  BY <1>1 DEF IInv, WellNamed, BuiltIsNotGone
<1>6. Sequenced' /\ Fresh'
  BY <1>1 DEF IInv, Sequenced, Fresh, Retaining, Collecting, Listed
<1>7. GarbageUnwanted'
  <2>1. garbage' \subseteq Keys
    BY DEF IInv, TypeOK
  <2>2. \A j \in garbage' : cluster'[j] = cluster[j]
    BY <1>1, <2>1
  <2>3. subject[1] \in Agents
    BY DEF IInv, TypeOK
  <2>4. QED
    BY <1>1, <2>1, <2>2, <2>3, NamesConstant DEF IInv, TypeOK, GarbageUnwanted, Unwanted, Collecting
<1>8. Collected'
  BY <1>1 DEF IInv, Collected
<1>9. IdentityCollected'
  BY <1>1 DEF IInv, IdentityCollected, Keys
<1>10. IdentityStored'
  <2>1. ASSUME NEW b \in Agents, known[b] # NoType PROVE b # k
    <3>1. SUFFICES ASSUME b = k PROVE FALSE
      OBVIOUS
    <3>2. Unwanted(cluster[b]) /\ cluster[b].agent = b
      BY <1>1, <2>1, <3>1, FleetDataOwn, FleetDataNotContested DEF IInv, IdentityStored, GarbageUnwanted
    <3>3. QED
      BY <2>1, <3>2 DEF IInv, IdentityStored, Unwanted
  <2>2. QED
    BY <1>1, <2>1 DEF IInv, IdentityStored, Keys
<1>11. QED
  BY <1>3, <1>4, <1>5, <1>6, <1>7, <1>8, <1>9, <1>10 DEF IInv

(* An object that is to be deleted, with its agent and type.               *)
LEMMA LeftUnderHas ==
    ASSUME IInv, NEW S \in SUBSET Keys, NEW k \in S, cluster[k] # NoObj,
           cluster[k].type # NoType
    PROVE  <<k, <<cluster[k].agent, cluster[k].type>>>> \in LeftUnder(S)
<1>1. cluster[k].agent \in Agents /\ cluster[k].type \in Types
  BY Objects_Typed DEF IInv, TypeOK
<1>2. QED
  BY <1>1 DEF LeftUnder

(* What listing the other objects has to establish: the names it found are *)
(* right, and those it missed are recorded.                                *)
LEMMA ListingStep ==
    ASSUME IInv, pc \in {"retainObjects", "collectObjects"}, garbage = {},
           pc' = IF Retaining THEN "retainLast" ELSE "collectLast",
           garbage' \subseteq Keys,
           missed \subseteq missed', missed' \subseteq Keys \X (Agents \X Types),
           UNCHANGED <<host, reflector, coll, subject, agents, messages, faults, gone,
                       failed, known>>,
           Retaining => \A k \in garbage' : cluster[k] # NoObj => Unwanted(cluster[k]),
           ~ Retaining => garbage' \subseteq Own(subject[1]),
           \A k \in Keys : ShouldDelete(cluster[k]) /\ cluster[k].type # NoType =>
               k \in garbage' \/ <<k, <<cluster[k].agent, cluster[k].type>>>> \in missed'
    PROVE  IInv'
<1>. USE DEF host, reflector
<1>1. \/ pc = "retainObjects" /\ pc' = "retainLast" /\ Retaining /\ ~ Collecting'
      \/ pc = "collectObjects" /\ pc' = "collectLast" /\ ~ Retaining /\ Collecting
  BY DEF Retaining, Collecting
<1>2. subject \in Agents \X Types /\ subject[1] \in Agents
  BY DEF IInv, TypeOK
<1>3. TypeOK'
  BY <1>1 DEF IInv, TypeOK, agents
<1>4. Threaded'
  BY ThreadsAlone
<1>5. WellNamed(cluster)' /\ WellNamed(cache)' /\ BuiltIsNotGone' /\ IdentityStored'
  BY DEF IInv, WellNamed, BuiltIsNotGone, IdentityStored
<1>6. Sequenced' /\ Fresh'
  BY <1>1 DEF IInv, Sequenced, Fresh, Retaining, Collecting, Listed
<1>7. IdentityCollected'
  BY <1>1 DEF IInv, IdentityCollected
<1>8. GarbageUnwanted'
  <2>1. CASE Retaining
    BY <1>1, <2>1 DEF GarbageUnwanted, Unwanted
  <2>2. CASE ~ Retaining
    <3>1. config[subject[1]] = NoType /\ pc' = "collectLast"
      BY <1>1, <2>2 DEF IInv, Sequenced
    <3>2. ASSUME NEW k \in garbage', cluster[k] # NoObj, ~ Contested(k)
          PROVE  Unwanted(cluster[k])
      <4>1. cluster[k].agent \in Agents /\ k \in Own(cluster[k].agent)
        BY <3>2, Objects_Typed DEF IInv, TypeOK, WellNamed
      <4>2. cluster[k].agent = subject[1]
        BY <1>2, <2>2, <3>2, <4>1 DEF Contested
      <4>3. QED
        BY <3>1, <4>2 DEF Unwanted
    <3>3. QED
      BY <1>2, <2>2, <3>1, <3>2, NamesConstant DEF GarbageUnwanted, Unwanted
  <2>3. QED
    BY <2>1, <2>2
<1>9. Collected'
  <2>1. ASSUME NEW k \in Keys, cluster[k] # NoObj, cluster[k].owner = "sub",
               cluster[k].type # NoType,
               \/ Retaining /\ config[cluster[k].agent] # cluster[k].type
               \/ ~ Retaining /\ <<cluster[k].agent, cluster[k].type>> = subject
        PROVE  ShouldDelete(cluster[k])
    BY <2>1 DEF ShouldDelete, ShouldDeleteAgent
  <2>2. QED
    BY <1>1, <2>1 DEF IInv, Collected
<1>10. QED
  BY <1>3, <1>4, <1>5, <1>6, <1>7, <1>8, <1>9 DEF IInv

(* It lists the other objects in the cache.                                *)
LEMMA GcObjectsStep == ASSUME IInv, GcObjects PROVE IInv'
<1>1. /\ UNCHANGED <<host, reflector, coll, subject, agents, messages, faults, gone,
                     failed, known>>
      /\ watching /\ garbage = {} /\ pc \in {"retainObjects", "collectObjects"}
      /\ pc' = IF Retaining THEN "retainLast" ELSE "collectLast"
      /\ garbage' = {k \in Keys : ShouldDelete(cache[k])}
      /\ missed' = IF Retaining THEN missed ELSE missed \cup LeftUnder(ToDelete \ garbage')
  BY DEF GcObjects
<1>2. \A k \in Keys : cache[k] # NoObj => cache[k].agent \in Agents /\ k \in Own(cache[k].agent)
  BY Objects_Typed DEF IInv, TypeOK, WellNamed
<1>3. garbage' \subseteq Keys /\ missed \subseteq missed'
      /\ missed' \subseteq Keys \X (Agents \X Types)
  <2>1. LeftUnder(ToDelete \ garbage') \subseteq Keys \X (Agents \X Types)
    BY DEF LeftUnder, ToDelete
  <2>2. QED
    BY <1>1, <2>1 DEF IInv, TypeOK
<1>4. CASE Retaining
  <2>1. \A k \in Keys : cluster[k] # NoObj =>
            /\ cache[k] # NoObj
            /\ cache[k].owner = cluster[k].owner
            /\ cache[k].agent = cluster[k].agent
            /\ cache[k].type = cluster[k].type
    BY <1>1, <1>4 DEF IInv, Fresh
  <2>2. \A k \in garbage' : cluster[k] # NoObj => Unwanted(cluster[k])
    BY <1>1, <1>4, <2>1 DEF ShouldDelete, ShouldDeleteAgent, Unwanted
  <2>3. \A k \in Keys : ShouldDelete(cluster[k]) => k \in garbage'
    BY <1>1, <2>1 DEF ShouldDelete
  <2>4. QED
    BY <1>1, <1>3, <1>4, <2>2, <2>3, ListingStep
<1>5. CASE ~ Retaining
  <2>1. garbage' \subseteq Own(subject[1])
    <3>1. subject = <<subject[1], subject[2]>>
      BY DEF IInv, TypeOK
    <3>2. QED
      BY <1>1, <1>2, <1>5, <3>1 DEF ShouldDelete, ShouldDeleteAgent
  <2>2. ASSUME NEW k \in Keys, ShouldDelete(cluster[k]), cluster[k].type # NoType,
               k \notin garbage'
        PROVE  <<k, <<cluster[k].agent, cluster[k].type>>>> \in missed'
    <3>1. k \in ToDelete \ garbage' /\ cluster[k] # NoObj
      BY <2>2 DEF ToDelete, ShouldDelete
    <3>2. ToDelete \ garbage' \in SUBSET Keys
      BY DEF ToDelete
    <3>3. QED
      BY <1>1, <1>5, <2>2, <3>1, <3>2, LeftUnderHas
  <2>3. QED
    BY <1>1, <1>3, <1>5, <2>1, <2>2, ListingStep
<1>6. QED
  BY <1>4, <1>5

(* It skips the objects of kinds it takes for missing.                     *)
LEMMA GcSkipsStep == ASSUME IInv, GcSkips PROVE IInv'
<1>1. /\ UNCHANGED <<host, reflector, coll, subject, agents, messages, faults, gone,
                     failed, known>>
      /\ garbage = {} /\ pc \in {"retainObjects", "collectObjects"}
      /\ pc' = IF Retaining THEN "retainLast" ELSE "collectLast"
  BY DEF GcSkips
<1>2. PICK skipped \in SUBSET ToDelete :
          garbage' = ToDelete \ skipped /\ missed' = missed \cup LeftUnder(skipped)
  BY DEF GcSkips
<1>3. garbage' \subseteq Keys /\ missed \subseteq missed' /\ skipped \in SUBSET Keys
      /\ missed' \subseteq Keys \X (Agents \X Types)
  <2>1. skipped \in SUBSET Keys
    BY DEF ToDelete
  <2>2. LeftUnder(skipped) \subseteq Keys \X (Agents \X Types)
    BY <2>1 DEF LeftUnder
  <2>3. QED
    BY <1>2, <2>1, <2>2 DEF IInv, TypeOK, ToDelete
<1>4. Retaining => \A k \in garbage' : cluster[k] # NoObj => Unwanted(cluster[k])
  BY <1>2 DEF ToDelete, ShouldDelete, ShouldDeleteAgent, Unwanted
<1>5. ~ Retaining => garbage' \subseteq Own(subject[1])
  <2>1. subject = <<subject[1], subject[2]>>
    BY DEF IInv, TypeOK
  <2>2. \A k \in Keys : cluster[k] # NoObj => k \in Own(cluster[k].agent)
    BY DEF IInv, WellNamed
  <2>3. QED
    BY <1>2, <2>1, <2>2 DEF ToDelete, ShouldDelete, ShouldDeleteAgent
<1>6. ASSUME NEW k \in Keys, ShouldDelete(cluster[k]), cluster[k].type # NoType,
             k \notin garbage'
      PROVE  <<k, <<cluster[k].agent, cluster[k].type>>>> \in missed'
  <2>1. k \in skipped /\ cluster[k] # NoObj
    BY <1>2, <1>6 DEF ToDelete, ShouldDelete
  <2>2. QED
    BY <1>2, <1>3, <1>6, <2>1, LeftUnderHas
<1>7. QED
  BY <1>1, <1>3, <1>4, <1>5, <1>6, ListingStep

(* `retain` is done: whatever is not configured is gone.                   *)
LEMMA RetainDoneStep == ASSUME IInv, RetainDone PROVE IInv'
<1>. USE DEF RetainDone, host, reflector
<1>1. /\ pc = "retainLast" /\ garbage = {} /\ \A a \in Agents : coll[a] = NoType
      /\ gone' = {p \in Agents \X Types : config[p[1]] # p[2]}
      /\ UNCHANGED missed
  BY DEF IInv, Sequenced, Retaining
<1>2. TypeOK'
  BY <1>1 DEF IInv, TypeOK, agents
<1>3. Threaded'
  BY ThreadsAlone
<1>4. WellNamed(cluster)' /\ WellNamed(cache)' /\ BuiltIsNotGone' /\ IdentityStored'
  BY <1>1 DEF IInv, WellNamed, BuiltIsNotGone, IdentityStored
<1>5. Sequenced' /\ Fresh' /\ GarbageUnwanted'
  BY <1>1 DEF Sequenced, Fresh, Retaining, Collecting, GarbageUnwanted
<1>6. Collected'
  BY <1>1 DEF IInv, Collected
<1>7. IdentityCollected'
  BY <1>1 DEF IInv, IdentityCollected
<1>8. QED
  BY <1>2, <1>3, <1>4, <1>5, <1>6, <1>7 DEF IInv

(* `collect` is done: the removed agent is gone with its type.             *)
LEMMA CollectDoneStep == ASSUME IInv, CollectDone PROVE IInv'
<1>. USE DEF CollectDone, host, reflector
<1>1. /\ pc = "collectLast" /\ garbage = {} /\ coll[subject[1]] = NoType
      /\ subject \in Agents \X Types
  BY DEF IInv, Sequenced, Collecting, TypeOK
<1>2. TypeOK'
  <2>1. NoSubject \in Agents \X Types
    <3>1. \E a \in Agents, t \in Types : <<a, t>> \in Agents \X Types
      BY NonEmptyAssumption
    <3>2. QED
      BY <3>1, Zenon DEF NoSubject
  <2>2. gone' \subseteq Agents \X Types
    BY <1>1 DEF IInv, TypeOK
  <2>3. QED
    BY <2>1, <2>2 DEF IInv, TypeOK, agents
<1>3. Threaded'
  BY ThreadsAlone
<1>4. WellNamed(cluster)' /\ WellNamed(cache)' /\ IdentityStored'
  BY DEF IInv, WellNamed, IdentityStored
<1>5. BuiltIsNotGone'
  BY <1>1 DEF IInv, BuiltIsNotGone
<1>6. Sequenced' /\ Fresh' /\ GarbageUnwanted'
  BY <1>1 DEF Sequenced, Fresh, Retaining, Collecting, GarbageUnwanted
<1>7. Collected'
  BY <1>1 DEF IInv, Collected
<1>8. IdentityCollected'
  BY <1>1 DEF IInv, IdentityCollected
<1>9. QED
  BY <1>2, <1>3, <1>4, <1>5, <1>6, <1>7, <1>8 DEF IInv

-----------------------------------------------------------------------------
(* The watch delivers a change, is built anew, or ends.                    *)
LEMMA WatchStep ==
    ASSUME IInv, Reconnect \/ WatchFails \/ \E k \in Keys : Sync(k)
    PROVE  IInv'
<1>1. /\ UNCHANGED <<cluster, config, ident, pc, coll, subject, garbage, agents, messages,
                     gone, missed, failed, known>>
  BY DEF Reconnect, WatchFails, Sync, host, main, history
<1>2. /\ cache' \in [Keys -> Obj \cup FleetData \cup {NoObj}] /\ watching' \in BOOLEAN
      /\ \A k \in Keys : cache'[k] \in {cache[k], cluster[k]}
  <2>1. /\ cluster \in [Keys -> Obj \cup FleetData \cup {NoObj}]
        /\ cache \in [Keys -> Obj \cup FleetData \cup {NoObj}] /\ watching \in BOOLEAN
    BY DEF IInv, TypeOK
  <2>2. QED
    BY <2>1 DEF Reconnect, WatchFails, Sync
<1>3. faults' \in 0..MaxFaults
  BY BoundsAssumption DEF Reconnect, WatchFails, Fault, Sync, history, IInv, TypeOK
<1>4. TypeOK'
  BY <1>1, <1>2, <1>3 DEF IInv, TypeOK, agents
<1>5. Threaded'
  BY <1>1, ThreadsAlone
<1>6. WellNamed(cluster)' /\ WellNamed(cache)'
  BY <1>1, <1>2 DEF IInv, WellNamed
<1>7. Sequenced'
  <2>1. pc \in {"down", "retainData"} => ~ watching'
    <3>1. CASE Reconnect
      <4>1. pc \in {"down", "retainData"} => \A a \in Agents : phase[a] = "off"
        BY DEF IInv, Sequenced, Retaining, Threaded
      <4>2. QED
        BY <3>1, <4>1 DEF Reconnect
    <3>2. CASE ~ Reconnect
      BY <3>2 DEF IInv, Sequenced, WatchFails, Sync
    <3>3. QED
      BY <3>1, <3>2
  <2>2. QED
    BY <1>1, <2>1 DEF IInv, Sequenced, Retaining, Collecting, Listed
<1>8. Fresh'
  <2>1. CASE Reconnect
    BY <1>1, <2>1 DEF Reconnect, Fresh, Retaining
  <2>2. CASE WatchFails
    BY <2>2 DEF WatchFails, Fresh
  <2>3. CASE \E k \in Keys : Sync(k)
    BY <1>1, <1>2, <2>3 DEF Sync, IInv, Fresh, Retaining
  <2>4. QED
    BY <2>1, <2>2, <2>3
<1>9. GarbageUnwanted'
  <2>1. Own(subject[1])' = Own(subject[1])
    BY <1>1 DEF Own
  <2>2. QED
    BY <1>1, <2>1 DEF IInv, GarbageUnwanted, Unwanted, Collecting
<1>10. Collected' /\ BuiltIsNotGone' /\ IdentityCollected' /\ IdentityStored'
  BY <1>1 DEF IInv, Collected, BuiltIsNotGone, IdentityCollected, IdentityStored
<1>11. QED
  BY <1>4, <1>5, <1>6, <1>7, <1>8, <1>9, <1>10 DEF IInv

(* Someone else edits the content of an object or deletes it.              *)
LEMMA TamperStep ==
    ASSUME IInv, NEW n \in Names, Tamper(n)
    PROVE  IInv'
<1>1. /\ UNCHANGED <<config, ident, cache, watching, pc, coll, subject, garbage, agents, messages,
                     gone, missed, failed, known>>
      /\ cluster[n] # NoObj
  BY DEF Tamper, reflector, main
<1>2. PICK o \in {NoObj} \cup {[cluster[n] EXCEPT !.body = v] : v \in Versions} :
           cluster' = [cluster EXCEPT ![n] = o]
  BY DEF Tamper
<1>3. cluster[n] \in Obj
  BY <1>1 DEF IInv, TypeOK
<1>4. \/ o = NoObj
      \/ /\ o \in Obj /\ o.agent = cluster[n].agent /\ o.owner = cluster[n].owner
         /\ o.type = cluster[n].type
  BY <1>2, <1>3 DEF Obj
<1>5. /\ n \in Keys /\ cluster'[n] = o
      /\ \A j \in Keys \ {n} : cluster'[j] = cluster[j]
      /\ \A a \in Agents : cluster'[a] = cluster[a]
  BY <1>2, NamesAssumption DEF IInv, TypeOK, Keys
<1>6. TypeOK'
  <2>1. faults' \in 0..MaxFaults
    BY BoundsAssumption DEF Tamper, Fault, IInv, TypeOK
  <2>2. /\ cluster' \in [Keys -> Obj \cup FleetData \cup {NoObj}]
        /\ \A b \in Agents : cluster'[b] \in FleetData \cup {NoObj}
        /\ \A m \in Names : cluster'[m] \in Obj \cup {NoObj}
    BY <1>2, <1>4, <1>5, ClusterTyped DEF IInv
  <2>3. QED
    BY <1>1, <2>1, <2>2 DEF IInv, TypeOK, agents
<1>7. Threaded'
  BY <1>1, ThreadsAlone
<1>8. \A j \in Keys : cluster'[j] # NoObj =>
          /\ cluster[j] # NoObj /\ cluster'[j].agent = cluster[j].agent
          /\ cluster'[j].owner = cluster[j].owner /\ cluster'[j].type = cluster[j].type
  BY <1>1, <1>4, <1>5
<1>9. WellNamed(cluster)' /\ WellNamed(cache)'
  BY <1>1, <1>8 DEF IInv, WellNamed
<1>10. Sequenced' /\ Fresh'
  BY <1>1, <1>8 DEF IInv, Sequenced, Fresh, Retaining, Collecting, Listed
<1>11. GarbageUnwanted'
  <2>1. Own(subject[1])' = Own(subject[1])
    BY <1>1 DEF Own
  <2>2. garbage \subseteq Keys
    BY DEF IInv, TypeOK
  <2>3. QED
    BY <1>1, <1>8, <2>1, <2>2 DEF IInv, GarbageUnwanted, Unwanted, Collecting
<1>12. Collected'
  BY <1>1, <1>8 DEF IInv, Collected
<1>13. BuiltIsNotGone' /\ IdentityCollected' /\ IdentityStored'
  BY <1>1, <1>5 DEF IInv, BuiltIsNotGone, IdentityCollected, IdentityStored
<1>14. QED
  BY <1>6, <1>7, <1>9, <1>10, <1>11, <1>12, <1>13 DEF IInv

(* A collection fails: its agent is remembered.                            *)
LEMMA CollectFailsStep == ASSUME IInv, CollectFails PROVE IInv'
<1>. USE DEF CollectFails, host, reflector
<1>1. Collecting /\ subject \in Agents \X Types /\ pc' = "apply" /\ garbage' = {}
  BY DEF Collecting, IInv, TypeOK
<1>2. TypeOK'
  <2>1. NoSubject \in Agents \X Types
    <3>1. \E a \in Agents, t \in Types : <<a, t>> \in Agents \X Types
      BY NonEmptyAssumption
    <3>2. QED
      BY <3>1, Zenon DEF NoSubject
  <2>2. faults' \in 0..MaxFaults
    BY BoundsAssumption DEF Fault, IInv, TypeOK
  <2>3. failed' \subseteq Agents
    BY <1>1 DEF IInv, TypeOK
  <2>4. QED
    BY <2>1, <2>2, <2>3 DEF IInv, TypeOK, agents
<1>3. Threaded'
  BY ThreadsAlone
<1>4. WellNamed(cluster)' /\ WellNamed(cache)' /\ BuiltIsNotGone' /\ IdentityStored'
  BY DEF IInv, WellNamed, BuiltIsNotGone, IdentityStored
<1>5. Sequenced' /\ Fresh' /\ GarbageUnwanted'
  BY <1>1 DEF Sequenced, Fresh, Retaining, Collecting, GarbageUnwanted
<1>6. Collected'
  BY <1>1 DEF IInv, Collected
<1>7. IdentityCollected'
  <2>1. UNCHANGED <<cluster, config, coll>> /\ failed' = failed \cup {subject[1]}
    OBVIOUS
  <2>2. IdentityCollected
    BY DEF IInv
  <2>3. pc \notin {"down", "retainData", "retainObjects"}
    BY DEF Collecting
  <2>4. pc = "collectObjects" => \A a \in Agents \cap garbage : a = subject[1]
    BY <1>1, OwnNames DEF IInv, GarbageUnwanted, Collecting
  <2>5. QED
    BY <2>1, <2>2, <2>3, <2>4 DEF IdentityCollected
<1>8. QED
  BY <1>2, <1>3, <1>4, <1>5, <1>6, <1>7 DEF IInv

(* The process ends: what the cluster holds is all that is left.           *)
LEMMA ProcessEndsStep == ASSUME IInv, ProcessEnds PROVE IInv'
<1>. USE DEF ProcessEnds
<1>1. TypeOK'
  <2>1. faults' \in 0..MaxFaults
    BY BoundsAssumption DEF Fault, IInv, TypeOK
  <2>2. /\ NotEnforced \in [type : Types, version : Versions]
        /\ NotSeen \in [name : Names, obj : Obj \cup {NoObj}]
        /\ NoSubject \in Agents \X Types
    <3>1. (CHOOSE t \in Types : TRUE) \in Types
      BY NonEmptyAssumption
    <3>2. (CHOOSE n \in Names : TRUE) \in Names
      BY NonEmptyAssumption
    <3>3. \E a \in Agents, t \in Types : <<a, t>> \in Agents \X Types
      BY NonEmptyAssumption
    <3>4. NoSubject \in Agents \X Types
      BY <3>3, Zenon DEF NoSubject
    <3>5. QED
      BY <3>1, <3>2, <3>4, LocalVersionAssumption DEF NotEnforced, NotSeen
  <2>3. coll' \in Config
    BY DEF Config
  <2>4. QED
    BY <2>1, <2>2, <2>3 DEF IInv, TypeOK
<1>2. WellNamed(cluster)' /\ WellNamed(cache)' /\ Threaded' /\ Fresh'
  BY DEF IInv, WellNamed, Threaded, Fresh, Retaining
<1>3. Sequenced' /\ GarbageUnwanted'
  BY DEF Sequenced, GarbageUnwanted, Retaining, Collecting
<1>4. Collected'
  BY DEF IInv, Collected
<1>5. BuiltIsNotGone' /\ IdentityCollected' /\ IdentityStored'
  BY DEF IInv, BuiltIsNotGone, IdentityCollected, IdentityStored
<1>6. QED
  BY <1>1, <1>2, <1>3, <1>4, <1>5 DEF IInv

(* Every step preserves the inductive invariant.                           *)
LEMMA NextIInv == ASSUME IInv, [Next]_vars PROVE IInv'
<1>1. CASE UNCHANGED vars
  <2>1. UNCHANGED <<host, reflector, main, agents, history>>
    BY <1>1 DEF vars
  <2>2. Shared'
    BY <2>1, Untouched DEF history
  <2>3. Threaded'
    BY <2>1, ThreadsAlone DEF main
  <2>4. TypeOK'
    BY <2>1 DEF IInv, TypeOK, host, reflector, main, agents, history
  <2>5. QED
    BY <2>2, <2>3, <2>4 DEF IInv, Shared
<1>2. CASE Main
  BY <1>2, BootStep, StoppedStep, AppliedStep, BuildStep, StopAgentStep, GcConfigMapsStep,
     GcObjectsStep, GcSkipsStep, RetainDoneStep, CollectDoneStep, GcDeleteStep DEF Main, Collector
<1>3. CASE Watch \/ Fleet \/ Environment
  BY <1>3, WatchStep, RemoteConfigStep, SubAgentConfigStep, ProcessEndsStep, TamperStep,
     RoundStep, CollectFailsStep DEF Watch, Fleet, Environment
<1>4. ASSUME NEW a \in Agents, Runtime(a) \/ Supervisor(a) PROVE IInv'
  BY <1>4, StartSubAgentStep, RuntimeStep, CommitStep, RoundStep DEF Runtime, Supervisor
<1>5. QED
  BY <1>1, <1>2, <1>3, <1>4 DEF Next

(* The inductive invariant holds in every reachable state.                 *)
LEMMA Invariant == Spec => []IInv
BY InitIInv, NextIInv, PTL DEF Spec

-----------------------------------------------------------------------------
(* The variables keep their types: a name of an agent holds fleet data,    *)
(* every other name an object of a sub-agent.                              *)
THEOREM TypeCorrect == Spec => []TypeOK
<1>1. IInv => TypeOK
  BY DEF IInv
<1>2. QED
  BY <1>1, Invariant, PTL

(* What was collected is gone and stays gone, except where the listing     *)
(* missed it, and the identity of a removed agent is deleted whatever the  *)
(* cache says, unless its collection failed: for all manifests and         *)
(* configurations.                                                         *)
THEOREM NoZombiesCorrect == Spec => []NoZombies
<1>1. ASSUME IInv PROVE NoZombies
  <2>1. gone \subseteq Agents \X Types
    BY <1>1 DEF IInv, TypeOK
  <2>2. ASSUME NEW k \in Keys, cluster[k] # NoObj, cluster[k].owner = "sub",
               <<cluster[k].agent, cluster[k].type>> \in gone
        PROVE  <<k, <<cluster[k].agent, cluster[k].type>>>> \in missed
    <3>1. cluster[k].type \in Types
      BY <2>1, <2>2
    <3>2. cluster[k].type # NoType
      BY <3>1, NoneAssumption
    <3>3. QED
      BY <1>1, <2>2, <3>2 DEF IInv, Collected
  <2>3. ASSUME pc = "idle", NEW a \in Agents, config[a] = NoType, cluster[a] # NoObj
        PROVE  cluster[a].owner = "sub" \/ a \in failed
    BY <1>1, <2>3 DEF IInv, Sequenced, IdentityCollected
  <2>4. QED
    BY <2>2, <2>3 DEF NoZombies
<1>2. QED
  BY <1>1, Invariant, PTL

(* Only the collector deletes an object without a fault, and only one that *)
(* is in its list.                                                         *)
LEMMA OnlyCollectorDeletes ==
    ASSUME IInv, [Next]_vars, NEW k \in Keys, cluster[k] # NoObj, cluster'[k] = NoObj,
           UNCHANGED faults
    PROVE  k \in garbage
<1>1. faults' # faults + 1
  BY DEF IInv, TypeOK
<1>2. ~ Environment
  BY <1>1 DEF Environment, WatchFails, CollectFails, ProcessEnds, Tamper, RoundFails, Fault
<1>3. ASSUME NEW a \in Agents, Build(a) PROVE FALSE
  <2>1. CASE UNCHANGED cluster
    BY <2>1
  <2>2. CASE SetIdentity(a)
    BY <2>2, SetIdentityWrites, Objects_Typed DEF IInv, TypeOK, Keys
  <2>3. QED
    BY <1>3, <2>1, <2>2 DEF Build
<1>4. ASSUME NEW a \in Agents, NEW v \in Versions, SetRemote(a, v), cluster[a] # NoObj,
             coll[a] # NoType
      PROVE  FALSE
  BY <1>4, SetRemoteWrites, Objects_Typed DEF IInv, TypeOK, Keys
<1>5. ASSUME NEW a \in Agents, Commit(a) PROVE FALSE
  <2>1. Desired(a) # NoObj
    <3>1. enforced[a] \in [type : Types, version : Versions]
      BY DEF IInv, TypeOK
    <3>2. Desired(a) \in Obj
      BY <3>1 DEF Desired, Obj
    <3>3. QED
      BY <3>2, NoObjAssumption
  <2>2. QED
    BY <1>5, <2>1 DEF Commit, IInv, TypeOK, Keys
<1>6. ASSUME NEW a \in Agents, StartSubAgent(a) PROVE FALSE
  <2>1. coll[a] # NoType
    BY <1>6 DEF StartSubAgent, IInv, Threaded
  <2>2. cluster[a] # NoObj /\ cluster[a].remote # NoVersion => cluster[a].remote \in Versions
    BY Objects_Typed DEF IInv, TypeOK
  <2>3. QED
    BY <1>4, <1>6, <2>1, <2>2 DEF StartSubAgent
<1>7. ASSUME NEW a \in Agents, NEW v \in Versions, SubAgentConfig(a, v) PROVE FALSE
  <2>1. coll[a] # NoType
    BY <1>7 DEF SubAgentConfig, IInv, Threaded
  <2>2. QED
    BY <1>4, <1>7, <2>1 DEF SubAgentConfig
<1>8. ASSUME NEW a \in Agents PROVE ~ Runtime(a) /\ ~ Supervisor(a)
  BY <1>5, <1>6 DEF Runtime, Supervisor, ApplySubAgentConfig, StopRuntime, RuntimeStopped,
       NextRound, Check, host
<1>9. ~ Watch /\ ~ Fleet /\ ~ UNCHANGED vars
  BY <1>7 DEF Watch, Reconnect, Sync, Fleet, RemoteConfig, vars, host
<1>10. CASE Main
  <2>1. CASE \E j \in Keys : GcDelete(j)
    BY <2>1 DEF GcDelete, IInv, TypeOK
  <2>2. CASE ~ \E j \in Keys : GcDelete(j)
    BY <1>3, <1>10, <2>2 DEF Main, Collector, Boot, Stopped, Applied, StopAgent,
         GcConfigMaps, GcObjects, GcSkips, RetainDone, CollectDone, host
  <2>3. QED
    BY <2>1, <2>2
<1>11. QED
  BY <1>2, <1>8, <1>9, <1>10 DEF Next

(* What is in a list of the collector is not wanted when it is deleted,    *)
(* although it was listed in a stale cache some steps before, unless two   *)
(* agents share its name and one of them is being collected.               *)
THEOREM OnlyOutdatedDeletedCorrect == Spec => OnlyOutdatedDeleted
<1>. DEFINE A == \A k \in garbage :
                    cluster[k] # NoObj /\ cluster'[k] = NoObj /\ UNCHANGED faults
                        => \/ config[cluster[k].agent] = NoType
                           \/ /\ cluster[k].owner = "sub"
                              /\ cluster[k].type # config[cluster[k].agent]
                           \/ pc = "collectLast" /\ Contested(k)
<1>1. ASSUME IInv PROVE A
  BY <1>1 DEF IInv, GarbageUnwanted, Unwanted
<1>2. IInv /\ [Next]_vars => [A]_vars
  BY <1>1
<1>3. QED
  BY <1>2, Invariant, PTL DEF Spec, OnlyOutdatedDeleted

(* Stated without the list: whatever an object was deleted by, if it was   *)
(* not a fault, the configuration did not want the object, or `collect`    *)
(* deleted it under a name that two agents share.                          *)
WantedKept ==
    [][\A k \in Keys :
        cluster[k] # NoObj /\ cluster'[k] = NoObj /\ UNCHANGED faults
            => \/ config[cluster[k].agent] = NoType
               \/ /\ cluster[k].owner = "sub"
                  /\ cluster[k].type # config[cluster[k].agent]
               \/ pc = "collectLast" /\ Contested(k)]_vars

(* No step of Agent Control deletes an object the configuration wants,     *)
(* unless two agents share its name.                                       *)
THEOREM WantedKeptCorrect == Spec => WantedKept
<1>. DEFINE A == \A k \in Keys :
                    cluster[k] # NoObj /\ cluster'[k] = NoObj /\ UNCHANGED faults
                        => \/ config[cluster[k].agent] = NoType
                           \/ /\ cluster[k].owner = "sub"
                              /\ cluster[k].type # config[cluster[k].agent]
                           \/ pc = "collectLast" /\ Contested(k)
<1>1. ASSUME IInv, [Next]_vars PROVE A
  BY <1>1, OnlyCollectorDeletes DEF IInv, GarbageUnwanted, Unwanted
<1>2. IInv /\ [Next]_vars => [A]_vars
  BY <1>1
<1>3. QED
  BY <1>2, Invariant, PTL DEF Spec, WantedKept

(* An agent that is built again gets the identity it was given, as long as *)
(* it stays configured with its type and the host keeps its identifiers.   *)
THEOREM IdentityKeptCorrect == Spec => IdentityKept
<1>. DEFINE A == \A a \in Agents :
                    coll[a] = NoType /\ coll'[a] # NoType /\ known[a] = <<coll'[a], ident>>
                        => cluster'[a] = cluster[a]
<1>1. ASSUME IInv, [Next]_vars, NEW a \in Agents,
             coll[a] = NoType, coll'[a] # NoType, known[a] = <<coll'[a], ident>>
      PROVE  cluster'[a] = cluster[a]
  <2>1. PICK b \in Agents : Build(b)
    <3>1. coll' # coll /\ ~ ProcessEnds /\ ~ Stopped
      BY <1>1 DEF ProcessEnds, Stopped, IInv, TypeOK, Config
    <3>2. QED
      BY <1>1, <3>1 DEF vars, host, reflector, main, agents, Next, Main, Collector, Watch,
           Fleet, Environment, Runtime, Supervisor, Boot, Applied, StopAgent, GcConfigMaps,
           GcObjects, GcSkips, RetainDone, CollectDone, CollectFails, GcDelete, Reconnect, Sync, RemoteConfig,
           SubAgentConfig, WatchFails, Tamper, RoundFails, StartSubAgent,
           ApplySubAgentConfig, StopRuntime, RuntimeStopped, Commit, NextRound, Check
  <2>2. b = a
    BY <1>1, <2>1 DEF Build, IInv, TypeOK, Config
  <2>3. coll'[a] = config[a] /\ config[a] \in Types /\ ident \in Idents
    BY <1>1, <2>1, <2>2 DEF Build, IInv, TypeOK, Config
  <2>4. known[a] # NoType /\ known[a][2] = ident
    BY <1>1, <2>3, NoneAssumption
  <2>5. ~ NeedsIdentity(a)
    BY <1>1, <2>4 DEF NeedsIdentity, IInv, IdentityStored
  <2>6. QED
    BY <2>1, <2>2, <2>5 DEF Build
<1>2. IInv /\ [Next]_vars => [A]_vars
  BY <1>1
<1>3. QED
  BY <1>2, Invariant, PTL DEF Spec, IdentityKept
=============================================================================
