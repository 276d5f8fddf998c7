------------------------- MODULE AgentControl_proofs -------------------------
(***************************************************************************)
(* What TLAPS proves of AgentControl for every set of agent ids, types and *)
(* messages, every local configuration and every combination of faults.    *)
(***************************************************************************)
EXTENDS AgentControl, TLAPS

USE NoAgentAssumption, RegistryAssumption, LocalAssumption, ContentAssumption,
    MarkAssumption, FaultsAssumption, NoRemoteAssumption, NoStatusAssumption

-----------------------------------------------------------------------------
(* Parts of the inductive invariant.                                       *)

(* The steps of a message up to the one that touches the sub-agents.       *)
BeforeApply == {"bootReport", "bootPersist", "bootEffective", "idle",
                "validate", "check", "store", "reject"}

(* Between two messages, and until the configuration of a message is       *)
(* persisted, disk and memory agree; between the persisting and the end of *)
(* the message both are the new configuration.                             *)
StepOld ==
    (~ degraded /\ pc \in BeforeApply \cup {"apply"}) =>
        coll = current /\ orphans = {} /\ resources = Agents(current)

DiskOld ==
    (~ degraded /\ pc \in BeforeApply) =>
        /\ pc \in {"bootReport", "bootPersist"} => verdict = "Applied"
        /\ remote # NoRemote =>
              /\ remote.agents = current
              /\ pc \notin {"bootReport", "bootPersist"} => remote.state = "Applied"

DiskNew ==
    (pc \in {"apply", "commit", "partial", "reportApplied", "reportFailed"}
        /\ remote # NoRemote) => remote.agents = new /\ remote.hash = msg

StepNew ==
    (~ degraded /\ pc \in {"commit", "reportApplied"}) =>
        coll = new /\ orphans = {} /\ resources = Agents(new)

Progress ==
    /\ pc = "down" => orphans = {}
    /\ pc \in {"partial", "reportFailed"} => degraded
    /\ pc \in {"check", "store", "apply"} /\ Content[msg] = Reset => remote = NoRemote
    /\ pc \in {"check", "store"} /\ Content[msg] # Reset => new = Content[msg]
    /\ pc = "store" => Valid(new)
    /\ pc = "reportApplied" => remote # NoRemote /\ remote.state = "Applied"

(* While a message is in hand, Fleet has heard Applying for it.            *)
Withdrawn ==
    pc \in {"validate", "check", "store", "apply", "commit", "partial",
            "reportApplied", "reportFailed", "reject"} =>
        reported = [hash |-> msg, state |-> "Applying"]

IInv ==
    /\ TypeOK
    /\ StepOld /\ DiskOld /\ DiskNew /\ StepNew
    /\ Progress
    /\ Withdrawn
    /\ AppliedSurvivesCrash
    /\ SupervisedKeepResources
    /\ OnlyCheckedPersisted

-----------------------------------------------------------------------------
(* The empty configuration is a configuration without agents.              *)
LEMMA EmptyIsConfig == Empty \in Config /\ Agents(Empty) = {}
  BY DEF Empty, Config, Agents

(* load, remote over local, returns a configuration.                       *)
LEMMA LoadIsConfig == ASSUME TypeOK PROVE LoadConfig \in Config
  BY DEF TypeOK, LoadConfig, RemoteConfig

(* The two loops keep the collection, the orphans and the resources well   *)
(* formed, whatever fails.                                                 *)
LEMMA ApplyTyped ==
  ASSUME TypeOK, NEW bad \in SUBSET AgentIds, NEW kept \in SUBSET AgentIds
  PROVE  /\ CollectionAfter(bad) \in Config
         /\ OrphansAfter(bad) \subseteq AgentIds \X AgentTypes
         /\ ResourcesAfter(bad, kept) \subseteq AgentIds
<1>1. CollectionAfter(bad) \in Config
  BY DEF TypeOK, CollectionAfter, Config
<1>2. OrphansAfter(bad) \subseteq AgentIds \X AgentTypes
  BY DEF TypeOK, OrphansAfter, Created, Agents, Config
<1>3. ResourcesAfter(bad, kept) \subseteq AgentIds
  BY DEF TypeOK, ResourcesAfter, Created, Recreated, NotFound, Removed, Agents
<1> QED
  BY <1>1, <1>2, <1>3

(* What can fail of a set of agents is a part of that set.                 *)
LEMMA FailureSubset ==
  ASSUME NEW kind, NEW S, NEW T \in FailureSets(kind, S)
  PROVE  T \subseteq S
  BY DEF FailureSets

(* TypeOK is preserved by every action: the state of the runtime is always *)
(* one the program can represent.                                          *)
LEMMA TypeStep == TypeOK /\ [Next]_vars => TypeOK'
<1> SUFFICES ASSUME TypeOK, [Next]_vars PROVE TypeOK'
  OBVIOUS
<1> USE EmptyIsConfig DEF Goto, Pcs, Report, Status, States
<1>1. CASE Boot
  <2>1. LoadConfig \in Config
    BY LoadIsConfig
  <2>2. PICK kept \in FailureSets("clean", resources \ Agents(LoadConfig)),
             bad \in FailureSets("build", Agents(LoadConfig)) :
          /\ current' = LoadConfig
          /\ coll' = [a \in AgentIds |-> IF a \in bad THEN NoAgent ELSE LoadConfig[a]]
          /\ resources' = (resources \cap Agents(LoadConfig)) \cup kept
                          \cup (Agents(LoadConfig) \ bad)
          /\ verdict' = IF bad = {} THEN "Applied" ELSE "Failed"
          /\ degraded' = (bad \cup kept # {})
    BY <1>1 DEF Boot
  <2>3. kept \subseteq AgentIds /\ bad \subseteq AgentIds
    BY FailureSubset DEF TypeOK, Agents
  <2>4. coll' \in Config
    BY <2>1, <2>2 DEF Config
  <2>5. resources' \subseteq AgentIds
    BY <2>2, <2>3 DEF Agents
  <2> QED
    BY <1>1, <2>1, <2>2, <2>4, <2>5 DEF Boot, TypeOK
<1>2. CASE BootReport
  <2>1. reported' \in Status \cup {NoStatus}
    BY <1>2 DEF BootReport, BootStatusDiffers, TypeOK, RemoteConfig
  <2>2. degraded' \in BOOLEAN /\ pc' \in Pcs
    BY <1>2 DEF BootReport, TypeOK
  <2> QED
    BY <1>2, <2>1, <2>2 DEF BootReport, TypeOK, disk
<1>3. CASE BootPersist
  BY <1>3 DEF BootPersist, UpdateState, TypeOK, volatile, RemoteConfig
<1>4. CASE BootEffective
  BY <1>4 DEF BootEffective, VersionUpdate, TypeOK, disk
<1>5. ASSUME NEW h \in Hashes, ReceiveRemoteConfig(h) PROVE TypeOK'
  <2>1. reported' \in Status \cup {NoStatus} /\ pc' \in Pcs
    BY <1>5 DEF ReceiveRemoteConfig, TypeOK
  <2>2. lost' \in BOOLEAN
    BY <1>5 DEF ReceiveRemoteConfig
  <2> QED
    BY <1>5, <2>1, <2>2 DEF ReceiveRemoteConfig, TypeOK
<1>6. CASE ValidateRemoteConfig
  BY <1>6 DEF ValidateRemoteConfig, TypeOK
<1>7. CASE CheckAndUpdateVersion
  BY <1>7 DEF CheckAndUpdateVersion, VersionUpdate, TypeOK
<1>8. CASE StoreRemoteConfig
  BY <1>8 DEF StoreRemoteConfig, TypeOK, RemoteConfig
<1>9. CASE ApplyAgents
  <2>1. PICK bad \in FailureSets("build", Created \cup (Recreated \ NotFound)),
             kept \in FailureSets("clean", Removed) :
          /\ coll' = CollectionAfter(bad)
          /\ orphans' = OrphansAfter(bad)
          /\ resources' = ResourcesAfter(bad, kept)
          /\ pc' = IF bad \cup kept \cup NotFound = {} THEN "commit" ELSE "partial"
          /\ degraded' = (degraded \/ bad \cup kept \cup NotFound # {})
    BY <1>9 DEF ApplyAgents
  <2>2. bad \subseteq AgentIds /\ kept \subseteq AgentIds
    BY FailureSubset DEF Created, Recreated, Removed, Agents
  <2>3. /\ coll' \in Config
        /\ orphans' \subseteq AgentIds \X AgentTypes
        /\ resources' \subseteq AgentIds
    BY <2>1, <2>2, ApplyTyped
  <2> QED
    BY <1>9, <2>1, <2>3 DEF ApplyAgents, TypeOK
<1>10. CASE UpdateStateFails
  BY <1>10 DEF UpdateStateFails, TypeOK
<1>11. CASE CommitApplied
  BY <1>11 DEF CommitApplied, UpdateState, TypeOK, volatile, RemoteConfig
<1>12. CASE CommitFailed
  BY <1>12 DEF CommitFailed, UpdateState, TypeOK, volatile, RemoteConfig
<1>13. CASE ReportApplied
  <2>1. reported' \in Status \cup {NoStatus}
    BY <1>13 DEF ReportApplied, TypeOK
  <2>2. degraded' \in BOOLEAN /\ pc' \in Pcs /\ current' \in Config
    BY <1>13 DEF ReportApplied, TypeOK
  <2> QED
    BY <1>13, <2>1, <2>2 DEF ReportApplied, TypeOK
<1>14. CASE ReportFailed
  <2>1. reported' \in Status \cup {NoStatus}
    BY <1>14 DEF ReportFailed, TypeOK
  <2>2. lost' \in BOOLEAN
    BY <1>14 DEF ReportFailed, TypeOK
  <2> QED
    BY <1>14, <2>1, <2>2 DEF ReportFailed, TypeOK, disk
<1>15. CASE SelfUpdateRetry
  BY <1>15 DEF SelfUpdateRetry, VersionUpdate, TypeOK, disk
<1>16. CASE SelfUpdateRestart \/ StopRequested
  BY <1>16 DEF SelfUpdateRestart, StopRequested, StopAll, TypeOK, disk
<1>17. CASE Exit \/ BootFails \/ Crash
  BY <1>17 DEF Exit, BootFails, Crash, ProcessEnds, TypeOK, disk
<1>18. CASE UNCHANGED vars
  BY <1>18 DEF vars, TypeOK
<1> QED
  BY <1>1, <1>2, <1>3, <1>4, <1>5, <1>6, <1>7, <1>8, <1>9, <1>10, <1>11, <1>12,
     <1>13, <1>14, <1>15, <1>16, <1>17, <1>18 DEF Next, Start, Handler

(* The initial states are well typed.                                      *)
LEMMA TypeInit == Init => TypeOK
  BY EmptyIsConfig DEF Init, TypeOK, Pcs

(* Type correctness of the runtime's state.                                *)
THEOREM TypeCorrect == Spec => []TypeOK
  BY TypeInit, TypeStep, PTL DEF Spec

-----------------------------------------------------------------------------
(* When collection and current configuration agree and nothing fails, the  *)
(* two loops leave exactly the new configuration, and drop no stopper.     *)
LEMMA ApplyClean ==
  ASSUME TypeOK, coll = current, orphans = {}, resources = Agents(current),
         NotFound = {}
  PROVE  /\ CollectionAfter({}) = new
         /\ OrphansAfter({}) = {}
         /\ ResourcesAfter({}, {}) = Agents(new)
<1> USE DEF TypeOK, Config
<1>1. CollectionAfter({}) = new
  <2>1. ASSUME NEW a \in AgentIds PROVE CollectionAfter({})[a] = new[a]
    BY DEF CollectionAfter, Created, Recreated, Removed, Agents
  <2>2. CollectionAfter({}) = [a \in AgentIds |-> CollectionAfter({})[a]]
    BY DEF CollectionAfter
  <2> QED
    BY <2>1, <2>2
<1>2. OrphansAfter({}) = {}
  BY DEF OrphansAfter, Created
<1>3. ResourcesAfter({}, {}) = Agents(new)
  BY DEF ResourcesAfter, Created, Recreated, Removed, Agents
<1> QED
  BY <1>1, <1>2, <1>3

(* Whatever fails, an id that is in the collection after the two loops has *)
(* its resources.                                                          *)
LEMMA ApplyKeepsResources ==
  ASSUME TypeOK, SupervisedKeepResources,
         NEW bad \in SUBSET AgentIds, NEW kept \in SUBSET AgentIds
  PROVE  \A a \in AgentIds :
            CollectionAfter(bad)[a] # NoAgent => a \in ResourcesAfter(bad, kept)
<1> TAKE a \in AgentIds
<1> HAVE CollectionAfter(bad)[a] # NoAgent
<1>1. a \in Agents(coll) => a \in resources
  BY DEF SupervisedKeepResources
<1>2. CollectionAfter(bad)[a] =
        CASE a \in Created -> IF a \in bad THEN coll[a] ELSE new[a]
          [] a \in Recreated -> IF a \in bad \cup NotFound THEN NoAgent ELSE new[a]
          [] a \in Removed -> NoAgent
          [] OTHER -> coll[a]
  BY DEF CollectionAfter
<1>3. Created \cap Removed = {}
  BY DEF Created, Removed, Agents
<1> QED
  BY <1>1, <1>2, <1>3 DEF ResourcesAfter, Agents

(* update_state changes the state of the stored configuration and nothing  *)
(* else of it.                                                             *)
LEMMA UpdateStateFacts ==
  ASSUME TypeOK, NEW s \in States, UpdateState(s)
  PROVE  /\ remote # NoRemote /\ remote' # NoRemote
         /\ remote'.agents = remote.agents
         /\ remote'.hash = remote.hash
         /\ remote'.state = s
  BY DEF TypeOK, UpdateState, RemoteConfig

(* The initial states satisfy the inductive invariant.                     *)
LEMMA InvInit == Init => IInv
  BY TypeInit, EmptyIsConfig DEF Init, IInv, StepOld, DiskOld, DiskNew, StepNew, Progress,
     Withdrawn, AppliedSurvivesCrash, SupervisedKeepResources,
     OnlyCheckedPersisted, BeforeApply

(* Every action preserves the inductive invariant.                         *)
LEMMA InvStep == IInv /\ [Next]_vars => IInv'
<1> SUFFICES ASSUME IInv, [Next]_vars PROVE IInv'
  OBVIOUS
<1>0. TypeOK /\ TypeOK'
  BY TypeStep DEF IInv
<1> USE <1>0 DEF Goto, Report, IInv, StepOld, DiskOld, DiskNew, StepNew, Progress, Withdrawn,
        AppliedSurvivesCrash, OnlyCheckedPersisted, BeforeApply
<1>1. CASE Boot
  <2>1. LoadConfig \in Config
    BY LoadIsConfig
  <2>2. PICK kept \in FailureSets("clean", resources \ Agents(LoadConfig)),
             bad \in FailureSets("build", Agents(LoadConfig)) :
          /\ current' = LoadConfig
          /\ coll' = [a \in AgentIds |-> IF a \in bad THEN NoAgent ELSE LoadConfig[a]]
          /\ resources' = (resources \cap Agents(LoadConfig)) \cup kept
                          \cup (Agents(LoadConfig) \ bad)
          /\ verdict' = IF bad = {} THEN "Applied" ELSE "Failed"
          /\ degraded' = (bad \cup kept # {})
    BY <1>1 DEF Boot
  <2>3. ASSUME ~ degraded'
        PROVE  coll' = current' /\ resources' = Agents(current') /\ verdict' = "Applied"
    <3>1. bad = {} /\ kept = {}
      BY <2>2, <2>3
    <3>2. coll' = [a \in AgentIds |-> LoadConfig[a]]
      BY <2>2, <3>1
    <3>3. coll' = current'
      BY <2>1, <2>2, <3>2 DEF Config
    <3> QED
      BY <2>2, <3>1, <3>3
  <2>4. SupervisedKeepResources'
    BY <2>1, <2>2 DEF SupervisedKeepResources, Agents
  <2> QED
    BY <1>1, <2>2, <2>3, <2>4 DEF Boot, LoadConfig, Agents, Valid
<1>2. CASE BootReport
  BY <1>2 DEF BootReport, BootStatusDiffers, disk, SupervisedKeepResources, Agents, Valid
<1>3. CASE BootPersist
  <2>1. /\ remote # NoRemote /\ remote' # NoRemote
        /\ remote'.agents = remote.agents
        /\ remote'.hash = remote.hash
        /\ remote'.state = verdict
    BY <1>3, UpdateStateFacts DEF BootPersist, TypeOK, States
  <2> QED
    BY <1>3, <2>1 DEF BootPersist, volatile, SupervisedKeepResources, Agents, Valid
<1>4. CASE BootEffective
  BY <1>4 DEF BootEffective, disk, SupervisedKeepResources, Agents, Valid
<1>5. ASSUME NEW h \in Hashes, ReceiveRemoteConfig(h) PROVE IInv'
  BY <1>5 DEF ReceiveRemoteConfig, SupervisedKeepResources, Agents, Valid
<1>6. CASE ValidateRemoteConfig
  BY <1>6 DEF ValidateRemoteConfig, SupervisedKeepResources, Agents, Valid
<1>7. CASE CheckAndUpdateVersion
  BY <1>7 DEF CheckAndUpdateVersion, SupervisedKeepResources, Agents, Valid
<1>8. CASE StoreRemoteConfig
  BY <1>8 DEF StoreRemoteConfig, SupervisedKeepResources, Agents, Valid, TypeOK
<1>9. CASE ApplyAgents
  <2>1. PICK bad \in FailureSets("build", Created \cup (Recreated \ NotFound)),
             kept \in FailureSets("clean", Removed) :
          /\ coll' = CollectionAfter(bad)
          /\ orphans' = OrphansAfter(bad)
          /\ resources' = ResourcesAfter(bad, kept)
          /\ pc' = IF bad \cup kept \cup NotFound = {} THEN "commit" ELSE "partial"
          /\ degraded' = (degraded \/ bad \cup kept \cup NotFound # {})
    BY <1>9 DEF ApplyAgents
  <2>2. bad \subseteq AgentIds /\ kept \subseteq AgentIds
    BY FailureSubset DEF Created, Recreated, Removed, Agents
  <2>3. SupervisedKeepResources'
    BY <2>1, <2>2, ApplyKeepsResources DEF SupervisedKeepResources, Agents
  <2>4. ASSUME ~ degraded'
        PROVE  coll' = new /\ orphans' = {} /\ resources' = Agents(new)
    <3>1. ~ degraded /\ bad = {} /\ kept = {} /\ NotFound = {}
      BY <2>1, <2>4
    <3>2. coll = current /\ orphans = {} /\ resources = Agents(current)
      BY <1>9, <3>1 DEF ApplyAgents
    <3> QED
      BY <2>1, <3>1, <3>2, ApplyClean
  <2>5. pc' \in {"commit", "partial"} /\ (pc' = "partial" => degraded')
    BY <2>1
  <2> QED
    BY <1>9, <2>3, <2>4, <2>5 DEF ApplyAgents, Agents, Valid
<1>10. CASE UpdateStateFails
  BY <1>10 DEF UpdateStateFails, SupervisedKeepResources, Agents, Valid
<1>11. CASE CommitApplied
  <2>1. /\ remote # NoRemote /\ remote' # NoRemote
        /\ remote'.agents = remote.agents
        /\ remote'.hash = remote.hash
        /\ remote'.state = "Applied"
    BY <1>11, UpdateStateFacts DEF CommitApplied, TypeOK, States
  <2> QED
    BY <1>11, <2>1 DEF CommitApplied, volatile, SupervisedKeepResources, Agents, Valid
<1>12. CASE CommitFailed
  <2>1. /\ remote # NoRemote /\ remote' # NoRemote
        /\ remote'.agents = remote.agents
        /\ remote'.hash = remote.hash
        /\ remote'.state = "Failed"
    BY <1>12, UpdateStateFacts DEF CommitFailed, TypeOK, States
  <2> QED
    BY <1>12, <2>1 DEF CommitFailed, volatile, SupervisedKeepResources, Agents, Valid
<1>13. CASE ReportApplied
  BY <1>13 DEF ReportApplied, SupervisedKeepResources, Agents, Valid
<1>14. CASE ReportFailed
  BY <1>14 DEF ReportFailed, disk, volatile, SupervisedKeepResources, Agents, Valid
<1>15. CASE SelfUpdateRetry
  BY <1>15 DEF SelfUpdateRetry, disk, SupervisedKeepResources, Agents, Valid
<1>16. CASE SelfUpdateRestart \/ StopRequested
  BY <1>16, EmptyIsConfig DEF SelfUpdateRestart, StopRequested, StopAll, disk, SupervisedKeepResources, Agents, Valid, Empty
<1>17. CASE Exit \/ BootFails \/ Crash
  BY <1>17, EmptyIsConfig DEF Exit, BootFails, Crash, ProcessEnds, disk, SupervisedKeepResources, Agents, Valid, Empty
<1>18. CASE UNCHANGED vars
  BY <1>18 DEF vars, SupervisedKeepResources, Agents, Valid
<1> QED
  BY <1>1, <1>2, <1>3, <1>4, <1>5, <1>6, <1>7, <1>8, <1>9, <1>10, <1>11, <1>12,
     <1>13, <1>14, <1>15, <1>16, <1>17, <1>18 DEF Next, Start, Handler

(* The inductive invariant holds throughout.                               *)
LEMMA InvCorrect == Spec => []IInv
  BY InvInit, InvStep, PTL DEF Spec

(* While no error path was taken, the idle runtime is in step with its     *)
(* configuration and with the disk.                                        *)
THEOREM InStepCorrect == Spec => []InStep
<1>1. IInv => InStep
  BY DEF IInv, StepOld, DiskOld, InStep, BeforeApply
<1> QED
  BY <1>1, InvCorrect, PTL

(* What Fleet believes Applied is what a restart after a crash would load. *)
THEOREM AppliedSurvivesCrashCorrect == Spec => []AppliedSurvivesCrash
<1>1. IInv => AppliedSurvivesCrash
  BY DEF IInv
<1> QED
  BY <1>1, InvCorrect, PTL

(* Cleaning and purging never reach a supervised agent.                    *)
THEOREM SupervisedKeepResourcesCorrect == Spec => []SupervisedKeepResources
<1>1. IInv => SupervisedKeepResources
  BY DEF IInv
<1> QED
  BY <1>1, InvCorrect, PTL

(* Nothing that would be rejected is ever persisted.                       *)
THEOREM OnlyCheckedPersistedCorrect == Spec => []OnlyCheckedPersisted
<1>1. IInv => OnlyCheckedPersisted
  BY DEF IInv
<1> QED
  BY <1>1, InvCorrect, PTL
=============================================================================
