--------------------------- MODULE SubAgent_proofs ---------------------------
(***************************************************************************)
(* What TLAPS proves of SubAgent for every set of messages, every local    *)
(* configuration, every bound on the channel and every set of faults.      *)
(***************************************************************************)
EXTENDS SubAgent, TLAPS

USE ContentAssumption, LocalAssumption, MarkAssumption, FaultsAssumption,
    MaxInboxAssumption, NoneAssumption

-----------------------------------------------------------------------------
(* Only a configuration that could be assembled is ever persisted.         *)
StoredAssembles == remote # NoRemote => Content[remote.hash] = "config"

(* Where no start or apply is under way, the supervisor is the one of the  *)
(* persisted configuration, and one that is marked Applying does not run,  *)
(* except while its state is being resolved after a start.                 *)
AtRest == {"idle", "prepare", "store", "reset"}
RestPart ==
    ~ ignored =>
        /\ pc \in AtRest \cup {"initReport", "initPersist"} /\ sup # NoSup => sup = Loaded
        /\ pc \in AtRest /\ remote # NoRemote /\ remote.state = "Applying" => sup = NoSup

(* While a configuration is applied, the disk already has it.              *)
ApplyPart ==
    /\ pc = "assembleLocal" => source = LocalMark /\ Content[msg] = "reset"
    /\ pc = "reset" => Content[msg] = "reset"
    /\ pc = "store" => source = msg /\ Content[msg] = "config"
    /\ pc \in {"run", "report", "persist"} =>
          \/ source = msg /\ Content[msg] = "config"
          \/ source = LocalMark /\ Content[msg] = "reset" /\ Local = "config"
    /\ ~ ignored =>
          /\ pc = "assembleLocal" => remote = NoRemote
          /\ pc \in {"run", "report", "persist"} =>
                /\ source = msg => remote # NoRemote /\ remote.hash = msg
                /\ source = LocalMark => remote = NoRemote
          /\ pc \in {"report", "persist"} =>
                sup = IF outcome = "Applied" THEN source ELSE NoSup

(* What Fleet has heard while a message is in hand.                        *)
HeardPart ==
    /\ pc \in {"down", "init"} => sup = NoSup
    /\ pc \in {"initReport", "initPersist"} => remote # NoRemote
    /\ ~ ignored =>
          /\ pc \in {"prepare", "store", "reset", "assembleLocal", "run", "report"} =>
                reported = [hash |-> msg, state |-> "Applying"]
          /\ pc = "persist" => reported = [hash |-> msg, state |-> outcome]

IInv ==
    /\ TypeOK
    /\ StoredAssembles
    /\ RestPart
    /\ ApplyPart
    /\ HeardPart
    /\ AppliedIsStored

-----------------------------------------------------------------------------
(* The helpers keep the types of what they write.                          *)
LEMMA ReportTyped ==
  ASSUME TypeOK, NEW h \in Hashes, NEW s \in States, Report(h, s)
  PROVE  reported' \in Status \cup {NoStatus} /\ ignored' \in BOOLEAN
<1>1. [hash |-> h, state |-> s] \in Status
  BY DEF Status
<1>2. reported' \in Status \cup {NoStatus}
  BY <1>1 DEF TypeOK, Report
<1>3. ignored' \in BOOLEAN
  BY DEF TypeOK, Report
<1> QED
  BY <1>2, <1>3

(* Persisting a state keeps the stored configuration well typed.           *)
LEMMA PersistTyped ==
  ASSUME TypeOK, NEW s \in States, PersistState(s)
  PROVE  remote' \in Status \cup {NoRemote} /\ ignored' \in BOOLEAN
  BY DEF TypeOK, PersistState, Status

(* The messages that wait are messages.                                    *)
LEMMA InboxTyped ==
  /\ <<>> \in Seq(Events)
  /\ \A q \in Seq(Events) : \A e \in Events : Append(q, e) \in Seq(Events)
  /\ \A q \in Seq(Events) : q # <<>> => Head(q) \in Events /\ Tail(q) \in Seq(Events)
  OBVIOUS

(* Type correctness of the sub-agent's state.                              *)
LEMMA TypeStep == TypeOK /\ [Next]_vars => TypeOK'
<1> SUFFICES ASSUME TypeOK, [Next]_vars PROVE TypeOK'
  OBVIOUS
<1> USE DEF Pcs, Goto, Sources
<1>0. {"Applying", "Applied", "Failed"} = States /\ Events = {"healthy", "unhealthy", "stop"}
  BY DEF States, Events
<1>19. CASE Run
  BY <1>19 DEF Run, TypeOK
<1>1. CASE InitSupervisor
  <2>1. inbox' \in Seq(Events) /\ crashedSup' \in BOOLEAN
    BY <1>0, <1>1, InboxTyped DEF InitSupervisor, InitUnhealthy, PublishUnhealthy, TypeOK
  <2>2. Loaded \in Sources \cup {NoSup}
    BY DEF Loaded, TypeOK, Status
  <2> QED
    BY <1>1, <2>1, <2>2 DEF InitSupervisor, TypeOK
<1>2. CASE InitReport
  <2>1. remote.hash \in Hashes /\ outcome \in States
    BY <1>0, <1>2 DEF InitReport, TypeOK, Status
  <2> QED
    BY <1>2, <2>1, ReportTyped DEF InitReport, TypeOK
<1>3. CASE InitPersist
  <2>1. inbox' \in Seq(Events) /\ crashedSup' \in BOOLEAN
    BY <1>0, <1>3, InboxTyped DEF InitPersist, InitUnhealthy, PublishUnhealthy, TypeOK
  <2> QED
    BY <1>0, <1>3, <2>1, PersistTyped DEF InitPersist, TypeOK
<1>4. ASSUME NEW h \in Hashes, HandleSameHash(h) PROVE TypeOK'
  <2>1. remote.state \in States
    BY <1>4 DEF HandleSameHash, SameHash, TypeOK, Status
  <2> QED
    BY <1>4, <2>1, ReportTyped DEF HandleSameHash, TypeOK
<1>5. ASSUME NEW h \in Hashes, HandleFailed(h) PROVE TypeOK'
  BY <1>0, <1>5, ReportTyped DEF HandleFailed, TypeOK
<1>6. ASSUME NEW h \in Hashes, HandleRemoteConfig(h) PROVE TypeOK'
  BY <1>0, <1>6, ReportTyped DEF HandleRemoteConfig, TypeOK
<1>7. CASE Prepare
  <2>1. msg \in Hashes /\ "Failed" \in States
    BY <1>0 DEF TypeOK
  <2>2. reported' \in Status \cup {NoStatus} /\ ignored' \in BOOLEAN
    BY <1>7, <2>1, ReportTyped DEF Prepare, TypeOK
  <2> QED
    BY <1>7, <2>2 DEF Prepare, TypeOK
<1>8. CASE StoreRemote
  <2>1. [hash |-> msg, state |-> "Applying"] \in Status
    BY DEF TypeOK, Status, States
  <2>2. remote' \in Status \cup {NoRemote}
    BY <1>8, <2>1 DEF StoreRemote, TypeOK
  <2>3. ignored' \in BOOLEAN
    BY <1>8 DEF StoreRemote, TypeOK
  <2> QED
    BY <1>8, <2>2, <2>3 DEF StoreRemote, TypeOK
<1>9. CASE ResetToLocal
  BY <1>9 DEF ResetToLocal, TypeOK
<1>10. CASE AssembleLocal
  <2>1. msg \in Hashes /\ "Applied" \in States
    BY <1>0 DEF TypeOK
  <2>2. reported' \in Status \cup {NoStatus} /\ ignored' \in BOOLEAN
    BY <1>10, <2>1, ReportTyped DEF AssembleLocal, TypeOK
  <2> QED
    BY <1>10, <2>2 DEF AssembleLocal, TypeOK
<1>11. CASE RunSupervisor
  <2>1. msg \in Hashes /\ "Failed" \in States
    BY <1>0 DEF TypeOK
  <2>2. reported' \in Status \cup {NoStatus} /\ ignored' \in BOOLEAN
    BY <1>11, <2>1, ReportTyped DEF RunSupervisor, TypeOK
  <2>3. inbox' \in Seq(Events)
    BY <1>0, <1>11, InboxTyped DEF RunSupervisor, PublishUnhealthy, TypeOK
  <2> QED
    BY <1>11, <2>2, <2>3 DEF RunSupervisor, TypeOK
<1>12. CASE ReportOutcome
  <2>1. msg \in Hashes /\ outcome \in States
    BY <1>0 DEF TypeOK
  <2> QED
    BY <1>12, <2>1, ReportTyped DEF ReportOutcome, TypeOK
<1>13. CASE PersistOutcome
  BY <1>0, <1>13, PersistTyped DEF PersistOutcome, TypeOK
<1>14. CASE CheckHealth
  BY <1>0, <1>14, InboxTyped DEF CheckHealth, TypeOK
<1>15. CASE RequestStop
  BY <1>0, <1>15, InboxTyped DEF RequestStop, TypeOK
<1>16. CASE ServeInternal
  <2>1. inbox' \in Seq(Events) /\ Head(inbox) \in Events
    BY <1>16, InboxTyped DEF ServeInternal, TypeOK
  <2>2. health' \in {"none", "healthy", "unhealthy"} /\ ignored' \in BOOLEAN
    BY <1>0, <1>16, <2>1 DEF ServeInternal, TypeOK
  <2> QED
    BY <1>16, <2>1, <2>2 DEF ServeInternal, TypeOK
<1>17. CASE ProcessEnds
  BY <1>17, InboxTyped DEF ProcessEnds, TypeOK
<1>18. CASE UNCHANGED vars
  BY <1>18 DEF vars, TypeOK
<1> QED
  BY <1>1, <1>2, <1>3, <1>4, <1>5, <1>6, <1>7, <1>8, <1>9, <1>10, <1>11, <1>12,
     <1>13, <1>14, <1>15, <1>16, <1>17, <1>18, <1>19 DEF Next, Start, Handle, Handler

(* The initial states are well typed.                                      *)
LEMMA TypeInit == Init => TypeOK
  BY InboxTyped DEF Init, TypeOK, Pcs, Sources

(* The state of the sub-agent is always well formed.                       *)
THEOREM TypeCorrect == Spec => []TypeOK
  BY TypeInit, TypeStep, PTL DEF Spec

-----------------------------------------------------------------------------
(* The initial states satisfy the inductive invariant.                     *)
LEMMA InvInit == Init => IInv
  BY TypeInit DEF Init, IInv, StoredAssembles, RestPart, ApplyPart, HeardPart,
     AppliedIsStored, AtRest

(* Persisting a state changes nothing else of what is stored.              *)
LEMMA PersistStateFacts ==
  ASSUME TypeOK, NEW s \in States, PersistState(s)
  PROVE  /\ remote = NoRemote <=> remote' = NoRemote
         /\ remote # NoRemote => remote'.hash = remote.hash
         /\ ~ ignored' => ~ ignored
         /\ ~ ignored' /\ remote # NoRemote => remote'.state = s
  BY DEF TypeOK, PersistState, Status

(* Every action preserves the inductive invariant.                         *)
LEMMA InvStep == IInv /\ [Next]_vars => IInv'
<1> SUFFICES ASSUME IInv, [Next]_vars PROVE IInv'
  OBVIOUS
<1>0. TypeOK /\ TypeOK'
  BY TypeStep DEF IInv
<1> USE <1>0 DEF Goto, IInv, StoredAssembles, RestPart, ApplyPart, HeardPart,
        AppliedIsStored, AtRest, Loaded
<1>19. CASE Run
  BY <1>19 DEF Run
<1>1. CASE InitSupervisor
  <2>1. pc' \in {"idle", "initReport"} /\ UNCHANGED <<remote, reported, msg>>
    BY <1>1 DEF InitSupervisor
  <2>2. ~ ignored' => ~ ignored /\ (sup' # NoSup => sup' = Loaded \/ sup' = sup)
    BY <1>1 DEF InitSupervisor
  <2> QED
    BY <1>1, <2>1, <2>2 DEF InitSupervisor, LeftApplying, Assembles
<1>2. CASE InitReport
  BY <1>2 DEF InitReport, Report
<1>3. CASE InitPersist
  BY <1>3, PersistStateFacts DEF InitPersist, TypeOK, States
<1>4. ASSUME NEW h \in Hashes, HandleSameHash(h) PROVE IInv'
  BY <1>4 DEF HandleSameHash, SameHash, Report
<1>5. ASSUME NEW h \in Hashes, HandleFailed(h) PROVE IInv'
  BY <1>5 DEF HandleFailed, Report
<1>6. ASSUME NEW h \in Hashes, HandleRemoteConfig(h) PROVE IInv'
  BY <1>6 DEF HandleRemoteConfig, Report
<1>7. CASE Prepare
  BY <1>7 DEF Prepare, Report
<1>8. CASE StoreRemote
  <2>1. ~ ignored' => /\ remote' = [hash |-> msg, state |-> "Applying"] /\ ~ ignored
                      /\ remote' # NoRemote
    BY <1>8, <1>0 DEF StoreRemote, TypeOK, Status, States
  <2>2. remote' # NoRemote => remote' = remote \/ remote'.hash = msg
    BY <1>8 DEF StoreRemote
  <2> QED
    BY <1>8, <2>1, <2>2 DEF StoreRemote, TypeOK
<1>9. CASE ResetToLocal
  BY <1>9 DEF ResetToLocal
<1>10. CASE AssembleLocal
  BY <1>10 DEF AssembleLocal, Report, TypeOK
<1>11. CASE RunSupervisor
  BY <1>11 DEF RunSupervisor, Report, TypeOK
<1>12. CASE ReportOutcome
  BY <1>12 DEF ReportOutcome, Report
<1>13. CASE PersistOutcome
  BY <1>13, PersistStateFacts DEF PersistOutcome, TypeOK, States
<1>14. CASE CheckHealth
  BY <1>14 DEF CheckHealth
<1>15. CASE RequestStop
  BY <1>15 DEF RequestStop
<1>16. CASE ServeInternal
  BY <1>16 DEF ServeInternal
<1>17. CASE ProcessEnds
  BY <1>17 DEF ProcessEnds
<1>18. CASE UNCHANGED vars
  BY <1>18 DEF vars
<1> QED
  BY <1>1, <1>2, <1>3, <1>4, <1>5, <1>6, <1>7, <1>8, <1>9, <1>10, <1>11, <1>12,
     <1>13, <1>14, <1>15, <1>16, <1>17, <1>18, <1>19 DEF Next, Start, Handle, Handler

(* The inductive invariant holds throughout.                               *)
LEMMA InvCorrect == Spec => []IInv
  BY InvInit, InvStep, PTL DEF Spec

(* A supervisor at rest runs what a restart would load.                    *)
THEOREM RunsWhatIsStoredCorrect == Spec => []RunsWhatIsStored
<1>1. IInv => RunsWhatIsStored
  BY DEF IInv, RestPart, RunsWhatIsStored, AtRest
<1> QED
  BY <1>1, InvCorrect, PTL

(* The last Applied status agrees with the disk in every state, crashes    *)
(* included.                                                               *)
THEOREM AppliedIsStoredCorrect == Spec => []AppliedIsStored
<1>1. IInv => AppliedIsStored
  BY DEF IInv
<1> QED
  BY <1>1, InvCorrect, PTL

(* What is left at Applying can be retried.                                *)
THEOREM ApplyingIsRetriedCorrect == Spec => []ApplyingIsRetried
<1>1. IInv => ApplyingIsRetried
  BY DEF IInv, RestPart, ApplyingIsRetried, AtRest
<1> QED
  BY <1>1, InvCorrect, PTL

-----------------------------------------------------------------------------
(* What is said of a lost supervisor.  A supervisor that is lost is gone,  *)
(* so that its health checker publishes nothing after the failure; a start *)
(* that goes wrong has none, and is only counted as a loss at its end.     *)
LostPart ==
    /\ crashedSup => sup = NoSup
    /\ pc \in {"down", "init", "initReport", "initPersist"} => ~ crashedSup
    /\ pc \in {"initReport", "initPersist"} /\ outcome = "Failed" => sup = NoSup

LossInv == IInv /\ LostPart /\ LossIsUnhealthy

(* What is published last is heard last.                                   *)
LEMMA PublishedLast ==
  ASSUME TypeOK, PublishUnhealthy
  PROVE  LastHeard("unhealthy")'
<1>1. /\ Len(inbox') = Len(inbox) + 1 /\ Len(inbox) \in Nat
      /\ inbox'[Len(inbox) + 1] = "unhealthy"
  BY DEF TypeOK, PublishUnhealthy
<1>2. Len(inbox') \in 1..Len(inbox') /\ (Len(inbox') + 1)..Len(inbox') = {}
  BY <1>1
<1>3. \E i \in 1..Len(inbox') :
         inbox'[i] = "unhealthy" /\ \A j \in (i + 1)..Len(inbox') : inbox'[j] = "stop"
  BY <1>1, <1>2
<1> QED
  BY <1>3 DEF LastHeard

(* A request to stop leaves the health that will be heard as it is.        *)
LEMMA StopIsNotHeard ==
  ASSUME TypeOK, RequestStop, LastHeard("unhealthy")
  PROVE  LastHeard("unhealthy")'
<1>1. /\ Len(inbox') = Len(inbox) + 1 /\ Len(inbox) \in Nat
      /\ inbox'[Len(inbox) + 1] = "stop"
      /\ \A i \in 1..Len(inbox) : inbox'[i] = inbox[i]
      /\ health' = health
  BY DEF TypeOK, RequestStop
<1> QED
  BY <1>1 DEF LastHeard

(* Neither does serving the channel: what leaves it has been heard.        *)
LEMMA ServedIsHeard ==
  ASSUME TypeOK, ServeInternal, ~ ignored', LastHeard("unhealthy")
  PROVE  LastHeard("unhealthy")'
<1>1. /\ Len(inbox) \in Nat \ {0}
      /\ Len(inbox') = Len(inbox) - 1
      /\ \A i \in 1..Len(inbox') : inbox'[i] = inbox[i + 1]
      /\ Head(inbox) = inbox[1]
  BY DEF TypeOK, ServeInternal
<1>2. health' = IF inbox[1] = "stop" THEN health ELSE inbox[1]
  BY <1>1 DEF ServeInternal
<1>3. CASE \A i \in 1..Len(inbox) : inbox[i] = "stop"
  <2>1. inbox[1] = "stop" /\ \A i \in 1..Len(inbox') : inbox'[i] = "stop"
    BY <1>1, <1>3
  <2>2. health = "unhealthy"
    BY <1>3 DEF LastHeard
  <2> QED
    BY <1>2, <2>1, <2>2 DEF LastHeard
<1>4. CASE ~ \A i \in 1..Len(inbox) : inbox[i] = "stop"
  <2>1. PICK i \in 1..Len(inbox) :
          inbox[i] = "unhealthy" /\ \A j \in (i + 1)..Len(inbox) : inbox[j] = "stop"
    BY <1>4 DEF LastHeard
  <2>2. CASE i = 1
    <3>1. \A j \in 1..Len(inbox') : inbox'[j] = "stop"
      BY <1>1, <2>1, <2>2
    <3> QED
      BY <1>2, <2>1, <2>2, <3>1 DEF LastHeard
  <2>3. CASE i # 1
    <3>1. i - 1 \in 1..Len(inbox') /\ inbox'[i - 1] = "unhealthy"
      BY <1>1, <2>1, <2>3
    <3>2. \A j \in ((i - 1) + 1)..Len(inbox') : inbox'[j] = "stop"
      BY <1>1, <2>1, <2>3
    <3> QED
      BY <3>1, <3>2 DEF LastHeard
  <2> QED
    BY <2>2, <2>3
<1> QED
  BY <1>3, <1>4

(* Every action preserves what is said of a lost supervisor.               *)
LEMMA LossStep == LossInv /\ [Next]_vars => LossInv'
<1> SUFFICES ASSUME LossInv, [Next]_vars PROVE LossInv'
  OBVIOUS
<1>0. TypeOK /\ IInv'
  BY InvStep DEF LossInv, IInv
<1>1. LostPart'
  BY <1>0 DEF LossInv, LostPart, IInv, HeardPart, TypeOK, Next, Start, Handle,
      Handler, vars, Goto, Run, InitSupervisor, InitUnhealthy, InitReport,
      InitPersist, HandleSameHash, HandleFailed, HandleRemoteConfig, Prepare,
      StoreRemote, ResetToLocal, AssembleLocal, RunSupervisor, ReportOutcome,
      PersistOutcome, CheckHealth, RequestStop, ServeInternal, ProcessEnds
<1>2. ~ ignored' => ~ ignored
  BY <1>0 DEF TypeOK, Next, Start, Handle, Handler, vars, Run, InitSupervisor,
      InitReport, InitPersist, HandleSameHash, HandleFailed, HandleRemoteConfig,
      Report, PersistState, Prepare, StoreRemote, ResetToLocal, AssembleLocal,
      RunSupervisor, ReportOutcome, PersistOutcome, CheckHealth, RequestStop,
      ServeInternal, ProcessEnds
<1>3. ASSUME ~ ignored', crashedSup' PROVE LastHeard("unhealthy")'
  <2>1. CASE PublishUnhealthy
    BY <1>0, <2>1, PublishedLast
  <2>2. CASE ~ PublishUnhealthy
    <3>1. crashedSup
      BY <1>3, <2>2 DEF Next, Start, Handle, Handler, vars, Run, InitSupervisor,
        InitUnhealthy, InitReport, InitPersist, HandleSameHash, HandleFailed,
        HandleRemoteConfig, Prepare, StoreRemote, ResetToLocal, AssembleLocal,
        RunSupervisor, ReportOutcome, PersistOutcome, CheckHealth, RequestStop,
        ServeInternal, ProcessEnds
    <3>2. sup = NoSup /\ LastHeard("unhealthy")
      BY <1>2, <1>3, <3>1 DEF LossInv, LostPart, LossIsUnhealthy
    <3>3. CASE RequestStop
      BY <1>0, <3>2, <3>3, StopIsNotHeard
    <3>4. CASE ServeInternal
      BY <1>0, <1>3, <3>2, <3>4, ServedIsHeard
    <3>5. CASE ~ RequestStop /\ ~ ServeInternal
      <4>1. UNCHANGED <<inbox, health>>
        BY <1>3, <2>2, <3>2, <3>5 DEF Next, Start, Handle, Handler, vars, Run,
          InitSupervisor, InitUnhealthy, InitReport, InitPersist, HandleSameHash,
          HandleFailed, HandleRemoteConfig, Prepare, StoreRemote, ResetToLocal,
          AssembleLocal, RunSupervisor, ReportOutcome, PersistOutcome,
          CheckHealth, ProcessEnds
      <4> QED
        BY <3>2, <4>1 DEF LastHeard
    <3> QED
      BY <3>3, <3>4, <3>5
  <2> QED
    BY <2>1, <2>2
<1> QED
  BY <1>0, <1>1, <1>3 DEF LossInv, LossIsUnhealthy

(* Whatever made the supervisor go, the last health Fleet hears is         *)
(* unhealthy, however many reports of its checker were still waiting.      *)
THEOREM LossIsUnhealthyCorrect == Spec => []LossIsUnhealthy
<1>1. Init => LossInv
  BY InvInit DEF Init, LossInv, LostPart, LossIsUnhealthy
<1>2. LossInv => LossIsUnhealthy
  BY DEF LossInv
<1> QED
  BY <1>1, <1>2, LossStep, PTL DEF Spec
=============================================================================
