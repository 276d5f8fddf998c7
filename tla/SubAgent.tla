------------------------------ MODULE SubAgent ------------------------------
(***************************************************************************)
(* The runtime of one sub-agent: a thread that starts the supervisor of an *)
(* agent from the configuration found on disk, and then serves the         *)
(* configurations Fleet sends for that agent, the health events of the     *)
(* supervisor and the request to stop.                                     *)
(*                                                                         *)
(* Source: agent-control/src/sub_agent.rs, sub_agent/                      *)
(* remote_config_parser.rs, values.rs, values/config_repository.rs,        *)
(* opamp/callbacks.rs, sub_agent/event_handler/on_health.rs.               *)
(*                                                                         *)
(* As in the source, the errors of reporting, storing, deleting and        *)
(* marking a configuration are ignored: the handler goes on.  The history  *)
(* variable `ignored` remembers that one happened.                         *)
(***************************************************************************)
EXTENDS Naturals, Sequences

CONSTANTS
    Hashes,     \* hashes of the remote configurations Fleet may send
    Content,    \* what the message with a given hash carries
    Local,      \* what the local configuration file holds
    LocalMark,  \* "the local configuration", as the source of a supervisor
    NoRemote,   \* no remote configuration is persisted
    NoStatus,   \* nothing was reported to Fleet yet
    NoSup,      \* no supervisor runs
    MaxInbox,   \* bound on the health events waiting in the channel
    Faults      \* the kinds of failure that may happen

(* "config" can be assembled into an effective agent, "unassemblable"      *)
(* cannot; "unparsable" fails a validator, the signature or the parser;    *)
(* "failed" was refused by the OpAMP callbacks; "reset" is empty.          *)
Contents == {"config", "unassemblable", "unparsable", "failed", "reset"}
FaultKinds == {"report", "store", "read", "build", "start", "crash"}

ASSUME ContentAssumption == Content \in [Hashes -> Contents]
ASSUME LocalAssumption == Local \in {"config", "unassemblable", "none"}
ASSUME MarkAssumption == LocalMark \notin Hashes /\ NoSup \notin Hashes \cup {LocalMark}
ASSUME FaultsAssumption == Faults \subseteq FaultKinds
ASSUME MaxInboxAssumption == MaxInbox \in Nat

States == {"Applying", "Applied", "Failed"}
Status == [hash : Hashes, state : States]
ASSUME NoneAssumption == NoRemote \notin Status /\ NoStatus \notin Status

VARIABLES
    (* Disk and Fleet: survive a crash. *)
    remote,    \* persisted remote configuration, with its state
    reported,  \* last status Fleet heard
    health,    \* last health Fleet heard
    (* The runtime thread. *)
    pc,
    sup,       \* configuration the running supervisor was given
    msg,       \* hash of the message in hand
    source,    \* configuration being applied: the message's or the local one
    outcome,   \* how the start or the apply ended
    inbox,     \* internal channel: health events and the request to stop
    (* History. *)
    ignored,   \* an error was ignored, at any time
    crashedSup \* the supervisor was lost to a failed start or apply

vars == <<remote, reported, health, pc, sup, msg, source, outcome, inbox,
          ignored, crashedSup>>

Events == {"healthy", "unhealthy", "stop"}
Sources == Hashes \cup {LocalMark}
Pcs == {"down", "init", "initReport", "initPersist", "idle", "prepare", "reset",
        "assembleLocal", "store", "run", "report", "persist", "ended"}

TypeOK ==
    /\ remote \in Status \cup {NoRemote}
    /\ reported \in Status \cup {NoStatus}
    /\ health \in {"none", "healthy", "unhealthy"}
    /\ pc \in Pcs
    /\ sup \in Sources \cup {NoSup}
    /\ msg \in Hashes
    /\ source \in Sources
    /\ outcome \in {"Applied", "Failed"}
    /\ inbox \in Seq(Events)
    /\ ignored \in BOOLEAN
    /\ crashedSup \in BOOLEAN

Init ==
    /\ remote = NoRemote
    /\ reported = NoStatus
    /\ health = "none"
    /\ pc = "down"
    /\ sup = NoSup
    /\ msg \in Hashes
    /\ source = LocalMark
    /\ outcome = "Applied"
    /\ inbox = <<>>
    /\ ignored = FALSE
    /\ crashedSup = FALSE

-----------------------------------------------------------------------------
MayFail(kind) == kind \in Faults
Goto(label) == pc' = label

(* report_state of the sub-agent: a failure of the OpAMP client is ignored.*)
Report(h, s) ==
    \/ reported' = [hash |-> h, state |-> s] /\ UNCHANGED ignored
    \/ MayFail("report") /\ ignored' = TRUE /\ UNCHANGED reported

(* update_state marks whatever configuration is stored; that there is none,*)
(* or that the write fails, is ignored.                                    *)
PersistState(s) ==
    \/ /\ remote # NoRemote
       /\ remote' = [remote EXCEPT !.state = s]
       /\ UNCHANGED ignored
    \/ remote = NoRemote /\ UNCHANGED <<remote, ignored>>
    \/ MayFail("store") /\ ignored' = TRUE /\ UNCHANGED remote

(* load_remote_fallback_local: the configuration a start would use.        *)
Loaded == IF remote # NoRemote THEN remote.hash
          ELSE IF Local # "none" THEN LocalMark ELSE NoSup

Assembles(s) == IF s = LocalMark THEN Local = "config" ELSE Content[s] = "config"

Waiting(e) == \E i \in DOMAIN inbox : inbox[i] = e

(* Mutant: the error is logged and not published.                          *)
PublishUnhealthy_Lost == UNCHANGED inbox

(* report_unhealthy_from_error publishes to the sub-agent's own channel.   *)
PublishUnhealthy == inbox' = Append(inbox, "unhealthy")

-----------------------------------------------------------------------------
(* run spawns the thread; from here on the stopper may be used.            *)
Run ==
    /\ pc = "down"
    /\ Goto("init")
    /\ UNCHANGED <<remote, reported, health, sup, msg, source, outcome, inbox,
                   ignored, crashedSup>>

(* The failure to start is published when everything else is done.         *)
InitUnhealthy == PublishUnhealthy /\ crashedSup' = TRUE

(* init_supervisor.  Whatever the persisted state, the configuration is    *)
(* tried; only a state left at Applying is resolved afterwards.            *)
LeftApplying == remote # NoRemote /\ remote.state = "Applying"

InitSupervisor ==
    /\ pc = "init"
    /\ \/ /\ Loaded # NoSup
          /\ Assembles(Loaded)
          /\ sup' = Loaded /\ outcome' = "Applied"
          /\ Goto(IF LeftApplying THEN "initReport" ELSE "idle")
          /\ UNCHANGED <<inbox, crashedSup, ignored>>
       \/ /\ Loaded # NoSup
          /\ ~ Assembles(Loaded) \/ MayFail("build") \/ MayFail("start")
          /\ outcome' = "Failed"
          /\ \/ LeftApplying /\ Goto("initReport") /\ UNCHANGED <<inbox, crashedSup>>
             \/ ~ LeftApplying /\ Goto("idle") /\ InitUnhealthy
          /\ UNCHANGED <<sup, ignored>>
       \/ /\ Loaded = NoSup
          /\ Goto("idle")
          /\ UNCHANGED <<sup, outcome, inbox, crashedSup, ignored>>
       \/ /\ MayFail("read") /\ ignored' = TRUE
          /\ Goto("idle")
          /\ UNCHANGED <<sup, outcome, inbox, crashedSup>>
    /\ UNCHANGED <<remote, reported, health, msg, source>>

(* The state of a configuration whose handling was cut short is reported,  *)
(* then persisted.                                                         *)
InitReport ==
    /\ pc = "initReport"
    /\ remote # NoRemote
    /\ Report(remote.hash, outcome)
    /\ Goto("initPersist")
    /\ UNCHANGED <<remote, health, sup, msg, source, outcome, inbox, crashedSup>>

InitPersist ==
    /\ pc = "initPersist"
    /\ PersistState(outcome)
    /\ Goto("idle")
    /\ \/ outcome = "Failed" /\ InitUnhealthy
       \/ outcome = "Applied" /\ UNCHANGED <<inbox, crashedSup>>
    /\ UNCHANGED <<reported, health, sup, msg, source, outcome>>

-----------------------------------------------------------------------------
(* The hash is the stored one and its state is final: report that again.   *)
SameHash(h) == remote # NoRemote /\ remote.hash = h /\ remote.state # "Applying"

HandleSameHash(h) ==
    /\ pc = "idle"
    /\ SameHash(h)
    /\ Report(h, remote.state)
    /\ UNCHANGED <<remote, health, pc, sup, msg, source, outcome, inbox, crashedSup>>

(* Refused by the callbacks: reported Failed, not persisted.  A stored     *)
(* configuration that cannot be read never equals the received one.        *)
HandleFailed(h) ==
    /\ pc = "idle"
    /\ ~ SameHash(h) \/ MayFail("read")
    /\ Content[h] = "failed"
    /\ Report(h, "Failed")
    /\ UNCHANGED <<remote, health, pc, sup, msg, source, outcome, inbox, crashedSup>>

(* Mutant: the message is taken up without reporting Applying.             *)
HandleRemoteConfig_Unreported(h) ==
    /\ pc = "idle"
    /\ ~ SameHash(h)
    /\ Content[h] # "failed"
    /\ msg' = h
    /\ Goto("prepare")
    /\ UNCHANGED <<remote, reported, health, sup, source, outcome, inbox,
                   ignored, crashedSup>>

(* Anything else is reported Applying and taken up.                        *)
HandleRemoteConfig(h) ==
    /\ pc = "idle"
    /\ ~ SameHash(h) \/ MayFail("read")
    /\ Content[h] # "failed"
    /\ Len(inbox) <= MaxInbox
    /\ Report(h, "Applying")
    /\ msg' = h
    /\ Goto("prepare")
    /\ UNCHANGED <<remote, health, sup, source, outcome, inbox, crashedSup>>

(* Parsing and assembling.  A remote configuration that fails either is    *)
(* reported Failed and the supervisor is kept; an empty one is a reset.    *)
Prepare ==
    /\ pc = "prepare"
    /\ \/ /\ Content[msg] \in {"unparsable", "unassemblable"}
          /\ Report(msg, "Failed")
          /\ Goto("idle")
          /\ UNCHANGED source
       \/ /\ Content[msg] = "config"
          /\ source' = msg
          /\ Goto("store")
          /\ UNCHANGED <<reported, ignored>>
       \/ /\ Content[msg] = "reset"
          /\ Goto("reset")
          /\ UNCHANGED <<reported, source, ignored>>
    /\ UNCHANGED <<remote, health, sup, msg, outcome, inbox, crashedSup>>

(* The remote configuration is persisted, as Applying, before it is used.  *)
StoreRemote ==
    /\ pc = "store"
    /\ \/ remote' = [hash |-> msg, state |-> "Applying"] /\ UNCHANGED ignored
       \/ MayFail("store") /\ ignored' = TRUE /\ UNCHANGED remote
    /\ Goto("run")
    /\ UNCHANGED <<reported, health, sup, msg, source, outcome, inbox, crashedSup>>

(* Mutant: the persisted remote configuration survives the reset.          *)
ResetToLocal_KeepsRemote ==
    /\ pc = "reset"
    /\ source' = LocalMark
    /\ Goto("assembleLocal")
    /\ UNCHANGED <<remote, reported, health, sup, msg, outcome, inbox,
                   ignored, crashedSup>>

(* reset_to_local_config deletes the persisted remote configuration.       *)
ResetToLocal ==
    /\ pc = "reset"
    /\ \/ remote' = NoRemote /\ UNCHANGED ignored
       \/ MayFail("store") /\ ignored' = TRUE /\ UNCHANGED remote
    /\ source' = LocalMark
    /\ Goto("assembleLocal")
    /\ UNCHANGED <<reported, health, sup, msg, outcome, inbox, crashedSup>>

(* Mutant: a reset without local configuration stops silently.             *)
AssembleLocal_Silent ==
    /\ pc = "assembleLocal"
    /\ \/ Local = "config" /\ Goto("run") /\ UNCHANGED sup
       \/ /\ Local # "config" \/ MayFail("read")
          /\ Goto("idle")
          /\ sup' = NoSup
    /\ UNCHANGED <<remote, reported, health, msg, source, outcome, inbox,
                   ignored, crashedSup>>

(* Without a local configuration, or with one that cannot be assembled,    *)
(* the supervisor is stopped and the reset still counts as Applied.        *)
AssembleLocal ==
    /\ pc = "assembleLocal"
    /\ \/ /\ Local = "config"
          /\ Goto("run")
          /\ UNCHANGED <<reported, sup, ignored>>
       \/ /\ Local # "config" \/ MayFail("read")
          /\ Report(msg, "Applied")
          /\ sup' = NoSup
          /\ Goto("idle")
    /\ UNCHANGED <<remote, health, msg, source, outcome, inbox, crashedSup>>

(* An existing supervisor is given the configuration, otherwise one is     *)
(* built and started.  A failed apply consumes the supervisor; a failed    *)
(* build is reported but leaves the stored state at Applying.              *)
RunSupervisor ==
    /\ pc = "run"
    /\ \/ /\ sup' = source /\ outcome' = "Applied" /\ crashedSup' = FALSE
          /\ Goto("report")
          /\ UNCHANGED <<inbox, reported, ignored>>
       \/ /\ MayFail("start")
          /\ sup' = NoSup /\ outcome' = "Failed" /\ crashedSup' = TRUE
          /\ PublishUnhealthy
          /\ Goto("report")
          /\ UNCHANGED <<reported, ignored>>
       \/ /\ sup = NoSup /\ MayFail("build")
          /\ Report(msg, "Failed")
          /\ Goto("idle")
          /\ UNCHANGED <<sup, outcome, inbox, crashedSup>>
    /\ UNCHANGED <<remote, health, msg, source>>

(* report_and_persist_state                                                *)
ReportOutcome ==
    /\ pc = "report"
    /\ Report(msg, outcome)
    /\ Goto("persist")
    /\ UNCHANGED <<remote, health, sup, msg, source, outcome, inbox, crashedSup>>

(* Mutant: the outcome is reported and never persisted.                    *)
PersistOutcome_Skipped ==
    /\ pc = "persist"
    /\ Goto("idle")
    /\ UNCHANGED <<remote, reported, health, sup, msg, source, outcome, inbox,
                   ignored, crashedSup>>

PersistOutcome ==
    /\ pc = "persist"
    /\ PersistState(outcome)
    /\ Goto("idle")
    /\ UNCHANGED <<reported, health, sup, msg, source, outcome, inbox, crashedSup>>

Handler ==
    \/ Prepare
    \/ StoreRemote
    \/ ResetToLocal
    \/ AssembleLocal
    \/ RunSupervisor
    \/ ReportOutcome
    \/ PersistOutcome

-----------------------------------------------------------------------------
(* The health checker of the supervisor, a thread of its own, publishes    *)
(* while the supervisor exists; stopping the supervisor joins it.          *)
CheckHealth ==
    /\ sup # NoSup
    /\ Len(inbox) < MaxInbox
    /\ \E e \in {"healthy", "unhealthy"} : inbox' = Append(inbox, e)
    /\ UNCHANGED <<remote, reported, health, pc, sup, msg, source, outcome,
                   ignored, crashedSup>>

(* SubAgentStopper::stop publishes StopRequested, from Agent Control.      *)
RequestStop ==
    /\ pc \notin {"down", "ended"}
    /\ ~ Waiting("stop")
    /\ inbox' = Append(inbox, "stop")
    /\ UNCHANGED <<remote, reported, health, pc, sup, msg, source, outcome,
                   ignored, crashedSup>>

(* Mutant: StopRequested leaves the loop without stopping the supervisor.  *)
ServeInternal_LeavesSupervisor ==
    /\ pc = "idle"
    /\ inbox # <<>>
    /\ inbox' = Tail(inbox)
    /\ \/ Head(inbox) # "stop" /\ health' = Head(inbox) /\ UNCHANGED pc
       \/ Head(inbox) = "stop" /\ Goto("ended") /\ UNCHANGED health
    /\ UNCHANGED <<remote, reported, sup, msg, source, outcome, ignored,
                   crashedSup>>

(* The internal channel is served in order: health is forwarded to Fleet;  *)
(* the request to stop stops the supervisor and ends the thread.           *)
ServeInternal ==
    /\ pc = "idle"
    /\ inbox # <<>>
    /\ inbox' = Tail(inbox)
    /\ \/ /\ Head(inbox) # "stop"
          /\ \/ health' = Head(inbox) /\ UNCHANGED ignored
             \/ MayFail("report") /\ ignored' = TRUE /\ UNCHANGED health
          /\ UNCHANGED <<pc, sup>>
       \/ /\ Head(inbox) = "stop"
          /\ sup' = NoSup
          /\ Goto("ended")
          /\ UNCHANGED <<health, ignored>>
    /\ UNCHANGED <<remote, reported, msg, source, outcome, crashedSup>>

(* The process of Agent Control ends, and is started again.                *)
ProcessEnds ==
    /\ pc = "ended" \/ (pc # "down" /\ MayFail("crash"))
    /\ Goto("down")
    /\ sup' = NoSup /\ inbox' = <<>> /\ crashedSup' = FALSE
    /\ UNCHANGED <<remote, reported, health, msg, source, outcome, ignored>>

Handle(h) == HandleSameHash(h) \/ HandleFailed(h) \/ HandleRemoteConfig(h)

Start == Run \/ InitSupervisor \/ InitReport \/ InitPersist

Next ==
    \/ Start
    \/ \E h \in Hashes : Handle(h)
    \/ Handler
    \/ CheckHealth
    \/ RequestStop
    \/ ServeInternal
    \/ ProcessEnds

Spec == Init /\ [][Next]_vars

(* The thread runs each handler to its end; select! chooses at random      *)
(* among the ready channels, so a waiting internal event is served.        *)
FairSpec == Spec /\ WF_vars(Start) /\ WF_vars(Handler) /\ SF_vars(ServeInternal)

-----------------------------------------------------------------------------
(* A supervisor at rest runs the configuration that a restart would load:  *)
(* what runs, what is stored, what was deleted by a reset and what was     *)
(* rejected never drift apart, unless an error was ignored on the way.     *)
RunsWhatIsStored ==
    (pc = "idle" /\ ~ ignored /\ sup # NoSup) => sup = Loaded

(* Fleet is never left believing that a configuration is applied when the  *)
(* disk has another one (or, after a reset, still has one): a crash at any *)
(* step and the next start do not contradict the last Applied status.      *)
AppliedIsStored ==
    (~ ignored /\ reported # NoStatus /\ reported.state = "Applied") =>
        IF Content[reported.hash] = "reset" THEN remote = NoRemote
        ELSE remote # NoRemote /\ remote.hash = reported.hash

(* A configuration left at Applying on disk while the thread is at rest is *)
(* not running: sending it again is not taken for a duplicate and retries  *)
(* it, and no supervisor is rebuilt needlessly.                            *)
ApplyingIsRetried ==
    (pc = "idle" /\ ~ ignored /\ remote # NoRemote /\ remote.state = "Applying") =>
        sup = NoSup

(* The last health Fleet hears once the channel is served.                 *)
LastHeard(e) ==
    \/ \E i \in 1..Len(inbox) :
          inbox[i] = e /\ \A j \in (i + 1)..Len(inbox) : inbox[j] = "stop"
    \/ health = e /\ \A i \in 1..Len(inbox) : inbox[i] = "stop"

(* After a start or an apply that lost the supervisor, the last health     *)
(* Fleet hears is unhealthy: the events of the lost supervisor's checker   *)
(* are all in the channel before the failure's.                            *)
LossIsUnhealthy ==
    (~ ignored /\ crashedSup /\ sup = NoSup) => LastHeard("unhealthy")

(* Every message taken up is answered with a final status, the reset       *)
(* included, unless the status could not be sent, the thread stops or the  *)
(* process ends.                                                           *)
MessageAnswered ==
    \A h \in Hashes :
        (pc = "prepare" /\ msg = h)
            ~> \/ reported # NoStatus /\ reported.hash = h /\ reported.state # "Applying"
               \/ ignored \/ pc \in {"ended", "down"}

(* A request to stop ends the thread with its supervisor stopped, whatever *)
(* configurations and health events keep arriving.                         *)
StopEnds == Waiting("stop") ~> (pc \in {"ended", "down"} /\ sup = NoSup)
=============================================================================
