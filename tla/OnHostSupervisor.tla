-------------------------- MODULE OnHostSupervisor --------------------------
(***************************************************************************)
(* The on-host supervisor: one thread per executable of an agent, which    *)
(* launches the process, watches it and restarts it as its restart policy  *)
(* allows; a health checker thread; and the sub-agent's thread, which      *)
(* starts the supervisor, applies a new configuration to it or stops it.   *)
(*                                                                         *)
(* Source: agent-control/src/sub_agent/on_host/supervisor.rs,              *)
(* sub_agent/on_host/command/{command_os,restart_policy}.rs,               *)
(* utils/thread_context.rs, event/cancellation.rs,                         *)
(* checkers/health/health_checker.rs, checkers/health/on_host/exec.rs.     *)
(*                                                                         *)
(* Each configuration of the agent has its own executables.  Time is not   *)
(* measured: a timeout may expire at any moment, and whether a run lasted  *)
(* longer than the policy's last_retry_interval is a choice.               *)
(***************************************************************************)
EXTENDS Naturals, Sequences, FiniteSets

CONSTANTS
    Configs,      \* the configurations the agent may be given
    Executables,  \* the executables of each, in order
    Execs,        \* all the executables
    Checker,      \* the health checker, as a thread to stop
    NoConfig,     \* no configuration: the supervisor does not exist
    MaxRetries,   \* max_retries of the restart policy, 0 for no limit
    Faults        \* the kinds of failure that may happen

FaultKinds == {"install", "write", "runtime", "spawn", "wait", "kill"}
InConfig(c) == {Executables[c][i] : i \in 1..Len(Executables[c])}

ASSUME ExecutablesAssumption ==
    /\ Executables \in [Configs -> Seq(Execs)]
    /\ \A c, d \in Configs : c # d => InConfig(c) \cap InConfig(d) = {}
    /\ \A c \in Configs : \A i, j \in DOMAIN Executables[c] :
          Executables[c][i] = Executables[c][j] => i = j
ASSUME CheckerAssumption == Checker \notin Execs
ASSUME NoConfigAssumption == NoConfig \notin Configs
ASSUME MaxRetriesAssumption == MaxRetries \in Nat
ASSUME FaultsAssumption == Faults \subseteq FaultKinds

Threads == Execs \cup {Checker}

VARIABLES
    (* The sub-agent's thread. *)
    config,     \* configuration of the started supervisor
    goal,       \* what follows the stop under way: a configuration or none
    installed,  \* installation_result of the apply under way
    pending,    \* threads the stop under way has still to join
    signalled,  \* the first of them has been sent its cancellation
    (* The cancellation channel of every thread. *)
    chan,
    (* The thread of every executable, and its process. *)
    pc,
    proc,
    cancelled,  \* was_cancelled of wait_exit
    told,       \* healthy_already_published
    tries,      \* of the restart policy
    (* Health. *)
    published,  \* last health each executable sent to the checker
    seen,       \* execs_health of the checker
    hpc,        \* the checker's thread
    health,     \* last health the checker published to the sub-agent
    (* History. *)
    gaveUp      \* the thread ended because the policy was exceeded

caller == <<config, goal, installed, pending, signalled>>
execVars == <<pc, proc, cancelled, told, tries, published, gaveUp>>
checkVars == <<seen, hpc, health>>
vars == <<caller, chan, execVars, checkVars>>

ExecPcs == {"off", "check", "launch", "wait", "shutdown", "decide", "backoff", "ended"}
Healths == {"none", "healthy", "unhealthy"}

TypeOK ==
    /\ config \in Configs \cup {NoConfig}
    /\ goal \in Configs \cup {NoConfig}
    /\ installed \in BOOLEAN
    /\ pending \in Seq(Threads)
    /\ signalled \in BOOLEAN
    /\ chan \in [Threads -> {"open", "sent", "dropped"}]
    /\ pc \in [Execs -> ExecPcs]
    /\ proc \in [Execs -> {"none", "running", "success", "failure"}]
    /\ cancelled \in [Execs -> BOOLEAN]
    /\ told \in [Execs -> BOOLEAN]
    /\ tries \in [Execs -> 0..MaxRetries]
    /\ published \in [Execs -> Healths]
    /\ seen \in [Execs -> Healths]
    /\ hpc \in {"off", "delay", "check", "wait", "ended"}
    /\ health \in Healths
    /\ gaveUp \in [Execs -> BOOLEAN]

Init ==
    /\ config = NoConfig
    /\ goal = NoConfig
    /\ installed = TRUE
    /\ pending = <<>>
    /\ signalled = FALSE
    /\ chan = [t \in Threads |-> "open"]
    /\ pc = [e \in Execs |-> "off"]
    /\ proc = [e \in Execs |-> "none"]
    /\ cancelled = [e \in Execs |-> FALSE]
    /\ told = [e \in Execs |-> FALSE]
    /\ tries = [e \in Execs |-> 0]
    /\ published = [e \in Execs |-> "none"]
    /\ seen = [e \in Execs |-> "none"]
    /\ hpc = "off"
    /\ health = "none"
    /\ gaveUp = [e \in Execs |-> FALSE]

MayFail(kind) == kind \in Faults
Goto(e, label) == pc' = [pc EXCEPT ![e] = label]
Publish(e, h) == published' = [published EXCEPT ![e] = h]

(* Mutant: a disconnected publisher is not a cancellation.                 *)
IsCancelled_MessageOnly(t) == chan[t] = "sent"

(* is_cancelled: a message or a disconnected publisher.  The message is    *)
(* received once; the disconnection is seen for ever.                      *)
IsCancelled(t) == chan[t] # "open"
TakeMessage(t) == chan' = [chan EXCEPT ![t] = IF @ = "sent" THEN "open" ELSE @]

(* The stop under way, and threads whose supervisor was dropped unstopped. *)
Stopping == pending # <<>>
Abandoned(t) == chan[t] = "dropped"
Ended(t) == IF t = Checker THEN hpc = "ended" ELSE pc[t] = "ended"
NotRunning(t) == Ended(t) \/ IF t = Checker THEN hpc = "off" ELSE pc[t] = "off"

-----------------------------------------------------------------------------
(* The sub-agent's thread.                                                 *)

(* spin_up: the files are written and the health client is built before    *)
(* any thread exists (the executables' threads start when the iterator is  *)
(* collected); then one thread per executable, and the checker, each with  *)
(* channels of its own.                                                    *)
SpinUp(c) ==
    LET es == InConfig(c)
    IN /\ config' = c
       /\ pc' = [e \in Execs |-> IF e \in es THEN "check" ELSE pc[e]]
       /\ tries' = [e \in Execs |-> IF e \in es THEN 0 ELSE tries[e]]
       /\ gaveUp' = [e \in Execs |-> IF e \in es THEN FALSE ELSE gaveUp[e]]
       /\ published' = [e \in Execs |-> "none"]
       /\ chan' = [t \in Threads |-> IF t \in es \cup {Checker} THEN "open" ELSE chan[t]]
       /\ seen' = [e \in Execs |-> "none"]
       /\ hpc' = "delay"
       /\ UNCHANGED <<proc, cancelled, told, health>>

(* start: install the packages, then spin up; a failure of either leaves   *)
(* nothing running.  A dropped supervisor may still be running: only its   *)
(* own names, and the checker's, are not used again before they end.       *)
Start(c) ==
    /\ config = NoConfig
    /\ \A t \in InConfig(c) \cup {Checker} : NotRunning(t)
    /\ \/ SpinUp(c)
       \/ /\ MayFail("install") \/ MayFail("write")
          /\ UNCHANGED <<config, chan, execVars, checkVars>>
    /\ UNCHANGED <<goal, installed, pending, signalled>>

(* stop_supervisor_threads: executables first, the checker last.           *)
BeginStop(next) ==
    /\ config # NoConfig
    /\ ~ Stopping
    /\ goal' = next
    /\ pending' = Append(Executables[config], Checker)
    /\ signalled' = FALSE

Stop == BeginStop(NoConfig) /\ UNCHANGED <<config, installed, chan, execVars, checkVars>>

(* apply installs the new packages while the old configuration runs, and   *)
(* stops it whatever the result of that.  As in Start, the names of a      *)
(* dropped supervisor are not used again before its threads end.           *)
Apply(c) ==
    /\ BeginStop(c)
    /\ \A e \in InConfig(c) \ InConfig(config) : NotRunning(e)
    /\ installed' \in {TRUE, ~ MayFail("install")}
    /\ UNCHANGED <<config, chan, execVars, checkVars>>

(* apply returns early without an on-host configuration: the supervisor is *)
(* dropped, and the publishers of its threads with it.                     *)
ApplyDropped ==
    /\ MayFail("runtime")
    /\ config # NoConfig
    /\ ~ Stopping
    /\ config' = NoConfig
    /\ chan' = [t \in Threads |-> IF t \in InConfig(config) \cup {Checker}
                                  THEN "dropped" ELSE chan[t]]
    /\ UNCHANGED <<goal, installed, pending, signalled, execVars, checkVars>>

(* stop_blocking: try to publish the cancellation (nobody receives it if   *)
(* the thread has ended already) ...                                       *)
Signal ==
    /\ Stopping /\ ~ signalled
    /\ signalled' = TRUE
    /\ chan' = [chan EXCEPT ![Head(pending)] = IF Ended(Head(pending)) THEN @ ELSE "sent"]
    /\ UNCHANGED <<config, goal, installed, pending, execVars, checkVars>>

(* Mutant: the executable is signalled and not waited for.                 *)
JoinExecutable_NoWait ==
    /\ Stopping /\ signalled
    /\ Head(pending) # Checker
    /\ pending' = Tail(pending)
    /\ signalled' = FALSE
    /\ UNCHANGED <<config, goal, installed, chan, execVars, checkVars>>

(* ... and join.  What the thread kept is gone with it.                    *)
JoinExecutable ==
    /\ Stopping /\ signalled
    /\ Head(pending) # Checker
    /\ Ended(Head(pending))
    /\ pending' = Tail(pending)
    /\ signalled' = FALSE
    /\ Goto(Head(pending), "off")
    /\ tries' = [tries EXCEPT ![Head(pending)] = 0]
    /\ gaveUp' = [gaveUp EXCEPT ![Head(pending)] = FALSE]
    /\ UNCHANGED <<config, goal, installed, chan, proc, cancelled, told,
                   published, checkVars>>

(* After the last thread a stop is done; an apply goes on with the new     *)
(* configuration, unless its installation failed.                          *)
JoinChecker ==
    /\ Stopping /\ signalled
    /\ Head(pending) = Checker
    /\ Ended(Checker)
    /\ pending' = <<>>
    /\ signalled' = FALSE
    /\ \/ goal # NoConfig /\ installed /\ SpinUp(goal)
       \/ /\ goal = NoConfig \/ ~ installed \/ MayFail("write")
          /\ config' = NoConfig
          /\ UNCHANGED <<chan, execVars, checkVars>>
    /\ UNCHANGED <<goal, installed>>

Caller ==
    \/ \E c \in Configs : Start(c) \/ Apply(c)
    \/ Stop
    \/ ApplyDropped
    \/ Signal
    \/ JoinExecutable
    \/ JoinChecker

-----------------------------------------------------------------------------
(* The thread of an executable: the loop of start_process_thread.          *)

CheckCancelled(e) ==
    /\ pc[e] = "check"
    /\ \/ IsCancelled(e) /\ TakeMessage(e) /\ Goto(e, "ended")
       \/ ~ IsCancelled(e) /\ Goto(e, "launch") /\ UNCHANGED chan
    /\ UNCHANGED <<proc, cancelled, told, tries, published, gaveUp>>

Launch(e) ==
    /\ pc[e] = "launch"
    /\ \/ /\ proc' = [proc EXCEPT ![e] = "running"]
          /\ Goto(e, "wait")
          /\ UNCHANGED published
       \/ /\ MayFail("spawn")
          /\ Publish(e, "unhealthy")
          /\ Goto(e, "decide")
          /\ UNCHANGED proc
    /\ UNCHANGED <<chan, cancelled, told, tries, gaveUp>>

(* Once the process has run for HEALTHY_DELAY, it is published healthy.    *)
PublishHealthyOnce(e) ==
    \/ ~ told[e] /\ Publish(e, "healthy") /\ told' = [told EXCEPT ![e] = TRUE]
    \/ UNCHANGED <<published, told>>

(* Mutant: the cancellation ends the thread without shutting down.         *)
WaitExit_NoShutdown(e) ==
    /\ pc[e] = "wait" /\ proc[e] = "running"
    /\ IsCancelled(e)
    /\ TakeMessage(e)
    /\ Goto(e, "ended")
    /\ UNCHANGED <<proc, cancelled, told, tries, published, gaveUp>>

(* One turn of the loop of wait_exit while the process runs.               *)
WaitExit(e) ==
    /\ pc[e] = "wait" /\ proc[e] = "running"
    /\ \/ ~ IsCancelled(e) /\ PublishHealthyOnce(e) /\ UNCHANGED <<chan, pc, cancelled>>
       \/ /\ IsCancelled(e)
          /\ TakeMessage(e)
          /\ cancelled' = [cancelled EXCEPT ![e] = TRUE]
          /\ Goto(e, "shutdown")
          /\ UNCHANGED <<published, told>>
    /\ UNCHANGED <<proc, tries, gaveUp>>

(* Mutant: a process that ignores SIGTERM is not killed.                   *)
Shutdown_NoKill(e) ==
    /\ pc[e] = "shutdown"
    /\ Goto(e, "wait")
    /\ PublishHealthyOnce(e)
    /\ UNCHANGED <<chan, proc, cancelled, tries, gaveUp>>

(* shutdown: SIGTERM, and SIGKILL if the process outlives the timeout; the *)
(* failure to kill is logged.  The turn of the loop then ends.             *)
Shutdown(e) ==
    /\ pc[e] = "shutdown"
    /\ \/ proc[e] = "running" /\ proc' = [proc EXCEPT ![e] = "failure"]
       \/ proc[e] = "running" /\ MayFail("kill") /\ UNCHANGED proc
       \/ proc[e] # "running" /\ UNCHANGED proc
    /\ Goto(e, "wait")
    /\ PublishHealthyOnce(e)
    /\ UNCHANGED <<chan, cancelled, tries, gaveUp>>

(* The process has ended: wait collects its status, handle_exit publishes  *)
(* a failure.  A failure of wait itself is taken for one of the launch,    *)
(* and was_cancelled is lost with it.                                      *)
Exited(e) ==
    /\ pc[e] = "wait" /\ proc[e] \in {"success", "failure"}
    /\ proc' = [proc EXCEPT ![e] = "none"]
    /\ \/ /\ proc[e] = "success"
          /\ IF told[e] THEN UNCHANGED published ELSE Publish(e, "healthy")
          /\ Goto(e, IF cancelled[e] THEN "ended" ELSE "decide")
       \/ /\ proc[e] = "failure"
          /\ Publish(e, "unhealthy")
          /\ Goto(e, IF cancelled[e] THEN "ended" ELSE "decide")
       \/ MayFail("wait") /\ Publish(e, "unhealthy") /\ Goto(e, "decide")
    /\ cancelled' = [cancelled EXCEPT ![e] = FALSE]
    /\ told' = [told EXCEPT ![e] = FALSE]
    /\ UNCHANGED <<chan, tries, gaveUp>>

(* should_retry: a run longer than last_retry_interval resets the counter. *)
MayRetry(t) == MaxRetries = 0 \/ t < MaxRetries

(* Mutant: giving up is not published.                                     *)
ShouldRetry_GivesUpSilently(e) ==
    /\ pc[e] = "decide"
    /\ tries' = [tries EXCEPT ![e] = 0]
    /\ gaveUp' = [gaveUp EXCEPT ![e] = TRUE]
    /\ Goto(e, "ended")
    /\ UNCHANGED <<chan, proc, cancelled, told, published>>

ShouldRetry(e) ==
    /\ pc[e] = "decide"
    /\ \E reset \in BOOLEAN :
         LET t == IF reset THEN 0 ELSE tries[e]
         IN /\ tries' = [tries EXCEPT ![e] = t]
            /\ \/ MayRetry(t) /\ Goto(e, "backoff") /\ UNCHANGED <<published, gaveUp>>
               \/ /\ ~ MayRetry(t)
                  /\ Publish(e, "unhealthy")
                  /\ gaveUp' = [gaveUp EXCEPT ![e] = TRUE]
                  /\ Goto(e, "ended")
    /\ UNCHANGED <<chan, proc, cancelled, told>>

(* wait_restart: the delay is cut short by the cancellation.  Without a    *)
(* limit the counter only drives the delay, and is left out.               *)
WaitRestart(e) ==
    /\ pc[e] = "backoff"
    /\ tries' = [tries EXCEPT ![e] = IF MaxRetries = 0 THEN 0 ELSE @ + 1]
    /\ \/ IsCancelled(e) /\ TakeMessage(e) /\ Goto(e, "ended")
       \/ ~ IsCancelled(e) /\ Goto(e, "check") /\ UNCHANGED chan
    /\ UNCHANGED <<proc, cancelled, told, published, gaveUp>>

(* The operating system: a process ends by itself or because of SIGTERM.   *)
ProcessExits(e) ==
    /\ proc[e] = "running"
    /\ \E status \in {"success", "failure"} : proc' = [proc EXCEPT ![e] = status]
    /\ UNCHANGED <<caller, chan, pc, cancelled, told, tries, published,
                   gaveUp, checkVars>>

ExecThread(e) ==
    /\ \/ CheckCancelled(e)
       \/ Launch(e)
       \/ WaitExit(e)
       \/ Shutdown(e)
       \/ Exited(e)
       \/ ShouldRetry(e)
       \/ WaitRestart(e)
    /\ UNCHANGED <<caller, checkVars>>

-----------------------------------------------------------------------------
(* The health checker: an initial delay that nothing cuts short, then      *)
(* checks until it is cancelled.  A check takes every message waiting and  *)
(* is unhealthy if the last one of some executable is.                     *)
CheckerStep ==
    /\ \/ hpc = "delay" /\ hpc' = "check" /\ UNCHANGED <<chan, seen, health>>
       \/ /\ hpc = "check"
          /\ seen' = [e \in Execs |-> IF published[e] # "none" THEN published[e]
                                      ELSE seen[e]]
          /\ health' = IF \E e \in Execs : seen'[e] = "unhealthy"
                       THEN "unhealthy" ELSE "healthy"
          /\ hpc' = "wait"
          /\ UNCHANGED chan
       \/ /\ hpc = "wait"
          /\ \/ IsCancelled(Checker) /\ TakeMessage(Checker) /\ hpc' = "ended"
             \/ ~ IsCancelled(Checker) /\ hpc' = "check" /\ UNCHANGED chan
          /\ UNCHANGED <<seen, health>>
    /\ UNCHANGED <<caller, execVars>>

Next ==
    \/ Caller
    \/ \E e \in Execs : ExecThread(e) \/ ProcessExits(e)
    \/ CheckerStep

Spec == Init /\ [][Next]_vars

(* Threads are scheduled, and timeouts expire.  Nothing is assumed of the  *)
(* processes, nor of what the sub-agent asks for.                          *)
FairSpec ==
    /\ Spec
    /\ \A e \in Execs : WF_vars(ExecThread(e))
    /\ WF_vars(CheckerStep)
    /\ WF_vars(Signal) /\ WF_vars(JoinExecutable) /\ WF_vars(JoinChecker)

-----------------------------------------------------------------------------
(* A thread that was joined, or ended by itself, has left no process: no   *)
(* interleaving of exits, restarts, shutdown and cancellation loses one.   *)
NoOrphanProcess ==
    \A e \in Execs : pc[e] \notin {"wait", "shutdown"} => proc[e] = "none"

(* The processes of two configurations never run at the same time: apply   *)
(* waits for every old process before it launches a new one.               *)
OneConfiguration ==
    \A e, f \in Execs :
        (proc[e] # "none" /\ proc[f] # "none") =>
            \E c \in Configs : {e, f} \subseteq InConfig(c)

(* An executable that was given up makes the agent unhealthy, unless it is *)
(* stopped before.                                                         *)
GivenUpIsReported ==
    \A e \in Execs :
        gaveUp[e] ~> (health = "unhealthy" \/ Stopping \/ config = NoConfig)

(* A stop completes whatever the processes do: ignoring SIGTERM, exiting   *)
(* just before the signal, crashing in a loop or waiting for a restart.    *)
StopCompletes == Stopping ~> ~ Stopping

(* The threads of a dropped supervisor end, and their processes with them. *)
AbandonedEnd ==
    \A e \in Execs : Abandoned(e) ~> (Ended(e) /\ proc[e] = "none")
=============================================================================
