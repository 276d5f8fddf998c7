----------------------- MODULE OnHostSupervisor_proofs -----------------------
(***************************************************************************)
(* No interleaving of exits, restarts, cancellations and joins loses a     *)
(* process of the on-host supervisor, and the processes of two             *)
(* configurations run together only when a supervisor was dropped: for all *)
(* configurations, executables, retry limits and kinds of failure.         *)
(*                                                                         *)
(* What has to be known is which threads can be running.  They belong to   *)
(* the started configuration or to a dropped supervisor, and during a stop *)
(* to the threads that are still to be joined.                             *)
(***************************************************************************)
EXTENDS OnHostSupervisor, TLAPS

Running(e) == pc[e] \notin {"off", "ended"}

(* A thread about to wait for its next try has one left.                   *)
TryLeft == \A e \in Execs : pc[e] = "backoff" => MayRetry(tries[e])

(* A running thread is one of the started configuration, or its publisher  *)
(* is gone, which happens only to a supervisor that is dropped.            *)
Owned ==
    \A e \in Execs :
        /\ Running(e) => Abandoned(e) \/ (config # NoConfig /\ e \in InConfig(config))
        /\ config # NoConfig /\ e \in InConfig(config) => ~ Abandoned(e)
        /\ Abandoned(e) => MayFail("runtime")

(* During a stop the checker is joined last, and every running thread of   *)
(* the old configuration is still to be joined.                            *)
Pending ==
    Stopping =>
        /\ config # NoConfig
        /\ \A i \in 1..Len(pending) :
              /\ pending[i] \in InConfig(config) \cup {Checker}
              /\ pending[i] = Checker <=> i = Len(pending)
        /\ \A e \in InConfig(config) :
              Running(e) => \E i \in 1..Len(pending) : pending[i] = e

(* The new configuration of an apply has no thread of its own yet.         *)
GoalFree ==
    Stopping /\ goal # NoConfig =>
        \A e \in InConfig(goal) \ InConfig(config) : ~ Running(e)

IInv ==
    /\ TypeOK
    /\ TryLeft
    /\ Owned
    /\ Pending
    /\ GoalFree
    /\ NoOrphanProcess

-----------------------------------------------------------------------------
(* The executables of a configuration are executables.                     *)
LEMMA InConfigExecs ==
    ASSUME NEW c \in Configs
    PROVE  /\ InConfig(c) \subseteq Execs
           /\ Executables[c] \in Seq(Execs)
           /\ InConfig(c) = {Executables[c][i] : i \in 1..Len(Executables[c])}
<1>1. Executables[c] \in Seq(Execs)
  BY ExecutablesAssumption
<1>2. QED
  BY <1>1 DEF InConfig

(* The initial states satisfy the inductive invariant.                     *)
LEMMA InitIInv == Init => IInv
<1>. SUFFICES ASSUME Init PROVE IInv
  OBVIOUS
<1>1. TypeOK
  <2>1. 0 \in 0..MaxRetries
    BY MaxRetriesAssumption
  <2>2. pending \in Seq(Threads)
    BY DEF Init
  <2>3. QED
    BY <2>1, <2>2 DEF Init, TypeOK, ExecPcs, Healths
<1>2. TryLeft /\ Owned /\ Pending /\ GoalFree /\ NoOrphanProcess
  BY DEF Init, TryLeft, Owned, Running, Abandoned, Pending, GoalFree, Stopping,
         NoOrphanProcess, Threads
<1>3. QED
  BY <1>1, <1>2 DEF IInv

(* A thread that takes its message does not lose sight of a publisher that *)
(* is gone.                                                                *)
LEMMA TakeMessageKeeps ==
    ASSUME TypeOK, NEW t \in Threads, TakeMessage(t) \/ UNCHANGED chan
    PROVE  /\ chan' \in [Threads -> {"open", "sent", "dropped"}]
           /\ \A u \in Threads : Abandoned(u)' <=> Abandoned(u)
BY DEF TypeOK, TakeMessage, Abandoned

(* Who may run is not disturbed when no thread starts and no publisher is  *)
(* dropped.                                                                *)
LEMMA NobodyStarts ==
    ASSUME IInv, UNCHANGED caller,
           \A e \in Execs : Running(e)' => Running(e),
           \A t \in Threads : Abandoned(t)' <=> Abandoned(t)
    PROVE  Owned' /\ Pending' /\ GoalFree'
<1>. USE DEF IInv, caller
<1>1. config \in Configs \cup {NoConfig} /\ goal \in Configs \cup {NoConfig}
  BY DEF TypeOK
<1>2. Owned'
  BY DEF Owned, MayFail, InConfig, Threads
<1>3. Pending'
  <2>1. Stopping => config # NoConfig
    BY DEF Pending
  <2>2. Stopping => InConfig(config) \subseteq Execs
    BY <1>1, <2>1, InConfigExecs
  <2>3. QED
    BY <2>1, <2>2 DEF Pending, Stopping, InConfig
<1>4. GoalFree'
  <2>1. goal # NoConfig => InConfig(goal) \subseteq Execs
    BY <1>1, InConfigExecs
  <2>2. QED
    BY <2>1 DEF GoalFree, Stopping, InConfig
<1>5. QED
  BY <1>2, <1>3, <1>4

(* A step of the thread of an executable.                                  *)
LEMMA ExecStep ==
    ASSUME IInv, NEW e \in Execs, ExecThread(e)
    PROVE  IInv'
<1>. USE DEF IInv, ExecThread
<1>1. UNCHANGED <<caller, checkVars>> /\ e \in Threads
  BY DEF Threads
<1>2. TakeMessage(e) \/ UNCHANGED chan
  BY DEF CheckCancelled, Launch, WaitExit, Shutdown, Exited, ShouldRetry, WaitRestart
<1>3. /\ chan' \in [Threads -> {"open", "sent", "dropped"}]
      /\ \A u \in Threads : Abandoned(u)' <=> Abandoned(u)
  BY <1>1, <1>2, TakeMessageKeeps
<1>4. Running(e)
  BY DEF Running, CheckCancelled, Launch, WaitExit, Shutdown, Exited, ShouldRetry, WaitRestart
<1>5. /\ pc' \in [Execs -> ExecPcs]
      /\ \A f \in Execs \ {e} : pc'[f] = pc[f]
  BY DEF TypeOK, ExecPcs, Goto, CheckCancelled, Launch, WaitExit, Shutdown, Exited,
         ShouldRetry, WaitRestart
<1>6. Owned' /\ Pending' /\ GoalFree'
  BY <1>1, <1>3, <1>4, <1>5, NobodyStarts DEF Running
<1>7. TypeOK' /\ TryLeft'
  <2>1. tries' \in [Execs -> 0..MaxRetries] /\ TryLeft'
    <3>1. CASE ShouldRetry(e)
      BY <3>1, MaxRetriesAssumption DEF ShouldRetry, TypeOK, TryLeft, Goto, MayRetry
    <3>2. CASE WaitRestart(e)
      BY <3>2, MaxRetriesAssumption DEF WaitRestart, TypeOK, TryLeft, Goto, MayRetry
    <3>3. CASE ~ ShouldRetry(e) /\ ~ WaitRestart(e)
      BY <3>3 DEF TypeOK, TryLeft, Goto, MayRetry, CheckCancelled, Launch,
           WaitExit, Shutdown, Exited
    <3>4. QED
      BY <3>1, <3>2, <3>3
  <2>2. proc' \in [Execs -> {"none", "running", "success", "failure"}]
    BY DEF TypeOK, CheckCancelled, Launch, WaitExit, Shutdown, Exited, ShouldRetry, WaitRestart
  <2>3. published' \in [Execs -> Healths]
    BY DEF TypeOK, Healths, Publish, PublishHealthyOnce, CheckCancelled, Launch,
           WaitExit, Shutdown, Exited, ShouldRetry, WaitRestart
  <2>4. cancelled' \in [Execs -> BOOLEAN] /\ gaveUp' \in [Execs -> BOOLEAN]
    BY DEF TypeOK, CheckCancelled, Launch, WaitExit, Shutdown, Exited, ShouldRetry, WaitRestart
  <2>5. told' \in [Execs -> BOOLEAN]
    BY DEF TypeOK, PublishHealthyOnce, CheckCancelled, Launch, WaitExit, Shutdown, Exited,
           ShouldRetry, WaitRestart
  <2>6. QED
    BY <1>1, <1>3, <1>5, <2>1, <2>2, <2>3, <2>4, <2>5 DEF TypeOK, caller, checkVars
<1>8. NoOrphanProcess'
  BY <1>5 DEF TypeOK, NoOrphanProcess, Goto, CheckCancelled, Launch, WaitExit, Shutdown,
         Exited, ShouldRetry, WaitRestart
<1>9. QED
  BY <1>6, <1>7, <1>8

(* A process ends.                                                         *)
LEMMA ProcessExitsStep ==
    ASSUME IInv, NEW e \in Execs, ProcessExits(e)
    PROVE  IInv'
<1>. USE DEF IInv, ProcessExits
<1>1. Owned' /\ Pending' /\ GoalFree'
  BY NobodyStarts DEF Running, Abandoned
<1>2. TypeOK' /\ TryLeft'
  BY DEF TypeOK, TryLeft, MayRetry, caller, checkVars
<1>3. NoOrphanProcess'
  BY DEF TypeOK, NoOrphanProcess
<1>4. QED
  BY <1>1, <1>2, <1>3

(* A step of the health checker.                                           *)
LEMMA CheckerStepKeeps ==
    ASSUME IInv, CheckerStep
    PROVE  IInv'
<1>. USE DEF IInv, CheckerStep
<1>1. UNCHANGED <<caller, execVars>> /\ Checker \in Threads
  BY DEF Threads
<1>2. TakeMessage(Checker) \/ UNCHANGED chan
  OBVIOUS
<1>3. /\ chan' \in [Threads -> {"open", "sent", "dropped"}]
      /\ \A u \in Threads : Abandoned(u)' <=> Abandoned(u)
  BY <1>1, <1>2, TakeMessageKeeps
<1>4. Owned' /\ Pending' /\ GoalFree'
  BY <1>1, <1>3, NobodyStarts DEF Running, execVars
<1>5. TypeOK'
  <2>1. seen' \in [Execs -> Healths] /\ health' \in Healths
    BY DEF TypeOK, Healths
  <2>2. hpc' \in {"off", "delay", "check", "wait", "ended"}
    BY DEF TypeOK
  <2>3. QED
    BY <1>1, <1>3, <2>1, <2>2 DEF TypeOK, caller, execVars
<1>6. TryLeft' /\ NoOrphanProcess'
  BY <1>1 DEF execVars, TryLeft, MayRetry, NoOrphanProcess
<1>7. QED
  BY <1>4, <1>5, <1>6

(* Threads are started only where none is running, once the others of the  *)
(* supervisor have ended.                                                  *)
LEMMA SpinUpStep ==
    ASSUME IInv, NEW c \in Configs, SpinUp(c),
           pending' = <<>>, signalled' \in BOOLEAN, UNCHANGED <<goal, installed>>,
           \A e \in InConfig(c) : ~ Running(e),
           \A e \in Execs : Running(e) => Abandoned(e)
    PROVE  IInv'
<1>. USE DEF IInv, SpinUp
<1>1. InConfig(c) \subseteq Execs /\ c # NoConfig
  BY InConfigExecs, NoConfigAssumption
<1>2. Checker \notin InConfig(c)
  BY <1>1, CheckerAssumption
<1>3. TypeOK'
  <2>1. tries' \in [Execs -> 0..MaxRetries]
    <3>1. 0 \in 0..MaxRetries
      BY MaxRetriesAssumption
    <3>2. QED
      BY <3>1 DEF TypeOK
  <2>2. pc' \in [Execs -> ExecPcs] /\ chan' \in [Threads -> {"open", "sent", "dropped"}]
    BY DEF TypeOK, ExecPcs
  <2>3. gaveUp' \in [Execs -> BOOLEAN]
    BY DEF TypeOK
  <2>4. published' \in [Execs -> Healths] /\ seen' \in [Execs -> Healths]
    BY DEF Healths
  <2>5. pending' \in Seq(Threads)
    OBVIOUS
  <2>6. QED
    BY <2>1, <2>2, <2>3, <2>4, <2>5 DEF TypeOK
<1>4. TryLeft'
  BY DEF TypeOK, TryLeft, MayRetry
<1>5. Owned'
  <2>1. InConfig(config)' = InConfig(c)
    BY DEF InConfig
  <2>2. \A e \in InConfig(c) : chan'[e] = "open"
    BY <1>1 DEF Threads
  <2>3. \A e \in Execs \ InConfig(c) : chan'[e] = chan[e] /\ pc'[e] = pc[e]
    BY CheckerAssumption DEF Threads
  <2>4. QED
    BY <1>1, <2>1, <2>2, <2>3 DEF Owned, Running, Abandoned, MayFail
<1>6. Pending' /\ GoalFree'
  BY DEF Pending, GoalFree, Stopping
<1>7. NoOrphanProcess'
  BY DEF TypeOK, NoOrphanProcess, Running
<1>8. QED
  BY <1>3, <1>4, <1>5, <1>6, <1>7

(* The supervisor is started.                                              *)
LEMMA StartStep ==
    ASSUME IInv, NEW c \in Configs, Start(c)
    PROVE  IInv'
<1>1. CASE SpinUp(c)
  <2>1. pending = <<>> /\ config = NoConfig
    BY DEF IInv, Pending, Stopping, Start
  <2>2. InConfig(c) \subseteq Execs
    BY InConfigExecs
  <2>3. \A e \in InConfig(c) : ~ Running(e)
    BY <2>2, CheckerAssumption DEF Start, NotRunning, Ended, Running
  <2>4. \A e \in Execs : Running(e) => Abandoned(e)
    BY <2>1 DEF IInv, Owned
  <2>5. QED
    BY <1>1, <2>1, <2>3, <2>4, SpinUpStep DEF Start, IInv, TypeOK
<1>2. CASE UNCHANGED <<config, chan, execVars, checkVars>>
  <2>1. UNCHANGED <<caller, chan, execVars, checkVars>>
    BY <1>2 DEF Start, caller
  <2>2. Owned' /\ Pending' /\ GoalFree'
    BY <2>1, NobodyStarts DEF Running, Abandoned, execVars
  <2>3. TypeOK' /\ TryLeft' /\ NoOrphanProcess'
    BY <2>1 DEF IInv, TypeOK, TryLeft, MayRetry, NoOrphanProcess, caller, execVars, checkVars
  <2>4. QED
    BY <2>2, <2>3 DEF IInv
<1>3. QED
  BY <1>1, <1>2 DEF Start

(* A stop begins: every thread of the configuration is to be joined.       *)
LEMMA BeginStopStep ==
    ASSUME IInv, Stop \/ \E c \in Configs : Apply(c)
    PROVE  IInv'
<1>. USE DEF IInv
<1>1. PICK g \in Configs \cup {NoConfig} :
        /\ BeginStop(g)
        /\ g # NoConfig => \A e \in InConfig(g) \ InConfig(config) : NotRunning(e)
  BY NoConfigAssumption DEF Stop, Apply
<1>2. /\ UNCHANGED <<config, chan, execVars, checkVars>>
      /\ installed' \in BOOLEAN
  BY DEF Stop, Apply, TypeOK, MayFail
<1>3. /\ config \in Configs /\ config # NoConfig
      /\ goal' = g /\ pending' = Append(Executables[config], Checker) /\ signalled' = FALSE
  BY <1>1 DEF BeginStop, TypeOK
<1>4. DEFINE s == Executables[config]
<1>5. s \in Seq(Execs) /\ InConfig(config) = {s[i] : i \in 1..Len(s)}
  BY <1>3, InConfigExecs
<1>6. /\ pending' \in Seq(Threads)
      /\ Len(pending') = Len(s) + 1
      /\ \A i \in 1..Len(s) : pending'[i] = s[i]
      /\ pending'[Len(s) + 1] = Checker
  BY <1>3, <1>5 DEF Threads
<1>7. Len(s) \in Nat /\ \A i \in 1..Len(s) : s[i] \in Execs
  BY <1>5
<1>8. TypeOK' /\ TryLeft' /\ NoOrphanProcess'
  BY <1>1, <1>2, <1>3, <1>6 DEF TypeOK, TryLeft, MayRetry, NoOrphanProcess, execVars, checkVars
<1>9. Owned'
  BY <1>2 DEF Owned, Running, Abandoned, execVars, InConfig, MayFail
<1>10. Pending'
  <2>1. config' # NoConfig
    BY <1>2, <1>3
  <2>2. \A i \in 1..Len(pending') :
          /\ pending'[i] \in InConfig(config) \cup {Checker}
          /\ pending'[i] = Checker <=> i = Len(pending')
    BY <1>5, <1>6, <1>7, CheckerAssumption
  <2>3. \A e \in InConfig(config) : \E i \in 1..Len(pending') : pending'[i] = e
    BY <1>5, <1>6, <1>7
  <2>4. QED
    <3>1. InConfig(config)' = InConfig(config)
      BY <1>2 DEF InConfig
    <3>2. QED
      BY <2>1, <2>2, <2>3, <3>1 DEF Pending
<1>11. GoalFree'
  <2>1. ASSUME g # NoConfig PROVE InConfig(g) \subseteq Execs
    BY <2>1, InConfigExecs
  <2>2. QED
    BY <1>1, <1>2, <1>3, <2>1, CheckerAssumption DEF GoalFree, InConfig, NotRunning, Ended, Running, execVars
<1>12. QED
  BY <1>8, <1>9, <1>10, <1>11

(* A supervisor is dropped: its threads are abandoned.                     *)
LEMMA ApplyDroppedStep ==
    ASSUME IInv, ApplyDropped
    PROVE  IInv'
<1>. USE DEF IInv, ApplyDropped
<1>1. config \in Configs /\ InConfig(config) \subseteq Execs
  BY InConfigExecs DEF TypeOK
<1>2. TypeOK' /\ TryLeft' /\ NoOrphanProcess'
  BY DEF TypeOK, TryLeft, MayRetry, NoOrphanProcess, execVars, checkVars
<1>3. Owned'
  BY <1>1, CheckerAssumption DEF TypeOK, Owned, Running, Abandoned, execVars, Threads, MayFail
<1>4. Pending' /\ GoalFree'
  BY DEF Pending, GoalFree, Stopping
<1>5. QED
  BY <1>2, <1>3, <1>4

(* A cancellation is sent to a thread of the started configuration.        *)
LEMMA SignalStep ==
    ASSUME IInv, Signal
    PROVE  IInv'
<1>. USE DEF IInv, Signal
<1>1. /\ pending \in Seq(Threads) /\ pending # <<>>
      /\ Head(pending) = pending[1] /\ 1 \in 1..Len(pending)
  BY DEF TypeOK, Stopping
<1>2. /\ config # NoConfig /\ Head(pending) \in InConfig(config) \cup {Checker}
      /\ Head(pending) \in Threads
  BY <1>1 DEF Pending
<1>3. chan' \in [Threads -> {"open", "sent", "dropped"}]
  BY <1>2 DEF TypeOK
<1>4. TypeOK' /\ TryLeft' /\ NoOrphanProcess'
  BY <1>3 DEF TypeOK, TryLeft, MayRetry, NoOrphanProcess, execVars, checkVars
<1>5. Owned'
  BY <1>2, CheckerAssumption DEF TypeOK, Owned, Running, Abandoned, execVars, Threads, MayFail, InConfig
<1>6. Pending'
  BY DEF Pending, Stopping, Running, execVars, InConfig
<1>7. GoalFree'
  BY DEF GoalFree, Stopping, Running, execVars, InConfig
<1>8. QED
  BY <1>4, <1>5, <1>6, <1>7

(* A thread that has ended is joined.                                      *)
LEMMA JoinExecutableStep ==
    ASSUME IInv, JoinExecutable
    PROVE  IInv'
<1>. USE DEF IInv, JoinExecutable, Goto
<1>. DEFINE h == Head(pending)
<1>1. /\ pending \in Seq(Threads) /\ pending # <<>>
      /\ h = pending[1] /\ 1 \in 1..Len(pending) /\ Len(pending) \in Nat
  BY DEF TypeOK, Stopping
<1>2. h \in Execs /\ pc[h] = "ended"
  BY <1>1 DEF Threads, Ended
<1>3. /\ pending' \in Seq(Threads)
      /\ Len(pending') = Len(pending) - 1
      /\ \A i \in 1..Len(pending') : pending'[i] = pending[i + 1]
  BY <1>1
<1>4. \A e \in Execs : Running(e)' <=> Running(e)
  BY <1>2 DEF Running, TypeOK
<1>5. TypeOK' /\ TryLeft'
  <2>1. tries' \in [Execs -> 0..MaxRetries]
    <3>1. 0 \in 0..MaxRetries
      BY MaxRetriesAssumption
    <3>2. QED
      BY <3>1 DEF TypeOK
  <2>2. pc' \in [Execs -> ExecPcs] /\ gaveUp' \in [Execs -> BOOLEAN]
    BY DEF TypeOK, ExecPcs
  <2>3. TypeOK'
    BY <1>3, <2>1, <2>2 DEF TypeOK, checkVars
  <2>4. TryLeft'
    BY <1>2 DEF TypeOK, TryLeft, MayRetry
  <2>5. QED
    BY <2>3, <2>4
<1>6. NoOrphanProcess'
  BY <1>2 DEF NoOrphanProcess, TypeOK
<1>7. Owned'
  BY <1>4 DEF Owned, Abandoned, InConfig, MayFail
<1>8. Pending'
  <2>1. config \in Configs /\ InConfig(config) \subseteq Execs
    BY InConfigExecs DEF TypeOK, Pending
  <2>2. \A i \in 1..Len(pending') : i + 1 \in 1..Len(pending)
    BY <1>1, <1>3
  <2>3. \A i \in 1..Len(pending') :
          /\ pending'[i] \in InConfig(config) \cup {Checker}
          /\ pending'[i] = Checker <=> i = Len(pending')
    <3>. TAKE i \in 1..Len(pending')
    <3>1. /\ pending[i + 1] \in InConfig(config) \cup {Checker}
          /\ pending[i + 1] = Checker <=> i + 1 = Len(pending)
      BY <2>2 DEF Pending
    <3>2. i + 1 = Len(pending) <=> i = Len(pending')
      BY <1>1, <1>3
    <3>3. QED
      BY <1>3, <3>1, <3>2
  <2>4. ASSUME NEW e \in InConfig(config), Running(e)'
        PROVE  \E i \in 1..Len(pending') : pending'[i] = e
    <3>1. Running(e) /\ e # h
      BY <1>2, <1>4, <2>1, <2>4 DEF Running
    <3>2. PICK i \in 1..Len(pending) : pending[i] = e
      BY <3>1 DEF Pending
    <3>3. i # 1 /\ i - 1 \in 1..Len(pending')
      BY <1>1, <1>3, <3>1, <3>2
    <3>4. pending'[i - 1] = pending[i]
      BY <1>3, <3>2, <3>3
    <3>5. QED
      BY <3>2, <3>3, <3>4
  <2>5. QED
    BY <2>3, <2>4 DEF Pending, InConfig
<1>9. GoalFree'
  <2>1. goal # NoConfig => InConfig(goal) \subseteq Execs
    BY InConfigExecs DEF TypeOK
  <2>2. QED
    BY <1>4, <2>1 DEF GoalFree, Stopping, InConfig
<1>10. QED
  BY <1>5, <1>6, <1>7, <1>8, <1>9

(* The checker is joined last: no thread of the old configuration is left. *)
LEMMA JoinCheckerStep ==
    ASSUME IInv, JoinChecker
    PROVE  IInv'
<1>. USE DEF IInv, JoinChecker
<1>1. /\ pending \in Seq(Threads) /\ pending # <<>>
      /\ pending[1] = Checker /\ 1 \in 1..Len(pending)
  BY DEF TypeOK, Stopping
<1>2. Len(pending) = 1 /\ config # NoConfig /\ config \in Configs
  BY <1>1 DEF Pending, TypeOK
<1>3. InConfig(config) \subseteq Execs
  BY <1>2, InConfigExecs
<1>4. \A e \in InConfig(config) : ~ Running(e)
  BY <1>1, <1>2, <1>3, CheckerAssumption DEF Pending
<1>5. \A e \in Execs : Running(e) => Abandoned(e)
  BY <1>4 DEF Owned
<1>6. CASE goal # NoConfig /\ SpinUp(goal)
  <2>1. goal \in Configs
    BY <1>6 DEF TypeOK
  <2>2. \A e \in InConfig(goal) : ~ Running(e)
    BY <1>4, <1>6 DEF GoalFree
  <2>3. QED
    BY <1>5, <1>6, <2>1, <2>2, SpinUpStep
<1>7. CASE config' = NoConfig /\ UNCHANGED <<chan, execVars, checkVars>>
  <2>1. TypeOK'
    <3>1. pending' = <<>> /\ signalled' = FALSE /\ UNCHANGED <<goal, installed>>
      OBVIOUS
    <3>2. <<>> \in Seq(Threads)
      OBVIOUS
    <3>3. QED
      BY <1>7, <3>1, <3>2 DEF TypeOK, execVars, checkVars
  <2>2. TryLeft' /\ NoOrphanProcess'
    BY <1>7 DEF TryLeft, MayRetry, NoOrphanProcess, execVars
  <2>3. Owned'
    BY <1>5, <1>7 DEF Owned, Running, Abandoned, execVars, MayFail
  <2>4. Pending' /\ GoalFree'
    BY DEF Pending, GoalFree, Stopping
  <2>5. QED
    BY <2>1, <2>2, <2>3, <2>4
<1>8. QED
  BY <1>6, <1>7

(* Every step preserves the inductive invariant.                           *)
LEMMA NextIInv == ASSUME IInv, [Next]_vars PROVE IInv'
<1>1. CASE UNCHANGED vars
  <2>1. UNCHANGED <<caller, chan, execVars, checkVars>>
    BY <1>1 DEF vars
  <2>2. Owned' /\ Pending' /\ GoalFree'
    BY <2>1, NobodyStarts DEF Running, Abandoned, execVars
  <2>3. TypeOK' /\ TryLeft' /\ NoOrphanProcess'
    BY <2>1 DEF IInv, TypeOK, TryLeft, MayRetry, NoOrphanProcess, caller, execVars, checkVars
  <2>4. QED
    BY <2>2, <2>3 DEF IInv
<1>2. CASE Next
  BY <1>2, StartStep, BeginStopStep, ApplyDroppedStep, SignalStep, JoinExecutableStep,
     JoinCheckerStep, ExecStep, ProcessExitsStep, CheckerStepKeeps DEF Next, Caller
<1>3. QED
  BY <1>1, <1>2

(* The inductive invariant holds in every reachable state.                 *)
LEMMA Invariant == Spec => []IInv
BY InitIInv, NextIInv, PTL DEF Spec

(* The variables keep their types: in particular, no executable is         *)
(* restarted more often in a row than its policy allows.                   *)
THEOREM TypeCorrect == Spec => []TypeOK
<1>1. IInv => TypeOK
  BY DEF IInv
<1>2. QED
  BY <1>1, Invariant, PTL

(* No thread ends or is joined while its process is alive, whatever fails. *)
THEOREM NoOrphanProcessCorrect == Spec => []NoOrphanProcess
<1>1. IInv => NoOrphanProcess
  BY DEF IInv
<1>2. QED
  BY <1>1, Invariant, PTL

(* The processes of supervisors that were not dropped are of one           *)
(* configuration, whatever fails.                                          *)
OneStarted ==
    \A e, f \in Execs :
        proc[e] # "none" /\ proc[f] # "none" /\ ~ Abandoned(e) /\ ~ Abandoned(f)
            => \E c \in Configs : {e, f} \subseteq InConfig(c)

(* Whatever fails, two processes of different configurations run together  *)
(* only if one of them belongs to a supervisor that apply dropped.         *)
THEOREM OneStartedCorrect == Spec => []OneStarted
<1>1. ASSUME IInv PROVE OneStarted
  <2>1. config \in Configs \cup {NoConfig}
    BY <1>1 DEF IInv, TypeOK
  <2>2. \A e \in Execs : proc[e] # "none" => Running(e)
    BY <1>1 DEF IInv, NoOrphanProcess, Running
  <2>3. \A e \in Execs : proc[e] # "none" /\ ~ Abandoned(e)
                           => config \in Configs /\ e \in InConfig(config)
    BY <1>1, <2>1, <2>2 DEF IInv, Owned
  <2>4. QED
    BY <2>3 DEF OneStarted
<1>2. QED
  BY <1>1, Invariant, PTL

(* Where a configuration always has an on-host part, so that apply never   *)
(* drops a supervisor unstopped, the processes of two configurations never *)
(* run together, whatever else fails.                                      *)
THEOREM OneConfigurationCorrect ==
    ASSUME ~ MayFail("runtime")
    PROVE  Spec => []OneConfiguration
<1>1. ASSUME IInv, OneStarted PROVE OneConfiguration
  <2>1. \A e \in Execs : ~ Abandoned(e)
    BY <1>1 DEF IInv, Owned
  <2>2. QED
    BY <1>1, <2>1 DEF OneStarted, OneConfiguration
<1>2. QED
  BY <1>1, Invariant, OneStartedCorrect, PTL
=============================================================================
