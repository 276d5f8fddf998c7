---------------------------- MODULE RestartPolicy ----------------------------
(***************************************************************************)
(* The restart policy of a supervised executable, with its clock: when a   *)
(* process that ended is launched again, after which delay, and when it is *)
(* given up.  OnHostSupervisor uses the policy without measuring time.     *)
(*                                                                         *)
(* Source: agent-control/src/sub_agent/on_host/command/restart_policy.rs,  *)
(* and the loop of sub_agent/on_host/supervisor.rs that drives it.         *)
(***************************************************************************)
EXTENDS Integers

CONSTANTS
    InitialDelay,  \* backoff_delay, in units of time
    Limits,        \* the values max_retries may have, 0 for no limit
    Interval,      \* last_retry_interval
    PowWidth,      \* bits of the power of two: 32 in the code
    MaxRun,        \* bound on the time a process runs
    MaxTries       \* bound on the retries in a row

Assumptions == Limits \subseteq Nat /\ InitialDelay \in Nat /\ PowWidth \in Nat

Strategies == {"fixed", "linear", "exponential"}

VARIABLES
    strategy,
    maxRetries,
    pc,        \* the process runs, has ended, is due again, was given up
    tries,
    elapsed,   \* time since last_retry: last_retry.elapsed()
    (* History. *)
    delay,     \* last delay slept since the counter was reset, or -1
    shortRuns  \* launches since a process outlasted the interval

vars == <<strategy, maxRetries, pc, tries, elapsed, delay, shortRuns>>

TypeOK ==
    /\ strategy \in Strategies
    /\ maxRetries \in Limits
    /\ pc \in {"run", "decide", "backoff", "givenUp"}
    /\ tries \in 0..MaxTries
    /\ elapsed \in 0..MaxRun
    /\ delay \in Int
    /\ shortRuns \in Nat

Init ==
    /\ strategy \in Strategies
    /\ maxRetries \in Limits
    /\ pc = "run"
    /\ tries = 0
    /\ elapsed = 0
    /\ delay = -1
    /\ shortRuns = 1

-----------------------------------------------------------------------------
AtLeastOne(n) == IF n < 1 THEN 1 ELSE n

(* The powers of two.                                                      *)
pow[n \in Nat] == IF n = 0 THEN 1 ELSE 2 * pow[n - 1]

(* Mutant: the power of two is computed in one bit.                        *)
Delay_Truncated(s, n) == InitialDelay * (pow[AtLeastOne(n) - 1] % 2)

(* fixed, linear and exponential; the power is computed in PowWidth bits,  *)
(* and a release build wraps it around.                                    *)
Delay(s, n) ==
    CASE s = "fixed" -> InitialDelay
      [] s = "linear" -> n * InitialDelay
      [] s = "exponential" -> InitialDelay * (pow[AtLeastOne(n) - 1] % pow[PowWidth])

(* The process runs for a while and ends.                                  *)
ProcessEnds ==
    /\ pc = "run"
    /\ \E t \in 0..MaxRun : elapsed' = t
    /\ pc' = "decide"
    /\ UNCHANGED <<strategy, maxRetries, tries, delay, shortRuns>>

(* Mutant: a run of exactly the interval resets the counter.               *)
ShouldBackoff_AtInterval ==
    /\ pc = "decide"
    /\ tries' = IF elapsed >= Interval THEN 0 ELSE tries
    /\ delay' = IF elapsed >= Interval THEN -1 ELSE delay
    /\ shortRuns' = IF elapsed > Interval THEN 0 ELSE shortRuns
    /\ pc' = IF maxRetries = 0 \/ tries' < maxRetries THEN "backoff" ELSE "givenUp"
    /\ UNCHANGED <<strategy, maxRetries, elapsed>>

(* should_backoff                                                          *)
ShouldBackoff ==
    /\ pc = "decide"
    /\ tries' = IF elapsed > Interval THEN 0 ELSE tries
    /\ delay' = IF elapsed > Interval THEN -1 ELSE delay
    /\ shortRuns' = IF elapsed > Interval THEN 0 ELSE shortRuns
    /\ pc' = IF maxRetries = 0 \/ tries' < maxRetries THEN "backoff" ELSE "givenUp"
    /\ UNCHANGED <<strategy, maxRetries, elapsed>>

(* backoff: sleep, and count the retry after the sleep.                    *)
Backoff ==
    /\ pc = "backoff"
    /\ tries < MaxTries
    /\ delay' = Delay(strategy, tries)
    /\ tries' = tries + 1
    /\ elapsed' = 0
    /\ pc' = "run"
    /\ shortRuns' = shortRuns + 1
    /\ UNCHANGED <<strategy, maxRetries>>

Next == ProcessEnds \/ ShouldBackoff \/ Backoff

Spec == Init /\ [][Next]_vars

-----------------------------------------------------------------------------
(* An executable none of whose runs outlasts the interval is launched at   *)
(* most max_retries + 1 times, the boundary included.                      *)
ShortRunsBounded == maxRetries # 0 => shortRuns <= maxRetries + 1

(* Within a sequence of retries the delay never shrinks, as long as the    *)
(* power of two fits its width.                                            *)
DelaysGrow ==
    [][(Backoff /\ delay >= 0 /\ tries <= PowWidth) => delay' >= delay]_vars
=============================================================================
