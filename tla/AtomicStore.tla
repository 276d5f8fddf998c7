----------------------------- MODULE AtomicStore -----------------------------
(***************************************************************************)
(* What the callers of the data store of an agent rely on: a map from keys *)
(* to values that changes and is read in single steps.  Nothing a reader   *)
(* gets is half written, the state of a stored configuration is replaced   *)
(* without touching or resurrecting anything else, and only a fault, of    *)
(* the disk or of the whole process, makes a value unreadable.             *)
(***************************************************************************)
EXTENDS Naturals

CONSTANTS
    Threads,    \* who reads
    Keys,
    Fresh,      \* Fresh[k]: the values that may be put at k
    States,     \* the states a stored configuration may be given
    None, Unreadable

VARIABLES
    val,     \* the value at each key
    got,     \* what each thread read last
    faults   \* number of faults so far

Init ==
    /\ val = [k \in Keys |-> None]
    /\ got = [t \in Threads |-> None]
    /\ faults = 0

Read(t, k) ==
    /\ got' = [got EXCEPT ![t] = val[k]]
    /\ UNCHANGED <<val, faults>>

Put(k, v) ==
    /\ val' = [val EXCEPT ![k] = v]
    /\ UNCHANGED <<got, faults>>

Update(k, s) ==
    /\ val[k] \notin {None, Unreadable}
    /\ val' = [val EXCEPT ![k].state = s]
    /\ UNCHANGED <<got, faults>>

Remove(k) ==
    /\ val' = [val EXCEPT ![k] = None]
    /\ UNCHANGED <<got, faults>>

(* A fault may cost the value of one key.                                  *)
Fault ==
    /\ faults' = faults + 1
    /\ val' = val \/ \E k \in Keys : val' = [val EXCEPT ![k] = Unreadable]
    /\ UNCHANGED got

Next ==
    \/ \E t \in Threads, k \in Keys : Read(t, k)
    \/ \E k \in Keys : \E v \in Fresh[k] : Put(k, v)
    \/ \E s \in States : Update("config", s)
    \/ \E k \in Keys : Remove(k)
    \/ Fault

Spec == Init /\ [][Next]_<<val, got, faults>>
=============================================================================
