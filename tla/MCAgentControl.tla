--------------------------- MODULE MCAgentControl ---------------------------
(* Two ids and two known agent types, and one message of each shape: two   *)
(* agents; one of them with another type and without the other; a reset;   *)
(* an unusable message; an agent of an unknown type.                       *)
EXTENDS AgentControl

CONSTANTS a, b, t1, t2, tUnknown, both, changed, reset, broken, unknown

MCContent ==
    [h \in Hashes |->
        CASE h = both -> [i \in AgentIds |-> t1]
          [] h = changed -> [i \in AgentIds |-> IF i = a THEN t2 ELSE NoAgent]
          [] h = reset -> Reset
          [] h = broken -> Malformed
          [] h = unknown -> [i \in AgentIds |-> tUnknown]]

MCLocal == [i \in AgentIds |-> IF i = b THEN t1 ELSE NoAgent]
=============================================================================
