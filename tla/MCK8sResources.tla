--------------------------- MODULE MCK8sResources ---------------------------
(* Agent a has an object x in both types, which its second configuration   *)
(* of type t1 replaces by y; agent b has an object of the same name x with *)
(* its first configuration.  Fleet may change the type of a, and replace   *)
(* it by b.                                                                *)
EXTENDS K8sResources

CONSTANTS a, b, t1, t2, v1, v2, x, y

MCManifest ==
    [m \in Agents \X Types \X Versions |->
        CASE m = <<a, t1, v2>> -> {y}
          [] m[1] = b /\ m[3] = v2 -> {}
          [] OTHER -> {x}]

Of(ta, tb) == [i \in Agents |-> IF i = a THEN ta ELSE tb]
MCConfigs == {Of(t1, NoType), Of(t2, NoType), Of(NoType, t1)}
=============================================================================
