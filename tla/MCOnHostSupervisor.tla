------------------------- MODULE MCOnHostSupervisor -------------------------
(* A configuration with two executables, and one with a single executable. *)
EXTENDS OnHostSupervisor

CONSTANTS c1, c2, x, y, z

MCExecutables == [c \in Configs |-> IF c = c1 THEN <<x, y>> ELSE <<z>>]
MCExecs == {x, y, z}
=============================================================================
