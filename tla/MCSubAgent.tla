----------------------------- MODULE MCSubAgent -----------------------------
(* Two configurations that can be applied, so that one can replace the     *)
(* other, and one message of every other shape; the handler treats one     *)
(* that cannot be parsed as one that cannot be assembled.                  *)
EXTENDS SubAgent

CONSTANTS good, better, unassemblable, failed, reset

MCContent ==
    [h \in Hashes |->
        CASE h \in {good, better} -> "config"
          [] h = unassemblable -> "unassemblable"
          [] h = failed -> "failed"
          [] h = reset -> "reset"]
=============================================================================
