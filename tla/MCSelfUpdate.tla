---------------------------- MODULE MCSelfUpdate ----------------------------
(* The installed version, two newer ones, and one that does not pass its   *)
(* verification.                                                           *)
EXTENDS SelfUpdate

CONSTANTS v1, v2, v3, bad

(* Everywhere; everywhere but while a package is extracted.                *)
Anywhere == Pcs
NotExtracting == Pcs \ {"extract"}
=============================================================================
