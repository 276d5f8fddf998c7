-------------------------- MODULE MCPackageManager --------------------------
(* An agent whose type lists no package, one or two of them, in two        *)
(* versions each; a sub-agent is recreated when its type changes.          *)
EXTENDS PackageManager

CONSTANTS p, q, r, s

UpToTwo == {{}, {p}, {q}, {r}, {p, q}, {r, s}}
=============================================================================
