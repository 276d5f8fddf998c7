---------------------------- MODULE PackageManager ----------------------------
(***************************************************************************)
(* The package directories of one on-host agent: what an install leaves on *)
(* disk, which older packages it purges, and what the supervisor that asks *)
(* for the installs then runs.                                             *)
(*                                                                         *)
(* Source: agent-control/src/package/oci/package_manager.rs,               *)
(* package/post_download_hook_executor.rs, and the callers in              *)
(* sub_agent/on_host/supervisor.rs (start, apply, install_packages).       *)
(*                                                                         *)
(* A package stands for an id and an OCI reference: one directory.  The    *)
(* manager tracks the latest install per agent, not per package id.        *)
(***************************************************************************)
EXTENDS FiniteSets, Naturals

CONSTANTS
    Packages,   \* the packages the agent may be given
    Configs,    \* its configurations: the sets of packages they list
    Hooked,     \* the packages with a post_download_hook
    NoPackage,  \* nothing is tracked
    Faults      \* the kinds of failure that may happen

FaultKinds == {"download", "extract", "delete", "hook", "spinUp", "crash"}

ASSUME ConfigsAssumption == Configs \subseteq SUBSET Packages
ASSUME HookedAssumption == Hooked \subseteq Packages
ASSUME NoPackageAssumption == NoPackage \notin Packages
ASSUME FaultsAssumption == Faults \subseteq FaultKinds

VARIABLES
    dirs,     \* what the directory of each package holds
    pc,
    wanted,   \* configuration being installed
    todo,     \* its packages that are not installed yet
    pkg,      \* the package in hand
    latest,   \* latest_installed_packages of the agent
    running,  \* packages of the configuration the supervisor runs
    (* History. *)
    marred    \* a hook or a deletion failed, or the process was killed

vars == <<dirs, pc, wanted, todo, pkg, latest, running, marred>>

Contents == {"none", "partial", "unhooked", "whole"}
Pcs == {"idle", "loop", "download", "extract", "hook", "clean", "retain",
        "installed", "failed"}
Present == {p \in Packages : dirs[p] # "none"}

TypeOK ==
    /\ dirs \in [Packages -> Contents]
    /\ pc \in Pcs
    /\ wanted \subseteq Packages
    /\ todo \subseteq wanted
    /\ pkg \in Packages
    /\ latest \in Packages \cup {NoPackage}
    /\ running \subseteq Packages
    /\ marred \in BOOLEAN

Init ==
    /\ dirs = [p \in Packages |-> "none"]
    /\ pc = "idle"
    /\ wanted = {}
    /\ todo = {}
    /\ pkg \in Packages
    /\ latest = NoPackage
    /\ running = {}
    /\ marred = FALSE

MayFail(kind) == kind \in Faults
Goto(label) == pc' = label
Holds(what) == dirs' = [dirs EXCEPT ![pkg] = what]

-----------------------------------------------------------------------------
(* start, without a supervisor, or apply, while one runs: the packages are *)
(* installed one after the other, in the order of a hash map.              *)
InstallPackages(c) ==
    /\ pc = "idle"
    /\ wanted' = c /\ todo' = c
    /\ Goto("loop")
    /\ UNCHANGED <<dirs, pkg, latest, running, marred>>

(* install: a directory that exists is an installed package.               *)
Install(p) ==
    /\ pc = "loop"
    /\ p \in todo
    /\ pkg' = p
    /\ Goto(IF dirs[p] = "none" THEN "download" ELSE "retain")
    /\ UNCHANGED <<dirs, wanted, todo, latest, running, marred>>

(* Download to the temporary location, then create the directory.          *)
Download ==
    /\ pc = "download"
    /\ \/ Holds("partial") /\ Goto("extract")
       \/ MayFail("download") /\ Goto("failed") /\ UNCHANGED dirs
    /\ UNCHANGED <<wanted, todo, pkg, latest, running, marred>>

(* Mutant: the directory of a failed extraction stays.                     *)
ExtractPackage_LeavesDirectory ==
    /\ pc = "extract"
    /\ Goto("failed")
    /\ UNCHANGED <<dirs, wanted, todo, pkg, latest, running, marred>>

(* A failed extraction deletes the directory; that this fails is logged.   *)
ExtractPackage ==
    /\ pc = "extract"
    /\ \/ /\ Holds(IF pkg \in Hooked THEN "unhooked" ELSE "whole")
          /\ Goto(IF pkg \in Hooked THEN "hook" ELSE "clean")
          /\ UNCHANGED marred
       \/ MayFail("extract") /\ Holds("none") /\ Goto("failed") /\ UNCHANGED marred
       \/ /\ MayFail("extract") /\ MayFail("delete") /\ marred' = TRUE
          /\ Goto("failed")
          /\ UNCHANGED dirs
    /\ UNCHANGED <<wanted, todo, pkg, latest, running>>

(* The post-download hook, in the extracted directory.                     *)
ExecuteHook ==
    /\ pc = "hook"
    /\ \/ Holds("whole") /\ Goto("clean") /\ UNCHANGED marred
       \/ MayFail("hook") /\ marred' = TRUE /\ Goto("failed") /\ UNCHANGED dirs
    /\ UNCHANGED <<wanted, todo, pkg, latest, running>>

(* The temporary location must be deleted for the install to succeed.      *)
DeleteTemporary ==
    /\ pc = "clean"
    /\ \/ Goto("retain") /\ UNCHANGED marred
       \/ MayFail("delete") /\ marred' = TRUE /\ Goto("failed")
    /\ UNCHANGED <<dirs, wanted, todo, pkg, latest, running>>

Installed == todo' = todo \ {pkg} /\ Goto(IF todo = {pkg} THEN "installed" ELSE "loop")

(* Mutants: the tracked package is replaced before it is read; nothing is  *)
(* purged.                                                                 *)
RetainPackages_OnlyNew ==
    /\ pc = "retain"
    /\ latest' = pkg
    /\ dirs' = [p \in Packages |-> IF p = pkg THEN dirs[p] ELSE "none"]
    /\ Installed
    /\ UNCHANGED <<wanted, pkg, running, marred>>

RetainPackages_NoPurge ==
    /\ pc = "retain"
    /\ latest' = pkg
    /\ Installed
    /\ UNCHANGED <<dirs, wanted, pkg, running, marred>>

(* retain_packages: the new package and the one tracked before it are      *)
(* kept, every other package of the agent is uninstalled.                  *)
RetainPackages ==
    /\ pc = "retain"
    /\ latest' = pkg
    /\ LET purged == Present \ {pkg, latest}
       IN \E kept \in (IF MayFail("delete") THEN SUBSET purged ELSE {{}}) :
            /\ dirs' = [p \in Packages |-> IF p \in purged \ kept THEN "none" ELSE dirs[p]]
            /\ \/ kept = {} /\ Installed /\ UNCHANGED marred
               \/ kept # {} /\ marred' = TRUE /\ Goto("failed") /\ UNCHANGED todo
    /\ UNCHANGED <<wanted, pkg, running>>

(* The old threads are stopped, and the new configuration is spun up if    *)
(* its packages are installed: a failure leaves nothing running.           *)
SpinUp ==
    /\ pc = "installed" \/ (pc = "loop" /\ todo = {})
    /\ running' \in {wanted} \cup (IF MayFail("spinUp") THEN {{}} ELSE {})
    /\ Goto("idle")
    /\ UNCHANGED <<dirs, wanted, todo, pkg, latest, marred>>

InstallFails ==
    /\ pc = "failed"
    /\ running' = {}
    /\ Goto("idle")
    /\ UNCHANGED <<dirs, wanted, todo, pkg, latest, marred>>

Stop ==
    /\ pc = "idle"
    /\ running' = {}
    /\ UNCHANGED <<dirs, pc, wanted, todo, pkg, latest, marred>>

(* Agent Control ends, and its executables with it; what is tracked is     *)
(* forgotten.                                                              *)
Crash ==
    /\ MayFail("crash")
    /\ pc' = "idle"
    /\ running' = {}
    /\ latest' = NoPackage
    /\ marred' = TRUE
    /\ UNCHANGED <<dirs, wanted, todo, pkg>>

Next ==
    \/ \E c \in Configs : InstallPackages(c)
    \/ \E p \in Packages : Install(p)
    \/ Download
    \/ ExtractPackage
    \/ ExecuteHook
    \/ DeleteTemporary
    \/ RetainPackages
    \/ SpinUp
    \/ InstallFails
    \/ Stop
    \/ Crash

Spec == Init /\ [][Next]_vars

-----------------------------------------------------------------------------
(* What the supervisor runs keeps its directories: no purge, whatever      *)
(* installs fail and whenever the process is killed, reaches a package of  *)
(* the configuration that runs, while it is replaced by another one with a *)
(* single package and, with two packages, once it has been replaced.       *)
Lone(c) == \A p, q \in c : p = q
RunningKept ==
    (pc = "idle" \/ (Lone(running) /\ Lone(wanted))) => running \subseteq Present

(* What runs was extracted completely, and its hook has run: an install    *)
(* that failed is not taken for an installed package when it is tried      *)
(* again, unless a hook or a deletion failed or the process was killed.    *)
RunsComplete == (pc = "idle" /\ ~ marred) => \A p \in running : dirs[p] = "whole"

(* At rest an agent has at most two packages on disk: versions that fail   *)
(* to install do not pile up, unless they could not be deleted.            *)
DiskBounded == (pc = "idle" /\ ~ marred) => Cardinality(Present) <= 2

(* "If the script exits with a non-zero status code, the package           *)
(* installation fails." (docs/INTEGRATING_AGENTS.md): no package runs      *)
(* whose hook did not succeed.                                             *)
HookFailureFails == \A p \in running : dirs[p] # "unhooked"
=============================================================================
