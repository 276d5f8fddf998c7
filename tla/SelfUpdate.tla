----------------------------- MODULE SelfUpdate -----------------------------
(***************************************************************************)
(* The on-host self-update of Agent Control: the version updater with its  *)
(* backoff gate, the replacement of the binary on disk, and the three      *)
(* places that call the updater: the start of the process, the handling of *)
(* a remote configuration, and the retry ticker.                           *)
(*                                                                         *)
(* Source: agent-control/src/agent_control/version_updater/on_host.rs,     *)
(* utils/backoff_gate.rs, agent_control.rs (run, process_events,           *)
(* validate_apply_store_remote_config), self-replacer/src/replacer.rs,     *)
(* package/oci/package_manager.rs.                                         *)
(*                                                                         *)
(* A configuration is reduced to the version it asks for.  An upgrade is   *)
(* cut into the steps that touch the disk: the process may be killed       *)
(* between any two of them.                                                *)
(***************************************************************************)
EXTENDS Naturals

CONSTANTS
    Versions,     \* versions of Agent Control
    Broken,       \* those that do not pass `verify` on this host
    Installed,    \* the version installed by the package manager
    NoVersion,    \* the configuration asks for no version; no gate key
    Missing,      \* no file at that path
    Platforms,    \* where it may run: "unix", "windows"
    SameDevice,   \* packages and binary are on one filesystem
    KillPoints,   \* where the process may be killed
    MaxMessages,  \* bound on the configurations Fleet sends
    MaxCrashes,   \* bound on the times the process is killed
    Faults        \* the kinds of failure that may happen

FaultKinds == {"install", "disk", "store"}

ASSUME VersionsAssumption ==
    /\ Broken \subseteq Versions
    /\ Installed \in Versions \ Broken
    /\ NoVersion \notin Versions
    /\ Missing \notin Versions
ASSUME HostAssumption ==
    Platforms \subseteq {"unix", "windows"} /\ SameDevice \in BOOLEAN
ASSUME BoundsAssumption == MaxMessages \in Nat /\ MaxCrashes \in Nat
ASSUME FaultsAssumption == Faults \subseteq FaultKinds

VARIABLES
    platform,  \* the target_family the build is for
    (* Disk. *)
    exe,       \* the binary the service manager starts
    bak,       \* its backup
    stored,    \* version in the persisted configuration
    pkgs,      \* package directories: absent, whole, or without usable binary
    (* The process. *)
    pc,
    running,   \* AGENT_CONTROL_VERSION
    caller,    \* who called update: the start, a configuration, the ticker
    target,    \* the version update was called with
    latest,    \* latest_installed_packages, for Agent Control itself
    key,       \* the gate: version it tracks
    cooling,   \*   ... and whether now < next_attempt_at
    restart,   \* SelfUpdateRestartRequested is in the channel
    (* History. *)
    messages, crashes

files == <<exe, bak>>
call == <<caller, target>>
gate == <<key, cooling>>
history == <<messages, crashes>>
pkgVars == <<pkgs, latest>>
vars == <<platform, files, stored, pkgVars, pc, running, call, gate, restart,
          history>>

Pcs == {"down", "boot", "idle", "update", "install", "extract", "retain",
        "verify", "backup", "stage", "rename", "restore", "publish", "failed", "store"}
Upgrading == {"install", "extract", "retain", "verify", "backup", "stage",
              "rename", "restore", "publish", "failed"}
Asked == Versions \cup {NoVersion}
File == Versions \cup {Missing}

TypeOK ==
    /\ platform \in Platforms
    /\ exe \in File
    /\ bak \in File
    /\ stored \in Asked
    /\ pkgs \in [Versions -> {"none", "whole", "torn"}]
    /\ latest \in Asked
    /\ pc \in Pcs
    /\ running \in Versions
    /\ caller \in {"boot", "config", "retry"}
    /\ target \in (IF pc \in Upgrading THEN Versions ELSE Asked)
    /\ key \in Asked
    /\ cooling \in BOOLEAN
    /\ restart \in BOOLEAN
    /\ messages \in 0..MaxMessages
    /\ crashes \in 0..MaxCrashes

Init ==
    /\ platform \in Platforms
    /\ exe = Installed
    /\ bak = Missing
    /\ stored \in {Installed, NoVersion}
    /\ pkgs = [v \in Versions |-> "none"]
    /\ latest = NoVersion
    /\ pc = "down"
    /\ running = Installed
    /\ caller = "boot"
    /\ target = NoVersion
    /\ key = NoVersion
    /\ cooling = FALSE
    /\ restart = FALSE
    /\ messages = 0
    /\ crashes = 0

MayFail(kind) == kind \in Faults
Goto(label) == pc' = label

-----------------------------------------------------------------------------
(* The service manager starts the binary it finds; memory is fresh.        *)
Start ==
    /\ pc = "down"
    /\ exe # Missing
    /\ running' = exe
    /\ Goto("boot")
    /\ UNCHANGED <<platform, files, stored, pkgVars, call, gate, restart, history>>

Call(who, v) == caller' = who /\ target' = v /\ Goto("update")

(* Mutant: the version of the loaded configuration is not looked at.       *)
BootUpdate_Skipped ==
    /\ pc = "boot"
    /\ Goto("idle")
    /\ UNCHANGED <<platform, files, stored, pkgVars, running, call, gate, restart, history>>

(* run calls the updater with the configuration it loaded, "to roll back". *)
BootUpdate ==
    /\ pc = "boot"
    /\ Call("boot", stored)
    /\ UNCHANGED <<platform, files, stored, pkgVars, running, gate, restart, history>>

ReceiveConfig(v) ==
    /\ pc = "idle"
    /\ messages < MaxMessages
    /\ messages' = messages + 1
    /\ Call("config", v)
    /\ UNCHANGED <<platform, files, stored, pkgVars, running, gate, restart, crashes>>

(* retry: the gate's key is the last version that was not reached.         *)
Retry ==
    /\ pc = "idle"
    /\ key # NoVersion
    /\ Call("retry", key)
    /\ UNCHANGED <<platform, files, stored, pkgVars, running, gate, restart, history>>

(* What the caller does with the result: the handler stores the            *)
(* configuration on Ok and rejects it on Err; the others only log.         *)
ReturnOk == Goto(IF caller = "config" THEN "store" ELSE "idle")
ReturnErr == Goto("idle")

(* update, up to the attempt.                                              *)
Update ==
    /\ pc = "update"
    /\ \/ target = NoVersion /\ ReturnOk /\ UNCHANGED gate
       \/ /\ target = running
          /\ key' = NoVersion /\ cooling' = FALSE
          /\ ReturnOk
       \/ /\ target \notin {NoVersion, running}
          /\ key = target /\ cooling
          /\ ReturnErr
          /\ UNCHANGED gate
       \/ /\ target \notin {NoVersion, running}
          /\ key # target \/ ~ cooling
          /\ key' = target /\ cooling' = FALSE
          /\ Goto("install")
    /\ UNCHANGED <<platform, files, stored, pkgVars, running, call, restart, history>>

(* try_upgrade: a step that fails ends the attempt.  install of the        *)
(* package manager skips a package whose directory exists, whatever is in  *)
(* it; otherwise it downloads, creates the directory and extracts.         *)
Install ==
    /\ pc = "install"
    /\ \/ pkgs[target] # "none" /\ Goto("retain") /\ UNCHANGED pkgs
       \/ /\ pkgs[target] = "none"
          /\ pkgs' = [pkgs EXCEPT ![target] = "torn"]
          /\ Goto("extract")
       \/ /\ pkgs[target] = "none" /\ MayFail("install")
          /\ Goto("failed")
          /\ UNCHANGED pkgs
    /\ UNCHANGED <<platform, files, stored, latest, running, call, gate, restart, history>>

(* A failed extraction deletes the directory, if it can; a temporary file  *)
(* that cannot be deleted fails the install after the extraction.          *)
Extract ==
    /\ pc = "extract"
    /\ \/ pkgs' = [pkgs EXCEPT ![target] = "whole"] /\ Goto("retain")
       \/ /\ MayFail("disk")
          /\ \E left \in {"none", "torn", "whole"} : pkgs' = [pkgs EXCEPT ![target] = left]
          /\ Goto("failed")
    /\ UNCHANGED <<platform, files, stored, latest, running, call, gate, restart, history>>

(* retain_packages: all but the new package and the one before it go.      *)
Retain ==
    /\ pc = "retain"
    /\ latest' = target
    /\ LET purged == Versions \ {target, latest}
       IN \E kept \in (IF MayFail("disk") THEN SUBSET purged ELSE {{}}) :
            /\ pkgs' = [v \in Versions |-> IF v \in purged \ kept THEN "none" ELSE pkgs[v]]
            /\ Goto(IF \E v \in kept : pkgs[v] # "none" THEN "failed" ELSE "verify")
    /\ UNCHANGED <<platform, files, stored, running, call, gate, restart, history>>

(* Mutant: the exit code of the verification is ignored.                   *)
Verify_Ignored ==
    /\ pc = "verify"
    /\ Goto("backup")
    /\ UNCHANGED <<platform, files, stored, pkgVars, running, call, gate, restart, history>>

(* The binary in the package directory is run with `verify`.               *)
Verify ==
    /\ pc = "verify"
    /\ Goto(IF target \in Broken \/ pkgs[target] # "whole" THEN "failed" ELSE "backup")
    /\ UNCHANGED <<platform, files, stored, pkgVars, running, call, gate, restart, history>>

-----------------------------------------------------------------------------
(* replace_binary.                                                         *)

(* Mutant: the backup vacates the path on every platform.                  *)
Backup_Renames ==
    /\ pc = "backup"
    /\ bak' = exe /\ exe' = Missing
    /\ Goto("stage")
    /\ UNCHANGED <<platform, stored, pkgVars, running, call, gate, restart, history>>

(* Mutant: the previous backup is deleted first.                           *)
Backup_DeletesFirst ==
    /\ pc = "backup"
    /\ \/ /\ exe # Missing
          /\ bak' = exe
          /\ exe' = IF platform = "unix" THEN exe ELSE Missing
          /\ Goto("stage")
       \/ /\ exe = Missing \/ MayFail("disk")
          /\ bak' = Missing
          /\ Goto("failed")
          /\ UNCHANGED exe
    /\ UNCHANGED <<platform, stored, pkgVars, running, call, gate, restart, history>>

(* The backup is a copy on unix and a rename on windows.  A copy that      *)
(* fails may have destroyed the previous backup.                           *)
Backup ==
    /\ pc = "backup"
    /\ \/ /\ exe # Missing
          /\ bak' = exe
          /\ exe' = IF platform = "unix" THEN exe ELSE Missing
          /\ Goto("stage")
       \/ /\ exe = Missing \/ MayFail("disk")
          /\ bak' \in (IF platform = "unix" THEN {bak, Missing} ELSE {bak})
          /\ Goto("failed")
          /\ UNCHANGED exe
    /\ UNCHANGED <<platform, stored, pkgVars, running, call, gate, restart, history>>

(* create_temp_file: the new binary is moved next to the old one, or       *)
(* copied from another filesystem.  The temporary file of an attempt that  *)
(* fails is deleted, and a binary that was moved is lost with it.          *)
Stage ==
    /\ pc = "stage"
    /\ \/ Goto("rename")
          /\ pkgs' = [pkgs EXCEPT ![target] = IF SameDevice THEN "torn" ELSE @]
       \/ /\ MayFail("disk") /\ Goto("failed")
          /\ \/ UNCHANGED pkgs
             \/ SameDevice /\ pkgs' = [pkgs EXCEPT ![target] = "torn"]
    /\ UNCHANGED <<platform, files, stored, latest, running, call, gate, restart, history>>

(* The rename over the old path is atomic.                                 *)
Rename ==
    /\ pc = "rename"
    /\ \/ exe' = target /\ Goto("publish")
       \/ MayFail("disk") /\ Goto("restore") /\ UNCHANGED exe
    /\ UNCHANGED <<platform, bak, stored, pkgVars, running, call, gate, restart, history>>

(* A failed rename is undone with the backup, if that can be renamed.      *)
Restore ==
    /\ pc = "restore"
    /\ \/ bak # Missing /\ exe' = bak /\ bak' = Missing
       \/ MayFail("disk") /\ UNCHANGED <<files>>
    /\ Goto("failed")
    /\ UNCHANGED <<platform, stored, pkgVars, running, call, gate, restart, history>>

(* Mutant: the restart is not requested.                                   *)
PublishRestart_Forgotten ==
    /\ pc = "publish"
    /\ key' = NoVersion /\ cooling' = FALSE
    /\ ReturnOk
    /\ UNCHANGED <<platform, files, stored, pkgVars, running, call, restart, history>>

(* The restart is requested, and guarded resets the gate.                  *)
PublishRestart ==
    /\ pc = "publish"
    /\ restart' = TRUE
    /\ key' = NoVersion /\ cooling' = FALSE
    /\ ReturnOk
    /\ UNCHANGED <<platform, files, stored, pkgVars, running, call, history>>

(* record_failure opens a cooldown; with jitter it may be of no length.    *)
RecordFailure ==
    /\ pc = "failed"
    /\ key' = target
    /\ cooling' \in BOOLEAN
    /\ ReturnErr
    /\ UNCHANGED <<platform, files, stored, pkgVars, running, call, restart, history>>

(* store_remote, after the update and before the agents are applied.       *)
StoreConfig ==
    /\ pc = "store"
    /\ stored' = target \/ (MayFail("store") /\ UNCHANGED stored)
    /\ Goto("idle")
    /\ UNCHANGED <<platform, files, pkgVars, running, call, gate, restart, history>>

CooldownElapses ==
    /\ cooling
    /\ cooling' = FALSE
    /\ UNCHANGED <<platform, files, stored, pkgVars, pc, running, call, key, restart, history>>

-----------------------------------------------------------------------------
ProcessEnds ==
    /\ Goto("down")
    /\ key' = NoVersion /\ cooling' = FALSE
    /\ restart' = FALSE
    /\ latest' = NoVersion
    /\ UNCHANGED <<platform, files, stored, pkgs, running, call, messages>>

(* SelfUpdateRestartRequested leaves the loop, and the process exits.      *)
RestartRequested == pc = "idle" /\ restart /\ ProcessEnds /\ UNCHANGED crashes

(* The service manager stops the process, to start it again later.         *)
StopRequested == pc = "idle" /\ ProcessEnds /\ UNCHANGED crashes

Killed ==
    /\ pc \in KillPoints \ {"down"}
    /\ crashes < MaxCrashes
    /\ crashes' = crashes + 1
    /\ ProcessEnds

Upgrade ==
    \/ Update \/ Install \/ Extract \/ Retain \/ Verify \/ Backup \/ Stage
    \/ Rename \/ Restore \/ PublishRestart \/ RecordFailure \/ StoreConfig

Next ==
    \/ Start
    \/ BootUpdate
    \/ \E v \in Asked : ReceiveConfig(v)
    \/ Retry
    \/ Upgrade
    \/ CooldownElapses
    \/ RestartRequested
    \/ StopRequested
    \/ Killed

Spec == Init /\ [][Next]_vars

(* The service manager restarts the process, the main thread runs, the     *)
(* ticker ticks, time passes, and select! serves a waiting event.  A       *)
(* registry that is down comes back: an install that is tried for ever     *)
(* succeeds some time.                                                     *)
FairSpec ==
    /\ Spec
    /\ WF_vars(Start) /\ WF_vars(BootUpdate) /\ WF_vars(Upgrade)
    /\ SF_vars(Retry) /\ WF_vars(CooldownElapses) /\ SF_vars(RestartRequested)
    /\ SF_vars(Install /\ pc' = "extract")

-----------------------------------------------------------------------------
(* On unix, whatever fails, and wherever the process is killed, there is a *)
(* binary to start, and it is one that passed its verification.            *)
BinaryWorks == platform = "unix" => exe \in Versions \ Broken

(* On windows the backup vacates the path, and a failure can leave nothing *)
(* there; but then the backup is a working binary that can be put back, no *)
(* matter how many attempts follow.                                        *)
WorkingCopy == exe = Missing => bak \in Versions \ Broken

(* A persisted configuration never asks for a version that cannot run: a   *)
(* start does not try for ever to reach it.                                *)
StoredWorks == stored \notin Broken

(* A replaced binary does not wait for a restart that nobody requested:    *)
(* however configurations, retries and failures follow each other, an idle *)
(* process that is not the binary on disk has a restart in its channel.    *)
RestartPending == (pc = "idle" /\ exe \in Versions \ {running}) => restart

(* A process that starts with a configuration asking for another version   *)
(* gets there, whatever downloads fail, unless a newer configuration       *)
(* arrives: an upgrade that was not persisted is undone, "the AC with the  *)
(* new version starts, reads the previous remote configuration [...] and   *)
(* rolls back to that version" (run).  It holds if the packages are on     *)
(* another filesystem than the binary, through kills at every point but    *)
(* the extraction, and with no failure of the disk.                        *)
RollsBack ==
    \A n \in 0..MaxMessages :
        (pc = "boot" /\ stored # NoVersion /\ messages = n)
            ~> (running = stored \/ messages # n)
=============================================================================
