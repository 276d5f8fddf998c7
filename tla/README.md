# Formal model of New Relic Agent Control

Agent Control (AC) is a supervisor that runs on a host or in a Kubernetes cluster, talks OpAMP with
Fleet Control, and builds, runs, reconfigures and updates a fleet of *sub-agents* and itself. This
directory holds TLA+ models of its core, the TLC configurations that check them, and TLAPS proofs.

Paths below are relative to `src/agent-control/src/` unless they start with another crate
(`self-replacer/`, `fs/`) or with `docs/`.

## 1. Inventory

| Component | State | Operations | Talks to |
|---|---|---|---|
| AC runtime (`agent_control.rs`) | `current_dynamic_config`, the running sub-agents, the pending restart | start, `handle_remote_config`, self-update retry, restart, stop | sub-agents (by building and stopping them), configuration store, Fleet, version updater, resource cleaner |
| Collection (`sub_agent/collection.rs`) | id → stopper | insert, stop and remove, stop all | AC runtime |
| AC configuration store and validator (`agent_control/config_repository/store.rs`, `config_validator.rs`), repository (`values.rs`) | local and remote configuration per agent, hash and `ConfigState` | load, store, delete, `update_state`, validate | files or config maps |
| File store (`on_host/file_store.rs`, `fs/src`), instance id (`opamp/instance_id`) | one file per agent and key, the lock over them | get, set, delete, `update_state`, get or create the id | repository, cleaner, OpAMP client thread |
| Resource cleaner (`agent_control/resource_cleaner/on_host.rs`) | files of removed agents | clean one agent, purge at start | file system |
| Sub-agent runtime (`sub_agent.rs`) | the supervisor it owns, OpAMP and internal channels | init, handle a configuration, reset to local, forward health, stop | AC runtime (stop request), supervisor, Fleet |
| On-host supervisor (`sub_agent/on_host/supervisor.rs`, `command_os.rs`, `utils/thread_context.rs`) | one thread per executable, one process each, a health checker thread | start, apply, stop; launch, wait, cancel, restart, shut down | operating system, internal channel |
| Restart policy (`restart_policy.rs`) | tries, time of the last retry | `should_backoff`, `backoff` | executable thread |
| Self-update (`agent_control/version_updater/on_host.rs`, `utils/backoff_gate.rs`, `self-replacer/src/replacer.rs`) | the binary, its backup, the gate, package directories | `update`, `retry`, install, verify, replace | AC runtime, package manager, service manager |
| Package manager (`package/oci/package_manager.rs`, `post_download_hook_executor.rs`) | package directories, latest package per agent | install, extract, hook, retain and purge | registry, supervisors, self-update |
| OCI download (`oci*`, `package/oci/downloader.rs`, `agent_type/oci*`, `utils/retry.rs`) | blobs on disk | resolve, verify the signature, pull, choose the layer, retry | registry |
| OpAMP (`opamp*`) | client, identity, effective configuration, cached public key | callbacks, decoding, signatures, validators, merge | Fleet, channels |
| Kubernetes supervisor (`sub_agent/k8s`) | the manifest of its agent, a reconcile thread | start, apply, compare and apply objects over and over, stop | client and caches |
| Kubernetes client and garbage collector (`k8s*`, `resource_cleaner/k8s_garbage_collector.rs`) | caches that follow watches, ConfigMaps | get, apply, delete; retain at start, collect a removed agent | API server |
| Kubernetes version updater (`version_updater/k8s.rs`) | none | patch a HelmRelease | API server |
| Agent types (`agent_type*`, `sub_agent/effective_agents_assembler.rs`) | definitions, local and remote | parse, validate, constrain, load secrets, render | assembler, registry |
| Rendered file system (`agent_type/runtime_config/on_host/filesystem*`) | the files an agent type declares, a manifest of them | wipe, reconcile, write, save the manifest | on-host supervisor |
| Status server (`agent_control/http_server*`, `event/broadcaster`) | folded status | broadcast, forward, fold an event, serve, stop | all runtimes |
| Health, version and GUID checkers (`checkers*`) | none | poll in rounds | supervisors, installer |
| Tools, instrumentation, secrets, HTTP, `fs`, `resource-detection` | files, remote services | one-shot operations | operating system |

What is hard here:

* **Partial failure.** A configuration names several agents; some are stopped, some built, some
  fail. The handler persists, applies, marks and reports in separate steps, each of which may fail
  and return early with `?`.
* **Crashes.** AC restarts itself (self-update) and is restarted by the service manager; what is on
  disk, what Fleet was told and what runs must agree after a start. The binary itself is replaced.
* **Interleaving.** Each sub-agent has its thread, each executable another; cancellation is a
  message that is consumed once; channels are served in random order by `select!`.
* **Stale state.** `current_dynamic_config`, the gate's key, the tracked latest package, an existing
  package directory, the caches of the cluster, the cached public key, the manifest of rendered
  files, all outlive what they stood for.
* **Two writers.** Supervisors create objects in the cluster that the garbage collector deletes; an
  agent's process writes beside the files Agent Control manages; the owner of an artifact moves its
  tag during a download.
* **Boundaries.** Retry limits, intervals and powers of two in the restart policy.

The hazards are listed line by line under `hazards` in `PROJECT.json`, each with the properties
that would catch it.

## 2. Modules and how they correspond to the code

Every module keeps the order of the code's effects: an action is one handler step up to its next
effect on disk, on Fleet or on another thread, because the process may be killed, or a call may
fail, between any two of them. `Faults` is a constant: the kinds of failure that may happen at any
time (`MayFail(kind)` in a guard). Names such as `X_Dropped` or `X_Silent`, marked "Mutant" in
their comment, are changed forms of the action after them; no specification uses them, and
`PROJECT.json` says which property each one breaks. Variables under "History" are not in the code.

### AgentControl
The runtime of AC with its collection, its persisted configuration, the resources of agents on
disk and the last status Fleet heard. `disk` groups `remote` and `resources`; `current` is
`current_dynamic_config`; `coll` the collection; `orphans` the sub-agents that run without a
stopper (an `insert` that replaced one); `pc` where the main thread is; `degraded` is history: an
error path returned since the process started. The start is `Boot` (load, purge, build all),
`BootReport`, `BootPersist`, `BootEffective`, `BootFails`. A configuration is
`ReceiveRemoteConfig`, `ValidateRemoteConfig`, `CheckAndUpdateVersion`, `StoreRemoteConfig`,
`ApplyAgents` (all agents, with a subset of them failing), then `CommitApplied` / `CommitFailed` /
`UpdateStateFails` and `ReportApplied` / `ReportFailed`. `SelfUpdateRetry`, `SelfUpdateRestart`,
`StopRequested`, `Exit` and `Crash` complete the loop. `VersionUpdate` is the version updater seen
from here: it fails, succeeds, or succeeds and requests a restart.

### SubAgent
One sub-agent thread: `init_supervisor`, the handling of a remote configuration (duplicates, refused
messages, parse and assembly errors, reset to local, apply on a running supervisor or build and
start of a new one), the internal channel `inbox` with health events and the stop request, and
restarts of the process. A message is one of the shapes the handler tells apart (`Content`).
`ignored` is history: an error that the code only logs has happened.

### OnHostSupervisor
The supervisor's threads. `Caller` is the sub-agent thread in `start`, `apply`, `stop`; `ExecThread`
one thread per executable (`CheckCancelled`, `Launch`, `PublishHealthyOnce`, `WaitExit`, `Shutdown`,
`Exited`, `ShouldRetry`, `WaitRestart`); `CheckerStep` the health checker. Cancellation is a message
or a disconnected channel (`IsCancelled`), and taking the message consumes it (`TakeMessage`).
Processes end when they want, ignore SIGTERM when they want, and are killed after the timeout.

### RestartPolicy
`should_backoff` and `backoff` with the time since the last retry and the three strategies; the power
of two is computed modulo `2^PowWidth`.

### SelfUpdate
The on-host updater with its three callers, the gate (`key`, `cooling`), the package directory of
each version, and the replacement of the binary step by step (backup, stage, rename, restore) on
unix and windows. The process may be killed at every `pc` in `KillPoints`.

### PackageManager
`install_packages` of the supervisor over `OCIPackageManager::install`: existing directory, download,
extraction, hook, deletion of the temporary directory, retention and purge, and what the supervisor
then runs. A package is an id and a reference, hence one directory. `marred` is history: a hook or
a deletion failed, or the process was killed.

### K8sResources
Who writes and who deletes the objects of sub-agents. `cluster` is the API server, `cache` what the
reflectors know of it (`Sync` delivers one object at a time; `WatchFails`, `Reconnect`). A supervisor
is `Check` (compare one object with the cache) and `Commit` (read and apply it), object by object,
then `NextRound`; it ends only when `StopRuntime` and `RuntimeStopped` have joined it. The main thread
persists a configuration, builds, stops and collects (`RemoteConfig`, `Build`, `StopAgent`,
`GcConfigMaps`, `GcObjects`, `GcDelete`), and runs `retain` after `Boot`. `GcSkips` is the arm of the
collector that takes any error of the discovery of a kind for a kind the cluster does not have and
goes on without its objects; `CollectFails` is every other error of `collect`, which leaves the rest of
the objects and lets the application of the configuration go on; an error of `retain` ends the
process (`ProcessEnds`). The fleet-data ConfigMap of an agent holds its identity and its remote
configuration. `Tamper` is another client of the API server. Two agents may share the name of an
object: most types build names from the agent id, some have a constant one
(`kubernetes-pipeline-control-gateway-config-0.1.0.yaml:14` and
`kubernetes-pipeline-control-gateway-config-mode-0.1.0.yaml:48` have the same), and nothing checks for
a clash. `Contested` names are those. History: `gone` (what was collected), `missed` (names of objects
that a listing did not find), `failed` (agents whose collection ended with an error) and `known`. The
configuration that follows one with a failed collection is compared with a stale value; that is
AgentControl's subject, so `RemoteConfig` here waits for a collection without error, or for a restart.

### FileStore and AtomicStore
The two files kept for an agent (remote configuration, instance id), used by three threads: main
(get or create the id, clean), the sub-agent's (store, update, delete, load) and its OpAMP client's
(load). A write is `Lock`, `Open` (truncates), `Fill`, `Sync`; the process may end between them, which
leaves a `Torn` file. `AtomicStore` is what the callers rely on, and FileStore implements it: the
refinement maps a key to its content before truncation while a writer is between `Open` and `Sync`.

### RenderedFiles
The directory of an on-host agent: wipe of ephemeral entries, reconciliation with the manifest,
writing of the tree, saving of the manifest, each of which may fail or be the last step of the
process; the agent's process writes files of its own (`AgentWrites`), and the cleaner deletes all of it
(`RemoveAgent`), or part of it when it fails.

### StatusServer
The events of Agent Control and of sub-agents, broadcast into two channels, forwarded by the bridge
to two others, folded in any order into the status. `said` is history: what was broadcast last;
`overtaken` holds the agents one of whose events was folded in another order than it was published.

### RemoteConfigs
From the OpAMP message to the values: `OnMessage` (decoding; failures are published too), then each
agent's parser: `Take`, `Failed`, `Verify` entry by entry against the shared cached key, `Validate` (the
rules of denied content), `TryAppend` entry by entry, `Extract` (the override), while Fleet rotates its
key. Entries with a name of another kind are verified and then left out. `Denied` is what the code
looks at: the agent entries, not the override (see section 5). `outcome` is history. A validator of
signatures that is disabled by the configuration (`validator.rs:67`) accepts every entry and is not a
case of the model.

### AgentTypes
From a request (agent, type, values) to the rendered deployment: parsing of definitions, the local
and the remote registry, validation, assembly with constraints, secrets, variables and templates.
A text is a sequence of pieces (literal text, printed value, placeholder), so substitution is
modelled by what it does without strings. A tree (values, variables) is a function from the paths of
its nodes, so the recursion of the code over documents is a quantifier over paths. `Meaning` and
`Substituted` are an independent definition of what a placeholder stands for and of replacing all of a
text at once, where the code replaces one after the other in the text it is building;
`AssembledRight` compares the two. It is stated for values that bring no placeholder of their own:
with one, what the code renders depends on the order of the placeholders in the template. The path of
a variable stays a sequence where the code joins it with dots (`tree.rs:57`), so a name with a dot in it
cannot meet a nested one; an artifact is published once and stays as it is, so what is validated and
what is assembled are the same definition; a package has one text, and its post-download hook
(`package.rs:70`, `:124`, rendered without the package directories) and `public_key_url` are left out.

### OciFetch
A download of a package or of an agent type: resolve the digest, verify the signatures found for it,
pull manifest and blob, retry, while tags are moved and signatures pushed. For a multi-platform
package the signature is that of the index, which names the manifest of a platform by its digest
(`oci.rs:154`); a digest here stands for the whole chain, since every link of it is content-addressed.

### Health
The rule of every checker (Deployment, DaemonSet, StatefulSet, HelmRelease, Instrumentation, HTTP,
file, exec), the selection of objects of a release, and the rounds of the checker thread and of the
installer, object by object, while the objects change. A workload has the counts its checker compares:
wanted, ready and, apart from a StatefulSet, unavailable pods; ready and unavailable are separate, since
a pod that is ready is available only after `minReadySeconds`. The namespace of a check
(`health_checker.rs:153`) is left out: the objects are those of one namespace.

`MC*` modules give the instances; `*_proofs` modules hold the theorems. `Parts` puts RenderedFiles,
RestartPolicy, StatusServer, RemoteConfigs, AgentTypes, OciFetch and Health side by side, each an instance with
variables of its own, with their assumptions and properties. `MCParts` adds FileStore:
its variable `part` is chosen in the initial state, and only that part moves. The parts share no
state, so their interleaving would show nothing new.

## 3. Runs

| Run | Checks | Shows |
|---|---|---|
| `ac` | `InStep`, `AppliedSurvivesCrash`, `SupervisedKeepResources`, `OnlyCheckedPersisted`, `ConfigAnswered`, `RestartHappens` | with every fault: until an error path returns, sub-agents, memory, resources and disk agree; a status Applied is backed by the disk through every crash; cleaning and purging never reach a supervised agent; nothing unvalidated is persisted; every configuration (resets apart) gets a final status; a requested restart happens |
| `ac_reset_doc` | `ResetAnswered` (violated) | finding 1 |
| `sa` | `RunsWhatIsStored`, `AppliedIsStored`, `ApplyingIsRetried`, `LossIsUnhealthy`, `MessageAnswered`, `StopEnds` | with every fault: until an error is ignored, what runs is what a restart would load, an Applied status is backed by the disk, a configuration left at Applying is retried, a lost supervisor ends as unhealthy; messages are answered; a stop ends the thread |
| `os_safety` | `NoOrphanProcess`, `OneConfiguration` | no process survives its thread, two configurations never run together |
| `os_liveness` | `StopCompletes`, `GivenUpIsReported`, `AbandonedEnd` | a stop ends; giving up is collected by the checker; threads dropped by an early return end |
| `su_safety` | `BinaryWorks`, `RestartPending`, `StoredWorks`, `WorkingCopy` | on unix a verified binary is always in place; on windows a working copy is; no version that fails verification is persisted; a replaced binary has its restart requested |
| `su_liveness` | `RollsBack` | with packages on another filesystem a process started with the wrong version gets to the stored one |
| `su_rollback_doc` | `RollsBack` (violated) | finding 2 |
| `pm` | `RunningKept`, `RunsComplete`, `DiskBounded` | what runs is on disk and complete, old packages do not pile up |
| `pm_hook_doc` | `HookFailureFails` (violated) | finding 3 |
| `k8s` | `NoZombies`, `OnlyOutdatedDeleted`, `IdentityKept`, `Converges` | what was collected does not come back, except what the listing missed or a failed collection left; the collector deletes nothing the configuration wants, except what an agent puts under a shared name after the listing; an agent keeps its identity while its type stays; after the disturbances the cluster is as configured, for good |
| `parts` | `StoreIsAtomic`, `IdentityStable`, `FilesAsDeclared`, `OwnFilesStay`, `ShortRunsBounded`, `DelaysGrow`, `StatusCurrent`, `VerdictRight`, `AssembledRight`, `VerifiedIsDownloaded`, `HealthJustified` | the file store implements an atomic store and an agent keeps its id through crashes; a started agent finds the files it declares and keeps its own; the limit of a restart policy counts exactly the runs within the interval and delays do not shrink while the power fits; the status shows what was said last, unless overtaken; a verdict follows the message whatever key is cached; a deployment is rendered as its definition means it; what was verified is what is downloaded; published health rests on what was there |

Type invariants (`TypeOK`) are proved where there are proofs, and serve as definitions of the state
elsewhere; no run spends time on them.

### Bounds, and why they are enough
* AgentControl: two agent ids, three types (one unknown to the registry), one message of each shape:
  two agents, one of them with another type and the other removed, reset, malformed, unknown type.
  An agent is created, kept, recreated, removed and refused, alone and beside another, in any order
  and any number of times: nothing is counted. The state space is finite without a bound.
* SubAgent: two configurations that apply (one replaces the other), and one message of each other
  shape. `MaxInbox` = 1 bounds what the health checker may have in the channel; a failure's event
  and a stop request can still follow it. A message that cannot be parsed and one that cannot be
  assembled end the same way, so the instance has one of the two.
* OnHostSupervisor: a configuration with two executables and one with a single one, so that a join
  waits for several threads and an apply changes the set; `MaxRetries` = 1 so that both restart and
  giving up happen. The liveness run has one configuration to keep the graph small.
* SelfUpdate: the installed version, two newer ones, one that fails verification; `MaxMessages` = 3
  configurations (up, elsewhere, back) and `MaxCrashes` = 2 kills, so that a kill hits the recovery
  from a kill.
* PackageManager: four packages, configurations with none, one or two of them.
* K8sResources: two agents; the first has an object in both of its types, which its second
  configuration replaces by another, the second has one under the same name with its first
  configuration, so that an object is kept, changed, dropped and taken over by the agent that replaces
  its owner; `MaxMessages` = 2 (a change and one back or further) and `MaxFaults` = 1, spent on a dead
  watch, a failed round, a failed collection, an edit by others or an end of the process. With the
  shared name TLC reaches the case that `OnlyOutdatedDeleted` names: without that exception it finds a
  commit of the second agent between the listing and the deletion. No configuration of the instance
  has both agents at once: two agents that share a name for good overwrite each other's object for
  ever, and `Converges` does not speak of them. 1,106,088 states.
* FileStore: two configurations, two host identifiers, `MaxIds` = 2, so that an id can be replaced
  wrongly, and `MaxFaults` = 2, so that a crash hits the recovery from a failure.
* RenderedFiles: four trees that change the persistence, the content, the presence and the kind of an
  entry, two files of the agent's own, one of them inside a managed directory; `MaxFaults` = 2.
* RestartPolicy: limits 0, 1 and 3, interval 3 with runs of 0 to 5 (below, at and above), width 5
  with 7 tries, so that the power wraps.
* StatusServer: one agent of two types and `MaxEvents` = 4: built, running, removed, built again with
  another type, in every order of delivery. The theorem has no bound on events or agents.
* RemoteConfigs: two agents that share the verifier, one message each of 17 shapes, one rotation of
  the key.
* AgentTypes: one definition per rule that may refuse it, one request per way of giving a value
  (values, default, secret, constraint, functions), two environments.
* OciFetch: five manifests (with one layer that counts, with two of them, with one that is too large), two attempts,
  two changes of the registry.
* Health: one object of each kind, from all up or all absent, two changes, the thread or an installer
  with 0 or 2 attempts.

`su_safety` and `parts` do not check for deadlock: on windows nothing is left to start when the binary
is gone (see below); an executable that was given up, an assembly that is done and a process whose
faults or messages are spent stay so.

### Fairness, and why the code justifies it
* Weak fairness of handlers, of threads and of the start: the main thread, the sub-agent threads and
  the executable threads run to their next blocking point, every wait has a timeout, and the service
  manager restarts the process.
* Strong fairness of serving one channel (`SelfUpdateRestart`, `ServeInternal`, `RestartRequested`,
  the retry ticker): crossbeam's `select!` picks at random among the ready channels, so a channel
  that is ready again and again is picked some time.
* Strong fairness of a successful download in SelfUpdate: a registry that is down comes back. No
  failure of the local disk is assumed to heal, so `su_liveness` has no "disk" fault.
* Kubernetes: weak fairness of the main thread, of each runtime and of each reconcile thread, and of the
  watch: a live watch delivers, a dead one is set up again by the next use.
* No fairness is assumed of Fleet, of the supervised processes, of crashes or of failures.

## 4. Proofs

TLAPS proves, for every set of agents, types, hashes, contents, local configurations and faults:

* `AgentControl_proofs`: `TypeCorrect`, `InStepCorrect`, `AppliedSurvivesCrashCorrect`,
  `SupervisedKeepResourcesCorrect`, `OnlyCheckedPersistedCorrect`. The properties speak of the idle
  runtime, so the inductive invariant `IInv` says what holds in between: `StepOld` and `DiskOld` (up
  to the store, memory and disk are those of the previous configuration), `DiskNew` and `StepNew`
  (from the store on, the disk has the new configuration as Applying, and from `ApplyAgents` on the
  collection follows it), `Progress` (what `pc`, `msg` and `new` say of each other) and `Withdrawn`
  (while a configuration is handled the status Fleet has is Applying or older than the store). Each
  action has one step, with one sub-step per conjunct it can disturb.
* `SubAgent_proofs`: `TypeCorrect`, `RunsWhatIsStoredCorrect`, `AppliedIsStoredCorrect`,
  `ApplyingIsRetriedCorrect`, from `IInv` with `StoredAssembles` (what is stored was assembled
  once), `RestPart`, `ApplyPart` (what is stored while the supervisor is changed) and `HeardPart`
  (what Fleet heard while a message is handled). `LossIsUnhealthyCorrect` adds `LostPart`: a lost
  supervisor is gone, so its checker can publish nothing behind the failure's event. Three lemmas say
  what publishing, a request to stop and serving do to the last health in the channel.
* `SelfUpdate_proofs`: `BinaryWorksCorrect`, `WorkingCopyCorrect`, `StoredWorksCorrect`,
  `RestartPendingCorrect`, `TypeCorrect`, for every set of versions, either platform and any number
  of attempts and kills. What a rename puts in place is good because it was verified several steps
  before, so `IInv` carries `TargetWorks` and `AskedWorks` from the verification to the replacement
  and to the store; what a failed rename puts back is good because the backup of the same attempt
  was, so it carries `FilesWork` and `BackedUp`; `InPlace` says that unix never vacates the path, and
  `Pending` that a binary other than the running one was put there by an attempt that asked for a
  restart.
* `PackageManager_proofs`: `RunningKeptCorrect`, for all packages, hooks and faults, under the
  hypothesis `AtMostTwo` (no configuration lists more than two packages), without which it is false:
  the manager tracks one package per agent. `IInv` says that what was installed so far is the tracked
  package (`Tracked`), that a lone package that runs is the tracked one until its successor is
  (`LoneKept`), and that a directory being filled is not one that runs (`FillsAnother`).
  `DiskBoundedCorrect`, for configurations of any size, from `DiskInv`: besides the package in hand at
  most two are on disk (`TwoBesides`), and only that one can be incomplete (`WholeOrInHand`). Both
  together give `RunsCompleteCorrect`.
* `FileStore_proofs`: `TypeCorrect`, `IdentityStableCorrect` and the refinement
  `StoreIsAtomicCorrect`, for all configurations and identifiers and any number of faults. `IInv` ties
  the lock to the one thread between `Open` and `Sync` (`Locked`), that thread's file to being torn
  (`Locals`), the two files to their kinds of content (`FilesTyped`, `Apart`), and every id handed out
  to the one on disk (`IdStored`). The refinement has one lemma per action: `Open` and `Fill` change a
  file and leave the view of the abstract store as it is, `Sync` and a failing write are its steps.
* `OnHostSupervisor_proofs`: `TypeCorrect`, `NoOrphanProcessCorrect` and `OneStartedCorrect` for all
  executables, configurations and faults, and `OneConfigurationCorrect` if the start of the health
  checker cannot fail (`~ MayFail("runtime")`): where it does, the supervisor is dropped with its
  threads still running, and a new one may start beside them until they notice. `OneStarted` is what
  remains then: processes that were not abandoned in this way are of one configuration. `IInv` says
  that a process belongs to the thread that waits for it, that a thread belongs to the current
  supervisor or was abandoned (`Owned`), what a caller has still to join (`Pending`) and that no thread
  of a configuration runs before that is started (`GoalFree`).
* `K8sResources_proofs`: `TypeCorrect`, `NoZombiesCorrect`, `OnlyOutdatedDeletedCorrect`,
  `IdentityKeptCorrect`, and the stronger `WantedKeptCorrect` (no step but a fault, or `collect` at a
  shared name, deletes an object the configuration wants), for all agents, types, names, manifests and faults. `IInv` says that an
  object has a name that its agent uses, in the cluster and in the stale cache (`WellNamed`), that only a
  sub-agent that was built has a thread (`Threaded`), where the main thread is when agents are stopped
  and collected (`Sequenced`, `Fresh`), that what is about to be deleted is not wanted
  (`GarbageUnwanted`), and what is gone for good (`Collected`, `IdentityCollected`, `BuiltIsNotGone`).
  Nothing is assumed of the names in the manifests. Only a name that no other agent uses protects an
  agent from a deletion by name, so both properties about deletions except the names two agents share
  (`Contested`), and only while `collect` deletes: `retain` runs before any supervisor does, and is
  proved right about shared names too.
* `Parts_proofs`: of the instances in `Parts`, which the run `parts` checks:
  * `FilesAsDeclaredCorrect` and `OwnFilesStayCorrect` of RenderedFiles, for all trees. What was written
    and is still there is in the manifest or was lost track of (`Noted`), which the reconciliation
    turns into `Cleared`. A deletion takes what lies below the paths it is given, by the lemmas
    `BelowTransitive` and `Deleted`.
  * `VerifiedIsDownloadedCorrect` of OciFetch, for every registry. `Pinned`: from the verification on
    the reference is the digest that was verified, and before it the one of the request.
  * `HealthJustifiedCorrect` of Health, for all objects and plans, whatever changes during a round.
    `PassesIffUp` shows each rule of the checkers right against the reference definition of up and down,
    the separate count of unavailable pods included.
  * `ShortRunsBoundedCorrect` of RestartPolicy, for all limits and intervals, and `DelaysGrowCorrect`,
    for every initial delay, way to back off and width of the power. It needs that powers of two grow
    and when they wrap, an induction: `SetInduction` states it with a set in place of a predicate,
    from the library's theorem that a set of numbers has a smallest element.
  * `VerdictRightCorrect` of RemoteConfigs, for all messages, keys, entries and agents. A verdict is
    the result of many steps, between which the shared verifier may change its key under a parse:
    `VerdictInv` says that the verifier holds a key Fleet has used, that an event comes from a message
    (`ConfigEvents`), that the entries a parse has ticked off are signed with keys Fleet used, and that
    the values collected so far are those of the entries appended so far (`ParseInv`). `AllowedInv`
    carries what the rules said of the agent entries from `Validate` to the outcome.
  * `AssembledRightCorrect` of AgentTypes, for all registries, definitions, values, secrets, constraints
    and templates. The work is in what rendering computes. `RecursionExists` shows that the recursion
    over the pieces of a text defines a function; `ReplaceParts` that a replacement in a
    concatenation is the concatenation of the replacements; so, for plain values, replacing one
    placeholder after the other (`After`) ends where replacing all of them at once does.
    `ExpandedIs` carries this from texts to trees of values with their secrets, `FilledIs` to the
    variables, `VariablesMean` to the map of all namespaces, `HostRendered` and `ObjectsRendered` to the
    deployments, and `RegistryIs` says which definition was taken. `AssemblyInv` adds to the property
    that the accepted request is one of `AgentRequests` and that what is published is an artifact.
  * `StatusCurrentCorrect` of StatusServer, for any number of agents and events. The messages in the
    four channels are a set with distinct numbers (`InOrder`, `Numbered`: `BroadcastStep`,
    `ForwardStep` and `TakeStep` say what each step does to it), so no induction over the queues is
    needed: `ControlCurrent` and `EntryCurrent` say that the last pending message of each kind, or
    the status where none is pending, is what was said last, and that what is said of an agent counts
    unless a later removal is pending. The case that breaks it, a message about an agent processed
    before an older one from the other channel, is where `overtaken` grows.

The assumptions are the named `ASSUME`s of the component modules: marks such as `NoRemote` differ
from the values they stand apart from, messages carry contents of their type, `Faults` are known
kinds, sets that a choice is made from are not empty. A component that is an instance in `Parts` says
what it needs of its constants in its definition `Assumptions`, and `Parts` assumes that: the agent's
process writes no file that is declared, a tag is not a digest, the counts in a status are numbers,
a plan has a checker (`from_checks_definition` returns `None` otherwise), a limit of retries, an initial delay and the width of the power are natural numbers, the
signatures of an entry are a list. Of agent types it is assumed that texts are sequences and the paths
of a tree are closed under prefixes, that the variables of the process and of Agent Control are in the
namespaces `env` and `ac`, that a host type does not name `k8s` as its operating system, and that the
definitions embedded in the binary parse (it panics at start otherwise). TLC evaluates all of them,
those of `Parts` in the run `parts`.

What the proofs changed in the models: OnHostSupervisor let `apply` reuse the name of an executable
whose thread, of a dropped supervisor, was still running, which no run reached and which the proof of
`NoOrphanProcess` refused; `Apply` now has the guard that `Start` had. In Health an object without
status matched two arms of a `CASE`. In StatusServer a message is a record with all its fields, and what
an event does to an entry is an operator of its own. RemoteConfigs verified only the entries of known
kinds and extracted the values in one step; it now verifies them all and appends entry by entry, as
the code does. The trees of AgentTypes were nested records walked by recursive operators.

Only model-checked: the liveness properties (fairness and ENABLED are out of TLAPS's reach here), and
the three properties whose violation is a finding. Every invariant and every other action property of a
passing run is the conclusion of a theorem, under the hypotheses named above.

## 5. Findings

1. **A reset of AC's own configuration is never reported Applied** (`ac_reset_doc`).
   `docs/opamp-communication-flows/delete-configuration.md:18` says AC "sends an _Applied_ message";
   `handle_remote_config` first marks the state of the configuration it has just deleted, which
   fails, and returns. The new configuration is not kept in memory either.
2. **A version whose binary was moved out of its package cannot be installed again**
   (`su_rollback_doc`). `create_temp_file` moves the binary when it can; a kill or a failure after
   that leaves a directory that `install` takes for an installed package. The roll back that
   `agent_control.rs:191` describes never gets past verification.
3. **A failed post-download hook is forgotten** (`pm_hook_doc`). The directory stays, and the next
   attempt, or the next start of AC, finds it and runs the package without its hook.

Other disagreements between code and documentation met while modelling, visible in the models
though no run is spent on them:

* After a partly applied configuration `current_dynamic_config` keeps its old value
  (`agent_control.rs:340`): the next configuration is compared with it, so agents that the failed
  one started are not removed, and an agent that could not be built at start is taken for running.
  `InStep` is therefore stated up to the first error path.
* `init_supervisor` marks a stored configuration as failed only if it was Applying
  (`sub_agent.rs:246`), its documentation says always.
* On windows a failure to stage the new binary returns without putting the old one back
  (`self-replacer/src/replacer.rs:150`, against line 10); `WorkingCopy` says what is left.
* A configuration without version leaves the gate of an earlier one in place, and the ticker goes on
  with its version (`version_updater/on_host.rs:80`).
* `latest_installed_packages` tracks one package per agent: with two packages those that run are
  purged while they run, with three the third install deletes the first
  (`package_manager.rs:182`, against `docs/package_manager.md:256`). `RunningKept` states what is
  left for one and two packages.
* The first two delays of the exponential strategy are equal (`restart_policy.rs:198`), and from the
  34th retry in a row the power of two overflows.
* If `wait()` fails after the cancellation message was consumed, the executable is restarted and
  the stop can block for ever (`supervisor.rs:540`); `os_liveness` is run without that fault.

* Kubernetes: the garbage collector says twice that a fleet-data ConfigMap has no type annotation and is
  not deleted as a supervisor's object (`k8s_garbage_collector.rs:235`, `:258`), but storing a remote
  configuration annotates it (`configmap_store.rs:112`). After a change of type, a start before the
  next configuration is stored deletes it, the instance id included. `IdentityKept` is stated for an
  unchanged type.
* Kubernetes: objects that a new configuration of the same agent no longer renders are never deleted
  while the agent keeps its type; an object applied just before its agent is removed may not be in the
  cache that `collect` lists and stays until the next start; so do the objects of a kind whose
  discovery failed for a moment, because `dynamic_object.rs:42` makes every such error a missing kind
  and `k8s_garbage_collector.rs:133` a success. `NoZombies` names these.
* Kubernetes: `collect` deletes by name what it found in its cache. Where two agents share a name it may
  delete the object of the one that stays; its supervisor puts it back in its next round.
* Remote configurations: the rules of denied content do not look at the override. `regexes.rs:1` says the
  validator "rejects remote configs containing denied patterns", `regexes.rs:26` that it matches "the
  content of the retrieved remote config", `validators.rs:34` "Validates remote config content against
  denied-pattern regexes", but `validate` goes over `agent_configs_iter` (`regexes.rs:43`), and the
  override, merged later, is not among its entries. The run `parts` has such a message, and it is
  accepted: `VerdictRight` states the rule for the agent entries only. No document or test says which
  of the two is meant.
* File store: a file cut short by a crash is read as an error, not as absent: the agent does not start
  until it is removed. `AtomicStore` calls it unreadable.
* Rendered files: what was written before a failure is not in the manifest and never deleted, against
  `supervisor.rs:198` and `filesystem.rs:50`; a path that changes from file to directory, or back, is
  not stale and can never be written.
* Status: an agent whose removal overtakes its last event comes back as an entry that stays; an agent
  recreated with another type keeps the type of its entry, because no removal is broadcast
  (`agent_control.rs:548`); the start time stays zero when the description comes before the start.
* Templates: a YAML string that is one placeholder with functions cannot be rendered
  (`templates.rs:168`); a default is not checked against the variants; number and boolean variables
  cannot be given by a secret.
* Health: a StatefulSet scaled to zero is unhealthy; a named workload that does not exist is not
  counted; an installer whose timeout is below the interval fails without a check
  (`cli/k8s/install.rs:374`).

## 6. Not modelled

* OpAMP disabled: the runtime then only starts and stops sub-agents.
* Arms of the event loops that only forward (attributes, connection, uptime, version), and the
  closed OpAMP channel of a sub-agent.
* Process output, logging, windows job objects, disabled self-update (`ac_remote_update_enabled`). In
  SelfUpdate a working binary always passes its verification, also in time (`verify.rs:96`), and the
  reset of AC's configuration is left to AgentControl.
* In SubAgent, the health checker of a lost supervisor is always joined: the early return of `apply` that
  skips it (`supervisor.rs:147`) is in OnHostSupervisor.
* Kubernetes: the version updater (one call per HelmRelease), the version and GUID checkers (one field
  of one object), typed reads and authentication of the client.
* Agent types: the rendering of health and version checks and of restart policies, which are
  substitutions like the ones that are modelled; arrays of a document are objects here.
* `CachingRegistry`, which nothing in production builds.
* Command line tools apart from the check of an installation, configuration migration,
  instrumentation, secrets providers, HTTP clients and `resource-detection`: I/O without a protocol of
  their own. They, the unit tests inside the source files and the test crates make up most of the
  repository's lines.

## 7. Plan

Done: all modules of section 2, the proofs of section 4. The order was by what a mistake costs: the
runtime, what runs on its behalf, the replacement of the binary, the cluster, storage, then the rules
that the runtimes take as given. Next:

1. **Composition**: AgentControl with its sub-agents (a recreated sub-agent and its predecessor over
   the same storage), and an abstract specification of "deliver a configuration" that AgentControl
   and SubAgent both implement.
2. **Kubernetes version updater**, with the restart it causes.
