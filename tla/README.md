# A formal model of chainman

`chainman` runs a repository's tools and services. Its Go control program
(`src/nix/control`) starts, shares and stops services for any number of
concurrent clients that coordinate through files, `flock`s and process
identities only: there is no daemon, every participant may be killed at any
moment, and a spawned process may be delayed for as long as the scheduler likes.
Its Python part (`src/scripts`) sets tools up, plans services, updates
dependencies and collects storage under further file locks, and both serve Git
hooks in a checkout that its user goes on editing. This directory models the
part where ordering, crashes and concurrency decide whether the program is
correct.

## Inventory

| Component | State | Operations | What is hard | What makes it correct | Modelled |
|---|---|---|---|---|---|
| Service launch admission: `controller.go`, `main.go` (`start`, `configuration`, `owned`, `stopReceipt`, `releaseUnused`), `watch.go` (`startMissing`) | `controller.json`, `stop-request.json`, `plan.json`; per service `command.json`, `owner.json`, `.stopping`; two flocks | start a generation, register a controller, admit a launch, stop, release | launches delayed past a stop, a gate holder killed half way, owners that ignore signals | a running group is recorded; a release is final; one instance runs | `LaunchAdmission` |
| Service scope sharing: `main.go` (`acquire`, `active`, `run`, `stop`), `leases.go`, `access.go`, `task.go` | lease files, `startup-stop.json`, `plan.json`, recovery directories, flock `gate` | acquire, publish and end a task, leave, stop | clients, intermediaries and anchors killed separately; stop racing startups and tasks | used services stay; exclusive is exclusive; one set of inputs; a stop is final | `ServiceScope` |
| Startup and profile preparation: `startup.go`, `profile_preparation.go` | observed tickets, gates, handshake directory | observe, wait, provision, cancel | a stop between two looks; an owner lost while a helper builds | a stop cancels and gets in; nobody's build ends | `StartupGuard` |
| Resource scopes, volumes, bridge: `scopes.go`, `volumes.go`, `bridge.go` | gates of several scopes, parent-linked leases, data volumes | claim, prune, reset, look | lock order, claims of the dead, data of another format | no deadlock; no resource or data removed under a user | `ResourceScopes` |
| Command admission: `command_admission.go`, `task.go` | pending signals, permit pipe, a command's process group | start, cancel, forward leases | a signal around the fork | no command after a stop | `CommandAdmission` |
| Watched services and monitoring: `watch.go`, `wait.go` | build gate, marks, deadlines | build, restart, stop, monitor | builds finishing around a stop; restarts mistaken for ends | stopped stays stopped; only two misses are a failure | `WatchedService` |
| Update cache: `update_cache.go` | candidates, receipts of two schemas, leases, containers | start, resume, forward, settle, collect | collection racing a start, an engine that moves to another daemon | no candidate in use is collected | `UpdateCache` |
| Service executables: `storage_assets.go` | links to one pool, plans, owners | install, collect | collection beside an acquisition | the plan's executable is there | `StorageAssets` |
| Storage: `storage_leases.go`, `storage.py` | store entries, leases, epochs | use, retire, collect | partial removal and creation, children that outlive their command | no entry in use is collected; a runtime runs from its roots | `StoragePool` |
| Workflows: `workflows.py` | setup stamp and lock | setup and use | the lock is dropped before it is upgraded | a stamp vouches only for what was installed from these inputs | `SetupUse` |
| Operation locks: `toolchain.py` | admission mutex, writer lock, leases | admit, nest, inspect, prune | stale leases, inherited locks | writers and pruning are alone | `OperationAdmission` |
| Repository updates: `updates.py`, `update_staging.py`, `transaction_state.py` | candidate, `state.json`, checkout, index, branch | resolve, verify, apply, commit, resume | the user's edits and commits meanwhile; kills | what lands is what was judged | `UpdateTransaction` |
| Candidate export: `candidate_export.py`, `source_workflow.py` | export directory | record, capture, verify, finish | kills between any two writes | always a consistent, true result | `CandidateExport` |
| Update steps and audit: `dependency_api.py`, `exception_retirement.py`, `dependency_audit.py` | steps, policy lists, report | resolve, hook, audit, retire, waive | hooks that change what was resolved | the end state is what was audited | `DependencySteps`, `AuditReport` |
| Verification: `verification.go` | gates' rows, report | sweep | edits, signals and services beside it | only a whole sweep of one source counts | `Verification` |
| Git hooks: `hook_*.go`, `hooks.py`, `hook_worker.py`, `trojan_source.py` | hook files and configuration, barrier, journal, index | install, remove, scan, format, call back, drain | Git reads half-installed hooks; users edit what is formatted; callbacks outlive the hook | see `HooksAreSafe`, `CallbacksAreOver` | `HookInstall`, `HookScan`, `StagedFormat`, `HookBarrier` |
| Consent: `hook_prompt.go`, `setup_channel.py` | a directory of questions and answers, heartbeats | ask, show, read, give up | both sides may stall, die and return | a yes was typed for it | `ConsentPrompt` |
| Terminal: `terminal.go` | foreground group, modes | lend, take back, stop, continue | stops, ends and cancellations cross | the shell keeps what it took | `TaskTerminal` |
| Development entry: `development.go`, `development_status.py` | rows of sessions | begin, observe, publish, finish, prune | an observer beside the main program | living rows stay; an end is final | `DevelopmentSession` |
| Logs: `logs.go` | log files and their rotations | follow | rotation between two looks | nothing lost or repeated | `LogFollow` |
| Service planning: `services.py` | none | order, fingerprint | | dependency order | no |
| Probes, process identities, command line, ecosystem adapters, bootstrap, Nix files | | | | | no: I/O, parsing and conversion |

`PROJECT.json` lists every component with its sources and, under `hazards`, what
a test of this code would hardly reach; what did not fit there is under
[Further hazards](#further-hazards).

### How they interact

A client (`run`, `up`) observes the stop notice (`StartupGuard`), has a profile
provisioned, takes the scope's *gate*, reaps dead claims, publishes its own
(`ServiceScope`), claims shared resources in their own scopes
(`ResourceScopes`), installs its executables (`StorageAssets`) and starts what
the claim needs: with no live controller it draws a *generation*, writes every
service's `command.json`, saves `plan.json` and spawns `controller`, which
registers itself and becomes Process Compose. Process Compose runs each service
through `exec`, which takes the service's admission flock, compares generations,
registers `owner.json`, looks for a stop marker and only then runs the
application (`LaunchAdmission`). Whoever stops runs `releaseUnused` under the
gate. `run` starts its task through an intermediary, which publishes itself in
the lease, and an anchor, which registers in a recovery directory that `stop`
marks; the anchor's sequence starts each command through an admitted helper
(`CommandAdmission`) in a process group that is lent the terminal
(`TaskTerminal`), while the client monitors the services (`WatchedService`).

An update is admitted as a writer (`OperationAdmission`), works in a candidate
of the cache (`UpdateCache`), resolves and audits its steps (`DependencySteps`,
`AuditReport`), verifies the candidate (`Verification`) and applies or exports it
(`UpdateTransaction`, `CandidateExport`). Git's hooks are installed files
(`HookInstall`) that start Lefthook and its callbacks (`HookBarrier`), format
what is staged (`StagedFormat`) and scan what is pushed (`HookScan`).

## Modules

| Module | What it is |
|---|---|
| `LaunchAdmission`, `OwnedService`, `LaunchAdmissionProofs` | one service from configuration to release; its promise in the abstract; the proofs |
| `ServiceScope` | several clients and `stop` sharing a scope |
| `StoragePool`, `SetupUse` | an entry of the shared storage; setting up a worktree's groups, which extends it |
| the twenty modules of the table above | one component each, with state of its own |
| `MCLaunchAdmission`, `MCServiceScope`, `MCSetupUse` | symmetry sets, the clients' requests and the groups' dependencies for TLC |
| `MCLosses` | `LaunchAdmission`, `StartupGuard` and `HookBarrier` in one run, with their fairness |
| `MCParts` | the other eighteen components in one run |
| `ServiceScopeProofs`, `SetupUseProofs` | the proofs about `ServiceScope`; about `StoragePool` and `SetupUse` |
| `LossProofs` | the proofs about `HookBarrier`, `StartupGuard` and the run that composes them |
| `ToolsProofs`, `VerdictProofs`, `ControlProofs` | the proofs about `OperationAdmission`, `StorageAssets`, `UpdateCache`, `DependencySteps` and `AuditReport`; about `Verification`, `CandidateExport`, `UpdateTransaction`, `StagedFormat`, `HookScan` and `HookInstall`; about `CommandAdmission`, `WatchedService`, `TaskTerminal`, `ResourceScopes`, `LogFollow`, `DevelopmentSession` and `ConsentPrompt` |
| `PartsProofs` | that what is proved of these components holds of the run of `MCParts` |

In `MCLosses` and `MCParts` a behaviour is that of one component, which the
variable `focus` names; the others rest. The components there exchange no state
while they run (what one gives the other is an initial state or a choice), so
this is their disjoint union, explored once.

Every module abstracts data to what its properties tell apart: contents are
small numbers, digests and tokens are values that are equal or not, names are
model values. A test of a file and the atomic replacement of the same file that
follows it at once are one step, except where the code's own comment or the
property is about the gap; changes that are undone between two looks are
invisible to a fingerprint and are not made. Environment actions (kills, edits,
commits, stray writes, signals) have no lines in `map`.

### LaunchAdmission

Each variable is one file, lock or process state, named in the declaration. A
generation is the token drawn by `start`, a launch is a process identity (PID and
birth time, never reused). The gate holder is a program counter `holder`: the
gate admits one at a time, so its identity does not matter, and `LoseHolder` may
end it between any two of its writes. `record`, `stopping`, `receipt` and
`admission` are the service's files and flock; `recorded` is what
`controller.json` names. A file removed and a file never written are the same
value. `quiet` is a history variable: a release completed and nothing has been
re-admitted since.

Bounds: `MaxGeneration` limits how often `start` runs, the size of `Launch` how
often Process Compose launches the service. Three environment constants say
what may go wrong beyond the crashes that are always there:

* `Bystanders`: a live lease may exist that names no local service;
* `LateCrash`: the controller may die between the two times `acquire` asks
  whether it is alive (main.go:1113 and 1217);
* `AnchorLoss`: SIGKILL may hit an anchor but not its process group.

`Supported` is all three FALSE. Left out: containers and dependencies between
services (each service's files are its own; dependency order only delays).

### ServiceScope

Clients, `stop` and the controller are processes; `gate` and `step` are the
holder of the gate and its next step. `lease` is the set of lease files,
`flocked` the clients that still hold their own. A task goes
`spawned → published → launched → running → ended`. The flock on a lease is inherited by the
task, so `LeaseTaskAlive` keeps the claim after the client's death, as
`leaseTaskAlive` and the flock do together. `stopToken` numbers the random
tickets of `startup-stop.json`. Starting and stopping one service is one
step here, because `LaunchAdmission` shows that a release is final and a running
service is found. `finished` is history.

Bounds: `MaxStops`, and each client runs one command. `HolderLoss` allows the
gate holder to be killed, `FirstLoss` also before the scope has a `plan.json`,
`LateAnchor` lets a task's intermediary be lost before its anchor is admitted.
Left out: resources and profile preparation (their place is in `Decide`, between
two cancellation checks, and their failure is `Withdraw`), and what a service
needs to become ready (`Ready`).

### StoragePool and SetupUse

`StoragePool` is `collect`, `use`, `runtime_run` and what their callers do with
the lease. `files` is the part of an entry that decides whether it can be used,
`parts` its payloads (or a runtime's two root links), `epoch` the receipt's
random value, numbered. Everything under `.gate` is a program counter in `gate`;
a kill drops it, with the entry as it is at that moment. A lease is an open file:
`Leased` holds while the command or a child that inherited it has it open, so a
child that outlives its command keeps the entry. What is old or over budget is
any choice of payloads, because age and size depend on nothing else here. An
error in a removal stops it and leaves the rest (`Swept`).

`SetupUse` adds `setup_use` on one worktree: `inputs` are versions, `artifact`
says from which inputs of the group and of its dependencies the installed files
come, `stamps` are the stamp files, `work` the local variables of a command.
`seen` is what `group_specs` computed of the dependencies before the lock was
taken. An installer is a process of its own, which may die, outlive its command
or exit with 0 without its artifacts, and whose partial result may look ready.
`Visit` stands for the commands of other worktrees, which share only the storage.

Abstractions: a validation of one group is one step, because it compares the
fingerprint again after its probe and neither stamps nor artifacts change under
the shared lock; the comparison before a stamp and its write are one step, since
an edit between them leaves the same files as one after both. The exclusive
setup lock becomes shared in one step, as Linux does it when there is no
conflict; flock(2) does not promise that elsewhere.

Bounds and assumptions: `MaxEpoch` limits evictions and creations, `MaxEdits` the
edits per group. Inputs do not return to an earlier version: an edit that is
undone while an installer runs is invisible to any fingerprint. Nobody removes
artifacts while a command has the setup lock (`Clean`). Left out: the migration
of package homes, the selection of protected Pub payloads, readiness probes'
content and `setup_status`.

### Shared resources and starting: ResourceScopes, StartupGuard

`ResourceScopes`: `scopeGates` are the flocks of two worktrees' scopes and of a
network and a data service they share; `claims` are the parent-linked leases in
the resources, `claimFile` the lease of a client, `probing` and `watched` the
leases somebody holds locked for a moment to see whether anybody else does (the
only way this code asks who lives). `Visit`, `Prune`, `Sweep` and `ResetNext` are
the loops of acquire, release, exit and reset over the resources; `volume` is the
compatibility stamp of the stored data. `SlowProbe` lets other steps fall between
the lock and its close, so that a releasing client may count a look for a user.

`StartupGuard`: one client from its first look at the stop tickets (`seen`) to
its end, with all the places it waits in; a `stop` per scope, which takes its
ticket before it asks for the gate; and the contained helper, its liveness lease
(`handshake.alive`) and its watcher. A killed client drops its lease, and only
`released` tells that from an orderly end.

### Running: CommandAdmission, TaskTerminal, WatchedService

`CommandAdmission`: the supervisor's places are the lines between two system
calls around the fork; `pipe` is the permit as the helper reads it; `leased` says
which processes have the operation's descriptors. Up to three signals hit the
supervisor alone or the group at any of them.

`TaskTerminal`: `group` and `modes` are the kernel's, `settings` and `kept` are
`taskTTY`'s, stops are seen by each parent's wait in turn (`anchorNews`,
`sequenceNews`). `keys` bounds what the user does: stops, `fg`, `bg`, signals,
and programs of the shell that change the modes.

`WatchedService`: build, control operation and monitor meet at `buildGate`.
`mark` and `built` are files, `first` is history: the commit that first wrote the
marker now present. A monitor's two pools and the consecutive misses of each are
those of `monitorServicePools`.

### Updates: UpdateCache, DependencySteps, AuditReport, Verification, UpdateTransaction, CandidateExport

`UpdateCache`: `slots` are directories with their receipts, torn when a kill
interrupted them; `cacheGate` holds a collection half way with what it saw;
`context` is the daemon an engine path reaches, which its user may change.

`DependencySteps`: one package, one exception for it, and lists that are absent,
empty or hold the exception, at project and adapter level; hooks may change any
adapter's content and the policy. `AuditReport` reduces one advisory's findings
by declared waivers, one after the other, over several directories.

`Verification`: `sweep` is the position in the frozen plan, between checks of
identity and ownership; others edit the source, use services and send signals.

`UpdateTransaction`: contents of `orig`, `index`, `head` and `candidate` say who
wrote them (0 as at the start, 1 the updater, 2 the user, 3 a stray process of
the candidate). The apply loop is file by file, the commit is made by writing
objects, index and branch as `update_staging.py` does. `CandidateExport`: the
control files and the public `result.json`, read at any time by another program.

### Storage of executables and operations: StorageAssets, OperationAdmission

`StorageAssets`: a scope's `generations` link to the pool's entries (`shared`);
the plan names one and a controller runs one. The collector visits a scope under
its gate, deals with one executable at a time, and then sweeps the pool.

`OperationAdmission`: `carries` are the lease descriptors a process has, its own
and those inherited; a lease is alive while anybody carries it. An operation's
children ask again with the ancestors' tokens; some are started without them.

### Hooks and consent: HookInstall, HookScan, StagedFormat, HookBarrier, ConsentPrompt

`HookInstall` writes up to six files in a fixed order and keeps the places of those
it wrote (`published`), newest last; Git reads them between any two, other programs
change one, a kill or a failure falls anywhere. The locks of all configuration
files are taken in one step. `HookScan`: a history of parents (what is reached from
a commit is the least set closed under them), trees of two paths and blobs that are
clean, suspicious or binary; the remote answers or not, revisions come in any order
that Git may list them in, and the worker's memory is per policy. `StagedFormat`:
texts that are raw or formatted in files, index and snapshot; `idxLock` is Git's
lock; a run after a kill finds the journal of the one before.
`HookBarrier`: clients lock the barrier shared before they read it; supervisors
inherit the lock. `ConsentPrompt`: both sides see the other's heartbeat as
changed or not; what is typed goes into one buffer.

### Views: LogFollow, DevelopmentSession

`LogFollow`: records of length one in a log that is rotated through several
files; the viewer knows names, descriptors and one chunk at a time. At most one
chunk (64 KiB) of a file that is rotated away is read: records beyond it are
`excused`. `DevelopmentSession`: `row` in memory and `rowFile` on disk of several
clients, changed by a main program and an observer beside it.

## Runs

| Run | Instance | Shows |
|---|---|---|
| `launch_safety` | 4 launches, 3 generations, supported; symmetry on launches | `RunningIsRecorded`, `ReleasedIsQuiet`, `BackendIsRecorded`, the inductive invariant `IInv`, and that `OwnedService` is implemented |
| `launch_losses` | 2 launches, 2 generations, all environment constants TRUE; 1 stop of each of 2 scopes; 2 callbacks | what the dead leave behind: the generation fence in every environment, a release returns, a delayed launch gives up (`LaunchAdmission`); a stop cancels a startup and gets in, helpers end (`StartupGuard`); callbacks are over when a hook says so and orphans end (`HookBarrier`) |
| `launch_bystander` | 3 launches, `Bystanders` | violation, see Findings |
| `scope_sharing` | 2 clients, 2 services, 2 fingerprints, 6 kinds of request, 2 stops, gate holders lost | a task keeps its services, exclusive access, agreement of inputs, finality of stop |
| `scope_orderly` | 2 clients, 4 kinds of request, 1 stop, no gate holder lost, anchors late | nothing runs unclaimed; a stop request comes from a stop; `stop` returns |
| `setup_use` | 2 commands, 2 groups of which one needs the other, 2 payloads, 3 epochs, 1 edit per group; both kinds of entry | a matching stamp vouches for artifacts, dependencies and downloads; installers are alone; tasks are set up to their end; leased storage stays; a runtime is rooted |
| `parts` | the eighteen other components, bounds below | the eleven properties of the next table |
| `storage_retired` | 2 commands, 3 epochs | violation, see Findings |
| `scope_first_loss`, `scope_stale_request`, `scope_late_anchor` | 2 clients, 1 stop | violations, see Findings |
| `format_lock` | 2 files, 2 runs, 2 changes | violation, see Findings |

What `parts` checks, and with which bounds. A property is a conjunction of named
parts, each stated and explained in its module:

| Property | Its parts | Instance |
|---|---|---|
| `CacheKeepsRuns` | `OneSupervisor`, `LegacyOwnsItsReceipt`, `EnginesAreBound`, `UsedCandidateKept`, `HeldCandidateKept` | 1 candidate, 2 runs, 2 daemons, 1 change of context; both schemas |
| `SharingIsSafe` | `RunningKeepsResources`, `NoGateCycle`, `DataIsKept`, `EndedTaskReleases` | 2 clients in 2 worktrees, 2 resources, 1 crash, a reset, slow probes |
| `TasksAreControlled` | `EngineHoldsNoLease`, `NoWorkAfterStop`; `TerminalComesBack`, `CancelledTaskRuns`, `ShellKeepsTerminal` | 3 commands and 3 signals; 6 actions of the user |
| `WatchIsSteady` | `StoppedStaysDown`, `DeadlineTwice`, `FirstBuildRestartsNothing`, `RestartIsNoEnd` | 3 builds, 1 stop and start, 3 late answers |
| `SweepsCount` | `OnlyWholeSweepsCount`, `OneSourceVerified`, `PrerequisitesPassed`, `CleanupIsVerified` | 3 gates, 1 change by others |
| `UpdatesAreJudged` | `CommittedIsJudged`, `InterruptedIsNotApplied`, `EditsSurvive`, `CommitsSurvive` | 2 outputs and 1 source, 1 edit, 1 stray write, 1 kill |
| `ExportsAreTrue` | `ResultChecks`, `AcceptedIsInspected`, `SuccessIsVerified`, `InterruptedIsUnknown` | 2 files, 2 writes, both flows |
| `HooksAreSafe` | `HalfAppliedIsRecorded`, `EditsAreKept`, `StagingIsKept`; `ActiveHooksAreWhole`, `IdentityIsKept`, `FailureRestores`; `PassedIsHarmless`, `TipsAreHarmless` | 2 staged files, 2 runs, 2 changes; 3 installations or removals, 1 touch; 2 commits, 2 pushes |
| `ToolsAreGuarded` | `WritersAreAlone`, `LiveLeasesAreSeen`, `PruneIsAlone`; `ToolsStay`, `PoolEntryStays` | 4 operations of which one is a hook's; 1 scope, 2 executables |
| `StepsAreAudited` | `CompletedIsAudited`, `PlanIsServed`, `RetiredIsUnneeded`, `NoExceptionReturns`, `PolicyEditsStay`; `WaiversAreExact`, `CompleteIsAssessed`, `StaleIsUseless` | 2 adapters and a hook's target in 3 orders, 1 edit; 2 lanes, 2 findings and 2 waivers, 2 paths |
| `ViewsAreTrue` | `NothingIsReplayed`, `NothingIsSkipped`; `LivingRowsStay`, `RecentRowsStay`, `EndingsAreFinal`; `ConsentIsTyped`, `AnswerStands` | 5 records in 3 files, chunks of 2; 3 sessions of which 1 finished row is kept; 2 requesters, 2 lines |

Why the bounds are enough: the hazards of launching need a launch of the
generation before, one of the current generation and one that comes late, and a
generation that is abandoned half way between two that are used: 3 generations
and 4 launches. Sharing is pairwise (claims conflict, agree or survive in pairs);
two clients, with a persistent claim that outlives its client, and two stops, one
of which may be killed, contain every pair of an older and a newer participant.
Storage and setup conflict in pairs as well, and a command that is killed may
return with its orphan still there; the three epochs are the creation, one
eviction that is cut short and one more.

In `parts` every component has the pair its hazard is about (two runs of one
candidate, two worktrees with one resource, a file done and one to come) and one
disturbance of each kind beside it; a third command, build or gate is there where
what matters is between a first and a last. Four operations are a writer, its
child, a stranger and a hook. One scope is enough for executables: scopes meet
only in the pool, which the collector sweeps outside any scope's gate while an
acquisition verifies and links. Two commits give a new branch, an update and a second push.
Larger numbers of disturbances have not been explored, with one exception: the engine's
context changes once in `parts` because `UsedCandidateKept` does not hold when it
changes twice (see Observations); the other parts of `CacheKeepsRuns` do.

Deadlock is checked in the runs of `LaunchAdmission`, `ServiceScope`,
`StoragePool` and `SetupUse`. `ServiceScope` has an explicit `Quiescent`
step for the one state in which nothing has to happen. `parts`, `launch_losses`
and `format_lock` switch it off: their components are programs that end, and the
bounds end the rest. That no client waits in a circle is `NoGateCycle` there, and
that waiting ends is `StopGetsIn`, `ReleaseReturns` and `OrphansEnd`.

TLC's coverage shows that every action of every component fires: `KillAnchor` in
`launch_losses` only, the actions of the eighteen components in `parts`. Two
branches are never taken: that the mutex is free once a lease is created
(`CreateLease` of `OperationAdmission`; its guard `Gated` rules it out), and
that a recorded phase finds an inconsistent snapshot (`RecordResult` of
`CandidateExport`). The second is the code's own check of what `ExportsAreTrue`
says.

### Fairness

`LaunchAdmission`: a release and a launch that has been spawned are scheduled
(weak fairness), and the kernel eventually serves a waiter on an flock others
keep taking (strong fairness of `MarkStopping` and `EnterAdmission`). No fairness
is given to the application, to Process Compose, to signals or to clients.
`ServiceScope`: the gate holder and `stop` run, a waiter on the gate is served,
and the deadline of `ready()` ends a startup. No client has to leave for `stop`
to return.

`StartupGuard`: a waiting client looks at the tickets every 50 ms
(`CancelStartup`) and ends what it has begun to end (`Closing`), a helper told to
end is killed after its grace period (`HelperEnds`), and a stop that waits is
given the free gate. Readiness, builds, other holders of a gate and the stop of a
shared scope have no fairness. `HookBarrier`: supervisors are scheduled and their
deadlines come (`SupervisorStops`, `SupervisorKills`); a task may ignore every
signal but the last. `LossFairness` in `MCLosses` states the same conditions,
each for the behaviours of its component.

## Proofs

Eight modules hold theorems; TLAPS checks every step of them. They hold for every
value of the constants that the named assumptions of the models allow. These say
no more than that model values are different, that bounds are numbers and that
functions have their domains, with three that describe the code: `Needs` contains
the dependencies of dependencies (`SetupAssumption`; `group_specs` orders them all
and takes their fingerprints in that order),
`Group` is not empty (a command that requests no groups takes no setup lock,
workflows.py:430, and is a `Visit`), and every client of `ResourceScopes` has one
worktree, which is neither resource (`SharingAssumption`). Where a theorem needs
more of the environment it says so, and a run shows why:

| Theorem | Condition | Without it |
|---|---|---|
| `InductiveInvariant` and what follows from it | `Supported` | `launch_bystander`; the limits under Findings |
| `ServicesStay`, `ExclusiveAlone`, `InputsStay` | `~LateAnchor` | TLC finds each violated: the task of `scope_late_anchor` (finding 4) runs on after `stop` has removed its claim |
| `StopFinal` | `~LateAnchor`, `~FirstLoss` | `scope_late_anchor`, `scope_first_loss` |
| `ServicesEnd`, `RequestsAreStops` | `~HolderLoss` (late anchors allowed) | a client killed on its way out leaves the services to the next holder of the gate; `scope_stale_request` |
| `CacheKeeps`, `CandidatesStayInParts` | `MaxSwitches <= 1` | TLC finds `UsedCandidateKept` violated, see Observations; `HeldCandidatesStay` needs no condition |

All others hold in every environment of their models. Each invariant below was checked by TLC before
it was proved.

### LaunchAdmissionProofs

* `GenerationFence`: `OldGenerationIsFenced` in every environment. Its invariant
  (`Fence`) adds the mutual exclusion of the admission flock.
* `InductiveInvariant`: `IInv` in the supported environment. The three safety
  properties are not inductive: that a release is final needs to know why a
  late launch cannot pass (`Closed`: the marker stands, or the configured
  generation has neither backend nor launch), hence how far the gate holder has
  come (`ReleasePhases`, `StartPhases`), hence which generation can still have a
  backend (`Generations`, `LaunchedByBackend`, `OneInstance`). One lemma per
  operation shows that it keeps `IInv`.
* `RunningRecorded`, `ReleaseIsFinal`, `BackendRecorded` follow from `IInv`.
* `Refinement`: every step maps to a step of `OwnedService` or to none.

### ServiceScopeProofs

The invariant has layers, each inductive over those below it. `BaseInv` holds in
every environment: who has the gate and at which step it is (`GateInv`), what a
release has found out and may therefore end (`ReleaseInv`), that no client knows a
ticket that was not given out (`TicketInv`), and what `plan.json` says (`PlanInv`).
`SharedInv` adds how far a task can be in the presence of its claim and its
recovery directory (`TaskInv`), which claims are never reaped (`ClaimInv`), and
what stands behind a claim: a client that has one and was not overtaken by a stop
finds its services running from its inputs (`ServeInv`). That nobody takes them
away is then one step per operation. `StopInv` and `OrderlyInv` are two further
invariants over `BaseInv`, for what a completed stop has left and for what an
undisturbed gate keeps.

### SetupUseProofs

`PoolInv` is about the storage and the locks: a child holds its command's lease, a
lease keeps the entry, the setup lock is exclusive for one (`LockKept`). From it
follow `RuntimeRooted`, `InstallersAlone` and the action property `LeasedStays`.
`SetupInv` rests on it: stamps are never of a later version than the inputs
(`StampsPast`) nor of a later epoch (`EpochKept`); a group under installation has
no stamp (`GroupFree`), so no half-made artifact is vouched for; what an installer
has read is at most as new as the inputs and at least as new as what its command
fingerprinted, so that equality at the end means nothing changed (`ReadFits`,
`SuccessKept`); groups a command has dealt with stay as they are while it has the
lock (`HandledKept`, `ValidKept`). Then `StampsAreTrue` and `TasksSetUp` follow,
for any groups, dependencies, commands and number of edits.

### LossProofs

* `CallbacksEnd`: `BarrierInv` says who has the barrier's lock, that a client acts
  on what it read only under that lock, and that the mark is final; a marked
  barrier has no supervisor left that could still start a task. `MarkedIsStill` is
  the action property: behind the mark no step touches a supervisor or a task.
* `GuardedStartup`: a ticket announced since the client's look stays ahead of
  what it saw (`TicketsGrow`), a helper's lease is held until its client joins it or
  is killed, and marked as released before it is given up (`LeaseIsHeld`), and a
  build that nobody has cancelled has its watcher (`BuildIsWatched`).
* `LossTypeCorrect` and the lemma `LossBehaves` carry both to the composed run.

### ToolsProofs, VerdictProofs

* Operations (`OpInv`): the mutex is held from the gate to the lock on the lease;
  descriptors are carried only by an operation that locked its lease and by its
  descendants (`LeasesAreCarried`); all holders of the writer lock share one
  opening of it (`WriterIsOne`); behind an exclusive operation's inspection, leases
  it does not carry are of operations that inherited that lock (`OthersInherit`).
  Writers and pruning are alone for any tree of operations.
* Executables (`AssetInv`): an acquisition has the pool's gate while it
  verifies and links and its scope's gate until its controller runs, a plan with
  a claim behind it names an executable that is there (`BroughtIsThere`), and what
  the collector concluded of a scope stays true under that scope's gate
  (`OpinionHolds`).
* Candidates of updates (`CacheInv`): what a collection inspects is held by nobody,
  since nobody comes to hold it while the pool's gate is taken, and an older runtime
  cannot take it for idle (`InspectedIsFree`); a mounted candidate has an engine in
  its receipt (`ContainersAreNamed`). That is enough for processes, in whatever
  context (`HeldCandidatesStay`). For containers the context matters: before its first
  change every bound engine is the one it names, after it an engine that answers as
  registered was registered since or has been left for good (`ContextFound`, which
  speaks of states with one change at most). A second change breaks the argument
  and the property alike (Observations).
* Steps of an update (`DepInv`): each resolver that has run resolved its adapter and
  nothing else is resolved, each hook that was due has served its targets
  (`StepsServed`); nothing is audited before the last step and nothing changes
  behind the audits (`AuditHolds`); a document that retirement has read holds only
  what was allowed, what will be written is that without what is retired, and a
  written one stays so unless somebody edits it late (`RetireHolds`). `ListFate`
  derives from these what became of each policy list, and from that an exception
  goes only where it is not needed (`RetiredStaysUnneeded`) and none is uncovered
  that a stronger list hid (`ExceptionsStayGone`), for any lists in two documents.
* Vulnerability reports (`AuditInv`): the waivers applied so far have taken exactly
  the pieces they cover (`PartlyWaived`, from `WaivedLeavesUncovered`); validated
  waivers cover no piece twice, so a waiver that matches nothing covers nothing of
  what the scanner found, whichever went before (`StaleStaysUseless`).
* Sweeps (`SweepInv`): the loop decides the gates in order, `result` is 0 exactly
  if all of them have passed so far, and what has spoiled a sweep is noticed
  before the next gate (`NothingIsMissed`).
* Exports (`ExportInv`): snapshot, request, inspected bodies and `result.json` fit
  one another at each write (`Fits` is the table of outcomes), for any
  number of stray writes to the candidate and interruptions anywhere.
* Updates (`UpdateInv`): strays alone write to a candidate under judgement and nothing
  undoes that, so a candidate found equal to the inspected one after its verification
  is what was verified (`JudgedKept`); the user alone writes to an original that is
  being committed, so what is found as read and as expected is what the commit says
  (`CommitFits`); the own commit is never where an update begins or resumes
  (`BranchKept`). `EditsSurvive` and `CommitsSurvive` are action properties.
* Formatting (`FormatInv`): under Git's lock the index is the one that was read
  (`LockKeepsIndex`); what will be put in place has the texts of the index
  (`OutputIsThere`), a journal precedes the first replaced file and names all that
  will be (`JournalComesFirst`), and a file is replaced only while it is what was
  read. So edits and staging are kept (`EditsAreKept`, `StagingIsKept`, action properties)
  and a half-applied format is on record, for any files and any number of runs.
* Scans (`ScanInv`): the remote has with a commit its parents, so what a base excludes
  is there already and every other revision is listed (`RootsCover`); every file of a
  revision that was read is among the pairs, also one left out as no difference to its
  neighbour (`ReadIsGathered`); the memory of clean blobs holds only plain ones. For any
  history of finitely many commits.
* Installing hooks (`HookInv`): the locks keep the configuration files to be written from
  others (`LocksHeld`); a file is the planned one if it was put in place and the one that
  was read if not, or was edited since (`FilesStand`); places are written in their order
  and restored in the opposite one, where those left out do not change
  (`WrittenInOrder`). `StandingIsSound` derives from these alone that Git sees whole hooks
  and the repository's identity, in whatever combination of old and new.

### ControlProofs

* Commands (`CommandInv`): a stop that was heard waits in the supervisor's channel
  or has ended it, and no permit was written after it (`StopIsPending`); beside a
  container engine only the sequence itself holds leases (`LeasesAreHost`). `StopsPrevent` says that no step
  turns a waiting helper into a working one after a stop.
* Watched services (`WatchInv`): gate, mark and watcher say what may still happen to the
  process (`BuildIsGated`); a build that found a success began after the commit
  that first wrote the marker (`SuccessIsEarlier`); a look at the process is made
  under the gate that a restart holds (`TaskIsWatched`); a deadline needs two misses
  in a row of one pool (`MissesAreCounted`).
* Terminal (`TerminalInv`): the task's group has the terminal only while the shell's
  settings are kept, and whoever else has it finds them restored. `ShellKeeps` is an action property.
* Shared resources (`SharingInv`): a client's lease is locked from its admission to its
  end, and a look takes no lock from it (`LeasesAreLocked`, `ProbesMissLocks`); a
  client has the gate of one resource at a time, a reset those it has reached in
  their order (`GatesAreHeld`); what a client has claimed on its way in it keeps,
  and what a reset has found unclaimed stays so (`ClaimsAreKept`). No circle of waiting clients
  follows from the order of the gates, for any number of them.
* Logs (`LogInv`): the file the viewer has open is one of the log's and it stands
  inside it (`ReaderStands`); nothing shown is ahead of it (`ShownBehind`); of the
  files that replaced the open one, what one more chunk of that file would not
  reach is excused already (`LeftBehind`), so a view is complete up to where it
  stands also between closing one file and opening the next (`ViewComplete`).
* Rows (`DevInv`): the row on disk is what the living client says, "stopping" only
  once it ends (`RowsFit`). Of the rows a client listed for pruning, each is gone
  only when enough newer ones stay, whatever other clients pruned since
  (`PruningFits`): `RecentStay` counts the newer rows at the step that removes one.
* Consent (`ConsentInv`): consents given and lines "yes" nobody has read are together
  no more than the lines "yes" typed (`LinesCover`), and the question that is open
  has no answer (`QuestionIsOpen`), so an answer never turns into the other one.

### PartsProofs

`PartsBehave` shows that a behaviour of the composed run is one of each of the
components: a step of one leaves the others' variables alone. So the conjunctions
that the run `parts` checks hold for every instance: `ToolsAreGuarded`,
`SweepsCount`, `ExportsAreTrue`, `UpdatesAreJudged`, `TasksAreControlled`,
`WatchIsSteady`, `SharingIsSafe`, `HooksAreSafe`, `ViewsAreTrue`,
`StepsAreAudited` and, with `MaxSwitches <= 1`, `CacheKeepsRuns`.

`PartsTypeCorrect` joins the components' type theorems: whatever component the
behaviour is of, its state stays of its types. Where a type says more than a range, the
proof needs more than the step at hand: a watched service never counts more commits
than builds, since a running build has yet to make its own (`CommitsAreBuilds`),
nor a third missed deadline in a row (`MissesAreCounted`); a reset that waits for
a resource or clears them has the worktree's gate, since nobody gives back a gate
that another holds (`TreesAreHeld`); the number of the next step of an update stays
within its steps and documents, and what is written back to a document bears no
edit that was not there when it was read (`EditsTyped`).

### Only model-checked

* Liveness, which is beyond the prover: `ReleaseReturns`, `DelayedLaunchEnds`,
  `StopReturns`, `StopGetsIn`, `OrphansEnd`.

## Findings

Each is a run that TLC must find violated; the texts with their lines are in
`PROJECT.json`.

1. `launch_bystander`: the controller is dead, no service is used, and one live
   claim names no service. `acquire` neither refuses (`used` is empty) nor
   releases (`previousClients`), and `start` runs a new generation over the
   application of the old one.
2. `scope_first_loss`: a client killed between writing its lease and the scope's
   first `plan.json` leaves a claim that neither the next client nor `stop` removes.
3. `scope_stale_request`: a client killed while releasing unused services leaves
   `stop-request.json` beside a live controller; the next client attaches to it
   and its task is refused as "explicitly stopped".
4. `scope_late_anchor`: the exiting client takes the absence of
   `task.owner.json` for a completed anchor; one not yet registered can be
   admitted before the directory is removed, and `stop` no longer finds it.
5. `storage_retired`: a collector killed between the three unlinks that retire a
   runtime leaves a directory that `use` takes for an entry and cannot read; every
   later command with that revision fails. A creation cut short does the same, for
   the shared downloads too.
6. `format_lock`: the formatter renames its `index.lock` over the index
   (hook_format.go:498) and its deferred `os.Remove` of that name
   (hook_format.go:413) runs afterwards. A Git command that takes the lock in
   between loses it and works on the index together with a third one.
   docs/hooks.md:151 promises that locks owned by Git are never removed.

Limits of the protocol that need an ill-timed SIGKILL, kept as environment
constants rather than findings: with `LateCrash` or `AnchorLoss` alone
`ReleasedIsQuiet` fails as well.

### Observations

Behaviour met while modelling that the models reproduce or leave room for, and
that no text of the repository contradicts clearly enough for a finding:

* A collection compares the daemon's identity before and after it lists a
  candidate's containers (update_cache.go:171, 223), but the list comes from
  whatever daemon the context names in between. A context that moves away and
  back shows another daemon's list as its own, and the candidate is removed under
  its container; so is one whose run created a container after the context
  had left the daemon that its receipt names. With `MaxSwitches = 2` in `MCParts.cfg` TLC
  finds `CacheKeepsRuns` violated by either. The comment 'Reject a context change during
  inventory as well as before it' (update_cache.go:222) speaks of single changes.
* Asking whether a lease is alive locks it for a moment (status.go:28, 60;
  scopes.go:38). A client that releases at that moment counts itself as a user and
  leaves its services running, with exit code 0 (main.go:675, 697);
  `EndedTaskReleases` allows it (`Probed`).
* A hook that empties a policy list which was empty at first makes retirement
  see no exception there (exception_retirement.py:91-113): a weaker list's
  exception may come into force. `NoExceptionReturns` is about the others.
* At most one chunk of a log that is rotated away is read (logs.go:50, 130).
* A line typed for a requester that has just died stays in the terminal's buffer
  and answers the next question (hook_prompt.go).
* The main program writes `preparing` after its task has started
  (main.go:1920) and may overwrite the `ready` the observer has just published.
* `active_operations` may fail with FileNotFoundError when a hook's own cleanup
  removes its lease file between the listing and the opening (toolchain.py:478).

## Further hazards

Hazards of this code that `PROJECT.json` does not list, with the property that
covers them:

* controller.go:39: The acquiring client may die right after spawning the
  controller: the controller must have named itself before it can become the
  backend, or nobody can end it (`BackendIsRecorded`)
* main.go:532: start draws a generation, rewrites each service's record, saves the
  plan and spawns; killed between any two of them the next client must neither
  adopt nor resurrect the half-open generation (`IInv`, `ReleasedIsQuiet`)
* main.go:943: The anchor can die without its process group, and the receipt names
  only the anchor (A limit of the protocol: with AnchorLoss = TRUE ReleasedIsQuiet
  fails; what still holds is checked by launch_losses)
* main.go:1471: A launch that ends removes owner.json whatever it names by now: it
  must never be the receipt of another running launch (`RunningIsRecorded`)
* access.go:26: Exclusive access is compared with the claims that are left after
  reaping: a claim whose task lives without its client must still count
  (`ExclusiveIsAlone`)
* main.go:1160: The client is killed between its lease and the first plan.json of
  the scope (`StopIsFinal`)
* main.go:1039: The last of several overlapping claims, released by exit, crash or
  stop, must take the services and the controller along (`NoClaimNoService`)
* main.go:1661: A stopper killed between announcing and completing its stop leaves
  a pending notice: whoever starts later has to complete it instead of being
  cancelled by it (`StopIsFinal`)
* main.go:1222: A persistent claim is not tied to a process: one written by a
  killed `up` keeps its services claimed until an explicit stop (Deliberate: only
  services-stop ends a persistent claim; scope_sharing exercises such claims)
* update_cache.go:462: A record of the older schema is taken over while its writer
  still forwards it (`CacheKeepsRuns`)
* toolchain.py:475: Operation admission inspects leases whose holders may be gone
  or re-entered, and decides later (`ToolsAreGuarded`)
* storage.py:774: A runtime's registration may be killed between its two roots;
  the next command must complete it before it executes the runtime
  (`RuntimeIsRooted`)
* storage_leases.go:25: An adapter whose backend has closed the inherited leases
  takes its own later; if the owner died in between, the entry may have been
  collected in the gap, and the epoch the adapter inherited is not compared (Needs
  an owner lost in that gap and an entry over its budget; planned as an extension
  of StoragePool)
* workflows.py:468: An installer killed half way, or outliving its command, over
  artifacts whose old stamp still matches (`StampsVouch`, `InstallersAreAlone`)
* workflows.py:506: Inputs may change while an installation runs; its stamp must
  not vouch for them (`StampsVouch`)
* workflows.py:425: group_specs fixes the dependencies' fingerprints before the
  lock: an edit in between lets a stale dependency be repaired while its dependent
  is still taken for current (`StampsVouch`)
* update_staging.py:385: A killed or failed transaction is resumed with a
  candidate edited in between, after part of it was applied, or after its
  verification was interrupted (`UpdatesAreJudged`)
* candidate_export.py:357: Outputs are listed and copied one by one while
  processes left behind by a resolver may still write to the candidate
  (`ExportsAreTrue`)
* candidate_export.py:419: The gates pass on a candidate that is no longer the
  exported one (`ExportsAreTrue`)
* candidate_export.py:413: An interruption after acceptance must not read as the
  verdict of a gate; Python may be interrupted in its own ending and end twice
  (`ExportsAreTrue`)
* profile_preparation.go:39: The helper's watcher sees only a free lease: whether
  its owner ended or died depends on what was written before the lease was given
  up (`StartupIsGuarded`)
* profile_preparation.go:185: A client is killed while its contained helper builds
  a profile; nobody else knows of the build (`StartupIsGuarded`)
* hook_format.go:486: The working files are compared once for all and then
  replaced one by one; the user may edit a later one meanwhile (`HooksAreSafe`)
* hook_format.go:408: Git commands of the user stage and commit while the
  formatter prepares a new index from what it had read (`HooksAreSafe`)
* hook_format.go:482: A formatter killed or stopped between two files leaves the
  working tree half formatted and the index as it was (`HooksAreSafe`)
* hook_admin.go:353: A failed write in the middle is undone file by file, and the
  undoing passes through the same halfway states (`HooksAreSafe`)
* hook_admin.go:366: Git and editors change the files between the reading and the
  replacing of each (`HooksAreSafe`)
* hook_barrier.go:50: Lefthook passed but the callbacks' supervisors outlast the
  drain; the hook must not let Git go on (`CallbacksAreOver`)
* toolchain.py:705: Automatic pruning trusts an inspection made a few steps
  earlier in the same admission (`ToolsAreGuarded`)
* hook_scan.go:232: Only differences between listed neighbours are scanned,
  whatever the history, several refs and bases; a file may be missed
  (`HooksAreSafe`)
* trojan_source.py:140: A blob remembered as clean under one path or policy is
  skipped under another (`HooksAreSafe`)
* logs.go:131: The view begins at a moment fixed before the services start,
  perhaps before their log exists (`ViewsAreTrue`)
* development.go:444: The observer ticks beside the main program and may write a
  phase over the one that says the operation is ending (`ViewsAreTrue`)
* development.go:338: Two clients that start together both remove old rows from
  listings that are no longer current (`ViewsAreTrue`)
* storage_assets.go:316: A collector killed between the executables and the plan
  of an abandoned scope, and the worktree comes back (`ToolsAreGuarded`)
* storage_assets.go:388: A pool entry is judged unlinked while an installer that
  verified it is about to link it (`ToolsAreGuarded`)
* terminal.go:150: The task stops, is continued in the background or ends while
  the shell has taken the terminal (`TasksAreControlled`)
* exception_retirement.py:451: Retirement plans all documents before it writes
  any; an edit in between must survive and must not be half-applied
  (`StepsAreAudited`)
* exception_retirement.py:391: A shared exception concerns adapters that this run
  did not select, or that another list shadows; deleting it, or the list it leaves
  empty, changes policies nobody audited (`StepsAreAudited`)
* dependency_audit.py:165: Waivers are applied one after the other and one that
  matches nothing is an error: what an earlier one took must not make a useful one
  look stale (`StepsAreAudited`)
* dependency_audit.py:441: One directory's scanner breaks off while the others
  answer; the report must not call itself complete (`StepsAreAudited`)
* scopes.go:117: A worktree that ends, crashes or resets prunes shared resources
  from its own view of their users, while another worktree is starting
  (`SharingIsSafe`)
* volumes.go:89: Stored data of another format is replaced when it is disposable,
  or kept and refused; users that only start, or have crashed, decide which
  (`SharingIsSafe`)
* watch.go:151: Publishing the first build lets the service start at once; the
  same build must not take the process it has just caused for an old one to
  restart (`WatchIsSteady`)
* watch.go:190: A restart that follows a build looks, to the client that monitors
  the service, like its end (`WatchIsSteady`)
* verification.go:241: A gate whose prerequisite was itself blocked, not failed,
  must not run (`SweepsCount`)
* verification.go:154: A gate leaves services behind in a scope that did not
  exist, or existed stopped, before the sweep (`SweepsCount`)

## Not modelled

* Service planning (`services.py`), configuration and command line: functions of
  declarations without shared state; a plan is an input here. Dependency order
  and fingerprints are worth stating as operators.
* Probes, network and process identities: one request or one look at the kernel
  per call. Their answers are choices, and identities are never reused.
* Ecosystem adapters (`*_updates.py`, `lock_adapters.py`, `registry.py`, about a
  third of the implementation): they translate between package managers' formats
  and registries. What their steps and hooks may change is in `DependencySteps`.
* Bootstrap scripts, Nix packaging, templates: process and signal forwarding
  around one call, and declarations.
* Inside modelled components: containers of services, selection by age and
  budget, formats of receipts and reports, merging several logs, the display of
  sessions, setup's readiness probes and package homes.
* Gaps that no model here opens: an edit undone between two comparisons; one
  storage lease handed to an adapter that takes its own later
  (storage_leases.go:25); an installation's locks of several configuration files,
  which are taken one after the other.

## Plan

1. `ResourceScopes` composed with `ServiceScope` through the claim a scope holds
   in its parent.
2. Dependency order and plan fingerprints of `services.py` as operators, checked
   against a reference definition.
