-------------------------- MODULE LaunchAdmission --------------------------
(***************************************************************************)
(* How one service of a scope is started, found again and stopped.         *)
(*                                                                         *)
(* Three kinds of process share the private state directory of the scope:  *)
(*                                                                         *)
(*   - the gate holder: the one client or stopper that owns the scope's    *)
(*     gate.  It runs acquire, start, startMissing and releaseUnused, and  *)
(*     may be killed between any two of their steps;                       *)
(*   - controllers: the `controller` child that start spawns, which        *)
(*     registers controller.json and then becomes Process Compose by exec, *)
(*     one for every generation;                                           *)
(*   - launches: the `exec` children Process Compose runs for the service, *)
(*     each the identity anchor of its own process group.                  *)
(*                                                                         *)
(* They meet in controller.json, stop-request.json, plan.json and the      *)
(* service's command.json, owner.json and .stopping marker, under the      *)
(* flocks controller.admission and <service>.admission.  A spawned process *)
(* can be delayed for as long as the scheduler likes before it looks at    *)
(* any of them.                                                            *)
(***************************************************************************)
EXTENDS Naturals

CONSTANTS
  Launch,           \* process identities of the service's launches (PID + birth)
  NoLaunch,         \* "no such file" for owner.json, "unlocked" for an flock
  MaxGeneration,    \* bound: how many times start may run
  Bystanders,       \* may a live lease that names no local service exist?
  LateCrash,        \* may the controller die after acquire found it alive?
  AnchorLoss        \* may SIGKILL reach an anchor but not its process group?

ASSUME LaunchAssumption == NoLaunch \notin Launch
ASSUME GenerationAssumption == MaxGeneration \in Nat
ASSUME EnvironmentAssumption ==
  Bystanders \in BOOLEAN /\ LateCrash \in BOOLEAN /\ AnchorLoss \in BOOLEAN

Generation == 1 .. MaxGeneration

VARIABLES
  record,         \* generation in <service>.command.json, 0 before the first
  stopping,       \* <service>.stopping exists
  receipt,        \* <service>.owner.json: the anchor it names
  admission,      \* holder of the flock <service>.admission
  pc,             \* launch -> how far `exec` has come
  launchGen,      \* launch -> generation its backend was configured with
  work,           \* launch -> its process group still runs the application
  planned,        \* plan.json exists
  planGen,        \* generation in plan.json, 0 when saved without one
  issued,         \* last generation token drawn by start
  stopRequest,    \* stop-request.json exists
  controllerLock, \* holder of controller.admission: 0, a generation, or the gate holder
  recorded,       \* generation whose process controller.json names, 0 for none
  ctl,            \* generation -> state of that controller process
  holder,         \* program counter of the gate holder
  resume,         \* where releaseUnused returns to
  target,         \* owner stopReceipt has read and is ending
  quiet           \* history: a release completed and nothing was re-admitted since

launchVars  == <<pc, launchGen, work>>
serviceVars == <<record, stopping, receipt, admission>>
scopeVars   == <<planned, planGen, issued, stopRequest, controllerLock, recorded, ctl>>
holderVars  == <<holder, resume, target, quiet>>
vars == <<record, stopping, receipt, admission, pc, launchGen, work, planned,
          planGen, issued, stopRequest, controllerLock, recorded, ctl, holder,
          resume, target, quiet>>

\* controller.admission is never held by generation 0.
Unlocked == 0
ByHolder == MaxGeneration + 1

ReleaseSteps == {"mark", "owner", "await", "terminate", "forget"}
StartSteps   == {"save", "open", "configure", "commit", "spawn", "restart"}

TypeOK ==
  /\ record \in 0 .. MaxGeneration
  /\ stopping \in BOOLEAN
  /\ receipt \in Launch \cup {NoLaunch}
  /\ admission \in Launch \cup {NoLaunch}
  /\ pc \in [Launch -> {"unborn", "spawned", "entered", "registered", "observed",
                        "admitted", "finished", "gone"}]
  /\ launchGen \in [Launch -> 0 .. MaxGeneration]
  /\ work \in [Launch -> BOOLEAN]
  /\ planned \in BOOLEAN
  /\ planGen \in 0 .. MaxGeneration
  /\ issued \in 0 .. MaxGeneration
  /\ stopRequest \in BOOLEAN
  /\ controllerLock \in 0 .. ByHolder
  /\ recorded \in 0 .. MaxGeneration
  /\ ctl \in [Generation -> {"none", "spawned", "registered", "up", "draining", "gone"}]
  /\ holder \in {"idle"} \cup ReleaseSteps \cup StartSteps
  /\ resume \in {"idle", "save"}
  /\ target \in Launch \cup {NoLaunch}
  /\ quiet \in BOOLEAN

Init ==
  /\ record = 0 /\ stopping = FALSE /\ receipt = NoLaunch /\ admission = NoLaunch
  /\ pc = [l \in Launch |-> "unborn"]
  /\ launchGen = [l \in Launch |-> 0]
  /\ work = [l \in Launch |-> FALSE]
  /\ planned = FALSE /\ planGen = 0 /\ issued = 0
  /\ stopRequest = FALSE /\ controllerLock = Unlocked /\ recorded = 0
  /\ ctl = [g \in Generation |-> "none"]
  /\ holder = "idle" /\ resume = "idle" /\ target = NoLaunch
  /\ quiet = TRUE

\* The launch has the flock <service>.admission.
Holding(l) == pc[l] \in {"entered", "registered", "observed"}
Live(l) == pc[l] \notin {"unborn", "gone"}
\* controller(p).alive(): the process controller.json names still exists.
ControllerAlive == recorded \in Generation /\ ctl[recorded] \in {"registered", "up", "draining"}

----------------------------------------------------------------------------
(* The controller child: controllerExec.                                   *)

PlanNames_Any(g) == TRUE          \* mutant: the generation is not compared
\* plan.json still carries the generation the child was spawned with.
PlanNames(g) == planGen = g

\* Under controller.admission the child checks that plan.json still carries its
\* generation and names itself in controller.json; a stale child just exits.
RegisterController(g) ==
  /\ ctl[g] = "spawned"
  /\ controllerLock = Unlocked
  /\ \/ /\ PlanNames(g)
        /\ ctl' = [ctl EXCEPT ![g] = "registered"]
        /\ controllerLock' = g
        /\ recorded' = g
     \/ /\ ~PlanNames(g)
        /\ ctl' = [ctl EXCEPT ![g] = "gone"]
        /\ UNCHANGED <<controllerLock, recorded>>
  /\ UNCHANGED <<serviceVars, launchVars, planned, planGen, issued, stopRequest, holderVars>>

\* Only then does it look for a stop request; exec and exit both drop the flock.
ObserveStopRequest(g) ==
  /\ ctl[g] = "registered"
  /\ ctl' = [ctl EXCEPT ![g] = IF stopRequest THEN "gone" ELSE "up"]
  /\ controllerLock' = Unlocked
  /\ UNCHANGED <<serviceVars, launchVars, planned, planGen, issued, stopRequest,
                 recorded, holderVars>>

\* A controller ends after SIGTERM, or is killed at any point of its life - with
\* LateCrash also between acquire's crash check and its decision to start.
EndController(g) ==
  /\ ctl[g] \in {"spawned", "registered", "up", "draining"}
  /\ LateCrash \/ ~(holder \in {"save", "open"} /\ g = recorded)
  /\ ctl' = [ctl EXCEPT ![g] = "gone"]
  /\ controllerLock' = IF controllerLock = g THEN Unlocked ELSE controllerLock
  /\ UNCHANGED <<serviceVars, launchVars, planned, planGen, issued, stopRequest,
                 recorded, holderVars>>

----------------------------------------------------------------------------
(* The launches: owned.                                                    *)

CommandNames_Any(l) == TRUE       \* mutant: the generation is not compared
\* command.json still carries the generation on the launch's command line.
CommandNames(l) == record = launchGen[l]

StopMarked_Unseen == FALSE        \* mutant: the marker is not looked for
\* <service>.stopping exists.
StopMarked == stopping

\* Process Compose runs at most one instance of a process, restarts it by its
\* policy, and is not relied on to stop doing so before it is gone.
SpawnLaunch(g, l) ==
  /\ ctl[g] \in {"up", "draining"}
  /\ pc[l] = "unborn"
  /\ \A k \in Launch : Live(k) => launchGen[k] # g
  /\ pc' = [pc EXCEPT ![l] = "spawned"]
  /\ launchGen' = [launchGen EXCEPT ![l] = g]
  /\ UNCHANGED <<serviceVars, work, scopeVars, holderVars>>

\* Take <service>.admission and compare command.json with the generation on the
\* command line.
EnterAdmission(l) ==
  /\ pc[l] = "spawned"
  /\ admission = NoLaunch
  /\ \/ /\ CommandNames(l)
        /\ pc' = [pc EXCEPT ![l] = "entered"]
        /\ admission' = l
     \/ /\ ~CommandNames(l)
        /\ pc' = [pc EXCEPT ![l] = "gone"]
        /\ UNCHANGED admission
  /\ UNCHANGED <<record, stopping, receipt, launchGen, work, scopeVars, holderVars>>

\* Publish the anchor's identity in owner.json.
RegisterOwner(l) ==
  /\ pc[l] = "entered"
  /\ receipt' = l
  /\ pc' = [pc EXCEPT ![l] = "registered"]
  /\ UNCHANGED <<record, stopping, admission, launchGen, work, scopeVars, holderVars>>

\* Register first, observe the stop marker and the generation afterwards.
ObserveStopping(l) ==
  /\ pc[l] = "registered"
  /\ \/ /\ StopMarked
        /\ pc' = [pc EXCEPT ![l] = "gone"]
        /\ receipt' = NoLaunch
        /\ admission' = NoLaunch
     \/ /\ ~StopMarked /\ ~CommandNames(l)
        /\ pc' = [pc EXCEPT ![l] = "gone"]
        /\ admission' = NoLaunch
        /\ UNCHANGED receipt
     \/ /\ ~StopMarked /\ CommandNames(l)
        /\ pc' = [pc EXCEPT ![l] = "observed"]
        /\ UNCHANGED <<receipt, admission>>
  /\ UNCHANGED <<record, stopping, launchGen, work, scopeVars, holderVars>>

\* startAdmitted permits the workload, or a pending signal or a failed exec
\* vetoes it; either way the admission flock is dropped.
Admit(l) ==
  /\ pc[l] = "observed"
  /\ admission' = NoLaunch
  /\ \/ /\ pc' = [pc EXCEPT ![l] = "admitted"]
        /\ work' = [work EXCEPT ![l] = TRUE]
        /\ UNCHANGED receipt
     \/ /\ pc' = [pc EXCEPT ![l] = "gone"]
        /\ receipt' = NoLaunch
        /\ UNCHANGED work
  /\ UNCHANGED <<record, stopping, launchGen, scopeVars, holderVars>>

\* The application ended by itself, by a signal or by its timeout, and
\* finishGroup has ended what was left of the group.
FinishWork(l) ==
  /\ pc[l] = "admitted"
  /\ pc' = [pc EXCEPT ![l] = "finished"]
  /\ work' = [work EXCEPT ![l] = FALSE]
  /\ UNCHANGED <<serviceVars, launchGen, scopeVars, holderVars>>

\* os.Remove(owner.json), whatever it holds by now, and exit.  When ending the
\* container failed, owned returns earlier and leaves the receipt.
ExitLaunch(l) ==
  /\ pc[l] = "finished"
  /\ pc' = [pc EXCEPT ![l] = "gone"]
  /\ receipt' \in {receipt, NoLaunch}
  /\ UNCHANGED <<record, stopping, admission, launchGen, work, scopeVars, holderVars>>

\* SIGKILL to the process group, the backend's last resort or anything else ...
KilledLaunch(l) ==
  /\ pc' = [pc EXCEPT ![l] = "gone"]
  /\ work' = [work EXCEPT ![l] = FALSE]
  /\ admission' = IF admission = l THEN NoLaunch ELSE admission

KillGroup(l) ==
  /\ KilledLaunch(l)
  /\ UNCHANGED <<record, stopping, receipt, launchGen, scopeVars, holderVars>>

\* ... or to the anchor alone.  Its group, if it had one, keeps running.
KillAnchor(l) ==
  /\ AnchorLoss
  /\ pc[l] \in {"admitted", "finished"}
  /\ pc' = [pc EXCEPT ![l] = "gone"]
  /\ UNCHANGED <<serviceVars, launchGen, work, scopeVars, holderVars>>

KillLaunch(l) == Live(l) /\ (KillGroup(l) \/ KillAnchor(l))

----------------------------------------------------------------------------
(* The gate holder.                                                        *)

ReturnsTo_Start == {"idle", "open"}    \* mutant: recovery skips saving the plan
\* The release of acquire's recovery is followed by the rest of acquire.
ReturnsTo == {"idle", "save"}

\* releaseUnused begins: for an explicit stop, for a client whose exit leaves the
\* service unused, or for an acquire that finds no client and either a dead
\* controller or another fingerprint.  The stop request is left out only when the
\* release is not forced and some lease remains.
BeginRelease ==
  /\ holder = "idle"
  /\ planned
  /\ resume' \in ReturnsTo
  /\ \/ controllerLock = Unlocked /\ stopRequest' = TRUE
     \/ Bystanders /\ resume' = "idle" /\ UNCHANGED stopRequest
  /\ holder' = "mark"
  /\ UNCHANGED <<serviceVars, launchVars, planned, planGen, issued, controllerLock,
                 recorded, ctl, target, quiet>>

AdmissionFree_Ignored == TRUE     \* mutant: the marker is written without the flock
\* No launch is between its flock and its admission.
AdmissionFree == admission = NoLaunch

\* serviceStopping(true) waits for a launch that holds <service>.admission.
MarkStopping ==
  /\ holder = "mark"
  /\ AdmissionFree
  /\ stopping' = TRUE
  /\ holder' = "owner"
  /\ UNCHANGED <<record, receipt, admission, launchVars, scopeVars, resume, target, quiet>>

\* stopReceipt reads owner.json.  The preceding `process stop` is best effort:
\* its result is ignored, and what it may do KillGroup and FinishWork allow.
ReadOwner ==
  /\ holder = "owner"
  /\ target' = receipt
  /\ holder' = IF receipt = NoLaunch THEN "terminate" ELSE "await"
  /\ UNCHANGED <<serviceVars, launchVars, scopeVars, resume, quiet>>

EscalateOwner_Never == FALSE      \* mutant: an owner that ignores SIGTERM is waited for
\* SIGTERM has not ended the owner by its deadline: SIGKILL to its group.
EscalateOwner ==
  /\ holder = "await"
  /\ Live(target)
  /\ KilledLaunch(target)
  /\ UNCHANGED <<record, stopping, receipt, launchGen, scopeVars, holderVars>>

OwnerEnded_Assumed == TRUE        \* mutant: SIGTERM is taken for its effect
OwnerEnded == ~Live(target)

\* The owner is gone: remove owner.json.
RemoveReceipt ==
  /\ holder = "await"
  /\ OwnerEnded
  /\ receipt' = NoLaunch
  /\ target' = NoLaunch
  /\ holder' = "terminate"
  /\ UNCHANGED <<record, stopping, admission, launchVars, scopeVars, resume, quiet>>

\* `down` and SIGTERM to the recorded controller, which is not waited for: one
\* that has not yet become Process Compose ends at once.
TerminateController ==
  /\ holder = "terminate"
  /\ \/ /\ ControllerAlive
        /\ ctl' = [ctl EXCEPT ![recorded] = IF @ = "registered" THEN "gone" ELSE "draining"]
        /\ controllerLock' = IF controllerLock = recorded THEN Unlocked ELSE controllerLock
     \/ /\ ~ControllerAlive
        /\ UNCHANGED <<ctl, controllerLock>>
  /\ holder' = "forget"
  /\ UNCHANGED <<serviceVars, launchVars, planned, planGen, issued, stopRequest,
                 recorded, resume, target, quiet>>

\* controller.json is removed, and releaseUnused returns.
ForgetController ==
  /\ holder = "forget"
  /\ recorded' = 0
  /\ holder' = resume
  /\ resume' = "idle"
  /\ quiet' = TRUE
  /\ UNCHANGED <<serviceVars, launchVars, planned, planGen, issued, stopRequest,
                 controllerLock, ctl, target>>

\* acquire with no plan yet, with a live controller, or - while no service is
\* used but some lease remains - with a dead controller and no release at all.
BeginAcquire ==
  /\ holder = "idle"
  /\ ~planned \/ ControllerAlive \/ Bystanders
  /\ holder' = "save"
  /\ UNCHANGED <<serviceVars, launchVars, scopeVars, resume, target, quiet>>

\* plan.json is saved: the previous one when the controller lives, else the new
\* plan, which has no generation yet.
SavePlan ==
  /\ holder = "save"
  /\ planned' = TRUE
  /\ planGen' = IF ControllerAlive THEN planGen ELSE 0
  /\ holder' = "open"
  /\ UNCHANGED <<serviceVars, launchVars, issued, stopRequest, controllerLock,
                 recorded, ctl, resume, target, quiet>>

\* A live controller only needs startMissing.
FoundController ==
  /\ holder = "open"
  /\ ControllerAlive
  /\ holder' = "restart"
  /\ UNCHANGED <<serviceVars, launchVars, scopeVars, resume, target, quiet>>

\* startMissing clears the marker, and `process start` lets the backend launch.
StartMissing ==
  /\ holder = "restart"
  /\ admission = NoLaunch
  /\ stopping' = FALSE
  /\ quiet' = FALSE
  /\ holder' = "idle"
  /\ UNCHANGED <<record, receipt, admission, launchVars, scopeVars, resume, target>>

\* start takes controller.admission, draws a generation, drops the stop request.
OpenGeneration ==
  /\ holder = "open"
  /\ ~ControllerAlive
  /\ controllerLock = Unlocked
  /\ issued < MaxGeneration
  /\ issued' = issued + 1
  /\ controllerLock' = ByHolder
  /\ stopRequest' = FALSE
  /\ holder' = "configure"
  /\ UNCHANGED <<serviceVars, launchVars, planned, planGen, recorded, ctl,
                 resume, target, quiet>>

\* configuration rewrites command.json and clears the marker in one admission.
ConfigureService ==
  /\ holder = "configure"
  /\ admission = NoLaunch
  /\ record' = issued
  /\ stopping' = FALSE
  /\ quiet' = FALSE
  /\ holder' = "commit"
  /\ UNCHANGED <<receipt, admission, launchVars, scopeVars, resume, target>>

\* plan.json names the generation, controller.admission is dropped.
CommitPlan ==
  /\ holder = "commit"
  /\ planGen' = issued
  /\ controllerLock' = Unlocked
  /\ holder' = "spawn"
  /\ UNCHANGED <<serviceVars, launchVars, planned, issued, stopRequest, recorded,
                 ctl, resume, target, quiet>>

SpawnController ==
  /\ holder = "spawn"
  /\ ctl' = [ctl EXCEPT ![issued] = "spawned"]
  /\ holder' = "idle"
  /\ UNCHANGED <<serviceVars, launchVars, planned, planGen, issued, stopRequest,
                 controllerLock, recorded, resume, target, quiet>>

\* The gate holder is killed, or an error makes it return, between two steps.
LoseHolder ==
  /\ holder # "idle"
  /\ holder' = "idle"
  /\ resume' = "idle"
  /\ target' = NoLaunch
  /\ controllerLock' = IF controllerLock = ByHolder THEN Unlocked ELSE controllerLock
  /\ UNCHANGED <<serviceVars, launchVars, planned, planGen, issued, stopRequest,
                 recorded, ctl, quiet>>

----------------------------------------------------------------------------
ControllerNext(g) ==
  \/ RegisterController(g) \/ ObserveStopRequest(g) \/ EndController(g)

LaunchNext(l) ==
  \/ EnterAdmission(l) \/ RegisterOwner(l) \/ ObserveStopping(l) \/ Admit(l)
  \/ FinishWork(l) \/ ExitLaunch(l) \/ KillLaunch(l)

ReleaseNext ==
  \/ MarkStopping \/ ReadOwner \/ EscalateOwner \/ RemoveReceipt
  \/ TerminateController \/ ForgetController

AcquireNext ==
  \/ SavePlan \/ FoundController \/ StartMissing \/ OpenGeneration
  \/ ConfigureService \/ CommitPlan \/ SpawnController

Next ==
  \/ \E g \in Generation : ControllerNext(g)
  \/ \E g \in Generation, l \in Launch : SpawnLaunch(g, l)
  \/ \E l \in Launch : LaunchNext(l)
  \/ BeginRelease \/ BeginAcquire \/ ReleaseNext \/ AcquireNext \/ LoseHolder

Spec == Init /\ [][Next]_vars

\* Fairness: a release and a launch, once begun, are scheduled, and the kernel serves
\* a waiter on an flock.  The application never has to end by itself, nothing has to
\* be killed, no controller has to run and nobody has to start or acquire anything.
Fairness ==
  /\ SF_vars(MarkStopping) /\ WF_vars(ReleaseNext)
  /\ \A l \in Launch :
       /\ SF_vars(EnterAdmission(l))
       /\ WF_vars(RegisterOwner(l) \/ ObserveStopping(l) \/ Admit(l) \/ ExitLaunch(l))

LiveSpec == Spec /\ Fairness

----------------------------------------------------------------------------
(* What the protocol promises.                                             *)

\* Every process group that runs the application is the one owner.json names, so
\* that whoever stops the service next can find it: stopReceipt reads only that
\* file, which RegisterOwner and ExitLaunch of other launches write too.
RunningIsRecorded == \A l \in Launch : work[l] => receipt = l

\* Whatever is lost, a launch of an old generation neither replaces owner.json nor
\* starts the application: the generation it compared stays the configured one for
\* as long as it is between its flock and its admission.
OldGenerationIsFenced == \A l \in Launch : Holding(l) => launchGen[l] = record

\* After releaseUnused has returned, no delayed launch, of whatever generation,
\* brings the application back until start or startMissing re-admits it.
ReleasedIsQuiet == quiet => \A l \in Launch : ~work[l]

\* A controller that became Process Compose is the one controller.json names:
\* killing the acquiring client cannot leave a started backend unrecorded.
BackendIsRecorded == \A g \in Generation : ctl[g] = "up" => recorded = g

\* releaseUnused returns even if the application ignores every signal but SIGKILL
\* and launches keep arriving (stopReceipt's deadline, serviceStopping's flock).
ReleaseReturns == holder \in ReleaseSteps ~> holder \notin ReleaseSteps

\* A launch that is still on its way when the release returns gives up by itself,
\* whatever is lost: it sees the marker, or the generation it was replaced by.
DelayedLaunchEnds ==
  \A l \in Launch :
    (quiet /\ pc[l] \in {"spawned", "entered", "registered"}) ~> (~quiet \/ pc[l] = "gone")

----------------------------------------------------------------------------
(* The inductive invariant behind them, in the environment the protocol    *)
(* supports.                                                               *)

Supported == ~Bystanders /\ ~LateCrash /\ ~AnchorLoss

\* The launch got past the stop marker.
Admitting(l) == pc[l] \in {"observed", "admitted", "finished"}

\* The application runs below admitted anchors only.
WorkIsAnchored == \A l \in Launch : work[l] => pc[l] = "admitted"

\* <service>.admission excludes launches from each other and from the holder.
AdmissionIsExclusive == \A l \in Launch : Holding(l) <=> admission = l

\* A launch past its generation check is of the generation command.json names.
AdmittedIsCurrent ==
  \A l \in Launch : Holding(l) \/ Admitting(l) => launchGen[l] = record

\* A backend runs one instance, and has run before its launches exist.
OneInstance ==
  \A k, l \in Launch : Live(k) /\ Live(l) /\ launchGen[k] = launchGen[l] => k = l
LaunchedByBackend ==
  \A l \in Launch : Live(l) =>
     /\ launchGen[l] \in Generation
     /\ ctl[launchGen[l]] \in {"up", "draining", "gone"}

\* An anchor that got past the marker, or will, is the one in owner.json.
AnchorIsRecorded ==
  \A l \in Launch :
     Admitting(l) \/ (pc[l] = "registered" /\ ~stopping) => receipt = l

\* Nothing is admitted, and nothing can be until the marker is cleared or a new
\* generation is configured: the marker refuses launches, or the configured
\* generation has no backend and no launch left.
Closed ==
  /\ \A l \in Launch : ~Admitting(l)
  /\ \/ stopping
     \/ /\ record = 0 \/ ctl[record] = "gone"
        /\ \A l \in Launch : Live(l) => launchGen[l] # record

ReleasePhases ==
  /\ holder \in ReleaseSteps => stopRequest /\ planned
  /\ holder \in {"owner", "await"} =>
       stopping /\ \A l \in Launch : pc[l] # "observed"
  /\ holder = "await" =>
       target \in Launch /\ \A l \in Launch : Admitting(l) => l = target
  /\ holder \in {"terminate", "forget"} => Closed
  /\ holder = "forget" => \A g \in Generation : ctl[g] # "up"
  /\ quiet => Closed

StartPhases ==
  /\ ~planned => holder \in {"idle", "save"} /\ Closed
  /\ holder \in {"save", "open"} => ControllerAlive \/ Closed
  /\ holder \in {"open", "configure"} =>
       planGen = 0 \/ ControllerAlive \/ ctl[planGen] = "gone"
  /\ holder \in {"configure", "commit"} <=> controllerLock = ByHolder
  /\ holder \in {"configure", "commit"} => ~ControllerAlive
  /\ holder = "configure" => Closed
  /\ holder = "commit" => record = issued
  /\ holder \in {"configure", "commit", "spawn"} => ctl[issued] = "none" /\ issued \in Generation

Generations ==
  /\ \A g \in Generation : g > issued => ctl[g] = "none"
  /\ record <= issued /\ planGen <= issued /\ recorded <= issued
  /\ \A g \in Generation : ctl[g] = "registered" <=> controllerLock = g
  /\ ControllerAlive => planGen = recorded
  /\ planGen # 0 /\ ctl[planGen] # "gone" => record = planGen
  /\ \A g \in Generation : ctl[g] = "registered" /\ ~stopRequest => recorded = g

IInv ==
  /\ TypeOK /\ WorkIsAnchored /\ AdmissionIsExclusive /\ AdmittedIsCurrent
  /\ OneInstance /\ LaunchedByBackend /\ AnchorIsRecorded
  /\ ReleasePhases /\ StartPhases /\ Generations /\ BackendIsRecorded

----------------------------------------------------------------------------
(* The abstract specification it implements.                               *)

Owned == INSTANCE OwnedService WITH
           active <- {l \in Launch : work[l]}, open <- ~quiet

\* The protocol implements OwnedService: one running group at a time, and a
\* release closes the service only when none runs.
ImplementsOwnedService == Owned!Spec
=============================================================================
