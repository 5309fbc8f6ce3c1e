---------------------------- MODULE ServiceScope ----------------------------
(***************************************************************************)
(* How clients share the services of one scope, and how `stop` ends them.  *)
(*                                                                         *)
(* A client (`run` or `up`) announces nothing: it observes the stop notice,*)
(* polls the scope's gate, reaps dead claims, publishes a claim (a lease   *)
(* file, flocked by the client and inherited by its task), starts what the *)
(* claim needs and releases the gate.  `run` then starts a task of its own *)
(* - an intermediary and, below a recovery directory, an anchor - and when *)
(* that ends stops whatever no claim uses any more.  `stop` writes a       *)
(* notice, waits for the gate, ends every task and service and removes     *)
(* every claim.  Any of these processes may be killed between two steps.   *)
(*                                                                         *)
(* One service is started and stopped in one step here: LaunchAdmission    *)
(* shows what makes that sound.                                            *)
(***************************************************************************)
EXTENDS Naturals, FiniteSets

CONSTANTS
  Client,        \* client processes; each runs one command
  Service,       \* services of the plan, with their dependencies
  Fingerprint,   \* fingerprints of the service inputs
  Requests,      \* what a client may ask for: [wants, exclusive, persistent, fingerprint]
  NoOne, Stopper, NoPlan,
  MaxStops,      \* bound: how many stop notices are written
  HolderLoss,    \* may the gate holder be killed, or fail half way?
  FirstLoss,     \* ... even before the scope has a plan.json?
  LateAnchor     \* may a task's intermediary be lost before its anchor is admitted?

ASSUME ScopeAssumption ==
  /\ NoOne \notin Client /\ Stopper \notin Client /\ NoOne # Stopper
  /\ NoPlan \notin Fingerprint
  /\ MaxStops \in Nat /\ HolderLoss \in BOOLEAN /\ FirstLoss \in BOOLEAN
  /\ LateAnchor \in BOOLEAN
  /\ Requests \subseteq [wants : SUBSET Service, exclusive : BOOLEAN,
                         persistent : BOOLEAN, fingerprint : Fingerprint]

VARIABLES
  request,      \* client -> what it asks for
  pc,           \* client -> how far it has come outside the gate
  seen,         \* client -> stop ticket it has observed
  gate,         \* holder of the flock `gate`
  step,         \* next step of the gate holder
  after,        \* where releaseUnused returns to: acquire goes on, or it leaves
  forced,       \* argument `force` of releaseUnused
  used,         \* result of active(): services of the remaining claims
  lease,        \* clients whose lease file exists
  flocked,      \* clients that still hold the flock on their own lease
  task,         \* client -> how far its task has come
  recovery,     \* client -> its task's recovery directory
  plan,         \* fingerprint in plan.json
  stopRequest,  \* stop-request.json exists
  stopToken,    \* ticket in startup-stop.json, 0 before the first
  stopPending,  \* its `pending` field
  stopper,      \* program counter of `stop`
  controller,   \* the recorded controller is alive
  running,      \* services that have been started and not stopped
  finished      \* history: ticket of the last stop that completed

clientVars == <<request, seen>>
leaseVars  == <<lease, flocked>>
taskVars   == <<task, recovery>>
stopVars   == <<stopToken, stopPending, stopper, finished>>
ownVars    == <<plan, stopRequest, controller, running>>
gateVars   == <<step, after, forced, used>>
vars == <<request, pc, seen, gate, step, after, forced, used, lease, flocked, task,
          recovery, plan, stopRequest, stopToken, stopPending, stopper, controller,
          running, finished>>

AcquireSteps == {"look", "claim", "save", "decide", "ready"}
ReleaseSteps == {"reap", "request", "tasks", "services"}
ReturnSteps  == {"discard", "discarding"}

TypeOK ==
  /\ request \in [Client -> Requests]
  /\ pc \in [Client -> {"idle", "waiting", "inside", "acquired", "prepared",
                        "attending", "closing", "returning", "gone"}]
  /\ seen \in [Client -> 0 .. MaxStops]
  /\ gate \in Client \cup {NoOne, Stopper}
  /\ step \in AcquireSteps \cup ReleaseSteps \cup ReturnSteps \cup {"none"}
  /\ after \in {"claim", "leave"}
  /\ forced \in BOOLEAN
  /\ used \subseteq Service
  /\ lease \subseteq Client /\ flocked \subseteq Client
  /\ task \in [Client -> {"none", "spawned", "published", "launched", "running", "ended"}]
  /\ recovery \in [Client -> {"none", "made", "marked"}]
  /\ plan \in Fingerprint \cup {NoPlan}
  /\ stopRequest \in BOOLEAN
  /\ stopToken \in 0 .. MaxStops /\ stopPending \in BOOLEAN
  /\ stopper \in {"idle", "announced", "inside", "closing"}
  /\ controller \in BOOLEAN
  /\ running \subseteq Service
  /\ finished \in 0 .. MaxStops

Init ==
  /\ request \in [Client -> Requests]
  /\ pc = [c \in Client |-> "idle"] /\ seen = [c \in Client |-> 0]
  /\ gate = NoOne /\ step = "none" /\ after = "leave" /\ forced = FALSE /\ used = {}
  /\ lease = {} /\ flocked = {}
  /\ task = [c \in Client |-> "none"] /\ recovery = [c \in Client |-> "none"]
  /\ plan = NoPlan /\ stopRequest = FALSE
  /\ stopToken = 0 /\ stopPending = FALSE /\ stopper = "idle"
  /\ controller = FALSE /\ running = {} /\ finished = 0

At(c, here)  == pc[c] = here
Go(c, there) == pc' = [pc EXCEPT ![c] = there]
Inside(c, here) == gate = c /\ step = here
WantedBy_Nested(claims) == {request[c].wants : c \in claims}   \* mutant: lists, not names
\* The services a set of claims names.
WantedBy(claims) == UNION {request[c].wants : c \in claims}

----------------------------------------------------------------------------
(* The startup guard.                                                      *)

\* startupGuard.check: a stop is under way, or one completed since observe.
Cancelled(c) == stopPending \/ stopToken # seen[c]

\* observe, at the start of acquire.
Observe(c) ==
  /\ At(c, "idle")
  /\ \/ stopPending /\ Go(c, "gone") /\ UNCHANGED seen
     \/ ~stopPending /\ Go(c, "waiting") /\ seen' = [seen EXCEPT ![c] = stopToken]
  /\ UNCHANGED <<request, gate, gateVars, leaseVars, taskVars, ownVars, stopVars>>

\* lock polls the gate and gives up when check fails; a signal fails it too.
GiveUp(c) ==
  /\ At(c, "waiting")
  /\ Go(c, "gone")
  /\ UNCHANGED <<clientVars, gate, gateVars, leaseVars, taskVars, ownVars, stopVars>>

EnterGate(c) ==
  /\ At(c, "waiting") /\ ~Cancelled(c)
  /\ gate = NoOne
  /\ gate' = c /\ step' = "look" /\ Go(c, "inside")
  /\ UNCHANGED <<clientVars, after, forced, used, leaseVars, taskVars, ownVars, stopVars>>

----------------------------------------------------------------------------
(* acquire, under the gate.                                                *)

LeaseTaskAlive_Never(c) == FALSE      \* mutant: only the client's own flock counts
\* The task keeps a claim alive: its processes inherit the flock on the lease,
\* and task.json names the intermediary.
LeaseTaskAlive(c) == task[c] \in {"spawned", "published", "launched", "running"}

\* A claim active() keeps.
Present(c) == c \in flocked \/ request[c].persistent \/ LeaseTaskAlive(c)

\* Leave the gate without a claim: acquire refuses the client.
Refuse(c) == gate' = NoOne /\ step' = "none" /\ Go(c, "gone")

ExclusiveConflict_Own(c, d) ==        \* mutant: only the newcomer's flag counts
  request[c].exclusive /\ request[c].wants \cap request[d].wants # {}
\* checkServiceAccess, for one remaining claim.
ExclusiveConflict(c, d) ==
  /\ request[c].exclusive \/ request[d].exclusive
  /\ request[c].wants \cap request[d].wants # {}

Incompatible_Used(c, claims) ==       \* mutant: a claim that names no service is no client
  WantedBy(claims) # {} /\ plan # request[c].fingerprint
\* Claims remain and were acquired for other inputs.
Incompatible(c, claims) == claims # {} /\ plan # request[c].fingerprint

\* active() removes dead claims.  The remaining ones refuse other inputs, and a
\* dead controller when they use services; without any, what an earlier
\* generation left, or other inputs started, is released by force.
Look(c) ==
  /\ Inside(c, "look")
  /\ LET claims  == IF plan = NoPlan THEN lease ELSE {d \in lease : Present(d)}
         wanted  == IF plan = NoPlan THEN {} ELSE WantedBy(claims)
         refused == /\ plan # NoPlan
                    /\ Incompatible(c, claims) \/ (~controller /\ wanted # {})
         release == /\ plan # NoPlan /\ claims = {}
                    /\ ~controller \/ plan # request[c].fingerprint
     IN /\ lease' = claims
        /\ used' = wanted
        /\ \/ refused /\ Refuse(c) /\ UNCHANGED <<after, forced>>
           \/ /\ ~refused /\ release
              /\ step' = "request" /\ after' = "claim" /\ forced' = TRUE
              /\ UNCHANGED <<pc, gate>>
           \/ /\ ~refused /\ ~release
              /\ step' = "claim"
              /\ UNCHANGED <<pc, gate, after, forced>>
  /\ UNCHANGED <<clientVars, flocked, taskVars, ownVars, stopVars>>

\* checkServiceAccess, then the lease file, written and flocked.
Claim(c) ==
  /\ Inside(c, "claim")
  /\ \/ /\ \E d \in lease : ExclusiveConflict(c, d)
        /\ Refuse(c) /\ UNCHANGED leaseVars
     \/ /\ \A d \in lease : ~ExclusiveConflict(c, d)
        /\ lease' = lease \cup {c} /\ flocked' = flocked \cup {c}
        /\ step' = "save" /\ UNCHANGED <<pc, gate>>
  /\ UNCHANGED <<clientVars, after, forced, used, taskVars, ownVars, stopVars>>

\* plan.json: a live controller keeps its plan.
Save(c) ==
  /\ Inside(c, "save")
  /\ plan' = IF controller THEN plan ELSE request[c].fingerprint
  /\ step' = "decide"
  /\ UNCHANGED <<pc, clientVars, gate, after, forced, used, leaseVars, taskVars,
                 stopRequest, controller, running, stopVars>>

\* Volumes, the bridge and the resources are in place; check once more, then
\* start a controller, or what the live one does not run for another claim yet.
Decide(c) ==
  /\ Inside(c, "decide") /\ ~Cancelled(c)
  /\ LET wants == request[c].wants IN
     /\ stopRequest' = IF wants = {} \/ ~controller THEN FALSE ELSE stopRequest
     /\ controller' = (controller \/ wants # {})
     /\ running' = IF controller THEN running \cup (wants \ used) ELSE running \cup wants
  /\ step' = "ready"
  /\ UNCHANGED <<pc, clientVars, gate, after, forced, used, leaseVars, taskVars,
                 plan, stopVars>>

\* The backend reports every selected service running and ready.
Ready(c) == request[c].wants = {} \/ (controller /\ request[c].wants \subseteq running)

\* The claim stands.  `up` closes its lease and exits, `run` goes on to its task.
Acquired(c) ==
  /\ Inside(c, "ready") /\ ~Cancelled(c) /\ Ready(c)
  /\ gate' = NoOne /\ step' = "none"
  /\ IF request[c].persistent
       THEN Go(c, "gone") /\ flocked' = flocked \ {c}
       ELSE Go(c, "acquired") /\ UNCHANGED flocked
  /\ UNCHANGED <<clientVars, after, forced, used, lease, taskVars, ownVars, stopVars>>

\* A failed check, an error of any later part of acquire, a signal, or a service
\* that is not ready in time: cleanup withdraws the claim and releases.
Withdraw(c) ==
  /\ Inside(c, "decide") \/ Inside(c, "ready")
  /\ lease' = lease \ {c} /\ flocked' = flocked \ {c}
  /\ step' = "reap" /\ after' = "leave" /\ forced' = FALSE
  /\ UNCHANGED <<pc, clientVars, gate, used, taskVars, ownVars, stopVars>>

----------------------------------------------------------------------------
(* The task of a `run`.                                                    *)

\* taskRecoveryState: refuse after a stop, else make the recovery directory.
Prepare(c) ==
  /\ At(c, "acquired") /\ gate = NoOne
  /\ \/ stopRequest /\ Go(c, "closing") /\ UNCHANGED recovery
     \/ ~stopRequest /\ Go(c, "prepared") /\ recovery' = [recovery EXCEPT ![c] = "made"]
  /\ UNCHANGED <<clientVars, gate, gateVars, leaseVars, task, ownVars, stopVars>>

\* Start the intermediary (`leased-task`), which inherits the flock on the lease.
ForkTask(c) ==
  /\ At(c, "prepared")
  /\ Go(c, "attending") /\ task' = [task EXCEPT ![c] = "spawned"]
  /\ UNCHANGED <<clientVars, gate, gateVars, leaseVars, recovery, ownVars, stopVars>>

LeaseMatches_Assumed(c) == TRUE       \* mutant: the lease is not looked for again
\* The inherited descriptor is still the lease file.
LeaseMatches(c) == c \in lease

\* publishLeaseTask: a delayed intermediary finds its lease, or ends.
PublishTask(c) ==
  /\ task[c] = "spawned" /\ gate = NoOne
  /\ task' = [task EXCEPT ![c] = IF LeaseMatches(c) THEN "published" ELSE "ended"]
  /\ UNCHANGED <<clientVars, pc, gate, gateVars, leaseVars, recovery, ownVars, stopVars>>

\* `command` starts the identity anchor.
LaunchTask(c) ==
  /\ task[c] = "published"
  /\ task' = [task EXCEPT ![c] = "launched"]
  /\ UNCHANGED <<clientVars, pc, gate, gateVars, leaseVars, recovery, ownVars, stopVars>>

\* The anchor finds a stop marker, or no recovery directory at all.
TaskRefused(c) == recovery[c] # "made"

\* The anchor is admitted: owner.json names it, and the task runs.
AdmitTask(c) ==
  /\ task[c] = "launched"
  /\ task' = [task EXCEPT ![c] = IF TaskRefused(c) THEN "ended" ELSE "running"]
  /\ UNCHANGED <<clientVars, pc, gate, gateVars, leaseVars, recovery, ownVars, stopVars>>

\* The task ends, fails or is killed, whatever it was doing.
EndTask(c) ==
  /\ LeaseTaskAlive(c)
  /\ task' = [task EXCEPT ![c] = "ended"]
  /\ UNCHANGED <<clientVars, pc, gate, gateVars, leaseVars, recovery, ownVars, stopVars>>

\* The client is done with the task: it ended, a signal or a failed service
\* cancels it, or nothing was started.  Cancelling and losing the intermediary
\* both leave an admitted anchor to the step that follows.
LeaveTask(c) ==
  /\ pc[c] \in {"acquired", "prepared", "attending"}
  /\ Go(c, "closing")
  /\ \/ task[c] \in {"none", "running", "ended"} /\ UNCHANGED task
     \/ task[c] \in {"spawned", "published", "launched"} /\ task' = [task EXCEPT ![c] = "ended"]
     \/ LateAnchor /\ task[c] = "launched" /\ UNCHANGED task
  /\ UNCHANGED <<clientVars, gate, gateVars, leaseVars, recovery, ownVars, stopVars>>

\* stopOwner ends the task owner.json names, then the lease is closed.
CloseLease(c) ==
  /\ At(c, "closing")
  /\ Go(c, "returning")
  /\ task' = [task EXCEPT ![c] = IF recovery[c] # "none" /\ @ = "running" THEN "ended" ELSE @]
  /\ flocked' = flocked \ {c}
  /\ UNCHANGED <<clientVars, gate, gateVars, lease, recovery, ownVars, stopVars>>

\* The exiting client takes the gate to release what is unused.
ReturnToGate(c) ==
  /\ At(c, "returning") /\ gate = NoOne
  /\ gate' = c /\ Go(c, "inside")
  /\ step' = IF recovery[c] = "none" THEN "reap" ELSE "discard"
  /\ after' = "leave" /\ forced' = FALSE
  /\ UNCHANGED <<clientVars, used, leaseVars, taskVars, ownVars, stopVars>>

\* Without owner.json the recovery directory is of no use any more ...
DiscardRecovery(c) ==
  /\ Inside(c, "discard")
  /\ step' = IF task[c] = "running" THEN "reap" ELSE "discarding"
  /\ UNCHANGED <<pc, clientVars, gate, after, forced, used, leaseVars, taskVars,
                 ownVars, stopVars>>

\* ... and is removed.
RemoveRecovery(c) ==
  /\ Inside(c, "discarding")
  /\ recovery' = [recovery EXCEPT ![c] = "none"]
  /\ step' = "reap"
  /\ UNCHANGED <<pc, clientVars, gate, after, forced, used, leaseVars, task,
                 ownVars, stopVars>>

----------------------------------------------------------------------------
(* releaseUnused, by whoever holds the gate.                               *)

\* Not forced: active() removes dead claims and tells which services are used.
Reap ==
  /\ step = "reap"
  /\ lease' = {d \in lease : Present(d)}
  /\ used' = WantedBy(lease')
  /\ step' = "request"
  /\ UNCHANGED <<pc, clientVars, gate, after, forced, flocked, taskVars, ownVars, stopVars>>

AsksToStop_Unused == forced \/ used = {}   \* mutant: a claim for no service is no client
\* A stop is requested of whatever still starts.
AsksToStop == forced \/ lease = {}

\* stop-request.json: nobody is left, or everybody has to go.
RequestStop ==
  /\ step = "request"
  /\ stopRequest' = (stopRequest \/ AsksToStop)
  /\ used' = IF forced THEN {} ELSE used
  /\ step' = IF forced THEN "tasks" ELSE "services"
  /\ UNCHANGED <<pc, clientVars, gate, after, forced, leaseVars, taskVars, plan,
                 controller, running, stopVars>>

NeedsStop_Again(c) == recovery[c] # "none"   \* mutant: marked directories too
\* A recovery directory stopTasks has not dealt with.
NeedsStop(c) == recovery[c] = "made"

\* stopTasks, for one recovery directory: mark it, then end its owner.
StopTask(c) ==
  /\ step = "tasks" /\ NeedsStop(c)
  /\ recovery' = [recovery EXCEPT ![c] = "marked"]
  /\ task' = [task EXCEPT ![c] = IF @ = "running" THEN "ended" ELSE @]
  /\ UNCHANGED <<pc, clientVars, gate, gateVars, leaseVars, ownVars, stopVars>>

TasksStopped ==
  /\ step = "tasks" /\ \A c \in Client : ~NeedsStop(c)
  /\ step' = "services"
  /\ UNCHANGED <<pc, clientVars, gate, after, forced, used, leaseVars, taskVars,
                 ownVars, stopVars>>

\* Services no claim uses are stopped, dependents first.
StopService(n) ==
  /\ step = "services" /\ n \in running \ used
  /\ running' = running \ {n}
  /\ UNCHANGED <<pc, clientVars, gate, gateVars, leaseVars, taskVars, plan,
                 stopRequest, controller, stopVars>>

\* The claims a release removes without looking whether they are alive.
ForgottenClaims == IF forced THEN lease ELSE {}

KeepsController_Unforced == used # {} \/ ~forced   \* mutant: only `stop` ends it
\* The controller is kept while a claim uses a service.
KeepsController == used # {}

\* Nothing is used: the controller ends, and a forced release removes all claims.
\* Then releaseUnused returns: acquire goes on, or the holder leaves the gate.
EndRelease ==
  /\ step = "services" /\ running \subseteq used
  /\ controller' = (controller /\ KeepsController)
  /\ lease' = lease \ ForgottenClaims
  /\ \/ /\ after = "claim"
        /\ step' = "claim"
        /\ UNCHANGED <<pc, gate, stopper, finished>>
     \/ /\ after = "leave" /\ gate \in Client
        /\ Refuse(gate)
        /\ UNCHANGED <<stopper, finished>>
     \/ /\ after = "leave" /\ gate = Stopper
        /\ gate' = NoOne /\ step' = "none"
        /\ stopper' = "closing" /\ finished' = stopToken
        /\ UNCHANGED pc
  /\ UNCHANGED <<clientVars, after, forced, used, flocked, taskVars, plan, stopRequest,
                 running, stopToken, stopPending>>

----------------------------------------------------------------------------
(* stop.                                                                   *)

\* Announce cancellation before waiting for the gate.
Announce ==
  /\ stopper = "idle" /\ stopToken < MaxStops
  /\ stopToken' = stopToken + 1 /\ stopPending' = TRUE
  /\ stopper' = "announced"
  /\ UNCHANGED <<pc, clientVars, gate, gateVars, leaseVars, taskVars, ownVars, finished>>

\* With the gate: release the saved plan by force, or find that there is none.
EnterStop ==
  /\ stopper = "announced" /\ gate = NoOne
  /\ \/ /\ plan = NoPlan
        /\ stopper' = "closing" /\ finished' = stopToken
        /\ UNCHANGED <<gate, step, after, forced>>
     \/ /\ plan # NoPlan
        /\ stopper' = "inside" /\ gate' = Stopper
        /\ step' = "request" /\ after' = "leave" /\ forced' = TRUE
        /\ UNCHANGED finished
  /\ UNCHANGED <<pc, clientVars, used, leaseVars, taskVars, ownVars, stopToken, stopPending>>

\* The deferred second notice: startups may go on, with this ticket.
CloseStop ==
  /\ stopper = "closing"
  /\ stopper' = "idle" /\ stopPending' = FALSE
  /\ UNCHANGED <<pc, clientVars, gate, gateVars, leaseVars, taskVars, ownVars,
                 stopToken, finished>>

----------------------------------------------------------------------------
(* Losses.                                                                 *)

LeaveGate(h) ==
  /\ gate' = IF gate = h THEN NoOne ELSE gate
  /\ step' = IF gate = h THEN "none" ELSE step

\* SIGKILL to a client: its flock and the gate go with it, its task does not.
KillClient(c) ==
  /\ pc[c] \notin {"idle", "gone"}
  /\ gate = c => HolderLoss /\ (plan # NoPlan \/ FirstLoss)
  /\ Go(c, "gone") /\ LeaveGate(c)
  /\ flocked' = flocked \ {c}
  /\ UNCHANGED <<clientVars, after, forced, used, lease, taskVars, ownVars, stopVars>>

\* SIGKILL to `stop`, which leaves its notice pending.
KillStop ==
  /\ HolderLoss /\ stopper # "idle"
  /\ stopper' = "idle" /\ LeaveGate(Stopper)
  /\ UNCHANGED <<pc, clientVars, after, forced, used, leaseVars, taskVars, ownVars,
                 stopToken, stopPending, finished>>

\* The controller dies.  Its services are their own process groups and survive.
LoseController ==
  /\ controller
  /\ controller' = FALSE
  /\ UNCHANGED <<pc, clientVars, gate, gateVars, leaseVars, taskVars, plan, stopRequest,
                 running, stopVars>>

----------------------------------------------------------------------------
AcquireNext(c) ==
  \/ Look(c) \/ Claim(c) \/ Save(c) \/ Decide(c) \/ Acquired(c) \/ Withdraw(c)

TaskNext(c) ==
  \/ PublishTask(c) \/ LaunchTask(c) \/ AdmitTask(c) \/ EndTask(c)

RunNext(c) ==
  \/ Prepare(c) \/ ForkTask(c) \/ LeaveTask(c) \/ CloseLease(c) \/ ReturnToGate(c)
  \/ DiscardRecovery(c) \/ RemoveRecovery(c)

ReleaseNext ==
  \/ Reap \/ RequestStop \/ (\E c \in Client : StopTask(c)) \/ TasksStopped
  \/ (\E n \in Service : StopService(n)) \/ EndRelease

\* Every client has ended and nobody wants to stop: nothing more has to happen.
Quiescent ==
  /\ \A c \in Client : pc[c] = "gone"
  /\ gate = NoOne /\ stopper = "idle"
  /\ UNCHANGED vars

Next ==
  \/ \E c \in Client :
       \/ Observe(c) \/ GiveUp(c) \/ EnterGate(c)
       \/ AcquireNext(c) \/ RunNext(c) \/ TaskNext(c) \/ KillClient(c)
  \/ ReleaseNext
  \/ Announce \/ EnterStop \/ CloseStop \/ KillStop
  \/ LoseController \/ Quiescent

Spec == Init /\ [][Next]_vars

\* Fairness: the gate holder and `stop` run, the kernel wakes a waiter on the
\* gate, and the deadline of ready() ends a startup whose services never get ready.
Fairness ==
  /\ WF_vars(ReleaseNext) /\ SF_vars(EnterStop) /\ WF_vars(CloseStop)
  /\ \A c \in Client :
       WF_vars(AcquireNext(c)) /\ WF_vars(DiscardRecovery(c) \/ RemoveRecovery(c))

LiveSpec == Spec /\ Fairness

----------------------------------------------------------------------------
(* What sharing a scope promises.                                          *)

Runs(c) == task[c] = "running"

\* The services of a running task stay: no client that exits, is refused or
\* replaces a fingerprint stops a service somebody else's task uses, whichever
\* of the processes that hold the claim is already gone (active, releaseUnused).
TasksKeepServices == \A c \in Client : Runs(c) => request[c].wants \subseteq running

\* Two running tasks never share a service that one of them asked to have for
\* itself (checkServiceAccess, over whatever claims active() has kept).
ExclusiveIsAlone ==
  \A c, d \in Client : c # d /\ Runs(c) /\ Runs(d) => ~ExclusiveConflict(c, d)

\* A running task's services were started from the inputs it asked for, and so
\* were those of every other running task.
InputsAgree == \A c \in Client : Runs(c) => plan = request[c].fingerprint

\* Once `stop` has returned, nothing that began before it is left or comes back:
\* no claim, no task however late it is scheduled, and no service but those a
\* client that has observed this stop asked for.
StopIsFinal ==
  LET after_stop(c) == pc[c] # "idle" /\ seen[c] >= finished IN
  /\ \A c \in Client : pc[c] # "idle" /\ ~after_stop(c) =>
       ~Runs(c) /\ c \notin lease
  /\ stopper = "closing" => lease = {} /\ running = {}
  /\ \A n \in running : \E c \in Client : after_stop(c) /\ n \in request[c].wants

\* Between two visits of the gate, no service runs without a claim: the last
\* client to leave has stopped them all.
NoClaimNoService == gate = NoOne /\ lease = {} => running = {} /\ ~controller

\* stop-request.json stands in the way of an acquired client only if a stop was
\* announced after the client observed the notice.
StopRequestIsAStop ==
  \A c \in Client : At(c, "acquired") /\ stopRequest => Cancelled(c)

\* `stop` returns, however many clients are starting, waiting or leaving.
StopReturns == stopper = "announced" ~> stopper = "idle"

============================================================================
