----------------------------- MODULE StartupGuard -----------------------------
(***************************************************************************)
(* A client while it starts services (src/nix/control/startup.go,           *)
(* profile_preparation.go, the `stop` and `run` commands of main.go and the *)
(* root holder of src/scripts/services.py).  It may have to wait: for a     *)
(* helper that provisions a profile, for the mutation gate of its scope or  *)
(* of a shared resource, for readiness.  `stop` announces itself in a       *)
(* ticket before it asks for the gate, and the waiting client reads tickets.*)
(***************************************************************************)
EXTENDS Integers, FiniteSets

CONSTANTS MaxStops \* bound: stops of each scope

ASSUME GuardAssumption == MaxStops \in Nat

GuardScopes == {"own", "shared"}

VARIABLES starter,     \* the client: place in its startup, plan with a profile?
          seen,        \* the tickets it observed; -1 before
          ticket,      \* startup-stop.json of each scope
          gateOf,      \* who holds the gate of each scope
          stopper,     \* the stop command of each scope
          handshake,   \* outgoing/alive held, released.json, incoming/ready.json
          provisioner, \* the contained provisioner, and who cancelled it
          watching,    \* its watcher of the liveness lease runs
          announced    \* scopes with a stop announced since they were observed

guardVars == <<starter, seen, ticket, gateOf, stopper, handshake, provisioner, watching,
               announced>>

Places == {"begin", "look", "spawn", "await", "own", "ownGate", "shared", "sharedGate",
           "sharedReady", "claimed", "ownReady", "acquired", "mark", "unlock", "join",
           "ended", "killed"}

GuardTypeOK ==
  /\ starter \in [pc : Places, profile : BOOLEAN, ok : BOOLEAN]
  /\ seen \in [GuardScopes -> -1..MaxStops]
  /\ ticket \in [GuardScopes -> [token : 0..MaxStops, pending : BOOLEAN]]
  /\ gateOf \in [GuardScopes -> {"free", "client", "stop", "other"}]
  /\ stopper \in [GuardScopes -> {"idle", "waiting", "stopping"}]
  /\ handshake \in [alive : BOOLEAN, released : BOOLEAN, ready : BOOLEAN]
  /\ provisioner \in [is : {"none", "building", "holding", "ended", "failed"},
                     term : {"", "owner", "watcher"}]
  /\ watching \in BOOLEAN /\ announced \subseteq GuardScopes
  /\ provisioner.is # "none" /\ starter.pc \notin {"join", "ended", "killed"} => handshake.alive

GuardInit ==
  /\ starter \in [pc : {"begin"}, profile : BOOLEAN, ok : {FALSE}]
  /\ seen = [s \in GuardScopes |-> -1]
  /\ ticket = [s \in GuardScopes |-> [token |-> 0, pending |-> FALSE]]
  /\ gateOf = [s \in GuardScopes |-> "free"] /\ stopper = [s \in GuardScopes |-> "idle"]
  /\ handshake = [alive |-> FALSE, released |-> FALSE, ready |-> FALSE]
  /\ provisioner = [is |-> "none", term |-> ""] /\ watching = FALSE /\ announced = {}

----------------------------------------------------------------------------
Starts(pc) == starter.pc = pc
Moves(pc) == starter' = [starter EXCEPT !.pc = pc]
Frees == gateOf' = [s \in GuardScopes |-> IF gateOf[s] = "client" THEN "free" ELSE gateOf[s]]
Running == provisioner.is \in {"building", "holding"}

\* check: every observed ticket is as it was; a completed stop has replaced it.
NoStop(looked) ==
  \A s \in GuardScopes : looked[s] # -1 => ~ticket[s].pending /\ ticket[s].token = looked[s]

\* check: the helper whose roots the services will need is still there.
RootsKept == starter.profile /\ starter.pc \notin {"begin", "look", "spawn", "await"} => Running
Check == NoStop(seen) /\ RootsKept

\* Mutated form: the acquisition observes a scope that preparation had observed.
Observed_Wrong(s) == [seen EXCEPT ![s] = ticket[s].token]

\* observe: the first look at a scope counts, later ones only check.
Observed(s) == IF seen[s] # -1 THEN seen ELSE [seen EXCEPT ![s] = ticket[s].token]

ObserveGuard(s, from, to) ==
  /\ Starts(from) /\ ~ticket[s].pending /\ NoStop(Observed(s)) /\ RootsKept
  /\ seen' = Observed(s) /\ Moves(to)
  /\ UNCHANGED <<ticket, gateOf, stopper, handshake, provisioner, watching, announced>>

\* observePlan, before anything is prepared, when there is something to prepare.
ObserveOwn == starter.profile /\ ObserveGuard("own", "begin", "look")
ObserveShared == ObserveGuard("shared", "look", "spawn")
NoProfile ==
  /\ Starts("begin") /\ ~starter.profile /\ Moves("own")
  /\ UNCHANGED <<seen, ticket, gateOf, stopper, handshake, provisioner, watching, announced>>

\* startProfilePreparation: the lease is held before the helper exists.
SpawnProvisioner ==
  /\ Starts("spawn") /\ Moves("await")
  /\ handshake' = [handshake EXCEPT !.alive = TRUE]
  /\ provisioner' = [provisioner EXCEPT !.is = "building"] /\ watching' = TRUE
  /\ UNCHANGED <<seen, ticket, gateOf, stopper, announced>>
HelperReady ==
  /\ Starts("await") /\ Check /\ Running /\ handshake.ready /\ Moves("own")
  /\ UNCHANGED <<seen, ticket, gateOf, stopper, handshake, provisioner, watching, announced>>

\* acquire: its scope's gate, then the resource's; each wait checks before it tries.
ObserveOwnAgain == ObserveGuard("own", "own", "ownGate")
ObserveSharedAgain == ObserveGuard("shared", "shared", "sharedGate")
TakeScopeGate(s, from, to) ==
  /\ Starts(from) /\ Check /\ gateOf[s] = "free"
  /\ gateOf' = [gateOf EXCEPT ![s] = "client"] /\ Moves(to)
  /\ UNCHANGED <<seen, ticket, stopper, handshake, provisioner, watching, announced>>
TakeOwn == TakeScopeGate("own", "ownGate", "shared")
TakeShared == TakeScopeGate("shared", "sharedGate", "sharedReady")
\* The resource is ready and claimed; its gate is free for others again.
SharedReady ==
  /\ Starts("sharedReady") /\ Check /\ Moves("claimed")
  /\ gateOf' = [gateOf EXCEPT !["shared"] = "free"]
  /\ UNCHANGED <<seen, ticket, stopper, handshake, provisioner, watching, announced>>
StartOwn ==
  /\ Starts("claimed") /\ Check /\ Moves("ownReady")
  /\ UNCHANGED <<seen, ticket, gateOf, stopper, handshake, provisioner, watching, announced>>
OwnReady ==
  /\ Starts("ownReady") /\ Check
  /\ starter' = [starter EXCEPT !.pc = "acquired", !.ok = TRUE] /\ Frees
  /\ UNCHANGED <<seen, ticket, stopper, handshake, provisioner, watching, announced>>

\* Where a waiting client looks.
Cancellable == {"begin", "look", "await", "own", "ownGate", "shared", "sharedGate",
                "sharedReady", "claimed", "ownReady"}

\* A stop, a signal or the helper's end cancels the startup; a preparation that
\* is not admitted yet is cancelled with it, an admitted one released.
CancelStartup ==
  /\ starter.pc \in Cancellable
  /\ \/ ~Check
     \/ \E s \in GuardScopes : ticket[s].pending /\ seen[s] = -1
          /\ starter.pc = (IF s = "own" THEN IF starter.profile THEN "begin" ELSE "own"
                           ELSE IF starter.profile THEN "look" ELSE "shared")
     \/ starter.pc = "await" /\ ~Running
  /\ Moves(IF starter.profile /\ starter.pc \notin {"begin", "look"} THEN "mark" ELSE "ended")
  /\ provisioner' = IF Starts("await") /\ Running THEN [provisioner EXCEPT !.term = "owner"] ELSE provisioner
  /\ Frees
  /\ UNCHANGED <<seen, ticket, stopper, handshake, watching, announced>>
Interrupt ==
  /\ starter.pc \in Cancellable \ {"begin", "look"}
  /\ Moves(IF starter.profile THEN "mark" ELSE "ended")
  /\ provisioner' = IF Starts("await") /\ Running THEN [provisioner EXCEPT !.term = "owner"] ELSE provisioner
  /\ Frees
  /\ UNCHANGED <<seen, ticket, stopper, handshake, watching, announced>>
\* The task or the `up` of an acquired client ends.
FinishRun ==
  /\ Starts("acquired") /\ Moves(IF starter.profile THEN "mark" ELSE "ended")
  /\ UNCHANGED <<seen, ticket, gateOf, stopper, handshake, provisioner, watching, announced>>

----------------------------------------------------------------------------
\* Mutated form: the lease is given up before the release is recorded.
CloseStep_Wrong(n) ==
  IF n = 1 THEN [handshake EXCEPT !.alive = FALSE] ELSE [handshake EXCEPT !.released = TRUE]

\* close: the release is recorded, then the lease is given up.
CloseStep(n) ==
  IF n = 1 THEN [handshake EXCEPT !.released = TRUE] ELSE [handshake EXCEPT !.alive = FALSE]

CloseMark ==
  /\ Starts("mark") /\ handshake' = CloseStep(1) /\ Moves("unlock")
  /\ UNCHANGED <<seen, ticket, gateOf, stopper, provisioner, watching, announced>>
CloseAlive ==
  /\ Starts("unlock") /\ handshake' = CloseStep(2) /\ Moves("join")
  /\ UNCHANGED <<seen, ticket, gateOf, stopper, provisioner, watching, announced>>
\* A helper that does not end in time is terminated; the client waits for its end.
JoinTimeout ==
  /\ Starts("join") /\ Running /\ provisioner.term = ""
  /\ provisioner' = [provisioner EXCEPT !.term = "owner"]
  /\ UNCHANGED <<starter, seen, ticket, gateOf, stopper, handshake, watching, announced>>
Joined ==
  /\ Starts("join") /\ ~Running /\ Moves("ended")
  /\ UNCHANGED <<seen, ticket, gateOf, stopper, handshake, provisioner, watching, announced>>

\* The kernel gives the locks of a killed client back.
StarterKilled ==
  /\ starter.pc \notin {"ended", "killed"} /\ Moves("killed") /\ Frees
  /\ handshake' = [handshake EXCEPT !.alive = FALSE]
  /\ UNCHANGED <<seen, ticket, stopper, provisioner, watching, announced>>

\* prepare_profile: realize the profile, say so, hold its roots while owned.
HelperBuilt ==
  /\ provisioner.is = "building" /\ provisioner.term = ""
  /\ IF handshake.alive
     THEN provisioner' = [provisioner EXCEPT !.is = "holding"] /\ handshake' = [handshake EXCEPT !.ready = TRUE]
     ELSE provisioner' = [provisioner EXCEPT !.is = "failed"] /\ UNCHANGED handshake
  /\ UNCHANGED <<starter, seen, ticket, gateOf, stopper, watching, announced>>
HelperFails ==
  /\ provisioner.is = "building" /\ provisioner' = [provisioner EXCEPT !.is = "failed"]
  /\ UNCHANGED <<starter, seen, ticket, gateOf, stopper, handshake, watching, announced>>
HelperReleased ==
  /\ provisioner.is = "holding" /\ ~handshake.alive /\ provisioner.term = ""
  /\ provisioner' = [provisioner EXCEPT !.is = "ended"]
  /\ UNCHANGED <<starter, seen, ticket, gateOf, stopper, handshake, watching, announced>>
HelperCancelled ==
  /\ Running /\ provisioner.term # "" /\ provisioner' = [provisioner EXCEPT !.is = "failed"]
  /\ UNCHANGED <<starter, seen, ticket, gateOf, stopper, handshake, watching, announced>>

\* Mutated form: a lease that is free is taken for a normal release.
LostOwner_Wrong == FALSE

\* The watcher took the lease: the owner is gone, and did not say it had finished.
LostOwner == ~handshake.released

WatcherTick ==
  /\ watching /\ Running /\ ~handshake.alive /\ watching' = FALSE
  /\ provisioner' = IF LostOwner /\ provisioner.term = "" THEN [provisioner EXCEPT !.term = "watcher"] ELSE provisioner
  /\ UNCHANGED <<starter, seen, ticket, gateOf, stopper, handshake, announced>>

----------------------------------------------------------------------------
\* Mutated form: a stop announces itself when it has the gate.
AnnouncesFirst_Wrong == FALSE

\* The ticket is written before the gate is asked for.
AnnouncesFirst == TRUE

Announced(s) == [ticket EXCEPT ![s] = [token |-> @.token + 1, pending |-> TRUE]]
StopBegins(s) ==
  /\ stopper[s] = "idle" /\ ticket[s].token < MaxStops
  /\ stopper' = [stopper EXCEPT ![s] = "waiting"]
  /\ ticket' = IF AnnouncesFirst THEN Announced(s) ELSE ticket
  /\ announced' = IF AnnouncesFirst /\ seen[s] # -1 THEN announced \cup {s} ELSE announced
  /\ UNCHANGED <<starter, seen, gateOf, handshake, provisioner, watching>>
StopTakesGate(s) ==
  /\ stopper[s] = "waiting" /\ gateOf[s] = "free"
  /\ stopper' = [stopper EXCEPT ![s] = "stopping"] /\ gateOf' = [gateOf EXCEPT ![s] = "stop"]
  /\ ticket' = IF AnnouncesFirst THEN ticket ELSE Announced(s)
  /\ UNCHANGED <<starter, seen, handshake, provisioner, watching, announced>>
\* The deferred end: the gate first, then the ticket is settled.
StopReleasesGate(s) ==
  /\ stopper[s] = "stopping" /\ gateOf[s] = "stop"
  /\ gateOf' = [gateOf EXCEPT ![s] = "free"]
  /\ UNCHANGED <<starter, seen, ticket, stopper, handshake, provisioner, watching, announced>>
StopEnds(s) ==
  /\ stopper[s] = "stopping" /\ gateOf[s] # "stop"
  /\ stopper' = [stopper EXCEPT ![s] = "idle"] /\ ticket' = [ticket EXCEPT ![s].pending = FALSE]
  /\ UNCHANGED <<starter, seen, gateOf, handshake, provisioner, watching, announced>>

\* Another project's client in the shared resource, as long as it likes.
OtherEnters ==
  /\ gateOf["shared"] = "free" /\ gateOf' = [gateOf EXCEPT !["shared"] = "other"]
  /\ UNCHANGED <<starter, seen, ticket, stopper, handshake, provisioner, watching, announced>>
OtherLeaves ==
  /\ gateOf["shared"] = "other" /\ gateOf' = [gateOf EXCEPT !["shared"] = "free"]
  /\ UNCHANGED <<starter, seen, ticket, stopper, handshake, provisioner, watching, announced>>

Startup ==
  \/ ObserveOwn \/ ObserveShared \/ NoProfile \/ SpawnProvisioner \/ HelperReady \/ ObserveOwnAgain
  \/ ObserveSharedAgain \/ TakeOwn \/ TakeShared \/ StartOwn
Closing == CloseMark \/ CloseAlive \/ Joined
HelperEnds == HelperReleased \/ HelperCancelled \/ WatcherTick
GuardNext ==
  \/ Startup \/ SharedReady \/ OwnReady \/ CancelStartup \/ Interrupt \/ FinishRun
  \/ Closing \/ JoinTimeout \/ StarterKilled \/ HelperBuilt \/ HelperFails \/ HelperEnds
  \/ OtherEnters \/ OtherLeaves
  \/ \E s \in GuardScopes : StopBegins(s) \/ StopTakesGate(s) \/ StopReleasesGate(s) \/ StopEnds(s)

\* A client in a wait looks every 50 ms, and so does the watcher of its helper; the
\* kernel gives a stop the gate it waits for.  Readiness, a build and another client take as long
\* as they take, or for ever.
GuardFairness ==
  /\ WF_guardVars(CancelStartup) /\ WF_guardVars(Closing) /\ WF_guardVars(HelperEnds)
  /\ WF_guardVars(StopTakesGate("own"))
GuardSpec == GuardInit /\ [][GuardNext]_guardVars /\ GuardFairness

----------------------------------------------------------------------------
\* A stop announced after the client first looked at a scope cancels its startup,
\* also when it came and went between two looks, and whichever scope it was for.
StopCancelsStartup ==
  [][starter'.pc = "acquired" /\ starter.pc # "acquired" => announced = {}]_guardVars

\* The watcher cancels a helper only for a client that was killed: one that ends
\* in order lets the helper release its roots, and is not blamed for its end.
NormalEndIsNoLoss == provisioner.term = "watcher" => starter.pc = "killed"

\* A client that was killed leaves no provisioning behind that nobody will end.
LostProvisioningEnds ==
  starter.pc = "killed" /\ provisioner.is = "building" => watching \/ provisioner.term # ""

\* A stop of a scope gets its gate even when the client that holds it waits in a
\* shared resource, or for readiness, for ever.
StopGetsIn == stopper["own"] = "waiting" ~> stopper["own"] = "stopping"

\* A stop cancels the startups that began before it, an owner's end is told from
\* its loss, and no provisioning outlives a client that was killed.
StartupIsGuarded ==
  /\ [](NormalEndIsNoLoss /\ LostProvisioningEnds)
  /\ StopCancelsStartup
=============================================================================
