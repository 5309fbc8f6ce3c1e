----------------------------- MODULE LossProofs -----------------------------
(***************************************************************************)
(* What is left when a process dies, for any number of callbacks and       *)
(* stops.  Callbacks are over when a Git hook says so: BarrierInv says who *)
(* holds the barrier's lock, what a client may be about to do with what it *)
(* read, and what is left behind the mark.  A startup is guarded: GuardInv *)
(* relates the tickets a client saw to those there are, and its leases to  *)
(* its helper.  Last, both hold in the run that composes the two.          *)
(***************************************************************************)
EXTENDS MCLosses, TLAPS

----------------------------------------------------------------------------
(* The callbacks of a Git hook: the invariant.                             *)

\* The shared lock is held by whoever may still start or end a task.
HoldersAreKnown ==
  /\ \A c \in Callback : callers[c] \in {"locked", "checked", "waits"} => <<c, "client">> \in barrierOf
  /\ \A c \in Callback : guard[c] \in {"runs", "stops"} => <<c, "guard">> \in barrierOf

\* A task lives under its supervisor, which its client starts once.
TasksAreGuarded ==
  \A c \in Callback :
    /\ jobs[c] \in {"runs", "stubborn"} => guard[c] \in {"runs", "stops"}
    /\ callers[c] \in {"none", "opened", "locked", "checked"} =>
         guard[c] = "none" /\ jobs[c] = "none"

\* A client inspects the file under the lock, so before the mark or after it.
ReadUnderLock ==
  \A c \in Callback : callers[c] \in {"none", "opened", "locked"} => sawSize[c] = "unread"

\* While the hook writes the mark nobody holds the lock; behind the mark no
\* client is about to start a supervisor, and no supervisor is left.
MarkIsFinal ==
  /\ outer = "marks" => barrierOf = {}
  /\ barrier <=> outer \in {"succeeded", "failed"}
  /\ barrier => \A c \in Callback : callers[c] \notin {"checked", "waits"}
                                    /\ guard[c] \in {"none", "ended"}

\* A hook succeeds only when Lefthook has, which does not change afterwards.
LefthookIsReaped ==
  /\ outer \in {"drains", "marks", "succeeded"} => lefthook \in {"passed", "failed"}
  /\ outer = "succeeded" => lefthook = "passed"

BarrierInv ==
  BarrierTypeOK /\ HoldersAreKnown /\ TasksAreGuarded /\ ReadUnderLock /\ MarkIsFinal
  /\ LefthookIsReaped

----------------------------------------------------------------------------
\* Every step of client, supervisor, Lefthook and hook keeps the invariant.
LEMMA BarrierStep == BarrierInv /\ [BarrierNext]_barrierVars => BarrierInv'
<1> SUFFICES ASSUME BarrierInv, [BarrierNext]_barrierVars PROVE BarrierInv'
  OBVIOUS
<1> USE DEF BarrierInv, BarrierTypeOK, HoldersAreKnown, TasksAreGuarded, ReadUnderLock,
            MarkIsFinal, LefthookIsReaped
<1>1. ASSUME NEW c \in Callback, StartClient(c) PROVE BarrierInv'
  BY <1>1 DEF StartClient
<1>2. ASSUME NEW c \in Callback, InspectBarrier(c) PROVE BarrierInv'
  BY <1>2 DEF InspectBarrier, Inspects, Size
<1>3. ASSUME NEW c \in Callback, LockBarrier(c) PROVE BarrierInv'
  BY <1>3 DEF LockBarrier
<1>4. ASSUME NEW c \in Callback, StartSupervisor(c) PROVE BarrierInv'
  <2> USE <1>4 DEF StartSupervisor
  <2>1. ~barrier /\ outer # "marks" /\ guard[c] = "none"
    OBVIOUS
  <2>2. BarrierTypeOK'
    OBVIOUS
  <2>3. HoldersAreKnown'
    OBVIOUS
  <2>4. TasksAreGuarded' /\ ReadUnderLock'
    OBVIOUS
  <2>5. MarkIsFinal' /\ LefthookIsReaped'
    BY <2>1
  <2> QED BY <2>2, <2>3, <2>4, <2>5
<1>5. ASSUME NEW c \in Callback, ClientEnds(c) PROVE BarrierInv'
  BY <1>5 DEF ClientEnds
<1>6. ASSUME NEW c \in Callback, TaskEnds(c) PROVE BarrierInv'
  BY <1>6 DEF TaskEnds
<1>7. ASSUME NEW c \in Callback, SupervisorStops(c) PROVE BarrierInv'
  BY <1>7 DEF SupervisorStops
<1>8. ASSUME NEW c \in Callback, SupervisorKills(c) PROVE BarrierInv'
  BY <1>8 DEF SupervisorKills
<1>9. ASSUME NEW c \in Callback, SupervisorEnds(c) PROVE BarrierInv'
  BY <1>9 DEF SupervisorEnds
<1>10. CASE OuterSignalled
  BY <1>10 DEF OuterSignalled
<1>11. CASE LefthookEnds
  BY <1>11 DEF LefthookEnds
<1>12. CASE LefthookReaped
  BY <1>12 DEF LefthookReaped
<1>13. CASE DrainLocks
  BY <1>13 DEF DrainLocks
<1>14. CASE Mark
  BY <1>14 DEF Mark, Result
<1>15. CASE DrainExpires
  BY <1>15 DEF DrainExpires, Result
<1>16. CASE OuterKilled
  BY <1>16 DEF OuterKilled
<1>17. CASE UNCHANGED barrierVars
  BY <1>17 DEF barrierVars
<1> QED
  BY <1>1, <1>2, <1>3, <1>4, <1>5, <1>6, <1>7, <1>8, <1>9, <1>10, <1>11, <1>12, <1>13, <1>14,
     <1>15, <1>16, <1>17 DEF BarrierNext

\* At first no callback has been called.
LEMMA BarrierInitInv == BarrierInit => BarrierInv
<1> SUFFICES ASSUME BarrierInit PROVE BarrierInv
  OBVIOUS
<1> USE DEF BarrierInit
<1>1. BarrierTypeOK
  <2>1. barrierOf \subseteq (Callback \X {"client", "guard"}) /\ barrier \in BOOLEAN
    BY Zenon
  <2>2. /\ callers \in [Callback -> {"none", "opened", "locked", "checked", "waits", "ended"}]
        /\ guard \in [Callback -> {"none", "runs", "stops", "ended"}]
        /\ jobs \in [Callback -> {"none", "runs", "stubborn", "ended"}]
        /\ sawSize \in [Callback -> {"unread", "empty", "closed"}]
    OBVIOUS
  <2>3. /\ outer \in {"runs", "drains", "marks", "succeeded", "failed", "undrained", "killed"}
        /\ lefthook \in {"runs", "cancels", "passed", "failed"} /\ asked \in 0..1
    OBVIOUS
  <2> QED BY <2>1, <2>2, <2>3, Zenon DEF BarrierTypeOK
<1>2. HoldersAreKnown /\ TasksAreGuarded /\ ReadUnderLock
  BY DEF HoldersAreKnown, TasksAreGuarded, ReadUnderLock
<1>3. ~barrier /\ outer = "runs"
  OBVIOUS
<1>4. MarkIsFinal /\ LefthookIsReaped
  BY <1>3 DEF MarkIsFinal, LefthookIsReaped
<1> QED BY <1>1, <1>2, <1>4 DEF BarrierInv

\* The invariant holds of every behaviour, however many callbacks there are.
THEOREM BarrierInvariant == BarrierSpec => []BarrierInv
  BY BarrierInitInv, BarrierStep, PTL DEF BarrierSpec

----------------------------------------------------------------------------
(* The property.                                                           *)

\* A hook that has drained its callbacks leaves none of their tasks running and
\* lets none start, and it reports success only over ended supervisors and a
\* Lefthook that passed.
THEOREM CallbacksEnd == BarrierSpec => []CallbacksAreOver
<1>1. BarrierInv => CallbacksAreOver
  BY DEF BarrierInv, BarrierTypeOK, TasksAreGuarded, MarkIsFinal, LefthookIsReaped,
         CallbacksAreOver, DrainedIsQuiet, SuccessIsQuiet
<1> QED BY <1>1, BarrierInvariant, PTL

\* Behind the mark nothing of a callback moves any more: no supervisor comes up
\* and no task changes, so what the hook reported stays true.
THEOREM MarkedIsStill == BarrierSpec => [][barrier => UNCHANGED <<guard, jobs>>]_barrierVars
<1>1. BarrierInv /\ [BarrierNext]_barrierVars => [barrier => UNCHANGED <<guard, jobs>>]_barrierVars
  <2> SUFFICES ASSUME BarrierInv, BarrierNext, barrier PROVE UNCHANGED <<guard, jobs>>
    OBVIOUS
  <2>1. ASSUME NEW c \in Callback
        PROVE  /\ callers[c] # "checked" /\ guard[c] \notin {"runs", "stops"}
               /\ jobs[c] \notin {"runs", "stubborn"}
    BY <2>1 DEF BarrierInv, BarrierTypeOK, MarkIsFinal, TasksAreGuarded
  <2> QED
    BY <2>1 DEF BarrierNext, StartClient, InspectBarrier, LockBarrier, StartSupervisor,
       ClientEnds, TaskEnds, SupervisorStops, SupervisorKills, SupervisorEnds, OuterSignalled,
       LefthookEnds, LefthookReaped, DrainLocks, Mark, DrainExpires, OuterKilled
<1> QED BY <1>1, BarrierInvariant, PTL DEF BarrierSpec

----------------------------------------------------------------------------
(* A client that starts services: the invariant.                           *)

StarterTyped == starter \in [pc : Places, profile : BOOLEAN, ok : BOOLEAN]
TicketsTyped ==
  /\ seen \in [GuardScopes -> -1 .. MaxStops]
  /\ ticket \in [GuardScopes -> [token : 0 .. MaxStops, pending : BOOLEAN]]
  /\ announced \in SUBSET GuardScopes
GatesTyped ==
  /\ gateOf \in [GuardScopes -> {"free", "client", "stop", "other"}]
  /\ stopper \in [GuardScopes -> {"idle", "waiting", "stopping"}]
HelperTyped ==
  /\ handshake \in [alive : BOOLEAN, released : BOOLEAN, ready : BOOLEAN]
  /\ provisioner \in [is : {"none", "building", "holding", "ended", "failed"},
                      term : {"", "owner", "watcher"}]
  /\ watching \in BOOLEAN

\* A ticket is never behind what the client saw of it, and a stop announced since
\* has put it ahead for good.
TicketsGrow ==
  /\ \A s \in GuardScopes : seen[s] <= ticket[s].token
  /\ \A s \in announced : seen[s] # -1 /\ seen[s] < ticket[s].token

\* The helper begins with the lease held, and is released before it is given up.
LeaseIsHeld ==
  /\ starter.pc \in {"look", "spawn", "await"} => starter.profile
  /\ starter.pc \in {"begin", "look", "spawn"} \/ ~starter.profile => provisioner.is = "none"
  /\ provisioner.is # "none" /\ starter.pc \notin {"join", "ended", "killed"} => handshake.alive
  /\ handshake.released => starter.pc \in {"unlock", "join", "ended", "killed"}
  /\ starter.pc \in {"unlock", "join", "ended"} /\ provisioner.is # "none" => handshake.released

\* A build that nobody has cancelled is its client's, or its watcher is there.
BuildIsWatched ==
  /\ handshake.ready => provisioner.is \notin {"none", "building"}
  /\ provisioner.is = "building" /\ provisioner.term = "" =>
       ~handshake.released /\ watching /\ starter.pc \in {"await", "killed"}
  /\ provisioner.term = "watcher" => starter.pc = "killed"


\* What the client has seen after a look is what it saw before, or the ticket.
LEMMA ObservedFields ==
  ASSUME TicketsTyped, NEW s \in GuardScopes
  PROVE  /\ Observed(s) \in [GuardScopes -> -1 .. MaxStops]
         /\ \A r \in GuardScopes :
              \/ Observed(s)[r] = seen[r]
              \/ r = s /\ seen[s] = -1 /\ Observed(s)[r] = ticket[s].token
<1>1. ticket[s].token \in -1 .. MaxStops
  BY GuardAssumption DEF TicketsTyped
<1> QED BY <1>1 DEF TicketsTyped, Observed

\* A stop that announces itself makes its scope's ticket the next one.
LEMMA AnnouncedFields ==
  ASSUME TicketsTyped, NEW s \in GuardScopes, ticket[s].token < MaxStops
  PROVE  /\ Announced(s) \in [GuardScopes -> [token : 0 .. MaxStops, pending : BOOLEAN]]
         /\ Announced(s)[s].token = ticket[s].token + 1
         /\ \A r \in GuardScopes : r # s => Announced(s)[r] = ticket[r]
<1> DEFINE yes == TRUE
           new == [token |-> ticket[s].token + 1, pending |-> yes]
<1>1. yes \in BOOLEAN
  BY Zenon
<1>2. Announced(s) = [ticket EXCEPT ![s] = new]
  BY DEF Announced
<1>3. ticket[s].token + 1 \in 0 .. MaxStops
  BY GuardAssumption DEF TicketsTyped
<1> HIDE DEF yes
<1>4. new \in [token : 0 .. MaxStops, pending : BOOLEAN] /\ new.token = ticket[s].token + 1
  BY <1>1, <1>3
<1> HIDE DEF new
<1> QED BY <1>2, <1>4 DEF TicketsTyped

\* A stop that is done settles it.
LEMMA SettledFields ==
  ASSUME TicketsTyped, NEW s \in GuardScopes, NEW next,
         next = [ticket EXCEPT ![s].pending = FALSE]
  PROVE  /\ next \in [GuardScopes -> [token : 0 .. MaxStops, pending : BOOLEAN]]
         /\ \A r \in GuardScopes : next[r].token = ticket[r].token
<1> DEFINE no  == FALSE
           new == [ticket[s] EXCEPT !.pending = no]
<1>1. no \in BOOLEAN
  BY Zenon
<1>2. next = [ticket EXCEPT ![s] = new]
  OBVIOUS
<1>3. ticket[s] \in [token : 0 .. MaxStops, pending : BOOLEAN]
  BY DEF TicketsTyped
<1> HIDE DEF no
<1>4. new \in [token : 0 .. MaxStops, pending : BOOLEAN] /\ new.token = ticket[s].token
  BY <1>1, <1>3
<1> HIDE DEF new
<1> QED BY <1>2, <1>4 DEF TicketsTyped


\* Its place is one of the places.
LEMMA StarterTypeStep == StarterTyped /\ [GuardNext]_guardVars => StarterTyped'
<1> SUFFICES ASSUME StarterTyped, [GuardNext]_guardVars PROVE StarterTyped'
  OBVIOUS
<1> USE DEF StarterTyped, Places, Starts, Moves
<1>1. CASE UNCHANGED <<starter>>
  BY <1>1
<1>2. ASSUME JoinTimeout \/ HelperBuilt \/ HelperFails \/ HelperReleased \/ HelperCancelled
            \/ WatcherTick \/ OtherEnters \/ OtherLeaves
      PROVE  UNCHANGED <<starter>>
  BY <1>2
     DEF JoinTimeout, HelperBuilt, HelperFails, HelperReleased, HelperCancelled, WatcherTick,
         OtherEnters, OtherLeaves, LostOwner
<1>3. CASE ObserveOwn
  BY <1>3 DEF ObserveOwn, ObserveGuard
<1>4. CASE ObserveShared
  BY <1>4 DEF ObserveShared, ObserveGuard
<1>5. CASE NoProfile
  BY <1>5 DEF NoProfile
<1>6. CASE SpawnProvisioner
  BY <1>6 DEF SpawnProvisioner
<1>7. CASE HelperReady
  BY <1>7 DEF HelperReady
<1>8. CASE ObserveOwnAgain
  BY <1>8 DEF ObserveOwnAgain, ObserveGuard
<1>9. CASE ObserveSharedAgain
  BY <1>9 DEF ObserveSharedAgain, ObserveGuard
<1>10. CASE TakeOwn
  BY <1>10 DEF TakeOwn, TakeScopeGate
<1>11. CASE TakeShared
  BY <1>11 DEF TakeShared, TakeScopeGate
<1>12. CASE StartOwn
  BY <1>12 DEF StartOwn
<1>13. CASE SharedReady
  BY <1>13 DEF SharedReady
<1>14. CASE OwnReady
  BY <1>14 DEF OwnReady
<1>15. CASE CancelStartup
  BY <1>15 DEF CancelStartup
<1>16. CASE Interrupt
  BY <1>16 DEF Interrupt
<1>17. CASE FinishRun
  BY <1>17 DEF FinishRun
<1>18. CASE CloseMark
  BY <1>18 DEF CloseMark
<1>19. CASE CloseAlive
  BY <1>19 DEF CloseAlive
<1>20. CASE Joined
  BY <1>20 DEF Joined
<1>21. CASE StarterKilled
  BY <1>21 DEF StarterKilled
<1>22. ASSUME NEW s \in GuardScopes, StopBegins(s) \/ StopTakesGate(s) \/ StopReleasesGate(s)
            \/ StopEnds(s)
      PROVE  UNCHANGED <<starter>>
  BY <1>22 DEF StopBegins, StopTakesGate, StopReleasesGate, StopEnds, AnnouncesFirst
<1>23. CASE UNCHANGED guardVars
  BY <1>23, <1>1 DEF guardVars
<1> QED
  BY <1>1, <1>2, <1>3, <1>4, <1>5, <1>6, <1>7, <1>8, <1>9, <1>10, <1>11, <1>12, <1>13, <1>14,
     <1>15, <1>16, <1>17, <1>18, <1>19, <1>20, <1>21, <1>22, <1>23
     DEF GuardNext, Startup, Closing, HelperEnds

\* Tickets and looks at them are numbers.
LEMMA TicketsTypeStep == TicketsTyped /\ [GuardNext]_guardVars => TicketsTyped'
<1> SUFFICES ASSUME TicketsTyped, [GuardNext]_guardVars PROVE TicketsTyped'
  OBVIOUS
<1> USE DEF TicketsTyped
<1>1. CASE UNCHANGED <<seen, ticket, announced>>
  BY <1>1
<1>2. ASSUME NoProfile \/ SpawnProvisioner \/ HelperReady \/ TakeOwn \/ TakeShared \/ StartOwn
            \/ SharedReady \/ OwnReady \/ CancelStartup \/ Interrupt \/ FinishRun \/ CloseMark
            \/ CloseAlive \/ Joined \/ JoinTimeout \/ StarterKilled \/ HelperBuilt \/ HelperFails
            \/ HelperReleased \/ HelperCancelled \/ WatcherTick \/ OtherEnters \/ OtherLeaves
      PROVE  UNCHANGED <<seen, ticket, announced>>
  BY <1>2
     DEF NoProfile, SpawnProvisioner, HelperReady, TakeOwn, TakeShared, StartOwn, SharedReady,
         OwnReady, CancelStartup, Interrupt, FinishRun, CloseMark, CloseAlive, Joined, JoinTimeout,
         StarterKilled, HelperBuilt, HelperFails, HelperReleased, HelperCancelled, WatcherTick,
         OtherEnters, OtherLeaves, TakeScopeGate, CloseStep, LostOwner
<1>3. CASE ObserveOwn
  <2>1. seen' = Observed("own") /\ UNCHANGED <<ticket, announced>>
    BY <1>3 DEF ObserveOwn, ObserveGuard
  <2>2. "own" \in GuardScopes
    BY DEF GuardScopes
  <2> QED BY <2>1, <2>2, ObservedFields
<1>4. CASE ObserveShared
  <2>1. seen' = Observed("shared") /\ UNCHANGED <<ticket, announced>>
    BY <1>4 DEF ObserveShared, ObserveGuard
  <2>2. "shared" \in GuardScopes
    BY DEF GuardScopes
  <2> QED BY <2>1, <2>2, ObservedFields
<1>5. CASE ObserveOwnAgain
  <2>1. seen' = Observed("own") /\ UNCHANGED <<ticket, announced>>
    BY <1>5 DEF ObserveOwnAgain, ObserveGuard
  <2>2. "own" \in GuardScopes
    BY DEF GuardScopes
  <2> QED BY <2>1, <2>2, ObservedFields
<1>6. CASE ObserveSharedAgain
  <2>1. seen' = Observed("shared") /\ UNCHANGED <<ticket, announced>>
    BY <1>6 DEF ObserveSharedAgain, ObserveGuard
  <2>2. "shared" \in GuardScopes
    BY DEF GuardScopes
  <2> QED BY <2>1, <2>2, ObservedFields
<1>7. ASSUME NEW s \in GuardScopes, StopReleasesGate(s)
      PROVE  UNCHANGED <<seen, ticket, announced>>
  BY <1>7 DEF StopReleasesGate
<1>8. ASSUME NEW s \in GuardScopes, StopBegins(s) PROVE TicketsTyped'
  <2>1. /\ ticket[s].token < MaxStops /\ ticket' = Announced(s) /\ seen' = seen
        /\ announced' = IF seen[s] # -1 THEN announced \cup {s} ELSE announced
    BY <1>8 DEF StopBegins, AnnouncesFirst
  <2> QED BY <2>1, AnnouncedFields
<1>9. ASSUME NEW s \in GuardScopes, StopTakesGate(s) PROVE TicketsTyped'
  BY <1>9 DEF StopTakesGate, AnnouncesFirst
<1>10. ASSUME NEW s \in GuardScopes, StopEnds(s) PROVE TicketsTyped'
  <2>1. ticket' = [ticket EXCEPT ![s].pending = FALSE] /\ UNCHANGED <<seen, announced>>
    BY <1>10 DEF StopEnds
  <2> QED BY <2>1, SettledFields
<1>11. CASE UNCHANGED guardVars
  BY <1>11, <1>1 DEF guardVars
<1> QED
  BY <1>1, <1>2, <1>3, <1>4, <1>5, <1>6, <1>7, <1>8, <1>9, <1>10, <1>11
     DEF GuardNext, Startup, Closing, HelperEnds

\* Tickets only grow.
LEMMA TicketsStep == TicketsTyped /\ TicketsGrow /\ [GuardNext]_guardVars => TicketsGrow'
<1> SUFFICES ASSUME TicketsTyped, TicketsGrow, [GuardNext]_guardVars PROVE TicketsGrow'
  OBVIOUS
<1> USE DEF TicketsTyped, TicketsGrow
<1>1. CASE UNCHANGED <<seen, ticket, announced>>
  BY <1>1
<1>2. ASSUME NoProfile \/ SpawnProvisioner \/ HelperReady \/ TakeOwn \/ TakeShared \/ StartOwn
            \/ SharedReady \/ OwnReady \/ CancelStartup \/ Interrupt \/ FinishRun \/ CloseMark
            \/ CloseAlive \/ Joined \/ JoinTimeout \/ StarterKilled \/ HelperBuilt \/ HelperFails
            \/ HelperReleased \/ HelperCancelled \/ WatcherTick \/ OtherEnters \/ OtherLeaves
      PROVE  UNCHANGED <<seen, ticket, announced>>
  BY <1>2
     DEF NoProfile, SpawnProvisioner, HelperReady, TakeOwn, TakeShared, StartOwn, SharedReady,
         OwnReady, CancelStartup, Interrupt, FinishRun, CloseMark, CloseAlive, Joined, JoinTimeout,
         StarterKilled, HelperBuilt, HelperFails, HelperReleased, HelperCancelled, WatcherTick,
         OtherEnters, OtherLeaves, TakeScopeGate, CloseStep, LostOwner
<1>3. CASE ObserveOwn
  <2>1. seen' = Observed("own") /\ UNCHANGED <<ticket, announced>>
    BY <1>3 DEF ObserveOwn, ObserveGuard
  <2>2. "own" \in GuardScopes
    BY DEF GuardScopes
  <2>3. \A r \in GuardScopes :
          \/ seen'[r] = seen[r]
          \/ seen[r] = -1 /\ seen'[r] = ticket[r].token
    BY <2>1, <2>2, ObservedFields
  <2>4. \A r \in GuardScopes : ticket[r].token <= ticket[r].token
    BY GuardAssumption
  <2> QED BY <2>1, <2>3, <2>4
<1>4. CASE ObserveShared
  <2>1. seen' = Observed("shared") /\ UNCHANGED <<ticket, announced>>
    BY <1>4 DEF ObserveShared, ObserveGuard
  <2>2. "shared" \in GuardScopes
    BY DEF GuardScopes
  <2>3. \A r \in GuardScopes :
          \/ seen'[r] = seen[r]
          \/ seen[r] = -1 /\ seen'[r] = ticket[r].token
    BY <2>1, <2>2, ObservedFields
  <2>4. \A r \in GuardScopes : ticket[r].token <= ticket[r].token
    BY GuardAssumption
  <2> QED BY <2>1, <2>3, <2>4
<1>5. CASE ObserveOwnAgain
  <2>1. seen' = Observed("own") /\ UNCHANGED <<ticket, announced>>
    BY <1>5 DEF ObserveOwnAgain, ObserveGuard
  <2>2. "own" \in GuardScopes
    BY DEF GuardScopes
  <2>3. \A r \in GuardScopes :
          \/ seen'[r] = seen[r]
          \/ seen[r] = -1 /\ seen'[r] = ticket[r].token
    BY <2>1, <2>2, ObservedFields
  <2>4. \A r \in GuardScopes : ticket[r].token <= ticket[r].token
    BY GuardAssumption
  <2> QED BY <2>1, <2>3, <2>4
<1>6. CASE ObserveSharedAgain
  <2>1. seen' = Observed("shared") /\ UNCHANGED <<ticket, announced>>
    BY <1>6 DEF ObserveSharedAgain, ObserveGuard
  <2>2. "shared" \in GuardScopes
    BY DEF GuardScopes
  <2>3. \A r \in GuardScopes :
          \/ seen'[r] = seen[r]
          \/ seen[r] = -1 /\ seen'[r] = ticket[r].token
    BY <2>1, <2>2, ObservedFields
  <2>4. \A r \in GuardScopes : ticket[r].token <= ticket[r].token
    BY GuardAssumption
  <2> QED BY <2>1, <2>3, <2>4
<1>7. ASSUME NEW s \in GuardScopes, StopReleasesGate(s)
      PROVE  UNCHANGED <<seen, ticket, announced>>
  BY <1>7 DEF StopReleasesGate
<1>8. ASSUME NEW s \in GuardScopes, StopBegins(s) PROVE TicketsGrow'
  <2>1. /\ ticket[s].token < MaxStops /\ ticket' = Announced(s) /\ seen' = seen
        /\ announced' = IF seen[s] # -1 THEN announced \cup {s} ELSE announced
    BY <1>8 DEF StopBegins, AnnouncesFirst
  <2>2. /\ ticket'[s].token = ticket[s].token + 1
        /\ \A r \in GuardScopes : r # s => ticket'[r] = ticket[r]
    BY <2>1, AnnouncedFields
  <2>3. \A r \in GuardScopes : /\ seen[r] \in -1 .. MaxStops /\ ticket[r].token \in 0 .. MaxStops
                              /\ seen[r] <= ticket[r].token
    OBVIOUS
  <2> QED BY <2>1, <2>2, <2>3, GuardAssumption
<1>9. ASSUME NEW s \in GuardScopes, StopTakesGate(s) PROVE TicketsGrow'
  BY <1>9 DEF StopTakesGate, AnnouncesFirst
<1>10. ASSUME NEW s \in GuardScopes, StopEnds(s) PROVE TicketsGrow'
  <2>1. ticket' = [ticket EXCEPT ![s].pending = FALSE] /\ UNCHANGED <<seen, announced>>
    BY <1>10 DEF StopEnds
  <2> QED BY <2>1, SettledFields
<1>11. CASE UNCHANGED guardVars
  BY <1>11, <1>1 DEF guardVars
<1> QED
  BY <1>1, <1>2, <1>3, <1>4, <1>5, <1>6, <1>7, <1>8, <1>9, <1>10, <1>11
     DEF GuardNext, Startup, Closing, HelperEnds

\* A gate is free or has one holder.
LEMMA GatesTypeStep == GatesTyped /\ [GuardNext]_guardVars => GatesTyped'
<1> SUFFICES ASSUME GatesTyped, [GuardNext]_guardVars PROVE GatesTyped'
  OBVIOUS
<1> USE DEF GatesTyped, Frees
<1>1. CASE UNCHANGED <<gateOf, stopper>>
  BY <1>1
<1>2. ASSUME ObserveOwn \/ ObserveShared \/ NoProfile \/ SpawnProvisioner \/ HelperReady
            \/ ObserveOwnAgain \/ ObserveSharedAgain \/ StartOwn \/ FinishRun \/ CloseMark
            \/ CloseAlive \/ Joined \/ JoinTimeout \/ HelperBuilt \/ HelperFails \/ HelperReleased
            \/ HelperCancelled \/ WatcherTick
      PROVE  UNCHANGED <<gateOf, stopper>>
  BY <1>2
     DEF ObserveOwn, ObserveShared, NoProfile, SpawnProvisioner, HelperReady, ObserveOwnAgain,
         ObserveSharedAgain, StartOwn, FinishRun, CloseMark, CloseAlive, Joined, JoinTimeout,
         HelperBuilt, HelperFails, HelperReleased, HelperCancelled, WatcherTick, ObserveGuard,
         CloseStep, LostOwner
<1>3. CASE TakeOwn
  BY <1>3 DEF TakeOwn, TakeScopeGate
<1>4. CASE TakeShared
  BY <1>4 DEF TakeShared, TakeScopeGate
<1>5. CASE SharedReady
  BY <1>5 DEF SharedReady
<1>6. CASE OwnReady
  BY <1>6 DEF OwnReady
<1>7. CASE CancelStartup
  BY <1>7 DEF CancelStartup
<1>8. CASE Interrupt
  BY <1>8 DEF Interrupt
<1>9. CASE StarterKilled
  BY <1>9 DEF StarterKilled
<1>10. CASE OtherEnters
  BY <1>10 DEF OtherEnters
<1>11. CASE OtherLeaves
  BY <1>11 DEF OtherLeaves
<1>12. ASSUME NEW s \in GuardScopes, StopBegins(s) PROVE GatesTyped'
  BY <1>12 DEF StopBegins
<1>13. ASSUME NEW s \in GuardScopes, StopTakesGate(s) PROVE GatesTyped'
  BY <1>13 DEF StopTakesGate
<1>14. ASSUME NEW s \in GuardScopes, StopReleasesGate(s) PROVE GatesTyped'
  BY <1>14 DEF StopReleasesGate
<1>15. ASSUME NEW s \in GuardScopes, StopEnds(s) PROVE GatesTyped'
  BY <1>15 DEF StopEnds
<1>16. CASE UNCHANGED guardVars
  BY <1>16, <1>1 DEF guardVars
<1> QED
  BY <1>1, <1>2, <1>3, <1>4, <1>5, <1>6, <1>7, <1>8, <1>9, <1>10, <1>11, <1>12, <1>13, <1>14,
     <1>15, <1>16
     DEF GuardNext, Startup, Closing, HelperEnds

\* The helper and its leases keep their types.
LEMMA HelperTypeStep == HelperTyped /\ [GuardNext]_guardVars => HelperTyped'
<1> SUFFICES ASSUME HelperTyped, [GuardNext]_guardVars PROVE HelperTyped'
  OBVIOUS
<1> USE DEF HelperTyped, Running
<1>1. CASE UNCHANGED <<handshake, provisioner, watching>>
  BY <1>1
<1>2. ASSUME ObserveOwn \/ ObserveShared \/ NoProfile \/ HelperReady \/ ObserveOwnAgain
            \/ ObserveSharedAgain \/ TakeOwn \/ TakeShared \/ StartOwn \/ SharedReady \/ OwnReady
            \/ FinishRun \/ Joined \/ OtherEnters \/ OtherLeaves
      PROVE  UNCHANGED <<handshake, provisioner, watching>>
  BY <1>2
     DEF ObserveOwn, ObserveShared, NoProfile, HelperReady, ObserveOwnAgain, ObserveSharedAgain,
         TakeOwn, TakeShared, StartOwn, SharedReady, OwnReady, FinishRun, Joined, OtherEnters,
         OtherLeaves, ObserveGuard, TakeScopeGate
<1>3. CASE SpawnProvisioner
  BY <1>3 DEF SpawnProvisioner
<1>4. CASE CancelStartup
  BY <1>4 DEF CancelStartup
<1>5. CASE Interrupt
  BY <1>5 DEF Interrupt
<1>6. CASE CloseMark
  BY <1>6 DEF CloseMark, CloseStep
<1>7. CASE CloseAlive
  BY <1>7 DEF CloseAlive, CloseStep
<1>8. CASE JoinTimeout
  BY <1>8 DEF JoinTimeout
<1>9. CASE StarterKilled
  BY <1>9 DEF StarterKilled
<1>10. CASE HelperBuilt
  BY <1>10 DEF HelperBuilt
<1>11. CASE HelperFails
  BY <1>11 DEF HelperFails
<1>12. CASE HelperReleased
  BY <1>12 DEF HelperReleased
<1>13. CASE HelperCancelled
  BY <1>13 DEF HelperCancelled
<1>14. CASE WatcherTick
  BY <1>14 DEF WatcherTick, LostOwner
<1>15. ASSUME NEW s \in GuardScopes, StopBegins(s) \/ StopTakesGate(s) \/ StopReleasesGate(s)
            \/ StopEnds(s)
      PROVE  UNCHANGED <<handshake, provisioner, watching>>
  BY <1>15 DEF StopBegins, StopTakesGate, StopReleasesGate, StopEnds, AnnouncesFirst
<1>16. CASE UNCHANGED guardVars
  BY <1>16, <1>1 DEF guardVars
<1> QED
  BY <1>1, <1>2, <1>3, <1>4, <1>5, <1>6, <1>7, <1>8, <1>9, <1>10, <1>11, <1>12, <1>13, <1>14,
     <1>15, <1>16
     DEF GuardNext, Startup, Closing, HelperEnds

\* The lease is held as long as the client may need its helper.
LEMMA LeaseStep == StarterTyped /\ HelperTyped /\ LeaseIsHeld /\
  [GuardNext]_guardVars => LeaseIsHeld'
<1> SUFFICES ASSUME StarterTyped, HelperTyped, LeaseIsHeld, [GuardNext]_guardVars
             PROVE  LeaseIsHeld'
  OBVIOUS
<1> USE DEF StarterTyped, HelperTyped, LeaseIsHeld, Starts, Moves, Running, Cancellable
<1>1. CASE UNCHANGED <<starter, handshake, provisioner>>
  BY <1>1
<1>2. ASSUME OtherEnters \/ OtherLeaves
      PROVE  UNCHANGED <<starter, handshake, provisioner>>
  BY <1>2 DEF OtherEnters, OtherLeaves
<1>3. CASE ObserveOwn
  BY <1>3 DEF ObserveOwn, ObserveGuard
<1>4. CASE ObserveShared
  BY <1>4 DEF ObserveShared, ObserveGuard
<1>5. CASE NoProfile
  BY <1>5 DEF NoProfile
<1>6. CASE SpawnProvisioner
  BY <1>6 DEF SpawnProvisioner
<1>7. CASE HelperReady
  BY <1>7 DEF HelperReady
<1>8. CASE ObserveOwnAgain
  BY <1>8 DEF ObserveOwnAgain, ObserveGuard
<1>9. CASE ObserveSharedAgain
  BY <1>9 DEF ObserveSharedAgain, ObserveGuard
<1>10. CASE TakeOwn
  BY <1>10 DEF TakeOwn, TakeScopeGate
<1>11. CASE TakeShared
  BY <1>11 DEF TakeShared, TakeScopeGate
<1>12. CASE StartOwn
  BY <1>12 DEF StartOwn
<1>13. CASE SharedReady
  BY <1>13 DEF SharedReady
<1>14. CASE OwnReady
  BY <1>14 DEF OwnReady
<1>15. CASE CancelStartup
  BY <1>15 DEF CancelStartup
<1>16. CASE Interrupt
  BY <1>16 DEF Interrupt
<1>17. CASE FinishRun
  BY <1>17 DEF FinishRun
<1>18. CASE CloseMark
  BY <1>18 DEF CloseMark, CloseStep
<1>19. CASE CloseAlive
  BY <1>19 DEF CloseAlive, CloseStep
<1>20. CASE Joined
  BY <1>20 DEF Joined
<1>21. CASE JoinTimeout
  BY <1>21 DEF JoinTimeout
<1>22. CASE StarterKilled
  BY <1>22 DEF StarterKilled
<1>23. CASE HelperBuilt
  BY <1>23 DEF HelperBuilt
<1>24. CASE HelperFails
  BY <1>24 DEF HelperFails
<1>25. CASE HelperReleased
  BY <1>25 DEF HelperReleased
<1>26. CASE HelperCancelled
  BY <1>26 DEF HelperCancelled
<1>27. CASE WatcherTick
  BY <1>27 DEF WatcherTick, LostOwner
<1>28. ASSUME NEW s \in GuardScopes, StopBegins(s) \/ StopTakesGate(s) \/ StopReleasesGate(s)
            \/ StopEnds(s)
      PROVE  UNCHANGED <<starter, handshake, provisioner>>
  BY <1>28 DEF StopBegins, StopTakesGate, StopReleasesGate, StopEnds, AnnouncesFirst
<1>29. CASE UNCHANGED guardVars
  BY <1>29, <1>1 DEF guardVars
<1> QED
  BY <1>1, <1>2, <1>3, <1>4, <1>5, <1>6, <1>7, <1>8, <1>9, <1>10, <1>11, <1>12, <1>13, <1>14,
     <1>15, <1>16, <1>17, <1>18, <1>19, <1>20, <1>21, <1>22, <1>23, <1>24, <1>25, <1>26, <1>27,
     <1>28, <1>29
     DEF GuardNext, Startup, Closing, HelperEnds

\* Nobody leaves a build alone.
LEMMA BuildStep == StarterTyped /\ HelperTyped /\ LeaseIsHeld /\ BuildIsWatched /\
  [GuardNext]_guardVars => BuildIsWatched'
<1> SUFFICES ASSUME StarterTyped, HelperTyped, LeaseIsHeld, BuildIsWatched, [GuardNext]_guardVars
             PROVE  BuildIsWatched'
  OBVIOUS
<1> USE DEF StarterTyped, HelperTyped, LeaseIsHeld, BuildIsWatched, Starts, Moves, Running,
            Cancellable
<1>1. CASE UNCHANGED <<starter, handshake, provisioner, watching>>
  BY <1>1
<1>2. ASSUME OtherEnters \/ OtherLeaves
      PROVE  UNCHANGED <<starter, handshake, provisioner, watching>>
  BY <1>2 DEF OtherEnters, OtherLeaves
<1>3. CASE ObserveOwn
  BY <1>3 DEF ObserveOwn, ObserveGuard
<1>4. CASE ObserveShared
  BY <1>4 DEF ObserveShared, ObserveGuard
<1>5. CASE NoProfile
  BY <1>5 DEF NoProfile
<1>6. CASE SpawnProvisioner
  <2>1. provisioner.is = "none" /\ ~handshake.released /\ ~handshake.ready
    BY <1>6 DEF SpawnProvisioner
  <2>2. /\ ~handshake'.released /\ ~handshake'.ready /\ watching' /\ starter'.pc = "await"
        /\ provisioner'.term = provisioner.term
    BY <1>6, <2>1 DEF SpawnProvisioner
  <2>3. provisioner.term # "watcher"
    BY <1>6 DEF SpawnProvisioner
  <2> QED BY <2>2, <2>3
<1>7. CASE HelperReady
  BY <1>7 DEF HelperReady
<1>8. CASE ObserveOwnAgain
  BY <1>8 DEF ObserveOwnAgain, ObserveGuard
<1>9. CASE ObserveSharedAgain
  BY <1>9 DEF ObserveSharedAgain, ObserveGuard
<1>10. CASE TakeOwn
  BY <1>10 DEF TakeOwn, TakeScopeGate
<1>11. CASE TakeShared
  BY <1>11 DEF TakeShared, TakeScopeGate
<1>12. CASE StartOwn
  BY <1>12 DEF StartOwn
<1>13. CASE SharedReady
  BY <1>13 DEF SharedReady
<1>14. CASE OwnReady
  BY <1>14 DEF OwnReady
<1>15. CASE CancelStartup
  BY <1>15 DEF CancelStartup
<1>16. CASE Interrupt
  BY <1>16 DEF Interrupt
<1>17. CASE FinishRun
  BY <1>17 DEF FinishRun
<1>18. CASE CloseMark
  BY <1>18 DEF CloseMark, CloseStep
<1>19. CASE CloseAlive
  BY <1>19 DEF CloseAlive, CloseStep
<1>20. CASE Joined
  BY <1>20 DEF Joined
<1>21. CASE JoinTimeout
  BY <1>21 DEF JoinTimeout
<1>22. CASE StarterKilled
  BY <1>22 DEF StarterKilled
<1>23. CASE HelperBuilt
  BY <1>23 DEF HelperBuilt
<1>24. CASE HelperFails
  BY <1>24 DEF HelperFails
<1>25. CASE HelperReleased
  BY <1>25 DEF HelperReleased
<1>26. CASE HelperCancelled
  BY <1>26 DEF HelperCancelled
<1>27. CASE WatcherTick
  BY <1>27 DEF WatcherTick, LostOwner
<1>28. ASSUME NEW s \in GuardScopes, StopBegins(s) \/ StopTakesGate(s) \/ StopReleasesGate(s)
            \/ StopEnds(s)
      PROVE  UNCHANGED <<starter, handshake, provisioner, watching>>
  BY <1>28 DEF StopBegins, StopTakesGate, StopReleasesGate, StopEnds, AnnouncesFirst
<1>29. CASE UNCHANGED guardVars
  BY <1>29, <1>1 DEF guardVars
<1> QED
  BY <1>1, <1>2, <1>3, <1>4, <1>5, <1>6, <1>7, <1>8, <1>9, <1>10, <1>11, <1>12, <1>13, <1>14,
     <1>15, <1>16, <1>17, <1>18, <1>19, <1>20, <1>21, <1>22, <1>23, <1>24, <1>25, <1>26, <1>27,
     <1>28, <1>29
     DEF GuardNext, Startup, Closing, HelperEnds

GuardInv ==
  StarterTyped /\ TicketsTyped /\ GatesTyped /\ HelperTyped /\ TicketsGrow /\ LeaseIsHeld
  /\ BuildIsWatched

\* At first the client has seen nothing and has no helper.
LEMMA GuardInitInv == GuardInit => GuardInv
<1> SUFFICES ASSUME GuardInit PROVE GuardInv
  OBVIOUS
<1> DEFINE no == FALSE
<1>1. no \in BOOLEAN /\ ~no
  BY Zenon
<1>2. handshake = [alive |-> no, released |-> no, ready |-> no] /\ watching = no
  BY DEF GuardInit
<1>3. ticket = [s \in GuardScopes |-> [token |-> 0, pending |-> no]]
  BY DEF GuardInit
<1>4. starter \in [pc : {"begin"}, profile : BOOLEAN, ok : {no}]
  BY DEF GuardInit
<1>5. /\ seen = [s \in GuardScopes |-> -1] /\ announced = {}
      /\ gateOf = [s \in GuardScopes |-> "free"] /\ stopper = [s \in GuardScopes |-> "idle"]
      /\ provisioner = [is |-> "none", term |-> ""]
  BY DEF GuardInit
<1> HIDE DEF no
<1>6. StarterTyped /\ starter.pc = "begin"
  BY <1>1, <1>4 DEF StarterTyped, Places
<1>7. TicketsTyped
  <2>1. 0 \in 0 .. MaxStops /\ -1 \in -1 .. MaxStops
    BY GuardAssumption
  <2>2. [token |-> 0, pending |-> no] \in [token : 0 .. MaxStops, pending : BOOLEAN]
    BY <1>1, <2>1
  <2> QED BY <1>3, <1>5, <2>1, <2>2 DEF TicketsTyped
<1>8. GatesTyped
  BY <1>5 DEF GatesTyped
<1>9. HelperTyped
  BY <1>1, <1>2, <1>5 DEF HelperTyped
<1>10. TicketsGrow
  <2>0. seen = [s \in GuardScopes |-> -1]
    BY <1>5
  <2>1. -1 <= 0 /\ \A s \in GuardScopes : seen[s] = -1
    <3>1. -1 <= 0
      OBVIOUS
    <3>2. \A s \in GuardScopes : seen[s] = -1
      BY <2>0
    <3> QED BY <3>1, <3>2
  <2>2. \A s \in GuardScopes : ticket[s].token = 0
    BY <1>3
  <2>3. announced = {}
    BY <1>5
  <2> QED BY <2>1, <2>2, <2>3 DEF TicketsGrow
<1>11. LeaseIsHeld /\ BuildIsWatched
  BY <1>1, <1>2, <1>5, <1>6 DEF LeaseIsHeld, BuildIsWatched
<1> QED BY <1>6, <1>7, <1>8, <1>9, <1>10, <1>11 DEF GuardInv

\* Every step of client, helper and stop keeps the invariant.
LEMMA GuardStep == GuardInv /\ [GuardNext]_guardVars => GuardInv'
  BY StarterTypeStep, TicketsTypeStep, TicketsStep, GatesTypeStep, HelperTypeStep, LeaseStep,
     BuildStep DEF GuardInv

\* The invariant holds of every startup.
THEOREM GuardInvariant == GuardSpec => []GuardInv
  BY GuardInitInv, GuardStep, PTL DEF GuardSpec

\* A stop that is announced between a client's first look and its end cancels the
\* startup, however the two interleave; the watcher cancels a helper only for a
\* client that was killed, and leaves no build without an end.
THEOREM GuardedStartup == GuardSpec => StartupIsGuarded
<1>1. GuardInv => NormalEndIsNoLoss /\ LostProvisioningEnds
  BY DEF GuardInv, LeaseIsHeld, BuildIsWatched, NormalEndIsNoLoss, LostProvisioningEnds
<1> DEFINE Cancels == starter'.pc = "acquired" /\ starter.pc # "acquired" => announced = {}
<1>2. GuardInv /\ [GuardNext]_guardVars => [Cancels]_guardVars
  <2> SUFFICES ASSUME GuardInv, GuardNext, starter'.pc = "acquired", starter.pc # "acquired"
               PROVE  announced = {}
    OBVIOUS
  <2>0. /\ StarterTyped
        /\ \A p \in Places : Moves(p) => starter'.pc = p
    BY DEF GuardInv, StarterTyped, Moves
  <2>1. OwnReady
    <3>1. ASSUME Startup \/ FinishRun \/ Closing \/ CancelStartup \/ Interrupt \/ StarterKilled
                 \/ SharedReady
          PROVE  FALSE
      BY <2>0, <3>1
         DEF Places, Startup, FinishRun, Closing, CancelStartup, Interrupt, StarterKilled,
             SharedReady, ObserveOwn, ObserveShared, NoProfile, SpawnProvisioner, HelperReady,
             ObserveOwnAgain, ObserveSharedAgain, TakeOwn, TakeShared, StartOwn, ObserveGuard,
             TakeScopeGate, CloseMark, CloseAlive, Joined
    <3>2. ASSUME JoinTimeout \/ HelperBuilt \/ HelperFails \/ HelperEnds \/ OtherEnters
                 \/ OtherLeaves
          PROVE  FALSE
      BY <3>2 DEF JoinTimeout, HelperBuilt, HelperFails, HelperEnds, HelperReleased,
                  HelperCancelled, WatcherTick, OtherEnters, OtherLeaves
    <3>3. ASSUME NEW s \in GuardScopes,
                 StopBegins(s) \/ StopTakesGate(s) \/ StopReleasesGate(s) \/ StopEnds(s)
          PROVE  FALSE
      BY <3>3 DEF StopBegins, StopTakesGate, StopReleasesGate, StopEnds
    <3> QED BY <3>1, <3>2, <3>3 DEF GuardNext
  <2>2. NoStop(seen)
    BY <2>1 DEF OwnReady, Check
  <2>3. \A s \in announced : s \in GuardScopes /\ seen[s] # -1 /\ seen[s] < ticket[s].token
    BY DEF GuardInv, TicketsTyped, TicketsGrow
  <2>4. \A s \in announced : seen[s] = ticket[s].token
    BY <2>2, <2>3 DEF NoStop
  <2>5. \A s \in GuardScopes : ticket[s].token \in 0 .. MaxStops
    BY DEF GuardInv, TicketsTyped
  <2> QED BY <2>3, <2>4, <2>5, GuardAssumption
<1> HIDE DEF Cancels
<1>3. GuardSpec => [][Cancels]_guardVars
  BY <1>2, GuardInvariant, PTL DEF GuardSpec
<1> USE DEF Cancels
<1>4. GuardSpec => StopCancelsStartup
  BY <1>3 DEF StopCancelsStartup
<1> QED BY <1>1, <1>4, GuardInvariant, PTL DEF StartupIsGuarded

----------------------------------------------------------------------------
(* The run that composes them.                                             *)

\* A behaviour of the composition is one of each of its components.
LEMMA LossBehaves ==
  LossSpec => /\ BarrierInit /\ [][BarrierNext]_barrierVars
              /\ GuardInit /\ [][GuardNext]_guardVars
<1>1. LossInit => BarrierInit /\ GuardInit
  BY DEF LossInit
<1>2. [LossNext]_lossVars => [BarrierNext]_barrierVars /\ [GuardNext]_guardVars
  <2>1. CASE OnlyLaunch \/ UNCHANGED lossVars
    BY <2>1 DEF OnlyLaunch, lossVars
  <2>2. CASE OnlyGuard /\ GuardNext
    BY <2>2 DEF OnlyGuard
  <2>3. CASE OnlyBarrier /\ BarrierNext
    BY <2>3 DEF OnlyBarrier
  <2> QED BY <2>1, <2>2, <2>3 DEF LossNext
<1> QED BY <1>1, <1>2, PTL DEF LossSpec

\* Both components keep their types, whatever dies.
THEOREM LossTypeCorrect == LossSpec => []LossTypeOK
<1>1. BarrierInv /\ GuardInv => LossTypeOK
  <2> SUFFICES ASSUME BarrierInv, GuardInv PROVE BarrierTypeOK /\ GuardTypeOK
    BY DEF LossTypeOK
  <2>1. BarrierTypeOK
    BY DEF BarrierInv
  <2>2. GuardTypeOK
    BY DEF GuardInv, StarterTyped, TicketsTyped, GatesTyped, HelperTyped, LeaseIsHeld, GuardTypeOK
  <2> QED BY <2>1, <2>2
<1> QED BY <1>1, LossBehaves, BarrierInitInv, BarrierStep, GuardInitInv, GuardStep, PTL
=============================================================================
