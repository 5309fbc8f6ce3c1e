------------------------- MODULE ServiceScopeProofs -------------------------
(***************************************************************************)
(* What holds of ServiceScope for any number of clients, services, inputs  *)
(* and stops.                                                              *)
(*                                                                         *)
(* The invariant comes in layers, each inductive over the ones below it:   *)
(* who holds the gate and where the holder is, what a release has found    *)
(* out, which tickets were given out - these hold in every environment -   *)
(* then how far a task can be (unless an anchor outlives its intermediary, *)
(* ~LateAnchor), which claims they keep and what stands behind a claim.    *)
(* What `stop` leaves needs ~FirstLoss besides; what an undisturbed gate   *)
(* keeps needs ~HolderLoss only.                                           *)
(***************************************************************************)
EXTENDS ServiceScope, TLAPS

Releasing == step \in ReleaseSteps
\* The holder is in acquire, or in a release that acquire goes on from.
Acquiring == gate \in Client /\ (step \in AcquireSteps \/ (Releasing /\ after = "claim"))

----------------------------------------------------------------------------
(* The layers of the invariant.                                            *)

\* The holder of the gate is inside, and which of acquire, exit and `stop` it runs.
GateInv ==
  /\ gate = NoOne <=> step = "none"
  /\ \A c \in Client : pc[c] = "inside" <=> gate = c
  /\ gate = Stopper <=> stopper = "inside"
  /\ gate = Stopper => forced /\ after = "leave" /\ step \in {"request", "tasks", "services"}
  /\ step \in ReturnSteps \cup {"reap"} => after = "leave" /\ ~forced
  /\ Releasing /\ after = "claim" => forced
  /\ Releasing /\ after = "leave" /\ gate \in Client => ~forced
  /\ step = "tasks" => forced
  /\ stopper # "idle" => stopPending

\* What a release knows: the services its remaining claims name, or that there
\* are none to keep; and the claim of an acquiring client stands until withdrawn.
ReleaseInv ==
  /\ step \in {"request", "services"} /\ ~forced => used = WantedBy(lease)
  /\ step \in {"tasks", "services"} /\ forced => used = {} /\ stopRequest
  /\ Releasing /\ after = "claim" => lease = {}
  /\ step \in {"save", "decide", "ready"} => gate \in lease \cap flocked

\* Tickets grow, and while a stop is pending no client has observed its ticket.
TicketInv ==
  /\ finished <= stopToken
  /\ \A c \in Client : seen[c] <= stopToken
  /\ stopPending => \A c \in Client : seen[c] < stopToken

\* Where a task, and its recovery directory, can be when its client is there.
TaskInv ==
  \A c \in Client :
    /\ task[c] \in {"spawned", "published", "launched"} => pc[c] \in {"attending", "gone"}
    /\ task[c] # "none" => pc[c] \in {"attending", "closing", "returning", "inside", "gone"}
    /\ pc[c] \in {"returning", "inside"} => task[c] \in {"none", "ended"}
    /\ recovery[c] # "none" =>
         pc[c] \in {"prepared", "attending", "closing", "returning", "inside", "gone"}
    /\ Acquiring /\ gate = c => task[c] = "none" /\ recovery[c] = "none"
    /\ Runs(c) => recovery[c] = "made"

\* A task that may still be admitted has its claim, and no two claims exclude
\* each other; a forced release has dealt with every recovery directory.
ClaimInv ==
  /\ \A c \in Client : task[c] \in {"published", "launched", "running"} /\ recovery[c] = "made"
                         => c \in lease
  /\ \A c, d \in lease : c # d => ~ExclusiveConflict(c, d)
  /\ step = "services" /\ forced => \A c \in Client : recovery[c] # "made"

\* Without plan.json nobody has got anywhere.
PlanIsFirst ==
  plan = NoPlan =>
    /\ step \in {"none", "look", "claim", "save"}
    /\ running = {} /\ ~controller
    /\ \A c \in Client : /\ pc[c] \in {"idle", "waiting", "inside", "gone"}
                         /\ task[c] = "none" /\ recovery[c] = "none"

\* A client goes on only over a plan for its own inputs, or one it may replace.
PlanInv ==
  /\ PlanIsFirst
  /\ step = "claim" => lease = {} \/ plan \in {NoPlan, request[gate].fingerprint}
  /\ step = "save" => lease \subseteq {gate} \/ plan \in {NoPlan, request[gate].fingerprint}
  /\ step \in {"claim", "save"} /\ controller => plan = request[gate].fingerprint
  /\ step \in {"decide", "ready"} => plan = request[gate].fingerprint

\* A claim whose client or task still counts on it ...
Attached(c) == c \in lease /\ (pc[c] \in {"acquired", "prepared", "attending"} \/ LeaseTaskAlive(c))
\* ... is served, from its own inputs ...
Serves(c) == request[c].wants \subseteq running /\ plan = request[c].fingerprint
\* ... or a stop has made sure that nothing of it will run.
Halted(c) == stopPending /\ recovery[c] # "made" /\ (pc[c] = "acquired" => stopRequest)

ServeInv ==
  /\ \A c \in Client : Attached(c) => Serves(c) \/ Halted(c)
  /\ stopper = "closing" => \A c \in Client : ~Attached(c)

\* What a completed stop leaves behind and lets in.
StopInv ==
  /\ \A c \in lease : pc[c] # "idle" /\ seen[c] >= finished
  /\ Acquiring => seen[gate] >= finished
  /\ stopper \in {"inside", "closing"} => ~Acquiring
  /\ stopper = "closing" => lease = {} /\ running = {}
  /\ plan = NoPlan /\ lease # {} => step = "save"
  /\ \A n \in running : \E c \in Client :
       pc[c] # "idle" /\ seen[c] >= finished /\ n \in request[c].wants

\* What an undisturbed gate keeps: no service without a claim, and no request
\* to stop that a client which saw no stop would find.
OrderlyInv ==
  /\ NoClaimNoService
  /\ controller /\ stopRequest => step \in {"tasks", "services"} /\ (forced \/ lease = {})
  /\ step = "ready" => ~stopRequest
  /\ \A c \in Client : pc[c] = "acquired" =>
       c \in flocked /\ (c \notin lease \/ stopRequest => seen[c] < stopToken)

\* In every environment.
BaseInv == TypeOK /\ GateInv /\ ReleaseInv /\ TicketInv /\ PlanInv
\* Where an anchor never outlives its intermediary.
SharedInv == BaseInv /\ TaskInv /\ ClaimInv /\ ServeInv

----------------------------------------------------------------------------
(* Facts about the constants and the requests.                             *)

\* The names that stand for nobody, and the bound.
LEMMA Names == /\ NoOne \notin Client /\ Stopper \notin Client /\ NoOne # Stopper
               /\ NoPlan \notin Fingerprint /\ MaxStops \in Nat
  BY ScopeAssumption

\* What a client asks for.
LEMMA RequestFields ==
  ASSUME TypeOK, NEW c \in Client
  PROVE  request[c].wants \subseteq Service /\ request[c].fingerprint \in Fingerprint
  BY ScopeAssumption DEF TypeOK

\* Claims name services.
LEMMA WantedServices ==
  ASSUME TypeOK, NEW claims \in SUBSET Client PROVE WantedBy(claims) \subseteq Service
  BY RequestFields DEF WantedBy

USE Names DEF clientVars, leaseVars, taskVars, stopVars, ownVars, gateVars, At, Go, Inside, Refuse,
              LeaveGate, AcquireSteps, ReleaseSteps, ReturnSteps, Releasing, Acquiring

----------------------------------------------------------------------------
(* Every step keeps every layer.                                           *)

\* Every step keeps every variable in its type.
LEMMA TypeStep == TypeOK /\ [Next]_vars => TypeOK'
<1> SUFFICES ASSUME TypeOK, [Next]_vars PROVE TypeOK'
  OBVIOUS
<1> USE DEF TypeOK
<1> DEFINE Same == UNCHANGED <<request, pc, seen, gate, step, after, forced, used, lease, flocked,
                          task, recovery, plan, stopRequest, stopToken, stopPending, stopper,
                          controller, running, finished>>
<1>0. /\ gate \in Client \cup {NoOne, Stopper}
      /\ step \in AcquireSteps \cup ReleaseSteps \cup ReturnSteps \cup {"none"}
      /\ after \in {"claim", "leave"} /\ forced \in BOOLEAN
      /\ stopToken \in 0 .. MaxStops /\ stopPending \in BOOLEAN /\ finished \in 0 .. MaxStops
  OBVIOUS
<1>s. ASSUME UNCHANGED <<request, pc, seen, used, lease, flocked, task, recovery, plan,
                         stopRequest, controller, running>>,
             gate' \in Client \cup {NoOne, Stopper},
             step' \in AcquireSteps \cup ReleaseSteps \cup ReturnSteps \cup {"none"},
             after' \in {"claim", "leave"}, forced' \in BOOLEAN,
             stopToken' \in 0 .. MaxStops, stopPending' \in BOOLEAN,
             stopper' \in {"idle", "announced", "inside", "closing"}, finished' \in 0 .. MaxStops
      PROVE  TypeOK'
  <2>1. /\ request' \in [Client -> Requests]
        /\ pc' \in [Client -> {"idle", "waiting", "inside", "acquired", "prepared",
                               "attending", "closing", "returning", "gone"}]
        /\ seen' \in [Client -> 0 .. MaxStops] /\ used' \subseteq Service
        /\ lease' \subseteq Client /\ flocked' \subseteq Client
        /\ task' \in [Client -> {"none", "spawned", "published", "launched", "running", "ended"}]
        /\ recovery' \in [Client -> {"none", "made", "marked"}]
        /\ plan' \in Fingerprint \cup {NoPlan} /\ stopRequest' \in BOOLEAN
        /\ controller' \in BOOLEAN /\ running' \subseteq Service
    BY <1>s
  <2> QED BY <1>s, <2>1
<1>1. CASE Same
  BY <1>1
<1>2. ASSUME NEW c \in Client, Observe(c) PROVE TypeOK'
  BY <1>2 DEF Observe
<1>3. ASSUME NEW c \in Client, GiveUp(c) PROVE TypeOK'
  BY <1>3 DEF GiveUp
<1>4. ASSUME NEW c \in Client, EnterGate(c) PROVE TypeOK'
  BY <1>4 DEF EnterGate
<1>5. ASSUME NEW c \in Client, Look(c) PROVE TypeOK'
  <2>1. /\ UNCHANGED <<request, seen, flocked, task, recovery, plan, stopRequest, stopToken,
                      stopPending, stopper, controller, running, finished>>
        /\ lease' \in {lease, {d \in lease : Present(d)}}
        /\ used' = IF plan = NoPlan THEN {} ELSE WantedBy(lease')
    BY <1>5 DEF Look
  <2>2. lease' \subseteq Client
    BY <2>1
  <2>3. used' \subseteq Service
    BY <2>1, <2>2, WantedServices
  <2>4. /\ pc' \in {pc, [pc EXCEPT ![c] = "gone"]}
        /\ gate' \in {gate, NoOne}
        /\ step' \in {"none", "request", "claim"} /\ after' \in {after, "claim"}
        /\ forced' \in {forced, TRUE}
    BY <1>5 DEF Look
  <2>5. pc' \in [Client -> {"idle", "waiting", "inside", "acquired", "prepared",
                           "attending", "closing", "returning", "gone"}]
    BY <2>4
  <2>6. /\ gate' \in Client \cup {NoOne, Stopper}
        /\ step' \in AcquireSteps \cup ReleaseSteps \cup ReturnSteps \cup {"none"}
        /\ after' \in {"claim", "leave"} /\ forced' \in BOOLEAN
    BY <2>4
  <2>7. /\ request' \in [Client -> Requests] /\ seen' \in [Client -> 0 .. MaxStops]
        /\ flocked' \subseteq Client
        /\ task' \in [Client -> {"none", "spawned", "published", "launched", "running", "ended"}]
        /\ recovery' \in [Client -> {"none", "made", "marked"}]
    BY <2>1
  <2>8. /\ plan' \in Fingerprint \cup {NoPlan} /\ stopRequest' \in BOOLEAN
        /\ stopToken' \in 0 .. MaxStops /\ stopPending' \in BOOLEAN
        /\ stopper' \in {"idle", "announced", "inside", "closing"}
        /\ controller' \in BOOLEAN /\ running' \subseteq Service /\ finished' \in 0 .. MaxStops
    BY <2>1
  <2> QED BY <2>2, <2>3, <2>5, <2>6, <2>7, <2>8
<1>6. ASSUME NEW c \in Client, Claim(c) PROVE TypeOK'
  BY <1>6 DEF Claim
<1>7. ASSUME NEW c \in Client, Save(c) PROVE TypeOK'
  BY <1>7, RequestFields DEF Save
<1>8. ASSUME NEW c \in Client, Decide(c) PROVE TypeOK'
  BY <1>8, RequestFields DEF Decide
<1>9. ASSUME NEW c \in Client, Acquired(c) PROVE TypeOK'
  BY <1>9 DEF Acquired
<1>10. ASSUME NEW c \in Client, Withdraw(c) PROVE TypeOK'
  BY <1>10 DEF Withdraw
<1>11. ASSUME NEW c \in Client, Prepare(c) PROVE TypeOK'
  BY <1>11 DEF Prepare
<1>12. ASSUME NEW c \in Client, ForkTask(c) PROVE TypeOK'
  BY <1>12 DEF ForkTask
<1>13. ASSUME NEW c \in Client, LeaveTask(c) PROVE TypeOK'
  BY <1>13 DEF LeaveTask
<1>14. ASSUME NEW c \in Client, CloseLease(c) PROVE TypeOK'
  BY <1>14 DEF CloseLease
<1>15. ASSUME NEW c \in Client, ReturnToGate(c) PROVE TypeOK'
  BY <1>15 DEF ReturnToGate
<1>16. ASSUME NEW c \in Client, DiscardRecovery(c) PROVE TypeOK'
  BY <1>16 DEF DiscardRecovery
<1>17. ASSUME NEW c \in Client, RemoveRecovery(c) PROVE TypeOK'
  BY <1>17 DEF RemoveRecovery
<1>18. ASSUME NEW c \in Client, PublishTask(c) PROVE TypeOK'
  BY <1>18 DEF PublishTask
<1>19. ASSUME NEW c \in Client, LaunchTask(c) PROVE TypeOK'
  BY <1>19 DEF LaunchTask
<1>20. ASSUME NEW c \in Client, AdmitTask(c) PROVE TypeOK'
  BY <1>20 DEF AdmitTask
<1>21. ASSUME NEW c \in Client, EndTask(c) PROVE TypeOK'
  BY <1>21 DEF EndTask
<1>22. ASSUME NEW c \in Client, StopTask(c) PROVE TypeOK'
  BY <1>22 DEF StopTask
<1>23. ASSUME NEW c \in Client, KillClient(c) PROVE TypeOK'
  BY <1>23 DEF KillClient
<1>24. ASSUME NEW n \in Service, StopService(n) PROVE TypeOK'
  BY <1>24 DEF StopService
<1>25. CASE Reap
  BY <1>25, WantedServices DEF Reap
<1>26. CASE RequestStop
  BY <1>26 DEF RequestStop
<1>27. CASE TasksStopped
  BY <1>27 DEF TasksStopped
<1>28. CASE EndRelease
  BY <1>28 DEF EndRelease, ForgottenClaims, KeepsController
<1>29. CASE Announce
  <2>1. stopToken' \in 0 .. MaxStops /\ stopPending' \in BOOLEAN /\ stopper' = "announced"
    BY <1>29 DEF Announce
  <2>2. UNCHANGED <<request, pc, seen, gate, step, after, forced, used, lease, flocked, task,
                    recovery, plan, stopRequest, controller, running, finished>>
    BY <1>29 DEF Announce
  <2> HIDE DEF TypeOK
  <2> QED BY <1>0, <1>s, <2>1, <2>2
<1>30. CASE EnterStop
  <2>1. /\ gate' \in {gate, Stopper} /\ step' \in {step, "request"}
        /\ after' \in {after, "leave"} /\ forced' \in {forced, TRUE}
        /\ stopper' \in {"closing", "inside"} /\ finished' \in {finished, stopToken}
    BY <1>30 DEF EnterStop
  <2>2. /\ gate' \in Client \cup {NoOne, Stopper}
        /\ step' \in AcquireSteps \cup ReleaseSteps \cup ReturnSteps \cup {"none"}
        /\ after' \in {"claim", "leave"} /\ forced' \in BOOLEAN
        /\ stopper' \in {"closing", "inside"} /\ finished' \in 0 .. MaxStops
    BY <2>1
  <2>3. UNCHANGED <<request, pc, seen, used, lease, flocked, task, recovery, plan, stopRequest,
                    stopToken, stopPending, controller, running>>
    BY <1>30 DEF EnterStop
  <2> HIDE DEF TypeOK
  <2> QED BY <1>0, <1>s, <2>2, <2>3
<1>31. CASE CloseStop
  <2>1. UNCHANGED <<request, pc, seen, gate, step, after, forced, used, lease, flocked, task,
                    recovery, plan, stopRequest, stopToken, controller, running, finished>>
    BY <1>31 DEF CloseStop
  <2>2. stopper' = "idle" /\ stopPending' = FALSE
    BY <1>31 DEF CloseStop
  <2> HIDE DEF TypeOK
  <2> QED BY <1>0, <1>s, <2>1, <2>2
<1>32. CASE KillStop
  BY <1>32 DEF KillStop
<1>33. CASE LoseController
  <2>1. controller' \in BOOLEAN
    BY <1>33, Zenon DEF LoseController
  <2> QED BY <1>33, <2>1 DEF LoseController
<1>34. CASE UNCHANGED vars
  BY <1>34, <1>1 DEF vars
<1> QED
  BY <1>1, <1>2, <1>3, <1>4, <1>5, <1>6, <1>7, <1>8, <1>9, <1>10, <1>11, <1>12, <1>13, <1>14,
     <1>15, <1>16, <1>17, <1>18, <1>19, <1>20, <1>21, <1>22, <1>23, <1>24, <1>25, <1>26, <1>27,
     <1>28, <1>29, <1>30, <1>31, <1>32, <1>33, <1>34
     DEF Next, AcquireNext, RunNext, TaskNext, ReleaseNext, Quiescent

\* The gate changes hands with the steps of its holder.
LEMMA GateStep == TypeOK /\ GateInv /\ [Next]_vars => GateInv'
<1> SUFFICES ASSUME TypeOK, GateInv, [Next]_vars PROVE GateInv'
  OBVIOUS
<1> USE DEF TypeOK, GateInv
<1>1. CASE UNCHANGED <<pc, gate, step, after, forced, stopPending, stopper>>
  BY <1>1
<1>2. ASSUME NEW c \in Client, Observe(c) PROVE GateInv'
  BY <1>2 DEF Observe
<1>3. ASSUME NEW c \in Client, GiveUp(c) PROVE GateInv'
  BY <1>3 DEF GiveUp
<1>4. ASSUME NEW c \in Client, EnterGate(c) PROVE GateInv'
  BY <1>4 DEF EnterGate
<1>5. ASSUME NEW c \in Client, Look(c) PROVE GateInv'
  BY <1>5 DEF Look
<1>6. ASSUME NEW c \in Client, Claim(c) PROVE GateInv'
  BY <1>6 DEF Claim
<1>7. ASSUME NEW c \in Client, Save(c) PROVE GateInv'
  BY <1>7 DEF Save
<1>8. ASSUME NEW c \in Client, Decide(c) PROVE GateInv'
  BY <1>8 DEF Decide
<1>9. ASSUME NEW c \in Client, Acquired(c) PROVE GateInv'
  BY <1>9 DEF Acquired
<1>10. ASSUME NEW c \in Client, Withdraw(c) PROVE GateInv'
  BY <1>10 DEF Withdraw
<1>11. ASSUME NEW c \in Client, Prepare(c) PROVE GateInv'
  BY <1>11 DEF Prepare
<1>12. ASSUME NEW c \in Client, ForkTask(c) PROVE GateInv'
  BY <1>12 DEF ForkTask
<1>13. ASSUME NEW c \in Client, LeaveTask(c) PROVE GateInv'
  BY <1>13 DEF LeaveTask
<1>14. ASSUME NEW c \in Client, CloseLease(c) PROVE GateInv'
  BY <1>14 DEF CloseLease
<1>15. ASSUME NEW c \in Client, ReturnToGate(c) PROVE GateInv'
  BY <1>15 DEF ReturnToGate
<1>16. ASSUME NEW c \in Client, DiscardRecovery(c) PROVE GateInv'
  BY <1>16 DEF DiscardRecovery
<1>17. ASSUME NEW c \in Client, RemoveRecovery(c) PROVE GateInv'
  BY <1>17 DEF RemoveRecovery
<1>18. ASSUME NEW c \in Client, PublishTask(c) \/ LaunchTask(c) \/ AdmitTask(c) \/ EndTask(c)
      PROVE  UNCHANGED <<pc, gate, step, after, forced, stopPending, stopper>>
  BY <1>18 DEF PublishTask, LaunchTask, AdmitTask, EndTask
<1>19. ASSUME NEW c \in Client, StopTask(c)
      PROVE  UNCHANGED <<pc, gate, step, after, forced, stopPending, stopper>>
  BY <1>19 DEF StopTask
<1>20. ASSUME NEW c \in Client, KillClient(c) PROVE GateInv'
  BY <1>20 DEF KillClient
<1>21. ASSUME NEW n \in Service, StopService(n)
      PROVE  UNCHANGED <<pc, gate, step, after, forced, stopPending, stopper>>
  BY <1>21 DEF StopService
<1>22. CASE Reap
  BY <1>22 DEF Reap
<1>23. CASE RequestStop
  BY <1>23 DEF RequestStop
<1>24. CASE TasksStopped
  BY <1>24 DEF TasksStopped
<1>25. CASE EndRelease
  BY <1>25 DEF EndRelease
<1>26. CASE Announce
  BY <1>26 DEF Announce
<1>27. CASE EnterStop
  BY <1>27 DEF EnterStop
<1>28. CASE CloseStop
  BY <1>28 DEF CloseStop
<1>29. CASE KillStop
  BY <1>29 DEF KillStop
<1>30. ASSUME LoseController
      PROVE  UNCHANGED <<pc, gate, step, after, forced, stopPending, stopper>>
  BY <1>30 DEF LoseController
<1>31. CASE UNCHANGED vars
  BY <1>31, <1>1 DEF vars
<1> QED
  BY <1>1, <1>2, <1>3, <1>4, <1>5, <1>6, <1>7, <1>8, <1>9, <1>10, <1>11, <1>12, <1>13, <1>14,
     <1>15, <1>16, <1>17, <1>18, <1>19, <1>20, <1>21, <1>22, <1>23, <1>24, <1>25, <1>26, <1>27,
     <1>28, <1>29, <1>30, <1>31
     DEF Next, AcquireNext, RunNext, TaskNext, ReleaseNext, Quiescent

\* Only the holder of the gate changes what a release has found out.
LEMMA ReleaseStep == TypeOK /\ GateInv /\ ReleaseInv /\ [Next]_vars => ReleaseInv'
<1> SUFFICES ASSUME TypeOK, GateInv, ReleaseInv, [Next]_vars PROVE ReleaseInv'
  OBVIOUS
<1> USE DEF TypeOK, GateInv, ReleaseInv, WantedBy
<1>1. CASE UNCHANGED <<request, gate, step, after, forced, used, lease, flocked, stopRequest>>
  BY <1>1
<1>2. ASSUME NEW c \in Client, Observe(c) \/ GiveUp(c)
      PROVE  UNCHANGED <<request, gate, step, after, forced, used, lease, flocked, stopRequest>>
  BY <1>2 DEF Observe, GiveUp
<1>3. ASSUME NEW c \in Client, EnterGate(c) PROVE ReleaseInv'
  BY <1>3 DEF EnterGate
<1>4. ASSUME NEW c \in Client, Look(c) PROVE ReleaseInv'
  BY <1>4 DEF Look
<1>5. ASSUME NEW c \in Client, Claim(c) PROVE ReleaseInv'
  BY <1>5 DEF Claim
<1>6. ASSUME NEW c \in Client, Save(c) PROVE ReleaseInv'
  BY <1>6 DEF Save
<1>7. ASSUME NEW c \in Client, Decide(c) PROVE ReleaseInv'
  BY <1>7 DEF Decide
<1>8. ASSUME NEW c \in Client, Acquired(c) PROVE ReleaseInv'
  BY <1>8 DEF Acquired
<1>9. ASSUME NEW c \in Client, Withdraw(c) PROVE ReleaseInv'
  BY <1>9 DEF Withdraw
<1>10. ASSUME NEW c \in Client, Prepare(c) \/ ForkTask(c) \/ LeaveTask(c)
      PROVE  UNCHANGED <<request, gate, step, after, forced, used, lease, flocked, stopRequest>>
  BY <1>10 DEF Prepare, ForkTask, LeaveTask
<1>11. ASSUME NEW c \in Client, CloseLease(c) PROVE ReleaseInv'
  BY <1>11 DEF CloseLease
<1>12. ASSUME NEW c \in Client, ReturnToGate(c) PROVE ReleaseInv'
  BY <1>12 DEF ReturnToGate
<1>13. ASSUME NEW c \in Client, DiscardRecovery(c) PROVE ReleaseInv'
  BY <1>13 DEF DiscardRecovery
<1>14. ASSUME NEW c \in Client, RemoveRecovery(c) PROVE ReleaseInv'
  BY <1>14 DEF RemoveRecovery
<1>15. ASSUME NEW c \in Client, PublishTask(c) \/ LaunchTask(c) \/ AdmitTask(c) \/ EndTask(c)
      PROVE  UNCHANGED <<request, gate, step, after, forced, used, lease, flocked, stopRequest>>
  BY <1>15 DEF PublishTask, LaunchTask, AdmitTask, EndTask
<1>16. ASSUME NEW c \in Client, StopTask(c)
      PROVE  UNCHANGED <<request, gate, step, after, forced, used, lease, flocked, stopRequest>>
  BY <1>16 DEF StopTask
<1>17. ASSUME NEW c \in Client, KillClient(c) PROVE ReleaseInv'
  BY <1>17 DEF KillClient
<1>18. ASSUME NEW n \in Service, StopService(n)
      PROVE  UNCHANGED <<request, gate, step, after, forced, used, lease, flocked, stopRequest>>
  BY <1>18 DEF StopService
<1>19. CASE Reap
  BY <1>19 DEF Reap
<1>20. CASE RequestStop
  BY <1>20 DEF RequestStop, AsksToStop
<1>21. CASE TasksStopped
  BY <1>21 DEF TasksStopped
<1>22. CASE EndRelease
  BY <1>22 DEF EndRelease, ForgottenClaims
<1>23. ASSUME Announce \/ CloseStop
      PROVE  UNCHANGED <<request, gate, step, after, forced, used, lease, flocked, stopRequest>>
  BY <1>23 DEF Announce, CloseStop
<1>24. CASE EnterStop
  BY <1>24 DEF EnterStop
<1>25. CASE KillStop
  BY <1>25 DEF KillStop
<1>26. ASSUME LoseController
      PROVE  UNCHANGED <<request, gate, step, after, forced, used, lease, flocked, stopRequest>>
  BY <1>26 DEF LoseController
<1>27. CASE UNCHANGED vars
  BY <1>27, <1>1 DEF vars
<1> QED
  BY <1>1, <1>2, <1>3, <1>4, <1>5, <1>6, <1>7, <1>8, <1>9, <1>10, <1>11, <1>12, <1>13, <1>14,
     <1>15, <1>16, <1>17, <1>18, <1>19, <1>20, <1>21, <1>22, <1>23, <1>24, <1>25, <1>26, <1>27
     DEF Next, AcquireNext, RunNext, TaskNext, ReleaseNext, Quiescent

\* Nobody observes a ticket while its stop is pending.
LEMMA TicketStep == TypeOK /\ GateInv /\ TicketInv /\ [Next]_vars => TicketInv'
<1> SUFFICES ASSUME TypeOK, GateInv, TicketInv, [Next]_vars PROVE TicketInv'
  OBVIOUS
<1> USE DEF TypeOK, GateInv, TicketInv
<1>1. CASE UNCHANGED <<seen, stopToken, stopPending, finished>>
  BY <1>1
<1>2. ASSUME NEW c \in Client, GiveUp(c) \/ EnterGate(c)
      PROVE  UNCHANGED <<seen, stopToken, stopPending, finished>>
  BY <1>2 DEF GiveUp, EnterGate
<1>3. ASSUME NEW c \in Client, Observe(c) PROVE TicketInv'
  BY <1>3 DEF Observe
<1>4. ASSUME NEW c \in Client, Look(c) \/ Claim(c) \/ Save(c) \/ Decide(c) \/ Acquired(c)
            \/ Withdraw(c)
      PROVE  UNCHANGED <<seen, stopToken, stopPending, finished>>
  BY <1>4 DEF Look, Claim, Save, Decide, Acquired, Withdraw
<1>5. ASSUME NEW c \in Client, Prepare(c) \/ ForkTask(c) \/ LeaveTask(c) \/ CloseLease(c)
            \/ ReturnToGate(c) \/ DiscardRecovery(c) \/ RemoveRecovery(c)
      PROVE  UNCHANGED <<seen, stopToken, stopPending, finished>>
  BY <1>5
     DEF Prepare, ForkTask, LeaveTask, CloseLease, ReturnToGate, DiscardRecovery, RemoveRecovery
<1>6. ASSUME NEW c \in Client, PublishTask(c) \/ LaunchTask(c) \/ AdmitTask(c) \/ EndTask(c)
      PROVE  UNCHANGED <<seen, stopToken, stopPending, finished>>
  BY <1>6 DEF PublishTask, LaunchTask, AdmitTask, EndTask
<1>7. ASSUME NEW c \in Client, StopTask(c) \/ KillClient(c)
      PROVE  UNCHANGED <<seen, stopToken, stopPending, finished>>
  BY <1>7 DEF StopTask, KillClient
<1>8. ASSUME NEW n \in Service, StopService(n)
      PROVE  UNCHANGED <<seen, stopToken, stopPending, finished>>
  BY <1>8 DEF StopService
<1>9. ASSUME Reap \/ RequestStop \/ TasksStopped
      PROVE  UNCHANGED <<seen, stopToken, stopPending, finished>>
  BY <1>9 DEF Reap, RequestStop, TasksStopped
<1>10. CASE EndRelease
  BY <1>10 DEF EndRelease
<1>11. ASSUME KillStop
      PROVE  UNCHANGED <<seen, stopToken, stopPending, finished>>
  BY <1>11 DEF KillStop
<1>12. CASE Announce
  BY <1>12 DEF Announce
<1>13. CASE EnterStop
  BY <1>13 DEF EnterStop
<1>14. CASE CloseStop
  BY <1>14 DEF CloseStop
<1>15. ASSUME LoseController
      PROVE  UNCHANGED <<seen, stopToken, stopPending, finished>>
  BY <1>15 DEF LoseController
<1>16. CASE UNCHANGED vars
  BY <1>16, <1>1 DEF vars
<1> QED
  BY <1>1, <1>2, <1>3, <1>4, <1>5, <1>6, <1>7, <1>8, <1>9, <1>10, <1>11, <1>12, <1>13, <1>14,
     <1>15, <1>16
     DEF Next, AcquireNext, RunNext, TaskNext, ReleaseNext, Quiescent

\* acquire keeps the plan of whoever remains, and replaces it over nobody.
LEMMA PlanStep == TypeOK /\ GateInv /\ ReleaseInv /\ PlanInv /\ [Next]_vars => PlanInv'
<1> SUFFICES ASSUME TypeOK, GateInv, ReleaseInv, PlanInv, [Next]_vars PROVE PlanInv'
  OBVIOUS
<1> USE DEF TypeOK, GateInv, ReleaseInv, PlanInv, PlanIsFirst
<1> DEFINE Same == UNCHANGED <<request, pc, gate, step, lease, task, recovery, plan, controller,
                          running>>
<1>1. CASE Same
  BY <1>1
<1>2. ASSUME NEW c \in Client, Observe(c) PROVE PlanInv'
  BY <1>2 DEF Observe
<1>3. ASSUME NEW c \in Client, GiveUp(c) PROVE PlanInv'
  BY <1>3 DEF GiveUp
<1>4. ASSUME NEW c \in Client, EnterGate(c) PROVE PlanInv'
  BY <1>4 DEF EnterGate
<1>5. ASSUME NEW c \in Client, Look(c) PROVE PlanInv'
  BY <1>5, RequestFields DEF Look, Incompatible, WantedBy
<1>6. ASSUME NEW c \in Client, Claim(c) PROVE PlanInv'
  BY <1>6 DEF Claim
<1>7. ASSUME NEW c \in Client, Save(c) PROVE PlanInv'
  BY <1>7, RequestFields DEF Save
<1>8. ASSUME NEW c \in Client, Decide(c) PROVE PlanInv'
  BY <1>8 DEF Decide
<1>9. ASSUME NEW c \in Client, Acquired(c) PROVE PlanInv'
  BY <1>9 DEF Acquired
<1>10. ASSUME NEW c \in Client, Withdraw(c) PROVE PlanInv'
  BY <1>10 DEF Withdraw
<1>11. ASSUME NEW c \in Client, Prepare(c) PROVE PlanInv'
  BY <1>11 DEF Prepare
<1>12. ASSUME NEW c \in Client, ForkTask(c) PROVE PlanInv'
  BY <1>12 DEF ForkTask
<1>13. ASSUME NEW c \in Client, LeaveTask(c) PROVE PlanInv'
  BY <1>13 DEF LeaveTask
<1>14. ASSUME NEW c \in Client, CloseLease(c) PROVE PlanInv'
  BY <1>14 DEF CloseLease
<1>15. ASSUME NEW c \in Client, ReturnToGate(c) PROVE PlanInv'
  BY <1>15 DEF ReturnToGate
<1>16. ASSUME NEW c \in Client, DiscardRecovery(c) PROVE PlanInv'
  BY <1>16 DEF DiscardRecovery
<1>17. ASSUME NEW c \in Client, RemoveRecovery(c) PROVE PlanInv'
  BY <1>17 DEF RemoveRecovery
<1>18. ASSUME NEW c \in Client, PublishTask(c) PROVE PlanInv'
  BY <1>18 DEF PublishTask, LeaseMatches
<1>19. ASSUME NEW c \in Client, LaunchTask(c) PROVE PlanInv'
  BY <1>19 DEF LaunchTask
<1>20. ASSUME NEW c \in Client, AdmitTask(c) PROVE PlanInv'
  BY <1>20 DEF AdmitTask
<1>21. ASSUME NEW c \in Client, EndTask(c) PROVE PlanInv'
  BY <1>21 DEF EndTask, LeaseTaskAlive
<1>22. ASSUME NEW c \in Client, StopTask(c) PROVE PlanInv'
  BY <1>22 DEF StopTask, NeedsStop
<1>23. ASSUME NEW c \in Client, KillClient(c) PROVE PlanInv'
  BY <1>23 DEF KillClient
<1>24. ASSUME NEW n \in Service, StopService(n) PROVE PlanInv'
  BY <1>24 DEF StopService
<1>25. CASE Reap
  BY <1>25 DEF Reap
<1>26. CASE RequestStop
  BY <1>26 DEF RequestStop
<1>27. CASE TasksStopped
  BY <1>27 DEF TasksStopped
<1>28. CASE EndRelease
  BY <1>28 DEF EndRelease, ForgottenClaims, KeepsController
<1>29. ASSUME Announce \/ CloseStop
      PROVE  Same
  BY <1>29 DEF Announce, CloseStop
<1>30. CASE EnterStop
  BY <1>30 DEF EnterStop
<1>31. CASE KillStop
  BY <1>31 DEF KillStop
<1>32. CASE LoseController
  BY <1>32 DEF LoseController
<1>33. CASE UNCHANGED vars
  BY <1>33, <1>1 DEF vars
<1> QED
  BY <1>1, <1>2, <1>3, <1>4, <1>5, <1>6, <1>7, <1>8, <1>9, <1>10, <1>11, <1>12, <1>13, <1>14,
     <1>15, <1>16, <1>17, <1>18, <1>19, <1>20, <1>21, <1>22, <1>23, <1>24, <1>25, <1>26, <1>27,
     <1>28, <1>29, <1>30, <1>31, <1>32, <1>33
     DEF Next, AcquireNext, RunNext, TaskNext, ReleaseNext, Quiescent

\* A task goes no further than its client and its recovery directory let it.
LEMMA TaskStep == ~LateAnchor /\ TypeOK /\ GateInv /\ TaskInv /\ [Next]_vars => TaskInv'
<1> SUFFICES ASSUME ~LateAnchor, TypeOK, GateInv, TaskInv, [Next]_vars PROVE TaskInv'
  OBVIOUS
<1> USE DEF TypeOK, GateInv, TaskInv, Runs, LeaseTaskAlive
<1>1. CASE UNCHANGED <<pc, gate, step, after, task, recovery>>
  BY <1>1
<1>2. ASSUME NEW c \in Client, Observe(c) PROVE TaskInv'
  BY <1>2 DEF Observe
<1>3. ASSUME NEW c \in Client, GiveUp(c) PROVE TaskInv'
  BY <1>3 DEF GiveUp
<1>4. ASSUME NEW c \in Client, EnterGate(c) PROVE TaskInv'
  BY <1>4 DEF EnterGate
<1>5. ASSUME NEW c \in Client, Look(c) PROVE TaskInv'
  BY <1>5 DEF Look
<1>6. ASSUME NEW c \in Client, Claim(c) PROVE TaskInv'
  BY <1>6 DEF Claim
<1>7. ASSUME NEW c \in Client, Save(c) PROVE TaskInv'
  BY <1>7 DEF Save
<1>8. ASSUME NEW c \in Client, Decide(c) PROVE TaskInv'
  BY <1>8 DEF Decide
<1>9. ASSUME NEW c \in Client, Acquired(c) PROVE TaskInv'
  BY <1>9 DEF Acquired
<1>10. ASSUME NEW c \in Client, Withdraw(c) PROVE TaskInv'
  BY <1>10 DEF Withdraw
<1>11. ASSUME NEW c \in Client, Prepare(c) PROVE TaskInv'
  BY <1>11 DEF Prepare
<1>12. ASSUME NEW c \in Client, ForkTask(c) PROVE TaskInv'
  BY <1>12 DEF ForkTask
<1>13. ASSUME NEW c \in Client, LeaveTask(c) PROVE TaskInv'
  BY <1>13 DEF LeaveTask
<1>14. ASSUME NEW c \in Client, CloseLease(c) PROVE TaskInv'
  BY <1>14 DEF CloseLease
<1>15. ASSUME NEW c \in Client, ReturnToGate(c) PROVE TaskInv'
  BY <1>15 DEF ReturnToGate
<1>16. ASSUME NEW c \in Client, DiscardRecovery(c) PROVE TaskInv'
  BY <1>16 DEF DiscardRecovery
<1>17. ASSUME NEW c \in Client, RemoveRecovery(c) PROVE TaskInv'
  BY <1>17 DEF RemoveRecovery
<1>18. ASSUME NEW c \in Client, PublishTask(c) PROVE TaskInv'
  BY <1>18 DEF PublishTask
<1>19. ASSUME NEW c \in Client, LaunchTask(c) PROVE TaskInv'
  BY <1>19 DEF LaunchTask
<1>20. ASSUME NEW c \in Client, AdmitTask(c) PROVE TaskInv'
  BY <1>20 DEF AdmitTask, TaskRefused
<1>21. ASSUME NEW c \in Client, EndTask(c) PROVE TaskInv'
  BY <1>21 DEF EndTask
<1>22. ASSUME NEW c \in Client, StopTask(c) PROVE TaskInv'
  BY <1>22 DEF StopTask, NeedsStop
<1>23. ASSUME NEW c \in Client, KillClient(c) PROVE TaskInv'
  BY <1>23 DEF KillClient
<1>24. ASSUME NEW n \in Service, StopService(n)
      PROVE  UNCHANGED <<pc, gate, step, after, task, recovery>>
  BY <1>24 DEF StopService
<1>25. CASE Reap
  BY <1>25 DEF Reap
<1>26. CASE RequestStop
  BY <1>26 DEF RequestStop
<1>27. CASE TasksStopped
  BY <1>27 DEF TasksStopped
<1>28. CASE EndRelease
  BY <1>28 DEF EndRelease
<1>29. ASSUME Announce \/ CloseStop
      PROVE  UNCHANGED <<pc, gate, step, after, task, recovery>>
  BY <1>29 DEF Announce, CloseStop
<1>30. CASE EnterStop
  BY <1>30 DEF EnterStop
<1>31. CASE KillStop
  BY <1>31 DEF KillStop
<1>32. ASSUME LoseController
      PROVE  UNCHANGED <<pc, gate, step, after, task, recovery>>
  BY <1>32 DEF LoseController
<1>33. CASE UNCHANGED vars
  BY <1>33, <1>1 DEF vars
<1> QED
  BY <1>1, <1>2, <1>3, <1>4, <1>5, <1>6, <1>7, <1>8, <1>9, <1>10, <1>11, <1>12, <1>13, <1>14,
     <1>15, <1>16, <1>17, <1>18, <1>19, <1>20, <1>21, <1>22, <1>23, <1>24, <1>25, <1>26, <1>27,
     <1>28, <1>29, <1>30, <1>31, <1>32, <1>33
     DEF Next, AcquireNext, RunNext, TaskNext, ReleaseNext, Quiescent

\* A claim is removed only when no task of it can run any more.
LEMMA ClaimStep == TypeOK /\ GateInv /\ ReleaseInv /\ TaskInv /\ ClaimInv /\
  [Next]_vars => ClaimInv'
<1> SUFFICES ASSUME TypeOK, GateInv, ReleaseInv, TaskInv, ClaimInv, [Next]_vars PROVE ClaimInv'
  OBVIOUS
<1> USE DEF TypeOK, GateInv, ReleaseInv, TaskInv, ClaimInv, Runs, LeaseTaskAlive, Present,
            ExclusiveConflict
<1>1. CASE UNCHANGED <<request, step, forced, lease, task, recovery>>
  BY <1>1
<1>2. ASSUME NEW c \in Client, Observe(c) \/ GiveUp(c)
      PROVE  UNCHANGED <<request, step, forced, lease, task, recovery>>
  BY <1>2 DEF Observe, GiveUp
<1>3. ASSUME NEW c \in Client, EnterGate(c) PROVE ClaimInv'
  BY <1>3 DEF EnterGate
<1>4. ASSUME NEW c \in Client, Look(c) PROVE ClaimInv'
  BY <1>4 DEF Look
<1>5. ASSUME NEW c \in Client, Claim(c) PROVE ClaimInv'
  BY <1>5 DEF Claim
<1>6. ASSUME NEW c \in Client, Save(c) PROVE ClaimInv'
  BY <1>6 DEF Save
<1>7. ASSUME NEW c \in Client, Decide(c) PROVE ClaimInv'
  BY <1>7 DEF Decide
<1>8. ASSUME NEW c \in Client, Acquired(c) PROVE ClaimInv'
  BY <1>8 DEF Acquired
<1>9. ASSUME NEW c \in Client, Withdraw(c) PROVE ClaimInv'
  BY <1>9 DEF Withdraw
<1>10. ASSUME NEW c \in Client, Prepare(c) PROVE ClaimInv'
  BY <1>10 DEF Prepare
<1>11. ASSUME NEW c \in Client, ForkTask(c) PROVE ClaimInv'
  BY <1>11 DEF ForkTask
<1>12. ASSUME NEW c \in Client, LeaveTask(c) PROVE ClaimInv'
  BY <1>12 DEF LeaveTask
<1>13. ASSUME NEW c \in Client, CloseLease(c) PROVE ClaimInv'
  BY <1>13 DEF CloseLease
<1>14. ASSUME NEW c \in Client, ReturnToGate(c) PROVE ClaimInv'
  BY <1>14 DEF ReturnToGate
<1>15. ASSUME NEW c \in Client, DiscardRecovery(c) PROVE ClaimInv'
  BY <1>15 DEF DiscardRecovery
<1>16. ASSUME NEW c \in Client, RemoveRecovery(c) PROVE ClaimInv'
  BY <1>16 DEF RemoveRecovery
<1>17. ASSUME NEW c \in Client, PublishTask(c) PROVE ClaimInv'
  BY <1>17 DEF PublishTask, LeaseMatches
<1>18. ASSUME NEW c \in Client, LaunchTask(c) PROVE ClaimInv'
  BY <1>18 DEF LaunchTask
<1>19. ASSUME NEW c \in Client, AdmitTask(c) PROVE ClaimInv'
  BY <1>19 DEF AdmitTask, TaskRefused
<1>20. ASSUME NEW c \in Client, EndTask(c) PROVE ClaimInv'
  BY <1>20 DEF EndTask
<1>21. ASSUME NEW c \in Client, StopTask(c) PROVE ClaimInv'
  BY <1>21 DEF StopTask, NeedsStop
<1>22. ASSUME NEW c \in Client, KillClient(c) PROVE ClaimInv'
  BY <1>22 DEF KillClient
<1>23. ASSUME NEW n \in Service, StopService(n)
      PROVE  UNCHANGED <<request, step, forced, lease, task, recovery>>
  BY <1>23 DEF StopService
<1>24. CASE Reap
  BY <1>24 DEF Reap
<1>25. CASE RequestStop
  BY <1>25 DEF RequestStop
<1>26. CASE TasksStopped
  BY <1>26 DEF TasksStopped, NeedsStop
<1>27. CASE EndRelease
  BY <1>27 DEF EndRelease, ForgottenClaims
<1>28. ASSUME Announce \/ CloseStop
      PROVE  UNCHANGED <<request, step, forced, lease, task, recovery>>
  BY <1>28 DEF Announce, CloseStop
<1>29. CASE EnterStop
  BY <1>29 DEF EnterStop
<1>30. CASE KillStop
  BY <1>30 DEF KillStop
<1>31. ASSUME LoseController
      PROVE  UNCHANGED <<request, step, forced, lease, task, recovery>>
  BY <1>31 DEF LoseController
<1>32. CASE UNCHANGED vars
  BY <1>32, <1>1 DEF vars
<1> QED
  BY <1>1, <1>2, <1>3, <1>4, <1>5, <1>6, <1>7, <1>8, <1>9, <1>10, <1>11, <1>12, <1>13, <1>14,
     <1>15, <1>16, <1>17, <1>18, <1>19, <1>20, <1>21, <1>22, <1>23, <1>24, <1>25, <1>26, <1>27,
     <1>28, <1>29, <1>30, <1>31, <1>32
     DEF Next, AcquireNext, RunNext, TaskNext, ReleaseNext, Quiescent

\* Services are stopped under a claim by a stop only, and not before its tasks are.
LEMMA ServeStep == BaseInv /\ TaskInv /\ ClaimInv /\ ServeInv /\ [Next]_vars => ServeInv'
<1> SUFFICES ASSUME BaseInv, TaskInv, ClaimInv, ServeInv, [Next]_vars PROVE ServeInv'
  OBVIOUS
<1> USE DEF BaseInv, TypeOK, GateInv, ReleaseInv, TaskInv, ClaimInv, PlanInv, ServeInv, Attached,
            Serves, Halted, LeaseTaskAlive
<1> DEFINE Same == UNCHANGED <<request, pc, lease, task, recovery, plan, stopRequest, stopPending,
                          stopper, running>>
<1>1. CASE Same
  BY <1>1
<1>2. ASSUME NEW c \in Client, Observe(c) PROVE ServeInv'
  BY <1>2 DEF Observe
<1>3. ASSUME NEW c \in Client, GiveUp(c) PROVE ServeInv'
  BY <1>3 DEF GiveUp
<1>4. ASSUME NEW c \in Client, EnterGate(c) PROVE ServeInv'
  BY <1>4 DEF EnterGate
<1>5. ASSUME NEW c \in Client, Look(c) PROVE ServeInv'
  BY <1>5 DEF Look
<1>6. ASSUME NEW c \in Client, Claim(c) PROVE ServeInv'
  BY <1>6 DEF Claim
<1>7. ASSUME NEW c \in Client, Save(c) PROVE ServeInv'
  BY <1>7 DEF Save, PlanIsFirst
<1>8. ASSUME NEW c \in Client, Decide(c) PROVE ServeInv'
  BY <1>8 DEF Decide, Cancelled
<1>9. ASSUME NEW c \in Client, Acquired(c) PROVE ServeInv'
  BY <1>9 DEF Acquired, Ready, Cancelled
<1>10. ASSUME NEW c \in Client, Withdraw(c) PROVE ServeInv'
  BY <1>10 DEF Withdraw
<1>11. ASSUME NEW c \in Client, DiscardRecovery(c)
      PROVE  Same
  BY <1>11 DEF DiscardRecovery
<1>12. ASSUME NEW c \in Client, Prepare(c) PROVE ServeInv'
  BY <1>12 DEF Prepare
<1>13. ASSUME NEW c \in Client, ForkTask(c) PROVE ServeInv'
  BY <1>13 DEF ForkTask
<1>14. ASSUME NEW c \in Client, LeaveTask(c) PROVE ServeInv'
  BY <1>14 DEF LeaveTask
<1>15. ASSUME NEW c \in Client, CloseLease(c) PROVE ServeInv'
  BY <1>15 DEF CloseLease
<1>16. ASSUME NEW c \in Client, ReturnToGate(c) PROVE ServeInv'
  BY <1>16 DEF ReturnToGate
<1>17. ASSUME NEW c \in Client, RemoveRecovery(c) PROVE ServeInv'
  BY <1>17 DEF RemoveRecovery
<1>18. ASSUME NEW c \in Client, PublishTask(c) PROVE ServeInv'
  BY <1>18 DEF PublishTask, LeaseMatches
<1>19. ASSUME NEW c \in Client, LaunchTask(c) PROVE ServeInv'
  BY <1>19 DEF LaunchTask
<1>20. ASSUME NEW c \in Client, AdmitTask(c) PROVE ServeInv'
  BY <1>20 DEF AdmitTask, TaskRefused
<1>21. ASSUME NEW c \in Client, EndTask(c) PROVE ServeInv'
  BY <1>21 DEF EndTask
<1>22. ASSUME NEW c \in Client, StopTask(c) PROVE ServeInv'
  BY <1>22 DEF StopTask, NeedsStop
<1>23. ASSUME NEW c \in Client, KillClient(c) PROVE ServeInv'
  BY <1>23 DEF KillClient
<1>24. ASSUME NEW n \in Service, StopService(n) PROVE ServeInv'
  BY <1>24 DEF StopService, WantedBy
<1>25. ASSUME TasksStopped
      PROVE  Same
  BY <1>25 DEF TasksStopped
<1>26. CASE Reap
  BY <1>26 DEF Reap
<1>27. CASE RequestStop
  BY <1>27 DEF RequestStop, AsksToStop
<1>28. CASE EndRelease
  BY <1>28 DEF EndRelease, ForgottenClaims, WantedBy
<1>29. CASE Announce
  BY <1>29 DEF Announce
<1>30. CASE EnterStop
  BY <1>30 DEF EnterStop, PlanIsFirst
<1>31. CASE CloseStop
  BY <1>31 DEF CloseStop
<1>32. CASE KillStop
  BY <1>32 DEF KillStop
<1>33. ASSUME LoseController
      PROVE  Same
  BY <1>33 DEF LoseController
<1>34. CASE UNCHANGED vars
  BY <1>34, <1>1 DEF vars
<1> QED
  BY <1>1, <1>2, <1>3, <1>4, <1>5, <1>6, <1>7, <1>8, <1>9, <1>10, <1>11, <1>12, <1>13, <1>14,
     <1>15, <1>16, <1>17, <1>18, <1>19, <1>20, <1>21, <1>22, <1>23, <1>24, <1>25, <1>26, <1>27,
     <1>28, <1>29, <1>30, <1>31, <1>32, <1>33, <1>34
     DEF Next, AcquireNext, RunNext, TaskNext, ReleaseNext, Quiescent

\* Whatever comes after a completed stop belongs to a client that has observed it.
LEMMA StopStep == ~FirstLoss /\ BaseInv /\ StopInv /\ [Next]_vars => StopInv'
<1> SUFFICES ASSUME ~FirstLoss, BaseInv, StopInv, [Next]_vars PROVE StopInv'
  OBVIOUS
<1> USE DEF BaseInv, TypeOK, GateInv, ReleaseInv, TicketInv, PlanInv, StopInv
<1> DEFINE Same == UNCHANGED <<request, pc, seen, gate, step, after, lease, plan, stopper, running,
                          finished>>
<1>1. CASE Same
  BY <1>1
<1>2. ASSUME NEW c \in Client, Observe(c) PROVE StopInv'
  BY <1>2 DEF Observe
<1>3. ASSUME NEW c \in Client, GiveUp(c) PROVE StopInv'
  BY <1>3 DEF GiveUp
<1>4. ASSUME NEW c \in Client, EnterGate(c) PROVE StopInv'
  BY <1>4 DEF EnterGate, Cancelled
<1>5. ASSUME NEW c \in Client, Look(c) PROVE StopInv'
  BY <1>5 DEF Look
<1>6. ASSUME NEW c \in Client, Claim(c) PROVE StopInv'
  BY <1>6 DEF Claim
<1>7. ASSUME NEW c \in Client, Save(c) PROVE StopInv'
  BY <1>7, RequestFields DEF Save, PlanIsFirst
<1>8. ASSUME NEW c \in Client, Decide(c) PROVE StopInv'
  BY <1>8 DEF Decide, Cancelled
<1>9. ASSUME NEW c \in Client, Acquired(c) PROVE StopInv'
  BY <1>9 DEF Acquired
<1>10. ASSUME NEW c \in Client, Withdraw(c) PROVE StopInv'
  BY <1>10 DEF Withdraw
<1>11. ASSUME NEW c \in Client, Prepare(c) PROVE StopInv'
  BY <1>11 DEF Prepare
<1>12. ASSUME NEW c \in Client, ForkTask(c) PROVE StopInv'
  BY <1>12 DEF ForkTask
<1>13. ASSUME NEW c \in Client, LeaveTask(c) PROVE StopInv'
  BY <1>13 DEF LeaveTask
<1>14. ASSUME NEW c \in Client, CloseLease(c) PROVE StopInv'
  BY <1>14 DEF CloseLease
<1>15. ASSUME NEW c \in Client, ReturnToGate(c) PROVE StopInv'
  BY <1>15 DEF ReturnToGate
<1>16. ASSUME NEW c \in Client, DiscardRecovery(c) PROVE StopInv'
  BY <1>16 DEF DiscardRecovery
<1>17. ASSUME NEW c \in Client, RemoveRecovery(c) PROVE StopInv'
  BY <1>17 DEF RemoveRecovery
<1>18. ASSUME NEW c \in Client, PublishTask(c) \/ LaunchTask(c) \/ AdmitTask(c) \/ EndTask(c)
      PROVE  Same
  BY <1>18 DEF PublishTask, LaunchTask, AdmitTask, EndTask
<1>19. ASSUME NEW c \in Client, StopTask(c)
      PROVE  Same
  BY <1>19 DEF StopTask
<1>20. ASSUME NEW c \in Client, KillClient(c) PROVE StopInv'
  BY <1>20 DEF KillClient
<1>21. ASSUME NEW n \in Service, StopService(n) PROVE StopInv'
  BY <1>21 DEF StopService
<1>22. CASE Reap
  BY <1>22 DEF Reap
<1>23. CASE RequestStop
  BY <1>23 DEF RequestStop
<1>24. CASE TasksStopped
  BY <1>24 DEF TasksStopped
<1>25. CASE EndRelease
  BY <1>25 DEF EndRelease, ForgottenClaims
<1>26. CASE Announce
  BY <1>26 DEF Announce
<1>27. CASE EnterStop
  BY <1>27 DEF EnterStop, PlanIsFirst
<1>28. CASE CloseStop
  BY <1>28 DEF CloseStop
<1>29. CASE KillStop
  BY <1>29 DEF KillStop
<1>30. ASSUME LoseController
      PROVE  Same
  BY <1>30 DEF LoseController
<1>31. CASE UNCHANGED vars
  BY <1>31, <1>1 DEF vars
<1> QED
  BY <1>1, <1>2, <1>3, <1>4, <1>5, <1>6, <1>7, <1>8, <1>9, <1>10, <1>11, <1>12, <1>13, <1>14,
     <1>15, <1>16, <1>17, <1>18, <1>19, <1>20, <1>21, <1>22, <1>23, <1>24, <1>25, <1>26, <1>27,
     <1>28, <1>29, <1>30, <1>31
     DEF Next, AcquireNext, RunNext, TaskNext, ReleaseNext, Quiescent

\* A gate holder that is not killed finishes what it has begun.
LEMMA OrderlyStep == ~HolderLoss /\ BaseInv /\ OrderlyInv /\ [Next]_vars => OrderlyInv'
<1> SUFFICES ASSUME ~HolderLoss, BaseInv, OrderlyInv, [Next]_vars PROVE OrderlyInv'
  OBVIOUS
<1> USE DEF BaseInv, TypeOK, GateInv, ReleaseInv, TicketInv, OrderlyInv, NoClaimNoService
<1> DEFINE Same == UNCHANGED <<pc, seen, gate, step, forced, lease, flocked, stopRequest,
                          stopToken, controller, running>>
<1>1. CASE Same
  BY <1>1
<1>2. ASSUME NEW c \in Client, Observe(c) PROVE OrderlyInv'
  BY <1>2 DEF Observe
<1>3. ASSUME NEW c \in Client, GiveUp(c) PROVE OrderlyInv'
  BY <1>3 DEF GiveUp
<1>4. ASSUME NEW c \in Client, EnterGate(c) PROVE OrderlyInv'
  BY <1>4 DEF EnterGate
<1>5. ASSUME NEW c \in Client, Look(c) PROVE OrderlyInv'
  BY <1>5 DEF Look, Incompatible, WantedBy, Present
<1>6. ASSUME NEW c \in Client, Claim(c) PROVE OrderlyInv'
  BY <1>6 DEF Claim
<1>7. ASSUME NEW c \in Client, Save(c) PROVE OrderlyInv'
  BY <1>7 DEF Save
<1>8. ASSUME NEW c \in Client, Decide(c) PROVE OrderlyInv'
  BY <1>8 DEF Decide, Cancelled
<1>9. ASSUME NEW c \in Client, Acquired(c) PROVE OrderlyInv'
  BY <1>9 DEF Acquired, Cancelled
<1>10. ASSUME NEW c \in Client, Withdraw(c) PROVE OrderlyInv'
  BY <1>10 DEF Withdraw
<1>11. ASSUME NEW c \in Client, Prepare(c) PROVE OrderlyInv'
  BY <1>11 DEF Prepare
<1>12. ASSUME NEW c \in Client, ForkTask(c) PROVE OrderlyInv'
  BY <1>12 DEF ForkTask
<1>13. ASSUME NEW c \in Client, LeaveTask(c) PROVE OrderlyInv'
  BY <1>13 DEF LeaveTask
<1>14. ASSUME NEW c \in Client, CloseLease(c) PROVE OrderlyInv'
  BY <1>14 DEF CloseLease
<1>15. ASSUME NEW c \in Client, ReturnToGate(c) PROVE OrderlyInv'
  BY <1>15 DEF ReturnToGate
<1>16. ASSUME NEW c \in Client, DiscardRecovery(c) PROVE OrderlyInv'
  BY <1>16 DEF DiscardRecovery
<1>17. ASSUME NEW c \in Client, RemoveRecovery(c) PROVE OrderlyInv'
  BY <1>17 DEF RemoveRecovery
<1>18. ASSUME NEW c \in Client, PublishTask(c) \/ LaunchTask(c) \/ AdmitTask(c) \/ EndTask(c)
      PROVE  Same
  BY <1>18 DEF PublishTask, LaunchTask, AdmitTask, EndTask
<1>19. ASSUME NEW c \in Client, StopTask(c)
      PROVE  Same
  BY <1>19 DEF StopTask
<1>20. ASSUME NEW c \in Client, KillClient(c) PROVE OrderlyInv'
  BY <1>20 DEF KillClient
<1>21. ASSUME NEW n \in Service, StopService(n) PROVE OrderlyInv'
  BY <1>21 DEF StopService
<1>22. CASE Reap
  BY <1>22 DEF Reap, Present
<1>23. CASE RequestStop
  BY <1>23 DEF RequestStop, AsksToStop
<1>24. CASE TasksStopped
  BY <1>24 DEF TasksStopped
<1>25. CASE EndRelease
  <2>1. lease = {} => used = {}
    BY <1>25 DEF EndRelease, WantedBy
  <2>2. lease' = {} => used = {}
    BY <1>25, <2>1 DEF EndRelease, ForgottenClaims
  <2> QED BY <1>25, <2>1, <2>2 DEF EndRelease, ForgottenClaims, KeepsController
<1>26. ASSUME CloseStop
      PROVE  Same
  BY <1>26 DEF CloseStop
<1>27. CASE Announce
  BY <1>27 DEF Announce
<1>28. CASE EnterStop
  BY <1>28 DEF EnterStop
<1>29. CASE KillStop
  BY <1>29 DEF KillStop
<1>30. CASE LoseController
  BY <1>30 DEF LoseController
<1>31. CASE UNCHANGED vars
  BY <1>31, <1>1 DEF vars
<1> QED
  BY <1>1, <1>2, <1>3, <1>4, <1>5, <1>6, <1>7, <1>8, <1>9, <1>10, <1>11, <1>12, <1>13, <1>14,
     <1>15, <1>16, <1>17, <1>18, <1>19, <1>20, <1>21, <1>22, <1>23, <1>24, <1>25, <1>26, <1>27,
     <1>28, <1>29, <1>30, <1>31
     DEF Next, AcquireNext, RunNext, TaskNext, ReleaseNext, Quiescent

----------------------------------------------------------------------------
(* The invariants.                                                         *)

\* Nothing has happened yet.
LEMMA InitInv == Init => SharedInv /\ StopInv /\ OrderlyInv
<1> SUFFICES ASSUME Init PROVE SharedInv /\ StopInv /\ OrderlyInv
  OBVIOUS
<1> USE DEF Init
<1>1. TypeOK
  <2>1. {forced, stopRequest, stopPending, controller} \subseteq BOOLEAN
    BY Zenon
  <2> QED BY <2>1 DEF TypeOK
<1>2. GateInv /\ ReleaseInv /\ TicketInv /\ PlanInv
  BY DEF GateInv, ReleaseInv, TicketInv, PlanInv, PlanIsFirst
<1>3. TaskInv /\ ClaimInv /\ ServeInv
  BY DEF TaskInv, ClaimInv, ServeInv, Attached, Runs, LeaseTaskAlive
<1>4. StopInv /\ OrderlyInv
  BY DEF StopInv, OrderlyInv, NoClaimNoService
<1> QED BY <1>1, <1>2, <1>3, <1>4 DEF SharedInv, BaseInv

\* The gate, releases, tickets and plans, in every environment.
THEOREM BaseInvariant == Spec => []BaseInv
<1>1. BaseInv /\ [Next]_vars => BaseInv'
  BY TypeStep, GateStep, ReleaseStep, TicketStep, PlanStep DEF BaseInv
<1> QED BY InitInv, <1>1, PTL DEF Spec, SharedInv

\* Tasks, claims and what stands behind them, where anchors end in time.
THEOREM SharedInvariant ==
  ASSUME ~LateAnchor
  PROVE  Spec => []SharedInv
<1>1. SharedInv /\ [Next]_vars => SharedInv'
  <2> SUFFICES ASSUME SharedInv, [Next]_vars PROVE SharedInv'
    OBVIOUS
  <2>1. BaseInv'
    BY TypeStep, GateStep, ReleaseStep, TicketStep, PlanStep DEF SharedInv, BaseInv
  <2>2. TaskInv' /\ ClaimInv'
    BY TaskStep, ClaimStep DEF SharedInv, BaseInv
  <2>3. ServeInv'
    BY ServeStep DEF SharedInv
  <2> QED BY <2>1, <2>2, <2>3 DEF SharedInv
<1> QED BY InitInv, <1>1, PTL DEF Spec

----------------------------------------------------------------------------
(* The properties.                                                         *)

\* Every variable keeps its type, whatever is lost.
THEOREM TypeCorrect == Spec => []TypeOK
<1>1. BaseInv => TypeOK
  BY DEF BaseInv
<1> QED BY BaseInvariant, <1>1, PTL

\* A running task has an attached claim: it is served, not halted.
LEMMA RunningIsServed ==
  ASSUME SharedInv, NEW c \in Client, Runs(c) PROVE c \in lease /\ Serves(c)
  BY DEF SharedInv, TaskInv, ClaimInv, ServeInv, Attached, Halted, LeaseTaskAlive, Runs

\* No client that exits, is refused, is killed or replaces a fingerprint takes a
\* service away from somebody's running task.
THEOREM ServicesStay ==
  ASSUME ~LateAnchor
  PROVE  Spec => []TasksKeepServices
<1>1. SharedInv => TasksKeepServices
  BY RunningIsServed DEF TasksKeepServices, Serves
<1> QED BY SharedInvariant, <1>1, PTL

\* A service asked for exclusively is never shared by two running tasks.
THEOREM ExclusiveAlone ==
  ASSUME ~LateAnchor
  PROVE  Spec => []ExclusiveIsAlone
<1>1. SharedInv => ExclusiveIsAlone
  BY RunningIsServed DEF ExclusiveIsAlone, SharedInv, ClaimInv
<1> QED BY SharedInvariant, <1>1, PTL

\* The plan a running task was started from is for the inputs it asked for.
THEOREM InputsStay ==
  ASSUME ~LateAnchor
  PROVE  Spec => []InputsAgree
<1>1. SharedInv => InputsAgree
  BY RunningIsServed DEF InputsAgree, Serves
<1> QED BY SharedInvariant, <1>1, PTL

\* Once `stop` has returned nothing that began before it is left or comes back,
\* unless a holder was lost before the scope had a plan.
THEOREM StopFinal ==
  ASSUME ~LateAnchor, ~FirstLoss
  PROVE  Spec => []StopIsFinal
<1>1. BaseInv /\ StopInv /\ [Next]_vars => StopInv'
  BY StopStep
<1>2. SharedInv /\ StopInv => StopIsFinal
  <2> SUFFICES ASSUME SharedInv, StopInv PROVE StopIsFinal
    OBVIOUS
  <2>1. \A c \in lease : seen[c] >= finished
    BY DEF StopInv
  <2>2. \A c \in Client : Runs(c) => c \in lease
    BY RunningIsServed
  <2> QED BY <2>1, <2>2 DEF StopIsFinal, StopInv
<1>3. Init => StopInv
  BY InitInv
<1> QED BY BaseInvariant, SharedInvariant, <1>1, <1>2, <1>3, PTL DEF Spec

\* A holder that is not killed leaves the gate and nothing runs without a claim;
\* neither does a request to stop stand in the way of a client that saw none.
LEMMA OrderlyInvariant ==
  ASSUME ~HolderLoss
  PROVE  Spec => [](BaseInv /\ OrderlyInv)
<1>1. BaseInv /\ OrderlyInv /\ [Next]_vars => OrderlyInv'
  BY OrderlyStep
<1>2. Init => OrderlyInv
  BY InitInv
<1> QED BY BaseInvariant, <1>1, <1>2, PTL DEF Spec

\* The last client to leave has stopped every service and the controller.
THEOREM ServicesEnd ==
  ASSUME ~HolderLoss
  PROVE  Spec => []NoClaimNoService
<1>1. OrderlyInv => NoClaimNoService
  BY DEF OrderlyInv
<1> QED BY OrderlyInvariant, <1>1, PTL

\* stop-request.json refuses an acquired client only when a stop was announced
\* after the client looked.
THEOREM RequestsAreStops ==
  ASSUME ~HolderLoss
  PROVE  Spec => []StopRequestIsAStop
<1>1. BaseInv /\ OrderlyInv => StopRequestIsAStop
  BY DEF BaseInv, TypeOK, OrderlyInv, StopRequestIsAStop, Cancelled
<1> QED BY OrderlyInvariant, <1>1, PTL
=============================================================================
