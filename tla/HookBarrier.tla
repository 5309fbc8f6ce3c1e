----------------------------- MODULE HookBarrier -----------------------------
(***************************************************************************)
(* The lifetime of the commands under one Git hook                          *)
(* (src/nix/control/hook_barrier.go, hookAction and hookRun in              *)
(* hook_common.go).  The outer hook runs Lefthook, Lefthook starts callback *)
(* clients, each client starts a supervisor that runs the task in its own   *)
(* process group.  Lefthook may kill a client at any moment; its supervisor *)
(* goes on, sees that its owner is gone and stops the task.  A lock that    *)
(* client and supervisor share tells the outer hook when all have ended.    *)
(***************************************************************************)
EXTENDS Integers, FiniteSets

CONSTANT Callback \* the callback clients Lefthook may start

VARIABLES outer,     \* the outer hook
          lefthook,  \* the process it runs
          asked,     \* signals the outer hook was sent, 0 or 1
          callers,   \* the clients
          guard,     \* their supervisors
          jobs,      \* their tasks, group and all
          barrier,   \* the barrier file says "closed"
          barrierOf, \* who holds the barrier: clients and supervisors shared
          sawSize    \* what each client found in the barrier file

barrierVars == <<outer, lefthook, asked, callers, guard, jobs, barrier, barrierOf, sawSize>>

BarrierTypeOK ==
  /\ outer \in {"runs", "drains", "marks", "succeeded", "failed", "undrained", "killed"}
  /\ lefthook \in {"runs", "cancels", "passed", "failed"} /\ asked \in 0..1
  /\ callers \in [Callback -> {"none", "opened", "locked", "checked", "waits", "ended"}]
  /\ guard \in [Callback -> {"none", "runs", "stops", "ended"}]
  /\ jobs \in [Callback -> {"none", "runs", "stubborn", "ended"}]
  /\ barrier \in BOOLEAN
  /\ barrierOf \subseteq (Callback \X {"client", "guard"})
  /\ sawSize \in [Callback -> {"unread", "empty", "closed"}]

BarrierInit ==
  /\ outer = "runs" /\ lefthook = "runs" /\ asked = 0
  /\ callers = [c \in Callback |-> "none"] /\ guard = [c \in Callback |-> "none"]
  /\ jobs = [c \in Callback |-> "none"] /\ barrier = FALSE /\ barrierOf = {}
  /\ sawSize = [c \in Callback |-> "unread"]

----------------------------------------------------------------------------
\* Lefthook and its clients.  hookCallbackLease opens the file, takes the shared
\* lock without waiting, and only then asks whether the scope is closed.
StartClient(c) ==
  /\ lefthook = "runs" /\ callers[c] = "none" /\ callers' = [callers EXCEPT ![c] = "opened"]
  /\ UNCHANGED <<outer, lefthook, asked, guard, jobs, barrier, barrierOf, sawSize>>

\* The size as read at this moment.
Size == IF barrier THEN "closed" ELSE "empty"
\* Mutated form: the file is inspected before it is locked.
Inspects_Wrong(c) == callers[c] = "opened"
\* The file is inspected while its lock is held.
Inspects(c) == callers[c] = "locked"

InspectBarrier(c) ==
  /\ Inspects(c) /\ sawSize[c] = "unread"
  /\ sawSize' = [sawSize EXCEPT ![c] = Size]
  /\ callers' = [callers EXCEPT ![c] = IF Size = "closed" THEN "ended"
                                     ELSE IF callers[c] = "locked" THEN "checked" ELSE "opened"]
  /\ barrierOf' = IF Size = "closed" THEN barrierOf \ {<<c, "client">>} ELSE barrierOf
  /\ UNCHANGED <<outer, lefthook, asked, guard, jobs, barrier>>
LockBarrier(c) ==
  /\ callers[c] = "opened"
  /\ IF outer = "marks" THEN callers' = [callers EXCEPT ![c] = "ended"] /\ UNCHANGED barrierOf
     ELSE /\ callers' = [callers EXCEPT ![c] = IF sawSize[c] = "unread" THEN "locked" ELSE "checked"]
          /\ barrierOf' = barrierOf \cup {<<c, "client">>}
  /\ UNCHANGED <<outer, lefthook, asked, guard, jobs, barrier, sawSize>>
\* The supervisor inherits the lease; hookExec keeps it from the task.
StartSupervisor(c) ==
  /\ callers[c] = "checked" /\ callers' = [callers EXCEPT ![c] = "waits"]
  /\ guard' = [guard EXCEPT ![c] = "runs"] /\ jobs' = [jobs EXCEPT ![c] = "runs"]
  /\ barrierOf' = barrierOf \cup {<<c, "guard">>}
  /\ UNCHANGED <<outer, lefthook, asked, barrier, sawSize>>
\* A client ends with its supervisor, or at any moment when its group is killed.
ClientEnds(c) ==
  /\ callers[c] \in {"opened", "locked", "checked", "waits"}
  /\ callers' = [callers EXCEPT ![c] = "ended"] /\ barrierOf' = barrierOf \ {<<c, "client">>}
  /\ UNCHANGED <<outer, lefthook, asked, guard, jobs, barrier, sawSize>>

\* The task finishes, or ignores the polite signal.
TaskEnds(c) ==
  /\ jobs[c] = "runs" /\ jobs' = [jobs EXCEPT ![c] = "ended"]
  /\ UNCHANGED <<outer, lefthook, asked, callers, guard, barrier, barrierOf, sawSize>>

\* Mutated form: the supervisor waits for its task only.
OwnerGone_Wrong(c) == FALSE
\* The pipe to the client closes when the client is gone, however it went.
OwnerGone(c) == callers[c] = "ended"

\* hookExec: the owner is gone or a signal came; the whole group is told to stop.
SupervisorStops(c) ==
  /\ guard[c] = "runs" /\ OwnerGone(c) /\ guard' = [guard EXCEPT ![c] = "stops"]
  /\ jobs' \in {jobs, [jobs EXCEPT ![c] = IF @ = "runs" THEN "stubborn" ELSE @]}
  /\ UNCHANGED <<outer, lefthook, asked, callers, barrier, barrierOf, sawSize>>
\* At the deadline the group is killed; the supervisor ends after its last member.
SupervisorKills(c) ==
  /\ guard[c] = "stops" /\ jobs[c] \in {"runs", "stubborn"}
  /\ jobs' = [jobs EXCEPT ![c] = "ended"]
  /\ UNCHANGED <<outer, lefthook, asked, callers, guard, barrier, barrierOf, sawSize>>
SupervisorEnds(c) ==
  /\ guard[c] \in {"runs", "stops"} /\ jobs[c] = "ended"
  /\ guard' = [guard EXCEPT ![c] = "ended"] /\ barrierOf' = barrierOf \ {<<c, "guard">>}
  /\ UNCHANGED <<outer, lefthook, asked, callers, jobs, barrier, sawSize>>

----------------------------------------------------------------------------
\* The outer hook.  A signal is forwarded as SIGINT; after eight seconds
\* Lefthook's group is killed.
OuterSignalled ==
  /\ outer = "runs" /\ asked = 0 /\ asked' = 1
  /\ lefthook' = IF lefthook = "runs" THEN "cancels" ELSE lefthook
  /\ UNCHANGED <<outer, callers, guard, jobs, barrier, barrierOf, sawSize>>
LefthookEnds ==
  /\ lefthook \in {"runs", "cancels"}
  /\ lefthook' \in (IF lefthook = "runs" THEN {"passed", "failed"} ELSE {"failed"})
  /\ lefthook' = "passed" => \A c \in Callback : callers[c] \in {"none", "ended"}
  /\ UNCHANGED <<outer, asked, callers, guard, jobs, barrier, barrierOf, sawSize>>
LefthookReaped ==
  /\ outer = "runs" /\ lefthook \in {"passed", "failed"} /\ outer' = "drains"
  /\ UNCHANGED <<lefthook, asked, callers, guard, jobs, barrier, barrierOf, sawSize>>

\* hookDrainCallbacks polls for the lock of everybody, writes the marker under
\* it, and lets it go when the file is closed.
DrainLocks ==
  /\ outer = "drains" /\ barrierOf = {} /\ outer' = "marks"
  /\ UNCHANGED <<lefthook, asked, callers, guard, jobs, barrier, barrierOf, sawSize>>

\* Mutated form: a hook whose callbacks did not end reports Lefthook's result.
Result_Wrong(drained) == IF lefthook = "passed" /\ asked = 0 THEN "succeeded" ELSE "failed"
\* Success needs Lefthook's success and the drained barrier.
Result(drained) ==
  IF ~drained THEN "undrained"
  ELSE IF lefthook = "passed" /\ asked = 0 THEN "succeeded" ELSE "failed"

Mark ==
  /\ outer = "marks" /\ barrier' = TRUE /\ outer' = Result(TRUE)
  /\ UNCHANGED <<lefthook, asked, callers, guard, jobs, barrierOf, sawSize>>
DrainExpires ==
  /\ outer = "drains" /\ barrierOf # {} /\ outer' = Result(FALSE)
  /\ UNCHANGED <<lefthook, asked, callers, guard, jobs, barrier, barrierOf, sawSize>>
OuterKilled ==
  /\ outer \in {"runs", "drains", "marks"} /\ outer' = "killed"
  /\ UNCHANGED <<lefthook, asked, callers, guard, jobs, barrier, barrierOf, sawSize>>

BarrierNext ==
  \/ OuterSignalled \/ LefthookEnds \/ LefthookReaped \/ DrainLocks \/ Mark \/ DrainExpires
  \/ OuterKilled
  \/ \E c \in Callback : \/ StartClient(c) \/ InspectBarrier(c) \/ LockBarrier(c)
                         \/ StartSupervisor(c) \/ ClientEnds(c) \/ TaskEnds(c)
                         \/ SupervisorStops(c) \/ SupervisorKills(c) \/ SupervisorEnds(c)
\* Supervisors are scheduled and their deadline comes.
BarrierFairness ==
  \A c \in Callback : WF_barrierVars(SupervisorStops(c)) /\ WF_barrierVars(SupervisorKills(c))
BarrierSpec == BarrierInit /\ [][BarrierNext]_barrierVars /\ BarrierFairness

----------------------------------------------------------------------------
\* A hook that drained its callbacks has no task of theirs running, and none
\* starts later, however late a client reads the barrier file.
DrainedIsQuiet ==
  outer \in {"succeeded", "failed"} => \A c \in Callback : jobs[c] \in {"none", "ended"}

\* Git goes on with the commit or the push only over ended callbacks.
SuccessIsQuiet ==
  outer = "succeeded" => /\ lefthook = "passed"
                         /\ \A c \in Callback : guard[c] \in {"none", "ended"}

\* A task whose client is gone ends: the supervisor neither follows its client
\* into death nor lets the task go on.
OrphansEnd == \A c \in Callback : (callers[c] = "ended" /\ jobs[c] = "runs") ~> jobs[c] = "ended"

\* A hook that reports an end has no callback left, and one that reports success
\* has seen each of them, and Lefthook, end.
CallbacksAreOver ==
  /\ DrainedIsQuiet /\ SuccessIsQuiet
=============================================================================
