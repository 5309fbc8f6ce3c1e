---------------------------- MODULE UpdateCache ----------------------------
(***************************************************************************)
(* The pool of disposable update candidates (src/nix/control/               *)
(* update_cache.go).  Every operation runs under the pool gate; what is not *)
(* under it is what others do meanwhile: processes exit, containers come    *)
(* and go, the engine's context moves to another daemon.  Runs of an older  *)
(* runtime (schema 1) share the pool with runs of this one.                 *)
(***************************************************************************)
EXTENDS Integers, FiniteSets

CONSTANTS Candidate,  \* names of candidate directories in the pool
          Update,     \* update runs
          Daemon,     \* daemons the one engine path may reach
          CacheLimit, \* idle candidates kept before the byte limit bites
          MaxSwitches \* context changes of the engine in one behaviour
ASSUME CacheAssumption ==
  /\ MaxSwitches \in Nat /\ CacheLimit \in Nat
  /\ Daemon \cap {"none", "unbound", "down"} = {}

VARIABLES slots,    \* the candidate directories and their receipts
          upd,      \* the runs: supervisor, inherited lease, adapter
          pods,     \* daemons on which a container mounts the candidate
          context,  \* the daemon the engine path reaches now
          switches, \* context changes so far
          cacheGate \* the collection that holds the pool gate

cacheVars == <<slots, upd, pods, context, switches, cacheGate>>

NoUser == "none"
NoCandidate == [is |-> "absent", schema |-> 2, engine |-> NoUser, guard |-> "no",
           due |-> FALSE]   \* complete, or expired
NobodyIn == [by |-> NoUser, all |-> FALSE, seen |-> [c \in Candidate |-> "unseen"]]

CacheTypeOK ==
  /\ slots \in [Candidate -> [is : {"absent", "whole", "torn"}, schema : {1, 2},
                             engine : Daemon \cup {NoUser, "unbound"},
                             guard : {"no", "named", "installed"}, due : BOOLEAN]]
  /\ upd \in [Update -> [at : {"new", "start", "work", "finish", "last", "end"},
                         c : Candidate \cup {NoUser}, old : BOOLEAN,
                         mode : {"EX", "SH"}, child : BOOLEAN,
                         adapter : {NoUser, "closed", "leased"}]]
  /\ pods \in [Candidate -> SUBSET Daemon]
  /\ context \in Daemon \cup {"down"} /\ switches \in 0..MaxSwitches
  /\ cacheGate.by \in Update \cup {NoUser, "prune"} /\ cacheGate.all \in BOOLEAN
  /\ cacheGate.seen \in [Candidate -> {"unseen", "skip", "active", "error",
                                  "bound", "listed", "idle"}]

CacheInit ==
  /\ slots = [c \in Candidate |-> NoCandidate]
  /\ upd \in [Update -> [at : {"new"}, c : {NoUser}, old : BOOLEAN, mode : {"SH"},
                         child : {FALSE}, adapter : {NoUser}]]
  /\ pods = [c \in Candidate |-> {}]
  /\ context \in Daemon /\ switches = 0
  /\ cacheGate = NobodyIn

----------------------------------------------------------------------------
\* The description the supervisor opened and its children inherited.
Inherited(u, c) == upd[u].c = c /\ (upd[u].at \in {"work", "finish"} \/ upd[u].child)
Leased(c) == \E u \in Update : Inherited(u, c)
                 \/ (upd[u].c = c /\ upd[u].adapter = "leased")
Used(c) == Leased(c) \/ pods[c] # {}
GateFree == cacheGate.by = NoUser

\* updateProtectLegacy: the witness is named in the receipt before its script
\* is installed; an interruption leaves only the name.
Protect(r) == {[r EXCEPT !.guard = "installed"]}
Interrupted(r) == {[r EXCEPT !.guard = IF @ = "no" THEN "named" ELSE @]}

\* updateContainers up to its first look at the daemon.
EngineVerdict(c) ==
  CASE slots[c].engine = NoUser -> "idle"
    [] slots[c].engine = "unbound" -> "error"
    [] slots[c].engine = context -> "bound"
    [] OTHER -> "error"

\* Mutated form: the daemon is not compared again after the inventory.
Recheck_Wrong(c) == "idle"

\* The second checkEngine, after the inventory.
Recheck(c) == IF slots[c].engine = context THEN "idle" ELSE "error"

\* An inventory with no pause in it, as a start makes under the gate.
NoContainers(c) ==
  \/ slots[c].engine = NoUser
  \/ slots[c].engine = context /\ context \notin pods[c]

----------------------------------------------------------------------------
\* updateCollect takes the gate: before and after every run, and for `prune`.
CollectBegin(who, all) ==
  /\ GateFree
  /\ \/ who \in Update /\ ~upd[who].old /\ upd[who].at \in {"new", "last"} /\ ~all
     \/ who = "prune"
  /\ cacheGate' = [NobodyIn EXCEPT !.by = who, !.all = all]
  /\ UNCHANGED <<slots, upd, pods, context, switches>>

\* The receipt as the collection leaves it before it looks at the lease.
Guarded(c) == IF slots[c].schema = 1 THEN Protect(slots[c]) ELSE {slots[c]}

\* One entry: unreadable ones are passed over, a busy lease means active.
CollectLease(c) ==
  /\ ~GateFree /\ cacheGate.seen[c] = "unseen"
  /\ \E r \in IF slots[c].is = "whole" THEN Guarded(c) ELSE {slots[c]} :
       slots' = [slots EXCEPT ![c] = r]
  /\ cacheGate' = [cacheGate EXCEPT !.seen[c] =
                CASE slots[c].is # "whole" -> "skip"
                  [] Leased(c) -> "active"
                  [] OTHER -> EngineVerdict(c)]
  /\ UNCHANGED <<upd, pods, context, switches>>

\* The containers of the daemon the engine reaches now, then its identity again.
CollectInventory(c) ==
  /\ \/ /\ cacheGate.seen[c] = "bound"
        /\ cacheGate' = [cacheGate EXCEPT !.seen[c] = CASE context = "down" -> "error"
                                              [] context \in pods[c] -> "active"
                                              [] OTHER -> "listed"]
     \/ /\ cacheGate.seen[c] = "listed"
        /\ cacheGate' = [cacheGate EXCEPT !.seen[c] = Recheck(c)]
  /\ UNCHANGED <<slots, upd, pods, context, switches>>

Idle == {c \in Candidate : cacheGate.seen[c] = "idle"}
Judged == ~GateFree /\ \A c \in Candidate : cacheGate.seen[c] \notin {"unseen", "bound", "listed"}
Eligible(c) ==
  /\ cacheGate.seen[c] = "idle"
  /\ cacheGate.all \/ slots[c].due \/ Cardinality(Idle) > CacheLimit

\* updateRemove, which may stop halfway and leave an unreadable entry.
CollectRemove(c) ==
  /\ Judged /\ Eligible(c)
  /\ \/ /\ slots' = [slots EXCEPT ![c] = NoCandidate]
        /\ cacheGate' = [cacheGate EXCEPT !.seen[c] = "skip"]
     \/ /\ slots' = [slots EXCEPT ![c].is = "torn"]
        /\ cacheGate' = [cacheGate EXCEPT !.seen[c] = "error"]
  /\ UNCHANGED <<upd, pods, context, switches>>

\* The gate is released; a run goes on whatever its collection could not judge.
CollectEnd ==
  /\ Judged /\ \A c \in Candidate : ~Eligible(c)
  /\ upd' = IF cacheGate.by \in Update
            THEN [upd EXCEPT ![cacheGate.by].at = IF @ = "new" THEN "start" ELSE "end"]
            ELSE upd
  /\ cacheGate' = NobodyIn
  /\ UNCHANGED <<slots, pods, context, switches>>

\* A collector killed while it protected an entry of the older schema.
CollectKilled(c) ==
  /\ cacheGate.by = "prune" /\ cacheGate.seen[c] = "unseen"
  /\ slots[c].is = "whole" /\ slots[c].schema = 1
  /\ \E r \in Interrupted(slots[c]) : slots' = [slots EXCEPT ![c] = r]
  /\ cacheGate' = NobodyIn
  /\ UNCHANGED <<upd, pods, context, switches>>

----------------------------------------------------------------------------
\* MkdirTemp: a name no survivor of an earlier candidate knows.
Fresh(c) ==
  /\ slots[c].is = "absent" /\ ~Used(c)
  /\ \A v \in Update : upd[v].c = c => upd[v].at \in {"last", "end"} /\ upd[v].adapter = NoUser

EnterGate(u, c, r, mode) ==
  /\ slots' = [slots EXCEPT ![c] = r]
  /\ upd' = [upd EXCEPT ![u].at = "work", ![u].c = c, ![u].mode = mode]
  /\ UNCHANGED <<pods, context, switches, cacheGate>>

\* Mutated form: a resumed receipt is migrated before its engines are inspected.
Resumable_Wrong(c) == slots[c].is = "whole" /\ ~Leased(c)

\* Mutated form: a resume tries the shared lock it keeps, not the exclusive one.
Admitted_Wrong(c) == \A v \in Update : Inherited(v, c) => upd[v].mode = "SH"

\* flock EX|NB on the lease of a candidate that is resumed.
Admitted(c) == ~Leased(c)

\* updateStart on a retained candidate: exclusive lease, no containers.
Resumable(c) == slots[c].is = "whole" /\ Admitted(c) /\ NoContainers(c)

\* Only the new exclusive owner migrates a receipt, and drops its guard.
StartUpdate(u, c) ==
  /\ GateFree /\ ~upd[u].old /\ upd[u].at = "start"
  /\ \/ Fresh(c) /\ EnterGate(u, c, [NoCandidate EXCEPT !.is = "whole"], "SH")
     \/ /\ Resumable(c)
        /\ EnterGate(u, c, [slots[c] EXCEPT !.schema = 2, !.guard = "no"], "SH")

\* A refused resume ends the run.
RefuseUpdate(u, c) ==
  /\ GateFree /\ ~upd[u].old /\ upd[u].at = "start"
  /\ slots[c].is # "absent" /\ ~Resumable(c)
  /\ upd' = [upd EXCEPT ![u].at = "end"]
  /\ UNCHANGED <<slots, pods, context, switches, cacheGate>>

\* The older runtime keeps the exclusive lock for its whole life and checks
\* containers with whatever daemon its engines reach (testdata/update-cache-v1.go).
OldInventory(c) ==
  CASE slots[c].guard # "no" -> slots[c].guard = "installed" /\ slots[c].engine = NoUser
    [] slots[c].engine = NoUser -> TRUE
    [] OTHER -> context # "down" /\ context \notin pods[c]
OldStart(u, c) ==
  /\ GateFree /\ upd[u].old /\ upd[u].at = "new"
  /\ \/ Fresh(c) /\ EnterGate(u, c, [NoCandidate EXCEPT !.is = "whole", !.schema = 1], "EX")
     \/ /\ slots[c].is = "whole" /\ slots[c].schema = 1 /\ ~Leased(c) /\ OldInventory(c)
        /\ EnterGate(u, c, slots[c], "EX")
OldCollect(c) ==
  /\ GateFree /\ \E u \in Update : upd[u].old
  /\ slots[c].is = "whole" /\ slots[c].schema = 1 /\ ~Leased(c) /\ OldInventory(c)
  /\ slots' = [slots EXCEPT ![c] = NoCandidate]
  /\ UNCHANGED <<upd, pods, context, switches, cacheGate>>

----------------------------------------------------------------------------
\* The run's command starts processes that inherit its lease description.
SpawnChild(u) ==
  /\ upd[u].at = "work" /\ ~upd[u].child /\ upd' = [upd EXCEPT ![u].child = TRUE]
  /\ UNCHANGED <<slots, pods, context, switches, cacheGate>>

\* updateRun rewrites the receipt under the gate, then closes its descriptor; a
\* killed supervisor does neither.  An older one keeps only the fields it knows.
CommandEnds(u) ==
  /\ upd[u].at = "work" /\ upd' = [upd EXCEPT ![u].at = "finish"]
  /\ UNCHANGED <<slots, pods, context, switches, cacheGate>>
FinishUpdate(u) ==
  /\ GateFree /\ upd[u].at = "finish"
  /\ \E complete \in BOOLEAN : slots' = [slots EXCEPT ![upd[u].c].due = complete]
  /\ upd' = [upd EXCEPT ![u].at = IF upd[u].old THEN "end" ELSE "last"]
  /\ UNCHANGED <<pods, context, switches, cacheGate>>
SupervisorDies(u) ==
  /\ upd[u].at \in {"work", "finish"} /\ upd' = [upd EXCEPT ![u].at = "end"]
  /\ UNCHANGED <<slots, pods, context, switches, cacheGate>>
ProcessesExit(u) ==
  /\ \/ upd[u].child /\ upd' = [upd EXCEPT ![u].child = FALSE]
     \/ upd[u].adapter # NoUser /\ upd' = [upd EXCEPT ![u].adapter = NoUser]
  /\ UNCHANGED <<slots, pods, context, switches, cacheGate>>

\* A detached service whose backend closed the inherited descriptors.
Detach(u) ==
  /\ upd[u].child /\ upd[u].adapter = NoUser
  /\ upd' = [upd EXCEPT ![u].adapter = "closed"]
  /\ UNCHANGED <<slots, pods, context, switches, cacheGate>>

\* Mutated form: the adapter takes the receipt over as well as the lease.
Forwarded_Wrong(r) == {[r EXCEPT !.schema = 2]}

\* The receipt after a schema-1 lease was shared.
Forwarded(r) == IF r.schema = 1 THEN Protect(r) \cup Interrupted(r) ELSE {r}

\* forwardUpdateLease: with the run's own description still open (verified by
\* inode) an old exclusive lock becomes shared first; then a lease of its own.
ForwardLease(u) ==
  LET c == upd[u].c
      mode == IF upd[u].child /\ slots[c].schema = 1 THEN "SH" ELSE upd[u].mode IN
  /\ GateFree /\ upd[u].adapter = "closed" /\ slots[c].is = "whole"
  /\ \A v \in Update \ {u} : Inherited(v, c) => upd[v].mode = "SH"
  /\ Inherited(u, c) => mode = "SH"
  /\ \E r \in Forwarded(slots[c]) :
       /\ slots' = [slots EXCEPT ![c] = r]
       /\ upd' = [upd EXCEPT ![u].mode = mode,
                    ![u].adapter = IF r.schema = 1 /\ r.guard # "installed"
                                   THEN NoUser ELSE "leased"]
  /\ UNCHANGED <<pods, context, switches, cacheGate>>

\* updateCacheAction "engine", called by a process of the run before it creates
\* a container: this runtime binds the daemon, the older one only the path.
RegisterEngine(u) ==
  LET c == upd[u].c IN
  /\ GateFree /\ c # NoUser /\ Inherited(u, c) /\ slots[c].is = "whole"
  /\ slots[c].engine = NoUser /\ context # "down"
  /\ upd[u].old <=> slots[c].schema = 1
  /\ slots' = [slots EXCEPT ![c].engine = IF upd[u].old THEN "unbound" ELSE context]
  /\ UNCHANGED <<upd, pods, context, switches, cacheGate>>
CreateContainer(u) ==
  LET c == upd[u].c IN
  /\ c # NoUser /\ Inherited(u, c) /\ slots[c].engine # NoUser /\ context # "down"
  /\ pods' = [pods EXCEPT ![c] = @ \cup {context}]
  /\ UNCHANGED <<slots, upd, context, switches, cacheGate>>
ContainerGone(c) ==
  /\ pods[c] # {} /\ pods' = [pods EXCEPT ![c] = {}]
  /\ UNCHANGED <<slots, upd, context, switches, cacheGate>>

\* The environment: time passes, the engine's context moves or goes away.
SwitchContext ==
  /\ switches < MaxSwitches /\ switches' = switches + 1
  /\ \E d \in (Daemon \cup {"down"}) \ {context} : context' = d
  /\ UNCHANGED <<slots, upd, pods, cacheGate>>
Expire(c) ==
  /\ slots[c].is = "whole" /\ ~slots[c].due
  /\ slots' = [slots EXCEPT ![c].due = TRUE]
  /\ UNCHANGED <<upd, pods, context, switches, cacheGate>>

CacheNext ==
  \/ \E who \in Update \cup {"prune"}, all \in BOOLEAN : CollectBegin(who, all)
  \/ CollectEnd
  \/ SwitchContext
  \/ \E c \in Candidate : \/ CollectLease(c) \/ CollectInventory(c) \/ CollectRemove(c)
                          \/ CollectKilled(c) \/ OldCollect(c) \/ ContainerGone(c)
                          \/ Expire(c)
  \/ \E u \in Update : \/ SpawnChild(u) \/ CommandEnds(u) \/ FinishUpdate(u)
                       \/ SupervisorDies(u) \/ ProcessesExit(u) \/ Detach(u)
                       \/ ForwardLease(u) \/ RegisterEngine(u) \/ CreateContainer(u)
                       \/ \E c \in Candidate : StartUpdate(u, c) \/ RefuseUpdate(u, c)
                                               \/ OldStart(u, c)
CacheSpec == CacheInit /\ [][CacheNext]_cacheVars

----------------------------------------------------------------------------
\* A candidate some process holds or some container mounts, on whatever daemon,
\* is removed by no collection of this runtime, and by none of the older runtime
\* once a guard was published for it.
UsedCandidateKept ==
  [][\A c \in Candidate :
       slots[c].is = "whole" /\ slots'[c].is # "whole" /\ Used(c)
         => slots[c].schema = 1 /\ slots[c].guard = "no"]_cacheVars

\* Whatever the engine's context does, no collection of either runtime removes a
\* candidate that a process still holds.
HeldCandidateKept ==
  [][\A c \in Candidate :
       slots[c].is = "whole" /\ slots'[c].is # "whole" => ~Leased(c)]_cacheVars

\* Two supervisors never work on one candidate, whichever runtimes they are of.
OneSupervisor ==
  \A u, v \in Update : \A c \in Candidate :
    u # v /\ upd[u].c = c /\ upd[v].c = c
      => ~(upd[u].at \in {"work", "finish"} /\ upd[v].at \in {"work", "finish"})

\* The receipt of a run of the older runtime keeps the older schema for as long
\* as that run may still rewrite it: sharing the lease never takes it over.
LegacyOwnsItsReceipt ==
  \A u \in Update, c \in Candidate :
    upd[u].old /\ Inherited(u, c) /\ slots[c].is = "whole" => slots[c].schema = 1

\* A receipt of this schema never names an engine without the daemon it was
\* bound to, through any mixture of migration and registration.
EnginesAreBound ==
  \A c \in Candidate :
    slots[c].is = "whole" /\ slots[c].schema = 2 => slots[c].engine # "unbound"

\* What an update run relies on survives everything beside it: its candidate is
\* kept while it is used, one supervisor at most works on it, a run of the older
\* schema keeps its receipt, and a resumed engine is one this run has started.
CacheKeepsRuns ==
  /\ [](OneSupervisor /\ LegacyOwnsItsReceipt /\ EnginesAreBound)
  /\ UsedCandidateKept /\ HeldCandidateKept
=============================================================================
