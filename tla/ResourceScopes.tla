-------------------------- MODULE ResourceScopes --------------------------
(***************************************************************************)
(* Worktree scopes that share repository resources: a private network and a *)
(* data service with its volume (src/nix/control/scopes.go, volumes.go,     *)
(* bridge.go and their callers in main.go).  Each scope has a gate; a       *)
(* client holds its worktree's gate while it visits the resources one by    *)
(* one, and a resource learns of its users only through the lease file of   *)
(* the parent, which it locks for a moment to see whether anybody else does.*)
(***************************************************************************)
EXTENDS Integers, Sequences

CONSTANTS Client,     \* clients, each a `run` of one worktree
          Tree,       \* worktree scopes
          TreeOf,     \* the worktree of each client
          MaxCrashes, \* clients killed in one behaviour
          SlowProbe   \* whether another step may fall between lock and close

VARIABLES scopeGates, \* holder of each scope's gate
          where,      \* where each client is, and the resource it visits
          claimFile,  \* its lease file: locked by the client, left behind, gone
          claims,     \* parent-linked claims recorded in each resource scope
          unseen,     \* claims the visitor of a resource has yet to look at
          probing,    \* the lease each visitor holds locked for a moment
          watched,    \* the lease a status report holds locked for a moment
          up,         \* worktree services, network, data service: running
          volume,     \* stored compatibility of the data volume, 0 when absent
          inputs,     \* the compatibility each client's plan asks for
          disposable, crashes, reset

resourceVars == <<scopeGates, where, claimFile, claims, unseen, probing, watched, up, volume,
                  inputs,
               disposable, crashes, reset>>

Nobody == "nobody"
Reset == "reset"
ASSUME SharingAssumption ==
  /\ TreeOf \in [Client -> Tree] /\ Client \cap {Nobody, Reset} = {}
  /\ Tree \cap {"net", "data"} = {} /\ MaxCrashes \in Nat
Actor == Client \cup {Reset}
Resources == <<"net", "data">>   \* networks first, data services after them
ScopeNames == Tree \cup {"net", "data"}
Ended == {"done", "failed", "dead"}
Stations == {"idle", "enter", "visit", "run", "ending", "prune", "sweep"} \cup Ended

ScopesTypeOK ==
  /\ scopeGates \in [ScopeNames -> Actor \cup {Nobody}]
  /\ where \in [Client -> [pc : Stations, i : 0..3, ok : BOOLEAN]]
  /\ claimFile \in [Client -> {"none", "locked", "file"}]
  /\ claims \in [{"net", "data"} -> SUBSET Client] /\ unseen \in [Actor -> SUBSET Client]
  /\ probing \in [Actor -> Client \cup {Nobody}]
  /\ watched \in Client \cup {Nobody} /\ up \in [ScopeNames -> BOOLEAN]
  /\ volume \in 0..2 /\ inputs \in [Client -> 1..2] /\ disposable \in BOOLEAN
  /\ crashes \in 0..MaxCrashes
  /\ reset \in [pc : {"idle", "enter", "visit", "clear", "end"}, i : 0..3, of : Tree]
  /\ reset.pc \in {"enter", "clear"} => scopeGates[reset.of] = Reset

ScopesInit ==
  /\ scopeGates = [s \in ScopeNames |-> Nobody]
  /\ where = [c \in Client |-> [pc |-> "idle", i |-> 0, ok |-> TRUE]]
  /\ claimFile = [c \in Client |-> "none"]
  /\ claims = [r \in {"net", "data"} |-> {}] /\ unseen = [a \in Actor |-> {}]
  /\ probing = [a \in Actor |-> Nobody] /\ watched = Nobody
  /\ up = [s \in ScopeNames |-> FALSE] /\ volume \in 0..1
  /\ inputs \in [Client -> 1..2] /\ disposable \in BOOLEAN
  /\ crashes = 0 /\ \E t \in Tree : reset = [pc |-> "idle", i |-> 1, of |-> t]

----------------------------------------------------------------------------
Probed(c) == watched = c \/ \E a \in Actor : probing[a] = c
\* What `locked(path, true)` and flock EX|NB see of a lease file.
Busy(c) == claimFile[c] = "locked" \/ Probed(c)
Move(c, pc, i, ok) == where' = [where EXCEPT ![c] = [pc |-> pc, i |-> i, ok |-> ok]]

\* active() of a worktree under its gate: the leases it drops, the ones it keeps.
Dead(t) == {d \in Client : TreeOf[d] = t /\ claimFile[d] = "file" /\ ~Busy(d)}
Users(t) == {d \in Client : TreeOf[d] = t /\ claimFile[d] # "none"} \ Dead(t)
Reaped(t) == [d \in Client |-> IF d \in Dead(t) THEN "none" ELSE claimFile[d]]

\* acquire: the worktree's gate, dead claims reaped, the lease locked, the plan
\* with its resources saved, all before another scope is touched.
EnterTree(c) ==
  /\ where[c].pc = "idle" /\ scopeGates[TreeOf[c]] = Nobody
  /\ scopeGates' = [scopeGates EXCEPT ![TreeOf[c]] = c]
  /\ claimFile' = [Reaped(TreeOf[c]) EXCEPT ![c] = "locked"]
  /\ Move(c, "enter", 1, TRUE)
  /\ UNCHANGED <<claims, unseen, probing, watched, up, volume, inputs, disposable, crashes,
                 reset>>

\* The gate of the next resource, on the way in or, in reverse, on the way out.
EnterResource(c) ==
  LET r == Resources[where[c].i] IN
  /\ where[c].pc \in {"enter", "prune"} /\ where[c].i \in 1..2 /\ scopeGates[r] = Nobody
  /\ scopeGates' = [scopeGates EXCEPT ![r] = c]
  /\ unseen' = [unseen EXCEPT ![c] = claims[r]]
  /\ Move(c, IF where[c].pc = "enter" THEN "visit" ELSE "sweep", where[c].i, where[c].ok)
  /\ UNCHANGED <<claimFile, claims, probing, up, volume, inputs, watched, disposable, crashes,
                 reset>>

\* Mutated form: the resources are locked before the worktree.
ResetOrder_Wrong(t) == <<"net", "data", t>>

\* resetVolumes keeps every gate it takes: the worktree's, then the resources'.
ResetOrder(t) == <<t>> \o Resources

Visited(a) == IF a = Reset THEN ResetOrder(reset.of)[reset.i] ELSE Resources[where[a].i]
Visiting(a) == IF a = Reset THEN reset.pc = "visit" /\ Visited(a) \notin Tree
               ELSE where[a].pc \in {"visit", "sweep"}

\* Mutated form: a parent is live only once its task has been published.
ParentAlive_Wrong(c) == Probed(c) \/ where[c].pc = "run"

\* parentAlive: a locked lease is a live parent, whoever holds the lock.
ParentAlive(c) == Busy(c)

\* One claim: a live parent keeps it, a missing file drops it, and a file that
\* nobody holds is locked, read and closed before it is dropped.
LookAtClaim(a, c) ==
  /\ Visiting(a) /\ probing[a] = Nobody /\ c \in unseen[a]
  /\ unseen' = [unseen EXCEPT ![a] = @ \ {c}]
  /\ \/ ParentAlive(c) /\ UNCHANGED <<claims, probing>>
     \/ /\ ~ParentAlive(c) /\ (claimFile[c] = "none" \/ ~SlowProbe)
        /\ claims' = [claims EXCEPT ![Visited(a)] = @ \ {c}] /\ UNCHANGED probing
     \/ /\ ~ParentAlive(c) /\ claimFile[c] # "none" /\ SlowProbe
        /\ probing' = [probing EXCEPT ![a] = c] /\ UNCHANGED claims
  /\ UNCHANGED <<scopeGates, where, claimFile, up, volume, inputs, watched, disposable, crashes,
                 reset>>
EndProbe(a) ==
  /\ probing[a] # Nobody
  /\ claims' = [claims EXCEPT ![Visited(a)] = @ \ {probing[a]}]
  /\ probing' = [probing EXCEPT ![a] = Nobody]
  /\ UNCHANGED <<scopeGates, where, claimFile, unseen, up, volume, inputs, watched, disposable,
                 crashes, reset>>

\* Mutated form: incompatible disposable data is replaced whoever uses it.
VolumeAfter_Wrong(c, inUse) ==
  IF volume = inputs[c] \/ volume = 0 \/ disposable THEN {inputs[c]} ELSE {}

\* ensureVolumes: the volume it leaves, or nothing when it refuses.
VolumeAfter(c, inUse) ==
  CASE volume = inputs[c] -> {volume}
    [] volume = 0 -> IF inUse THEN {} ELSE {inputs[c]}
    [] OTHER -> IF inUse \/ ~disposable THEN {} ELSE {inputs[c]}

Looked(a) == Visiting(a) /\ unseen[a] = {} /\ probing[a] = Nobody

\* The nested acquire of a resource: volume or network first, then the claim,
\* then its service; a network that is missing while in use is refused.  A
\* refusal drops the lease and releases the worktree, if nobody else is there.
ClaimResource(c) ==
  LET r == Visited(c)
      inUse == claims[r] # {}
      volumes == IF r = "data" THEN VolumeAfter(c, inUse) ELSE {volume}
      refused == volumes = {} \/ (r = "net" /\ inUse /\ ~up["net"]) IN
  /\ where[c].pc = "visit" /\ Looked(c)
  /\ scopeGates' = [scopeGates EXCEPT ![r] = Nobody]
  /\ IF refused
     THEN /\ claimFile' = [Reaped(TreeOf[c]) EXCEPT ![c] = "none"]
          /\ up' = [up EXCEPT ![TreeOf[c]] = @ /\ Users(TreeOf[c]) # {c}]
          /\ Move(c, "prune", 2, FALSE) /\ UNCHANGED <<claims, volume>>
     ELSE /\ volume' \in volumes
          /\ claims' = [claims EXCEPT ![r] = @ \cup {c}]
          /\ up' = [up EXCEPT ![r] = TRUE]
          /\ Move(c, "enter", where[c].i + 1, TRUE) /\ UNCHANGED claimFile
  /\ UNCHANGED <<unseen, probing, inputs, watched, disposable, crashes, reset>>

\* The worktree's own services start after its resources; the gate is released.
StartTree(c) ==
  /\ where[c].pc = "enter" /\ where[c].i = 3
  /\ up' = [up EXCEPT ![TreeOf[c]] = TRUE]
  /\ scopeGates' = [scopeGates EXCEPT ![TreeOf[c]] = Nobody] /\ Move(c, "run", 0, TRUE)
  /\ UNCHANGED <<claimFile, claims, unseen, probing, volume, inputs, watched, disposable,
                 crashes, reset>>

\* Mutated form: the lease is still locked while the scope is released.
LeaseOnReturn_Wrong(c) == claimFile[c]

\* Closing the lease leaves its file for whoever holds the gate next.
LeaseOnReturn(c) == "file"

\* The task ends: the lease is closed first, the gate is taken afterwards.
TaskReturns(c) ==
  /\ where[c].pc = "run" /\ Move(c, "ending", 0, TRUE)
  /\ claimFile' = [claimFile EXCEPT ![c] = LeaseOnReturn(c)]
  /\ UNCHANGED <<scopeGates, claims, unseen, probing, up, volume, inputs, watched, disposable,
                 crashes, reset>>

\* releaseUnused: the worktree's services stop when active() finds no user and
\* no lease file is left; then the resources are pruned, whatever it found.
ReleaseTree(c) ==
  LET t == TreeOf[c] IN
  /\ where[c].pc = "ending" /\ scopeGates[t] = Nobody
  /\ scopeGates' = [scopeGates EXCEPT ![t] = c]
  /\ claimFile' = Reaped(t)
  /\ up' = [up EXCEPT ![t] = @ /\ Users(t) # {}]
  /\ Move(c, "prune", 2, TRUE)
  /\ UNCHANGED <<claims, unseen, probing, watched, volume, inputs, disposable, crashes, reset>>

\* pruneResources: a resource without claims stops, one at a time, last first.
PruneResource(c) ==
  LET r == Visited(c) IN
  /\ where[c].pc = "sweep" /\ Looked(c)
  /\ up' = [up EXCEPT ![r] = @ /\ claims[r] # {}]
  /\ scopeGates' = [scopeGates EXCEPT ![r] = Nobody] /\ Move(c, "prune", where[c].i - 1,
                                                             where[c].ok)
  /\ UNCHANGED <<claimFile, claims, unseen, probing, volume, inputs, watched, disposable,
                 crashes, reset>>
LeaveTree(c) ==
  /\ where[c].pc = "prune" /\ where[c].i = 0
  /\ scopeGates' = [scopeGates EXCEPT ![TreeOf[c]] = Nobody]
  /\ Move(c, IF where[c].ok THEN "done" ELSE "failed", 0, where[c].ok)
  /\ UNCHANGED <<claimFile, claims, unseen, probing, up, volume, inputs, watched, disposable,
                 crashes, reset>>

\* A client killed anywhere: the kernel drops its locks, its files stay.
Killed(c) ==
  /\ crashes < MaxCrashes /\ crashes' = crashes + 1
  /\ where[c].pc \notin Ended \cup {"idle"} /\ Move(c, "dead", 0, FALSE)
  /\ scopeGates' = [s \in ScopeNames |-> IF scopeGates[s] = c THEN Nobody ELSE scopeGates[s]]
  /\ claimFile' = [claimFile EXCEPT ![c] = IF @ = "locked" THEN "file" ELSE @]
  /\ probing' = [probing EXCEPT ![c] = Nobody] /\ unseen' = [unseen EXCEPT ![c] = {}]
  /\ UNCHANGED <<claims, up, volume, inputs, watched, disposable, reset>>

----------------------------------------------------------------------------
ResetGate ==
  LET s == ResetOrder(reset.of)[reset.i] IN
  /\ reset.pc \in {"idle", "enter"} /\ scopeGates[s] = Nobody
  /\ scopeGates' = [scopeGates EXCEPT ![s] = Reset]
  /\ unseen' = [unseen EXCEPT ![Reset] = IF s \in Tree THEN {} ELSE claims[s]]
  /\ reset' = [reset EXCEPT !.pc = "visit"]
  /\ UNCHANGED <<where, claimFile, claims, probing, up, volume, inputs, watched, disposable,
                 crashes>>

ResetUsed(s) == IF s \in Tree THEN Users(s) # {} ELSE claims[s] # {}

\* Users in any scope refuse the reset; otherwise the next gate, or the work.
ResetVisit ==
  LET s == ResetOrder(reset.of)[reset.i] IN
  /\ reset.pc = "visit" /\ unseen[Reset] = {} /\ probing[Reset] = Nobody
  /\ claimFile' = IF s \in Tree THEN Reaped(s) ELSE claimFile
  /\ IF ResetUsed(s)
     THEN /\ reset' = [reset EXCEPT !.pc = "end"]
          /\ scopeGates' = [g \in ScopeNames |-> IF scopeGates[g] = Reset THEN Nobody ELSE scopeGates[g]]
     ELSE /\ reset' = IF reset.i = 3 THEN [reset EXCEPT !.pc = "clear"]
                      ELSE [reset EXCEPT !.pc = "enter", !.i = @ + 1]
          /\ UNCHANGED scopeGates
  /\ UNCHANGED <<where, claims, unseen, probing, up, volume, inputs, watched, disposable,
                 crashes>>
ResetClear ==
  /\ reset.pc = "clear" /\ reset' = [reset EXCEPT !.pc = "end"]
  /\ up' = [s \in ScopeNames |-> up[s] /\ scopeGates[s] # Reset] /\ volume' = 0
  /\ scopeGates' = [g \in ScopeNames |-> IF scopeGates[g] = Reset THEN Nobody ELSE scopeGates[g]]
  /\ UNCHANGED <<where, claimFile, claims, unseen, probing, inputs, watched, disposable, crashes>>

\* observedLease: a status report takes no gate that is busy, and locks each
\* lease it meets, its own scope's or a parent's, shared, to look at it.
StatusLooks(c) ==
  /\ SlowProbe /\ watched = Nobody /\ claimFile[c] = "file"
  /\ scopeGates[TreeOf[c]] # Nobody \/ \E r \in {"net", "data"} : c \in claims[r]
  /\ watched' = c
  /\ UNCHANGED <<scopeGates, where, claimFile, claims, unseen, probing, up, volume, inputs,
                 disposable, crashes, reset>>
StatusLeaves ==
  /\ watched # Nobody /\ watched' = Nobody
  /\ UNCHANGED <<scopeGates, where, claimFile, claims, unseen, probing, up, volume, inputs,
                 disposable, crashes, reset>>

ScopesNext ==
  \/ \E c \in Client : \/ EnterTree(c) \/ EnterResource(c) \/ ClaimResource(c)
                       \/ StartTree(c) \/ TaskReturns(c) \/ ReleaseTree(c)
                       \/ PruneResource(c) \/ LeaveTree(c) \/ Killed(c)
                       \/ StatusLooks(c)
  \/ \E a \in Actor : EndProbe(a) \/ \E c \in Client : LookAtClaim(a, c)
  \/ ResetGate \/ ResetVisit \/ ResetClear \/ StatusLeaves
ScopesSpec == ScopesInit /\ [][ScopesNext]_resourceVars

----------------------------------------------------------------------------
\* While a task runs, its worktree's services, the network and the data service
\* stay up and the volume is the one it was admitted with, whatever other
\* worktrees start, end, lose or reset.
RunningKeepsResources ==
  \A c \in Client : where[c].pc = "run" =>
    up[TreeOf[c]] /\ up["net"] /\ up["data"] /\ volume = inputs[c]

\* No set of actors waits for gates held inside the set: gates are taken from a
\* worktree to its resources, and only a reset keeps one resource for the next.
Wants(a) ==
  IF a = Reset THEN IF reset.pc = "enter" THEN {ResetOrder(reset.of)[reset.i]} ELSE {}
  ELSE IF where[a].pc \in {"enter", "prune"} /\ where[a].i \in 1..2
       THEN {Resources[where[a].i]} ELSE {}
NoGateCycle ==
  \A S \in (SUBSET Actor) \ {{}} : \E a \in S : \A s \in Wants(a) : scopeGates[s] \notin S

\* Stored data is lost only to a reset or, when disposable, to a plan that wants
\* another format, and never while somebody holds a live claim on it.
DataIsKept ==
  [][volume # 0 /\ volume' # volume =>
       /\ disposable \/ reset.pc = "clear"
       /\ \A c \in Client : c \in claims["data"] => claimFile[c] # "locked"]_resourceVars

\* A client that releases its worktree leaves services running there only for
\* another client's lease, or because somebody has its own lease locked for a
\* moment to look at it: then it takes itself for a user.
EndedTaskReleases ==
  [][\A c \in Client :
       where[c].pc = "ending" /\ where'[c].pc = "prune" /\ up'[TreeOf[c]] =>
         Probed(c) \/ \E d \in Client \ {c} : TreeOf[d] = TreeOf[c] /\ claimFile[d] # "none"
    ]_resourceVars

\* Worktrees share resources without taking them, or the data in them, from each
\* other, without waiting for each other in a circle, and without leaving services
\* behind that nobody asked for.
SharingIsSafe ==
  /\ [](RunningKeepsResources /\ NoGateCycle)
  /\ DataIsKept /\ EndedTaskReleases
=============================================================================
