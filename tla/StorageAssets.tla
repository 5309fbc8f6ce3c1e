----------------------------- MODULE StorageAssets -----------------------------
(***************************************************************************)
(* The executables of service scopes and their collection (src/nix/control/ *)
(* storage_assets.go; persistTools and acquire in main.go).  A scope keeps   *)
(* the executables its plan names in its own directory, as links to one      *)
(* pool shared by all scopes of the host; a collector removes what no plan   *)
(* names, the plans of scopes whose worktree is gone, and pool entries that  *)
(* no scope links.                                                          *)
(***************************************************************************)
EXTENDS FiniteSets

CONSTANTS AssetScope, \* service scopes below one base directory
          Tools,      \* executable generations, by digest
          None

ASSUME AssetAssumption == None \notin Tools /\ AssetScope \cap {None, "free", "sweeper"} = {}

VARIABLES generations, \* by scope, those in its assets that link to the pool
          copied,      \* generations there that are files of their own
          shared,      \* the pool's entries
          plan,        \* the generation plan.json names, None without a plan
          recovery,    \* the plan has volumes, a bridge, resources or a task container
          ownerOf,     \* the generation the scope's controller runs, None without one
          receipts,    \* leases or owner receipts are in the scope's state
          rooted,      \* the scope's worktree exists
          scopeGate,   \* who holds the scope's gate
          poolGate,    \* who holds the pool's gate
          acquirer,    \* by scope, what its acquisition does next
          wants,       \* the generation it brings
          sweeper,     \* what the collector does next
          visited,     \* the scope it inspects
          unvisited,   \* scopes it has not inspected
          leftovers,   \* executables of the inspected scope it has not dealt with
          opinion      \* what it found: the plan's names and whether the scope is abandoned

assetVars == <<generations, copied, shared, plan, recovery, ownerOf, receipts, rooted, scopeGate,
               poolGate, acquirer, wants, sweeper, visited, unvisited, leftovers, opinion>>
diskVars == <<generations, copied, shared>>
assetScopeVars == <<plan, recovery, ownerOf, receipts, rooted>>
sweepState == <<sweeper, visited, unvisited, leftovers, opinion>>

AssetTypeOK ==
  /\ generations \in [AssetScope -> SUBSET Tools] /\ copied \in [AssetScope -> SUBSET Tools]
  /\ shared \subseteq Tools /\ plan \in [AssetScope -> Tools \cup {None}]
  /\ recovery \in [AssetScope -> BOOLEAN] /\ ownerOf \in [AssetScope -> Tools \cup {None}]
  /\ receipts \in [AssetScope -> BOOLEAN] /\ rooted \in [AssetScope -> BOOLEAN]
  /\ scopeGate \in [AssetScope -> {"free", "client", "sweeper"}]
  /\ poolGate \in AssetScope \cup {"free", "sweeper"}
  /\ acquirer \in [AssetScope -> {"idle", "checks", "links", "saves", "starts"}]
  /\ wants \in [AssetScope -> Tools \cup {None}]
  /\ sweeper \in {"idle", "scopes", "judges", "entries", "pool"}
  /\ visited \in AssetScope \cup {None} /\ unvisited \subseteq AssetScope /\ leftovers \subseteq Tools
  /\ opinion \in [keep : SUBSET Tools, abandoned : BOOLEAN]

Nothing == [keep |-> {}, abandoned |-> FALSE]
Have(s) == generations[s] \cup copied[s]

AssetInit ==
  /\ generations = [s \in AssetScope |-> {}] /\ copied = [s \in AssetScope |-> {}] /\ shared = {}
  /\ plan = [s \in AssetScope |-> None] /\ recovery = [s \in AssetScope |-> FALSE]
  /\ ownerOf = [s \in AssetScope |-> None] /\ receipts = [s \in AssetScope |-> FALSE]
  /\ rooted = [s \in AssetScope |-> TRUE] /\ scopeGate = [s \in AssetScope |-> "free"]
  /\ poolGate = "free" /\ acquirer = [s \in AssetScope |-> "idle"]
  /\ wants = [s \in AssetScope |-> None] /\ sweeper = "idle" /\ visited = None /\ unvisited = {}
  /\ leftovers = {} /\ opinion = Nothing

----------------------------------------------------------------------------
(* An acquisition of the scope.                                            *)
\* acquire: everything from here to the started controller is under the gate.
EnterScope(s, d) ==
  /\ acquirer[s] = "idle" /\ rooted[s] /\ scopeGate[s] = "free"
  /\ scopeGate' = [scopeGate EXCEPT ![s] = "client"]
  /\ acquirer' = [acquirer EXCEPT ![s] = "checks"] /\ wants' = [wants EXCEPT ![s] = d]
  /\ UNCHANGED <<diskVars, assetScopeVars, poolGate, sweepState>>

\* installServiceAssetLink: the pool's gate is taken after the scope's.
FillPool(s) ==
  /\ acquirer[s] = "checks" /\ poolGate = "free" /\ poolGate' = s
  /\ shared' = shared \cup {wants[s]} /\ acquirer' = [acquirer EXCEPT ![s] = "links"]
  /\ UNCHANGED <<generations, copied, assetScopeVars, scopeGate, wants, sweepState>>
\* A filesystem that cannot link gets a copy; a copy that exists is kept then.
LinkAsset(s, links) ==
  /\ acquirer[s] = "links"
  /\ links => wants[s] \in shared
  /\ generations' = IF links THEN [generations EXCEPT ![s] = @ \cup {wants[s]}] ELSE generations
  /\ copied' = IF links THEN [copied EXCEPT ![s] = @ \ {wants[s]}]
               ELSE IF wants[s] \in generations[s] THEN copied
               ELSE [copied EXCEPT ![s] = @ \cup {wants[s]}]
  /\ poolGate' = "free" /\ acquirer' = [acquirer EXCEPT ![s] = "saves"]
  /\ UNCHANGED <<shared, assetScopeVars, scopeGate, wants, sweepState>>
\* The claim comes before the plan; a living controller keeps its plan.
SavePlan(s, keeps) ==
  /\ acquirer[s] = "saves" /\ receipts' = [receipts EXCEPT ![s] = TRUE]
  /\ IF ownerOf[s] # None
     THEN UNCHANGED plan /\ recovery' = [recovery EXCEPT ![s] = @ \/ keeps]
     ELSE /\ plan' = [plan EXCEPT ![s] = wants[s]]
          /\ recovery' = [recovery EXCEPT ![s] = keeps]
  /\ acquirer' = [acquirer EXCEPT ![s] = "starts"]
  /\ UNCHANGED <<diskVars, ownerOf, rooted, scopeGate, poolGate, wants, sweepState>>
StartOwner(s) ==
  /\ acquirer[s] = "starts"
  /\ ownerOf' = [ownerOf EXCEPT ![s] = IF @ = None THEN wants[s] ELSE @]
  /\ acquirer' = [acquirer EXCEPT ![s] = "idle"] /\ wants' = [wants EXCEPT ![s] = None]
  /\ scopeGate' = [scopeGate EXCEPT ![s] = "free"]
  /\ UNCHANGED <<diskVars, plan, recovery, receipts, rooted, poolGate, sweepState>>
\* A killed client leaves what it wrote; the kernel gives its locks back.
KillAcquire(s) ==
  /\ acquirer[s] # "idle" /\ acquirer' = [acquirer EXCEPT ![s] = "idle"]
  /\ wants' = [wants EXCEPT ![s] = None] /\ scopeGate' = [scopeGate EXCEPT ![s] = "free"]
  /\ poolGate' = IF poolGate = s THEN "free" ELSE poolGate
  /\ UNCHANGED <<diskVars, assetScopeVars, sweepState>>

\* The last release under the scope's gate, or a controller that is killed.
ReleaseScope(s) ==
  /\ scopeGate[s] = "free" /\ receipts[s]
  /\ receipts' = [receipts EXCEPT ![s] = FALSE] /\ ownerOf' = [ownerOf EXCEPT ![s] = None]
  /\ UNCHANGED <<diskVars, plan, recovery, rooted, scopeGate, poolGate, acquirer, wants,
                 sweepState>>
KillController(s) ==
  /\ ownerOf[s] # None /\ ownerOf' = [ownerOf EXCEPT ![s] = None]
  /\ UNCHANGED <<diskVars, plan, recovery, receipts, rooted, scopeGate, poolGate, acquirer,
                 wants, sweepState>>
\* The user removes the worktree, or a disk is away for a while.
MoveRoot(s) ==
  /\ rooted' = [rooted EXCEPT ![s] = ~@]
  /\ UNCHANGED <<diskVars, plan, recovery, ownerOf, receipts, scopeGate, poolGate, acquirer,
                 wants, sweepState>>

----------------------------------------------------------------------------
(* serviceStorage, applied: one scope after the other, then the pool.      *)
StartSweep ==
  /\ sweeper = "idle" /\ sweeper' = "scopes" /\ unvisited' = AssetScope
  /\ UNCHANGED <<diskVars, assetScopeVars, scopeGate, poolGate, acquirer, wants, visited,
                 leftovers, opinion>>

\* Mutated form: the scope is inspected whether or not its gate is held.
Free_Wrong(s) == TRUE
\* storageScope: a gate that is held says the scope is in use.
Free(s) == scopeGate[s] = "free"

InspectScope(s) ==
  /\ sweeper = "scopes" /\ s \in unvisited /\ unvisited' = unvisited \ {s}
  /\ IF plan[s] # None /\ Free(s)
     THEN /\ visited' = s /\ sweeper' = "judges"
          /\ scopeGate' = [scopeGate EXCEPT ![s] = IF @ = "free" THEN "sweeper" ELSE @]
     ELSE UNCHANGED <<visited, sweeper, scopeGate>>
  /\ UNCHANGED <<diskVars, assetScopeVars, poolGate, acquirer, wants, leftovers, opinion>>

\* Mutated form: only a living controller makes a scope active.
ScopeActive_Wrong(s) == ownerOf[s] # None
\* storageScopeActive: a receipt counts whether or not its process lives.
ScopeActive(s) == ownerOf[s] # None \/ receipts[s]

\* Mutated form: a missing worktree is enough.
Abandoned_Wrong(s) == ~rooted[s]
\* The age of the plan is taken to be over the limit.
Abandoned(s) == ~rooted[s] /\ ~recovery[s]

\* Mutated form: the plan's names are not looked for.
References_Wrong(s) == {}
\* storageAssetReferences.
References(s) == {plan[s]} \ {None}

LeaveScope ==
  /\ scopeGate' = [scopeGate EXCEPT ![visited] = IF @ = "sweeper" THEN "free" ELSE @]
  /\ sweeper' = "scopes" /\ visited' = None /\ leftovers' = {} /\ opinion' = Nothing
JudgeScope(gone) ==
  /\ sweeper = "judges"
  /\ IF ScopeActive(visited) \/ plan[visited] = None
     THEN LeaveScope
     ELSE /\ opinion' = [keep |-> IF gone /\ Abandoned(visited) THEN {} ELSE References(visited),
                        abandoned |-> gone /\ Abandoned(visited)]
          /\ leftovers' = Have(visited) /\ sweeper' = "entries" /\ UNCHANGED <<scopeGate,
                                                                               visited>>
  /\ UNCHANGED <<diskVars, assetScopeVars, poolGate, acquirer, wants, unvisited>>
\* An entry stays when the plan names it or it is young; it is then installed again,
\* as a client would do it, for its bytes may be new to the pool.
KeepEntry(d, links) ==
  /\ sweeper = "entries" /\ d \in leftovers /\ ~opinion.abandoned /\ poolGate = "free"
  /\ leftovers' = leftovers \ {d} /\ shared' = shared \cup {d}
  /\ generations' = IF links THEN [generations EXCEPT ![visited] = @ \cup {d}] ELSE generations
  /\ copied' = IF links THEN [copied EXCEPT ![visited] = @ \ {d}] ELSE copied
  /\ UNCHANGED <<assetScopeVars, scopeGate, poolGate, acquirer, wants, sweeper, visited,
                 unvisited, opinion>>
RemoveEntry(d) ==
  /\ sweeper = "entries" /\ d \in leftovers /\ d \notin opinion.keep
  /\ leftovers' = leftovers \ {d}
  /\ generations' = [generations EXCEPT ![visited] = @ \ {d}] /\ copied' = [copied EXCEPT ![visited] = @ \ {d}]
  /\ UNCHANGED <<shared, assetScopeVars, scopeGate, poolGate, acquirer, wants, sweeper, visited,
                 unvisited,
                 opinion>>
FinishScope ==
  /\ sweeper = "entries" /\ leftovers = {}
  /\ plan' = IF opinion.abandoned THEN [plan EXCEPT ![visited] = None] ELSE plan
  /\ LeaveScope
  /\ UNCHANGED <<diskVars, recovery, ownerOf, receipts, rooted, poolGate, acquirer, wants,
                 unvisited>>

\* Mutated form: the pool is not locked while it is collected.
PoolFree_Wrong == TRUE
PoolFree == poolGate = "free"

\* The pool's pass, entry by entry under its gate; one link is the pool's own.
LockSharedPool ==
  /\ sweeper = "scopes" /\ unvisited = {} /\ PoolFree
  /\ poolGate' = IF poolGate = "free" THEN "sweeper" ELSE poolGate
  /\ sweeper' = "pool"
  /\ UNCHANGED <<diskVars, assetScopeVars, scopeGate, acquirer, wants, visited, unvisited,
                 leftovers, opinion>>
RemoveShared(d) ==
  /\ sweeper = "pool" /\ d \in shared /\ \A s \in AssetScope : d \notin generations[s]
  /\ shared' = shared \ {d}
  /\ UNCHANGED <<generations, copied, assetScopeVars, scopeGate, poolGate, acquirer, wants,
                 sweepState>>
EndSweep ==
  /\ sweeper = "pool" /\ sweeper' = "idle"
  /\ poolGate' = IF poolGate = "sweeper" THEN "free" ELSE poolGate
  /\ UNCHANGED <<diskVars, assetScopeVars, scopeGate, acquirer, wants, visited, unvisited,
                 leftovers, opinion>>
KillSweep ==
  /\ sweeper # "idle" /\ sweeper' = "idle" /\ visited' = None /\ unvisited' = {}
  /\ leftovers' = {} /\ opinion' = Nothing
  /\ scopeGate' = [s \in AssetScope |-> IF scopeGate[s] = "sweeper" THEN "free" ELSE scopeGate[s]]
  /\ poolGate' = IF poolGate = "sweeper" THEN "free" ELSE poolGate
  /\ UNCHANGED <<diskVars, assetScopeVars, acquirer, wants>>

AcquireStep(s) ==
  \/ (\E d \in Tools : EnterScope(s, d)) \/ FillPool(s) \/ (\E b \in BOOLEAN : LinkAsset(s, b))
  \/ (\E b \in BOOLEAN : SavePlan(s, b)) \/ StartOwner(s) \/ KillAcquire(s)
  \/ ReleaseScope(s) \/ KillController(s) \/ MoveRoot(s)
SweepAssets ==
  \/ StartSweep \/ (\E s \in AssetScope : InspectScope(s)) \/ (\E gone \in BOOLEAN : JudgeScope(gone))
  \/ (\E d \in Tools, b \in BOOLEAN : KeepEntry(d, b)) \/ (\E d \in Tools : RemoveEntry(d))
  \/ FinishScope \/ LockSharedPool \/ (\E d \in Tools : RemoveShared(d)) \/ EndSweep \/ KillSweep
AssetNext == (\E s \in AssetScope : AcquireStep(s)) \/ SweepAssets
AssetSpec == AssetInit /\ [][AssetNext]_assetVars

----------------------------------------------------------------------------
(* The executables a scope still needs are there: the one its controller    *)
(* was started from, and the one its plan names as long as the scope has a   *)
(* claim, a receipt, or an identity that explicit recovery would use.        *)
ToolsStay ==
  \A s \in AssetScope :
    /\ ownerOf[s] # None => plan[s] # None
    /\ plan[s] # None /\ (receipts[s] \/ recovery[s]) => plan[s] \in Have(s)

(* An installer that has verified a pool entry finds it when it makes the   *)
(* link, whatever a collector does meanwhile.                               *)
PoolEntryStays == \A s \in AssetScope : acquirer[s] = "links" => wants[s] \in shared
=============================================================================
