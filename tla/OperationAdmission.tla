-------------------------- MODULE OperationAdmission --------------------------
(***************************************************************************)
(* Admission of managed operations in one checkout (operation() and its     *)
(* helpers in src/scripts/toolchain.py, hookOperation in                    *)
(* src/nix/control/hook_common.go).  Every operation keeps a lease file     *)
(* locked; a writer also keeps writer.lock.  Child processes inherit these  *)
(* descriptors, so a lease is alive as long as one process that carries it, *)
(* whoever took it.  A child that asks again is let in over its own         *)
(* ancestors' leases, and over no others.                                   *)
(***************************************************************************)
EXTENDS Integers, FiniteSets

CONSTANTS Op,     \* processes that ask for admission; 0 stands for none
          HookOps \* those that are Git hooks' own operations

ASSUME OpAssumption == Op \subseteq Nat \ {0} /\ HookOps \subseteq Op

VARIABLES stage,   \* where each process is
          ask,     \* what it asked for: exclusive, a new execution, pruning
          carries, \* the leases whose descriptors it has
          writer,  \* the writer.lock it has: whose opening of the file
          gate,    \* the process in the admission mutex
          lease,   \* lease files
          found    \* the leases its inspection found alive

opVars == <<stage, ask, carries, writer, gate, lease, found>>

Requests == [excl : BOOLEAN, new : BOOLEAN, prune : BOOLEAN]
OpTypeOK ==
  /\ stage \in [Op -> {"none", "asks", "gated", "gates", "writes", "inspected", "created",
                    "prunes", "admitted", "in", "gone"}]
  /\ ask \in [Op -> Requests]
  /\ carries \in [Op -> SUBSET Op] /\ writer \in [Op -> Op \cup {0}]
  /\ gate \in Op \cup {0} /\ lease \in [Op -> {"none", "present", "removed"}]
  /\ found \in [Op -> SUBSET Op]

OpInit ==
  /\ stage = [o \in Op |-> "none"]
  /\ ask = [o \in Op |-> [excl |-> FALSE, new |-> FALSE, prune |-> FALSE]]
  /\ carries = [o \in Op |-> {}] /\ writer = [o \in Op |-> 0] /\ gate = 0
  /\ lease = [o \in Op |-> "none"] /\ found = [o \in Op |-> {}]

----------------------------------------------------------------------------
Alive(o) == stage[o] \notin {"none", "gone"}
\* Kernel locks: held while any process has the descriptor.
LeaseHeld(l) == \E o \in Op : Alive(o) /\ l \in carries[o]
WriterHeld == \E o \in Op : Alive(o) /\ writer[o] # 0
\* inherited_operation: the descriptors of the caller are there and belong to
\* this checkout.  A wrapper that closed them leaves only the environment.
Same(o) == carries[o] # {}
\* A lease of its own is taken by everyone but a step inside an operation.
Leases(o) == ~Same(o) \/ ask[o].new
\* writer.lock is taken by whoever did not inherit it; a plain step inside needs none.
TakesWriter(o) == writer[o] = 0 /\ (ask[o].excl \/ Leases(o))

NextFree(o) == stage[o] = "none" /\ \A q \in Op : q < o => stage[q] # "none"
\* A process starts on its own.
StartOp(o, r) ==
  /\ NextFree(o) /\ ~r.new /\ ~(r.prune /\ r.excl)
  /\ (o \in HookOps) => ~r.excl /\ ~r.prune
  /\ stage' = [stage EXCEPT ![o] = "asks"] /\ ask' = [ask EXCEPT ![o] = r]
  /\ UNCHANGED <<carries, writer, gate, lease, found>>
\* It starts inside an admitted one, with its descriptors (managed_options) or
\* stripped of them by a wrapper.
StartChild(o, p, r, stripped) ==
  /\ NextFree(o) /\ {o, p} \cap HookOps = {} /\ stage[p] = "in"
  /\ ~(r.prune /\ r.excl) /\ (stripped => ~r.new)
  /\ stage' = [stage EXCEPT ![o] = "asks"] /\ ask' = [ask EXCEPT ![o] = r]
  /\ carries' = [carries EXCEPT ![o] = IF stripped THEN {} ELSE carries[p]]
  /\ writer' = [writer EXCEPT ![o] = IF stripped THEN 0 ELSE writer[p]]
  /\ UNCHANGED <<gate, lease, found>>

\* A step inside its caller's operation that writes nothing is not admitted again.
StepInside(o) ==
  /\ stage[o] = "asks" /\ ~ask[o].excl /\ ~Leases(o) /\ stage' = [stage EXCEPT ![o] = "in"]
  /\ UNCHANGED <<ask, carries, writer, gate, lease, found>>
\* What the process had is let go, unless children have it too.
Leave(o) ==
  /\ stage' = [stage EXCEPT ![o] = "gone"] /\ gate' = IF gate = o THEN 0 ELSE gate
  /\ carries' = [carries EXCEPT ![o] = {}] /\ writer' = [writer EXCEPT ![o] = 0]
  /\ found' = [found EXCEPT ![o] = {}]
\* operation_gate waits; a hook's operation refuses a gate that is taken.
TakeGate(o) ==
  /\ stage[o] = "asks" /\ (ask[o].excl \/ Leases(o))
  /\ \/ /\ gate = 0 /\ gate' = o /\ stage' = [stage EXCEPT ![o] = "gates"]
        /\ UNCHANGED <<carries, writer, found>>
     \/ gate # 0 /\ o \in HookOps /\ Leave(o)
  /\ UNCHANGED <<ask, lease>>
TakeWriter(o) ==
  /\ stage[o] = "gates" /\ gate = o
  /\ IF TakesWriter(o) /\ WriterHeld THEN Leave(o)
     ELSE /\ stage' = [stage EXCEPT ![o] = "writes"]
          /\ writer' = [writer EXCEPT ![o] = IF TakesWriter(o) THEN o ELSE @]
          /\ UNCHANGED <<gate, carries, found>>
  /\ UNCHANGED <<ask, lease>>

\* Mutated form: an inherited writer gate is taken for being alone.
Conflict_Wrong(o, active) == ask[o].excl /\ ~Same(o) /\ active # {}
\* An exclusive operation tolerates the leases it carries itself.
Conflict(o, active) == ask[o].excl /\ active \ carries[o] # {}

\* active_operations: a lease nobody holds is removed, one held is active.  A
\* hook's operation does not look.
InspectLeases(o) ==
  LET present == {l \in Op : lease[l] = "present"}
      active == {l \in present : LeaseHeld(l)} IN
  /\ stage[o] = "writes" /\ gate = o
  /\ lease' = [l \in Op |-> IF o \notin HookOps /\ l \in present \ active THEN "removed" ELSE lease[l]]
  /\ IF Conflict(o, active) THEN Leave(o)
     ELSE /\ stage' = [stage EXCEPT ![o] = "inspected"]
          /\ found' = [found EXCEPT ![o] = IF o \in HookOps THEN {} ELSE active]
          /\ UNCHANGED <<gate, carries, writer>>
  /\ UNCHANGED ask

\* Mutated form: the hook leaves the mutex before it locks its lease.
Gated_Wrong(o) == stage[o] = "inspected" /\ o \notin HookOps
\* The mutex is kept until the lease is locked.
Gated(o) == stage[o] \in {"inspected", "created"}

CreateLease(o) ==
  /\ stage[o] = "inspected"
  /\ IF Leases(o) THEN lease' = [lease EXCEPT ![o] = "present"] /\ stage' = [stage EXCEPT ![o] = "created"]
     ELSE stage' = [stage EXCEPT ![o] = "admitted"] /\ UNCHANGED lease
  /\ IF Gated(o) THEN UNCHANGED <<gate, writer>>
     ELSE gate' = 0 /\ writer' = [writer EXCEPT ![o] = 0]
  /\ UNCHANGED <<ask, carries, found>>

\* Mutated form: any operation that is not nested prunes on entry.
Prunes_Wrong(o) == ask[o].prune /\ ~Same(o)
\* Automatic pruning needs an inspection that found nobody.
Prunes(o) == ask[o].prune /\ found[o] = {} /\ ~Same(o)

LockLease(o) ==
  /\ stage[o] = "created" /\ carries' = [carries EXCEPT ![o] = @ \cup {o}]
  /\ stage' = [stage EXCEPT ![o] = IF Prunes(o) THEN "prunes" ELSE "admitted"]
  /\ UNCHANGED <<ask, writer, gate, lease, found>>
PruneEnds(o) ==
  /\ stage[o] = "prunes" /\ stage' = [stage EXCEPT ![o] = "admitted"]
  /\ UNCHANGED <<ask, carries, writer, gate, lease, found>>
\* The mutex is left; a reader also gives back the writer.lock it had opened.
EnterOperation(o) ==
  /\ stage[o] = "admitted" /\ stage' = [stage EXCEPT ![o] = "in"]
  /\ gate' = IF gate = o THEN 0 ELSE gate
  /\ writer' = [writer EXCEPT ![o] = IF ask[o].excl \/ @ # o THEN @ ELSE 0]
  /\ UNCHANGED <<ask, carries, lease, found>>
\* The end of a process, by itself or by a kill, children or not: the kernel lets
\* go of what nobody else holds.  A hook's own lease file goes with it.
OpEnds(o) ==
  /\ Alive(o) /\ Leave(o)
  /\ lease' \in {lease,
                 [lease EXCEPT ![o] = IF o \in HookOps /\ @ = "present" THEN "removed" ELSE @]}
  /\ UNCHANGED ask

OpNext ==
  \E o \in Op :
    \/ StepInside(o) \/ TakeGate(o) \/ TakeWriter(o) \/ InspectLeases(o) \/ CreateLease(o)
    \/ LockLease(o) \/ PruneEnds(o) \/ EnterOperation(o) \/ OpEnds(o)
    \/ \E r \in Requests : StartOp(o, r)
    \/ \E p \in Op, r \in Requests, stripped \in BOOLEAN : StartChild(o, p, r, stripped)
OpSpec == OpInit /\ [][OpNext]_opVars

----------------------------------------------------------------------------
\* While a process works under writer.lock, whoever opened it and dead or not,
\* every other operation inside is one whose lease it carries, or one that
\* shares that very lock.
WritersAreAlone ==
  \A o, q \in Op :
    (stage[o] = "in" /\ ask[o].excl /\ stage[q] = "in" /\ q \in carries[q] /\ q \notin carries[o])
      => writer[q] = writer[o] /\ writer[o] # 0

\* The lease file of an operation that still has a process is never removed:
\* later inspections keep seeing it.
LiveLeasesAreSeen ==
  \A l \in Op : LeaseHeld(l) => lease[l] = "present"

\* While an admission prunes the caches, nobody else works in the checkout.
PruneIsAlone ==
  \A o, q \in Op : stage[o] = "prunes" => q = o \/ stage[q] # "in"
=============================================================================
