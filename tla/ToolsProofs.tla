----------------------------- MODULE ToolsProofs -----------------------------
(***************************************************************************)
(* Who may change what a checkout works with, for any number of            *)
(* operations, scopes, executables and candidates: writers and pruning are *)
(* alone, the leases of living operations stay, and a collector takes no   *)
(* executable and no update candidate in use.  And of what an update       *)
(* brings: it is audited as it will be used, with the exceptions that are  *)
(* left and waivers that stay inside what they name.                       *)
(***************************************************************************)
EXTENDS OperationAdmission, StorageAssets, UpdateCache, DependencySteps, AuditReport,
        FiniteSetTheorems, TLAPS

----------------------------------------------------------------------------
(* Operations: the invariant.                                              *)

\* The mutex is held from the gate to the lock on the lease.
AdmissionStages == {"gates", "writes", "inspected", "created", "prunes", "admitted"}
\* The process is past its look at the other leases.
PastInspection == {"inspected", "created", "prunes", "admitted", "in"}

GateIsOne ==
  /\ \A o \in Op : stage[o] \in AdmissionStages <=> gate = o
  /\ \A o \in Op : stage[o] \in {"none", "gone"} => carries[o] = {} /\ writer[o] = 0
  /\ \A o \in HookOps : stage[o] # "none" => ~ask[o].excl /\ ~ask[o].prune

\* A lease is carried by its own operation, once locked, and by descendants; those
\* of Git hooks have none.  A process is only let in over a lease.
LeasesAreCarried ==
  /\ \A q \in Op : \A l \in carries[q] :
       /\ stage[l] \notin {"none", "asks", "gates", "writes", "inspected", "created"}
       /\ lease[l] = "present"
       /\ {q, l} \cap HookOps # {} => q = l
  /\ \A o \in Op : stage[o] = "created" => lease[o] = "present"
  /\ \A o \in Op : stage[o] \in {"prunes", "admitted", "in"} => carries[o] # {}

\* Whoever has writer.lock has the same opening of it; the opener keeps it alone
\* until it is let in.
WriterIsOne ==
  /\ \A o, q \in Op : writer[o] # 0 /\ writer[q] # 0 => writer[o] = writer[q]
  /\ \A o \in Op : writer[o] # 0 => stage[writer[o]] \notin {"none", "asks", "gates"}
  /\ \A o, q \in Op : gate = o /\ writer[o] = o /\ q # o => writer[q] = 0
  /\ \A o \in Op : stage[o] \in {"writes", "inspected"} /\ Leases(o) => writer[o] # 0
  /\ \A o \in Op : stage[o] \in {"created", "prunes"} => writer[o] # 0
  /\ \A o \in Op : ask[o].excl /\ stage[o] \in PastInspection \cup {"writes"} => writer[o] # 0

\* Behind the inspection of an exclusive operation, leases it does not carry
\* are of operations that inherited writer.lock.
OthersInherit ==
  \A o, q \in Op :
    ask[o].excl /\ stage[o] \in PastInspection /\ q \in carries[q] /\ q \notin carries[o]
      => writer[q] # 0

\* An operation that found nobody is alone until it is let in.
NobodyIsNobody ==
  /\ \A o \in Op \ HookOps : stage[o] \in {"inspected", "created"} /\ found[o] = {}
                                => \A q \in Op : carries[q] = {}
  /\ \A o, q \in Op : stage[o] = "prunes" /\ q # o => carries[q] = {}

OpInv ==
  OpTypeOK /\ GateIsOne /\ LeasesAreCarried /\ WriterIsOne /\ OthersInherit /\ NobodyIsNobody

\* Processes are numbers, none of them 0.
LEMMA Processes == /\ 0 \notin Op /\ HookOps \subseteq Op
                   /\ \A r \in Requests : {r.excl, r.new, r.prune} \subseteq BOOLEAN
  BY OpAssumption DEF Requests

USE Processes DEF Leave, Same, Leases, Alive

\* Every step of an operation keeps every variable in its type.
LEMMA OpTypeStep == OpTypeOK /\ [OpNext]_opVars => OpTypeOK'
<1> SUFFICES ASSUME OpTypeOK, [OpNext]_opVars PROVE OpTypeOK'
  OBVIOUS
<1> USE DEF OpTypeOK
<1>1. CASE UNCHANGED <<stage, ask, carries, writer, gate, lease, found>>
  BY <1>1
<1>2. ASSUME NEW o \in Op, StepInside(o) PROVE OpTypeOK'
  BY <1>2 DEF StepInside
<1>3. ASSUME NEW o \in Op, TakeGate(o) PROVE OpTypeOK'
  BY <1>3 DEF TakeGate
<1>4. ASSUME NEW o \in Op, TakeWriter(o) PROVE OpTypeOK'
  BY <1>4 DEF TakeWriter
<1>5. ASSUME NEW o \in Op, InspectLeases(o) PROVE OpTypeOK'
  BY <1>5 DEF InspectLeases
<1>6. ASSUME NEW o \in Op, CreateLease(o) PROVE OpTypeOK'
  BY <1>6 DEF CreateLease
<1>7. ASSUME NEW o \in Op, LockLease(o) PROVE OpTypeOK'
  BY <1>7 DEF LockLease
<1>8. ASSUME NEW o \in Op, PruneEnds(o) PROVE OpTypeOK'
  BY <1>8 DEF PruneEnds
<1>9. ASSUME NEW o \in Op, EnterOperation(o) PROVE OpTypeOK'
  BY <1>9 DEF EnterOperation
<1>10. ASSUME NEW o \in Op, OpEnds(o) PROVE OpTypeOK'
  BY <1>10 DEF OpEnds
<1>11. ASSUME NEW o \in Op, NEW r \in Requests, StartOp(o, r) PROVE OpTypeOK'
  BY <1>11 DEF StartOp, Requests
<1>12. ASSUME NEW o \in Op, NEW p \in Op, NEW r \in Requests, NEW stripped \in BOOLEAN,
                StartChild(o, p, r, stripped)
      PROVE  OpTypeOK'
  BY <1>12 DEF StartChild, Requests
<1>13. CASE UNCHANGED opVars
  BY <1>13, <1>1 DEF opVars
<1> QED
  BY <1>1, <1>2, <1>3, <1>4, <1>5, <1>6, <1>7, <1>8, <1>9, <1>10, <1>11, <1>12, <1>13, SMTT(30) DEF OpNext

\* One process is in admission; only one that lives has anything.
LEMMA GateStep == OpTypeOK /\ GateIsOne /\ [OpNext]_opVars => GateIsOne'
<1> SUFFICES ASSUME OpTypeOK, GateIsOne, [OpNext]_opVars PROVE GateIsOne'
  OBVIOUS
<1> USE DEF OpTypeOK, GateIsOne, AdmissionStages
<1>1. CASE UNCHANGED <<stage, ask, carries, writer, gate>>
  BY <1>1
<1>2. ASSUME NEW o \in Op, StepInside(o) PROVE GateIsOne'
  BY <1>2 DEF StepInside
<1>3. ASSUME NEW o \in Op, TakeGate(o) PROVE GateIsOne'
  BY <1>3 DEF TakeGate
<1>4. ASSUME NEW o \in Op, TakeWriter(o) PROVE GateIsOne'
  BY <1>4 DEF TakeWriter
<1>5. ASSUME NEW o \in Op, InspectLeases(o) PROVE GateIsOne'
  BY <1>5 DEF InspectLeases
<1>6. ASSUME NEW o \in Op, CreateLease(o) PROVE GateIsOne'
  BY <1>6 DEF CreateLease, Gated
<1>7. ASSUME NEW o \in Op, LockLease(o) PROVE GateIsOne'
  BY <1>7 DEF LockLease
<1>8. ASSUME NEW o \in Op, PruneEnds(o) PROVE GateIsOne'
  BY <1>8 DEF PruneEnds
<1>9. ASSUME NEW o \in Op, EnterOperation(o) PROVE GateIsOne'
  BY <1>9 DEF EnterOperation
<1>10. ASSUME NEW o \in Op, OpEnds(o) PROVE GateIsOne'
  BY <1>10 DEF OpEnds
<1>11. ASSUME NEW o \in Op, NEW r \in Requests, StartOp(o, r) PROVE GateIsOne'
  BY <1>11 DEF StartOp, NextFree
<1>12. ASSUME NEW o \in Op, NEW p \in Op, NEW r \in Requests, NEW stripped \in BOOLEAN,
                StartChild(o, p, r, stripped)
      PROVE  GateIsOne'
  BY <1>12 DEF StartChild, NextFree
<1>13. CASE UNCHANGED opVars
  BY <1>13, <1>1 DEF opVars
<1> QED
  BY <1>1, <1>2, <1>3, <1>4, <1>5, <1>6, <1>7, <1>8, <1>9, <1>10, <1>11, <1>12, <1>13 DEF OpNext

\* No step removes a lease that a process carries.
LEMMA LeaseStep == OpTypeOK /\ GateIsOne /\ LeasesAreCarried /\
  [OpNext]_opVars => LeasesAreCarried'
<1> SUFFICES ASSUME OpTypeOK, GateIsOne, LeasesAreCarried, [OpNext]_opVars
             PROVE  LeasesAreCarried'
  OBVIOUS
<1> USE DEF OpTypeOK, GateIsOne, LeasesAreCarried, AdmissionStages
<1>1. CASE UNCHANGED <<stage, carries, lease>>
  BY <1>1
<1>2. ASSUME NEW o \in Op, StepInside(o) PROVE LeasesAreCarried'
  BY <1>2 DEF StepInside
<1>3. ASSUME NEW o \in Op, TakeGate(o) PROVE LeasesAreCarried'
  BY <1>3 DEF TakeGate
<1>4. ASSUME NEW o \in Op, TakeWriter(o) PROVE LeasesAreCarried'
  BY <1>4 DEF TakeWriter
<1>5. ASSUME NEW o \in Op, InspectLeases(o) PROVE LeasesAreCarried'
  <2>1. \A q \in Op : \A l \in carries[q] : lease'[l] = "present"
    BY <1>5 DEF InspectLeases, LeaseHeld
  <2>2. \A q \in Op \ {o} : carries'[q] = carries[q] /\ stage'[q] = stage[q]
    BY <1>5 DEF InspectLeases
  <2>3. \/ carries'[o] = carries[o] /\ stage'[o] = "inspected"
        \/ carries'[o] = {} /\ stage'[o] = "gone"
    BY <1>5 DEF InspectLeases
  <2>4. gate = o /\ stage[o] = "writes"
    BY <1>5 DEF InspectLeases
  <2>5. \A q \in Op : \A l \in carries'[q] : l \in carries[q] /\ l # o /\ l \in Op
    BY <2>2, <2>3, <2>4
  <2>6. \A q \in Op : \A l \in carries'[q] :
          /\ stage'[l] \notin {"none", "asks", "gates", "writes", "inspected", "created"}
          /\ lease'[l] = "present"
          /\ {q, l} \cap HookOps # {} => q = l
    BY <2>1, <2>2, <2>5
  <2>7. \A q \in Op : stage'[q] # "created"
    BY <2>2, <2>3, <2>4
  <2>8. \A q \in Op : stage'[q] \in {"prunes", "admitted", "in"} => carries'[q] # {}
    BY <2>2, <2>3
  <2> QED BY <2>6, <2>7, <2>8
<1>6. ASSUME NEW o \in Op, CreateLease(o) PROVE LeasesAreCarried'
  BY <1>6 DEF CreateLease
<1>7. ASSUME NEW o \in Op, LockLease(o) PROVE LeasesAreCarried'
  BY <1>7 DEF LockLease
<1>8. ASSUME NEW o \in Op, PruneEnds(o) PROVE LeasesAreCarried'
  BY <1>8 DEF PruneEnds
<1>9. ASSUME NEW o \in Op, EnterOperation(o) PROVE LeasesAreCarried'
  BY <1>9 DEF EnterOperation
<1>10. ASSUME NEW o \in Op, OpEnds(o) PROVE LeasesAreCarried'
  BY <1>10 DEF OpEnds
<1>11. ASSUME NEW o \in Op, NEW r \in Requests, StartOp(o, r) PROVE LeasesAreCarried'
  BY <1>11 DEF StartOp, NextFree
<1>12. ASSUME NEW o \in Op, NEW p \in Op, NEW r \in Requests, NEW stripped \in BOOLEAN,
                StartChild(o, p, r, stripped)
      PROVE  LeasesAreCarried'
  BY <1>12 DEF StartChild, NextFree
<1>13. CASE UNCHANGED opVars
  BY <1>13, <1>1 DEF opVars
<1> HIDE DEF OpTypeOK, GateIsOne, LeasesAreCarried, AdmissionStages
<1> QED
  BY <1>1, <1>2, <1>3, <1>4, <1>5, <1>6, <1>7, <1>8, <1>9, <1>10, <1>11, <1>12, <1>13 DEF OpNext

\* writer.lock is opened when nobody has it, and passed on by inheritance only.
LEMMA WriterStep == OpTypeOK /\ GateIsOne /\ LeasesAreCarried /\ WriterIsOne /\
  [OpNext]_opVars => WriterIsOne'
<1> SUFFICES ASSUME OpTypeOK, GateIsOne, LeasesAreCarried, WriterIsOne, [OpNext]_opVars
             PROVE  WriterIsOne'
  OBVIOUS
<1> USE DEF OpTypeOK, GateIsOne, LeasesAreCarried, WriterIsOne, AdmissionStages, PastInspection
<1>1. CASE UNCHANGED <<stage, ask, carries, writer, gate>>
  BY <1>1
<1>2. ASSUME NEW o \in Op, StepInside(o) PROVE WriterIsOne'
  BY <1>2 DEF StepInside
<1>3. ASSUME NEW o \in Op, TakeGate(o) PROVE WriterIsOne'
  <2>1. stage[o] = "asks" /\ UNCHANGED <<ask, lease>>
    BY <1>3 DEF TakeGate
  <2>2. CASE Leave(o)
    BY <2>1, <2>2
  <2>3. CASE gate = 0 /\ gate' = o /\ stage' = [stage EXCEPT ![o] = "gates"]
             /\ UNCHANGED <<carries, writer, found>>
    <3>1. stage'[o] = "gates" /\ \A q \in Op : q # o => stage'[q] = stage[q]
      BY <2>3
    <3> QED BY <2>1, <2>3, <3>1
  <2> QED BY <1>3, <2>2, <2>3 DEF TakeGate
<1>4. ASSUME NEW o \in Op, TakeWriter(o) PROVE WriterIsOne'
  BY <1>4 DEF TakeWriter, TakesWriter, WriterHeld
<1>5. ASSUME NEW o \in Op, InspectLeases(o) PROVE WriterIsOne'
  <2>1. stage[o] = "writes" /\ ask' = ask
    BY <1>5 DEF InspectLeases
  <2>2. CASE /\ stage' = [stage EXCEPT ![o] = "inspected"]
             /\ UNCHANGED <<gate, carries, writer>>
    BY <2>1, <2>2 DEF Leases, Same
  <2>3. CASE Leave(o)
    BY <2>1, <2>3 DEF Leave, Leases, Same
  <2> QED BY <1>5, <2>2, <2>3 DEF InspectLeases
<1>6. ASSUME NEW o \in Op, CreateLease(o) PROVE WriterIsOne'
  BY <1>6 DEF CreateLease, Gated
<1>7. ASSUME NEW o \in Op, LockLease(o) PROVE WriterIsOne'
  BY <1>7 DEF LockLease
<1>8. ASSUME NEW o \in Op, PruneEnds(o) PROVE WriterIsOne'
  BY <1>8 DEF PruneEnds
<1>9. ASSUME NEW o \in Op, EnterOperation(o) PROVE WriterIsOne'
  BY <1>9 DEF EnterOperation
<1>10. ASSUME NEW o \in Op, OpEnds(o) PROVE WriterIsOne'
  BY <1>10 DEF OpEnds
<1>11. ASSUME NEW o \in Op, NEW r \in Requests, StartOp(o, r) PROVE WriterIsOne'
  BY <1>11 DEF StartOp, NextFree
<1>12. ASSUME NEW o \in Op, NEW p \in Op, NEW r \in Requests, NEW stripped \in BOOLEAN,
                StartChild(o, p, r, stripped)
      PROVE  WriterIsOne'
  BY <1>12 DEF StartChild, NextFree
<1>13. CASE UNCHANGED opVars
  BY <1>13, <1>1 DEF opVars
<1> HIDE DEF OpTypeOK, GateIsOne, LeasesAreCarried, WriterIsOne, AdmissionStages, PastInspection
<1> QED
  BY <1>1, <1>2, <1>3, <1>4, <1>5, <1>6, <1>7, <1>8, <1>9, <1>10, <1>11, <1>12, <1>13 DEF OpNext

\* An exclusive operation looks, and whoever comes later inherits its writer.lock.
LEMMA OthersStep == OpTypeOK /\ GateIsOne /\ LeasesAreCarried /\ WriterIsOne /\ OthersInherit /\
  [OpNext]_opVars => OthersInherit'
<1> SUFFICES ASSUME OpTypeOK, GateIsOne, LeasesAreCarried, WriterIsOne, OthersInherit,
                    [OpNext]_opVars PROVE OthersInherit'
  OBVIOUS
<1> USE DEF OpTypeOK, GateIsOne, LeasesAreCarried, WriterIsOne, OthersInherit, AdmissionStages,
            PastInspection
<1>1. CASE UNCHANGED <<stage, ask, carries, writer>>
  BY <1>1
<1>2. ASSUME NEW o \in Op, StepInside(o) PROVE OthersInherit'
  BY <1>2 DEF StepInside
<1>3. ASSUME NEW o \in Op, TakeGate(o) PROVE OthersInherit'
  BY <1>3 DEF TakeGate
<1>4. ASSUME NEW o \in Op, TakeWriter(o) PROVE OthersInherit'
  BY <1>4 DEF TakeWriter
<1>5. ASSUME NEW o \in Op, InspectLeases(o) PROVE OthersInherit'
  BY <1>5 DEF InspectLeases, LeaseHeld, Conflict
<1>6. ASSUME NEW o \in Op, CreateLease(o) PROVE OthersInherit'
  BY <1>6 DEF CreateLease
<1>7. ASSUME NEW o \in Op, LockLease(o) PROVE OthersInherit'
  BY <1>7 DEF LockLease
<1>8. ASSUME NEW o \in Op, PruneEnds(o) PROVE OthersInherit'
  BY <1>8 DEF PruneEnds
<1>9. ASSUME NEW o \in Op, EnterOperation(o) PROVE OthersInherit'
  BY <1>9 DEF EnterOperation
<1>10. ASSUME NEW o \in Op, OpEnds(o) PROVE OthersInherit'
  BY <1>10 DEF OpEnds
<1>11. ASSUME NEW o \in Op, NEW r \in Requests, StartOp(o, r) PROVE OthersInherit'
  BY <1>11 DEF StartOp, NextFree
<1>12. ASSUME NEW o \in Op, NEW p \in Op, NEW r \in Requests, NEW stripped \in BOOLEAN,
                StartChild(o, p, r, stripped)
      PROVE  OthersInherit'
  BY <1>12 DEF StartChild, NextFree
<1>13. CASE UNCHANGED opVars
  BY <1>13, <1>1 DEF opVars
<1> QED
  BY <1>1, <1>2, <1>3, <1>4, <1>5, <1>6, <1>7, <1>8, <1>9, <1>10, <1>11, <1>12, <1>13 DEF OpNext

\* Nobody comes in past the operation in the mutex.
LEMMA NobodyStep == OpTypeOK /\ GateIsOne /\ LeasesAreCarried /\ NobodyIsNobody /\
  [OpNext]_opVars => NobodyIsNobody'
<1> SUFFICES ASSUME OpTypeOK, GateIsOne, LeasesAreCarried, NobodyIsNobody, [OpNext]_opVars
             PROVE  NobodyIsNobody'
  OBVIOUS
<1> USE DEF OpTypeOK, GateIsOne, LeasesAreCarried, NobodyIsNobody, AdmissionStages
<1>1. CASE UNCHANGED <<stage, carries, found>>
  BY <1>1
<1>2. ASSUME NEW o \in Op, StepInside(o) PROVE NobodyIsNobody'
  BY <1>2 DEF StepInside
<1>3. ASSUME NEW o \in Op, TakeGate(o) PROVE NobodyIsNobody'
  <2>1. stage[o] = "asks" /\ UNCHANGED <<ask, lease>>
    BY <1>3 DEF TakeGate
  <2>2. CASE Leave(o)
    BY <2>1, <2>2
  <2>3. CASE gate = 0 /\ gate' = o /\ stage' = [stage EXCEPT ![o] = "gates"]
             /\ UNCHANGED <<carries, writer, found>>
    <3>1. stage'[o] = "gates" /\ \A q \in Op : q # o => stage'[q] = stage[q]
      BY <2>3
    <3> QED BY <2>1, <2>3, <3>1
  <2> QED BY <1>3, <2>2, <2>3 DEF TakeGate
<1>4. ASSUME NEW o \in Op, TakeWriter(o) PROVE NobodyIsNobody'
  BY <1>4 DEF TakeWriter
<1>5. ASSUME NEW o \in Op, InspectLeases(o) PROVE NobodyIsNobody'
  <2> USE <1>5 DEF InspectLeases
  <2>1. \A q \in Op : carries'[q] \in {carries[q], {}}
    OBVIOUS
  <2>2. \A q \in Op \ {o} : stage'[q] = stage[q] /\ found'[q] = found[q]
    OBVIOUS
  <2>3. /\ stage'[o] # "prunes"
        /\ \A q \in Op \ {o} : stage[q] \notin {"inspected", "created", "prunes"}
    OBVIOUS
  <2>4. ASSUME o \notin HookOps, stage'[o] = "inspected", found'[o] = {}
        PROVE  \A q \in Op : carries[q] = {}
    BY <2>4 DEF LeaseHeld
  <2> QED BY <2>1, <2>2, <2>3, <2>4
<1>6. ASSUME NEW o \in Op, CreateLease(o) PROVE NobodyIsNobody'
  BY <1>6 DEF CreateLease
<1>7. ASSUME NEW o \in Op, LockLease(o) PROVE NobodyIsNobody'
  BY <1>7 DEF LockLease, Prunes
<1>8. ASSUME NEW o \in Op, PruneEnds(o) PROVE NobodyIsNobody'
  BY <1>8 DEF PruneEnds
<1>9. ASSUME NEW o \in Op, EnterOperation(o) PROVE NobodyIsNobody'
  BY <1>9 DEF EnterOperation
<1>10. ASSUME NEW o \in Op, OpEnds(o) PROVE NobodyIsNobody'
  BY <1>10 DEF OpEnds
<1>11. ASSUME NEW o \in Op, NEW r \in Requests, StartOp(o, r) PROVE NobodyIsNobody'
  BY <1>11 DEF StartOp, NextFree
<1>12. ASSUME NEW o \in Op, NEW p \in Op, NEW r \in Requests, NEW stripped \in BOOLEAN,
                StartChild(o, p, r, stripped)
      PROVE  NobodyIsNobody'
  BY <1>12 DEF StartChild, NextFree
<1>13. CASE UNCHANGED opVars
  BY <1>13, <1>1 DEF opVars
<1> HIDE DEF OpTypeOK, GateIsOne, LeasesAreCarried, NobodyIsNobody, AdmissionStages
<1> QED
  BY <1>1, <1>2, <1>3, <1>4, <1>5, <1>6, <1>7, <1>8, <1>9, <1>10, <1>11, <1>12, <1>13 DEF OpNext

\* Nobody has asked yet.
LEMMA OpInitInv == OpInit => OpInv
<1> SUFFICES ASSUME OpInit PROVE OpInv
  OBVIOUS
<1> USE DEF OpInit
<1>1. OpTypeOK
  BY DEF OpTypeOK, Requests
<1>2. GateIsOne /\ LeasesAreCarried /\ WriterIsOne
  BY DEF GateIsOne, LeasesAreCarried, WriterIsOne, AdmissionStages, PastInspection
<1>3. OthersInherit /\ NobodyIsNobody
  BY DEF OthersInherit, NobodyIsNobody, PastInspection
<1> QED BY <1>1, <1>2, <1>3 DEF OpInv

\* The invariant holds of every behaviour.
LEMMA OpStep == OpInv /\ [OpNext]_opVars => OpInv'
  BY OpTypeStep, GateStep, LeaseStep, WriterStep, OthersStep, NobodyStep DEF OpInv

\* Gates, leases, writers and what an inspection saw agree in every state of the
\* operations of a checkout.
THEOREM OpInvariant == OpSpec => []OpInv
  BY OpInitInv, OpStep, PTL DEF OpSpec

----------------------------------------------------------------------------
(* Operations: the properties.                                             *)

\* Every process inside beside an exclusive one carries the same writer.lock, or
\* one of the leases the exclusive one carries is its own.
LEMMA WritersFollow == OpInv => WritersAreAlone
<1> SUFFICES ASSUME OpInv PROVE WritersAreAlone
  OBVIOUS
<1> USE DEF OpInv, WriterIsOne, OthersInherit, PastInspection
<1>1. ASSUME NEW o \in Op, NEW q \in Op, stage[o] = "in", ask[o].excl, q \in carries[q],
             q \notin carries[o]
      PROVE  writer[q] = writer[o] /\ writer[o] # 0
  <2>1. writer[o] # 0 /\ writer[q] # 0
    BY <1>1
  <2> QED BY <2>1
<1> QED BY <1>1 DEF WritersAreAlone

\* While a process works under writer.lock every other operation inside is one
\* whose lease it carries or that shares that lock.
THEOREM WritersStayAlone == OpSpec => []WritersAreAlone
  BY OpInvariant, WritersFollow, PTL

\* A lease that is carried is there.
LEMMA LeasesFollow == OpInv => LiveLeasesAreSeen
  BY DEF OpInv, LeasesAreCarried, LiveLeasesAreSeen, LeaseHeld

\* No inspection and no exit removes the lease of an operation that still has a
\* process.
THEOREM LiveLeasesStay == OpSpec => []LiveLeasesAreSeen
  BY OpInvariant, LeasesFollow, PTL

\* Whoever is inside carries a lease, and nobody does while another prunes.
LEMMA PruneFollows == OpInv => PruneIsAlone
  BY DEF OpInv, LeasesAreCarried, NobodyIsNobody, PruneIsAlone

\* While an admission prunes the caches nobody else works in the checkout.
THEOREM PruneStaysAlone == OpSpec => []PruneIsAlone
  BY OpInvariant, PruneFollows, PTL

----------------------------------------------------------------------------
(* Executables: the invariant.                                             *)

\* Who holds the gates of the scopes and of the pool.
GatesAgree ==
  /\ \A s \in AssetScope : acquirer[s] # "idle" <=> scopeGate[s] = "client"
  /\ \A s \in AssetScope : scopeGate[s] = "sweeper" <=> visited = s
  /\ visited # None <=> sweeper \in {"judges", "entries"}
  /\ \A s \in AssetScope : acquirer[s] = "links" <=> poolGate = s
  /\ poolGate = "sweeper" <=> sweeper = "pool"

\* What an acquisition brings is there from its link to its controller, and a
\* plan with a claim behind it names something that is there.
BroughtIsThere ==
  /\ \A s \in AssetScope : acquirer[s] # "idle" => wants[s] \in Tools
  /\ \A s \in AssetScope : acquirer[s] \in {"saves", "starts"} => wants[s] \in Have(s)
  /\ \A s \in AssetScope : acquirer[s] = "starts" => plan[s] # None /\ receipts[s]
  /\ \A s \in AssetScope : ownerOf[s] # None => receipts[s]
  /\ ToolsStay

\* The opinion of a scope stays true while the collector has its gate.
OpinionHolds ==
  sweeper = "entries" =>
    /\ ownerOf[visited] = None /\ ~receipts[visited]
    /\ recovery[visited] /\ plan[visited] # None =>
         plan[visited] \in opinion.keep /\ ~opinion.abandoned

AssetInv == AssetTypeOK /\ GatesAgree /\ BroughtIsThere /\ OpinionHolds /\ PoolEntryStays

\* No name stands for two things.
LEMMA AssetNames == None \notin Tools /\ None \notin AssetScope /\ "free" \notin AssetScope
                    /\ "sweeper" \notin AssetScope
  BY AssetAssumption

USE AssetNames DEF diskVars, assetScopeVars, sweepState, LeaveScope, Nothing, Have

\* Every step keeps every variable in its type.
LEMMA AssetTypeStep == AssetTypeOK /\ GatesAgree /\ BroughtIsThere /\
  [AssetNext]_assetVars => AssetTypeOK'
<1> SUFFICES ASSUME AssetTypeOK, GatesAgree, BroughtIsThere, [AssetNext]_assetVars
             PROVE  AssetTypeOK'
  OBVIOUS
<1> USE DEF AssetTypeOK
<1> DEFINE Still == UNCHANGED <<generations, copied, shared, plan, recovery, ownerOf, receipts,
                          rooted, scopeGate, poolGate, acquirer, wants, sweeper, visited,
                          unvisited, leftovers, opinion>>
<1>1. CASE Still
  BY <1>1
<1>2. ASSUME NEW s \in AssetScope, NEW d \in Tools, EnterScope(s, d) PROVE AssetTypeOK'
  BY <1>2 DEF EnterScope
<1>3. ASSUME NEW s \in AssetScope, FillPool(s) PROVE AssetTypeOK'
  <2>1. wants[s] \in Tools
    BY <1>3 DEF FillPool, BroughtIsThere
  <2> QED BY <1>3, <2>1 DEF FillPool
<1>4. ASSUME NEW s \in AssetScope, StartOwner(s) PROVE AssetTypeOK'
  BY <1>4 DEF StartOwner
<1>5. ASSUME NEW s \in AssetScope, KillAcquire(s) PROVE AssetTypeOK'
  BY <1>5 DEF KillAcquire
<1>6. ASSUME NEW s \in AssetScope, ReleaseScope(s) PROVE AssetTypeOK'
  BY <1>6 DEF ReleaseScope
<1>7. ASSUME NEW s \in AssetScope, KillController(s) PROVE AssetTypeOK'
  BY <1>7 DEF KillController
<1>8. ASSUME NEW s \in AssetScope, MoveRoot(s) PROVE AssetTypeOK'
  BY <1>8 DEF MoveRoot
<1>9. ASSUME NEW s \in AssetScope, InspectScope(s) PROVE AssetTypeOK'
  BY <1>9 DEF InspectScope
<1>10. ASSUME NEW s \in AssetScope, NEW b \in BOOLEAN, LinkAsset(s, b) PROVE AssetTypeOK'
  <2>1. wants[s] \in Tools
    BY <1>10 DEF LinkAsset, BroughtIsThere
  <2> QED BY <1>10, <2>1 DEF LinkAsset
<1>11. ASSUME NEW s \in AssetScope, NEW b \in BOOLEAN, SavePlan(s, b) PROVE AssetTypeOK'
  BY <1>11 DEF SavePlan
<1>12. CASE StartSweep
  BY <1>12 DEF StartSweep
<1>13. CASE FinishScope
  BY <1>13 DEF FinishScope
<1>14. CASE LockSharedPool
  BY <1>14 DEF LockSharedPool
<1>15. CASE EndSweep
  BY <1>15 DEF EndSweep
<1>16. CASE KillSweep
  BY <1>16 DEF KillSweep
<1>17. ASSUME NEW gone \in BOOLEAN, JudgeScope(gone) PROVE AssetTypeOK'
  <2>1. visited \in AssetScope
    BY <1>17 DEF JudgeScope, GatesAgree
  <2>2. Have(visited) \subseteq Tools /\ References(visited) \subseteq Tools
    BY <2>1 DEF References
  <2>3. leftovers' \subseteq Tools /\ visited' \in AssetScope \cup {None}
    BY <1>17, <2>1, <2>2 DEF JudgeScope
  <2>4. opinion' \in [keep : SUBSET Tools, abandoned : BOOLEAN]
    <3> DEFINE K == IF gone /\ Abandoned(visited) THEN {} ELSE References(visited)
               b == gone /\ Abandoned(visited)
               f == FALSE
    <3>1. K \subseteq Tools
      BY <2>2
    <3>2. f \in BOOLEAN /\ b \in BOOLEAN
      BY <2>1, Zenon DEF Abandoned
    <3>3. opinion' = [keep |-> {}, abandoned |-> f] \/ opinion' = [keep |-> K, abandoned |-> b]
      BY <1>17 DEF JudgeScope
    <3> HIDE DEF K, b, f
    <3> QED BY <3>1, <3>2, <3>3
  <2> QED BY <1>17, <2>1, <2>3, <2>4 DEF JudgeScope
<1>18. ASSUME NEW d \in Tools, NEW b \in BOOLEAN, KeepEntry(d, b) PROVE AssetTypeOK'
  BY <1>18 DEF KeepEntry
<1>19. ASSUME NEW d \in Tools, RemoveEntry(d) PROVE AssetTypeOK'
  BY <1>19 DEF RemoveEntry
<1>20. ASSUME NEW d \in Tools, RemoveShared(d) PROVE AssetTypeOK'
  BY <1>20 DEF RemoveShared
<1>21. CASE UNCHANGED assetVars
  BY <1>21, <1>1 DEF assetVars
<1> HIDE DEF AssetTypeOK
<1> QED
  BY <1>1, <1>2, <1>3, <1>4, <1>5, <1>6, <1>7, <1>8, <1>9, <1>10, <1>11, <1>12, <1>13, <1>14,
     <1>15, <1>16, <1>17, <1>18, <1>19, <1>20, <1>21
     DEF AssetNext, AcquireStep, SweepAssets

\* Every gate has one holder, who knows that it is his.
LEMMA GatesStep == AssetTypeOK /\ GatesAgree /\ [AssetNext]_assetVars => GatesAgree'
<1> SUFFICES ASSUME AssetTypeOK, GatesAgree, [AssetNext]_assetVars PROVE GatesAgree'
  OBVIOUS
<1> USE DEF AssetTypeOK, GatesAgree
<1>1. CASE UNCHANGED <<scopeGate, poolGate, acquirer, sweeper, visited>>
  BY <1>1
<1>2. ASSUME NEW s \in AssetScope, NEW d \in Tools, EnterScope(s, d) PROVE GatesAgree'
  BY <1>2 DEF EnterScope
<1>3. ASSUME NEW s \in AssetScope, ReleaseScope(s) \/ KillController(s) \/ MoveRoot(s)
      PROVE  UNCHANGED <<scopeGate, poolGate, acquirer, sweeper, visited>>
  BY <1>3 DEF ReleaseScope, KillController, MoveRoot
<1>4. ASSUME NEW s \in AssetScope, FillPool(s) PROVE GatesAgree'
  BY <1>4 DEF FillPool
<1>5. ASSUME NEW s \in AssetScope, StartOwner(s) PROVE GatesAgree'
  BY <1>5 DEF StartOwner
<1>6. ASSUME NEW s \in AssetScope, KillAcquire(s) PROVE GatesAgree'
  BY <1>6 DEF KillAcquire
<1>7. ASSUME NEW s \in AssetScope, InspectScope(s) PROVE GatesAgree'
  BY <1>7 DEF InspectScope, Free
<1>8. ASSUME NEW s \in AssetScope, NEW b \in BOOLEAN, LinkAsset(s, b) PROVE GatesAgree'
  BY <1>8 DEF LinkAsset
<1>9. ASSUME NEW s \in AssetScope, NEW b \in BOOLEAN, SavePlan(s, b) PROVE GatesAgree'
  BY <1>9 DEF SavePlan
<1>10. CASE StartSweep
  BY <1>10 DEF StartSweep
<1>11. CASE FinishScope
  BY <1>11 DEF FinishScope
<1>12. CASE LockSharedPool
  BY <1>12 DEF LockSharedPool, PoolFree
<1>13. CASE EndSweep
  BY <1>13 DEF EndSweep
<1>14. CASE KillSweep
  BY <1>14 DEF KillSweep
<1>15. ASSUME NEW gone \in BOOLEAN, JudgeScope(gone) PROVE GatesAgree'
  BY <1>15 DEF JudgeScope
<1>16. ASSUME NEW d \in Tools, NEW b \in BOOLEAN, KeepEntry(d, b)
      PROVE  UNCHANGED <<scopeGate, poolGate, acquirer, sweeper, visited>>
  BY <1>16 DEF KeepEntry
<1>17. ASSUME NEW d \in Tools, RemoveEntry(d) \/ RemoveShared(d)
      PROVE  UNCHANGED <<scopeGate, poolGate, acquirer, sweeper, visited>>
  BY <1>17 DEF RemoveEntry, RemoveShared
<1>18. CASE UNCHANGED assetVars
  BY <1>18, <1>1 DEF assetVars
<1> HIDE DEF AssetTypeOK, GatesAgree
<1> QED
  BY <1>1, <1>2, <1>3, <1>4, <1>5, <1>6, <1>7, <1>8, <1>9, <1>10, <1>11, <1>12, <1>13, <1>14,
     <1>15, <1>16, <1>17, <1>18
     DEF AssetNext, AcquireStep, SweepAssets

\* The collector removes from the pool under its gate only.
LEMMA PoolStep == AssetTypeOK /\ GatesAgree /\ PoolEntryStays /\
  [AssetNext]_assetVars => PoolEntryStays'
<1> SUFFICES ASSUME AssetTypeOK, GatesAgree, PoolEntryStays, [AssetNext]_assetVars
             PROVE  PoolEntryStays'
  OBVIOUS
<1> USE DEF AssetTypeOK, GatesAgree, PoolEntryStays
<1>1. CASE UNCHANGED <<acquirer, wants, shared>>
  BY <1>1
<1>2. ASSUME NEW s \in AssetScope, NEW d \in Tools, EnterScope(s, d) PROVE PoolEntryStays'
  BY <1>2 DEF EnterScope
<1>3. ASSUME NEW s \in AssetScope, ReleaseScope(s) \/ KillController(s) \/ MoveRoot(s)
            \/ InspectScope(s)
      PROVE  UNCHANGED <<acquirer, wants, shared>>
  BY <1>3 DEF ReleaseScope, KillController, MoveRoot, InspectScope
<1>4. ASSUME NEW s \in AssetScope, FillPool(s) PROVE PoolEntryStays'
  BY <1>4 DEF FillPool
<1>5. ASSUME NEW s \in AssetScope, StartOwner(s) PROVE PoolEntryStays'
  BY <1>5 DEF StartOwner
<1>6. ASSUME NEW s \in AssetScope, KillAcquire(s) PROVE PoolEntryStays'
  BY <1>6 DEF KillAcquire
<1>7. ASSUME NEW s \in AssetScope, NEW b \in BOOLEAN, LinkAsset(s, b) PROVE PoolEntryStays'
  BY <1>7 DEF LinkAsset
<1>8. ASSUME NEW s \in AssetScope, NEW b \in BOOLEAN, SavePlan(s, b) PROVE PoolEntryStays'
  BY <1>8 DEF SavePlan
<1>9. ASSUME StartSweep \/ FinishScope \/ LockSharedPool \/ EndSweep \/ KillSweep
      PROVE  UNCHANGED <<acquirer, wants, shared>>
  BY <1>9 DEF StartSweep, FinishScope, LockSharedPool, EndSweep, KillSweep
<1>10. ASSUME NEW gone \in BOOLEAN, JudgeScope(gone)
      PROVE  UNCHANGED <<acquirer, wants, shared>>
  BY <1>10 DEF JudgeScope
<1>11. ASSUME NEW d \in Tools, NEW b \in BOOLEAN, KeepEntry(d, b) PROVE PoolEntryStays'
  BY <1>11 DEF KeepEntry
<1>12. ASSUME NEW d \in Tools, RemoveEntry(d)
      PROVE  UNCHANGED <<acquirer, wants, shared>>
  BY <1>12 DEF RemoveEntry
<1>13. ASSUME NEW d \in Tools, RemoveShared(d) PROVE PoolEntryStays'
  BY <1>13 DEF RemoveShared
<1>14. CASE UNCHANGED assetVars
  BY <1>14, <1>1 DEF assetVars
<1> HIDE DEF AssetTypeOK, GatesAgree, PoolEntryStays
<1> QED
  BY <1>1, <1>2, <1>3, <1>4, <1>5, <1>6, <1>7, <1>8, <1>9, <1>10, <1>11, <1>12, <1>13, <1>14
     DEF AssetNext, AcquireStep, SweepAssets

\* What a claim needs is neither removed nor forgotten.
LEMMA BroughtStep == AssetTypeOK /\ GatesAgree /\ OpinionHolds /\ BroughtIsThere /\
  [AssetNext]_assetVars => BroughtIsThere'
<1> SUFFICES ASSUME AssetTypeOK, GatesAgree, OpinionHolds, BroughtIsThere, [AssetNext]_assetVars
             PROVE  BroughtIsThere'
  OBVIOUS
<1> USE DEF AssetTypeOK, GatesAgree, OpinionHolds, BroughtIsThere, ToolsStay
<1> DEFINE Still == UNCHANGED <<generations, copied, plan, recovery, ownerOf, receipts, acquirer,
                          wants>>
<1>1. CASE Still
  BY <1>1
<1>2. ASSUME NEW s \in AssetScope, NEW d \in Tools, EnterScope(s, d) PROVE BroughtIsThere'
  BY <1>2 DEF EnterScope
<1>3. ASSUME NEW s \in AssetScope, MoveRoot(s) \/ InspectScope(s)
      PROVE  Still
  BY <1>3 DEF MoveRoot, InspectScope
<1>4. ASSUME NEW s \in AssetScope, FillPool(s) PROVE BroughtIsThere'
  BY <1>4 DEF FillPool
<1>5. ASSUME NEW s \in AssetScope, StartOwner(s) PROVE BroughtIsThere'
  BY <1>5 DEF StartOwner
<1>6. ASSUME NEW s \in AssetScope, KillAcquire(s) PROVE BroughtIsThere'
  BY <1>6 DEF KillAcquire
<1>7. ASSUME NEW s \in AssetScope, ReleaseScope(s) PROVE BroughtIsThere'
  BY <1>7 DEF ReleaseScope
<1>8. ASSUME NEW s \in AssetScope, KillController(s) PROVE BroughtIsThere'
  BY <1>8 DEF KillController
<1>9. ASSUME NEW s \in AssetScope, NEW b \in BOOLEAN, LinkAsset(s, b) PROVE BroughtIsThere'
  BY <1>9 DEF LinkAsset
<1>10. ASSUME NEW s \in AssetScope, NEW b \in BOOLEAN, SavePlan(s, b) PROVE BroughtIsThere'
  BY <1>10 DEF SavePlan
<1>11. ASSUME StartSweep \/ LockSharedPool \/ EndSweep \/ KillSweep
      PROVE  Still
  BY <1>11 DEF StartSweep, LockSharedPool, EndSweep, KillSweep
<1>12. CASE FinishScope
  BY <1>12 DEF FinishScope
<1>13. ASSUME NEW gone \in BOOLEAN, JudgeScope(gone)
      PROVE  Still
  BY <1>13 DEF JudgeScope
<1>14. ASSUME NEW d \in Tools, NEW b \in BOOLEAN, KeepEntry(d, b) PROVE BroughtIsThere'
  BY <1>14 DEF KeepEntry
<1>15. ASSUME NEW d \in Tools, RemoveShared(d)
      PROVE  Still
  BY <1>15 DEF RemoveShared
<1>16. ASSUME NEW d \in Tools, RemoveEntry(d) PROVE BroughtIsThere'
  BY <1>16 DEF RemoveEntry
<1>17. CASE UNCHANGED assetVars
  BY <1>17, <1>1 DEF assetVars
<1> HIDE DEF AssetTypeOK, GatesAgree, OpinionHolds, BroughtIsThere, ToolsStay
<1> QED
  BY <1>1, <1>2, <1>3, <1>4, <1>5, <1>6, <1>7, <1>8, <1>9, <1>10, <1>11, <1>12, <1>13, <1>14,
     <1>15, <1>16, <1>17
     DEF AssetNext, AcquireStep, SweepAssets

\* Nobody changes a scope under the collector's gate.
LEMMA OpinionStep == AssetTypeOK /\ GatesAgree /\ OpinionHolds /\
  [AssetNext]_assetVars => OpinionHolds'
<1> SUFFICES ASSUME AssetTypeOK, GatesAgree, OpinionHolds, [AssetNext]_assetVars
             PROVE  OpinionHolds'
  OBVIOUS
<1> USE DEF AssetTypeOK, GatesAgree, OpinionHolds
<1>1. CASE UNCHANGED <<plan, recovery, ownerOf, receipts, sweeper, visited, opinion>>
  BY <1>1
<1>2. ASSUME NEW s \in AssetScope, NEW d \in Tools, EnterScope(s, d)
      PROVE  UNCHANGED <<plan, recovery, ownerOf, receipts, sweeper, visited, opinion>>
  BY <1>2 DEF EnterScope
<1>3. ASSUME NEW s \in AssetScope, FillPool(s) \/ KillAcquire(s) \/ MoveRoot(s)
      PROVE  UNCHANGED <<plan, recovery, ownerOf, receipts, sweeper, visited, opinion>>
  BY <1>3 DEF FillPool, KillAcquire, MoveRoot
<1>4. ASSUME NEW s \in AssetScope, StartOwner(s) PROVE OpinionHolds'
  BY <1>4 DEF StartOwner
<1>5. ASSUME NEW s \in AssetScope, ReleaseScope(s) PROVE OpinionHolds'
  BY <1>5 DEF ReleaseScope
<1>6. ASSUME NEW s \in AssetScope, KillController(s) PROVE OpinionHolds'
  BY <1>6 DEF KillController
<1>7. ASSUME NEW s \in AssetScope, InspectScope(s) PROVE OpinionHolds'
  BY <1>7 DEF InspectScope
<1>8. ASSUME NEW s \in AssetScope, NEW b \in BOOLEAN, LinkAsset(s, b)
      PROVE  UNCHANGED <<plan, recovery, ownerOf, receipts, sweeper, visited, opinion>>
  BY <1>8 DEF LinkAsset
<1>9. ASSUME NEW s \in AssetScope, NEW b \in BOOLEAN, SavePlan(s, b) PROVE OpinionHolds'
  BY <1>9 DEF SavePlan
<1>10. CASE StartSweep
  BY <1>10 DEF StartSweep
<1>11. CASE FinishScope
  BY <1>11 DEF FinishScope
<1>12. CASE LockSharedPool
  BY <1>12 DEF LockSharedPool
<1>13. CASE EndSweep
  BY <1>13 DEF EndSweep
<1>14. CASE KillSweep
  BY <1>14 DEF KillSweep
<1>15. ASSUME NEW gone \in BOOLEAN, JudgeScope(gone) PROVE OpinionHolds'
  BY <1>15 DEF JudgeScope, References, Abandoned, ScopeActive
<1>16. ASSUME NEW d \in Tools, NEW b \in BOOLEAN, KeepEntry(d, b)
      PROVE  UNCHANGED <<plan, recovery, ownerOf, receipts, sweeper, visited, opinion>>
  BY <1>16 DEF KeepEntry
<1>17. ASSUME NEW d \in Tools, RemoveEntry(d) \/ RemoveShared(d)
      PROVE  UNCHANGED <<plan, recovery, ownerOf, receipts, sweeper, visited, opinion>>
  BY <1>17 DEF RemoveEntry, RemoveShared
<1>18. CASE UNCHANGED assetVars
  BY <1>18, <1>1 DEF assetVars
<1> HIDE DEF AssetTypeOK, GatesAgree, OpinionHolds
<1> QED
  BY <1>1, <1>2, <1>3, <1>4, <1>5, <1>6, <1>7, <1>8, <1>9, <1>10, <1>11, <1>12, <1>13, <1>14,
     <1>15, <1>16, <1>17, <1>18
     DEF AssetNext, AcquireStep, SweepAssets

\* Nothing has been brought yet.
LEMMA AssetInitInv == AssetInit => AssetInv
<1> SUFFICES ASSUME AssetInit PROVE AssetInv
  OBVIOUS
<1> USE DEF AssetInit
<1>1. AssetTypeOK
  BY DEF AssetTypeOK
<1>2. GatesAgree
  BY DEF GatesAgree
<1>3. BroughtIsThere /\ OpinionHolds /\ PoolEntryStays
  BY DEF BroughtIsThere, ToolsStay, OpinionHolds, PoolEntryStays
<1> QED BY <1>1, <1>2, <1>3 DEF AssetInv

\* The invariant holds of every behaviour.
LEMMA AssetStep == AssetInv /\ [AssetNext]_assetVars => AssetInv'
  BY AssetTypeStep, GatesStep, PoolStep, BroughtStep, OpinionStep DEF AssetInv

\* What plans, controllers and installers hold of the pool is in the pool, in
\* every state of installation and collection.
THEOREM AssetInvariant == AssetSpec => []AssetInv
  BY AssetInitInv, AssetStep, PTL DEF AssetSpec

----------------------------------------------------------------------------
(* Executables: the properties.                                            *)

\* The executable a controller was started from, and the one a plan with a claim,
\* a receipt or an identity names, are still in their scope.
THEOREM UsedToolsStay == AssetSpec => []ToolsStay
<1>1. AssetInv => ToolsStay
  BY DEF AssetInv, BroughtIsThere
<1> QED BY AssetInvariant, <1>1, PTL

\* An installer that has verified a pool entry finds it when it makes the link.
THEOREM VerifiedEntryStays == AssetSpec => []PoolEntryStays
<1>1. AssetInv => PoolEntryStays
  BY DEF AssetInv
<1> QED BY AssetInvariant, <1>1, PTL

----------------------------------------------------------------------------
(* The candidate cache: the invariant.                                     *)

\* What a collection has found out of an entry: nobody holds it, and the older
\* runtime cannot mistake it.
Inspecting == {"bound", "listed", "idle"}
InspectedIsFree ==
  /\ GateFree => \A c \in Candidate : cacheGate.seen[c] = "unseen"
  /\ \A c \in Candidate : cacheGate.seen[c] \in Inspecting =>
       /\ slots[c].is = "whole" /\ ~Leased(c)
       /\ slots[c].schema = 1 => slots[c].guard = "installed"

\* Containers of a candidate mean an engine in its receipt, whatever its context.
ContainersAreNamed ==
  \A c \in Candidate : slots[c].is = "whole" /\ pods[c] # {} => slots[c].engine # NoUser

\* As long as the context has moved once at most, an engine that answers as the one
\* that was registered is the one that all the containers are on.
ContextFound ==
  /\ switches = 0 => \A c \in Candidate :
       slots[c].is = "whole" => slots[c].engine \in {NoUser, "unbound", context}
  /\ switches <= 1 => \A c \in Candidate :
       /\ slots[c].is = "whole" /\ slots[c].engine = context => pods[c] \subseteq {context}
       /\ cacheGate.seen[c] = "listed" /\ slots[c].engine = context => pods[c] = {}
       /\ cacheGate.seen[c] = "idle" => pods[c] = {}

EntryStates == [is : {"absent", "whole", "torn"}, schema : {1, 2},
                engine : Daemon \cup {NoUser, "unbound"},
                guard : {"no", "named", "installed"}, due : BOOLEAN]
HolderStates == [at : {"new", "start", "work", "finish", "last", "end"},
              c : Candidate \cup {NoUser}, old : BOOLEAN,
              mode : {"EX", "SH"}, child : BOOLEAN,
              adapter : {NoUser, "closed", "leased"}]
Sights == {"unseen", "skip", "active", "error", "bound", "listed", "idle"}
CollectorStates == [by : Update \cup {NoUser, "prune"}, all : BOOLEAN, seen : [Candidate -> Sights]]
CacheTyped ==
  /\ slots \in [Candidate -> EntryStates] /\ upd \in [Update -> HolderStates]
  /\ pods \in [Candidate -> SUBSET Daemon]
  /\ context \in Daemon \cup {"down"} /\ switches \in 0..MaxSwitches
  /\ cacheGate \in CollectorStates

CacheInv == /\ CacheTyped /\ InspectedIsFree /\ ContainersAreNamed /\ ContextFound
            /\ OneSupervisor /\ LegacyOwnsItsReceipt /\ EnginesAreBound
LeasedKept ==
  [][\A c \in Candidate :
       slots[c].is = "whole" /\ slots'[c].is # "whole" => ~Leased(c)]_cacheVars

----------------------------------------------------------------------------
(* The candidate cache: every step keeps it.                               *)

\* Marking an entry, as removal, expiry and finishing do, keeps it an entry.
LEMMA EntryMarks ==
  ASSUME NEW r \in EntryStates
  PROVE  /\ [r EXCEPT !.is = "torn"] \in EntryStates
         /\ \A b \in BOOLEAN : [r EXCEPT !.due = b] \in EntryStates
BY DEF EntryStates

\* Every variable keeps its type.
LEMMA CacheTypedStep == CacheTyped /\ [CacheNext]_cacheVars => CacheTyped'
<1> SUFFICES ASSUME CacheTyped, [CacheNext]_cacheVars PROVE CacheTyped'
  OBVIOUS
<1> USE DEF CacheTyped
<1>n. NoCandidate \in EntryStates
  BY DEF NoCandidate, EntryStates
<1>e. ASSUME NEW c \in Candidate, NEW r \in EntryStates, slots' = [slots EXCEPT ![c] = r]
      PROVE  slots' \in [Candidate -> EntryStates]
  BY <1>e
<1>g. ASSUME NEW c \in Candidate, NEW s \in Sights, cacheGate' = [cacheGate EXCEPT !.seen[c] = s]
      PROVE  cacheGate' \in CollectorStates
  BY <1>g DEF CollectorStates
<1>0. /\ \A c \in Candidate : slots[c] \in EntryStates
      /\ \A u \in Update : upd[u] \in HolderStates
      /\ NobodyIn \in CollectorStates
  BY DEF NobodyIn, CollectorStates, Sights
<1>1. CASE UNCHANGED cacheVars
  BY <1>1 DEF cacheVars
<1>2. ASSUME NEW who, NEW all \in BOOLEAN, CollectBegin(who, all) PROVE CacheTyped'
  BY <1>2, <1>0 DEF CollectBegin, CollectorStates, NobodyIn
<1>3. CASE CollectEnd
  <2>1. ASSUME NEW u \in Update
        PROVE  [upd[u] EXCEPT !.at = IF @ = "new" THEN "start" ELSE "end"] \in HolderStates
    BY <1>0 DEF HolderStates
  <2>2. upd' \in [Update -> HolderStates]
    BY <1>3, <2>1 DEF CollectEnd
  <2> QED BY <1>3, <1>0, <2>2 DEF CollectEnd
<1>4. CASE SwitchContext
  BY <1>4, CacheAssumption DEF SwitchContext
<1>5. ASSUME NEW c \in Candidate, CollectLease(c) PROVE CacheTyped'
  <2>1. PICK r \in IF slots[c].is = "whole" THEN Guarded(c) ELSE {slots[c]} :
          slots' = [slots EXCEPT ![c] = r]
    BY <1>5 DEF CollectLease
  <2>2. r \in EntryStates
    BY <1>0, <2>1 DEF Guarded, Protect, EntryStates
  <2>3. PICK s \in Sights : cacheGate' = [cacheGate EXCEPT !.seen[c] = s]
    BY <1>5 DEF CollectLease, EngineVerdict, Sights
  <2> QED BY <1>5, <1>e, <1>g, <2>1, <2>2, <2>3 DEF CollectLease
<1>6. ASSUME NEW c \in Candidate, CollectInventory(c) PROVE CacheTyped'
  <2>1. PICK s \in Sights : cacheGate' = [cacheGate EXCEPT !.seen[c] = s]
    BY <1>6 DEF CollectInventory, Recheck, Sights
  <2> QED BY <1>6, <1>g, <2>1 DEF CollectInventory
<1>7. ASSUME NEW c \in Candidate, CollectRemove(c) PROVE CacheTyped'
  <2>1. [slots[c] EXCEPT !.is = "torn"] \in EntryStates
    BY <1>0, EntryMarks
  <2>2. slots' \in [Candidate -> EntryStates]
    BY <1>7, <1>e, <1>n, <2>1 DEF CollectRemove
  <2>3. cacheGate' \in CollectorStates
    BY <1>7, <1>g DEF CollectRemove, Sights
  <2> QED BY <1>7, <2>2, <2>3 DEF CollectRemove
<1>8. ASSUME NEW c \in Candidate, CollectKilled(c) PROVE CacheTyped'
  <2>1. PICK r \in Interrupted(slots[c]) : slots' = [slots EXCEPT ![c] = r]
    BY <1>8 DEF CollectKilled
  <2>2. r \in EntryStates
    BY <1>0, <2>1 DEF Interrupted, EntryStates
  <2> QED BY <1>8, <1>0, <1>e, <2>1, <2>2 DEF CollectKilled
<1>9. ASSUME NEW c \in Candidate, OldCollect(c) PROVE CacheTyped'
  BY <1>9, <1>n DEF OldCollect
<1>10. ASSUME NEW c \in Candidate, ContainerGone(c) PROVE CacheTyped'
  BY <1>10 DEF ContainerGone
<1>11. ASSUME NEW c \in Candidate, Expire(c) PROVE CacheTyped'
  <2>1. [slots[c] EXCEPT !.due = TRUE] \in EntryStates
    BY <1>0, EntryMarks
  <2> QED BY <1>11, <2>1 DEF Expire
<1>12. ASSUME NEW u \in Update, CommandEnds(u) \/ SupervisorDies(u) PROVE CacheTyped'
  <2>1. PICK at \in {"finish", "end"} : upd' = [upd EXCEPT ![u].at = at]
    BY <1>12 DEF CommandEnds, SupervisorDies
  <2>2. [upd[u] EXCEPT !.at = at] \in HolderStates
    BY <1>0 DEF HolderStates
  <2> QED BY <1>12, <2>1, <2>2 DEF CommandEnds, SupervisorDies
<1>13. ASSUME NEW u \in Update, SpawnChild(u) \/ Detach(u) \/ ProcessesExit(u) PROVE CacheTyped'
  <2>1. /\ [upd[u] EXCEPT !.child = TRUE] \in HolderStates
        /\ [upd[u] EXCEPT !.child = FALSE] \in HolderStates
        /\ [upd[u] EXCEPT !.adapter = NoUser] \in HolderStates
        /\ [upd[u] EXCEPT !.adapter = "closed"] \in HolderStates
    BY <1>0 DEF HolderStates
  <2>2. upd' \in [Update -> HolderStates]
    BY <1>13, <2>1 DEF SpawnChild, Detach, ProcessesExit
  <2> QED BY <1>13, <2>2 DEF SpawnChild, Detach, ProcessesExit
<1>14. ASSUME NEW u \in Update, FinishUpdate(u) PROVE CacheTyped'
  <2>1. PICK complete \in BOOLEAN : slots' = [slots EXCEPT ![upd[u].c].due = complete]
    BY <1>14 DEF FinishUpdate
  <2>2. \A c \in Candidate : [slots[c] EXCEPT !.due = complete] \in EntryStates
    BY <1>0 DEF EntryStates
  <2>3. slots' \in [Candidate -> EntryStates]
    BY <2>1, <2>2
  <2>4. [upd[u] EXCEPT !.at = IF upd[u].old THEN "end" ELSE "last"] \in HolderStates
    BY <1>0 DEF HolderStates
  <2> QED BY <1>14, <2>3, <2>4 DEF FinishUpdate
<1>15. ASSUME NEW u \in Update, ForwardLease(u) PROVE CacheTyped'
  <2> DEFINE c == upd[u].c
             mode == IF upd[u].child /\ slots[c].schema = 1 THEN "SH" ELSE upd[u].mode
  <2>1. PICK r \in Forwarded(slots[c]) :
          /\ slots' = [slots EXCEPT ![c] = r]
          /\ upd' = [upd EXCEPT ![u].mode = mode,
                       ![u].adapter = IF r.schema = 1 /\ r.guard # "installed"
                                      THEN NoUser ELSE "leased"]
    BY <1>15 DEF ForwardLease
  <2>2. c \in Candidate => r \in EntryStates
    BY <1>0, <2>1 DEF Forwarded, Protect, Interrupted, EntryStates
  <2>3. mode \in {"EX", "SH"}
    BY <1>0 DEF HolderStates
  <2> HIDE DEF mode, c
  <2>4. \A a \in {NoUser, "leased"} : [upd[u] EXCEPT !.mode = mode, !.adapter = a] \in HolderStates
    BY <1>0, <2>3 DEF HolderStates
  <2>5. slots' \in [Candidate -> EntryStates]
    BY <2>1, <2>2
  <2>6. upd' \in [Update -> HolderStates]
    BY <2>1, <2>4
  <2> QED BY <1>15, <2>5, <2>6 DEF ForwardLease
<1>16. ASSUME NEW u \in Update, RegisterEngine(u) PROVE CacheTyped'
  <2>1. upd[u].c \in Candidate
    BY <1>0, <1>16 DEF RegisterEngine, HolderStates
  <2>2. PICK e \in Daemon \cup {"unbound"} : slots' = [slots EXCEPT ![upd[u].c].engine = e]
    BY <1>16 DEF RegisterEngine
  <2>3. [slots[upd[u].c] EXCEPT !.engine = e] \in EntryStates
    BY <1>0, <2>1 DEF EntryStates
  <2> QED BY <1>16, <2>1, <2>2, <2>3 DEF RegisterEngine
<1>17. ASSUME NEW u \in Update, CreateContainer(u) PROVE CacheTyped'
  BY <1>0, <1>17 DEF CreateContainer
<1>18. ASSUME NEW u \in Update, NEW c \in Candidate, RefuseUpdate(u, c) PROVE CacheTyped'
  <2>1. [upd[u] EXCEPT !.at = "end"] \in HolderStates
    BY <1>0 DEF HolderStates
  <2> QED BY <1>18, <2>1 DEF RefuseUpdate
<1>19. ASSUME NEW u \in Update, NEW c \in Candidate, StartUpdate(u, c) \/ OldStart(u, c)
       PROVE  CacheTyped'
  <2>1. PICK r \in EntryStates, mode \in {"EX", "SH"} : EnterGate(u, c, r, mode)
    BY <1>0, <1>n, <1>19 DEF StartUpdate, OldStart, EntryStates, NoCandidate
  <2>2. [upd[u] EXCEPT !.at = "work", !.c = c, !.mode = mode] \in HolderStates
    BY <1>0 DEF HolderStates
  <2> QED BY <2>1, <2>2, <1>e DEF EnterGate
<1> QED
  BY <1>1, <1>2, <1>3, <1>4, <1>5, <1>6, <1>7, <1>8, <1>9, <1>10, <1>11, <1>12, <1>13, <1>14,
     <1>15, <1>16, <1>17, <1>18, <1>19
  DEF CacheNext

\* What every step but a start leaves of the runs: nobody begins to hold a
\* candidate, but for an adapter under the gate, and nobody begins to work on one.
RunsLeave ==
  \A v \in Update :
    /\ upd'[v].c = upd[v].c /\ upd'[v].old = upd[v].old
    /\ upd'[v].at \in {"work", "finish"} => upd[v].at \in {"work", "finish"}
    /\ upd'[v].child => upd[v].child \/ upd[v].at = "work"
    /\ upd'[v].adapter = "leased" => upd[v].adapter = "leased" \/ GateFree
StartsOne == \E u \in Update, c \in Candidate : StartUpdate(u, c) \/ OldStart(u, c)

LEMMA RunsAreLeft == CacheTyped /\ [CacheNext]_cacheVars => StartsOne \/ RunsLeave
<1> SUFFICES ASSUME CacheTyped, [CacheNext]_cacheVars, ~StartsOne PROVE RunsLeave
  OBVIOUS
<1>0. upd \in [Update -> HolderStates]
  BY DEF CacheTyped
<1>1. CASE UNCHANGED upd
  BY <1>1 DEF RunsLeave
<1>2. CASE CollectEnd
  BY <1>0, <1>2 DEF CollectEnd, RunsLeave, HolderStates
<1>3. ASSUME NEW u \in Update,
             SpawnChild(u) \/ CommandEnds(u) \/ SupervisorDies(u) \/ ProcessesExit(u) \/ Detach(u)
      PROVE  RunsLeave
  BY <1>0, <1>3 DEF SpawnChild, CommandEnds, SupervisorDies, ProcessesExit, Detach, RunsLeave,
                    HolderStates, NoUser
<1>4. ASSUME NEW u \in Update, FinishUpdate(u) \/ \E c \in Candidate : RefuseUpdate(u, c)
      PROVE  RunsLeave
  BY <1>0, <1>4 DEF FinishUpdate, RefuseUpdate, RunsLeave, HolderStates
<1>5. ASSUME NEW u \in Update, ForwardLease(u) PROVE RunsLeave
  <2> DEFINE c == upd[u].c
             mode == IF upd[u].child /\ slots[c].schema = 1 THEN "SH" ELSE upd[u].mode
  <2>1. PICK r \in Forwarded(slots[c]) :
          upd' = [upd EXCEPT ![u].mode = mode,
                    ![u].adapter = IF r.schema = 1 /\ r.guard # "installed"
                                   THEN NoUser ELSE "leased"]
    BY <1>5 DEF ForwardLease
  <2> DEFINE adapter == IF r.schema = 1 /\ r.guard # "installed" THEN NoUser ELSE "leased"
             run == [upd[u] EXCEPT !.mode = mode, !.adapter = adapter]
  <2>2. /\ run.c = upd[u].c /\ run.old = upd[u].old
        /\ run.at = upd[u].at /\ run.child = upd[u].child
    BY <1>0 DEF HolderStates
  <2>3. upd' = [upd EXCEPT ![u] = run]
    BY <1>0, <2>1
  <2> HIDE DEF run
  <2> QED BY <1>0, <1>5, <2>2, <2>3 DEF RunsLeave, ForwardLease
<1> QED
  BY <1>1, <1>2, <1>3, <1>4, <1>5
  DEF CacheNext, StartsOne, cacheVars, CollectBegin, SwitchContext, CollectLease, CollectInventory,
      CollectRemove, CollectKilled, OldCollect, ContainerGone, Expire, RegisterEngine,
      CreateContainer

\* So while a collection goes on, a candidate that nobody holds stays so.
LEMMA FreeStaysFree ==
  ASSUME CacheTyped, [CacheNext]_cacheVars, ~GateFree, NEW c \in Candidate, ~Leased(c)
  PROVE  ~Leased(c)'
<1>1. ~StartsOne
  BY DEF StartsOne, StartUpdate, OldStart
<1>2. RunsLeave
  BY <1>1, RunsAreLeft
<1> QED BY <1>2 DEF RunsLeave, Leased, Inherited

\* A start is the first on its candidate.
LEMMA StartsAlone ==
  ASSUME CacheTyped, NEW u \in Update, NEW c \in Candidate, StartUpdate(u, c) \/ OldStart(u, c)
  PROVE  /\ upd'[u].c = c /\ upd'[u].old = upd[u].old
         /\ \A v \in Update \ {u} : upd'[v] = upd[v]
         /\ \A v \in Update : ~Inherited(v, c)
         /\ GateFree /\ cacheGate' = cacheGate /\ UNCHANGED <<pods, context, switches>>
         /\ slots'[c].is = "whole" /\ \A d \in Candidate \ {c} : slots'[d] = slots[d]
<1>1. ~Leased(c)
  BY DEF StartUpdate, OldStart, Fresh, Used, Resumable, Admitted
<1>2. PICK r \in EntryStates, mode \in {"EX", "SH"} : EnterGate(u, c, r, mode) /\ r.is = "whole"
  <2>1. NoCandidate \in EntryStates /\ slots[c] \in EntryStates
    BY DEF NoCandidate, EntryStates, CacheTyped
  <2> DEFINE fresh == [NoCandidate EXCEPT !.is = "whole"]
             old == [NoCandidate EXCEPT !.is = "whole", !.schema = 1]
             kept == [slots[c] EXCEPT !.schema = 2, !.guard = "no"]
  <2>2. /\ fresh \in EntryStates /\ fresh.is = "whole" /\ old \in EntryStates /\ old.is = "whole"
        /\ kept \in EntryStates /\ kept.is = slots[c].is
    BY <2>1 DEF EntryStates
  <2>3. \/ EnterGate(u, c, fresh, "SH")
        \/ EnterGate(u, c, kept, "SH") /\ slots[c].is = "whole"
        \/ EnterGate(u, c, old, "EX")
        \/ EnterGate(u, c, slots[c], "EX") /\ slots[c].is = "whole"
    BY DEF StartUpdate, OldStart, Resumable
  <2> HIDE DEF fresh, old, kept
  <2> QED BY <2>1, <2>2, <2>3
<1>3. GateFree
  BY DEF StartUpdate, OldStart
<1>4. /\ slots' = [slots EXCEPT ![c] = r]
      /\ upd' = [upd EXCEPT ![u].at = "work", ![u].c = c, ![u].mode = mode]
      /\ UNCHANGED <<pods, context, switches, cacheGate>>
  BY <1>2 DEF EnterGate
<1>5. upd[u] \in HolderStates /\ upd \in [Update -> HolderStates] /\ slots \in [Candidate -> EntryStates]
  BY DEF CacheTyped
<1>6. /\ upd'[u].c = c /\ upd'[u].old = upd[u].old
      /\ \A v \in Update \ {u} : upd'[v] = upd[v]
  <2> DEFINE run == [upd[u] EXCEPT !.at = "work", !.c = c, !.mode = mode]
  <2>1. run.c = c /\ run.old = upd[u].old
    BY <1>5 DEF HolderStates
  <2>2. upd' = [upd EXCEPT ![u] = run]
    BY <1>4, <1>5
  <2> HIDE DEF run
  <2> QED BY <1>5, <2>1, <2>2
<1>7. slots'[c].is = "whole" /\ \A d \in Candidate \ {c} : slots'[d] = slots[d]
  BY <1>2, <1>4, <1>5
<1>8. \A v \in Update : ~Inherited(v, c)
  BY <1>1 DEF Leased
<1> QED BY <1>3, <1>4, <1>6, <1>7, <1>8

\* Supervisors do not meet on a candidate.
LEMMA OneSupervisorStep ==
  ASSUME CacheTyped, OneSupervisor, [CacheNext]_cacheVars
  PROVE  OneSupervisor'
<1>1. CASE RunsLeave
  BY <1>1 DEF RunsLeave, OneSupervisor
<1>2. ASSUME NEW u \in Update, NEW c \in Candidate, StartUpdate(u, c) \/ OldStart(u, c)
      PROVE  OneSupervisor'
  BY <1>2, StartsAlone DEF OneSupervisor, Inherited
<1> QED BY <1>1, <1>2, RunsAreLeft DEF StartsOne

\* The receipts that steps leave alone, but for their protection; a start, a
\* registration and a removal do not.
ReceiptStays(d) == slots'[d].is = slots[d].is /\ slots'[d].schema = slots[d].schema
            /\ slots'[d].engine = slots[d].engine
Registers(d) ==
  /\ GateFree /\ slots[d].is = "whole" /\ slots[d].engine = NoUser /\ context # "down"
  /\ slots'[d].is = "whole" /\ slots'[d].schema = slots[d].schema
  /\ \/ slots'[d].engine = context
     \/ slots'[d].engine = "unbound" /\ slots[d].schema = 1
  /\ UNCHANGED <<pods, context, switches, cacheGate>>

LEMMA ReceiptMoves ==
  ASSUME CacheTyped, [CacheNext]_cacheVars, NEW d \in Candidate
  PROVE  \/ ReceiptStays(d)
         \/ Registers(d)
         \/ slots'[d].is # "whole"
         \/ \E u \in Update : StartUpdate(u, d) \/ OldStart(u, d)
<1>0. slots \in [Candidate -> EntryStates]
  BY DEF CacheTyped
<1> USE DEF ReceiptStays
<1>1. CASE UNCHANGED slots
  BY <1>1
<1>2. ASSUME NEW c \in Candidate, CollectLease(c) \/ CollectKilled(c) PROVE ReceiptStays(d)
  BY <1>0, <1>2 DEF CollectLease, CollectKilled, Guarded, Protect, Interrupted, EntryStates
<1>3. ASSUME NEW c \in Candidate, CollectRemove(c) \/ OldCollect(c) \/ Expire(c)
      PROVE  ReceiptStays(d) \/ slots'[d].is # "whole"
  BY <1>0, <1>3 DEF CollectRemove, OldCollect, Expire, EntryStates, NoCandidate
<1>4. ASSUME NEW u \in Update, FinishUpdate(u) PROVE ReceiptStays(d)
  <2>1. \E due : slots' = [slots EXCEPT ![upd[u].c].due = due]
    BY <1>4 DEF FinishUpdate
  <2>2. CASE upd[u].c = d
    BY <1>0, <2>1, <2>2 DEF EntryStates
  <2>3. CASE upd[u].c # d
    BY <1>0, <2>1, <2>3
  <2> QED BY <2>2, <2>3
<1>5. ASSUME NEW u \in Update, ForwardLease(u) PROVE ReceiptStays(d)
  <2>1. PICK r \in Forwarded(slots[upd[u].c]) : slots' = [slots EXCEPT ![upd[u].c] = r]
    BY <1>5 DEF ForwardLease
  <2>2. upd[u].c = d =>
          r.is = slots[d].is /\ r.schema = slots[d].schema /\ r.engine = slots[d].engine
    BY <1>0, <2>1 DEF Forwarded, Protect, Interrupted, EntryStates
  <2> QED BY <1>0, <2>1, <2>2
<1>6. ASSUME NEW u \in Update, RegisterEngine(u) PROVE ReceiptStays(d) \/ Registers(d)
  <2>1. CASE upd[u].c = d
    BY <1>0, <1>6, <2>1 DEF RegisterEngine, Registers, EntryStates
  <2>2. CASE upd[u].c # d
    BY <1>0, <1>6, <2>2 DEF RegisterEngine
  <2> QED BY <2>1, <2>2
<1>7. ASSUME NEW u \in Update, NEW c \in Candidate, StartUpdate(u, c) \/ OldStart(u, c), c # d
      PROVE  slots'[d] = slots[d]
  BY <1>7, StartsAlone
<1> QED
  BY <1>1, <1>2, <1>3, <1>4, <1>5, <1>6, <1>7
  DEF CacheNext, cacheVars, CollectBegin, CollectEnd, SwitchContext, CollectInventory,
      ContainerGone, SpawnChild, CommandEnds, SupervisorDies, ProcessesExit, Detach,
      CreateContainer, RefuseUpdate

\* A start takes a fresh name or a receipt that stays; only the older runtime takes one
\* whose engine answers as another.
LEMMA StartedReceipt ==
  ASSUME CacheTyped, NEW u \in Update, NEW c \in Candidate, StartUpdate(u, c) \/ OldStart(u, c)
  PROVE  \/ slots'[c].engine = NoUser /\ pods[c] = {}
         \/ /\ slots[c].is = "whole" /\ slots'[c].engine = slots[c].engine
            /\ slots'[c].schema = 1 \/ NoContainers(c)
<1> DEFINE fresh == [NoCandidate EXCEPT !.is = "whole"]
           old == [NoCandidate EXCEPT !.is = "whole", !.schema = 1]
           kept == [slots[c] EXCEPT !.schema = 2, !.guard = "no"]
<1>1. fresh.engine = NoUser /\ old.engine = NoUser /\ kept.engine = slots[c].engine
  BY DEF NoCandidate, EntryStates, CacheTyped
<1>2. \/ slots' = [slots EXCEPT ![c] = fresh] /\ pods[c] = {}
      \/ slots' = [slots EXCEPT ![c] = old] /\ pods[c] = {}
      \/ slots' = [slots EXCEPT ![c] = kept] /\ slots[c].is = "whole" /\ NoContainers(c)
      \/ /\ slots' = [slots EXCEPT ![c] = slots[c]] /\ slots[c].is = "whole"
         /\ slots[c].schema = 1
  BY DEF StartUpdate, OldStart, EnterGate, Fresh, Used, Resumable
<1> HIDE DEF fresh, old, kept
<1> QED BY <1>1, <1>2 DEF CacheTyped

\* A run of the older runtime keeps its receipt.
LEMMA LegacyStep ==
  ASSUME CacheTyped, LegacyOwnsItsReceipt, [CacheNext]_cacheVars
  PROVE  LegacyOwnsItsReceipt'
<1>1. SUFFICES ASSUME NEW u \in Update, NEW c \in Candidate,
                      upd'[u].old, Inherited(u, c)', slots'[c].is = "whole"
               PROVE  slots'[c].schema = 1
  BY DEF LegacyOwnsItsReceipt
<1>2. CASE RunsLeave
  <2>1. upd[u].old /\ Inherited(u, c)
    BY <1>1, <1>2 DEF RunsLeave, Inherited
  <2>2. \A v \in Update : ~StartUpdate(v, c) /\ ~OldStart(v, c)
    BY <2>1, StartsAlone
  <2>3. ReceiptStays(c) \/ Registers(c)
    BY <1>1, <2>2, ReceiptMoves
  <2>4. slots[c].is = "whole" /\ slots'[c].schema = slots[c].schema
    BY <1>1, <2>3 DEF ReceiptStays, Registers
  <2> QED BY <2>1, <2>4 DEF LegacyOwnsItsReceipt
<1>3. ASSUME NEW v \in Update, NEW d \in Candidate, StartUpdate(v, d) PROVE slots'[c].schema = 1
  <2>1. u # v
    <3>1. ~upd[v].old
      BY <1>3 DEF StartUpdate
    <3> QED BY <1>1, <1>3, <3>1, StartsAlone
  <2>2. Inherited(u, c) /\ upd[u].old
    BY <1>1, <1>3, <2>1, StartsAlone DEF Inherited
  <2>3. c # d
    BY <1>3, <2>2, StartsAlone
  <2> QED BY <1>1, <1>3, <2>2, <2>3, StartsAlone DEF LegacyOwnsItsReceipt
<1>4. ASSUME NEW v \in Update, NEW d \in Candidate, OldStart(v, d) PROVE slots'[c].schema = 1
  <2>1. slots'[d].schema = 1
    <3> DEFINE old == [NoCandidate EXCEPT !.is = "whole", !.schema = 1]
    <3>1. old.schema = 1
      BY DEF NoCandidate
    <3>2. \/ slots' = [slots EXCEPT ![d] = old]
          \/ slots' = [slots EXCEPT ![d] = slots[d]] /\ slots[d].schema = 1
      BY <1>4 DEF OldStart, EnterGate
    <3> HIDE DEF old
    <3> QED BY <3>1, <3>2 DEF CacheTyped
  <2>2. CASE c # d
    <3>1. u # v
      BY <1>1, <1>4, <2>2, StartsAlone DEF Inherited
    <3>2. Inherited(u, c) /\ upd[u].old
      BY <1>1, <1>4, <3>1, StartsAlone DEF Inherited
    <3> QED BY <1>1, <1>4, <2>2, <3>2, StartsAlone DEF LegacyOwnsItsReceipt
  <2> QED BY <2>1, <2>2
<1> QED BY <1>2, <1>3, <1>4, RunsAreLeft DEF StartsOne

\* No receipt of this schema names an engine without its daemon.
LEMMA EnginesStep ==
  ASSUME CacheTyped, EnginesAreBound, [CacheNext]_cacheVars
  PROVE  EnginesAreBound'
<1>1. SUFFICES ASSUME NEW c \in Candidate, slots'[c].is = "whole", slots'[c].schema = 2
               PROVE  slots'[c].engine # "unbound"
  BY DEF EnginesAreBound
<1>2. context # "unbound"
  BY CacheAssumption DEF CacheTyped
<1>3. CASE ReceiptStays(c)
  BY <1>1, <1>3 DEF EnginesAreBound, ReceiptStays
<1>4. CASE Registers(c)
  BY <1>1, <1>2, <1>4 DEF Registers
<1>5. ASSUME NEW u \in Update, StartUpdate(u, c) \/ OldStart(u, c)
      PROVE  slots'[c].engine # "unbound"
  BY <1>1, <1>2, <1>5, StartedReceipt DEF NoContainers, NoUser
<1> QED BY <1>1, <1>3, <1>4, <1>5, ReceiptMoves

\* What a collection finds out of an entry, and when.
LEMMA SightMoves ==
  ASSUME CacheTyped, [CacheNext]_cacheVars, NEW d \in Candidate
  PROVE  \/ cacheGate'.seen[d] = cacheGate.seen[d]
         \/ cacheGate'.seen[d] \notin Inspecting
         \/ /\ CollectLease(d) /\ slots[d].is = "whole" /\ ~Leased(d)
            /\ cacheGate'.seen[d] = EngineVerdict(d)
         \/ /\ CollectInventory(d) /\ cacheGate.seen[d] = "bound" /\ context \notin pods[d]
            /\ cacheGate'.seen[d] = "listed"
         \/ /\ CollectInventory(d) /\ cacheGate.seen[d] = "listed" /\ slots[d].engine = context
            /\ cacheGate'.seen[d] = "idle"
<1>0. cacheGate \in CollectorStates
  BY DEF CacheTyped
<1> USE DEF Inspecting
<1>1. CASE UNCHANGED cacheGate
  BY <1>1
<1>2. ASSUME NEW who, NEW all, CollectBegin(who, all) PROVE cacheGate'.seen[d] \notin Inspecting
  BY <1>2 DEF CollectBegin, NobodyIn
<1>3. ASSUME CollectEnd \/ \E c \in Candidate : CollectKilled(c)
      PROVE  cacheGate'.seen[d] \notin Inspecting
  BY <1>3 DEF CollectEnd, CollectKilled, NobodyIn
<1>4. ASSUME NEW c \in Candidate, NEW s, cacheGate' = [cacheGate EXCEPT !.seen[c] = s]
      PROVE  IF c = d THEN cacheGate'.seen[d] = s ELSE cacheGate'.seen[d] = cacheGate.seen[d]
  BY <1>0, <1>4 DEF CollectorStates
<1>5. ASSUME NEW c \in Candidate, CollectLease(c)
      PROVE  \/ cacheGate'.seen[d] = cacheGate.seen[d]
             \/ cacheGate'.seen[d] \notin Inspecting
             \/ /\ c = d /\ slots[d].is = "whole" /\ ~Leased(d)
                /\ cacheGate'.seen[d] = EngineVerdict(d)
  BY <1>4, <1>5 DEF CollectLease
<1>6. ASSUME NEW c \in Candidate, CollectInventory(c)
      PROVE  \/ cacheGate'.seen[d] = cacheGate.seen[d]
             \/ cacheGate'.seen[d] \notin Inspecting
             \/ /\ c = d /\ cacheGate.seen[d] = "bound" /\ context \notin pods[d]
                /\ cacheGate'.seen[d] = "listed"
             \/ /\ c = d /\ cacheGate.seen[d] = "listed" /\ slots[d].engine = context
                /\ cacheGate'.seen[d] = "idle"
  BY <1>4, <1>6 DEF CollectInventory, Recheck
<1>7. ASSUME NEW c \in Candidate, CollectRemove(c)
      PROVE  cacheGate'.seen[d] = cacheGate.seen[d] \/ cacheGate'.seen[d] \notin Inspecting
  BY <1>4, <1>7 DEF CollectRemove
<1>8. ASSUME NEW c \in Candidate, OldCollect(c) \/ ContainerGone(c) \/ Expire(c)
      PROVE  UNCHANGED cacheGate
  BY <1>8 DEF OldCollect, ContainerGone, Expire
<1>9. ASSUME NEW u \in Update,
             \/ SpawnChild(u) \/ CommandEnds(u) \/ FinishUpdate(u) \/ SupervisorDies(u)
             \/ ProcessesExit(u) \/ Detach(u) \/ ForwardLease(u) \/ RegisterEngine(u)
             \/ CreateContainer(u) \/ \E c \in Candidate : RefuseUpdate(u, c)
      PROVE  UNCHANGED cacheGate
  BY <1>9 DEF SpawnChild, CommandEnds, FinishUpdate, SupervisorDies, ProcessesExit, Detach,
              ForwardLease, RegisterEngine, CreateContainer, RefuseUpdate
<1>10. ASSUME NEW u \in Update, NEW c \in Candidate, StartUpdate(u, c) \/ OldStart(u, c)
       PROVE  UNCHANGED cacheGate
  BY <1>10, StartsAlone
<1>11. CASE SwitchContext \/ UNCHANGED cacheVars
  BY <1>1, <1>11, SMTT(30) DEF SwitchContext, cacheVars
<1> QED BY <1>1, <1>2, <1>3, <1>5, <1>6, <1>7, <1>8, <1>9, <1>10, <1>11 DEF CacheNext

\* While an entry is being inspected, its receipt stays as it is, or is no more.
LEMMA HeldEntry ==
  ASSUME CacheTyped, [CacheNext]_cacheVars, ~GateFree, NEW d \in Candidate,
         cacheGate.seen[d] \in Inspecting, cacheGate'.seen[d] \in Inspecting
  PROVE  slots'[d].is = slots[d].is /\ slots'[d].schema = slots[d].schema
         /\ slots'[d].guard = slots[d].guard
<1>0. slots \in [Candidate -> EntryStates] /\ cacheGate \in CollectorStates
  BY DEF CacheTyped
<1>1. CASE UNCHANGED slots
  BY <1>1
<1>2. ASSUME NEW c \in Candidate, CollectLease(c) PROVE slots'[d] = slots[d]
  BY <1>0, <1>2 DEF CollectLease, Inspecting
<1>3. ASSUME NEW c \in Candidate, CollectRemove(c) PROVE slots'[d] = slots[d]
  BY <1>0, <1>3 DEF CollectRemove, CollectorStates, Inspecting
<1>4. ASSUME NEW c \in Candidate, CollectKilled(c) PROVE FALSE
  BY <1>4 DEF CollectKilled, NobodyIn, Inspecting
<1>5. ASSUME NEW c \in Candidate, Expire(c)
      PROVE  slots'[d].is = slots[d].is /\ slots'[d].schema = slots[d].schema
             /\ slots'[d].guard = slots[d].guard
  BY <1>0, <1>5 DEF Expire, EntryStates
<1>6. ASSUME NEW u \in Update, NEW c \in Candidate PROVE ~StartUpdate(u, c) /\ ~OldStart(u, c)
  BY DEF StartUpdate, OldStart
<1> QED
  BY <1>1, <1>2, <1>3, <1>4, <1>5, <1>6
  DEF CacheNext, cacheVars, CollectBegin, CollectEnd, SwitchContext, CollectInventory,
      ContainerGone, SpawnChild, CommandEnds, SupervisorDies, ProcessesExit, Detach,
      CreateContainer, RefuseUpdate, OldCollect, FinishUpdate, ForwardLease, RegisterEngine

\* What is being inspected is held by nobody.
LEMMA InspectedStep ==
  ASSUME CacheTyped, InspectedIsFree, [CacheNext]_cacheVars
  PROVE  InspectedIsFree'
<1>0. slots \in [Candidate -> EntryStates] /\ cacheGate \in CollectorStates
  BY DEF CacheTyped
<1>1. ASSUME GateFree' PROVE \A c \in Candidate : cacheGate'.seen[c] = "unseen"
  <2>1. CASE UNCHANGED cacheGate
    BY <1>1, <2>1 DEF GateFree, InspectedIsFree
  <2>2. ASSUME NEW who, NEW all, CollectBegin(who, all)
        PROVE  \A c \in Candidate : cacheGate'.seen[c] = "unseen"
    BY <2>2 DEF CollectBegin, NobodyIn
  <2>3. ASSUME CollectEnd \/ \E c \in Candidate : CollectKilled(c)
        PROVE  \A c \in Candidate : cacheGate'.seen[c] = "unseen"
    BY <2>3 DEF CollectEnd, CollectKilled, NobodyIn
  <2>4. ASSUME NEW c \in Candidate, CollectLease(c) \/ CollectInventory(c) \/ CollectRemove(c)
        PROVE  FALSE
    <3>1. ~GateFree
      BY <2>4 DEF CollectLease, CollectInventory, CollectRemove, Judged, InspectedIsFree
    <3>2. cacheGate'.by = cacheGate.by
      BY <1>0, <2>4 DEF CollectLease, CollectInventory, CollectRemove, CollectorStates
    <3> QED BY <1>1, <3>1, <3>2 DEF GateFree
  <2>5. ASSUME NEW u \in Update, NEW c \in Candidate, StartUpdate(u, c) \/ OldStart(u, c)
        PROVE  UNCHANGED cacheGate
    BY <2>5, StartsAlone
  <2>6. ASSUME NEW u \in Update,
               \/ SpawnChild(u) \/ CommandEnds(u) \/ FinishUpdate(u) \/ SupervisorDies(u)
               \/ ProcessesExit(u) \/ Detach(u) \/ ForwardLease(u) \/ RegisterEngine(u)
               \/ CreateContainer(u) \/ \E c \in Candidate : RefuseUpdate(u, c)
        PROVE  UNCHANGED cacheGate
    BY <2>6 DEF SpawnChild, CommandEnds, FinishUpdate, SupervisorDies, ProcessesExit, Detach,
                ForwardLease, RegisterEngine, CreateContainer, RefuseUpdate
  <2>7. ASSUME NEW c \in Candidate, OldCollect(c) \/ ContainerGone(c) \/ Expire(c)
        PROVE  UNCHANGED cacheGate
    BY <2>7 DEF OldCollect, ContainerGone, Expire
  <2>8. CASE SwitchContext \/ UNCHANGED cacheVars
    BY <2>1, <2>8 DEF SwitchContext, cacheVars
  <2> QED BY <2>1, <2>2, <2>3, <2>4, <2>5, <2>6, <2>7, <2>8 DEF CacheNext
<1>2. ASSUME NEW c \in Candidate, cacheGate'.seen[c] \in Inspecting
      PROVE  /\ slots'[c].is = "whole" /\ ~Leased(c)'
             /\ slots'[c].schema = 1 => slots'[c].guard = "installed"
  <2>1. CASE cacheGate'.seen[c] = cacheGate.seen[c]
    <3>1. ~GateFree
      BY <1>2, <2>1 DEF InspectedIsFree, Inspecting
    <3> QED BY <1>2, <2>1, <3>1, HeldEntry, FreeStaysFree DEF InspectedIsFree
  <2>2. CASE CollectLease(c) /\ slots[c].is = "whole" /\ ~Leased(c)
    <3>1. PICK r \in Guarded(c) : slots' = [slots EXCEPT ![c] = r]
      BY <2>2 DEF CollectLease
    <3>2. r.is = "whole" /\ (r.schema = 1 => r.guard = "installed")
      BY <1>0, <2>2, <3>1 DEF Guarded, Protect, EntryStates
    <3>3. ~Leased(c)'
      BY <2>2, FreeStaysFree DEF CollectLease
    <3> QED BY <1>0, <3>1, <3>2, <3>3
  <2>3. CASE CollectInventory(c) /\ cacheGate.seen[c] \in {"bound", "listed"}
    <3>1. ~GateFree /\ UNCHANGED slots
      BY <2>3 DEF CollectInventory, InspectedIsFree
    <3> QED BY <2>3, <3>1, FreeStaysFree DEF InspectedIsFree, Inspecting
  <2> QED BY <1>2, <2>1, <2>2, <2>3, SightMoves
<1> QED BY <1>1, <1>2 DEF InspectedIsFree

\* Containers come from runs that hold the candidate and have registered the engine.
Creates(d) == Leased(d) /\ slots[d].engine # NoUser /\ context # "down"
              /\ pods'[d] = pods[d] \cup {context}
              /\ UNCHANGED <<slots, context, switches, cacheGate>>
LEMMA ContainerMoves ==
  ASSUME CacheTyped, [CacheNext]_cacheVars, NEW d \in Candidate
  PROVE  pods'[d] = pods[d] \/ Creates(d)
         \/ (pods'[d] = {} /\ UNCHANGED <<slots, context, switches, cacheGate>>)
<1>0. pods \in [Candidate -> SUBSET Daemon]
  BY DEF CacheTyped
<1>1. CASE UNCHANGED pods
  BY <1>1
<1>2. ASSUME NEW c \in Candidate, ContainerGone(c)
      PROVE  \/ pods'[d] = pods[d]
             \/ pods'[d] = {} /\ UNCHANGED <<slots, context, switches, cacheGate>>
  BY <1>0, <1>2 DEF ContainerGone
<1>3. ASSUME NEW u \in Update, CreateContainer(u) PROVE pods'[d] = pods[d] \/ Creates(d)
  <2>1. CASE upd[u].c = d
    BY <1>0, <1>3, <2>1 DEF CreateContainer, Creates, Leased
  <2>2. CASE upd[u].c # d
    BY <1>0, <1>3, <2>2 DEF CreateContainer
  <2> QED BY <2>1, <2>2
<1>4. ASSUME NEW u \in Update, NEW c \in Candidate, StartUpdate(u, c) \/ OldStart(u, c)
      PROVE  UNCHANGED pods
  BY <1>4, StartsAlone
<1>5. ASSUME NEW u \in Update,
             \/ SpawnChild(u) \/ CommandEnds(u) \/ FinishUpdate(u) \/ SupervisorDies(u)
             \/ ProcessesExit(u) \/ Detach(u) \/ ForwardLease(u) \/ RegisterEngine(u)
             \/ \E c \in Candidate : RefuseUpdate(u, c)
      PROVE  UNCHANGED pods
  BY <1>5 DEF SpawnChild, CommandEnds, FinishUpdate, SupervisorDies, ProcessesExit, Detach,
              ForwardLease, RegisterEngine, RefuseUpdate
<1> QED
  BY <1>1, <1>2, <1>3, <1>4, <1>5
  DEF CacheNext, cacheVars, CollectBegin, CollectEnd, SwitchContext, CollectLease,
      CollectInventory, CollectRemove, CollectKilled, OldCollect, Expire

\* Containers are named in the receipt.
LEMMA NamedStep ==
  ASSUME CacheTyped, ContainersAreNamed, [CacheNext]_cacheVars
  PROVE  ContainersAreNamed'
<1>1. SUFFICES ASSUME NEW c \in Candidate, slots'[c].is = "whole", pods'[c] # {}
               PROVE  slots'[c].engine # NoUser
  BY DEF ContainersAreNamed
<1>2. CASE Creates(c)
  BY <1>2 DEF Creates
<1>3. CASE pods'[c] = pods[c]
  <2>1. CASE ReceiptStays(c)
    BY <1>1, <1>3, <2>1 DEF ReceiptStays, ContainersAreNamed
  <2>2. CASE Registers(c)
    BY <1>1, <1>3, <2>2 DEF Registers, ContainersAreNamed
  <2>3. ASSUME NEW u \in Update, StartUpdate(u, c) \/ OldStart(u, c)
        PROVE  slots'[c].engine # NoUser
    BY <1>1, <1>3, <2>3, StartedReceipt DEF ContainersAreNamed
  <2> QED BY <1>1, <2>1, <2>2, <2>3, ReceiptMoves
<1> QED BY <1>1, <1>2, <1>3, ContainerMoves

\* The context moves by itself.
LEMMA ContextMoves ==
  ASSUME CacheTyped, [CacheNext]_cacheVars
  PROVE  UNCHANGED <<context, switches>> \/ SwitchContext
<1>1. ASSUME NEW c \in Candidate,
             \/ CollectLease(c) \/ CollectInventory(c) \/ CollectRemove(c) \/ CollectKilled(c)
             \/ OldCollect(c) \/ ContainerGone(c) \/ Expire(c)
      PROVE  UNCHANGED <<context, switches>>
  BY <1>1 DEF CollectLease, CollectInventory, CollectRemove, CollectKilled, OldCollect,
              ContainerGone, Expire
<1>2. ASSUME NEW u \in Update,
             \/ SpawnChild(u) \/ CommandEnds(u) \/ FinishUpdate(u) \/ SupervisorDies(u)
             \/ ProcessesExit(u) \/ Detach(u) \/ ForwardLease(u) \/ RegisterEngine(u)
             \/ CreateContainer(u) \/ \E c \in Candidate : RefuseUpdate(u, c)
      PROVE  UNCHANGED <<context, switches>>
  BY <1>2 DEF SpawnChild, CommandEnds, FinishUpdate, SupervisorDies, ProcessesExit, Detach,
              ForwardLease, RegisterEngine, CreateContainer, RefuseUpdate
<1>3. ASSUME NEW u \in Update, NEW c \in Candidate, StartUpdate(u, c) \/ OldStart(u, c)
      PROVE  UNCHANGED <<context, switches>>
  BY <1>3, StartsAlone
<1>4. CASE CollectEnd \/ (\E who, all : CollectBegin(who, all)) \/ UNCHANGED cacheVars
  BY <1>4 DEF CollectEnd, CollectBegin, cacheVars
<1> QED BY <1>1, <1>2, <1>3, <1>4 DEF CacheNext

\* Until the context has moved twice, an engine that answers as registered has them all.
LEMMA ContextStep ==
  ASSUME CacheTyped, InspectedIsFree, ContainersAreNamed, ContextFound, [CacheNext]_cacheVars
  PROVE  ContextFound'
<1>0. /\ switches \in Nat /\ context \notin {NoUser, "unbound"}
      /\ \A d \in Daemon \cup {"down"} : d \notin {NoUser, "unbound"}
  BY CacheAssumption DEF CacheTyped, NoUser
<1>1. CASE SwitchContext
  <2>1. /\ switches' = switches + 1 /\ context' # context /\ context' \notin {NoUser, "unbound"}
        /\ UNCHANGED <<slots, pods, cacheGate>>
    BY <1>0, <1>1 DEF SwitchContext
  <2>2. switches' # 0 /\ (switches' <= 1 => switches = 0)
    BY <1>0, <2>1
  <2>3. ASSUME switches' <= 1, NEW c \in Candidate, slots[c].is = "whole"
        PROVE  slots[c].engine # context'
    BY <2>1, <2>2, <2>3 DEF ContextFound
  <2>4. \A c \in Candidate : cacheGate.seen[c] = "listed" => slots[c].is = "whole"
    BY DEF InspectedIsFree, Inspecting
  <2> QED BY <2>1, <2>2, <2>3, <2>4 DEF ContextFound
<1>2. CASE UNCHANGED <<context, switches>>
  <2>1. ASSUME switches = 0, NEW c \in Candidate, slots'[c].is = "whole"
        PROVE  slots'[c].engine \in {NoUser, "unbound", context}
    <3>1. CASE ReceiptStays(c)
      BY <2>1, <3>1 DEF ReceiptStays, ContextFound
    <3>2. CASE Registers(c)
      BY <3>2 DEF Registers
    <3>3. ASSUME NEW u \in Update, StartUpdate(u, c) \/ OldStart(u, c)
          PROVE  slots'[c].engine \in {NoUser, "unbound", context}
      BY <2>1, <3>3, StartedReceipt DEF ContextFound
    <3> QED BY <2>1, <3>1, <3>2, <3>3, ReceiptMoves
  <2>2. ASSUME switches <= 1, NEW c \in Candidate, slots'[c].is = "whole",
               slots'[c].engine = context
        PROVE  pods'[c] \subseteq {context}
    <3>1. CASE UNCHANGED slots /\ pods'[c] = pods[c] \cup {context}
      BY <2>2, <3>1 DEF ContextFound
    <3>2. CASE pods'[c] = pods[c]
      <4>1. CASE ReceiptStays(c)
        BY <2>2, <3>2, <4>1 DEF ReceiptStays, ContextFound
      <4>2. CASE Registers(c)
        BY <2>2, <3>2, <4>2 DEF Registers, ContainersAreNamed
      <4>3. ASSUME NEW u \in Update, StartUpdate(u, c) \/ OldStart(u, c)
            PROVE  pods'[c] \subseteq {context}
        BY <1>0, <2>2, <3>2, <4>3, StartedReceipt DEF ContextFound
      <4> QED BY <2>2, <4>1, <4>2, <4>3, ReceiptMoves
    <3> QED BY <3>1, <3>2, ContainerMoves DEF Creates
  <2>3. ASSUME NEW c \in Candidate, ~GateFree, cacheGate.seen[c] \in Inspecting,
               cacheGate'.seen[c] \in Inspecting
        PROVE  /\ slots[c].is = "whole" /\ slots'[c].engine = slots[c].engine
               /\ pods'[c] = pods[c] \/ pods'[c] = {}
    <3>1. slots[c].is = "whole" /\ ~Leased(c)
      BY <2>3 DEF InspectedIsFree
    <3>2. slots'[c].is = "whole"
      BY <2>3, InspectedStep DEF InspectedIsFree
    <3>3. \A u \in Update : ~StartUpdate(u, c) /\ ~OldStart(u, c)
      BY <2>3 DEF StartUpdate, OldStart
    <3>4. ReceiptStays(c)
      BY <2>3, <3>2, <3>3, ReceiptMoves DEF Registers
    <3> QED BY <3>1, <3>4, ContainerMoves DEF Creates, ReceiptStays
  <2>4. ASSUME switches <= 1, NEW c \in Candidate
        PROVE  /\ cacheGate'.seen[c] = "listed" /\ slots'[c].engine = context => pods'[c] = {}
               /\ cacheGate'.seen[c] = "idle" => pods'[c] = {}
    <3>1. CASE cacheGate'.seen[c] = cacheGate.seen[c] /\ cacheGate.seen[c] \in Inspecting
      <4>1. ~GateFree
        BY <3>1 DEF InspectedIsFree, Inspecting
      <4> QED BY <2>3, <2>4, <3>1, <4>1 DEF ContextFound
    <3>2. CASE cacheGate'.seen[c] \notin Inspecting
      BY <3>2 DEF Inspecting
    <3>3. CASE CollectLease(c) /\ slots[c].is = "whole" /\ cacheGate'.seen[c] = EngineVerdict(c)
      <4>1. UNCHANGED pods
        BY <3>3 DEF CollectLease
      <4>2. /\ cacheGate'.seen[c] # "listed"
            /\ cacheGate'.seen[c] = "idle" => slots[c].engine = NoUser
        BY <3>3 DEF EngineVerdict
      <4> QED BY <3>3, <4>1, <4>2 DEF ContainersAreNamed
    <3>4. CASE CollectInventory(c) /\ cacheGate.seen[c] = "bound" /\ context \notin pods[c]
               /\ cacheGate'.seen[c] = "listed"
      <4>1. UNCHANGED <<slots, pods>> /\ slots[c].is = "whole"
        BY <3>4 DEF CollectInventory, InspectedIsFree, Inspecting
      <4> QED BY <2>4, <3>4, <4>1 DEF ContextFound
    <3>5. CASE CollectInventory(c) /\ cacheGate.seen[c] = "listed" /\ slots[c].engine = context
               /\ cacheGate'.seen[c] = "idle"
      <4>1. UNCHANGED <<slots, pods>>
        BY <3>5 DEF CollectInventory
      <4> QED BY <2>4, <3>5, <4>1 DEF ContextFound
    <3> QED BY <3>1, <3>2, <3>3, <3>4, <3>5, SightMoves
  <2> QED BY <1>2, <2>1, <2>2, <2>4 DEF ContextFound
<1> QED BY <1>1, <1>2, ContextMoves

----------------------------------------------------------------------------
(* The candidate cache: the theorems.                                      *)

\* The pool begins empty, with every run still to come.
LEMMA CacheInitInv == CacheInit => CacheInv
<1> SUFFICES ASSUME CacheInit PROVE CacheInv
  OBVIOUS
<1>1. NoCandidate \in EntryStates /\ NobodyIn \in CollectorStates
  BY DEF NoCandidate, EntryStates, NobodyIn, CollectorStates, Sights
<1>2. upd \in [Update -> HolderStates]
  BY DEF CacheInit, HolderStates
<1>3. CacheTyped
  BY <1>1, <1>2, CacheAssumption DEF CacheInit, CacheTyped
<1>4. \A c \in Candidate : slots[c].is # "whole" /\ cacheGate.seen[c] = "unseen"
  BY DEF CacheInit, NoCandidate, NobodyIn
<1>5. \A u \in Update : upd[u].at = "new"
  BY DEF CacheInit
<1> QED
  BY <1>3, <1>4, <1>5
  DEF CacheInv, InspectedIsFree, Inspecting, ContainersAreNamed, ContextFound, OneSupervisor,
      LegacyOwnsItsReceipt, EnginesAreBound

\* The invariant of the pool, for any candidates, runs and daemons.
THEOREM CacheInvariant == CacheSpec => []CacheInv
<1>1. CacheInv /\ [CacheNext]_cacheVars => CacheInv'
  BY CacheTypedStep, InspectedStep, NamedStep, ContextStep, OneSupervisorStep, LegacyStep,
     EnginesStep DEF CacheInv
<1> QED BY <1>1, CacheInitInv, PTL DEF CacheSpec

\* Every step that removes a candidate is a collection of it.
LEMMA Removals ==
  ASSUME CacheTyped, CacheNext, NEW c \in Candidate, slots[c].is = "whole", slots'[c].is # "whole"
  PROVE  CollectRemove(c) \/ OldCollect(c)
<1>0. slots \in [Candidate -> EntryStates]
  BY DEF CacheTyped
<1>1. ASSUME NEW d \in Candidate, CollectRemove(d) \/ OldCollect(d) PROVE c = d
  BY <1>0, <1>1 DEF CollectRemove, OldCollect
<1>2. ASSUME NEW d \in Candidate, CollectLease(d) \/ CollectKilled(d) \/ Expire(d) PROVE FALSE
  BY <1>0, <1>2 DEF CollectLease, CollectKilled, Expire, Guarded, Protect, Interrupted, EntryStates
<1>3. ASSUME NEW u \in Update, ForwardLease(u) PROVE FALSE
  <2>1. PICK r \in Forwarded(slots[upd[u].c]) : slots' = [slots EXCEPT ![upd[u].c] = r]
    BY <1>3 DEF ForwardLease
  <2>2. upd[u].c = c => r.is = slots[c].is
    BY <1>0, <2>1 DEF Forwarded, Protect, Interrupted, EntryStates
  <2> QED BY <1>0, <2>1, <2>2
<1>4. ASSUME NEW u \in Update, FinishUpdate(u) \/ RegisterEngine(u) PROVE FALSE
  <2>1. \/ \E due : slots' = [slots EXCEPT ![upd[u].c].due = due]
        \/ \E engine : slots' = [slots EXCEPT ![upd[u].c].engine = engine]
    BY <1>4 DEF FinishUpdate, RegisterEngine
  <2>2. CASE upd[u].c = c
    BY <1>0, <2>1, <2>2 DEF EntryStates
  <2>3. CASE upd[u].c # c
    BY <1>0, <2>1, <2>3
  <2> QED BY <2>2, <2>3
<1>5. ASSUME NEW u \in Update, NEW d \in Candidate, StartUpdate(u, d) \/ OldStart(u, d) PROVE FALSE
  BY <1>5, StartsAlone
<1> QED
  BY <1>1, <1>2, <1>3, <1>4, <1>5
  DEF CacheNext, CollectBegin, CollectEnd, SwitchContext, CollectInventory, ContainerGone,
      SpawnChild, CommandEnds, SupervisorDies, ProcessesExit, Detach, CreateContainer,
      RefuseUpdate

\* Whatever the engine's context does, a candidate that a process holds is kept.
THEOREM HeldCandidatesStay == CacheSpec => HeldCandidateKept
<1>1. CacheInv /\ [CacheNext]_cacheVars
        => [\A c \in Candidate :
              slots[c].is = "whole" /\ slots'[c].is # "whole" => ~Leased(c)]_cacheVars
  <2> SUFFICES ASSUME CacheInv, CacheNext, NEW c \in Candidate,
                      slots[c].is = "whole", slots'[c].is # "whole"
               PROVE  ~Leased(c)
    OBVIOUS
  <2>1. CASE CollectRemove(c)
    BY <2>1 DEF CollectRemove, Eligible, CacheInv, InspectedIsFree, Inspecting
  <2>2. CASE OldCollect(c)
    BY <2>2 DEF OldCollect
  <2> QED BY <2>1, <2>2, Removals DEF CacheInv
<1> QED BY CacheInvariant, <1>1, PTL DEF CacheSpec, HeldCandidateKept

\* The pool's state is of its types.
THEOREM CacheTypeCorrect == CacheSpec => []CacheTypeOK
<1>1. CacheInv => CacheTypeOK
  <2> SUFFICES ASSUME CacheInv PROVE CacheTypeOK
    OBVIOUS
  <2>1. /\ cacheGate.by \in Update \cup {NoUser, "prune"} /\ cacheGate.all \in BOOLEAN
        /\ cacheGate.seen \in [Candidate -> Sights]
    BY DEF CacheInv, CacheTyped, CollectorStates
  <2> QED BY <2>1 DEF CacheInv, CacheTyped, CacheTypeOK, EntryStates, HolderStates, Sights
<1> QED BY <1>1, CacheInvariant, PTL

\* While the engine's context moves at most once, what an update run relies on
\* survives everything beside it, its containers included.
THEOREM CacheKeeps == MaxSwitches <= 1 => (CacheSpec => CacheKeepsRuns)
<1> SUFFICES ASSUME MaxSwitches <= 1 PROVE CacheSpec => CacheKeepsRuns
  OBVIOUS
<1>1. CacheInv /\ [CacheNext]_cacheVars
        => [\A c \in Candidate :
              slots[c].is = "whole" /\ slots'[c].is # "whole" /\ Used(c)
                => slots[c].schema = 1 /\ slots[c].guard = "no"]_cacheVars
  <2> SUFFICES ASSUME CacheInv, CacheNext, NEW c \in Candidate,
                      slots[c].is = "whole", slots'[c].is # "whole", Used(c)
               PROVE  slots[c].schema = 1 /\ slots[c].guard = "no"
    OBVIOUS
  <2>1. switches <= 1
    BY CacheAssumption DEF CacheInv, CacheTyped
  <2>2. CASE CollectRemove(c)
    BY <2>1, <2>2 DEF CollectRemove, Eligible, CacheInv, InspectedIsFree, ContextFound, Inspecting,
                      Used
  <2>3. CASE OldCollect(c)
    BY <2>3 DEF OldCollect, OldInventory, Used, CacheInv, ContainersAreNamed
  <2> QED BY <2>2, <2>3, Removals DEF CacheInv
<1>2. CacheInv => OneSupervisor /\ LegacyOwnsItsReceipt /\ EnginesAreBound
  BY DEF CacheInv
<1> QED
  BY CacheInvariant, HeldCandidatesStay, <1>1, <1>2, PTL
  DEF CacheSpec, CacheKeepsRuns, UsedCandidateKept

HIDE DEF Leave, Same, Leases, Alive, diskVars, assetScopeVars, sweepState, LeaveScope, Nothing,
         Have

----------------------------------------------------------------------------
(* The steps of an update and its exceptions: the invariant.               *)

\* The steps that have run.
DoneSteps == IF phase \in {"plans", "steps"} THEN 1..(next - 1) ELSE DOMAIN steps
\* The lists of one document.
ListsOf(d) == {m \in PolicyLists : m[1] = d}
Retiring == phase \in {"reads", "writes", "inspects", "done"}

\* Each resolver that has run has resolved its adapter, if it was selected, and what
\* is resolved was by one that has run; each hook that was due has served its targets.
ResolverRan(k) ==
  Resolves(k) => \E n \in Adapter : /\ steps[k].targets = {n}
                                    /\ n \in names => \E i \in DOMAIN resolved : resolved[i] = n
HookRan(k) == ~Resolves(k) /\ Due(steps[k].targets) => steps[k].targets \subseteq served
StepsServed ==
  phase \notin {"plans", "failed"} =>
    /\ PlanHolds
    /\ \A i \in DOMAIN resolved :
         /\ resolved[i] \in names
         /\ \E k \in DoneSteps : Resolves(k) /\ steps[k].targets = {resolved[i]}
    /\ \A i, j \in DOMAIN resolved : i < j =>
         resolved[i] # resolved[j] /\ Phase[resolved[i]] <= Phase[resolved[j]]
    /\ \A k \in DoneSteps : ResolverRan(k) /\ HookRan(k)

\* Audits come after the last step and stay true; none is missing in retirement.
AuditHolds ==
  /\ passed # {} => phase # "plans" /\ (phase = "steps" => next > Len(steps))
  /\ passed \subseteq SelectedAdapters /\ \A n \in passed : Passes(n)
  /\ Retiring => passed = SelectedAdapters

\* Documents that retirement has read, and those it has written.
HasBeenRead(d) ==
  \/ phase = "reads" /\ d < next
  \/ phase = "writes"
  \/ phase \in {"inspects", "done"} /\ HasExceptions
HasBeenWritten(d) ==
  \/ phase = "writes" /\ d < next
  \/ phase \in {"inspects", "done"} /\ HasExceptions

\* What was read was permitted, what will be written is that without what is retired,
\* and a document that was written stays so unless somebody edits it late.
RetireHolds ==
  /\ phase \in {"reads", "writes"} => HasExceptions
  /\ \A d \in Documents :
       HasBeenRead(d) =>
         /\ copy[d].lists \in [ListsOf(d) -> ListStates]
         /\ copy[d] = [other |-> copy[d].other, lists |-> copy[d].lists]
         /\ Permitted(copy[d], Retired(d)) /\ body[d] = Rendered(copy[d], Retired(d))
  /\ \A d \in Documents : ~late /\ HasBeenWritten(d) => Now(d) = body[d]
  /\ phase = "done" => \A d \in Documents : Permitted(Now(d), Entries(d))

\* The types the proofs need.
DepTyped ==
  /\ phase \in {"plans", "steps", "reads", "writes", "inspects", "done", "failed"}
  /\ names \subseteq Adapter \cup HookTargets /\ steps \in PlanChoices /\ next \in Nat \ {0}
  /\ phase = "plans" => next = 1 /\ resolved = <<>>
  /\ phase = "steps" => next <= Len(steps) + 1
  /\ phase \in {"reads", "writes"} => next \in Documents
  /\ resolved \in Seq(Adapter) /\ content \in [Adapter -> Holdings]
  /\ lists \in [PolicyLists -> ListStates] /\ origin \in [PolicyLists -> ListStates]
  /\ other \in [Documents -> Nat] /\ edits \in Nat /\ late \in BOOLEAN
  /\ copy = [d \in Documents |-> copy[d]] /\ body = [d \in Documents |-> body[d]]

DepInv == DepTyped /\ StepsServed /\ AuditHolds /\ RetireHolds

\* A member of a sequence is a member of its set.
LEMMA MemberTyped ==
  ASSUME NEW S, NEW s \in Seq(S) PROVE /\ Len(s) \in Nat /\ DOMAIN s = 1..Len(s)
                                      /\ \A k \in DOMAIN s : s[k] \in S
OBVIOUS

LEMMA PlanTyped ==
  ASSUME DepInv
  PROVE  /\ Len(steps) \in Nat /\ DOMAIN steps = 1..Len(steps)
         /\ \A k \in DOMAIN steps : steps[k].targets \subseteq Adapter \cup HookTargets
<1>1. steps \in Seq([kind : {"resolve", "hook"}, targets : SUBSET (Adapter \cup HookTargets)])
  BY DependencyAssumption DEF DepInv, DepTyped
<1>2. \A k \in DOMAIN steps :
        steps[k] \in [kind : {"resolve", "hook"}, targets : SUBSET (Adapter \cup HookTargets)]
  BY <1>1, MemberTyped
<1>3. Len(steps) \in Nat /\ DOMAIN steps = 1..Len(steps)
  BY <1>1, MemberTyped
<1> QED BY <1>2, <1>3

\* Retirement decides by what no later step changes.
LEMMA RetiredSame ==
  ASSUME UNCHANGED <<content, passed, origin>>
  PROVE  /\ \A d : Retired(d)' = Retired(d) /\ Entries(d)' = Entries(d)
         /\ \A doc, allowed : Permitted(doc, allowed)' <=> Permitted(doc, allowed)
         /\ HasExceptions' <=> HasExceptions
BY DEF Retired, Entries, Proven, Permitted, HasExceptions

LEMMA ServedSame ==
  ASSUME DepInv, UNCHANGED <<names, steps, resolved, served>>,
         phase' \notin {"plans", "failed"} => phase \notin {"plans", "failed"} /\ DoneSteps' = DoneSteps
  PROVE  StepsServed'
<1>1. (PlanHolds' <=> PlanHolds) /\ (\A k : Resolves(k)' <=> Resolves(k))
      /\ (\A t : Due(t)' <=> Due(t))
  BY DEF PlanHolds, InPhase, Resolves, SelectedAdapters, Covered, Due
<1> QED BY <1>1 DEF DepInv, StepsServed, ResolverRan, HookRan

LEMMA PlanStepsKeeps == ASSUME DepInv, PlanSteps PROVE DepInv'
<1>1. /\ phase = "plans" /\ phase' = IF PlanHolds THEN "steps" ELSE "failed"
      /\ UNCHANGED <<names, steps, next, resolved, served, content, lists, other, origin,
                     passed, copy, body, edits, late>>
  BY DEF PlanSteps
<1>2. next = 1 /\ resolved = <<>> /\ Len(steps) \in Nat
  BY <1>1, PlanTyped DEF DepInv, DepTyped
<1>3. DepTyped'
  BY <1>1, <1>2 DEF DepInv, DepTyped
<1>4. StepsServed'
  <2>1. PlanHolds' <=> PlanHolds
    BY <1>1 DEF PlanHolds, InPhase, Resolves, SelectedAdapters, Covered
  <2>2. phase' = "steps" => DoneSteps' = {}
    BY <1>1, <1>2 DEF DoneSteps
  <2>3. DOMAIN resolved' = {}
    BY <1>1, <1>2
  <2> QED BY <1>1, <2>1, <2>2, <2>3 DEF StepsServed
<1>5. AuditHolds'
  <2>1. passed = {}
    BY <1>1 DEF DepInv, AuditHolds
  <2> QED BY <1>1, <2>1 DEF AuditHolds, Retiring
<1>6. RetireHolds'
  BY <1>1 DEF RetireHolds, HasBeenRead, HasBeenWritten
<1> QED BY <1>3, <1>4, <1>5, <1>6 DEF DepInv

\* Where no document was read yet there is nothing to keep.
LEMMA NothingRetired ==
  ASSUME phase' \in {"plans", "steps", "failed"} PROVE RetireHolds'
BY DEF RetireHolds, HasBeenRead, HasBeenWritten

LEMMA ResolveKeeps ==
  ASSUME DepInv, NEW n \in Adapter, NEW c \in Holdings, ResolveAdapter(n, c) PROVE DepInv'
<1>1. /\ phase = "steps" /\ next <= Len(steps) /\ Resolves(next) /\ steps[next].targets = {n}
      /\ next' = next + 1
      /\ IF n \in names
         THEN content' = [content EXCEPT ![n] = c] /\ resolved' = Append(resolved, n)
         ELSE UNCHANGED <<content, resolved>>
      /\ UNCHANGED <<phase, names, steps, served, lists, other, origin, passed, copy, body, edits,
                     late>>
  BY DEF ResolveAdapter, StepDue
<1>2. /\ next \in 1..Len(steps) /\ Len(steps) \in Nat /\ next \in DOMAIN steps
      /\ DOMAIN steps = 1..Len(steps) /\ resolved \in Seq(Adapter)
  BY <1>1, PlanTyped DEF DepInv, DepTyped
<1>3. resolved' \in Seq(Adapter) /\ content' \in [Adapter -> Holdings]
  <2>1. resolved \in Seq(Adapter) /\ content \in [Adapter -> Holdings]
    BY DEF DepInv, DepTyped
  <2>2. CASE n \in names
    <3>1. content' = [content EXCEPT ![n] = c] /\ resolved' = Append(resolved, n)
      BY <1>1, <2>2
    <3>2. resolved' \in Seq(Adapter)
      BY <2>1, <3>1
    <3>3. content' \in [Adapter -> Holdings]
      BY <2>1, <3>1
    <3> QED BY <3>2, <3>3
  <2>3. CASE n \notin names
    BY <1>1, <2>1, <2>3
  <2> QED BY <2>2, <2>3
<1>4. DepTyped'
  BY <1>1, <1>2, <1>3 DEF DepInv, DepTyped
<1>5. AuditHolds'
  <2>1. passed = {}
    BY <1>1, <1>2 DEF DepInv, AuditHolds
  <2> QED BY <1>1, <2>1 DEF AuditHolds, Retiring
<1>6. StepsServed'
  <2>1. (PlanHolds' <=> PlanHolds) /\ (\A k : Resolves(k)' <=> Resolves(k))
        /\ (\A t : Due(t)' <=> Due(t))
    BY <1>1 DEF PlanHolds, InPhase, Resolves, SelectedAdapters, Covered, Due
  <2>2. DoneSteps = 1..(next - 1) /\ DoneSteps' = 1..next /\ DoneSteps' = DoneSteps \cup {next}
    BY <1>1, <1>2 DEF DoneSteps
  <2>3. /\ PlanHolds
        /\ \A i \in DOMAIN resolved :
             /\ resolved[i] \in names
             /\ \E k \in DoneSteps : Resolves(k) /\ steps[k].targets = {resolved[i]}
        /\ \A i, j \in DOMAIN resolved : i < j =>
             resolved[i] # resolved[j] /\ Phase[resolved[i]] <= Phase[resolved[j]]
        /\ \A k \in DoneSteps : ResolverRan(k) /\ HookRan(k)
    BY <1>1 DEF DepInv, StepsServed
  <2>4. CASE n \notin names
    <3>1. resolved' = resolved
      BY <1>1, <2>4
    <3>2. \A k \in DoneSteps' : k \in DoneSteps \/ k = next
      BY <2>2
    <3>3. ASSUME NEW k \in DoneSteps' PROVE ResolverRan(k)' /\ HookRan(k)'
      <4>1. CASE k = next
        BY <1>1, <2>1, <2>4, <4>1 DEF ResolverRan, HookRan
      <4>2. CASE k # next
        <5>1. ResolverRan(k) /\ HookRan(k)
          BY <2>3, <3>2, <4>2
        <5> QED BY <1>1, <2>1, <3>1, <5>1 DEF ResolverRan, HookRan
      <4> QED BY <4>1, <4>2
    <3>4. \A k \in DoneSteps : k \in DoneSteps'
      BY <2>2
    <3> QED BY <1>1, <2>1, <2>3, <3>1, <3>3, <3>4 DEF StepsServed
  <2>5. CASE n \in names
    <3> DEFINE top == Len(resolved) + 1
    <3>1. /\ resolved' = Append(resolved, n) /\ Len(resolved) \in Nat
          /\ DOMAIN resolved = 1..Len(resolved) /\ DOMAIN resolved' = 1..top
          /\ resolved'[top] = n /\ \A i \in DOMAIN resolved : resolved'[i] = resolved[i]
      <4>1. resolved' = Append(resolved, n)
        BY <1>1, <2>5
      <4>2. resolved \in Seq(Adapter)
        BY <1>2
      <4>3. Len(resolved) \in Nat /\ DOMAIN resolved = 1..Len(resolved)
        BY <4>2
      <4>4. DOMAIN resolved' = 1..top /\ resolved'[top] = n
        BY <4>1, <4>2
      <4>5. \A i \in DOMAIN resolved : resolved'[i] = resolved[i]
        BY <4>1, <4>2
      <4> QED BY <4>1, <4>3, <4>4, <4>5
    <3>2. DOMAIN resolved' = DOMAIN resolved \cup {top} /\ top \notin DOMAIN resolved
      BY <3>1
    <3>3. ASSUME NEW i \in DOMAIN resolved
          PROVE  resolved[i] # n /\ Phase[resolved[i]] <= Phase[n]
      <4>1. PICK k \in DoneSteps : Resolves(k) /\ steps[k].targets = {resolved[i]}
        BY <2>3
      <4>2. k \in DOMAIN steps /\ k < next /\ k # next
        BY <1>2, <2>2
      <4>3. resolved[i] # n
        <5>1. \A a, b \in DOMAIN steps :
                a # b /\ Resolves(a) /\ Resolves(b) => steps[a].targets # steps[b].targets
          BY <2>3 DEF PlanHolds
        <5>2. steps[k].targets # steps[next].targets
          BY <1>1, <1>2, <4>1, <4>2, <5>1
        <5> QED BY <1>1, <4>1, <5>2
      <4>4. resolved[i] \in SelectedAdapters /\ n \in SelectedAdapters
        BY <1>2, <2>3, <2>5 DEF SelectedAdapters
      <4>5. InPhase
        BY <2>3 DEF PlanHolds
      <4>6. resolved[i] \in steps[k].targets /\ n \in steps[next].targets
        BY <1>1, <4>1
      <4> QED BY <1>1, <1>2, <4>1, <4>2, <4>3, <4>4, <4>5, <4>6 DEF InPhase
    <3>4. ASSUME NEW i \in DOMAIN resolved'
          PROVE  /\ resolved'[i] \in names
                 /\ \E k \in DoneSteps' : Resolves(k) /\ steps[k].targets = {resolved'[i]}
      <4>1. CASE i = top
        BY <1>1, <2>2, <2>5, <3>1, <4>1
      <4>2. CASE i # top
        BY <2>2, <2>3, <3>1, <3>2, <4>2
      <4> QED BY <4>1, <4>2
    <3>5. ASSUME NEW i \in DOMAIN resolved', NEW j \in DOMAIN resolved', i < j
          PROVE  resolved'[i] # resolved'[j] /\ Phase[resolved'[i]] <= Phase[resolved'[j]]
      <4>1. i \in DOMAIN resolved
        BY <3>1, <3>5
      <4>2. CASE j = top
        BY <3>1, <3>3, <4>1, <4>2
      <4>3. CASE j # top
        <5>1. j \in DOMAIN resolved
          BY <3>2, <4>3
        <5>2. resolved'[i] = resolved[i] /\ resolved'[j] = resolved[j]
          BY <3>1, <4>1, <5>1
        <5>3. \A a, b \in DOMAIN resolved : a < b =>
                resolved[a] # resolved[b] /\ Phase[resolved[a]] <= Phase[resolved[b]]
          BY <2>3
        <5> QED BY <3>5, <4>1, <5>1, <5>2, <5>3
      <4> QED BY <4>2, <4>3
    <3>6. ASSUME NEW k \in DoneSteps' PROVE ResolverRan(k)' /\ HookRan(k)'
      <4>1. CASE k = next
        BY <1>1, <2>1, <3>1, <3>2, <4>1 DEF ResolverRan, HookRan
      <4>2. CASE k # next
        <5>1. ResolverRan(k) /\ HookRan(k)
          BY <2>2, <2>3, <4>2
        <5>2. \A m : (\E i \in DOMAIN resolved : resolved[i] = m)
                     => \E i \in DOMAIN resolved' : resolved'[i] = m
          BY <3>1, <3>2
        <5>3. HookRan(k)'
          BY <1>1, <2>1, <5>1 DEF HookRan
        <5> QED BY <1>1, <2>1, <5>1, <5>2, <5>3 DEF ResolverRan
      <4> QED BY <4>1, <4>2
    <3> QED BY <1>1, <2>1, <2>3, <3>4, <3>5, <3>6 DEF StepsServed
  <2> QED BY <2>4, <2>5
<1>7. RetireHolds'
  BY <1>1, NothingRetired
<1> QED BY <1>4, <1>5, <1>6, <1>7 DEF DepInv

\* A policy edit is counted, and changes one list or one document.
LEMMA EditFacts ==
  ASSUME DepInv, EditPolicy
  PROVE  /\ edits' = edits + 1 /\ edits' \in Nat
         /\ lists' \in [PolicyLists -> ListStates] /\ other' \in [Documents -> Nat]
<1>1. /\ lists \in [PolicyLists -> ListStates] /\ other \in [Documents -> Nat]
      /\ edits \in Nat
  BY DEF DepInv, DepTyped
<1>2. edits' = edits + 1 /\ edits' \in Nat
  BY <1>1 DEF EditPolicy
<1>3. CASE \E l \in PolicyLists, s \in ListStates :
             s # lists[l] /\ lists' = [lists EXCEPT ![l] = s] /\ UNCHANGED other
  BY <1>1, <1>2, <1>3
<1>4. CASE \E d \in Documents : other' = [other EXCEPT ![d] = edits + 1] /\ UNCHANGED lists
  BY <1>1, <1>2, <1>4
<1> QED BY <1>2, <1>3, <1>4 DEF EditPolicy

LEMMA RunHookKeeps == ASSUME DepInv, RunHook PROVE DepInv'
<1>1. /\ phase = "steps" /\ next <= Len(steps) /\ ~Resolves(next) /\ next' = next + 1
      /\ UNCHANGED <<phase, names, steps, resolved, origin, passed, copy, body, late>>
  BY DEF RunHook, StepDue
<1>2. /\ next \in 1..Len(steps) /\ Len(steps) \in Nat /\ next \in DOMAIN steps
      /\ DOMAIN steps = 1..Len(steps)
  BY <1>1, PlanTyped DEF DepInv, DepTyped
<1>3. /\ content' \in [Adapter -> Holdings] /\ lists' \in [PolicyLists -> ListStates]
      /\ other' \in [Documents -> Nat] /\ edits' \in Nat
  BY EditFacts DEF RunHook, DepInv, DepTyped
<1>4. /\ served \subseteq served'
      /\ Due(steps[next].targets) => steps[next].targets \subseteq served'
  BY DEF RunHook
<1>5. DepTyped'
  BY <1>1, <1>2, <1>3 DEF DepInv, DepTyped
<1>6. AuditHolds'
  <2>1. passed = {}
    BY <1>1, <1>2 DEF DepInv, AuditHolds
  <2> QED BY <1>1, <2>1 DEF AuditHolds, Retiring
<1>7. StepsServed'
  <2>1. (PlanHolds' <=> PlanHolds) /\ (\A k : Resolves(k)' <=> Resolves(k))
        /\ (\A t : Due(t)' <=> Due(t))
    BY <1>1 DEF PlanHolds, InPhase, Resolves, SelectedAdapters, Covered, Due
  <2>2. DoneSteps' = DoneSteps \cup {next}
    BY <1>1, <1>2 DEF DoneSteps
  <2>3. ASSUME NEW k \in DoneSteps' PROVE ResolverRan(k)' /\ HookRan(k)'
    <3>1. CASE k = next
      BY <1>1, <1>4, <2>1, <3>1 DEF ResolverRan, HookRan
    <3>2. CASE k # next
      <4>1. ResolverRan(k) /\ HookRan(k)
        BY <1>1, <2>2, <3>2 DEF DepInv, StepsServed
      <4> QED BY <1>1, <1>4, <2>1, <4>1 DEF ResolverRan, HookRan
    <3> QED BY <3>1, <3>2
  <2> QED BY <1>1, <2>1, <2>2, <2>3 DEF DepInv, StepsServed
<1>8. RetireHolds'
  BY <1>1, NothingRetired
<1> QED BY <1>5, <1>6, <1>7, <1>8 DEF DepInv

LEMMA StepFailsKeeps == ASSUME DepInv, StepFails PROVE DepInv'
<1>1. /\ phase' = "failed"
      /\ UNCHANGED <<names, steps, next, resolved, served, content, lists, other, origin, passed,
                     copy, body, edits, late>>
  BY DEF StepFails
<1>2. DepTyped'
  BY <1>1 DEF DepInv, DepTyped
<1>3. StepsServed'
  BY <1>1 DEF StepsServed
<1>4. AuditHolds'
  BY <1>1 DEF DepInv, AuditHolds, Retiring, SelectedAdapters, Passes
<1>5. RetireHolds'
  BY <1>1, NothingRetired
<1> QED BY <1>2, <1>3, <1>4, <1>5 DEF DepInv

LEMMA AuditKeeps == ASSUME DepInv, NEW n \in Adapter, AuditAdapter(n) PROVE DepInv'
<1>1. /\ phase = "steps" /\ next > Len(steps) /\ n \in SelectedAdapters
      /\ IF Passes(n) THEN passed' = passed \cup {n} /\ UNCHANGED phase
                      ELSE phase' = "failed" /\ UNCHANGED passed
      /\ UNCHANGED <<names, steps, next, resolved, served, content, lists, other, origin, copy,
                     body, edits, late>>
  BY DEF AuditAdapter, AuditDue
<1>2. phase' \in {"steps", "failed"}
  BY <1>1
<1>3. DepTyped'
  BY <1>1, <1>2 DEF DepInv, DepTyped
<1>4. StepsServed'
  <2>1. phase' # "failed" => phase' = phase
    BY <1>1
  <2>2. phase' # "failed" => DoneSteps' = DoneSteps
    BY <1>1, <2>1 DEF DoneSteps
  <2> QED BY <1>1, <2>1, <2>2, ServedSame
<1>5. AuditHolds'
  BY <1>1, <1>2 DEF DepInv, AuditHolds, Retiring, SelectedAdapters, Passes
<1>6. RetireHolds'
  BY <1>2, NothingRetired
<1> QED BY <1>3, <1>4, <1>5, <1>6 DEF DepInv

LEMMA BeginRetireKeeps == ASSUME DepInv, BeginRetire PROVE DepInv'
<1>1. /\ phase = "steps" /\ next > Len(steps) /\ passed = SelectedAdapters /\ next' = 1
      /\ phase' = IF HasExceptions THEN "reads" ELSE "inspects"
      /\ UNCHANGED <<names, steps, resolved, served, content, lists, other, origin, passed, copy,
                     body, edits, late>>
  BY DEF BeginRetire
<1>2. HasExceptions' <=> HasExceptions
  BY <1>1, RetiredSame
<1>3. DepTyped'
  BY <1>1 DEF DepInv, DepTyped, Documents
<1>4. StepsServed'
  <2>1. next = Len(steps) + 1 /\ Len(steps) \in Nat /\ DOMAIN steps = 1..Len(steps)
    BY <1>1, PlanTyped DEF DepInv, DepTyped
  <2>2. DoneSteps' = DoneSteps
    BY <1>1, <2>1 DEF DoneSteps
  <2> QED BY <1>1, <2>2, ServedSame
<1>5. AuditHolds'
  BY <1>1 DEF DepInv, AuditHolds, Retiring, SelectedAdapters, Passes
<1>6. RetireHolds'
  <2>1. ASSUME NEW d \in Documents PROVE ~HasBeenRead(d)' /\ ~HasBeenWritten(d)'
    <3>1. ~(d < 1)
      BY DEF Documents
    <3> QED BY <1>1, <1>2, <3>1 DEF HasBeenRead, HasBeenWritten
  <2> QED BY <1>1, <1>2, <2>1 DEF RetireHolds
<1> QED BY <1>3, <1>4, <1>5, <1>6 DEF DepInv

\* What retirement will write of a document: what it has read, without what is retired.
LEMMA RenderedForm ==
  ASSUME NEW o, NEW S, NEW f \in [S -> ListStates], NEW A
  PROVE  /\ Rendered([other |-> o, lists |-> f], A)
              = [other |-> o, lists |-> [l \in S |-> IF l \in A THEN "empty" ELSE f[l]]]
         /\ [l \in S |-> IF l \in A THEN "empty" ELSE f[l]] \in [S -> ListStates]
BY DEF Rendered, Emptied, ListStates

LEMMA BodyForm ==
  ASSUME DepInv, NEW d \in Documents, HasBeenRead(d)
  PROVE  /\ copy[d].other = 0 /\ copy[d].lists \in [ListsOf(d) -> ListStates]
         /\ body[d] = [other |-> 0,
                       lists |-> [l \in ListsOf(d) |->
                                    IF l \in Retired(d) THEN "empty" ELSE copy[d].lists[l]]]
         /\ \A l \in ListsOf(d) : body[d].lists[l] \in ListStates
<1>1. /\ copy[d].lists \in [ListsOf(d) -> ListStates]
      /\ copy[d] = [other |-> copy[d].other, lists |-> copy[d].lists]
      /\ Permitted(copy[d], Retired(d)) /\ body[d] = Rendered(copy[d], Retired(d))
  BY DEF DepInv, RetireHolds
<1>2. copy[d].other = 0
  BY <1>1 DEF Permitted
<1> DEFINE f == copy[d].lists
           g == [l \in ListsOf(d) |-> IF l \in Retired(d) THEN "empty" ELSE f[l]]
<1>3. copy[d] = [other |-> 0, lists |-> f]
  BY <1>1, <1>2
<1>4. f \in [ListsOf(d) -> ListStates]
  BY <1>1
<1>5. Rendered([other |-> 0, lists |-> f], Retired(d)) = [other |-> 0, lists |-> g]
      /\ g \in [ListsOf(d) -> ListStates]
  <2> HIDE DEF f
  <2>1. Rendered([other |-> 0, lists |-> f], Retired(d)) = [other |-> 0, lists |-> g]
    BY <1>4, RenderedForm
  <2>2. g \in [ListsOf(d) -> ListStates]
    BY <1>4 DEF ListStates
  <2> QED BY <2>1, <2>2
<1>6. body[d] = [other |-> 0, lists |-> g]
  BY <1>1, <1>3, <1>5
<1>7. \A l \in ListsOf(d) : body[d].lists[l] \in ListStates
  <2> HIDE DEF g
  <2> QED BY <1>5, <1>6
<1> QED BY <1>1, <1>2, <1>6, <1>7

LEMMA NowForm ==
  ASSUME NEW d
  PROVE  Now(d) = [other |-> other[d], lists |-> [l \in ListsOf(d) |-> lists[l]]]
BY DEF Now, ListsOf

LEMMA ReadDocumentKeeps == ASSUME DepInv, NEW d \in Documents, ReadDocument(d) PROVE DepInv'
<1>1. /\ phase = "reads" /\ next = d
      /\ UNCHANGED <<names, steps, resolved, served, content, lists, other, origin, passed, edits,
                     late>>
  BY DEF ReadDocument
<1>2. UNCHANGED <<content, passed, origin>>
  BY <1>1
<1>3. d = 1 \/ d = 2
  BY DEF Documents
<1>4. CASE ~Permitted(Now(d), Retired(d))
  <2>1. phase' = "failed" /\ UNCHANGED <<next, copy, body>>
    BY <1>4 DEF ReadDocument
  <2>2. DepTyped'
    BY <1>1, <2>1 DEF DepInv, DepTyped
  <2>3. StepsServed'
    BY <2>1 DEF StepsServed
  <2>4. AuditHolds'
    BY <1>1, <2>1 DEF DepInv, AuditHolds, Retiring, SelectedAdapters, Passes
  <2>5. RetireHolds'
    BY <2>1, NothingRetired
  <2> QED BY <2>2, <2>3, <2>4, <2>5 DEF DepInv
<1>5. CASE Permitted(Now(d), Retired(d))
  <2>1. /\ copy' = [copy EXCEPT ![d] = Now(d)]
        /\ body' = [body EXCEPT ![d] = Rendered(Now(d), Retired(d))]
        /\ IF d = 2 THEN phase' = "writes" /\ next' = 1 ELSE next' = d + 1 /\ UNCHANGED phase
    BY <1>5 DEF ReadDocument
  <2>2. phase' \in {"reads", "writes"} /\ next' \in Documents
    BY <1>1, <1>3, <2>1 DEF Documents
  <2>3. copy = [e \in Documents |-> copy[e]] /\ body = [e \in Documents |-> body[e]]
    BY DEF DepInv, DepTyped
  <2>4. /\ copy'[d] = Now(d) /\ body'[d] = Rendered(Now(d), Retired(d))
        /\ \A e \in Documents : e # d => copy'[e] = copy[e] /\ body'[e] = body[e]
        /\ copy' = [e \in Documents |-> copy'[e]] /\ body' = [e \in Documents |-> body'[e]]
    BY <2>1, <2>3
  <2>5. DepTyped'
    BY <1>1, <2>2, <2>4 DEF DepInv, DepTyped, Documents
  <2>6. StepsServed'
    <3>1. DoneSteps' = DoneSteps
      BY <1>1, <2>2 DEF DoneSteps
    <3> QED BY <1>1, <3>1, ServedSame
  <2>7. AuditHolds'
    BY <1>1, <2>2 DEF DepInv, AuditHolds, Retiring, SelectedAdapters, Passes
  <2>8. RetireHolds'
    <3>1. HasExceptions /\ HasExceptions'
      BY <1>1, <1>2, RetiredSame DEF DepInv, RetireHolds
    <3>2. ASSUME NEW e \in Documents, HasBeenRead(e)'
          PROVE  /\ copy'[e].lists \in [ListsOf(e) -> ListStates]
                 /\ copy'[e] = [other |-> copy'[e].other, lists |-> copy'[e].lists]
                 /\ Permitted(copy'[e], Retired(e)) /\ body'[e] = Rendered(copy'[e], Retired(e))
      <4>1. CASE e = d
        <5>1. Now(d) = [other |-> other[d], lists |-> [l \in ListsOf(d) |-> lists[l]]]
          BY NowForm
        <5>2. [l \in ListsOf(d) |-> lists[l]] \in [ListsOf(d) -> ListStates]
          BY DEF ListsOf, DepInv, DepTyped
        <5>3. /\ copy'[d].lists \in [ListsOf(d) -> ListStates]
              /\ copy'[d] = [other |-> copy'[d].other, lists |-> copy'[d].lists]
          BY <2>4, <5>1, <5>2
        <5> QED BY <1>5, <2>4, <4>1, <5>3
      <4>2. CASE e # d
        <5>1. HasBeenRead(e)
          BY <1>1, <1>3, <2>1, <3>2, <4>2 DEF HasBeenRead, Documents
        <5> QED BY <2>4, <4>2, <5>1 DEF DepInv, RetireHolds
      <4> QED BY <4>1, <4>2
    <3>3. ASSUME NEW e \in Documents PROVE ~HasBeenWritten(e)'
      BY <1>1, <1>3, <2>1, <3>1 DEF HasBeenWritten, Documents
    <3>4. ASSUME NEW e \in Documents, HasBeenRead(e)'
          PROVE  Permitted(copy[e], Retired(e))' /\ body'[e] = Rendered(copy[e], Retired(e))'
      <4>1. Retired(e)' = Retired(e)
        BY <1>2, RetiredSame
      <4>2. Permitted(copy'[e], Retired(e)) /\ body'[e] = Rendered(copy'[e], Retired(e))
        BY <3>2, <3>4
      <4>3. Permitted(copy[e], Retired(e))'
        BY <1>2, <4>1, <4>2 DEF Permitted
      <4> QED BY <4>1, <4>2, <4>3 DEF Rendered
    <3> QED BY <2>2, <3>1, <3>2, <3>3, <3>4 DEF RetireHolds, ListsOf
  <2> QED BY <2>5, <2>6, <2>7, <2>8 DEF DepInv
<1> QED BY <1>4, <1>5

\* Where nothing of a document's retirement changes, what was read and will be written holds.
LEMMA ReadSame ==
  ASSUME DepInv, UNCHANGED <<content, passed, origin, copy, body>>, NEW e \in Documents,
         HasBeenRead(e)' => HasBeenRead(e)
  PROVE  HasBeenRead(e)' =>
           /\ copy'[e].lists \in [ListsOf(e) -> ListStates]
           /\ copy'[e] = [other |-> copy'[e].other, lists |-> copy'[e].lists]
           /\ Permitted(copy[e], Retired(e))' /\ body'[e] = Rendered(copy[e], Retired(e))'
<1>1. Retired(e)' = Retired(e)
  BY RetiredSame
<1>2. HasBeenRead(e) =>
        /\ copy[e].lists \in [ListsOf(e) -> ListStates]
        /\ copy[e] = [other |-> copy[e].other, lists |-> copy[e].lists]
        /\ Permitted(copy[e], Retired(e)) /\ body[e] = Rendered(copy[e], Retired(e))
  BY DEF DepInv, RetireHolds
<1>3. copy'[e] = copy[e] /\ body'[e] = body[e]
  OBVIOUS
<1>4. Permitted(copy[e], Retired(e))' <=> Permitted(copy[e], Retired(e))
  BY <1>1, <1>3 DEF Permitted
<1>5. Rendered(copy[e], Retired(e))' = Rendered(copy[e], Retired(e))
  BY <1>1, <1>3 DEF Rendered
<1> SUFFICES ASSUME HasBeenRead(e)'
             PROVE  /\ copy'[e].lists \in [ListsOf(e) -> ListStates]
                    /\ copy'[e] = [other |-> copy'[e].other, lists |-> copy'[e].lists]
                    /\ Permitted(copy[e], Retired(e))'
                    /\ body'[e] = Rendered(copy[e], Retired(e))'
  OBVIOUS
<1>6. HasBeenRead(e)
  OBVIOUS
<1> QED BY <1>2, <1>3, <1>4, <1>5, <1>6

LEMMA WriteDocumentKeeps == ASSUME DepInv, NEW d \in Documents, WriteDocument(d) PROVE DepInv'
<1>1. /\ phase = "writes" /\ next = d
      /\ UNCHANGED <<names, steps, resolved, served, content, origin, passed, copy, body, edits,
                     late>>
  BY DEF WriteDocument
<1>2. HasExceptions /\ HasExceptions'
  BY <1>1, RetiredSame DEF DepInv, RetireHolds
<1>3. d = 1 \/ d = 2
  BY DEF Documents
<1>4. CASE ~Untouched(d)
  <2>1. phase' = "failed" /\ UNCHANGED <<next, lists, other>>
    BY <1>4 DEF WriteDocument
  <2>2. DepTyped'
    BY <1>1, <2>1 DEF DepInv, DepTyped
  <2>3. StepsServed'
    BY <2>1 DEF StepsServed
  <2>4. AuditHolds'
    BY <1>1, <2>1 DEF DepInv, AuditHolds, Retiring, SelectedAdapters, Passes
  <2>5. RetireHolds'
    BY <2>1, NothingRetired
  <2> QED BY <2>2, <2>3, <2>4, <2>5 DEF DepInv
<1>5. CASE Untouched(d)
  <2>1. /\ lists' = [l \in PolicyLists |-> IF l[1] = d THEN body[d].lists[l] ELSE lists[l]]
        /\ other' = [other EXCEPT ![d] = body[d].other]
        /\ IF d = 2 THEN phase' = "inspects" /\ next' = 1 ELSE next' = d + 1 /\ UNCHANGED phase
    BY <1>5 DEF WriteDocument
  <2>2. /\ phase' \in {"writes", "inspects"} /\ next' \in Documents
    BY <1>1, <1>3, <2>1 DEF Documents
  <2>3. HasBeenRead(d)
    BY <1>1 DEF HasBeenRead
  <2>4. /\ body[d].other = 0 /\ \A l \in ListsOf(d) : body[d].lists[l] \in ListStates
        /\ body[d].lists = [l \in ListsOf(d) |-> body[d].lists[l]]
        /\ body[d] = [other |-> 0, lists |-> body[d].lists]
    <3> DEFINE g == [l \in ListsOf(d) |-> IF l \in Retired(d) THEN "empty" ELSE copy[d].lists[l]]
    <3>1. /\ body[d] = [other |-> 0, lists |-> g]
          /\ \A l \in ListsOf(d) : body[d].lists[l] \in ListStates
      BY <2>3, BodyForm
    <3>2. g = [l \in ListsOf(d) |-> g[l]]
      OBVIOUS
    <3> HIDE DEF g
    <3> QED BY <3>1, <3>2
  <2>5. lists' \in [PolicyLists -> ListStates] /\ other' \in [Documents -> Nat]
    <3>1. lists \in [PolicyLists -> ListStates] /\ other \in [Documents -> Nat]
      BY DEF DepInv, DepTyped
    <3>2. \A l \in PolicyLists : l[1] = d => l \in ListsOf(d)
      BY DEF ListsOf
    <3> QED BY <2>1, <2>4, <3>1, <3>2
  <2>6. DepTyped'
    BY <1>1, <2>2, <2>5 DEF DepInv, DepTyped, Documents
  <2>7. StepsServed'
    <3>1. DoneSteps' = DoneSteps
      BY <1>1, <2>2 DEF DoneSteps
    <3> QED BY <1>1, <3>1, ServedSame
  <2>8. AuditHolds'
    BY <1>1, <2>2 DEF DepInv, AuditHolds, Retiring, SelectedAdapters, Passes
  <2>9. RetireHolds'
    <3>1. ASSUME NEW e \in Documents
          PROVE  HasBeenRead(e)' =>
                   /\ copy'[e].lists \in [ListsOf(e) -> ListStates]
                   /\ copy'[e] = [other |-> copy'[e].other, lists |-> copy'[e].lists]
                   /\ Permitted(copy[e], Retired(e))' /\ body'[e] = Rendered(copy[e], Retired(e))'
      <4>1. HasBeenRead(e)
        BY <1>1 DEF HasBeenRead
      <4> QED BY <1>1, <4>1, ReadSame
    <3>2. Now(d)' = body[d]
      <4>1. Now(d)' = [other |-> other'[d], lists |-> [l \in ListsOf(d) |-> lists'[l]]]
        BY DEF Now, ListsOf
      <4>2. other'[d] = 0
        BY <2>1, <2>4 DEF DepInv, DepTyped
      <4>3. \A l \in ListsOf(d) : lists'[l] = body[d].lists[l]
        BY <2>1 DEF ListsOf
      <4> QED BY <2>4, <4>1, <4>2, <4>3
    <3>3. ASSUME NEW e \in Documents, e # d PROVE Now(e)' = Now(e)
      <4>1. other'[e] = other[e]
        BY <2>1, <3>3 DEF DepInv, DepTyped
      <4>2. \A l \in ListsOf(e) : lists'[l] = lists[l]
        BY <2>1, <3>3 DEF ListsOf
      <4>3. Now(e)' = [other |-> other'[e], lists |-> [l \in ListsOf(e) |-> lists'[l]]]
        BY DEF Now, ListsOf
      <4> QED BY <4>1, <4>2, <4>3, NowForm
    <3>4. ASSUME NEW e \in Documents, ~late', HasBeenWritten(e)' PROVE Now(e)' = body'[e]
      <4>1. CASE e = d
        BY <1>1, <3>2, <4>1
      <4>2. CASE e # d
        <5>1. HasBeenWritten(e)
          BY <1>1, <1>3, <2>1, <3>4, <4>2 DEF HasBeenWritten, Documents
        <5>2. Now(e) = body[e]
          BY <1>1, <3>4, <5>1 DEF DepInv, RetireHolds
        <5> QED BY <1>1, <3>3, <4>2, <5>2
      <4> QED BY <4>1, <4>2
    <3> QED BY <1>2, <2>2, <3>1, <3>4 DEF RetireHolds, ListsOf
  <2> QED BY <2>6, <2>7, <2>8, <2>9 DEF DepInv
<1> QED BY <1>4, <1>5

LEMMA InspectKeeps == ASSUME DepInv, InspectPolicy PROVE DepInv'
<1>1. /\ phase = "inspects"
      /\ phase' = IF \A d \in Documents : Permitted(Now(d), Entries(d)) THEN "done" ELSE "failed"
      /\ UNCHANGED <<names, steps, next, resolved, served, content, lists, other, origin, passed,
                     copy, body, edits, late>>
  BY DEF InspectPolicy
<1>2. phase' \in {"done", "failed"}
  BY <1>1
<1>3. DepTyped'
  BY <1>1, <1>2 DEF DepInv, DepTyped
<1>4. StepsServed'
  <2>1. DoneSteps' = DoneSteps
    BY <1>1, <1>2 DEF DoneSteps
  <2> QED BY <1>1, <2>1, ServedSame
<1>5. AuditHolds'
  BY <1>1, <1>2 DEF DepInv, AuditHolds, Retiring, SelectedAdapters, Passes
<1>6. RetireHolds'
  <2>1. CASE phase' = "failed"
    BY <2>1, NothingRetired
  <2>2. CASE phase' = "done"
    <3>1. HasExceptions' <=> HasExceptions
      BY <1>1, RetiredSame
    <3>2. ASSUME NEW d \in Documents
          PROVE  /\ HasBeenRead(d)' => HasBeenRead(d)
                 /\ HasBeenWritten(d)' => HasBeenWritten(d)
      BY <1>1, <2>2, <3>1 DEF HasBeenRead, HasBeenWritten
    <3>3. ASSUME NEW d \in Documents
          PROVE  HasBeenRead(d)' =>
                   /\ copy'[d].lists \in [ListsOf(d) -> ListStates]
                   /\ copy'[d] = [other |-> copy'[d].other, lists |-> copy'[d].lists]
                   /\ Permitted(copy[d], Retired(d))' /\ body'[d] = Rendered(copy[d], Retired(d))'
      BY <1>1, <3>2, ReadSame
    <3>4. \A d : Now(d)' = Now(d)
      BY <1>1 DEF Now
    <3>5. \A d \in Documents : Permitted(Now(d), Entries(d))
      BY <1>1, <2>2
    <3>6. \A d \in Documents : Permitted(Now(d), Entries(d))'
      <4>1. ASSUME NEW d \in Documents PROVE Permitted(Now(d), Entries(d))'
        <5>1. Entries(d)' = Entries(d)
          BY <1>1, RetiredSame
        <5>2. Now(d)' = Now(d) /\ origin' = origin /\ Permitted(Now(d), Entries(d))
          BY <1>1, <3>4, <3>5
        <5> QED BY <5>1, <5>2 DEF Permitted
      <4> QED BY <4>1
    <3>7. ASSUME NEW d \in Documents, ~late', HasBeenWritten(d)' PROVE Now(d)' = body'[d]
      BY <1>1, <3>2, <3>4, <3>7 DEF DepInv, RetireHolds
    <3> QED BY <2>2, <3>3, <3>6, <3>7 DEF RetireHolds, ListsOf
  <2> QED BY <1>2, <2>1, <2>2
<1> QED BY <1>3, <1>4, <1>5, <1>6 DEF DepInv

LEMMA LeftoverEditsKeeps == ASSUME DepInv, LeftoverEdits PROVE DepInv'
<1>1. /\ phase \in {"steps", "reads", "writes", "inspects"}
      /\ late' = (late \/ phase \in {"writes", "inspects"} \/ (phase = "reads" /\ next > 1))
      /\ UNCHANGED <<phase, names, steps, next, resolved, served, content, origin, passed, copy,
                     body>>
  BY DEF LeftoverEdits
<1>2. /\ lists' \in [PolicyLists -> ListStates] /\ other' \in [Documents -> Nat]
      /\ edits' \in Nat
  BY EditFacts DEF LeftoverEdits
<1>3. late' \in BOOLEAN
  BY <1>1
<1>4. DepTyped'
  BY <1>1, <1>2, <1>3 DEF DepInv, DepTyped
<1>5. StepsServed'
  <2>1. DoneSteps' = DoneSteps
    BY <1>1 DEF DoneSteps
  <2> QED BY <1>1, <2>1, ServedSame
<1>6. AuditHolds'
  BY <1>1 DEF DepInv, AuditHolds, Retiring, SelectedAdapters, Passes, Excepts
<1>7. RetireHolds'
  <2>1. HasExceptions' <=> HasExceptions
    BY <1>1, RetiredSame
  <2>2. ASSUME NEW d \in Documents
        PROVE  HasBeenRead(d)' =>
                 /\ copy'[d].lists \in [ListsOf(d) -> ListStates]
                 /\ copy'[d] = [other |-> copy'[d].other, lists |-> copy'[d].lists]
                 /\ Permitted(copy[d], Retired(d))' /\ body'[d] = Rendered(copy[d], Retired(d))'
    <3>1. HasBeenRead(d)' => HasBeenRead(d)
      BY <1>1, <2>1 DEF HasBeenRead
    <3> QED BY <1>1, <3>1, ReadSame
  <2>3. ASSUME NEW d \in Documents, ~late' PROVE ~HasBeenWritten(d)'
    BY <1>1, <2>3 DEF HasBeenWritten
  <2>4. phase' \in {"reads", "writes"} => HasExceptions'
    BY <1>1, <2>1 DEF DepInv, RetireHolds
  <2> QED BY <1>1, <2>2, <2>3, <2>4 DEF RetireHolds, ListsOf
<1> QED BY <1>4, <1>5, <1>6, <1>7 DEF DepInv

LEMMA StutterKeeps ==
  ASSUME DepInv, UNCHANGED <<phase, names, steps, next, resolved, served, content, lists, other,
                             origin, passed, copy, body, edits, late>>
  PROVE  DepInv'
<1>1. UNCHANGED <<content, passed, origin, copy, body>>
  OBVIOUS
<1>2. DepTyped'
  BY DEF DepInv, DepTyped
<1>3. StepsServed'
  <2>1. DoneSteps' = DoneSteps
    BY DEF DoneSteps
  <2> QED BY <2>1, ServedSame
<1>4. AuditHolds'
  BY DEF DepInv, AuditHolds, Retiring, SelectedAdapters, Passes, Excepts
<1>5. RetireHolds'
  <2>1. HasExceptions' <=> HasExceptions
    BY <1>1, RetiredSame
  <2>2. ASSUME NEW d \in Documents
        PROVE  /\ HasBeenRead(d)' => HasBeenRead(d)
               /\ HasBeenWritten(d)' => HasBeenWritten(d)
    BY <2>1 DEF HasBeenRead, HasBeenWritten
  <2>3. ASSUME NEW d \in Documents
        PROVE  HasBeenRead(d)' =>
                 /\ copy'[d].lists \in [ListsOf(d) -> ListStates]
                 /\ copy'[d] = [other |-> copy'[d].other, lists |-> copy'[d].lists]
                 /\ Permitted(copy[d], Retired(d))' /\ body'[d] = Rendered(copy[d], Retired(d))'
    BY <1>1, <2>2, ReadSame
  <2>4. \A d : Now(d)' = Now(d)
    BY DEF Now
  <2>5. phase' = "done" => \A d \in Documents : Permitted(Now(d), Entries(d))'
    <3>1. ASSUME NEW d \in Documents, Permitted(Now(d), Entries(d))
          PROVE  Permitted(Now(d), Entries(d))'
      BY <3>1 DEF Permitted, Now, Entries
    <3> QED BY <3>1 DEF DepInv, RetireHolds
  <2>6. ASSUME NEW d \in Documents, ~late', HasBeenWritten(d)' PROVE Now(d)' = body'[d]
    BY <2>2, <2>4, <2>6 DEF DepInv, RetireHolds
  <2>7. phase' \in {"reads", "writes"} => HasExceptions'
    BY <2>1 DEF DepInv, RetireHolds
  <2> QED BY <2>3, <2>5, <2>6, <2>7 DEF RetireHolds, ListsOf
<1> QED BY <1>2, <1>3, <1>4, <1>5 DEF DepInv

\* The invariant of a resolution: what has run was served and audited, and what
\* retirement has read and written is as it was allowed (run_steps, retire).
THEOREM DepInvariant == DepSpec => []DepInv
<1>1. DepInit => DepInv
  <2> SUFFICES ASSUME DepInit PROVE DepInv
    OBVIOUS
  <2>1. /\ phase = "plans" /\ names \in (SUBSET (Adapter \cup HookTargets)) \ {{}}
        /\ steps \in PlanChoices /\ next = 1 /\ resolved = <<>> /\ passed = {}
        /\ lists \in [PolicyLists -> ListStates] /\ origin = lists
        /\ content \in [Adapter -> [new : {FALSE}, mature : BOOLEAN]]
        /\ other = [d \in Documents |-> 0] /\ edits = 0 /\ late = FALSE
        /\ copy = [d \in Documents |-> Unread] /\ body = [d \in Documents |-> Unread]
    BY DEF DepInit
  <2>2. content \in [Adapter -> Holdings]
    <3>1. [new : {FALSE}, mature : BOOLEAN] \subseteq Holdings
      BY DEF Holdings
    <3> QED BY <2>1, <3>1
  <2>3. /\ copy = [d \in Documents |-> copy[d]] /\ body = [d \in Documents |-> body[d]]
        /\ other \in [Documents -> Nat] /\ resolved \in Seq(Adapter)
    BY <2>1
  <2>4. next \in Nat \ {0} /\ edits \in Nat /\ late \in BOOLEAN
    <3>1. next \in Nat \ {0} /\ edits \in Nat
      BY <2>1
    <3>2. late \in BOOLEAN
      BY <2>1, Zenon
    <3> QED BY <3>1, <3>2
  <2>7. names \subseteq Adapter \cup HookTargets /\ origin \in [PolicyLists -> ListStates]
    BY <2>1
  <2>6. DepTyped
    BY <2>1, <2>2, <2>3, <2>4, <2>7 DEF DepTyped
  <2>5. StepsServed /\ AuditHolds /\ RetireHolds
    BY <2>1 DEF StepsServed, AuditHolds, RetireHolds, Retiring, HasBeenRead, HasBeenWritten
  <2> QED BY <2>5, <2>6 DEF DepInv
<1>2. DepInv /\ [DepNext]_depVars => DepInv'
  <2> SUFFICES ASSUME DepInv, [DepNext]_depVars PROVE DepInv'
    OBVIOUS
  <2>1. CASE UNCHANGED depVars
    BY <2>1, StutterKeeps DEF depVars
  <2>2. CASE PlanSteps
    BY <2>2, PlanStepsKeeps
  <2>3. CASE RunHook
    BY <2>3, RunHookKeeps
  <2>4. CASE StepFails
    BY <2>4, StepFailsKeeps
  <2>5. CASE BeginRetire
    BY <2>5, BeginRetireKeeps
  <2>6. CASE InspectPolicy
    BY <2>6, InspectKeeps
  <2>7. CASE LeftoverEdits
    BY <2>7, LeftoverEditsKeeps
  <2>8. ASSUME NEW n \in Adapter, AuditAdapter(n) PROVE DepInv'
    BY <2>8, AuditKeeps
  <2>9. ASSUME NEW n \in Adapter, NEW c \in Holdings, ResolveAdapter(n, c) PROVE DepInv'
    BY <2>9, ResolveKeeps
  <2>10. ASSUME NEW d \in Documents, ReadDocument(d) PROVE DepInv'
    BY <2>10, ReadDocumentKeeps
  <2>11. ASSUME NEW d \in Documents, WriteDocument(d) PROVE DepInv'
    BY <2>11, WriteDocumentKeeps
  <2> QED BY <2>1, <2>2, <2>3, <2>4, <2>5, <2>6, <2>7, <2>8, <2>9, <2>10, <2>11 DEF DepNext
<1> QED BY <1>1, <1>2, PTL DEF DepSpec

\* CompletedIsAudited: a finished resolution has audited what each adapter holds in the
\* end against the original policy (audit in run_steps).
THEOREM ResolutionsAreAudited == DepSpec => []CompletedIsAudited
<1>1. DepInv => CompletedIsAudited
  BY DEF DepInv, AuditHolds, Retiring, Passes, CompletedIsAudited
<1> QED BY <1>1, DepInvariant, PTL

\* PlanIsServed: a finished resolution has resolved each selected adapter once, in the
\* order of the phases, and run the hooks of the other targets (run_steps).
THEOREM TargetsAreServed == DepSpec => []PlanIsServed
<1>1. ASSUME DepInv, phase = "done"
      PROVE  /\ \A n \in SelectedAdapters :
                  Cardinality({i \in DOMAIN resolved : resolved[i] = n}) = 1
             /\ names \ Adapter \subseteq served
             /\ \A i, j \in DOMAIN resolved : i < j => Phase[resolved[i]] <= Phase[resolved[j]]
  <2>1. /\ PlanHolds
        /\ \A i, j \in DOMAIN resolved : i < j =>
             resolved[i] # resolved[j] /\ Phase[resolved[i]] <= Phase[resolved[j]]
        /\ \A k \in DOMAIN steps : ResolverRan(k) /\ HookRan(k)
    BY <1>1 DEF DepInv, StepsServed, DoneSteps
  <2>2. ASSUME NEW n \in SelectedAdapters
        PROVE  Cardinality({i \in DOMAIN resolved : resolved[i] = n}) = 1
    <3>1. PICK k \in DOMAIN steps : Resolves(k) /\ steps[k].targets = {n}
      BY <2>1 DEF PlanHolds
    <3>2. PICK j \in DOMAIN resolved : resolved[j] = n
      BY <2>1, <3>1 DEF ResolverRan, SelectedAdapters
    <3>3. ASSUME NEW i \in DOMAIN resolved, resolved[i] = n PROVE i = j
      <4>1. i \in Nat /\ j \in Nat
        BY <1>1 DEF DepInv, DepTyped
      <4> QED BY <2>1, <3>2, <3>3, <4>1
    <3>4. {i \in DOMAIN resolved : resolved[i] = n} = {j}
      BY <3>2, <3>3
    <3> QED BY <3>4, FS_Singleton
  <2>3. ASSUME NEW t \in names, t \notin Adapter PROVE t \in served
    <3>1. PICK k \in DOMAIN steps : t \in steps[k].targets
      BY <2>1 DEF PlanHolds, Covered
    <3>2. ~Resolves(k)
      BY <2>1, <2>3, <3>1 DEF ResolverRan
    <3> QED BY <2>1, <3>1, <3>2 DEF HookRan, Due
  <2> QED BY <2>1, <2>2, <2>3
<1>2. DepInv => PlanIsServed
  BY <1>1 DEF PlanIsServed
<1> QED BY <1>2, DepInvariant, PTL

\* What became of each list when retirement wrote the documents and nobody edited them late.
LEMMA ListFate ==
  ASSUME DepInv, phase = "done", ~late, HasExceptions, NEW l \in PolicyLists
  PROVE  /\ origin[l] = "none" => lists[l] = "none"
         /\ origin[l] = "empty" => lists[l] \in {"none", "empty"}
         /\ origin[l] = "x" => lists[l] = "x" \/ (Proven(l) /\ lists[l] = "empty")
         /\ origin[l] \in ListStates
<1> DEFINE d == l[1]
<1>1. d \in Documents /\ l \in ListsOf(d)
  BY DependencyAssumption DEF Documents, ListsOf
<1>2. HasBeenRead(d) /\ HasBeenWritten(d)
  BY DEF HasBeenRead, HasBeenWritten
<1>3. /\ copy[d].lists \in [ListsOf(d) -> ListStates]
      /\ body[d] = [other |-> 0,
                    lists |-> [m \in ListsOf(d) |->
                                 IF m \in Retired(d) THEN "empty" ELSE copy[d].lists[m]]]
  BY <1>1, <1>2, BodyForm
<1>4. Now(d) = body[d]
  BY <1>1, <1>2 DEF DepInv, RetireHolds
<1>5. lists[l] = IF l \in Retired(d) THEN "empty" ELSE copy[d].lists[l]
  <2>1. Now(d).lists[l] = lists[l]
    BY <1>1, NowForm
  <2>2. body[d].lists[l] = IF l \in Retired(d) THEN "empty" ELSE copy[d].lists[l]
    BY <1>1, <1>3
  <2> QED BY <1>4, <2>1, <2>2
<1>6. Permitted(copy[d], Retired(d))
  BY <1>1, <1>2 DEF DepInv, RetireHolds
<1>7. /\ origin[l] = "none" => copy[d].lists[l] = "none"
      /\ origin[l] = "empty" => copy[d].lists[l] # "x"
      /\ origin[l] = "x" => copy[d].lists[l] = "x" \/ l \in Retired(d)
  <2>1. DOMAIN copy[d].lists = ListsOf(d)
    BY <1>3
  <2> QED BY <1>1, <1>6, <2>1 DEF Permitted
<1>8. l \in Retired(d) => origin[l] = "x" /\ Proven(l)
  BY DEF Retired, Entries
<1>9. copy[d].lists[l] \in ListStates /\ origin[l] \in ListStates
  BY <1>1, <1>3 DEF DepInv, DepTyped
<1> QED BY <1>5, <1>7, <1>8, <1>9 DEF ListStates

\* The list that speaks for an adapter has its document's last word in its scope.
LEMMA SpeakerCounts ==
  ASSUME NEW n \in Adapter, NEW l \in PolicyLists, Speaks(origin, n, l) PROVE HasExceptions
<1>1. /\ Concerns(l, n) /\ origin[l] = "x"
      /\ \A m \in PolicyLists \ {l} : Concerns(m, n) /\ origin[m] # "none" => Stronger(l, m)
  BY DEF Speaks
<1>2. ASSUME NEW m \in PolicyLists \ {l}, m[2] = l[2], origin[m] # "none" PROVE l[1] > m[1]
  <2>1. Concerns(m, n)
    BY <1>1, <1>2 DEF Concerns
  <2> QED BY <1>1, <1>2, <2>1 DEF Stronger, Shared
<1> QED BY <1>1, <1>2 DEF HasExceptions

\* RetiredIsUnneeded: an exception goes only from an audited adapter that holds what is
\* old enough without it (retire in exception_retirement.py).
THEOREM RetiredStaysUnneeded == DepSpec => []RetiredIsUnneeded
<1>1. ASSUME DepInv, phase = "done", ~late, NEW n \in Adapter, Excepts(origin, n),
             ~Excepts(lists, n)
      PROVE  n \in passed /\ content[n].mature
  <2>1. PICK l \in PolicyLists : Speaks(origin, n, l)
    BY <1>1 DEF Excepts, Speaks
  <2>2. HasExceptions
    BY <2>1, SpeakerCounts
  <2>3. lists[l] # "x"
    <3>1. SUFFICES ASSUME lists[l] = "x" PROVE Excepts(lists, n)
      BY <1>1
    <3>2. ASSUME NEW m \in PolicyLists \ {l}, Concerns(m, n), lists[m] # "none"
          PROVE  Stronger(l, m)
      <4>1. origin[m] # "none"
        BY <1>1, <2>2, <3>2, ListFate
      <4> QED BY <2>1, <3>2, <4>1 DEF Speaks
    <3> QED BY <2>1, <3>1, <3>2 DEF Excepts, Speaks
  <2>4. Proven(l)
    BY <1>1, <2>1, <2>2, <2>3, ListFate DEF Speaks
  <2> QED BY <2>1, <2>4 DEF Proven, ScopeOf, Speaks
<1>2. DepInv => RetiredIsUnneeded
  BY <1>1 DEF RetiredIsUnneeded
<1> QED BY <1>2, DepInvariant, PTL

\* NoExceptionReturns: the exception an adapter has in the end comes from the list it came
\* from, unless a hook deleted a list that was empty from the beginning.
THEOREM ExceptionsStayGone == DepSpec => []NoExceptionReturns
<1>1. ASSUME DepInv, phase = "done", ~late, NEW n \in Adapter, NEW l \in PolicyLists,
             Speaks(lists, n, l)
      PROVE  \/ Speaks(origin, n, l)
             \/ \E m \in PolicyLists : Concerns(m, n) /\ origin[m] = "empty" /\ lists[m] = "none"
  <2>1. /\ Concerns(l, n) /\ lists[l] = "x"
        /\ \A m \in PolicyLists \ {l} : Concerns(m, n) /\ lists[m] # "none" => Stronger(l, m)
    BY <1>1 DEF Speaks
  <2>2. CASE HasExceptions
    <3>1. origin[l] = "x"
      BY <1>1, <2>1, <2>2, ListFate DEF ListStates
    <3>2. SUFFICES ASSUME ~\E m \in PolicyLists :
                              Concerns(m, n) /\ origin[m] = "empty" /\ lists[m] = "none"
                   PROVE  Speaks(origin, n, l)
      OBVIOUS
    <3>3. ASSUME NEW m \in PolicyLists \ {l}, Concerns(m, n), origin[m] # "none"
          PROVE  Stronger(l, m)
      <4>1. lists[m] # "none"
        BY <1>1, <2>2, <3>2, <3>3, ListFate DEF ListStates
      <4> QED BY <2>1, <3>3, <4>1
    <3> QED BY <2>1, <3>1, <3>3 DEF Speaks
  <2>3. CASE ~HasExceptions
    <3>1. \A k \in PolicyLists : origin[k] \in ListStates
      BY <1>1 DEF DepInv, DepTyped
    <3>2. ASSUME NEW k \in PolicyLists
          PROVE  /\ origin[k] = "none" => lists[k] = "none"
                 /\ origin[k] = "empty" => lists[k] # "x"
      <4>1. k[1] \in Documents /\ k \in ListsOf(k[1])
        BY DependencyAssumption DEF Documents, ListsOf
      <4>2. Permitted(Now(k[1]), Entries(k[1]))
        BY <1>1, <4>1 DEF DepInv, RetireHolds
      <4>3. Now(k[1]).lists = [m \in ListsOf(k[1]) |-> lists[m]]
        BY NowForm
      <4> QED BY <4>1, <4>2, <4>3 DEF Permitted
    <3>3. origin[l] = "x"
      BY <2>1, <3>1, <3>2 DEF ListStates
    <3>4. PICK m \in PolicyLists \ {l} : m[2] = l[2] /\ origin[m] # "none" /\ ~(l[1] > m[1])
      BY <2>3, <3>3 DEF HasExceptions
    <3>5. l[1] = 1 /\ m[1] = 2
      BY <3>4, DependencyAssumption
    <3>6. Concerns(m, n)
      BY <2>1, <3>4 DEF Concerns
    <3>7. lists[m] = "none"
      BY <2>1, <3>4, <3>5, <3>6 DEF Stronger, Shared
    <3>8. origin[m] # "x"
      <4>1. \A k \in PolicyLists \ {m} : k[2] = m[2] => m[1] > k[1]
        BY <3>4, <3>5, DependencyAssumption
      <4> QED BY <2>3, <4>1 DEF HasExceptions
    <3> QED BY <3>1, <3>4, <3>6, <3>7, <3>8 DEF ListStates
  <2> QED BY <2>2, <2>3
<1>2. DepInv => NoExceptionReturns
  BY <1>1 DEF NoExceptionReturns
<1> QED BY <1>2, DepInvariant, PTL

\* PolicyEditsStay: what retirement writes of a document beside the lists is what is there
\* (write_document reads it once more).
THEOREM EditsOfPolicyStay == DepSpec => PolicyEditsStay
<1>1. ASSUME DepInv, [DepNext]_depVars, NEW d \in Documents, other'[d] # other[d]
      PROVE  edits' # edits
  <2>1. edits \in Nat
    BY <1>1 DEF DepInv, DepTyped
  <2>2. ASSUME EditPolicy PROVE edits' # edits
    BY <2>1, <2>2 DEF EditPolicy
  <2>3. ASSUME NEW e \in Documents, WriteDocument(e) PROVE FALSE
    <3>1. CASE Untouched(e)
      <4>1. phase = "writes" /\ other' = [other EXCEPT ![e] = body[e].other]
        BY <2>3, <3>1 DEF WriteDocument
      <4>2. HasBeenRead(e)
        BY <4>1 DEF HasBeenRead
      <4>3. copy[e].other = 0 /\ body[e].other = 0
        <5>1. /\ copy[e].other = 0
              /\ body[e] = [other |-> 0,
                            lists |-> [l \in ListsOf(e) |->
                                         IF l \in Retired(e) THEN "empty" ELSE copy[e].lists[l]]]
          BY <1>1, <4>2, BodyForm
        <5> QED BY <5>1
      <4>4. other[e] = 0
        BY <3>1, <4>3, NowForm DEF Untouched
      <4> QED BY <1>1, <4>1, <4>3, <4>4 DEF DepInv, DepTyped
    <3>2. CASE ~Untouched(e)
      BY <1>1, <2>3, <3>2 DEF WriteDocument
    <3> QED BY <3>1, <3>2
  <2>4. ASSUME RunHook PROVE edits' # edits
    BY <1>1, <2>2, <2>4 DEF RunHook
  <2>5. ASSUME LeftoverEdits PROVE edits' # edits
    BY <2>2, <2>5 DEF LeftoverEdits
  <2> QED BY <1>1, <2>3, <2>4, <2>5 DEF DepNext, depVars, PlanSteps, StepFails, BeginRetire,
               InspectPolicy, AuditAdapter, ResolveAdapter, ReadDocument
<1>2. DepInv /\ [DepNext]_depVars => (\A d \in Documents : other'[d] # other[d] => edits' # edits)
  BY <1>1
<1> QED BY <1>2, DepInvariant, PTL DEF DepSpec, PolicyEditsStay

----------------------------------------------------------------------------
(* The steps of an update: the types.                                      *)

\* The types that the invariant leaves out: what the hooks have served, how far the
\* transaction is, and the edits a document has seen.
EditsTyped ==
  /\ served \subseteq Adapter \cup HookTargets /\ next <= Len(steps) + 2
  /\ edits \in 0..MaxEdits /\ other \in [Documents -> 0..MaxEdits]

LEMMA PolicyEditTyped ==
  ASSUME EditsTyped, EditPolicy
  PROVE  edits' \in 0..MaxEdits /\ other' \in [Documents -> 0..MaxEdits]
<1>1. edits < MaxEdits /\ edits' = edits + 1 /\ edits \in 0..MaxEdits
  BY DEF EditsTyped, EditPolicy
<1>2. edits + 1 \in 0..MaxEdits
  BY <1>1, DependencyAssumption
<1>3. other' = other \/ \E d \in Documents : other' = [other EXCEPT ![d] = edits + 1]
  BY DEF EditPolicy
<1> QED BY <1>1, <1>2, <1>3 DEF EditsTyped

LEMMA EditsStep == DepInv /\ EditsTyped /\ [DepNext]_depVars => EditsTyped'
<1> SUFFICES ASSUME DepInv, EditsTyped, [DepNext]_depVars PROVE EditsTyped'
  OBVIOUS
<1>0. Len(steps) \in Nat /\ DepTyped
  BY PlanTyped DEF DepInv
<1>1. CASE PlanSteps \/ StepFails \/ InspectPolicy \/ UNCHANGED depVars
  BY <1>1 DEF PlanSteps, StepFails, InspectPolicy, depVars, EditsTyped
<1>2. CASE RunHook
  <2>1. next \in DOMAIN steps /\ next' = next + 1 /\ UNCHANGED steps /\ next <= Len(steps)
    BY <1>0, <1>2, PlanTyped DEF RunHook, StepDue, DepTyped
  <2>2. served' \subseteq Adapter \cup HookTargets
    <3>1. served' = served \/ served' = served \cup steps[next].targets
      BY <1>2 DEF RunHook
    <3> QED BY <2>1, <3>1, PlanTyped DEF EditsTyped
  <2>3. UNCHANGED <<edits, other>> \/ EditPolicy
    BY <1>2 DEF RunHook
  <2>4. edits' \in 0..MaxEdits /\ other' \in [Documents -> 0..MaxEdits]
    BY <2>3, PolicyEditTyped DEF EditsTyped
  <2>5. next' <= Len(steps') + 2
    BY <1>0, <2>1 DEF DepTyped
  <2> QED BY <2>2, <2>4, <2>5 DEF EditsTyped
<1>3. CASE BeginRetire
  BY <1>0, <1>3 DEF BeginRetire, EditsTyped
<1>4. CASE LeftoverEdits
  BY <1>4, PolicyEditTyped DEF LeftoverEdits, EditsTyped
<1>5. ASSUME NEW n \in Adapter, AuditAdapter(n) PROVE EditsTyped'
  BY <1>5 DEF AuditAdapter, EditsTyped
<1>6. ASSUME NEW n \in Adapter, NEW c \in Holdings, ResolveAdapter(n, c) PROVE EditsTyped'
  <2>1. next' = next + 1 /\ next <= Len(steps) /\ UNCHANGED <<steps, served, edits, other>>
    BY <1>6 DEF ResolveAdapter, StepDue
  <2>2. next' <= Len(steps') + 2
    BY <1>0, <2>1 DEF DepTyped
  <2> QED BY <2>1, <2>2 DEF EditsTyped
<1>7. ASSUME NEW d \in Documents, ReadDocument(d) PROVE EditsTyped'
  <2>1. next' \in {1, d + 1, next} /\ d \in {1, 2} /\ (next' = d + 1 => d # 2)
        /\ UNCHANGED <<steps, served, edits, other>>
    BY <1>7 DEF ReadDocument, Documents
  <2> QED BY <1>0, <2>1 DEF EditsTyped
<1>8. ASSUME NEW d \in Documents, WriteDocument(d) PROVE EditsTyped'
  <2>1. next' \in {1, 2, next} /\ UNCHANGED <<steps, served, edits>>
    BY <1>8 DEF WriteDocument, Documents
  <2>2. HasBeenRead(d) /\ body[d] = Rendered(copy[d], Retired(d)) /\ copy[d].other = 0
    BY <1>8 DEF WriteDocument, HasBeenRead, DepInv, RetireHolds, Permitted
  <2>3. body[d].other = 0
    BY <2>2 DEF DepInv, RetireHolds, Rendered
  <2>4. other' = other \/ other' = [other EXCEPT ![d] = body[d].other]
    BY <1>8 DEF WriteDocument
  <2>5. other' \in [Documents -> 0..MaxEdits]
    BY <2>3, <2>4, DependencyAssumption DEF EditsTyped
  <2> QED BY <1>0, <2>1, <2>5 DEF EditsTyped
<1> QED BY <1>1, <1>2, <1>3, <1>4, <1>5, <1>6, <1>7, <1>8 DEF DepNext

\* The state of an update's steps is of its types.
THEOREM DepTypeCorrect == DepSpec => []DepTypeOK
<1>1. DepInit => EditsTyped
  <2> SUFFICES ASSUME DepInit PROVE EditsTyped
    OBVIOUS
  <2>1. steps \in Seq([kind : {"resolve", "hook"}, targets : SUBSET (Adapter \cup HookTargets)])
    BY DependencyAssumption DEF DepInit
  <2>2. Len(steps) \in Nat
    BY <2>1, MemberTyped
  <2> QED BY <2>2, DependencyAssumption DEF DepInit, EditsTyped
<1>2. DepInv /\ EditsTyped => DepTypeOK
  <2> SUFFICES ASSUME DepInv, EditsTyped PROVE DepTypeOK
    OBVIOUS
  <2>1. next \in 1..(Len(steps) + 2)
    BY PlanTyped DEF DepInv, DepTyped, EditsTyped
  <2>2. passed \subseteq Adapter
    BY DEF DepInv, AuditHolds, SelectedAdapters
  <2>3. DOMAIN copy = Documents /\ DOMAIN body = Documents
    BY DEF DepInv, DepTyped
  <2>4. late \in BOOLEAN
    BY DEF DepInv, DepTyped
  <2> QED BY <2>1, <2>2, <2>3, <2>4 DEF DepInv, DepTyped, EditsTyped, DepTypeOK
<1> QED BY <1>1, <1>2, DepInvariant, EditsStep, PTL DEF DepSpec

----------------------------------------------------------------------------
(* Vulnerability reports: the invariant.                                   *)

\* Validated waivers overlap nowhere.
WaiversApart ==
  step \notin {"validates", "refused"} =>
    \A i, j \in DOMAIN waivers : i < j => ~Overlap(waivers[i], waivers[j])

\* The waivers applied so far have taken exactly what they cover.
PartlyWaived ==
  step = "waives" =>
    Pieces(remaining) =
      {x \in Pieces(scanned) : \A i \in DOMAIN waivers : i < turn => ~Covers(waivers[i], x)}

\* The report has a row for every lane that is done, and says which had no scanner.
LanesReported ==
  /\ step = "waives" => turn <= Len(waivers) + 1 /\ lane <= Lanes /\ kind[lane] = "javascript"
  /\ Len(laneRows) = lane - 1
  /\ \A l \in 1..(lane - 1) : kind[l] = "none" => laneRows[l].status = "unsupported"
  /\ step \in {"passed", "complete"} => lane = Lanes + 1 /\ Complete

\* The types, with the sequences as such.
AuditTyped ==
  /\ step \in {"validates", "lane", "waives", "passed", "complete", "partial", "refused"}
  /\ waivers \in Seq(Waivers) /\ Len(waivers) <= MaxEntries
  /\ kind \in [1..Lanes -> {"javascript", "native", "none"}]
  /\ lane \in 1..(Lanes + 1) /\ scanned \in Reports /\ remaining \subseteq Findings
  /\ turn \in 1..(MaxEntries + 1) /\ laneRows \in Seq(Rows)

AuditInv == AuditTyped /\ WaiversApart /\ PartlyWaived /\ LanesReported

\* A waiver takes from findings the pieces it covers, and leaves the others.
LEMMA WaivedLeavesUncovered ==
  ASSUME NEW w \in Waivers, NEW F \in SUBSET Findings
  PROVE  /\ Waived(w, F) \subseteq Findings
         /\ Pieces(Waived(w, F)) = {x \in Pieces(F) : ~Covers(w, x)}
<1>1. ASSUME NEW f \in F
      PROVE  /\ f \in Findings /\ Left(w, f) \in Findings
             /\ Left(w, f).version = f.version
             /\ Left(w, f).paths =
                  IF Concerned(w, f) /\ w.paths # {} THEN f.paths \ w.paths ELSE f.paths
  <2>1. f \in [version : Version \cup {"unknown"}, paths : SUBSET DepPath]
    BY DEF Findings
  <2>2. CASE Concerned(w, f) /\ w.paths # {}
    <3>1. Left(w, f) = [f EXCEPT !.paths = f.paths \ w.paths]
      BY <2>2 DEF Left, Kept
    <3> QED BY <2>1, <2>2, <3>1 DEF Findings
  <2>3. CASE ~(Concerned(w, f) /\ w.paths # {})
    BY <2>1, <2>3 DEF Left, Findings
  <2> QED BY <2>2, <2>3
<1>2. Waived(w, F) \subseteq Findings
  BY <1>1 DEF Waived
<1>3. ASSUME NEW f \in F PROVE "nowhere" \notin w.paths /\ "nowhere" \notin f.paths
  BY <1>1, AuditAssumption DEF Waivers, Findings
<1>4. ASSUME NEW x \in Pieces(Waived(w, F))
      PROVE  x \in Pieces(F) /\ ~Covers(w, x)
  <2>1. PICK f \in F : Stays(w, f) /\ x \in {Left(w, f).version} \X Places(Left(w, f))
    BY DEF Pieces, Waived
  <2>2. PICK p \in Places(Left(w, f)) : x = <<f.version, p>>
    <3>1. x \in {f.version} \X Places(Left(w, f))
      BY <1>1, <2>1
    <3> QED BY <3>1
  <2>3. p \in Places(f) /\ ~(f.version \in w.versions /\ (w.paths = {} \/ p \in w.paths))
    <3>1. CASE ~Concerned(w, f)
      BY <1>1, <2>2, <3>1 DEF Concerned, Places
    <3>2. CASE Concerned(w, f) /\ w.paths = {}
      BY <2>1, <3>2 DEF Stays, Kept
    <3>3. CASE Concerned(w, f) /\ w.paths # {} /\ f.paths = {}
      <4>1. Left(w, f).paths = {}
        BY <1>1, <3>3
      <4> QED BY <1>3, <2>2, <3>3, <4>1 DEF Places
    <3>4. CASE Concerned(w, f) /\ w.paths # {} /\ f.paths # {}
      <4>1. Left(w, f).paths = f.paths \ w.paths /\ f.paths \ w.paths # {}
        BY <1>1, <2>1, <3>4 DEF Stays, Kept
      <4> QED BY <2>2, <3>4, <4>1 DEF Places
    <3> QED BY <3>1, <3>2, <3>3, <3>4
  <2>4. x \in Pieces(F)
    BY <2>2, <2>3 DEF Pieces
  <2>5. x[1] = f.version /\ x[2] = p
    BY <2>2
  <2> QED BY <2>3, <2>4, <2>5 DEF Covers
<1>5. ASSUME NEW x \in Pieces(F), ~Covers(w, x)
      PROVE  x \in Pieces(Waived(w, F))
  <2>1. PICK f \in F : x \in {f.version} \X Places(f)
    BY DEF Pieces
  <2>2. PICK p \in Places(f) : x = <<f.version, p>>
    BY <2>1
  <2>3. ~(f.version \in w.versions /\ (w.paths = {} \/ p \in w.paths))
    BY <1>5, <2>2 DEF Covers
  <2>4. Stays(w, f) /\ p \in Places(Left(w, f))
    <3>1. CASE ~Concerned(w, f)
      BY <1>1, <2>2, <3>1 DEF Stays, Places
    <3>2. CASE Concerned(w, f) /\ f.paths = {}
      <4>1. w.paths # {}
        BY <2>3, <3>2 DEF Concerned
      <4>2. Left(w, f).paths = {}
        BY <1>1, <3>2
      <4> QED BY <2>2, <3>2, <4>1, <4>2 DEF Stays, Places
    <3>3. CASE Concerned(w, f) /\ f.paths # {}
      <4>1. w.paths # {} /\ p \in f.paths \ w.paths
        BY <2>2, <2>3, <3>3 DEF Concerned, Places
      <4>2. Left(w, f).paths = f.paths \ w.paths
        BY <1>1, <3>3, <4>1
      <4> QED BY <3>3, <4>1, <4>2 DEF Stays, Places, Kept
    <3> QED BY <3>1, <3>2, <3>3
  <2>5. Left(w, f) \in Waived(w, F)
    BY <2>4 DEF Waived
  <2>6. x \in {Left(w, f).version} \X Places(Left(w, f))
    BY <1>1, <2>2, <2>4
  <2> QED BY <2>5, <2>6 DEF Pieces
<1> QED BY <1>2, <1>4, <1>5

\* A waiver that covers a piece matches the finding the piece is of.
LEMMA CoveringMatches ==
  ASSUME NEW w \in Waivers, NEW F \in SUBSET Findings, NEW x \in Pieces(F), Covers(w, x)
  PROVE  \E f \in F : Matches(w, f)
<1>1. PICK f \in F : x \in {f.version} \X Places(f)
  BY DEF Pieces
<1>2. x[1] = f.version /\ x[2] \in Places(f)
  BY <1>1
<1>3. "nowhere" \notin w.paths
  BY AuditAssumption DEF Waivers
<1>4. Concerned(w, f) /\ (w.paths = {} \/ f.paths \cap w.paths # {})
  BY <1>2, <1>3 DEF Covers, Concerned, Places
<1> QED BY <1>4 DEF Matches

\* Two waivers that cover the same piece overlap.
LEMMA CoversApart ==
  ASSUME NEW v, NEW w, NEW x, Covers(v, x), Covers(w, x)
  PROVE  Overlap(v, w)
BY DEF Covers, Overlap

\* A lane is closed with one more row.
LEMMA EndLaneKeeps ==
  ASSUME AuditInv, NEW row \in Rows, EndLane(row), step \in {"lane", "waives"}, lane <= Lanes,
         kind[lane] = "none" => row.status = "unsupported"
  PROVE  AuditInv'
<1>1. /\ laneRows' = Append(laneRows, row) /\ lane' = lane + 1 /\ step' = "lane"
      /\ scanned' = {} /\ remaining' = {} /\ turn' = 1 /\ UNCHANGED <<waivers, kind>>
  BY DEF EndLane
<1>2. {} \in Reports
  BY AuditAssumption, FS_EmptySet DEF Reports
<1>3. lane \in Nat \ {0} /\ Lanes \in Nat /\ laneRows \in Seq(Rows) /\ Len(laneRows) = lane - 1
  BY AuditAssumption DEF AuditInv, AuditTyped, LanesReported
<1>4. /\ laneRows' \in Seq(Rows) /\ Len(laneRows') = lane /\ laneRows'[lane] = row
      /\ \A l \in 1..(lane - 1) : laneRows'[l] = laneRows[l]
  BY <1>1, <1>3
<1>5. AuditTyped'
  <2>1. lane + 1 \in 1..(Lanes + 1) /\ 1 \in 1..(MaxEntries + 1)
    BY <1>3, AuditAssumption
  <2> QED BY <1>1, <1>2, <1>4, <2>1 DEF AuditInv, AuditTyped
<1>6. WaiversApart' /\ PartlyWaived'
  BY <1>1 DEF AuditInv, WaiversApart, PartlyWaived
<1>7. LanesReported'
  <2>1. \A l \in 1..lane : kind[l] = "none" => laneRows'[l].status = "unsupported"
    <3> SUFFICES ASSUME NEW l \in 1..lane, kind[l] = "none"
                 PROVE  laneRows'[l].status = "unsupported"
      OBVIOUS
    <3>1. CASE l = lane
      BY <1>4, <3>1
    <3>2. CASE l # lane
      <4>1. l \in 1..(lane - 1)
        BY <1>3, <3>2
      <4> QED BY <1>4, <4>1 DEF AuditInv, LanesReported
    <3> QED BY <3>1, <3>2
  <2>2. lane' - 1 = lane
    BY <1>1, <1>3
  <2> QED BY <1>1, <1>4, <2>1, <2>2 DEF LanesReported
<1> QED BY <1>5, <1>6, <1>7 DEF AuditInv

LEMMA LaneKeeps == ASSUME AuditInv, SkipLane \/ ScanNative \/ ScanFails PROVE AuditInv'
<1>1. step = "lane" /\ lane <= Lanes
  BY DEF SkipLane, ScanNative, ScanFails, InLane
<1>2. 0 \in 0..MaxEntries
  BY AuditAssumption
<1>3. CASE SkipLane
  <2>1. Row("unsupported", FALSE, 0) \in Rows /\ Row("unsupported", FALSE, 0).status = "unsupported"
    BY <1>2 DEF Row, Rows
  <2> QED BY <1>1, <1>3, <2>1, EndLaneKeeps DEF SkipLane
<1>4. CASE ScanNative
  <2>1. PICK ok \in BOOLEAN : EndLane(Row(IF ok THEN "passed" ELSE "failed", ~ok, 0))
    BY <1>4 DEF ScanNative
  <2>2. Row(IF ok THEN "passed" ELSE "failed", ~ok, 0) \in Rows
    BY <1>2 DEF Row, Rows
  <2>3. kind[lane] = "native"
    BY <1>4 DEF ScanNative, InLane
  <2> QED BY <1>1, <2>1, <2>2, <2>3, EndLaneKeeps
<1>5. CASE ScanFails
  <2>1. Row("failed", TRUE, 0) \in Rows
    BY <1>2 DEF Row, Rows
  <2>2. kind[lane] = "javascript" /\ EndLane(Row("failed", TRUE, 0))
    BY <1>5 DEF ScanFails, InLane
  <2> QED BY <1>1, <2>1, <2>2, EndLaneKeeps
<1> QED BY <1>3, <1>4, <1>5

LEMMA ScanPackagesKeeps == ASSUME AuditInv, NEW F \in Reports, ScanPackages(F) PROVE AuditInv'
<1>1. /\ step = "lane" /\ lane <= Lanes /\ kind[lane] = "javascript"
      /\ scanned' = F /\ remaining' = F /\ turn' = 1
      /\ step' = "waives" /\ UNCHANGED <<waivers, kind, lane, laneRows>>
  BY DEF ScanPackages, InLane
<1>2. F \subseteq Findings
  BY DEF Reports
<1>3. 1 \in 1..(MaxEntries + 1) /\ Len(waivers) \in Nat /\ DOMAIN waivers = 1..Len(waivers)
  BY AuditAssumption DEF AuditInv, AuditTyped
<1>4. AuditTyped'
  BY <1>1, <1>2, <1>3 DEF AuditInv, AuditTyped
<1>5. WaiversApart'
  BY <1>1 DEF AuditInv, WaiversApart
<1>6. PartlyWaived'
  <2>1. \A i \in DOMAIN waivers : ~(i < 1)
    BY <1>3
  <2>2. Pieces(remaining)' = Pieces(F) /\ Pieces(scanned)' = Pieces(F)
    BY <1>1 DEF Pieces
  <2> QED BY <1>1, <2>1, <2>2 DEF PartlyWaived
<1>7. LanesReported'
  BY <1>1, <1>3 DEF AuditInv, LanesReported
<1> QED BY <1>4, <1>5, <1>6, <1>7 DEF AuditInv

LEMMA ApplyWaiverKeeps == ASSUME AuditInv, ApplyWaiver PROVE AuditInv'
<1>1. step = "waives" /\ turn <= Len(waivers) /\ lane <= Lanes /\ kind[lane] = "javascript"
  BY DEF ApplyWaiver, AuditInv, LanesReported
<1>2. /\ Len(waivers) \in Nat /\ DOMAIN waivers = 1..Len(waivers) /\ turn \in 1..Len(waivers)
      /\ Len(waivers) <= MaxEntries /\ MaxEntries \in Nat /\ waivers[turn] \in Waivers
      /\ remaining \in SUBSET Findings
  <2>1. waivers \in Seq(Waivers) /\ turn \in 1..(MaxEntries + 1) /\ MaxEntries \in Nat
    BY AuditAssumption DEF AuditInv, AuditTyped
  <2> QED BY <1>1, <2>1 DEF AuditInv, AuditTyped
<1>3. CASE \E f \in remaining : Matches(waivers[turn], f)
  <2>1. /\ remaining' = Waived(waivers[turn], remaining) /\ turn' = turn + 1
        /\ UNCHANGED <<step, waivers, kind, lane, scanned, laneRows>>
    BY <1>3 DEF ApplyWaiver
  <2>2. remaining' \subseteq Findings
        /\ Pieces(Waived(waivers[turn], remaining))
             = {x \in Pieces(remaining) : ~Covers(waivers[turn], x)}
    BY <1>2, <2>1, WaivedLeavesUncovered
  <2>3. turn + 1 \in 1..(MaxEntries + 1) /\ turn + 1 <= Len(waivers) + 1
    BY <1>2
  <2>4. AuditTyped'
    BY <2>1, <2>2, <2>3 DEF AuditInv, AuditTyped
  <2>5. WaiversApart'
    BY <2>1 DEF AuditInv, WaiversApart
  <2>6. LanesReported'
    BY <1>1, <2>1, <2>3 DEF AuditInv, LanesReported, Complete
  <2>7. PartlyWaived'
    <3>1. Pieces(remaining)' = {x \in Pieces(remaining) : ~Covers(waivers[turn], x)}
          /\ Pieces(scanned)' = Pieces(scanned)
      BY <2>1, <2>2 DEF Pieces
    <3>2. \A i \in DOMAIN waivers : i < turn + 1 <=> i < turn \/ i = turn
      BY <1>2
    <3>3. Pieces(remaining) =
            {x \in Pieces(scanned) : \A i \in DOMAIN waivers : i < turn => ~Covers(waivers[i], x)}
      BY <1>1 DEF AuditInv, PartlyWaived
    <3>4. ASSUME NEW x
          PROVE  (\A i \in DOMAIN waivers : i < turn + 1 => ~Covers(waivers[i], x))
                 <=> /\ \A i \in DOMAIN waivers : i < turn => ~Covers(waivers[i], x)
                     /\ ~Covers(waivers[turn], x)
      BY <1>2, <3>2
    <3>5. Pieces(remaining)' =
            {x \in Pieces(scanned) : \A i \in DOMAIN waivers : i < turn + 1 => ~Covers(waivers[i], x)}
      BY <3>1, <3>3, <3>4
    <3> QED BY <2>1, <3>1, <3>5 DEF PartlyWaived
  <2> QED BY <2>4, <2>5, <2>6, <2>7 DEF AuditInv
<1>4. CASE ~\E f \in remaining : Matches(waivers[turn], f)
  <2>1. EndLane(Row("failed", TRUE, turn))
    BY <1>4 DEF ApplyWaiver
  <2>2. Row("failed", TRUE, turn) \in Rows
    <3>1. turn \in 0..MaxEntries
      BY <1>2
    <3> QED BY <3>1 DEF Row, Rows
  <2> QED BY <1>1, <2>1, <2>2, EndLaneKeeps
<1> QED BY <1>3, <1>4

LEMMA CloseLaneKeeps == ASSUME AuditInv, CloseLane PROVE AuditInv'
<1>1. step = "waives" /\ lane <= Lanes /\ kind[lane] = "javascript"
  BY DEF CloseLane, AuditInv, LanesReported
<1>2. Row(IF remaining = {} THEN "passed" ELSE "failed", FALSE, 0) \in Rows
  <2>1. 0 \in 0..MaxEntries
    BY AuditAssumption
  <2> QED BY <2>1 DEF Row, Rows
<1> QED BY <1>1, <1>2, EndLaneKeeps DEF CloseLane

\* What was waived is exact, and what the report claims was assessed, for any
\* findings, waivers and lanes.
THEOREM AuditInvariant == AuditSpec => []AuditInv
<1>1. AuditInit => AuditInv
  <2> SUFFICES ASSUME AuditInit PROVE AuditInv
    OBVIOUS
  <2>1. waivers \in Seq(Waivers) /\ Len(waivers) <= MaxEntries
    <3>1. PICK k \in 0..MaxEntries : waivers \in [1..k -> Waivers]
      BY DEF AuditInit, UpTo
    <3>2. k \in Nat /\ k <= MaxEntries
      BY AuditAssumption
    <3>3. waivers \in Seq(Waivers) /\ Len(waivers) = k
      BY <3>1, <3>2
    <3> QED BY <3>2, <3>3
  <2>2. {} \in Reports
    BY AuditAssumption, FS_EmptySet DEF Reports
  <2>3. /\ 1 \in 1..(MaxEntries + 1) /\ 1 \in 1..(Lanes + 1)
        /\ laneRows \in Seq(Rows) /\ Len(laneRows) = 0 /\ 1..0 = {} /\ lane - 1 = 0
    BY AuditAssumption DEF AuditInit
  <2> QED BY <2>1, <2>2, <2>3
          DEF AuditInit, AuditInv, AuditTyped, WaiversApart, PartlyWaived, LanesReported
<1>2. AuditInv /\ [AuditNext]_auditVars => AuditInv'
  <2> SUFFICES ASSUME AuditInv, [AuditNext]_auditVars PROVE AuditInv'
    OBVIOUS
  <2>1. CASE ValidateWaivers
    <3>1. CASE \E i, j \in DOMAIN waivers : i < j /\ Overlap(waivers[i], waivers[j])
      <4>1. step' = "refused" /\ UNCHANGED <<waivers, kind, lane, scanned, remaining, turn, laneRows>>
        BY <2>1, <3>1 DEF ValidateWaivers
      <4> QED BY <4>1 DEF AuditInv, AuditTyped, WaiversApart, PartlyWaived, LanesReported
    <3>2. CASE ~\E i, j \in DOMAIN waivers : i < j /\ Overlap(waivers[i], waivers[j])
      <4>1. step' = "lane" /\ UNCHANGED <<waivers, kind, lane, scanned, remaining, turn, laneRows>>
        BY <2>1, <3>2 DEF ValidateWaivers
      <4> QED BY <3>2, <4>1 DEF AuditInv, AuditTyped, WaiversApart, PartlyWaived, LanesReported
    <3> QED BY <3>1, <3>2
  <2>2. CASE WriteReport
    <3>1. /\ step = "lane" /\ lane > Lanes
          /\ step' \in {"partial", "passed", "complete"}
          /\ step' \in {"passed", "complete"} => Complete
          /\ UNCHANGED <<waivers, kind, lane, scanned, remaining, turn, laneRows>>
      BY <2>2 DEF WriteReport
    <3>2. lane = Lanes + 1
      BY <3>1, AuditAssumption DEF AuditInv, AuditTyped
    <3>3. Complete' <=> Complete
      BY <3>1 DEF Complete
    <3> QED BY <3>1, <3>2, <3>3 DEF AuditInv, AuditTyped, WaiversApart, PartlyWaived, LanesReported
  <2>3. CASE UNCHANGED auditVars
    BY <2>3 DEF auditVars, AuditInv, AuditTyped, WaiversApart, PartlyWaived, LanesReported,
                Pieces, Complete
  <2> QED BY <2>1, <2>2, <2>3, LaneKeeps, ScanPackagesKeeps, ApplyWaiverKeeps, CloseLaneKeeps
          DEF AuditNext
<1> QED BY <1>1, <1>2, PTL DEF AuditSpec

\* When all waivers were applied what remains is what none covers (WaiversAreExact).
THEOREM WaiversStayExact == AuditSpec => []WaiversAreExact
<1>1. AuditInv => WaiversAreExact
  <2> SUFFICES ASSUME AuditInv, step = "waives", turn > Len(waivers)
               PROVE  Pieces(remaining) =
                        {x \in Pieces(scanned) : \A i \in DOMAIN waivers : ~Covers(waivers[i], x)}
    BY DEF WaiversAreExact
  <2>1. DOMAIN waivers = 1..Len(waivers) /\ Len(waivers) \in Nat /\ turn \in Nat
    BY AuditAssumption DEF AuditInv, AuditTyped
  <2>2. \A i \in DOMAIN waivers : i < turn
    BY <2>1
  <2> QED BY <2>2 DEF AuditInv, PartlyWaived
<1> QED BY <1>1, AuditInvariant, PTL

\* A complete report assessed every lane (CompleteIsAssessed).
THEOREM CompleteStaysAssessed == AuditSpec => []CompleteIsAssessed
<1>1. AuditInv => CompleteIsAssessed
  <2> SUFFICES ASSUME AuditInv, step \in {"passed", "complete"}
               PROVE  Len(laneRows) = Lanes /\ \A l \in 1..Lanes : kind[l] # "none" /\ ~laneRows[l].error
    BY DEF CompleteIsAssessed
  <2>1. /\ lane = Lanes + 1 /\ Lanes \in Nat /\ Len(laneRows) = lane - 1 /\ Complete
        /\ DOMAIN laneRows = 1..Len(laneRows)
    BY AuditAssumption DEF AuditInv, AuditTyped, LanesReported
  <2>2. Len(laneRows) = Lanes /\ DOMAIN laneRows = 1..Lanes /\ lane - 1 = Lanes
    BY <2>1
  <2> QED BY <2>1, <2>2 DEF AuditInv, LanesReported, Complete
<1> QED BY <1>1, AuditInvariant, PTL

\* A waiver called stale covers nothing that was found (StaleIsUseless).
THEOREM StaleStaysUseless == AuditSpec => StaleIsUseless
<1> DEFINE Useless == \A i \in DOMAIN laneRows' :
       i > Len(laneRows) /\ laneRows'[i].stale # 0
       => \A x \in Pieces(scanned) : ~Covers(waivers[laneRows'[i].stale], x)
<1>1. AuditInv /\ [AuditNext]_auditVars => [Useless]_auditVars
  <2> SUFFICES ASSUME AuditInv, AuditNext, NEW i \in DOMAIN laneRows', i > Len(laneRows),
                      laneRows'[i].stale # 0, NEW x \in Pieces(scanned),
                      Covers(waivers[laneRows'[i].stale], x)
               PROVE  FALSE
    OBVIOUS
  <2>1. laneRows \in Seq(Rows) /\ DOMAIN laneRows = 1..Len(laneRows) /\ Len(laneRows) \in Nat
    BY DEF AuditInv, AuditTyped
  <2>2. ASSUME NEW row, EndLane(row), row.stale = 0 PROVE FALSE
    <3>1. laneRows' = Append(laneRows, row)
      BY <2>2 DEF EndLane
    <3>2. i = Len(laneRows) + 1 /\ laneRows'[i] = row
      BY <2>1, <3>1
    <3> QED BY <2>2, <3>2
  <2>3. ~UNCHANGED laneRows
    BY <2>1
  <2>4. CASE ApplyWaiver
    <3>1. /\ step = "waives" /\ turn <= Len(waivers) /\ EndLane(Row("failed", TRUE, turn))
          /\ ~\E f \in remaining : Matches(waivers[turn], f)
      BY <2>3, <2>4 DEF ApplyWaiver
    <3>2. laneRows' = Append(laneRows, Row("failed", TRUE, turn))
      BY <3>1 DEF EndLane
    <3>3. laneRows'[i].stale = turn
      BY <2>1, <3>2 DEF Row
    <3>4. /\ waivers \in Seq(Waivers) /\ turn \in 1..Len(waivers) /\ DOMAIN waivers = 1..Len(waivers)
          /\ waivers[turn] \in Waivers /\ remaining \in SUBSET Findings
      <4>1. waivers \in Seq(Waivers) /\ turn \in 1..(MaxEntries + 1) /\ MaxEntries \in Nat
            /\ remaining \in SUBSET Findings
        BY AuditAssumption DEF AuditInv, AuditTyped
      <4> QED BY <3>1, <4>1
    <3>5. x \notin Pieces(remaining)
      BY <3>1, <3>3, <3>4, CoveringMatches
    <3>6. PICK j \in DOMAIN waivers : j < turn /\ Covers(waivers[j], x)
      BY <3>1, <3>5 DEF AuditInv, PartlyWaived
    <3>7. Overlap(waivers[j], waivers[turn])
      BY <3>3, <3>6, CoversApart
    <3> QED BY <3>1, <3>4, <3>6, <3>7 DEF AuditInv, WaiversApart
  <2> QED BY <2>2, <2>3, <2>4 DEF AuditNext, ValidateWaivers, SkipLane, ScanNative, ScanFails, Row,
          ScanPackages, CloseLane, WriteReport
<1> QED BY <1>1, AuditInvariant, PTL DEF AuditSpec, StaleIsUseless

----------------------------------------------------------------------------
(* Vulnerability reports: the types.                                       *)

\* A short sequence is one of those counted out.
LEMMA ShortSequence ==
  ASSUME NEW S, NEW n \in Nat, NEW s \in Seq(S), Len(s) <= n PROVE s \in UpTo(n, S)
<1>1. Len(s) \in 0..n /\ s \in [1..Len(s) -> S]
  OBVIOUS
<1> QED BY <1>1 DEF UpTo

\* The state of an audit is of its types.
THEOREM AuditTypeCorrect == AuditSpec => []AuditTypeOK
<1>1. AuditInv => AuditTypeOK
  <2> SUFFICES ASSUME AuditInv PROVE AuditTypeOK
    OBVIOUS
  <2>1. waivers \in UpTo(MaxEntries, Waivers)
    BY ShortSequence, AuditAssumption DEF AuditInv, AuditTyped
  <2>2. Len(laneRows) <= Lanes /\ laneRows \in Seq(Rows)
    BY AuditAssumption DEF AuditInv, AuditTyped, LanesReported
  <2>3. laneRows \in UpTo(Lanes, Rows)
    BY <2>2, ShortSequence, AuditAssumption
  <2> QED BY <2>1, <2>3 DEF AuditInv, AuditTyped, AuditTypeOK
<1> QED BY <1>1, AuditInvariant, PTL
=============================================================================
