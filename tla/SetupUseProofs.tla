---------------------------- MODULE SetupUseProofs ----------------------------
(***************************************************************************)
(* That a worktree is set up as its stamps say, for any commands, groups   *)
(* and downloads and any number of edits: what is leased stays, a runtime  *)
(* in use keeps its roots, installers are alone, a stamp that matches      *)
(* vouches for the artifacts, and a task runs on complete ones.            *)
(***************************************************************************)
EXTENDS SetupUse, TLAPS

----------------------------------------------------------------------------
(* The invariant, in layers.                                               *)

\* Types.
GateStates == [by : Command, at : {"remove", "create", "register"}, left : SUBSET Part]
              \cup {Open}
PoolTyped ==
  /\ kind \in Kinds /\ files \in SUBSET Whole /\ epoch \in 0 .. MaxEpoch /\ parts \in SUBSET Part
  /\ gate \in GateStates
  /\ pc \in [Command -> PoolSteps \cup SetupSteps]
  /\ child \in [Command -> Children \cup {"starting", "installing", "task"}]

Own(g) == Needs[g] \cup {g}
States == {"absent", "partial", "made"}
Artifacts == [state : States, from : UNION {[Own(g) -> 0 .. MaxEdits] : g \in Group}]
ArtifactTyped ==
  /\ artifact \in [Group -> Artifacts]
  /\ \A g \in Group : artifact[g].from \in [Own(g) -> 0 .. MaxEdits]
Works == [seen : Versions, left : SUBSET Group, stale : SUBSET Group, group : Group \cup {NoGroup},
          expected : SUBSET Stamp, succeeded : BOOLEAN]
WorkTyped == work \in [Command -> Works]
SetupTyped == inputs \in Versions /\ stamps \in SUBSET Stamp

\* A child is one of its command's place, unless the command is gone.
ChildPlace ==
  \A c \in Command :
    /\ pc[c] \in {"collect first", "admit", "admitted", "specified", "validate", "upgrade", "repair"}
         => child[c] = "none"
    /\ pc[c] = "install" => child[c] \in {"none", "starting", "installing"}
    /\ child[c] \in {"starting", "installing"} => pc[c] \in {"install", "idle"}
    /\ child[c] = "task" => pc[c] \in {"running", "collect last", "idle"}

\* What is leased is whole and not being removed; a runtime is only visited, and
\* has its roots then.
PoolKept ==
  /\ \A c \in Command : Leased(c) => files = Whole /\ gate.at # "remove"
  /\ gate.at = "register" => kind = "runtime" /\ gate.left = MissingRoots
  /\ \A c \in Command : kind = "runtime" =>
       /\ pc[c] \in PoolSteps
       /\ child[c] \in {"none", "visit"}
       /\ child[c] # "none" => parts = Part

\* The lock of the setup excludes.
LockKept == \A c, d \in Command : c # d /\ Exclusive(c) => ~Exclusive(d) /\ ~Shared(d)

\* No stamp is from the future, and a group has one.
StampsPast ==
  /\ \A s \in stamps : s.epoch <= epoch /\ \A d \in Own(s.group) : s.inputs[d] <= inputs[d]
  /\ \A s, t \in stamps : s.group = t.group => s = t

\* A stamp of the present epoch says that all downloads are there.
EpochKept ==
  /\ \A s \in stamps : s.epoch = epoch => parts = Part
  /\ gate.at = "remove" => \A s \in stamps : s.epoch # epoch

\* What a stamp stands for: its group's own inputs, and those of the others if
\* they are still the ones.
Vouches(s) ==
  LET g == s.group IN
  Ready(g) => /\ artifact[g].state = "made" /\ artifact[g].from[g] = s.inputs[g]
              /\ (\A d \in Needs[g] : s.inputs[d] = inputs[d]) =>
                   \A d \in Needs[g] : artifact[g].from[d] = s.inputs[d]
StampsKept == \A s \in stamps : Vouches(s)

\* A command has seen no inputs from the future, and begins with every group.
SeenPast(c) ==
  /\ \A g \in Group : work[c].seen[g] <= inputs[g]
  /\ pc[c] = "specified" => work[c].left = Group

\* A group that is being installed has no stamp.
Installing(c) == pc[c] = "install" \/ child[c] \in {"starting", "installing"}
GroupFree(c) ==
  Installing(c) => work[c].group \in Group /\ \A s \in stamps : s.group # work[c].group

\* It waits in its command's list, behind what it needs, with what is expected of it.
GroupWaits(c) ==
  pc[c] = "install" =>
    /\ work[c].group \in work[c].left /\ Needs[work[c].group] \cap work[c].left = {}
    /\ \A s \in work[c].expected :
         s.group = work[c].group /\ s.inputs[work[c].group] <= inputs[work[c].group]
    /\ child[c] # "none" => ~work[c].succeeded

\* What its installer read is what its command expects, as far as the inputs are
\* still so.
HasRead(c) == pc[c] = "install" /\ (child[c] = "installing" \/ work[c].succeeded)
ReadFits(c) ==
  HasRead(c) =>
    LET g == work[c].group IN
    /\ artifact[g].from[g] <= inputs[g]
    /\ \A s \in work[c].expected : s.inputs[g] <= artifact[g].from[g]
    /\ \A d \in Needs[g] : work[c].seen[d] = inputs[d] => artifact[g].from[d] = inputs[d]

\* An installer that succeeded had every download, and left nothing half made.
SuccessKept(c) ==
  pc[c] = "install" /\ work[c].succeeded =>
    artifact[work[c].group].state # "partial" /\ parts = Part

\* Under the lock, what a command is through with is there.
HandledKept(c) ==
  pc[c] \in {"repair", "install"} =>
    \A d \in Group : d \notin work[c].left =>
      /\ parts = Part /\ artifact[d].state = "made"
      /\ work[c].seen[d] = inputs[d] => artifact[d].from[d] = inputs[d]

\* So is what it found to be valid, before its task and during it.
ValidKept(c) ==
  pc[c] = "validate" =>
    \A d \in Group : d \notin work[c].left \cup work[c].stale =>
      parts = Part /\ artifact[d].state = "made"
TaskKept(c) ==
  child[c] = "task" => parts = Part /\ \A g \in Group : artifact[g].state = "made"

StampsSound == StampsPast /\ EpochKept /\ StampsKept
CommandKept(c) ==
  /\ SeenPast(c) /\ GroupFree(c) /\ GroupWaits(c) /\ ReadFits(c) /\ SuccessKept(c)
  /\ HandledKept(c) /\ ValidKept(c) /\ TaskKept(c)

PoolInv  == PoolTyped /\ ChildPlace /\ PoolKept /\ LockKept
SetupInv ==
  /\ SetupTyped /\ ArtifactTyped /\ WorkTyped
  /\ StampsSound
  /\ \A c \in Command : CommandKept(c)

----------------------------------------------------------------------------
(* The pool and the lock: every step keeps them.                            *)


\* A new epoch is one while there are any left.
LEMMA EpochGrows == ASSUME NEW e \in 0 .. MaxEpoch, e < MaxEpoch PROVE e + 1 \in 0 .. MaxEpoch
  BY PoolAssumption

\* An entry that is being made is not whole.
LEMMA HalfMade ==
  ASSUME NEW f, f = {} \/ f = {"directory"} \/ f = {"directory", "lease"} PROVE f # Whole
  BY DEF Whole

\* What the steps make of the gate is one of its states, and the fields of them.
LEMMA GateForms ==
  /\ Open \in GateStates /\ Open.at = "open"
  /\ \A c \in Command, left \in SUBSET Part, at \in {"remove", "create", "register"} :
       [by |-> c, at |-> at, left |-> left] \in GateStates
  /\ \A c \in Command :
       LET new == [Open EXCEPT !.by = c, !.at = "create"] IN new \in GateStates /\ new.at = "create"
<1>1. Open \in GateStates /\ Open.at = "open"
  BY DEF Open, GateStates
<1>2. ASSUME NEW c \in Command, NEW left \in SUBSET Part,
             NEW at \in {"remove", "create", "register"}
      PROVE  [by |-> c, at |-> at, left |-> left] \in GateStates
  BY DEF GateStates
<1>3. ASSUME NEW c \in Command
      PROVE  LET new == [Open EXCEPT !.by = c, !.at = "create"] IN
             new \in GateStates /\ new.at = "create"
  <2>1. Open \in [by : {Nobody}, at : {"open"}, left : SUBSET Part]
    BY DEF Open
  <2>2. [Open EXCEPT !.by = c, !.at = "create"] \in
          [by : Command, at : {"remove", "create", "register"}, left : SUBSET Part]
    BY <2>1
  <2>3. [Open EXCEPT !.by = c, !.at = "create"].at = "create"
    BY <2>1
  <2> QED BY <2>2, <2>3 DEF GateStates
<1> QED BY <1>1, <1>2, <1>3

\* What is left to remove or to register goes, or loses a part.
LEMMA GateShrinks ==
  ASSUME gate \in GateStates, gate.at # "open", NEW p
  PROVE  LET new == [gate EXCEPT !.left = @ \ {p}] IN
         /\ new \in GateStates /\ new.at = gate.at /\ new.by = gate.by /\ new.left = gate.left \ {p}
         /\ gate.left \in SUBSET Part
<1>1. gate \in [by : Command, at : {"remove", "create", "register"}, left : SUBSET Part]
  BY DEF GateStates, Open
<1> QED BY <1>1 DEF GateStates


\* Every step keeps the pool in its types.
LEMMA PoolTypeStep == PoolTyped /\ [Next]_vars => PoolTyped'
<1> SUFFICES ASSUME PoolTyped, [Next]_vars PROVE PoolTyped'
  OBVIOUS
<1> USE DEF PoolTyped, PoolSteps, SetupSteps, Children, Goto
<1>1. CASE UNCHANGED <<kind, files, epoch, parts, gate, pc, child>>
  BY <1>1
<1>2. ASSUME NEW c \in Command, Start(c) PROVE PoolTyped'
  BY <1>2 DEF Start
<1>3. ASSUME NEW c \in Command, Spare(c) PROVE PoolTyped'
  BY <1>3 DEF Spare, Collected
<1>4. ASSUME NEW c \in Command, Evict(c) PROVE PoolTyped'
  <2>1. PICK doomed \in SUBSET parts : gate' = [by |-> c, at |-> "remove", left |-> doomed]
    BY <1>4 DEF Evict
  <2>2. gate' \in GateStates
    BY <2>1, GateForms
  <2>3. epoch' \in 0 .. MaxEpoch
    <3>1. epoch < MaxEpoch /\ epoch' = epoch + 1
      BY <1>4 DEF Evict
    <3> QED BY <3>1, EpochGrows
  <2>4. UNCHANGED <<kind, files, parts, pc, child>>
    BY <1>4 DEF Evict
  <2> QED BY <2>2, <2>3, <2>4
<1>5. ASSUME NEW c \in Command, Swept(c) PROVE PoolTyped'
  BY <1>5, GateForms DEF Swept, Collected
<1>6. ASSUME NEW c \in Command, Retire(c) PROVE PoolTyped'
  BY <1>6, GateForms DEF Retire, Collected, Whole
<1>7. ASSUME NEW c \in Command, Admit(c) PROVE PoolTyped'
  BY <1>7 DEF Admit
<1>8. ASSUME NEW c \in Command, Create(c) PROVE PoolTyped'
  <2>1. gate' = gate \/ gate' = Open \/ gate' = [Open EXCEPT !.by = c, !.at = "create"]
    BY <1>8 DEF Create
  <2>2. gate' \in GateStates
    BY <2>1, GateForms, Zenon
  <2>3. files' \in SUBSET Whole
    BY <1>8 DEF Create, Whole
  <2>4. epoch' \in 0 .. MaxEpoch
    <3>1. epoch' = epoch \/ (epoch < MaxEpoch /\ epoch' = epoch + 1)
      BY <1>8 DEF Create
    <3> QED BY <3>1, EpochGrows
  <2> QED BY <1>8, <2>2, <2>3, <2>4 DEF Create
<1>9. ASSUME NEW c \in Command, AdmitRefused(c) PROVE PoolTyped'
  BY <1>9 DEF AdmitRefused
<1>10. ASSUME NEW c \in Command, Register(c) PROVE PoolTyped'
  <2>1. UNCHANGED <<kind, files, epoch>>
    BY <1>10 DEF Register
  <2>2. ASSUME gate = Open, gate' = [by |-> c, at |-> "register", left |-> MissingRoots],
               UNCHANGED <<parts, pc, child>>
        PROVE  PoolTyped'
    <3>1. MissingRoots \in SUBSET Part
      BY DEF MissingRoots
    <3>2. gate' \in GateStates
      BY <2>2, <3>1, GateForms
    <3> QED BY <2>1, <2>2, <3>2
  <2>3. ASSUME gate.at = "register", NEW p \in gate.left, parts' = parts \cup {p},
               gate' = [gate EXCEPT !.left = @ \ {p}], UNCHANGED <<pc, child>>
        PROVE  PoolTyped'
    <3>1. gate' \in GateStates /\ p \in Part
      BY <2>3, GateShrinks
    <3> QED BY <2>1, <2>3, <3>1
  <2>4. ASSUME gate' = Open, Goto(c, "visiting"), child' = [child EXCEPT ![c] = "visit"],
               UNCHANGED parts
        PROVE  PoolTyped'
    <3>1. gate' \in GateStates
      BY <2>4, GateForms
    <3> QED BY <2>1, <2>4, <3>1
  <2> QED BY <1>10, <2>2, <2>3, <2>4 DEF Register
<1>11. ASSUME NEW c \in Command, Visit(c) PROVE PoolTyped'
  BY <1>11 DEF Visit
<1>12. ASSUME NEW c \in Command, ChildEnds(c) PROVE PoolTyped'
  BY <1>12 DEF ChildEnds
<1>13. ASSUME NEW c \in Command, Leave(c) PROVE PoolTyped'
  BY <1>13 DEF Leave
<1>14. ASSUME NEW c \in Command, NEW p \in Part, Remove(c, p) PROVE PoolTyped'
  BY <1>14, GateShrinks DEF Remove
<1>15. ASSUME NEW c \in Command, NEW p \in Part, Fetch(c, p) PROVE PoolTyped'
  BY <1>15 DEF Fetch
<1>16. ASSUME NEW c \in Command, Specify(c) PROVE PoolTyped'
  BY <1>16 DEF Specify
<1>17. ASSUME NEW c \in Command, Validate(c) PROVE PoolTyped'
  BY <1>17 DEF Validate, Fail
<1>18. ASSUME NEW c \in Command, Proceed(c) PROVE PoolTyped'
  BY <1>18 DEF Proceed
<1>19. ASSUME NEW c \in Command, Unlock(c) PROVE PoolTyped'
  BY <1>19 DEF Unlock, Fail
<1>20. ASSUME NEW c \in Command, Upgrade(c) PROVE PoolTyped'
  BY <1>20 DEF Upgrade, Fail
<1>21. ASSUME NEW c \in Command, InstallStarts(c) PROVE PoolTyped'
  BY <1>21 DEF InstallStarts
<1>22. ASSUME NEW c \in Command, InstallEnds(c) PROVE PoolTyped'
  BY <1>22 DEF InstallEnds
<1>23. ASSUME NEW c \in Command, InstallDies(c) PROVE PoolTyped'
  BY <1>23 DEF InstallDies
<1>24. ASSUME NEW c \in Command, Record(c) PROVE PoolTyped'
  BY <1>24 DEF Record, Fail
<1>25. ASSUME NEW c \in Command, Downgrade(c) PROVE PoolTyped'
  BY <1>25 DEF Downgrade
<1>26. ASSUME NEW c \in Command, TaskEnds(c) PROVE PoolTyped'
  BY <1>26 DEF TaskEnds, setupVars
<1>27. ASSUME NEW c \in Command, Release(c) PROVE PoolTyped'
  BY <1>27 DEF Release, setupVars
<1>28. ASSUME NEW c \in Command, Kill(c) PROVE PoolTyped'
  BY <1>28, GateForms DEF Kill, Stop
<1>29. ASSUME NEW c \in Command, NEW g \in Group, Inspect(c, g)
      PROVE  UNCHANGED <<kind, files, epoch, parts, gate, pc, child>>
  BY <1>29 DEF Inspect, poolVars
<1>30. ASSUME NEW c \in Command, NEW g \in Group, Repair(c, g) PROVE PoolTyped'
  BY <1>30 DEF Repair
<1>31. ASSUME NEW g \in Group, EditInputs(g) \/ Clean(g)
      PROVE  UNCHANGED <<kind, files, epoch, parts, gate, pc, child>>
  BY <1>31 DEF EditInputs, Clean, poolVars
<1>32. CASE UNCHANGED vars
  BY <1>32, <1>1 DEF vars, poolVars, setupVars
<1> QED
  BY <1>1, <1>2, <1>3, <1>4, <1>5, <1>6, <1>7, <1>8, <1>9, <1>10, <1>11, <1>12, <1>13, <1>14,
     <1>15, <1>16, <1>17, <1>18, <1>19, <1>20, <1>21, <1>22, <1>23, <1>24, <1>25, <1>26, <1>27,
     <1>28, <1>29, <1>30, <1>31, <1>32
     DEF Next, PoolStep

\* A child begins at its place and goes with its command, or after it.
LEMMA ChildStep == PoolTyped /\ ChildPlace /\ [Next]_vars => ChildPlace'
<1> SUFFICES ASSUME PoolTyped, ChildPlace, [Next]_vars PROVE ChildPlace'
  OBVIOUS
<1> USE DEF ChildPlace, PoolTyped, PoolSteps, SetupSteps, Children, Goto
<1>1. CASE UNCHANGED <<pc, child>>
  BY <1>1
<1>2. ASSUME NEW c \in Command, Evict(c)
      PROVE  UNCHANGED <<pc, child>>
  BY <1>2 DEF Evict
<1>3. ASSUME NEW c \in Command, Start(c) PROVE ChildPlace'
  BY <1>3 DEF Start
<1>4. ASSUME NEW c \in Command, Spare(c) PROVE ChildPlace'
  BY <1>4 DEF Spare, Collected
<1>5. ASSUME NEW c \in Command, Swept(c) PROVE ChildPlace'
  BY <1>5 DEF Swept, Collected
<1>6. ASSUME NEW c \in Command, Retire(c) PROVE ChildPlace'
  <2>1. UNCHANGED child
    BY <1>6 DEF Retire
  <2>2. \/ UNCHANGED pc
        \/ pc' = [pc EXCEPT ![c] = IF pc[c] = "collect first" THEN "admit" ELSE "idle"]
    BY <1>6 DEF Retire, Collected
  <2>3. CASE UNCHANGED pc
    BY <2>1, <2>3
  <2>4. CASE pc' = [pc EXCEPT ![c] = IF pc[c] = "collect first" THEN "admit" ELSE "idle"]
    BY <2>1, <2>4
  <2> QED BY <2>2, <2>3, <2>4
<1>7. ASSUME NEW c \in Command, Admit(c) PROVE ChildPlace'
  BY <1>7 DEF Admit
<1>8. ASSUME NEW c \in Command, Create(c) PROVE ChildPlace'
  BY <1>8 DEF Create
<1>9. ASSUME NEW c \in Command, AdmitRefused(c) PROVE ChildPlace'
  BY <1>9 DEF AdmitRefused
<1>10. ASSUME NEW c \in Command, Register(c) PROVE ChildPlace'
  <2>1. \/ UNCHANGED <<pc, child>>
        \/ pc' = [pc EXCEPT ![c] = "visiting"] /\ child' = [child EXCEPT ![c] = "visit"]
    BY <1>10 DEF Register
  <2>2. CASE UNCHANGED <<pc, child>>
    BY <2>2
  <2>3. CASE pc' = [pc EXCEPT ![c] = "visiting"] /\ child' = [child EXCEPT ![c] = "visit"]
    <3>1. /\ pc'[c] = "visiting" /\ child'[c] = "visit"
          /\ \A d \in Command : d # c => pc'[d] = pc[d] /\ child'[d] = child[d]
      BY <2>3
    <3> HIDE DEF PoolTyped
    <3> QED BY <3>1
  <2> QED BY <2>1, <2>2, <2>3
<1>11. ASSUME NEW c \in Command, Visit(c) PROVE ChildPlace'
  BY <1>11 DEF Visit
<1>12. ASSUME NEW c \in Command, ChildEnds(c) PROVE ChildPlace'
  BY <1>12 DEF ChildEnds
<1>13. ASSUME NEW c \in Command, Leave(c) PROVE ChildPlace'
  BY <1>13 DEF Leave
<1>14. ASSUME NEW c \in Command, NEW p \in Part, Remove(c, p) \/ Fetch(c, p)
      PROVE  UNCHANGED <<pc, child>>
  BY <1>14 DEF Remove, Fetch
<1>15. ASSUME NEW c \in Command, Specify(c) PROVE ChildPlace'
  BY <1>15 DEF Specify
<1>16. ASSUME NEW c \in Command, Validate(c) PROVE ChildPlace'
  BY <1>16 DEF Validate, Fail
<1>17. ASSUME NEW c \in Command, Proceed(c) PROVE ChildPlace'
  BY <1>17 DEF Proceed
<1>18. ASSUME NEW c \in Command, Unlock(c) PROVE ChildPlace'
  BY <1>18 DEF Unlock, Fail
<1>19. ASSUME NEW c \in Command, Upgrade(c) PROVE ChildPlace'
  BY <1>19 DEF Upgrade, Fail
<1>20. ASSUME NEW c \in Command, InstallStarts(c) PROVE ChildPlace'
  BY <1>20 DEF InstallStarts
<1>21. ASSUME NEW c \in Command, InstallEnds(c) PROVE ChildPlace'
  BY <1>21 DEF InstallEnds
<1>22. ASSUME NEW c \in Command, InstallDies(c) PROVE ChildPlace'
  BY <1>22 DEF InstallDies
<1>23. ASSUME NEW c \in Command, Record(c) PROVE ChildPlace'
  BY <1>23 DEF Record, Fail
<1>24. ASSUME NEW c \in Command, Downgrade(c) PROVE ChildPlace'
  BY <1>24 DEF Downgrade
<1>25. ASSUME NEW c \in Command, TaskEnds(c) PROVE ChildPlace'
  BY <1>25 DEF TaskEnds, setupVars
<1>26. ASSUME NEW c \in Command, Release(c) PROVE ChildPlace'
  BY <1>26 DEF Release, setupVars
<1>27. ASSUME NEW c \in Command, Kill(c) PROVE ChildPlace'
  BY <1>27 DEF Kill, Stop
<1>28. ASSUME NEW c \in Command, NEW g \in Group, Inspect(c, g)
      PROVE  UNCHANGED <<pc, child>>
  BY <1>28 DEF Inspect, poolVars
<1>29. ASSUME NEW c \in Command, NEW g \in Group, Repair(c, g) PROVE ChildPlace'
  BY <1>29 DEF Repair
<1>30. ASSUME NEW g \in Group, EditInputs(g) \/ Clean(g)
      PROVE  UNCHANGED <<pc, child>>
  BY <1>30 DEF EditInputs, Clean, poolVars
<1>31. CASE UNCHANGED vars
  BY <1>31, <1>1 DEF vars, poolVars, setupVars
<1> HIDE DEF ChildPlace, PoolTyped, PoolSteps, SetupSteps, Children, Goto
<1> QED
  BY <1>1, <1>2, <1>3, <1>4, <1>5, <1>6, <1>7, <1>8, <1>9, <1>10, <1>11, <1>12, <1>13, <1>14,
     <1>15, <1>16, <1>17, <1>18, <1>19, <1>20, <1>21, <1>22, <1>23, <1>24, <1>25, <1>26, <1>27,
     <1>28, <1>29, <1>30, <1>31
     DEF Next, PoolStep

\* What is leased is neither removed nor half made.
LEMMA PoolStepKeeps == PoolTyped /\ ChildPlace /\ PoolKept /\ [Next]_vars => PoolKept'
<1> SUFFICES ASSUME PoolTyped, ChildPlace, PoolKept, [Next]_vars PROVE PoolKept'
  OBVIOUS
<1> USE DEF PoolKept, ChildPlace, PoolTyped, PoolSteps, SetupSteps, Children, Goto, Leased,
            MissingRoots
<1>1. CASE UNCHANGED <<kind, files, parts, gate, pc, child>>
  BY <1>1
<1>2. ASSUME NEW c \in Command, Start(c) PROVE PoolKept'
  BY <1>2 DEF Start
<1>3. ASSUME NEW c \in Command, Spare(c) PROVE PoolKept'
  BY <1>3 DEF Spare, Collected
<1>4. ASSUME NEW c \in Command, Evict(c) PROVE PoolKept'
  <2>1. \A d \in Command : ~Leased(d)
    BY <1>4 DEF Evict
  <2>2. UNCHANGED <<kind, files, parts, pc, child>> /\ gate'.at = "remove"
    <3>1. PICK doomed \in SUBSET parts : gate' = [by |-> c, at |-> "remove", left |-> doomed]
      BY <1>4 DEF Evict
    <3>2. gate'.at = "remove"
      BY <3>1
    <3> QED BY <1>4, <3>2 DEF Evict
  <2> QED BY <2>1, <2>2
<1>5. ASSUME NEW c \in Command, Swept(c) PROVE PoolKept'
  BY <1>5, GateForms DEF Swept, Collected
<1>6. ASSUME NEW c \in Command, Retire(c) PROVE PoolKept'
  <2>1. gate.at = "remove" /\ UNCHANGED <<kind, parts, child>> /\ gate' \in {gate, Open}
    BY <1>6 DEF Retire
  <2>2. \A d \in Command : pc'[d] = pc[d] \/ pc'[d] \in {"admit", "idle"}
    BY <1>6 DEF Retire, Collected
  <2>3. \A d \in Command : ~Leased(d) /\ ~Leased(d)'
    BY <2>1, <2>2
  <2>4. gate'.at # "register"
    BY <2>1, GateForms
  <2> QED BY <2>1, <2>2, <2>3, <2>4
<1>7. ASSUME NEW c \in Command, Admit(c) PROVE PoolKept'
  BY <1>7, GateForms DEF Admit
<1>8. ASSUME NEW c \in Command, Create(c) PROVE PoolKept'
  <2>1. UNCHANGED <<kind, parts, child>> /\ (gate' \in {gate, Open} \/ gate'.at = "create")
    BY <1>8, GateForms DEF Create
  <2>2. files # Whole /\ gate.at # "remove" /\ gate.at # "register"
    <3>0. files = {} \/ files = {"directory"} \/ files = {"directory", "lease"}
      BY <1>8 DEF Create
    <3>1. files # Whole
      BY <3>0, HalfMade
    <3>2. gate = Open \/ gate.at = "create"
      BY <1>8 DEF Create
    <3> QED BY <3>1, <3>2, GateForms
  <2>3. \A d \in Command : ~Leased(d)
    BY <2>2
  <2>4. \A d \in Command : pc'[d] = pc[d] \/ (d = c /\ pc'[d] = "admitted" /\ files' = Whole /\ gate' = Open)
    BY <1>8 DEF Create
  <2>5. gate'.at # "register" /\ gate'.at # "remove"
    BY <2>1, <2>2, GateForms
  <2> QED BY <2>1, <2>3, <2>4, <2>5
<1>9. ASSUME NEW c \in Command, AdmitRefused(c) PROVE PoolKept'
  BY <1>9 DEF AdmitRefused
<1>10. ASSUME NEW c \in Command, Register(c) PROVE PoolKept'
  <2>1. kind = "runtime" /\ pc[c] = "admitted" /\ UNCHANGED <<kind, files, epoch>>
    BY <1>10 DEF Register
  <2>2. ASSUME gate' = [by |-> c, at |-> "register", left |-> MissingRoots],
               UNCHANGED <<parts, pc, child>>
        PROVE  PoolKept'
    <3>1. gate'.at = "register" /\ gate'.left = MissingRoots
      BY <2>2
    <3> QED BY <2>1, <2>2, <3>1
  <2>3. ASSUME gate.at = "register", NEW p \in gate.left, parts' = parts \cup {p},
               gate' = [gate EXCEPT !.left = @ \ {p}], UNCHANGED <<pc, child>>
        PROVE  PoolKept'
    <3>1. gate'.at = "register" /\ gate'.left = gate.left \ {p} /\ p \in Part
      BY <2>3, GateShrinks
    <3> QED BY <2>1, <2>3, <3>1
  <2>4. ASSUME gate.at = "register", gate.left = {}, gate' = Open, Goto(c, "visiting"),
               child' = [child EXCEPT ![c] = "visit"], UNCHANGED parts
        PROVE  PoolKept'
    <3>1. parts = Part /\ gate'.at = "open"
      BY <2>4, GateForms
    <3>2. \A d \in Command : Leased(d)' => Leased(d) \/ d = c
      BY <2>4
    <3> QED BY <2>1, <2>4, <3>1, <3>2
  <2> QED BY <1>10, <2>2, <2>3, <2>4 DEF Register
<1>11. ASSUME NEW c \in Command, Visit(c) PROVE PoolKept'
  BY <1>11 DEF Visit
<1>12. ASSUME NEW c \in Command, ChildEnds(c) PROVE PoolKept'
  BY <1>12 DEF ChildEnds
<1>13. ASSUME NEW c \in Command, Leave(c) PROVE PoolKept'
  BY <1>13 DEF Leave
<1>14. ASSUME NEW c \in Command, NEW p \in Part, Remove(c, p) PROVE PoolKept'
  BY <1>14, GateForms, GateShrinks DEF Remove
<1>15. ASSUME NEW c \in Command, NEW p \in Part, Fetch(c, p) PROVE PoolKept'
  BY <1>15 DEF Fetch
<1>16. ASSUME NEW c \in Command, Specify(c) PROVE PoolKept'
  BY <1>16 DEF Specify
<1>17. ASSUME NEW c \in Command, Validate(c) PROVE PoolKept'
  BY <1>17 DEF Validate, Fail
<1>18. ASSUME NEW c \in Command, Proceed(c) PROVE PoolKept'
  BY <1>18 DEF Proceed
<1>19. ASSUME NEW c \in Command, Unlock(c) PROVE PoolKept'
  BY <1>19 DEF Unlock, Fail
<1>20. ASSUME NEW c \in Command, Upgrade(c) PROVE PoolKept'
  BY <1>20 DEF Upgrade, Fail
<1>21. ASSUME NEW c \in Command, InstallStarts(c) PROVE PoolKept'
  BY <1>21 DEF InstallStarts
<1>22. ASSUME NEW c \in Command, InstallEnds(c) PROVE PoolKept'
  BY <1>22 DEF InstallEnds
<1>23. ASSUME NEW c \in Command, InstallDies(c) PROVE PoolKept'
  BY <1>23 DEF InstallDies
<1>24. ASSUME NEW c \in Command, Record(c) PROVE PoolKept'
  BY <1>24 DEF Record, Fail
<1>25. ASSUME NEW c \in Command, Downgrade(c) PROVE PoolKept'
  BY <1>25 DEF Downgrade
<1>26. ASSUME NEW c \in Command, TaskEnds(c) PROVE PoolKept'
  BY <1>26 DEF TaskEnds, setupVars
<1>27. ASSUME NEW c \in Command, Release(c) PROVE PoolKept'
  BY <1>27 DEF Release, setupVars
<1>28. ASSUME NEW c \in Command, Kill(c) PROVE PoolKept'
  BY <1>28, GateForms DEF Kill, Stop
<1>29. ASSUME NEW c \in Command, NEW g \in Group, Inspect(c, g)
      PROVE  UNCHANGED <<kind, files, parts, gate, pc, child>>
  BY <1>29 DEF Inspect, poolVars
<1>30. ASSUME NEW c \in Command, NEW g \in Group, Repair(c, g) PROVE PoolKept'
  BY <1>30 DEF Repair
<1>31. ASSUME NEW g \in Group, EditInputs(g) \/ Clean(g)
      PROVE  UNCHANGED <<kind, files, parts, gate, pc, child>>
  BY <1>31 DEF EditInputs, Clean, poolVars
<1>32. CASE UNCHANGED vars
  BY <1>32, <1>1 DEF vars, poolVars, setupVars
<1> HIDE DEF PoolKept, ChildPlace, PoolTyped, PoolSteps, SetupSteps, Children, Goto, Leased,
             MissingRoots
<1> QED
  BY <1>1, <1>2, <1>3, <1>4, <1>5, <1>6, <1>7, <1>8, <1>9, <1>10, <1>11, <1>12, <1>13, <1>14,
     <1>15, <1>16, <1>17, <1>18, <1>19, <1>20, <1>21, <1>22, <1>23, <1>24, <1>25, <1>26, <1>27,
     <1>28, <1>29, <1>30, <1>31, <1>32
     DEF Next, PoolStep

\* The lock is taken when nobody is in the way, and inherited.
LEMMA LockStep == PoolTyped /\ ChildPlace /\ PoolKept /\ LockKept /\ [Next]_vars => LockKept'
<1> SUFFICES ASSUME PoolTyped, ChildPlace, PoolKept, LockKept, [Next]_vars PROVE LockKept'
  OBVIOUS
<1> USE DEF LockKept, ChildPlace, PoolTyped, PoolSteps, SetupSteps, Children, Goto, Exclusive,
            Shared
<1>1. CASE UNCHANGED <<pc, child>>
  BY <1>1
<1>2. ASSUME NEW c \in Command, Evict(c)
      PROVE  UNCHANGED <<pc, child>>
  BY <1>2 DEF Evict
<1>3. ASSUME NEW c \in Command, Start(c) PROVE LockKept'
  <2>1. \A d \in Command : (Exclusive(d)' => Exclusive(d)) /\ (Shared(d)' => Shared(d))
    BY <1>3 DEF Start
  <2> HIDE DEF Exclusive, Shared
  <2> QED BY <2>1
<1>4. ASSUME NEW c \in Command, Spare(c) PROVE LockKept'
  <2>1. \A d \in Command : (Exclusive(d)' => Exclusive(d)) /\ (Shared(d)' => Shared(d))
    BY <1>4 DEF Spare, Collected
  <2> HIDE DEF Exclusive, Shared
  <2> QED BY <2>1
<1>5. ASSUME NEW c \in Command, Swept(c) PROVE LockKept'
  <2>1. \A d \in Command : (Exclusive(d)' => Exclusive(d)) /\ (Shared(d)' => Shared(d))
    BY <1>5 DEF Swept, Collected
  <2> HIDE DEF Exclusive, Shared
  <2> QED BY <2>1
<1>6. ASSUME NEW c \in Command, Retire(c) PROVE LockKept'
  <2>1. \A d \in Command : (Exclusive(d)' => Exclusive(d)) /\ (Shared(d)' => Shared(d))
    BY <1>6 DEF Retire, Collected
  <2> HIDE DEF Exclusive, Shared
  <2> QED BY <2>1
<1>7. ASSUME NEW c \in Command, Admit(c) PROVE LockKept'
  <2>1. \A d \in Command : (Exclusive(d)' => Exclusive(d)) /\ (Shared(d)' => Shared(d))
    BY <1>7 DEF Admit
  <2> HIDE DEF Exclusive, Shared
  <2> QED BY <2>1
<1>8. ASSUME NEW c \in Command, Create(c) PROVE LockKept'
  <2>1. \A d \in Command : (Exclusive(d)' => Exclusive(d)) /\ (Shared(d)' => Shared(d))
    BY <1>8 DEF Create
  <2> HIDE DEF Exclusive, Shared
  <2> QED BY <2>1
<1>9. ASSUME NEW c \in Command, AdmitRefused(c) PROVE LockKept'
  <2>1. \A d \in Command : (Exclusive(d)' => Exclusive(d)) /\ (Shared(d)' => Shared(d))
    BY <1>9 DEF AdmitRefused
  <2> HIDE DEF Exclusive, Shared
  <2> QED BY <2>1
<1>10. ASSUME NEW c \in Command, Register(c) PROVE LockKept'
  <2>1. \A d \in Command : (Exclusive(d)' => Exclusive(d)) /\ (Shared(d)' => Shared(d))
    BY <1>10 DEF Register
  <2> HIDE DEF Exclusive, Shared
  <2> QED BY <2>1
<1>11. ASSUME NEW c \in Command, Visit(c) PROVE LockKept'
  <2>1. \A d \in Command : (Exclusive(d)' => Exclusive(d)) /\ (Shared(d)' => Shared(d))
    BY <1>11 DEF Visit
  <2> HIDE DEF Exclusive, Shared
  <2> QED BY <2>1
<1>12. ASSUME NEW c \in Command, ChildEnds(c) PROVE LockKept'
  <2>1. \A d \in Command : (Exclusive(d)' => Exclusive(d)) /\ (Shared(d)' => Shared(d))
    BY <1>12 DEF ChildEnds
  <2> HIDE DEF Exclusive, Shared
  <2> QED BY <2>1
<1>13. ASSUME NEW c \in Command, Leave(c) PROVE LockKept'
  <2>1. \A d \in Command : (Exclusive(d)' => Exclusive(d)) /\ (Shared(d)' => Shared(d))
    BY <1>13 DEF Leave
  <2> HIDE DEF Exclusive, Shared
  <2> QED BY <2>1
<1>14. ASSUME NEW c \in Command, NEW p \in Part, Remove(c, p) \/ Fetch(c, p)
      PROVE  UNCHANGED <<pc, child>>
  BY <1>14 DEF Remove, Fetch
<1>15. ASSUME NEW c \in Command, Specify(c) PROVE LockKept'
  <2>1. \A d \in Command : (Exclusive(d)' => Exclusive(d)) /\ (Shared(d)' => Shared(d))
    BY <1>15 DEF Specify
  <2> HIDE DEF Exclusive, Shared
  <2> QED BY <2>1
<1>16. ASSUME NEW c \in Command, Validate(c) PROVE LockKept'
  <2>1. \A d \in Command : (Exclusive(d)' => Exclusive(d)) /\ (d # c => (Shared(d)' => Shared(d)))
    BY <1>16 DEF Validate, Fail
  <2>2. (\A d \in Command : ~Exclusive(d)) \/ (Shared(c)' => Shared(c))
    BY <1>16 DEF Validate, Fail
  <2> HIDE DEF Exclusive, Shared
  <2> QED BY <2>1, <2>2
<1>17. ASSUME NEW c \in Command, Proceed(c) PROVE LockKept'
  <2>1. \A d \in Command : (Exclusive(d)' => Exclusive(d)) /\ (Shared(d)' => Shared(d))
    BY <1>17 DEF Proceed
  <2> HIDE DEF Exclusive, Shared
  <2> QED BY <2>1
<1>18. ASSUME NEW c \in Command, Unlock(c) PROVE LockKept'
  <2>1. \A d \in Command : (Exclusive(d)' => Exclusive(d)) /\ (Shared(d)' => Shared(d))
    BY <1>18 DEF Unlock, Fail
  <2> HIDE DEF Exclusive, Shared
  <2> QED BY <2>1
<1>19. ASSUME NEW c \in Command, Upgrade(c) PROVE LockKept'
  <2>1. \A d \in Command : d # c => (Exclusive(d)' => Exclusive(d)) /\ (Shared(d)' => Shared(d))
    BY <1>19 DEF Upgrade, Fail
  <2>2. \/ \A d \in Command : ~Exclusive(d) /\ ~Shared(d)
        \/ (Exclusive(c)' => Exclusive(c)) /\ (Shared(c)' => Shared(c))
    BY <1>19 DEF Upgrade, Fail
  <2> HIDE DEF Exclusive, Shared
  <2> QED BY <2>1, <2>2
<1>20. ASSUME NEW c \in Command, InstallStarts(c) PROVE LockKept'
  <2>1. \A d \in Command : (Exclusive(d)' => Exclusive(d)) /\ (Shared(d)' => Shared(d))
    BY <1>20 DEF InstallStarts
  <2> HIDE DEF Exclusive, Shared
  <2> QED BY <2>1
<1>21. ASSUME NEW c \in Command, InstallEnds(c) PROVE LockKept'
  BY <1>21 DEF InstallEnds
<1>22. ASSUME NEW c \in Command, InstallDies(c) PROVE LockKept'
  BY <1>22 DEF InstallDies
<1>23. ASSUME NEW c \in Command, Record(c) PROVE LockKept'
  <2>1. \A d \in Command : (Exclusive(d)' => Exclusive(d)) /\ (Shared(d)' => Shared(d))
    BY <1>23 DEF Record, Fail
  <2> HIDE DEF Exclusive, Shared
  <2> QED BY <2>1
<1>24. ASSUME NEW c \in Command, Downgrade(c) PROVE LockKept'
  BY <1>24 DEF Downgrade
<1>25. ASSUME NEW c \in Command, TaskEnds(c) PROVE LockKept'
  BY <1>25 DEF TaskEnds, setupVars
<1>26. ASSUME NEW c \in Command, Release(c) PROVE LockKept'
  BY <1>26 DEF Release, setupVars
<1>27. ASSUME NEW c \in Command, Kill(c) PROVE LockKept'
  BY <1>27 DEF Kill, Stop
<1>28. ASSUME NEW c \in Command, NEW g \in Group, Inspect(c, g)
      PROVE  UNCHANGED <<pc, child>>
  BY <1>28 DEF Inspect, poolVars
<1>29. ASSUME NEW c \in Command, NEW g \in Group, Repair(c, g) PROVE LockKept'
  <2>1. \A d \in Command : (Exclusive(d)' => Exclusive(d)) /\ (Shared(d)' => Shared(d))
    BY <1>29 DEF Repair
  <2> HIDE DEF Exclusive, Shared
  <2> QED BY <2>1
<1>30. ASSUME NEW g \in Group, EditInputs(g) \/ Clean(g)
      PROVE  UNCHANGED <<pc, child>>
  BY <1>30 DEF EditInputs, Clean, poolVars
<1>31. CASE UNCHANGED vars
  BY <1>31, <1>1 DEF vars, poolVars, setupVars
<1> HIDE DEF LockKept, ChildPlace, PoolTyped, PoolSteps, SetupSteps, Children, Goto, Exclusive,
             Shared
<1> QED
  BY <1>1, <1>2, <1>3, <1>4, <1>5, <1>6, <1>7, <1>8, <1>9, <1>10, <1>11, <1>12, <1>13, <1>14,
     <1>15, <1>16, <1>17, <1>18, <1>19, <1>20, <1>21, <1>22, <1>23, <1>24, <1>25, <1>26, <1>27,
     <1>28, <1>29, <1>30, <1>31
     DEF Next, PoolStep

----------------------------------------------------------------------------
(* What the steps do, in terms of fields.                                  *)

\* A stamp is of a group, and holds versions of its inputs and those it needs.
LEMMA StampFields ==
  ASSUME NEW s \in Stamp
  PROVE  /\ s.group \in Group /\ s.inputs \in [Own(s.group) -> 0 .. MaxEdits]
         /\ s.epoch \in 0 .. MaxEpoch
<1>1. PICK g \in Group :
        s \in [group : {g}, inputs : [Needs[g] \cup {g} -> 0 .. MaxEdits], epoch : 0 .. MaxEpoch]
  BY DEF Stamp
<1> QED BY <1>1 DEF Own

\* A fingerprint is one of its group's own inputs, of the others as they were seen,
\* and of the present epoch.
LEMMA PrintFields ==
  ASSUME NEW g \in Group, NEW seen \in Versions, inputs \in Versions, epoch \in 0 .. MaxEpoch
  PROVE  /\ FingerprintAt(g, seen) \in Stamp
         /\ FingerprintAt(g, seen).group = g /\ FingerprintAt(g, seen).epoch = epoch
         /\ FingerprintAt(g, seen).inputs[g] = inputs[g]
         /\ \A d \in Needs[g] : FingerprintAt(g, seen).inputs[d] = seen[d]
<1> DEFINE f == With(g, inputs[g], seen)
<1>1. Needs[g] \subseteq Group /\ g \notin Needs[g]
  BY SetupAssumption
<1>2. f \in [Needs[g] \cup {g} -> 0 .. MaxEdits]
  BY <1>1 DEF With, Versions
<1>3. f[g] = inputs[g] /\ \A d \in Needs[g] : f[d] = seen[d]
  BY <1>1 DEF With
<1>4. FingerprintAt(g, seen) = [group |-> g, inputs |-> f, epoch |-> epoch]
  BY DEF FingerprintAt
<1> HIDE DEF f
<1>5. FingerprintAt(g, seen) \in
        [group : {g}, inputs : [Needs[g] \cup {g} -> 0 .. MaxEdits], epoch : 0 .. MaxEpoch]
  BY <1>2, <1>4
<1>6. FingerprintAt(g, seen) \in Stamp
  BY <1>5 DEF Stamp
<1> QED BY <1>3, <1>4, <1>6

\* The others' work is as it was.
OthersWork(c) == \A d \in Command : d # c => work'[d] = work[d]

\* A command that has no work.
LEMMA NoWorkFields ==
  /\ NoWork \in Works /\ NoWork.left = {} /\ NoWork.stale = {} /\ NoWork.group = NoGroup
  /\ NoWork.expected = {} /\ ~NoWork.succeeded /\ \A g \in Group : NoWork.seen[g] = 0
<1> DEFINE no == FALSE
           zero == [g \in Group |-> 0]
<1>1. no \in BOOLEAN /\ ~no
  BY Zenon
<1>2. zero \in Versions /\ \A g \in Group : zero[g] = 0
  BY SetupAssumption DEF Versions
<1>3. NoWork = [seen |-> zero, left |-> {}, stale |-> {}, group |-> NoGroup, expected |-> {},
                succeeded |-> no]
  BY DEF NoWork
<1> HIDE DEF no, zero
<1>4. NoWork.succeeded = no
  BY <1>3
<1>5. NoWork \in Works
  BY <1>1, <1>2, <1>3 DEF Works
<1> QED BY <1>1, <1>2, <1>3, <1>4, <1>5

\* It is reset.
LEMMA WorkResets ==
  ASSUME WorkTyped, NEW c \in Command, work' = [work EXCEPT ![c] = NoWork]
  PROVE  WorkTyped' /\ OthersWork(c) /\ work'[c] = NoWork
  BY NoWorkFields DEF WorkTyped, OthersWork

\* It begins.
LEMMA WorkBegins ==
  ASSUME WorkTyped, NEW c \in Command, inputs \in Versions,
         work' = [work EXCEPT ![c] = [NoWork EXCEPT !.seen = inputs, !.left = Group]]
  PROVE  WorkTyped' /\ OthersWork(c) /\ work'[c].seen = inputs /\ work'[c].left = Group
<1> DEFINE new == [NoWork EXCEPT !.seen = inputs, !.left = Group]
<1>1. new \in Works
  BY NoWorkFields DEF Works
<1>2. new.seen = inputs /\ new.left = Group
  BY NoWorkFields DEF Works
<1>3. work' = [work EXCEPT ![c] = new]
  OBVIOUS
<1> HIDE DEF new
<1> QED BY <1>1, <1>2, <1>3 DEF WorkTyped, OthersWork

\* Its lists change.
LEMMA WorkLists ==
  ASSUME WorkTyped, NEW c \in Command, NEW left \in SUBSET Group, NEW stale \in SUBSET Group,
         work' = [work EXCEPT ![c] = [@ EXCEPT !.left = left, !.stale = stale]]
  PROVE  WorkTyped' /\ OthersWork(c) /\ work'[c].left = left /\ work'[c].stale = stale
         /\ work'[c].seen = work[c].seen
<1>1. work[c] \in Works
  BY DEF WorkTyped
<1> DEFINE new == [work[c] EXCEPT !.left = left, !.stale = stale]
<1>2. new \in Works
  BY <1>1 DEF Works
<1>3. new.left = left /\ new.stale = stale /\ new.seen = work[c].seen
  BY <1>1 DEF Works
<1>4. work' = [work EXCEPT ![c] = new]
  OBVIOUS
<1> HIDE DEF new
<1> QED BY <1>2, <1>3, <1>4 DEF WorkTyped, OthersWork

\* A group of it is done.
LEMMA WorkPasses ==
  ASSUME WorkTyped, NEW c \in Command, NEW left \in SUBSET Group,
         work' = [work EXCEPT ![c] = [@ EXCEPT !.left = left]]
  PROVE  WorkTyped' /\ OthersWork(c) /\ work'[c].left = left /\ work'[c].seen = work[c].seen
<1>1. work[c] \in Works
  BY DEF WorkTyped
<1> DEFINE new == [work[c] EXCEPT !.left = left]
<1>2. new \in Works
  BY <1>1 DEF Works
<1>3. new.left = left /\ new.seen = work[c].seen
  BY <1>1 DEF Works
<1>4. work' = [work EXCEPT ![c] = new]
  OBVIOUS
<1> HIDE DEF new
<1> QED BY <1>2, <1>3, <1>4 DEF WorkTyped, OthersWork

\* It comes to an installation.
LEMMA WorkInstalls ==
  ASSUME WorkTyped, NEW c \in Command, NEW g \in Group, NEW s \in Stamp,
         work' = [work EXCEPT ![c] = [@ EXCEPT !.group = g, !.expected = {s}, !.succeeded = FALSE]]
  PROVE  WorkTyped' /\ OthersWork(c) /\ work'[c].left = work[c].left /\ work'[c].group = g
         /\ work'[c].expected = {s} /\ ~work'[c].succeeded /\ work'[c].seen = work[c].seen
<1>1. work[c] \in Works
  BY DEF WorkTyped
<1> DEFINE no  == FALSE
           mid == [work[c] EXCEPT !.group = g, !.expected = {s}]
           new == [mid EXCEPT !.succeeded = no]
<1>2. no \in BOOLEAN /\ ~no
  BY Zenon
<1>3. mid \in Works
  BY <1>1 DEF Works
<1>4. mid.left = work[c].left /\ mid.group = g /\ mid.expected = {s} /\ mid.seen = work[c].seen
  BY <1>1 DEF Works
<1>5. work' = [work EXCEPT ![c] = new]
  OBVIOUS
<1> HIDE DEF no, mid
<1>6. new \in Works
  BY <1>2, <1>3 DEF Works
<1>7. new.succeeded = no
  BY <1>3 DEF Works
<1>8. new.left = mid.left /\ new.group = g /\ new.expected = {s} /\ new.seen = mid.seen
  BY <1>3, <1>4 DEF Works
<1> HIDE DEF new
<1> QED BY <1>2, <1>4, <1>5, <1>6, <1>7, <1>8 DEF WorkTyped, OthersWork

\* The installation is recorded.
LEMMA WorkRecords ==
  ASSUME WorkTyped, NEW c \in Command, NEW left \in SUBSET Group,
         work' = [work EXCEPT ![c] = [@ EXCEPT !.left = left, !.group = NoGroup, !.expected = {},
                                               !.succeeded = FALSE]]
  PROVE  WorkTyped' /\ OthersWork(c) /\ work'[c].left = left /\ work'[c].seen = work[c].seen
<1>1. work[c] \in Works
  BY DEF WorkTyped
<1> DEFINE no  == FALSE
           mid == [work[c] EXCEPT !.left = left, !.group = NoGroup, !.expected = {}]
           new == [mid EXCEPT !.succeeded = no]
<1>2. no \in BOOLEAN
  BY Zenon
<1>3. mid \in Works
  BY <1>1 DEF Works
<1>4. mid.left = left /\ mid.seen = work[c].seen
  BY <1>1 DEF Works
<1>5. work' = [work EXCEPT ![c] = new]
  OBVIOUS
<1> HIDE DEF no, mid
<1>6. new \in Works
  BY <1>2, <1>3 DEF Works
<1>7. new.left = mid.left /\ new.seen = mid.seen
  BY <1>3 DEF Works
<1> HIDE DEF new
<1> QED BY <1>4, <1>5, <1>6, <1>7 DEF WorkTyped, OthersWork

\* The installer has succeeded.
LEMMA WorkSucceeds ==
  ASSUME WorkTyped, NEW c \in Command,
         work' = [work EXCEPT ![c] = [@ EXCEPT !.succeeded = TRUE]]
  PROVE  WorkTyped' /\ OthersWork(c) /\ work'[c].left = work[c].left
         /\ work'[c].group = work[c].group /\ work'[c].expected = work[c].expected
         /\ work'[c].seen = work[c].seen
<1>1. work[c] \in Works
  BY DEF WorkTyped
<1> DEFINE yes == TRUE
           new == [work[c] EXCEPT !.succeeded = yes]
<1>2. yes \in BOOLEAN
  BY Zenon
<1>3. work' = [work EXCEPT ![c] = new]
  OBVIOUS
<1> HIDE DEF yes
<1>4. new \in Works
  BY <1>1, <1>2 DEF Works
<1>5. /\ new.left = work[c].left /\ new.group = work[c].group /\ new.expected = work[c].expected
      /\ new.seen = work[c].seen
  BY <1>1 DEF Works
<1> HIDE DEF new
<1> QED BY <1>3, <1>4, <1>5 DEF WorkTyped, OthersWork

\* What a step of the pool means for the setup: downloads only go under the gate,
\* and first the epoch changes.
PoolMoves ==
  /\ kind' = kind /\ (epoch' = epoch \/ epoch' = epoch + 1)
  /\ gate.at # "remove" => parts \subseteq parts'
  /\ gate'.at = "remove" => epoch' = epoch + 1 \/ (gate.at = "remove" /\ epoch' = epoch)
  /\ \A d \in Command : pc'[d] = pc[d] \/ (pc[d] \in PoolSteps /\ pc'[d] \in PoolSteps)
  /\ \A d \in Command :
       \/ child'[d] = child[d]
       \/ /\ child[d] \in {"none", "visit"} /\ child'[d] \in {"none", "visit"}
          /\ pc[d] # "install"

\* And every one is such a step.
LEMMA PoolMoving ==
  ASSUME PoolTyped, ChildPlace, PoolKept, NEW c \in Command, PoolStep(c) PROVE PoolMoves
<1> USE DEF PoolTyped, PoolMoves, PoolSteps, Goto
<1>1. CASE Start(c)
  BY <1>1 DEF Start
<1>2. CASE Spare(c)
  <2>1. \/ pc' = pc
        \/ \E step \in {"admit", "idle"} : pc[c] \in PoolSteps /\ pc' = [pc EXCEPT ![c] = step]
    BY <1>2 DEF Spare, Collected
  <2>2. \A d \in Command : pc'[d] = pc[d] \/ (pc[d] \in PoolSteps /\ pc'[d] \in PoolSteps)
    BY <2>1
  <2>3. UNCHANGED <<kind, epoch, parts, child>> /\ (gate' = gate \/ gate' = Open)
    BY <1>2 DEF Spare
  <2> QED BY <2>2, <2>3, GateForms
<1>3. CASE Evict(c)
  BY <1>3 DEF Evict
<1>4. CASE Swept(c)
  <2>1. \/ pc' = pc
        \/ \E step \in {"admit", "idle"} : pc[c] \in PoolSteps /\ pc' = [pc EXCEPT ![c] = step]
    BY <1>4 DEF Swept, Collected, PoolKept, Leased
  <2>2. \A d \in Command : pc'[d] = pc[d] \/ (pc[d] \in PoolSteps /\ pc'[d] \in PoolSteps)
    BY <2>1
  <2>3. UNCHANGED <<kind, epoch, parts, child>> /\ (gate' = gate \/ gate' = Open)
    BY <1>4 DEF Swept
  <2> QED BY <2>2, <2>3, GateForms
<1>5. CASE Retire(c)
  <2>1. \/ pc' = pc
        \/ \E step \in {"admit", "idle"} : pc[c] \in PoolSteps /\ pc' = [pc EXCEPT ![c] = step]
    BY <1>5 DEF Retire, Collected, PoolKept, Leased
  <2>2. \A d \in Command : pc'[d] = pc[d] \/ (pc[d] \in PoolSteps /\ pc'[d] \in PoolSteps)
    BY <2>1
  <2>3. UNCHANGED <<kind, epoch, parts, child>> /\ (gate' = gate \/ gate' = Open)
    BY <1>5 DEF Retire
  <2> QED BY <2>2, <2>3, GateForms
<1>6. CASE Admit(c)
  BY <1>6 DEF Admit
<1>7. CASE Create(c)
  BY <1>7, GateForms DEF Create
<1>8. CASE AdmitRefused(c)
  BY <1>8 DEF AdmitRefused
<1>9. CASE Register(c)
  <2>1. kind' = kind /\ epoch' = epoch
    BY <1>9 DEF Register
  <2>2. ASSUME gate' = [by |-> c, at |-> "register", left |-> MissingRoots],
               UNCHANGED <<parts, pc, child>>
        PROVE  PoolMoves
    BY <2>1, <2>2
  <2>3. ASSUME gate.at = "register", NEW p \in gate.left, parts' = parts \cup {p},
               gate' = [gate EXCEPT !.left = @ \ {p}], UNCHANGED <<pc, child>>
        PROVE  PoolMoves
    <3>1. gate'.at = "register"
      BY <2>3, GateShrinks
    <3> QED BY <2>1, <2>3, <3>1
  <2>4. ASSUME pc[c] = "admitted", gate' = Open, Goto(c, "visiting"), child[c] = "none",
               child' = [child EXCEPT ![c] = "visit"], UNCHANGED parts
        PROVE  PoolMoves
    BY <2>1, <2>4, GateForms
  <2>5. child[c] = "none"
    BY <1>9 DEF Register, ChildPlace
  <2> QED BY <1>9, <2>2, <2>3, <2>4, <2>5 DEF Register
<1>10. CASE Visit(c)
  BY <1>10 DEF Visit, ChildPlace
<1>11. CASE ChildEnds(c)
  BY <1>11 DEF ChildEnds, ChildPlace
<1>12. CASE Leave(c)
  BY <1>12 DEF Leave
<1>13. ASSUME NEW p \in Part, Remove(c, p) PROVE PoolMoves
  BY <1>13, GateShrinks DEF Remove
<1>14. ASSUME NEW p \in Part, Fetch(c, p) PROVE PoolMoves
  BY <1>14 DEF Fetch
<1> HIDE DEF PoolMoves
<1> QED BY <1>1, <1>2, <1>3, <1>4, <1>5, <1>6, <1>7, <1>8, <1>9, <1>10, <1>11, <1>12, <1>13, <1>14
           DEF PoolStep

----------------------------------------------------------------------------
(* What a step must show.                                                  *)

\* Only command c moves.
Alone(c) ==
  \A d \in Command : d # c => pc'[d] = pc[d] /\ child'[d] = child[d] /\ work'[d] = work[d]

\* A command that does not move relies on what is still so.
LEMMA StillKept ==
  ASSUME NEW d \in Command, CommandKept(d), UNCHANGED <<parts, inputs, artifact, stamps>>,
         pc'[d] = pc[d], child'[d] = child[d], work'[d] = work[d]
  PROVE  CommandKept(d)'
<1>1. SeenPast(d)' /\ GroupFree(d)' /\ GroupWaits(d)'
  BY DEF CommandKept, SeenPast, GroupFree, Installing, GroupWaits
<1>2. ReadFits(d)' /\ SuccessKept(d)'
  BY DEF CommandKept, ReadFits, HasRead, SuccessKept
<1>3. HandledKept(d)' /\ ValidKept(d)' /\ TaskKept(d)'
  BY DEF CommandKept, HandledKept, ValidKept, TaskKept
<1> QED BY <1>1, <1>2, <1>3 DEF CommandKept

\* One that has no lock relies on nothing.
LEMMA Unlocked ==
  ASSUME NEW d \in Command, SeenPast(d)', pc'[d] \notin {"validate", "repair", "install"},
         child'[d] \notin {"starting", "installing", "task"}
  PROVE  CommandKept(d)'
  BY DEF CommandKept, GroupFree, Installing, GroupWaits, ReadFits, HasRead, SuccessKept,
         HandledKept, ValidKept, TaskKept

\* One that is not installing anything relies on three things only.
LEMMA NotInstalling ==
  ASSUME NEW d \in Command, SeenPast(d)', pc'[d] # "install",
         child'[d] \notin {"starting", "installing"}, HandledKept(d)', ValidKept(d)', TaskKept(d)'
  PROVE  CommandKept(d)'
  BY DEF CommandKept, GroupFree, Installing, GroupWaits, ReadFits, HasRead, SuccessKept

\* Stamps stand for what does not change.
LEMMA StampsStand ==
  ASSUME StampsSound, UNCHANGED <<epoch, parts, inputs, artifact, stamps>>,
         gate' = gate \/ gate'.at # "remove"
  PROVE  StampsSound'
  BY DEF StampsSound, StampsPast, EpochKept, StampsKept, Vouches, Ready

\* A step of one command that leaves artifacts and stamps alone.
LEMMA OneMoves ==
  ASSUME SetupInv, NEW c \in Command, Alone(c), WorkTyped', CommandKept(c)',
         UNCHANGED <<epoch, parts, inputs, artifact, stamps>>, gate' = gate \/ gate'.at # "remove"
  PROVE  SetupInv'
<1>1. StampsSound'
  BY StampsStand DEF SetupInv
<1>2. \A d \in Command : CommandKept(d)'
  <2> SUFFICES ASSUME NEW d \in Command, d # c PROVE CommandKept(d)'
    OBVIOUS
  <2>1. CommandKept(d) /\ pc'[d] = pc[d] /\ child'[d] = child[d] /\ work'[d] = work[d]
    BY DEF SetupInv, Alone
  <2> QED BY <2>1, StillKept
<1>3. SetupTyped' /\ ArtifactTyped'
  BY DEF SetupInv, SetupTyped, ArtifactTyped
<1> QED BY <1>1, <1>2, <1>3 DEF SetupInv

\* A step of the one that holds the lock alone.
LEMMA HolderMoves ==
  ASSUME SetupInv, PoolTyped, LockKept, NEW c \in Command, Exclusive(c), Alone(c), inputs' = inputs,
         SetupTyped', ArtifactTyped', WorkTyped', StampsSound', CommandKept(c)'
  PROVE  SetupInv'
<1>1. ASSUME NEW d \in Command, d # c PROVE CommandKept(d)'
  <2>1. ~Exclusive(d) /\ ~Shared(d)
    BY <1>1 DEF LockKept
  <2>2. pc'[d] = pc[d] /\ child'[d] = child[d] /\ work'[d] = work[d]
    BY <1>1 DEF Alone
  <2>3. SeenPast(d)'
    BY <2>2 DEF SetupInv, CommandKept, SeenPast
  <2> QED BY <2>1, <2>2, <2>3, Unlocked DEF Exclusive, Shared
<1> QED BY <1>1 DEF SetupInv

\* Any step of a command that does not touch its work.
LEMMA WorkRests ==
  ASSUME WorkTyped, UNCHANGED work, NEW c \in Command PROVE WorkTyped' /\ work'[c] = work[c]
  BY DEF WorkTyped

\* One without work has seen nothing.
LEMMA NothingSeen ==
  ASSUME SetupInv, UNCHANGED inputs, NEW c \in Command, work'[c] = NoWork, pc'[c] # "specified"
  PROVE  SeenPast(c)'
<1>1. \A g \in Group : inputs'[g] >= 0
  BY DEF SetupInv, SetupTyped, Versions
<1>2. \A g \in Group : work'[c].seen[g] = 0
  BY NoWorkFields
<1> QED BY <1>1, <1>2 DEF SeenPast

\* A command that gives up, without a child.
LEMMA GivesUp ==
  ASSUME SetupInv, PoolTyped, NEW c \in Command, child[c] = "none", Fail(c),
         UNCHANGED <<epoch, parts, gate, child, inputs, artifact, stamps>>
  PROVE  SetupInv'
<1>1. WorkTyped' /\ OthersWork(c) /\ work'[c] = NoWork
  BY WorkResets DEF SetupInv, Fail
<1>2. pc'[c] = "collect last" /\ Alone(c)
  BY <1>1 DEF Fail, Goto, Alone, OthersWork, PoolTyped
<1>3. SeenPast(c)'
  BY <1>1, <1>2, NothingSeen
<1>4. CommandKept(c)'
  BY <1>2, <1>3, Unlocked
<1> QED BY <1>1, <1>2, <1>4, OneMoves

\* A command that matches a stamp finds its group as it should be.
LEMMA CurrentVouches ==
  ASSUME SetupInv, PoolTyped, NEW c \in Command, NEW g \in Group, Current(c, g)
  PROVE  /\ parts = Part /\ artifact[g].state = "made"
         /\ artifact[g].from[g] = inputs[g]
<1> DEFINE s == FingerprintAt(g, work[c].seen)
<1>1. work[c].seen \in Versions
  BY DEF SetupInv, WorkTyped, Works
<1>2. s.group = g /\ s.epoch = epoch /\ s.inputs[g] = inputs[g]
  BY <1>1, PrintFields DEF SetupInv, SetupTyped, PoolTyped
<1>3. s \in stamps /\ Ready(g)
  BY DEF Current, Fingerprint
<1>4. Vouches(s) /\ parts = Part
  BY <1>2, <1>3 DEF SetupInv, StampsSound, StampsKept, EpochKept
<1> HIDE DEF s
<1> QED BY <1>2, <1>3, <1>4 DEF Vouches

----------------------------------------------------------------------------
(* The steps of a setup.                                                   *)

\* A command takes note of the inputs.
LEMMA SpecifyKeeps ==
  ASSUME SetupInv, PoolInv, NEW c \in Command, Specify(c) PROVE SetupInv'
<1>1. WorkTyped' /\ OthersWork(c) /\ work'[c].seen = inputs /\ work'[c].left = Group
  BY WorkBegins DEF SetupInv, SetupTyped, Specify
<1>2. pc'[c] = "specified" /\ Alone(c)
  BY <1>1 DEF Specify, Goto, Alone, OthersWork, PoolInv, PoolTyped
<1>3. child'[c] = "none"
  BY DEF Specify, PoolInv, ChildPlace
<1>4. SeenPast(c)'
  BY <1>1 DEF SeenPast, SetupInv, SetupTyped, Versions, Specify
<1>5. CommandKept(c)'
  BY <1>2, <1>3, <1>4, Unlocked
<1>6. UNCHANGED <<epoch, parts, gate, inputs, artifact, stamps>>
  BY DEF Specify
<1> QED BY <1>1, <1>2, <1>5, <1>6, OneMoves

\* It takes the lock, or fails.
LEMMA ValidateKeeps ==
  ASSUME SetupInv, PoolInv, NEW c \in Command, Validate(c) PROVE SetupInv'
<1>1. /\ UNCHANGED <<epoch, parts, gate, child, inputs, artifact, stamps>>
      /\ child[c] = "none" /\ PoolTyped
  BY DEF Validate, PoolInv, ChildPlace
<1>2. CASE Fail(c)
  BY <1>1, <1>2, GivesUp
<1>3. CASE Goto(c, "validate") /\ UNCHANGED work
  <2>1. WorkTyped' /\ work'[c] = work[c]
    BY <1>3, WorkRests DEF SetupInv
  <2>2. pc'[c] = "validate" /\ Alone(c)
    BY <1>1, <1>3 DEF Goto, Alone, PoolTyped
  <2>3. \A d \in Group : d \in work[c].left
    BY DEF Validate, SetupInv, CommandKept, SeenPast
  <2>4. SeenPast(c)' /\ HandledKept(c)' /\ ValidKept(c)' /\ TaskKept(c)'
    BY <1>1, <2>1, <2>2, <2>3
       DEF SetupInv, CommandKept, SeenPast, HandledKept, ValidKept, TaskKept
  <2>5. CommandKept(c)'
    BY <1>1, <2>2, <2>4, NotInstalling
  <2> QED BY <1>1, <2>1, <2>2, <2>5, OneMoves
<1> QED BY <1>2, <1>3 DEF Validate

\* It looks at one group.
LEMMA InspectKeeps ==
  ASSUME SetupInv, PoolInv, NEW c \in Command, NEW g \in Group, Inspect(c, g) PROVE SetupInv'
<1> DEFINE left  == work[c].left \ {g}
           stale == IF Current(c, g) THEN work[c].stale ELSE work[c].stale \cup {g}
<1>1. work[c] \in Works /\ WorkTyped
  BY DEF SetupInv, WorkTyped
<1>2. left \in SUBSET Group /\ stale \in SUBSET Group
  BY <1>1 DEF Works
<1>3. work' = [work EXCEPT ![c] = [@ EXCEPT !.left = left, !.stale = stale]]
  BY <1>1 DEF Inspect, WorkTyped
<1>4. \A d \in Group : d \notin left \cup stale =>
        d \notin work[c].left \cup work[c].stale \/ (d = g /\ Current(c, g))
  OBVIOUS
<1> HIDE DEF left, stale
<1>5. /\ WorkTyped' /\ OthersWork(c) /\ work'[c].left = left /\ work'[c].stale = stale
      /\ work'[c].seen = work[c].seen
  BY <1>1, <1>2, <1>3, WorkLists
<1>6. /\ UNCHANGED <<epoch, parts, gate, pc, child, inputs, artifact, stamps>>
      /\ pc[c] = "validate" /\ child[c] = "none"
  BY DEF Inspect, poolVars, PoolInv, ChildPlace
<1>7. Current(c, g) => parts = Part /\ artifact[g].state = "made"
  BY CurrentVouches DEF PoolInv
<1>8. CommandKept(c)
  BY DEF SetupInv
<1>9. SeenPast(c)' /\ HandledKept(c)' /\ TaskKept(c)'
  BY <1>5, <1>6, <1>8 DEF CommandKept, SeenPast, HandledKept, TaskKept
<1>10. ValidKept(c)'
  BY <1>4, <1>5, <1>6, <1>7, <1>8 DEF CommandKept, ValidKept
<1>11. CommandKept(c)'
  BY <1>6, <1>9, <1>10, NotInstalling
<1>12. Alone(c)
  BY <1>5, <1>6 DEF Alone, OthersWork
<1> QED BY <1>5, <1>6, <1>11, <1>12, OneMoves

\* What a task starts on.
LEMMA TaskStarts ==
  ASSUME SetupInv, PoolInv, NEW c \in Command, child[c] = "none", Goto(c, "running"),
         child' = [child EXCEPT ![c] = "task"], work' = [work EXCEPT ![c] = NoWork],
         UNCHANGED <<epoch, parts, gate, inputs, artifact, stamps>>,
         \A d \in Group : parts = Part /\ artifact[d].state = "made"
  PROVE  SetupInv'
<1>1. WorkTyped' /\ OthersWork(c) /\ work'[c] = NoWork
  BY WorkResets DEF SetupInv
<1>2. pc'[c] = "running" /\ child'[c] = "task" /\ Alone(c)
  BY <1>1 DEF Goto, Alone, OthersWork, PoolInv, PoolTyped
<1>3. SeenPast(c)'
  BY <1>1, <1>2, NothingSeen
<1>4. parts = Part
  BY SetupAssumption
<1>5. HandledKept(c)' /\ ValidKept(c)' /\ TaskKept(c)'
  BY <1>2, <1>4 DEF HandledKept, ValidKept, TaskKept
<1>6. CommandKept(c)'
  BY <1>2, <1>3, <1>5, NotInstalling
<1> QED BY <1>1, <1>2, <1>6, OneMoves

\* Everything was valid.
LEMMA ProceedKeeps ==
  ASSUME SetupInv, PoolInv, NEW c \in Command, Proceed(c) PROVE SetupInv'
<1>1. \A d \in Group : parts = Part /\ artifact[d].state = "made"
  BY DEF Proceed, SetupInv, CommandKept, ValidKept
<1>2. child[c] = "none"
  BY DEF Proceed, PoolInv, ChildPlace
<1> QED BY <1>1, <1>2, TaskStarts DEF Proceed

\* Everything was repaired.
LEMMA DowngradeKeeps ==
  ASSUME SetupInv, PoolInv, NEW c \in Command, Downgrade(c) PROVE SetupInv'
<1>1. \A d \in Group : parts = Part /\ artifact[d].state = "made"
  BY DEF Downgrade, SetupInv, CommandKept, HandledKept
<1>2. child[c] = "none"
  BY DEF Downgrade, PoolInv, ChildPlace
<1> QED BY <1>1, <1>2, TaskStarts DEF Downgrade

\* The shared lock is dropped.
LEMMA UnlockKeeps ==
  ASSUME SetupInv, PoolInv, NEW c \in Command, Unlock(c) PROVE SetupInv'
<1>1. /\ UNCHANGED <<epoch, parts, gate, child, inputs, artifact, stamps>>
      /\ child[c] = "none" /\ PoolTyped
  BY DEF Unlock, PoolInv, ChildPlace
<1>2. CASE Fail(c)
  BY <1>1, <1>2, GivesUp
<1>3. CASE Goto(c, "upgrade") /\ UNCHANGED work
  <2>1. WorkTyped' /\ work'[c] = work[c]
    BY <1>3, WorkRests DEF SetupInv
  <2>2. pc'[c] = "upgrade" /\ Alone(c)
    BY <1>1, <1>3 DEF Goto, Alone, PoolTyped
  <2>3. SeenPast(c)'
    BY <1>1, <2>1, <2>2 DEF SetupInv, CommandKept, SeenPast
  <2>4. CommandKept(c)'
    BY <1>1, <2>2, <2>3, Unlocked
  <2> QED BY <1>1, <2>1, <2>2, <2>4, OneMoves
<1> QED BY <1>2, <1>3 DEF Unlock

\* The exclusive one is taken.
LEMMA UpgradeKeeps ==
  ASSUME SetupInv, PoolInv, NEW c \in Command, Upgrade(c) PROVE SetupInv'
<1>1. /\ UNCHANGED <<epoch, parts, gate, child, inputs, artifact, stamps>>
      /\ child[c] = "none" /\ PoolTyped
  BY DEF Upgrade, PoolInv, ChildPlace
<1>2. CASE Fail(c)
  BY <1>1, <1>2, GivesUp
<1>3. CASE Goto(c, "repair") /\ work' = [work EXCEPT ![c].left = Group, ![c].stale = {}]
  <2>1. WorkTyped /\ Group \in SUBSET Group /\ {} \in SUBSET Group
    BY DEF SetupInv
  <2>2. work' = [work EXCEPT ![c] = [@ EXCEPT !.left = Group, !.stale = {}]]
    BY <1>3, <2>1 DEF WorkTyped
  <2>3. /\ WorkTyped' /\ OthersWork(c) /\ work'[c].left = Group
        /\ work'[c].seen = work[c].seen
    BY <2>1, <2>2, WorkLists
  <2>4. pc'[c] = "repair" /\ Alone(c)
    BY <1>1, <1>3, <2>3 DEF Goto, Alone, OthersWork, PoolTyped
  <2>5. SeenPast(c)' /\ HandledKept(c)' /\ ValidKept(c)' /\ TaskKept(c)'
    BY <1>1, <2>3, <2>4 DEF SetupInv, CommandKept, SeenPast, HandledKept, ValidKept, TaskKept
  <2>6. CommandKept(c)'
    BY <1>1, <2>4, <2>5, NotInstalling
  <2> QED BY <1>1, <2>3, <2>4, <2>6, OneMoves
<1> QED BY <1>2, <1>3 DEF Upgrade

\* The task ends, or its command leaves it.
LEMMA TaskGoes ==
  ASSUME SetupInv, PoolInv, NEW c \in Command, TaskEnds(c) \/ Release(c) PROVE SetupInv'
<1>1. UNCHANGED <<epoch, parts, gate, inputs, artifact, stamps, work>>
  BY DEF TaskEnds, Release, setupVars
<1>2. WorkTyped' /\ work'[c] = work[c]
  BY <1>1, WorkRests DEF SetupInv
<1>3. Alone(c)
  BY <1>1 DEF TaskEnds, Release, setupVars, Goto, Alone, PoolInv, PoolTyped
<1>4. /\ pc'[c] \in {"running", "collect last", "idle"} /\ child'[c] \in {child[c], "none"}
      /\ child'[c] \notin {"starting", "installing"}
  BY DEF TaskEnds, Release, setupVars, Goto, PoolInv, PoolTyped, ChildPlace
<1>5. SeenPast(c)' /\ HandledKept(c)' /\ ValidKept(c)' /\ TaskKept(c)'
  BY <1>1, <1>2, <1>4 DEF SetupInv, CommandKept, SeenPast, HandledKept, ValidKept, TaskKept
<1>6. CommandKept(c)'
  BY <1>4, <1>5, NotInstalling
<1> QED BY <1>1, <1>2, <1>3, <1>6, OneMoves

\* A group turns out to be repaired, or its installer is started.
LEMMA RepairKeeps ==
  ASSUME SetupInv, PoolInv, NEW c \in Command, NEW g \in Group, Repair(c, g) PROVE SetupInv'
<1>1. /\ UNCHANGED <<epoch, parts, gate, inputs, artifact>> /\ pc[c] = "repair"
      /\ child[c] = "none" /\ g \in work[c].left /\ Needs[g] \cap work[c].left = {}
      /\ PoolTyped /\ LockKept /\ WorkTyped /\ work[c].seen \in Versions /\ CommandKept(c)
      /\ Exclusive(c)
  BY DEF Repair, Turn, PoolInv, ChildPlace, SetupInv, WorkTyped, Works, Exclusive
<1>2. CASE Current(c, g) /\ work' = [work EXCEPT ![c].left = @ \ {g}]
           /\ UNCHANGED <<pc, child, stamps>>
  <2>1. work[c].left \ {g} \in SUBSET Group
    BY <1>1 DEF WorkTyped, Works
  <2>2. work' = [work EXCEPT ![c] = [@ EXCEPT !.left = work[c].left \ {g}]]
    BY <1>1, <1>2 DEF WorkTyped
  <2>3. /\ WorkTyped' /\ OthersWork(c) /\ work'[c].left = work[c].left \ {g}
        /\ work'[c].seen = work[c].seen
    BY <1>1, <2>1, <2>2, WorkPasses
  <2>4. parts = Part /\ artifact[g].state = "made" /\ artifact[g].from[g] = inputs[g]
    BY <1>1, <1>2, CurrentVouches
  <2>5. SeenPast(c)' /\ ValidKept(c)' /\ TaskKept(c)'
    BY <1>1, <1>2, <2>3 DEF CommandKept, SeenPast, ValidKept, TaskKept
  <2>6. HandledKept(c)'
    BY <1>1, <1>2, <2>3, <2>4 DEF CommandKept, HandledKept
  <2>7. CommandKept(c)'
    BY <1>1, <1>2, <2>5, <2>6, NotInstalling
  <2>8. Alone(c)
    BY <1>2, <2>3 DEF Alone, OthersWork
  <2> QED BY <1>1, <1>2, <2>3, <2>7, <2>8, OneMoves
<1>3. CASE /\ work' = [work EXCEPT ![c].group = g, ![c].expected = {Fingerprint(c, g)},
                                   ![c].succeeded = FALSE]
           /\ stamps' = WithoutStamp(g) /\ Goto(c, "install")
           /\ child' = [child EXCEPT ![c] = "starting"]
  <2> DEFINE s == Fingerprint(c, g)
  <2>1. /\ s \in Stamp /\ s.group = g /\ s.inputs[g] = inputs[g]
    BY <1>1, PrintFields DEF Fingerprint, SetupInv, SetupTyped, PoolTyped
  <2>2. work' = [work EXCEPT ![c] = [@ EXCEPT !.group = g, !.expected = {s}, !.succeeded = FALSE]]
    BY <1>1, <1>3 DEF WorkTyped
  <2> HIDE DEF s
  <2>3. /\ WorkTyped' /\ OthersWork(c) /\ work'[c].left = work[c].left /\ work'[c].group = g
        /\ work'[c].expected = {s} /\ ~work'[c].succeeded /\ work'[c].seen = work[c].seen
    BY <1>1, <2>1, <2>2, WorkInstalls
  <2>4. pc'[c] = "install" /\ child'[c] = "starting" /\ Alone(c)
    BY <1>1, <1>3, <2>3 DEF Goto, Alone, OthersWork, PoolTyped
  <2>5. stamps' \subseteq stamps /\ \A t \in stamps' : t.group # g
    BY <1>3 DEF WithoutStamp
  <2>6. StampsSound'
    BY <1>1, <2>5 DEF SetupInv, StampsSound, StampsPast, EpochKept, StampsKept, Vouches, Ready
  <2>7. SetupTyped' /\ ArtifactTyped'
    BY <1>1, <2>5 DEF SetupInv, SetupTyped, ArtifactTyped
  <2>8. GroupFree(c)'
    BY <2>3, <2>5 DEF GroupFree
  <2>9. GroupWaits(c)'
    <3>1. inputs[g] <= inputs[g]
      BY DEF SetupInv, SetupTyped, Versions
    <3> QED BY <1>1, <2>1, <2>3, <3>1 DEF GroupWaits
  <2>10. SeenPast(c)' /\ ReadFits(c)' /\ SuccessKept(c)' /\ ValidKept(c)' /\ TaskKept(c)'
    BY <1>1, <2>3, <2>4 DEF CommandKept, SeenPast, ReadFits, HasRead, SuccessKept, ValidKept, TaskKept
  <2>11. HandledKept(c)'
    BY <1>1, <2>3, <2>4 DEF CommandKept, HandledKept
  <2>12. CommandKept(c)'
    BY <2>8, <2>9, <2>10, <2>11 DEF CommandKept
  <2> QED BY <1>1, <2>3, <2>4, <2>6, <2>7, <2>12, HolderMoves
<1> QED BY <1>2, <1>3 DEF Repair

\* An installer works on a group that has no stamp.
LEMMA StampsElsewhere ==
  ASSUME SetupInv, NEW g \in Group, \A s \in stamps : s.group # g,
         UNCHANGED <<epoch, parts, gate, inputs, stamps>>,
         \A d \in Group : d # g => artifact'[d] = artifact[d]
  PROVE  StampsSound'
<1>1. StampsPast' /\ EpochKept'
  BY DEF SetupInv, StampsSound, StampsPast, EpochKept
<1>2. ASSUME NEW s \in stamps PROVE Vouches(s)'
  <2>1. s.group \in Group
    BY <1>2, StampFields DEF SetupInv, SetupTyped
  <2>2. artifact'[s.group] = artifact[s.group]
    BY <1>2, <2>1
  <2>3. Vouches(s)
    BY <1>2 DEF SetupInv, StampsSound, StampsKept
  <2> QED BY <2>2, <2>3 DEF Vouches, Ready
<1> QED BY <1>1, <1>2 DEF StampsSound, StampsKept

\* The installer of a group that its command waits for reads what is there.
LEMMA InstallStartsKeeps ==
  ASSUME SetupInv, PoolInv, NEW c \in Command, InstallStarts(c) PROVE SetupInv'
<1> DEFINE g == work[c].group
           from == With(g, inputs[g], [d \in Needs[g] |-> artifact[d].from[d]])
<1>1. PICK state \in {"absent", "partial"} :
        artifact' = [artifact EXCEPT ![g] = [state |-> state, from |-> from]]
  BY DEF InstallStarts
<1>2. /\ UNCHANGED <<kind, files, epoch, parts, gate, pc, inputs, stamps, work>>
      /\ child[c] = "starting" /\ child' = [child EXCEPT ![c] = "installing"]
      /\ PoolTyped /\ LockKept /\ Exclusive(c) /\ pc[c] \in {"install", "idle"}
      /\ CommandKept(c)
  BY DEF InstallStarts, PoolInv, ChildPlace, Exclusive, SetupInv
<1>3. g \in Group /\ \A s \in stamps : s.group # g
  BY <1>2 DEF CommandKept, GroupFree, Installing
<1>4. Needs[g] \subseteq Group /\ g \notin Needs[g]
  BY <1>3, SetupAssumption
<1>5. \A d \in Group : artifact[d].from[d] \in 0 .. MaxEdits
  BY DEF SetupInv, ArtifactTyped, Own
<1>6. from \in [Own(g) -> 0 .. MaxEdits]
  BY <1>3, <1>4, <1>5 DEF With, Own, SetupInv, SetupTyped, Versions
<1>7. from[g] = inputs[g] /\ \A d \in Needs[g] : from[d] = artifact[d].from[d]
  BY <1>4 DEF With
<1> HIDE DEF from
<1>8. [state |-> state, from |-> from] \in Artifacts
  BY <1>1, <1>3, <1>6 DEF Artifacts, States
<1>9. ArtifactTyped'
  BY <1>1, <1>3, <1>6, <1>8 DEF SetupInv, ArtifactTyped
<1>10. artifact'[g].from = from /\ \A d \in Group : d # g => artifact'[d] = artifact[d]
  BY <1>1, <1>3 DEF SetupInv, ArtifactTyped
<1> HIDE DEF g
<1>11. StampsSound'
  BY <1>2, <1>3, <1>10, StampsElsewhere
<1>12. SetupTyped' /\ WorkTyped'
  BY <1>2 DEF SetupInv, SetupTyped, WorkTyped
<1>13. child'[c] = "installing" /\ Alone(c)
  BY <1>2 DEF Alone, PoolTyped
<1>14. SeenPast(c)' /\ GroupFree(c)' /\ GroupWaits(c)'
  BY <1>2, <1>13 DEF CommandKept, SeenPast, GroupFree, Installing, GroupWaits
<1>15. ReadFits(c)'
  <2> SUFFICES ASSUME pc[c] = "install"
               PROVE  /\ artifact'[g].from[g] <= inputs[g]
                      /\ \A s \in work[c].expected : s.inputs[g] <= artifact'[g].from[g]
                      /\ \A d \in Needs[g] : work[c].seen[d] = inputs[d] =>
                           artifact'[g].from[d] = inputs[d]
    BY <1>2 DEF ReadFits, HasRead, g
  <2>1. inputs[g] <= inputs[g]
    BY <1>3 DEF SetupInv, SetupTyped, Versions
  <2>2. \A s \in work[c].expected : s.inputs[g] <= inputs[g]
    BY <1>2 DEF CommandKept, GroupWaits, g
  <2>3. \A d \in Needs[g] : work[c].seen[d] = inputs[d] => artifact[d].from[d] = inputs[d]
    <3>1. \A d \in Needs[g] : d \notin work[c].left
      BY <1>2 DEF CommandKept, GroupWaits, g
    <3> QED BY <1>2, <1>4, <3>1 DEF CommandKept, HandledKept
  <2> QED BY <1>7, <1>10, <2>1, <2>2, <2>3
<1>16. SuccessKept(c)'
  BY <1>2 DEF CommandKept, GroupWaits, SuccessKept
<1>17. HandledKept(c)'
  <2> SUFFICES ASSUME pc[c] = "install", NEW d \in Group, d \notin work[c].left
               PROVE  /\ parts = Part /\ artifact'[d].state = "made"
                      /\ work[c].seen[d] = inputs[d] => artifact'[d].from[d] = inputs[d]
    BY <1>2 DEF HandledKept
  <2>1. d # g
    BY <1>2 DEF CommandKept, GroupWaits, g
  <2> QED BY <1>2, <1>10, <2>1 DEF CommandKept, HandledKept
<1>18. ValidKept(c)' /\ TaskKept(c)'
  BY <1>2, <1>13 DEF ValidKept, TaskKept
<1>19. CommandKept(c)'
  BY <1>14, <1>15, <1>16, <1>17, <1>18 DEF CommandKept
<1> QED BY <1>2, <1>9, <1>11, <1>12, <1>13, <1>19, HolderMoves

\* It succeeds.
LEMMA InstallEndsKeeps ==
  ASSUME SetupInv, PoolInv, NEW c \in Command, InstallEnds(c) PROVE SetupInv'
<1> DEFINE g == work[c].group
<1>1. PICK state \in {"absent", "made"} : artifact' = [artifact EXCEPT ![g].state = state]
  BY DEF InstallEnds
<1>2. /\ UNCHANGED <<kind, files, epoch, parts, gate, pc, inputs, stamps>> /\ parts = Part
      /\ child[c] = "installing" /\ child' = [child EXCEPT ![c] = "none"]
      /\ PoolTyped /\ LockKept /\ Exclusive(c) /\ pc[c] \in {"install", "idle"}
      /\ CommandKept(c) /\ WorkTyped
  BY DEF InstallEnds, PoolInv, ChildPlace, Exclusive, SetupInv
<1>3. g \in Group /\ \A s \in stamps : s.group # g
  BY <1>2 DEF CommandKept, GroupFree, Installing
<1>4. ArtifactTyped /\ artifact[g] \in Artifacts
  BY <1>3 DEF SetupInv, ArtifactTyped
<1>5. DEFINE new == [artifact[g] EXCEPT !.state = state]
<1>6. new \in Artifacts /\ new.from = artifact[g].from /\ new.state = state
  BY <1>4 DEF Artifacts, States
<1>7. artifact' = [artifact EXCEPT ![g] = new]
  BY <1>1
<1> HIDE DEF new
<1>8. ArtifactTyped'
  BY <1>3, <1>4, <1>6, <1>7 DEF ArtifactTyped
<1>9. /\ artifact'[g].from = artifact[g].from /\ artifact'[g].state # "partial"
      /\ \A d \in Group : d # g => artifact'[d] = artifact[d]
  BY <1>1, <1>3, <1>4, <1>6, <1>7 DEF ArtifactTyped
<1> HIDE DEF g
<1>10. StampsSound'
  BY <1>2, <1>3, <1>9, StampsElsewhere
<1>11. SetupTyped'
  BY <1>2 DEF SetupInv, SetupTyped
<1>12. child'[c] = "none"
  BY <1>2 DEF PoolTyped
<1>13. CASE pc[c] = "install"
  <2>1. work' = [work EXCEPT ![c] = [@ EXCEPT !.succeeded = TRUE]]
    BY <1>13 DEF InstallEnds
  <2>2. /\ WorkTyped' /\ OthersWork(c) /\ work'[c].left = work[c].left
        /\ work'[c].group = g /\ work'[c].expected = work[c].expected
        /\ work'[c].seen = work[c].seen
    BY <1>2, <2>1, WorkSucceeds DEF g
  <2>3. Alone(c)
    BY <1>2, <2>2 DEF Alone, OthersWork, PoolTyped
  <2>4. SeenPast(c)' /\ GroupFree(c)' /\ GroupWaits(c)'
    BY <1>2, <1>12, <1>13, <2>2
       DEF CommandKept, SeenPast, GroupFree, Installing, GroupWaits, g
  <2>5. ReadFits(c)'
    BY <1>2, <1>9, <1>13, <2>2 DEF CommandKept, ReadFits, HasRead, g
  <2>6. SuccessKept(c)'
    BY <1>2, <1>9, <2>2 DEF SuccessKept
  <2>7. HandledKept(c)'
    <3> SUFFICES ASSUME NEW d \in Group, d \notin work[c].left
                 PROVE  /\ parts = Part /\ artifact'[d].state = "made"
                        /\ work[c].seen[d] = inputs[d] => artifact'[d].from[d] = inputs[d]
      BY <1>2, <2>2 DEF HandledKept
    <3>1. d # g
      BY <1>2, <1>13 DEF CommandKept, GroupWaits, g
    <3> QED BY <1>2, <1>9, <1>13, <3>1 DEF CommandKept, HandledKept
  <2>8. ValidKept(c)' /\ TaskKept(c)'
    BY <1>2, <1>12, <1>13 DEF ValidKept, TaskKept
  <2>9. CommandKept(c)'
    BY <2>4, <2>5, <2>6, <2>7, <2>8 DEF CommandKept
  <2> QED BY <1>2, <1>8, <1>10, <1>11, <2>2, <2>3, <2>9, HolderMoves
<1>14. CASE pc[c] = "idle"
  <2>1. work' = [work EXCEPT ![c] = NoWork]
    BY <1>14 DEF InstallEnds
  <2>2. WorkTyped' /\ OthersWork(c) /\ work'[c] = NoWork
    BY <1>2, <2>1, WorkResets
  <2>3. Alone(c) /\ pc'[c] = "idle"
    BY <1>2, <1>14, <2>2 DEF Alone, OthersWork, PoolTyped
  <2>4. SeenPast(c)'
    BY <1>2, <2>2, <2>3, NothingSeen
  <2>5. CommandKept(c)'
    BY <1>12, <2>3, <2>4, Unlocked
  <2> QED BY <1>2, <1>8, <1>10, <1>11, <2>2, <2>3, <2>5, HolderMoves
<1> QED BY <1>2, <1>13, <1>14

\* It fails or is killed.
LEMMA InstallDiesKeeps ==
  ASSUME SetupInv, PoolInv, NEW c \in Command, InstallDies(c) PROVE SetupInv'
<1>1. /\ UNCHANGED <<epoch, parts, gate, pc, inputs, artifact, stamps>>
      /\ child[c] \in {"starting", "installing"} /\ child' = [child EXCEPT ![c] = "none"]
      /\ PoolTyped /\ pc[c] \in {"install", "idle"} /\ CommandKept(c) /\ WorkTyped
  BY DEF InstallDies, PoolInv, ChildPlace, SetupInv
<1>2. child'[c] = "none"
  BY <1>1 DEF PoolTyped
<1>3. CASE pc[c] = "install"
  <2>1. UNCHANGED work
    BY <1>3 DEF InstallDies
  <2>2. WorkTyped' /\ work'[c] = work[c] /\ Alone(c)
    BY <1>1, <2>1 DEF WorkTyped, Alone, PoolTyped
  <2>3. SeenPast(c)' /\ GroupFree(c)' /\ GroupWaits(c)'
    BY <1>1, <1>2, <1>3, <2>2
       DEF CommandKept, SeenPast, GroupFree, Installing, GroupWaits
  <2>4. ~work'[c].succeeded
    BY <1>1, <1>3, <2>2 DEF CommandKept, GroupWaits
  <2>5. ReadFits(c)' /\ SuccessKept(c)' /\ ValidKept(c)' /\ TaskKept(c)'
    BY <1>1, <1>2, <1>3, <2>4 DEF ReadFits, HasRead, SuccessKept, ValidKept, TaskKept
  <2>6. HandledKept(c)'
    BY <1>1, <2>2 DEF CommandKept, HandledKept
  <2>7. CommandKept(c)'
    BY <2>3, <2>5, <2>6 DEF CommandKept
  <2> QED BY <1>1, <2>2, <2>7, OneMoves
<1>4. CASE pc[c] = "idle"
  <2>1. work' = [work EXCEPT ![c] = NoWork]
    BY <1>4 DEF InstallDies
  <2>2. WorkTyped' /\ OthersWork(c) /\ work'[c] = NoWork
    BY <1>1, <2>1, WorkResets
  <2>3. Alone(c) /\ pc'[c] = "idle"
    BY <1>1, <1>4, <2>2 DEF Alone, OthersWork, PoolTyped
  <2>4. SeenPast(c)'
    BY <1>1, <2>2, <2>3, NothingSeen
  <2>5. CommandKept(c)'
    BY <1>2, <2>3, <2>4, Unlocked
  <2> QED BY <1>1, <2>2, <2>3, <2>5, OneMoves
<1> QED BY <1>1, <1>3, <1>4

\* Its success is recorded in a stamp, if nothing has changed since.
LEMMA RecordKeeps ==
  ASSUME SetupInv, PoolInv, NEW c \in Command, Record(c) PROVE SetupInv'
<1> DEFINE g == work[c].group
           s == Fingerprint(c, g)
<1>1. /\ UNCHANGED <<kind, files, epoch, parts, gate, child, inputs, artifact>>
      /\ pc[c] = "install" /\ child[c] = "none" /\ PoolTyped /\ PoolKept /\ LockKept
      /\ Exclusive(c) /\ CommandKept(c) /\ WorkTyped /\ work[c].seen \in Versions
  BY DEF Record, PoolInv, Exclusive, SetupInv, WorkTyped, Works
<1>2. CASE Fail(c) /\ UNCHANGED stamps
  BY <1>1, <1>2, GivesUp
<1>3. CASE /\ work[c].succeeded /\ Ready(g) /\ work[c].expected = {s}
           /\ stamps' = WithStamp(c) /\ Goto(c, "repair")
           /\ work' = [work EXCEPT ![c].left = @ \ {g}, ![c].group = NoGroup,
                                   ![c].expected = {}, ![c].succeeded = FALSE]
  <2>1. g \in Group /\ \A t \in stamps : t.group # g
    BY <1>1 DEF CommandKept, GroupFree, Installing
  <2>2. Needs[g] \subseteq Group /\ g \notin Needs[g]
    BY <2>1, SetupAssumption
  <2>3. /\ s \in Stamp /\ s.group = g /\ s.epoch = epoch /\ s.inputs[g] = inputs[g]
        /\ \A d \in Needs[g] : s.inputs[d] = work[c].seen[d]
    BY <1>1, <2>1, PrintFields DEF Fingerprint, SetupInv, SetupTyped, PoolTyped
  <2>4. work[c].left \ {g} \in SUBSET Group
    BY <1>1 DEF WorkTyped, Works
  <2>5. work' = [work EXCEPT ![c] = [@ EXCEPT !.left = work[c].left \ {g}, !.group = NoGroup,
                                              !.expected = {}, !.succeeded = FALSE]]
    BY <1>1, <1>3 DEF WorkTyped
  <2>6. /\ WorkTyped' /\ OthersWork(c) /\ work'[c].left = work[c].left \ {g}
        /\ work'[c].seen = work[c].seen
    BY <1>1, <2>4, <2>5, WorkRecords
  <2>7. stamps' = stamps \cup {s}
    BY <1>3 DEF WithStamp
  <2> HIDE DEF s
  <2>8. pc'[c] = "repair" /\ child'[c] = "none" /\ Alone(c)
    BY <1>1, <1>3, <2>6 DEF Goto, Alone, OthersWork, PoolTyped
  <2>9. parts = Part /\ artifact[g].state = "made"
    <3>1. artifact[g].state \in States
      BY <2>1 DEF SetupInv, ArtifactTyped, Artifacts
    <3> QED BY <1>1, <1>3, <3>1 DEF CommandKept, SuccessKept, Ready, States
  <2>10. artifact[g].from[g] = inputs[g]
    <3>1. artifact[g].from[g] <= inputs[g] /\ inputs[g] <= artifact[g].from[g]
      BY <1>1, <1>3, <2>3 DEF CommandKept, ReadFits, HasRead
    <3>2. artifact[g].from[g] \in 0 .. MaxEdits /\ inputs[g] \in 0 .. MaxEdits
      BY <2>1 DEF SetupInv, ArtifactTyped, Own, SetupTyped, Versions
    <3> HIDE DEF g
    <3> QED BY <3>1, <3>2, SetupAssumption
  <2>11. \A d \in Needs[g] : work[c].seen[d] = inputs[d] => artifact[g].from[d] = inputs[d]
    BY <1>1, <1>3 DEF CommandKept, ReadFits, HasRead
  <2>12. gate.at # "remove"
    BY <1>1 DEF PoolKept, Leased
  <2>13. \A d \in Group : work[c].seen[d] <= inputs[d]
    BY <1>1 DEF CommandKept, SeenPast
  <2> HIDE DEF g
  <2>14. StampsPast'
    <3>1. s.epoch <= epoch /\ \A d \in Own(g) : s.inputs[d] <= inputs[d]
      BY <1>1, <2>1, <2>2, <2>3, <2>13 DEF Own, PoolTyped, SetupInv, SetupTyped, Versions
    <3> QED BY <1>1, <2>1, <2>3, <2>7, <3>1 DEF StampsPast, SetupInv, StampsSound
  <2>15. EpochKept'
    BY <1>1, <2>7, <2>9, <2>12 DEF EpochKept, SetupInv, StampsSound
  <2>16. StampsKept'
    <3>1. PICK t : t = s
      OBVIOUS
    <3>2. t.group = g /\ t.inputs[g] = inputs[g] /\ \A d \in Needs[g] : t.inputs[d] = work[c].seen[d]
      BY <2>3, <3>1
    <3>3. Vouches(t)'
      BY <1>1, <2>9, <2>10, <2>11, <3>2 DEF Vouches
    <3>4. ASSUME NEW u \in stamps PROVE Vouches(u)'
      <4>1. Vouches(u)
        BY DEF SetupInv, StampsSound, StampsKept
      <4> QED BY <1>1, <4>1 DEF Vouches, Ready
    <3> QED BY <2>7, <3>1, <3>3, <3>4 DEF StampsKept
  <2>17. SetupTyped' /\ ArtifactTyped'
    BY <1>1, <2>3, <2>7 DEF SetupInv, SetupTyped, ArtifactTyped
  <2>18. SeenPast(c)' /\ ValidKept(c)' /\ TaskKept(c)'
    BY <1>1, <2>6, <2>8 DEF CommandKept, SeenPast, ValidKept, TaskKept
  <2>19. HandledKept(c)'
    BY <1>1, <2>6, <2>9, <2>10 DEF CommandKept, HandledKept
  <2>20. CommandKept(c)'
    BY <2>8, <2>18, <2>19, NotInstalling
  <2>21. StampsSound'
    BY <2>14, <2>15, <2>16 DEF StampsSound
  <2> QED BY <1>1, <2>6, <2>8, <2>17, <2>20, <2>21, HolderMoves
<1> QED BY <1>2, <1>3 DEF Record

\* The command is killed; its child lives on.
LEMMA KillKeeps ==
  ASSUME SetupInv, PoolInv, NEW c \in Command, Kill(c) PROVE SetupInv'
<1>1. /\ UNCHANGED <<kind, epoch, parts, child, inputs, artifact, stamps>>
      /\ (gate' = gate \/ gate' = Open) /\ Goto(c, "idle")
      /\ PoolTyped /\ ChildPlace /\ CommandKept(c) /\ WorkTyped
  BY DEF Kill, Stop, PoolInv, SetupInv
<1>2. gate' = gate \/ gate'.at # "remove"
  BY <1>1, GateForms
<1>3. pc'[c] = "idle" /\ child'[c] = child[c]
  BY <1>1 DEF Goto, PoolTyped
<1>4. CASE child[c] = "none"
  <2>1. WorkTyped' /\ OthersWork(c) /\ work'[c] = NoWork
    BY <1>1, <1>4, WorkResets DEF Kill
  <2>2. Alone(c)
    BY <1>1, <2>1 DEF Alone, OthersWork, Goto, PoolTyped
  <2>3. SeenPast(c)'
    BY <1>1, <1>3, <2>1, NothingSeen
  <2>4. CommandKept(c)'
    BY <1>3, <1>4, <2>3, Unlocked
  <2> QED BY <1>1, <1>2, <2>1, <2>2, <2>4, OneMoves
<1>5. CASE child[c] # "none"
  <2>1. UNCHANGED work
    BY <1>5 DEF Kill
  <2>2. WorkTyped' /\ work'[c] = work[c] /\ Alone(c)
    BY <1>1, <2>1 DEF WorkTyped, Alone, Goto, PoolTyped
  <2>3. SeenPast(c)' /\ GroupFree(c)' /\ GroupWaits(c)'
    BY <1>1, <1>3, <2>2 DEF CommandKept, SeenPast, GroupFree, Installing, GroupWaits
  <2>4. ReadFits(c)' /\ SuccessKept(c)' /\ HandledKept(c)' /\ ValidKept(c)'
    BY <1>3 DEF ReadFits, HasRead, SuccessKept, HandledKept, ValidKept
  <2>5. TaskKept(c)'
    BY <1>1, <1>3 DEF CommandKept, TaskKept
  <2>6. CommandKept(c)'
    BY <2>3, <2>4, <2>5 DEF CommandKept
  <2> QED BY <1>1, <1>2, <2>2, <2>6, OneMoves
<1> QED BY <1>4, <1>5

\* What was as of now may be so no longer.
LEMMA EditInputsKeeps ==
  ASSUME SetupInv, PoolInv, NEW g \in Group, EditInputs(g) PROVE SetupInv'
<1>1. /\ UNCHANGED <<epoch, parts, gate, pc, child, artifact, stamps, work>>
      /\ inputs[g] < MaxEdits /\ inputs' = [inputs EXCEPT ![g] = @ + 1]
  BY DEF EditInputs, poolVars
<1>2. inputs \in Versions /\ MaxEdits \in Nat
  BY SetupAssumption DEF SetupInv, SetupTyped
<1>3. inputs' \in Versions
  <2>1. inputs[g] + 1 \in 0 .. MaxEdits
    BY <1>1, <1>2 DEF Versions
  <2> QED BY <1>1, <1>2, <2>1 DEF Versions
<1>4. \A d \in Group : /\ inputs[d] \in 0 .. MaxEdits /\ inputs'[d] \in 0 .. MaxEdits
                       /\ inputs[d] <= inputs'[d]
  BY <1>1, <1>2, <1>3 DEF Versions
<1>5. ASSUME NEW d \in Group, NEW v \in 0 .. MaxEdits, v <= inputs[d]
      PROVE  v <= inputs'[d] /\ (v = inputs'[d] => v = inputs[d] /\ inputs'[d] = inputs[d])
  BY <1>2, <1>4, <1>5
<1>6. SetupTyped' /\ ArtifactTyped' /\ WorkTyped'
  BY <1>1, <1>3 DEF SetupInv, SetupTyped, ArtifactTyped, WorkTyped
<1>7. \A d \in Group : Needs[d] \subseteq Group
  BY SetupAssumption
<1>8. ASSUME NEW s \in stamps
      PROVE  /\ \A d \in Own(s.group) : s.inputs[d] <= inputs'[d]
             /\ \A d \in Own(s.group) : s.inputs[d] = inputs'[d] => s.inputs[d] = inputs[d]
  <2>1. s.group \in Group /\ s.inputs \in [Own(s.group) -> 0 .. MaxEdits]
    BY <1>8, StampFields DEF SetupInv, SetupTyped
  <2>2. \A d \in Own(s.group) : s.inputs[d] <= inputs[d]
    BY <1>8 DEF SetupInv, StampsSound, StampsPast
  <2>3. Own(s.group) \subseteq Group
    BY <1>7, <2>1 DEF Own
  <2> QED BY <1>5, <2>1, <2>2, <2>3
<1>9. StampsPast' /\ EpochKept'
  BY <1>1, <1>8 DEF SetupInv, StampsSound, StampsPast, EpochKept
<1>10. StampsKept'
  <2>1. ASSUME NEW s \in stamps PROVE Vouches(s)'
    <3>1. Vouches(s)
      BY <2>1 DEF SetupInv, StampsSound, StampsKept
    <3>2. (\A d \in Needs[s.group] : s.inputs[d] = inputs'[d]) =>
            \A d \in Needs[s.group] : s.inputs[d] = inputs[d]
      BY <1>8 DEF Own
    <3> QED BY <1>1, <3>1, <3>2 DEF Vouches, Ready
  <2> QED BY <1>1, <2>1 DEF StampsKept
<1>11. ASSUME NEW c \in Command PROVE CommandKept(c)'
  <2>1. CommandKept(c) /\ work[c] \in Works /\ work'[c] = work[c]
    BY <1>1 DEF SetupInv, WorkTyped
  <2>2. \A d \in Group :
          /\ work[c].seen[d] <= inputs'[d]
          /\ work[c].seen[d] = inputs'[d] =>
               work[c].seen[d] = inputs[d] /\ inputs'[d] = inputs[d]
    <3>1. \A d \in Group : work[c].seen[d] \in 0 .. MaxEdits /\ work[c].seen[d] <= inputs[d]
      BY <2>1 DEF CommandKept, SeenPast, Works, Versions
    <3> QED BY <1>5, <3>1
  <2>3. SeenPast(c)' /\ GroupFree(c)'
    BY <1>1, <2>1, <2>2 DEF CommandKept, SeenPast, GroupFree, Installing
  <2>4. GroupWaits(c)'
    <3> SUFFICES ASSUME pc[c] = "install", NEW s \in work[c].expected
                 PROVE  s.inputs[work[c].group] <= inputs'[work[c].group]
      BY <1>1, <2>1 DEF CommandKept, GroupWaits
    <3>1. work[c].group \in Group
      BY <2>1 DEF CommandKept, GroupFree, Installing
    <3>2. s \in Stamp /\ s.group = work[c].group /\ s.inputs[work[c].group] <= inputs[work[c].group]
      BY <2>1 DEF CommandKept, GroupWaits, Works
    <3>3. s.inputs[work[c].group] \in 0 .. MaxEdits
      BY <3>2, StampFields DEF Own
    <3> QED BY <1>5, <3>1, <3>2, <3>3
  <2>5. ReadFits(c)'
    <3> DEFINE h == work[c].group
    <3> SUFFICES ASSUME HasRead(c)
                 PROVE  /\ artifact[h].from[h] <= inputs'[h]
                        /\ \A s \in work[c].expected : s.inputs[h] <= artifact[h].from[h]
                        /\ \A d \in Needs[h] : work[c].seen[d] = inputs'[d] =>
                             artifact[h].from[d] = inputs'[d]
      BY <1>1 DEF ReadFits, HasRead
    <3>1. h \in Group
      BY <2>1 DEF CommandKept, GroupFree, Installing, HasRead
    <3>2. /\ artifact[h].from[h] <= inputs[h]
          /\ \A s \in work[c].expected : s.inputs[h] <= artifact[h].from[h]
          /\ \A d \in Needs[h] : work[c].seen[d] = inputs[d] => artifact[h].from[d] = inputs[d]
      BY <2>1 DEF CommandKept, ReadFits
    <3>3. artifact[h].from[h] \in 0 .. MaxEdits
      BY <3>1 DEF SetupInv, ArtifactTyped, Own
    <3> HIDE DEF h
    <3>4. artifact[h].from[h] <= inputs'[h]
      BY <1>5, <3>1, <3>2, <3>3
    <3> QED BY <1>7, <2>2, <3>1, <3>2, <3>4
  <2>6. SuccessKept(c)' /\ ValidKept(c)' /\ TaskKept(c)'
    BY <1>1, <2>1 DEF CommandKept, SuccessKept, ValidKept, TaskKept
  <2>7. HandledKept(c)'
    BY <1>1, <2>1, <2>2 DEF CommandKept, HandledKept
  <2> QED BY <2>3, <2>4, <2>5, <2>6, <2>7 DEF CommandKept
<1>12. StampsSound'
  BY <1>9, <1>10 DEF StampsSound
<1> QED BY <1>6, <1>11, <1>12 DEF SetupInv

\* A group's artifacts go while nobody relies on them.
LEMMA CleanKeeps ==
  ASSUME SetupInv, PoolInv, NEW g \in Group, Clean(g) PROVE SetupInv'
<1>1. /\ UNCHANGED <<epoch, parts, gate, pc, child, inputs, stamps, work>>
      /\ artifact' = [artifact EXCEPT ![g].state = "absent"]
      /\ \A c \in Command : ~Exclusive(c) /\ ~Shared(c)
  BY DEF Clean, poolVars
<1>2. ArtifactTyped /\ artifact[g] \in Artifacts
  BY DEF SetupInv, ArtifactTyped
<1> DEFINE new == [artifact[g] EXCEPT !.state = "absent"]
<1>3. new \in Artifacts /\ new.from = artifact[g].from /\ new.state = "absent"
  BY <1>2 DEF Artifacts, States
<1>4. artifact' = [artifact EXCEPT ![g] = new]
  BY <1>1
<1> HIDE DEF new
<1>5. ArtifactTyped'
  BY <1>2, <1>3, <1>4 DEF ArtifactTyped
<1>6. artifact'[g].state = "absent" /\ \A d \in Group : d # g => artifact'[d] = artifact[d]
  BY <1>2, <1>3, <1>4 DEF ArtifactTyped
<1>7. SetupTyped' /\ WorkTyped'
  BY <1>1 DEF SetupInv, SetupTyped, WorkTyped
<1>8. StampsPast' /\ EpochKept'
  BY <1>1 DEF SetupInv, StampsSound, StampsPast, EpochKept
<1>9. ASSUME NEW s \in stamps PROVE Vouches(s)'
  <2>1. Vouches(s) /\ s.group \in Group
    BY <1>9, StampFields DEF SetupInv, StampsSound, StampsKept, SetupTyped
  <2>2. CASE s.group = g
    BY <1>6, <2>2 DEF Vouches, Ready
  <2>3. CASE s.group # g
    <3>1. artifact'[s.group] = artifact[s.group]
      BY <1>6, <2>1, <2>3
    <3> QED BY <1>1, <2>1, <3>1 DEF Vouches, Ready
  <2> QED BY <2>2, <2>3
<1>10. ASSUME NEW c \in Command PROVE CommandKept(c)'
  <2>1. SeenPast(c)'
    BY <1>1 DEF SetupInv, CommandKept, SeenPast
  <2>2. pc'[c] \notin {"validate", "repair", "install"}
    BY <1>1 DEF Exclusive, Shared
  <2>3. child'[c] \notin {"starting", "installing", "task"}
    BY <1>1 DEF Exclusive, Shared
  <2> QED BY <2>1, <2>2, <2>3, Unlocked
<1>11. StampsSound'
  BY <1>1, <1>8, <1>9 DEF StampsSound, StampsKept
<1> QED BY <1>5, <1>7, <1>10, <1>11 DEF SetupInv

\* What the shared storage does to a setup: what is leased only grows.
LEMMA PoolKeeps ==
  ASSUME SetupInv, PoolInv, PoolTyped', NEW c \in Command, PoolStep(c), UNCHANGED setupVars
  PROVE  SetupInv'
<1>1. PoolMoves
  BY PoolMoving DEF PoolInv
<1>2. UNCHANGED <<inputs, artifact, stamps, work>> /\ epoch \in 0 .. MaxEpoch /\ epoch \in Nat
  BY PoolAssumption DEF setupVars, PoolInv, PoolTyped
<1>3. gate.at # "remove" /\ parts = Part => parts' = Part
  BY <1>1 DEF PoolMoves, PoolTyped
<1>4. SetupTyped' /\ ArtifactTyped' /\ WorkTyped'
  BY <1>2 DEF SetupInv, SetupTyped, ArtifactTyped, WorkTyped
<1>5. ASSUME NEW s \in stamps PROVE s.epoch \in 0 .. MaxEpoch /\ s.epoch <= epoch
  BY <1>5, StampFields DEF SetupInv, SetupTyped, StampsSound, StampsPast
<1>6. epoch' = epoch + 1 => \A s \in stamps : s.epoch # epoch' /\ s.epoch <= epoch'
  BY <1>2, <1>5
<1>7. StampsPast'
  BY <1>1, <1>2, <1>6 DEF PoolMoves, SetupInv, StampsSound, StampsPast
<1>8. EpochKept'
  <2>1. ASSUME NEW s \in stamps, s.epoch = epoch' PROVE parts' = Part
    <3>1. epoch' = epoch
      BY <1>1, <1>6, <2>1 DEF PoolMoves
    <3> QED BY <1>3, <2>1, <3>1 DEF SetupInv, StampsSound, EpochKept
  <2>2. ASSUME gate'.at = "remove", NEW s \in stamps PROVE s.epoch # epoch'
    <3>1. epoch' = epoch + 1 \/ (gate.at = "remove" /\ epoch' = epoch)
      BY <1>1, <2>2 DEF PoolMoves
    <3> QED BY <1>6, <2>2, <3>1 DEF SetupInv, StampsSound, EpochKept
  <2> QED BY <1>2, <2>1, <2>2 DEF EpochKept
<1>9. StampsKept'
  BY <1>2 DEF SetupInv, StampsSound, StampsKept, Vouches, Ready
<1>10. ASSUME NEW d \in Command PROVE CommandKept(d)'
  <2>1. CommandKept(d) /\ work'[d] = work[d] /\ ChildPlace /\ PoolKept
    BY <1>2 DEF SetupInv, PoolInv
  <2>2. \/ pc'[d] = pc[d]
        \/ pc[d] \in PoolSteps /\ pc'[d] \in PoolSteps
    BY <1>1 DEF PoolMoves
  <2>3. \/ child'[d] = child[d]
        \/ /\ child[d] \in {"none", "visit"} /\ child'[d] \in {"none", "visit"}
           /\ pc[d] # "install"
    BY <1>1 DEF PoolMoves
  <2>4. SeenPast(d)' /\ GroupFree(d)' /\ GroupWaits(d)'
    BY <1>2, <2>1, <2>2, <2>3
       DEF CommandKept, SeenPast, GroupFree, Installing, GroupWaits, PoolSteps
  <2>5. pc'[d] \in {"validate", "repair", "install"} => pc[d] = pc'[d] /\ gate.at # "remove"
    BY <2>1, <2>2 DEF PoolSteps, PoolKept, Leased
  <2>6. child'[d] \in {"starting", "installing", "task"} =>
          child[d] = child'[d] /\ gate.at # "remove"
    BY <2>1, <2>3 DEF PoolKept, Leased
  <2>7. ReadFits(d)' /\ SuccessKept(d)'
    BY <1>2, <1>3, <2>1, <2>5, <2>6 DEF CommandKept, ReadFits, HasRead, SuccessKept
  <2>8. HandledKept(d)' /\ ValidKept(d)' /\ TaskKept(d)'
    BY <1>2, <1>3, <2>1, <2>5, <2>6 DEF CommandKept, HandledKept, ValidKept, TaskKept
  <2> QED BY <2>4, <2>7, <2>8 DEF CommandKept
<1>11. StampsSound'
  BY <1>7, <1>8, <1>9 DEF StampsSound
<1> QED BY <1>4, <1>10, <1>11 DEF SetupInv

----------------------------------------------------------------------------
(* The theorems.                                                           *)

\* Every step keeps the invariant of the pool and of the lock.
LEMMA PoolInvStep == PoolInv /\ [Next]_vars => PoolInv'
  BY PoolTypeStep, ChildStep, PoolStepKeeps, LockStep DEF PoolInv

\* And that of the setup.
LEMMA SetupInvStep == PoolInv /\ PoolInv' /\ SetupInv /\ [Next]_vars => SetupInv'
<1> SUFFICES ASSUME PoolInv, PoolInv', SetupInv, [Next]_vars PROVE SetupInv'
  OBVIOUS
<1>1. ASSUME NEW c \in Command, PoolStep(c), UNCHANGED setupVars PROVE SetupInv'
  BY <1>1, PoolKeeps DEF PoolInv
<1>2. ASSUME NEW c \in Command, NEW g \in Group, Inspect(c, g) \/ Repair(c, g) PROVE SetupInv'
  BY <1>2, InspectKeeps, RepairKeeps
<1>3. ASSUME NEW c \in Command,
             Specify(c) \/ Validate(c) \/ Proceed(c) \/ Unlock(c) \/ Upgrade(c) \/ Downgrade(c)
      PROVE  SetupInv'
  BY <1>3, SpecifyKeeps, ValidateKeeps, ProceedKeeps, UnlockKeeps, UpgradeKeeps, DowngradeKeeps
<1>4. ASSUME NEW c \in Command,
             InstallStarts(c) \/ InstallEnds(c) \/ InstallDies(c) \/ Record(c)
      PROVE  SetupInv'
  BY <1>4, InstallStartsKeeps, InstallEndsKeeps, InstallDiesKeeps, RecordKeeps
<1>5. ASSUME NEW c \in Command, TaskEnds(c) \/ Release(c) \/ Kill(c) PROVE SetupInv'
  BY <1>5, TaskGoes, KillKeeps
<1>6. ASSUME NEW g \in Group, EditInputs(g) \/ Clean(g) PROVE SetupInv'
  BY <1>6, EditInputsKeeps, CleanKeeps
<1>7. CASE UNCHANGED vars
  <2>1. UNCHANGED <<epoch, parts, gate, pc, child, inputs, artifact, stamps, work>>
    BY <1>7 DEF vars, poolVars, setupVars
  <2>2. StampsSound'
    BY <2>1, StampsStand DEF SetupInv
  <2>3. \A c \in Command : CommandKept(c)'
    BY <2>1, StillKept DEF SetupInv
  <2> QED BY <2>1, <2>2, <2>3 DEF SetupInv, SetupTyped, ArtifactTyped, WorkTyped
<1> QED BY <1>1, <1>2, <1>3, <1>4, <1>5, <1>6, <1>7 DEF Next

\* At first there is nothing, and nobody does anything.
LEMMA InitKeeps == Init => PoolInv /\ SetupInv
<1> SUFFICES ASSUME Init PROVE PoolInv /\ SetupInv
  OBVIOUS
<1>1. /\ kind \in Kinds /\ files = {} /\ epoch = 0 /\ parts = {} /\ gate = Open
      /\ pc = [c \in Command |-> "idle"] /\ child = [c \in Command |-> "none"]
  BY DEF Init, PoolInit
<1>2. PoolTyped
  <2>1. kind \in Kinds /\ files \in SUBSET Whole /\ parts \in SUBSET Part
    BY <1>1
  <2>2. gate \in GateStates
    BY <1>1, GateForms
  <2>3. epoch \in 0 .. MaxEpoch
    BY <1>1, PoolAssumption
  <2>4. /\ pc \in [Command -> PoolSteps \cup SetupSteps]
        /\ child \in [Command -> Children \cup {"starting", "installing", "task"}]
    BY <1>1 DEF PoolSteps, Children
  <2> QED BY <2>1, <2>2, <2>3, <2>4 DEF PoolTyped
<1>3. \A c \in Command : pc[c] = "idle" /\ child[c] = "none"
  BY <1>1
<1>4. ChildPlace /\ LockKept
  BY <1>3 DEF ChildPlace, LockKept, Exclusive, Shared
<1>5. PoolKept
  BY <1>1, <1>3, GateForms DEF PoolKept, Leased, PoolSteps
<1>6. /\ inputs = [g \in Group |-> 0] /\ stamps = {} /\ work = [c \in Command |-> NoWork]
      /\ artifact = [g \in Group |->
                       [state |-> "absent", from |-> With(g, 0, [d \in Group |-> 0])]]
  BY DEF Init
<1>7. SetupTyped /\ WorkTyped
  BY <1>6, NoWorkFields, SetupAssumption DEF SetupTyped, Versions, WorkTyped
<1>8. ASSUME NEW g \in Group PROVE With(g, 0, [d \in Group |-> 0]) \in [Own(g) -> 0 .. MaxEdits]
  BY SetupAssumption DEF With, Own
<1>9. ArtifactTyped
  <2>1. ASSUME NEW g \in Group
        PROVE  artifact[g] \in Artifacts /\ artifact[g].from \in [Own(g) -> 0 .. MaxEdits]
    <3> DEFINE from == With(g, 0, [d \in Group |-> 0])
    <3>1. artifact[g] = [state |-> "absent", from |-> from]
      BY <1>6
    <3>2. from \in [Own(g) -> 0 .. MaxEdits]
      BY <1>8
    <3> HIDE DEF from
    <3> QED BY <3>1, <3>2 DEF Artifacts, States
  <2> QED BY <1>6, <2>1 DEF ArtifactTyped
<1>10. StampsSound
  BY <1>1, <1>6, GateForms DEF StampsSound, StampsPast, EpochKept, StampsKept
<1>11. ASSUME NEW c \in Command PROVE CommandKept(c)
  <2>1. SeenPast(c)
    BY <1>3, <1>6, NoWorkFields DEF SeenPast
  <2> QED BY <1>3, <2>1 DEF CommandKept, GroupFree, Installing, GroupWaits, ReadFits, HasRead,
                            SuccessKept, HandledKept, ValidKept, TaskKept
<1> QED BY <1>2, <1>4, <1>5, <1>7, <1>9, <1>10, <1>11 DEF PoolInv, SetupInv

\* Who holds what of the shared storage and of the setup lock, in every state.
THEOREM PoolInvariant == Spec => []PoolInv
<1>1. Init => PoolInv
  BY InitKeeps
<1> QED BY <1>1, PoolInvStep, PTL DEF Spec

\* What artifacts, stamps and commands say of each other, in every state.
THEOREM SetupInvariant == Spec => []SetupInv
<1>1. Init => SetupInv
  BY InitKeeps
<1> QED BY <1>1, SetupInvStep, PoolInvariant, PTL DEF Spec

\* Every variable of a setup keeps its type, and a group has at most one stamp.
THEOREM SetupTypeCorrect == Spec => []TypeOK
<1>1. PoolInv /\ SetupInv => TypeOK
  <2> SUFFICES ASSUME PoolInv, SetupInv PROVE TypeOK
    OBVIOUS
  <2>1. /\ kind \in Kinds /\ files \subseteq Whole /\ epoch \in 0 .. MaxEpoch /\ parts \subseteq Part
        /\ gate \in [by : Command, at : {"remove", "create", "register"}, left : SUBSET Part]
                    \cup {Open}
        /\ pc \in [Command -> PoolSteps \cup SetupSteps]
        /\ child \in [Command -> Children \cup {"starting", "installing", "task"}]
    BY DEF PoolInv, PoolTyped, GateStates
  <2>2. /\ inputs \in [Group -> 0 .. MaxEdits] /\ stamps \subseteq Stamp
        /\ \A s, t \in stamps : s.group = t.group => s = t
    BY DEF SetupInv, SetupTyped, Versions, StampsSound, StampsPast
  <2>3. \A g \in Group : /\ artifact[g].state \in {"absent", "partial", "made"}
                         /\ artifact[g].from \in [Needs[g] \cup {g} -> 0 .. MaxEdits]
    BY DEF SetupInv, ArtifactTyped, Artifacts, States, Own
  <2>4. ASSUME NEW c \in Command
        PROVE  /\ work[c].seen \in Versions /\ work[c].left \cup work[c].stale \subseteq Group
               /\ work[c].group \in Group \cup {NoGroup} /\ work[c].expected \subseteq Stamp
               /\ work[c].succeeded \in BOOLEAN
    <3>1. work[c] \in Works
      BY DEF SetupInv, WorkTyped
    <3> QED BY <3>1 DEF Works
  <2> QED BY <2>1, <2>2, <2>3, <2>4 DEF TypeOK
<1> QED BY <1>1, PoolInvariant, SetupInvariant, PTL

\* What a runtime's child executes is rooted as long as it runs (runtime_run).
THEOREM RuntimeRooted == Spec => []RuntimeIsRooted
<1>1. PoolInv => RuntimeIsRooted
  BY DEF PoolInv, PoolKept, Leased, RuntimeIsRooted
<1> QED BY <1>1, PoolInvariant, PTL

\* Two installers never run at once, nor one beside a task, whoever of their
\* commands is gone (setup_use, inherited descriptors).
THEOREM InstallersAlone == Spec => []InstallersAreAlone
<1>1. PoolInv => InstallersAreAlone
  BY DEF PoolInv, LockKept, Exclusive, Shared, InstallersAreAlone
<1> QED BY <1>1, PoolInvariant, PTL

\* A stamp that matches tells the truth about artifacts and downloads, whoever
\* was killed when (setup_use).
THEOREM StampsAreTrue == Spec => []StampsVouch
<1>1. PoolInv /\ SetupInv => StampsVouch
  <2> SUFFICES ASSUME PoolInv, SetupInv, NEW g \in Group, FingerprintAt(g, inputs) \in stamps
               PROVE  /\ parts = Part
                      /\ Ready(g) => artifact[g] = [state |-> "made",
                                                    from |-> With(g, inputs[g], inputs)]
    BY DEF StampsVouch
  <2>1. inputs \in Versions /\ epoch \in 0 .. MaxEpoch
    BY DEF PoolInv, PoolTyped, SetupInv, SetupTyped
  <2>2. PICK s \in stamps : s = FingerprintAt(g, inputs)
    OBVIOUS
  <2>3. /\ s.group = g /\ s.epoch = epoch /\ s.inputs[g] = inputs[g]
        /\ \A d \in Needs[g] : s.inputs[d] = inputs[d]
    BY <2>1, <2>2, PrintFields
  <2>4. parts = Part /\ Vouches(s)
    BY <2>2, <2>3 DEF SetupInv, StampsSound, EpochKept, StampsKept
  <2>5. ASSUME Ready(g)
        PROVE  artifact[g] = [state |-> "made", from |-> With(g, inputs[g], inputs)]
    <3>1. /\ artifact[g].state = "made" /\ artifact[g].from[g] = inputs[g]
          /\ \A d \in Needs[g] : artifact[g].from[d] = inputs[d]
      BY <2>3, <2>4, <2>5 DEF Vouches
    <3>2. artifact[g] \in Artifacts /\ artifact[g].from \in [Needs[g] \cup {g} -> 0 .. MaxEdits]
      BY DEF SetupInv, ArtifactTyped, Own
    <3>3. artifact[g].from = With(g, inputs[g], inputs)
      BY <3>1, <3>2 DEF With
    <3>4. artifact[g] = [state |-> artifact[g].state, from |-> artifact[g].from]
      BY <3>2 DEF Artifacts
    <3> QED BY <3>1, <3>3, <3>4
  <2> QED BY <2>4, <2>5
<1> QED BY <1>1, PoolInvariant, SetupInvariant, PTL

\* A task runs to its end on complete artifacts and all downloads (setup_use).
THEOREM TasksSetUp == Spec => []TasksAreSetUp
<1>1. SetupInv => TasksAreSetUp
  BY DEF SetupInv, CommandKept, TaskKept, TasksAreSetUp
<1> QED BY <1>1, SetupInvariant, PTL

\* Nothing goes that anybody holds a lease on, in any step (collect, use).
THEOREM LeasedStays == Spec => LeasedStorageStays
<1> DEFINE Stays == (\E c \in Command : Leased(c) \/ child[c] # "none") =>
                      parts \subseteq parts' /\ files \subseteq files'
<1>1. PoolInv /\ [Next]_vars => [Stays]_poolVars
  <2> SUFFICES ASSUME PoolInv, Next, NEW d \in Command, Leased(d) \/ child[d] # "none"
               PROVE  parts \subseteq parts' /\ files \subseteq files'
    BY DEF vars
  <2>1. files = Whole /\ gate.at # "remove"
    BY DEF PoolInv, PoolKept, Leased
  <2>2. ASSUME NEW c \in Command, PoolStep(c) PROVE parts \subseteq parts'
    BY <2>1, <2>2, PoolMoving DEF PoolInv, PoolMoves
  <2>3. ASSUME NEW c \in Command, PoolStep(c) PROVE files' = files
    <3>1. ASSUME Retire(c) \/ Swept(c) PROVE FALSE
      BY <2>1, <3>1 DEF Retire, Swept
    <3>2. ASSUME NEW p \in Part, Remove(c, p) PROVE FALSE
      BY <2>1, <3>2 DEF Remove
    <3>3. CASE Create(c)
      BY <2>1, <3>3, HalfMade DEF Create
    <3> QED BY <2>3, <3>1, <3>2, <3>3
            DEF PoolStep, Start, Spare, Evict, Fetch, Admit, AdmitRefused, Register, Visit,
                ChildEnds, Leave
  <2>4. ASSUME ~\E c \in Command : PoolStep(c) PROVE UNCHANGED <<parts, files>>
    <3>1. ASSUME NEW c \in Command,
                 Specify(c) \/ Validate(c) \/ Proceed(c) \/ Unlock(c) \/ Upgrade(c) \/ Downgrade(c)
          PROVE  UNCHANGED <<parts, files>>
      BY <3>1 DEF Specify, Validate, Proceed, Unlock, Upgrade, Downgrade
    <3>2. ASSUME NEW c \in Command, NEW g \in Group, Inspect(c, g) \/ Repair(c, g)
          PROVE  UNCHANGED <<parts, files>>
      BY <3>2 DEF Inspect, Repair, poolVars
    <3>3. ASSUME NEW c \in Command,
                 InstallStarts(c) \/ InstallEnds(c) \/ InstallDies(c) \/ Record(c)
          PROVE  UNCHANGED <<parts, files>>
      BY <3>3 DEF InstallStarts, InstallEnds, InstallDies, Record
    <3>4. ASSUME NEW c \in Command, TaskEnds(c) \/ Release(c) \/ Kill(c)
          PROVE  UNCHANGED <<parts, files>>
      BY <3>4 DEF TaskEnds, Release, Kill, Stop
    <3>5. ASSUME NEW g \in Group, EditInputs(g) \/ Clean(g) PROVE UNCHANGED <<parts, files>>
      BY <3>5 DEF EditInputs, Clean, poolVars
    <3> QED BY <2>4, <3>1, <3>2, <3>3, <3>4, <3>5 DEF Next
  <2> QED BY <2>2, <2>3, <2>4
<1> QED BY <1>1, PoolInvariant, PTL DEF Spec, LeasedStorageStays
=============================================================================
