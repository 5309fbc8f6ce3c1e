------------------------------- MODULE SetupUse -------------------------------
(***************************************************************************)
(* Setting up one worktree, on top of the shared downloads of StoragePool. *)
(*                                                                         *)
(* A setup group installs artifacts from its inputs and from downloads,    *)
(* and records success in a stamp: the fingerprint of the inputs and of    *)
(* the downloads' epoch.  `setup_use` validates every group under a shared *)
(* flock on `setup-use.lock`; if one is stale it drops the lock, takes it  *)
(* exclusively, repairs what is still stale and goes on with the lock      *)
(* shared.  Installers and tasks inherit the lock with the storage lease.  *)
(***************************************************************************)
EXTENDS StoragePool

CONSTANTS
  Group,      \* the setup groups that a command of this worktree requests
  NoGroup,
  Needs,      \* group -> the groups it depends on, directly or not
  MaxEdits    \* bound: how often the inputs are edited

\* A command that requests no groups takes no lock: it is a Visit.
ASSUME SetupAssumption ==
  /\ MaxEdits \in Nat /\ NoGroup \notin Group /\ Group # {}
  /\ Needs \in [Group -> SUBSET Group]
  /\ \A g \in Group : g \notin Needs[g] /\ \A d \in Needs[g] : Needs[d] \subseteq Needs[g]

VARIABLES
  inputs,     \* group -> version of its inputs; no version comes back
  artifact,   \* group -> its artifacts [state, from]: from which inputs of the
              \* group, and on artifacts of its dependencies from which of theirs
  stamps,     \* the stamp files: [group, inputs, epoch]
  work        \* command -> progress of its setup_use

setupVars == <<inputs, artifact, stamps, work>>
vars == <<poolVars, setupVars>>

Versions == [Group -> 0..MaxEdits]
NoWork   == [seen |-> [g \in Group |-> 0], left |-> {}, stale |-> {}, group |-> NoGroup,
             expected |-> {}, succeeded |-> FALSE]

SetupSteps == {"specified", "validate", "upgrade", "repair", "install", "running"}

\* Mutated form: installers do not inherit the lock.
Exclusive_Commands(c) == pc[c] \in {"repair", "install"}

\* The flock on `setup-use.lock`, held by a command or inherited by its child.
Exclusive(c) == pc[c] \in {"repair", "install"} \/ child[c] \in {"starting", "installing"}
Shared(c)    == pc[c] \in {"validate", "running"} \/ child[c] = "task"

With(g, own, others) == [d \in Needs[g] \cup {g} |-> IF d = g THEN own ELSE others[d]]

\* Mutated form: the epoch of the downloads is forgotten.
FingerprintAt_Epochless(g, seen) ==
  [group |-> g, inputs |-> With(g, inputs[g], seen), epoch |-> 0]

\* A fingerprint with the dependencies' fingerprints of the given time.
FingerprintAt(g, seen) ==
  [group |-> g, inputs |-> With(g, inputs[g], seen), epoch |-> epoch]

\* What command c computes: group_specs has fixed the dependencies' fingerprints.
Fingerprint(c, g) == FingerprintAt(g, work[c].seen)

\* A partial installation may look as if it were ready.
Ready(g)      == artifact[g].state # "absent"
Current(c, g) == Fingerprint(c, g) \in stamps /\ Ready(g)

\* Groups are taken after what they depend on.
Turn(c, g) == g \in work[c].left /\ Needs[g] \cap work[c].left = {}

Init ==
  /\ PoolInit
  /\ inputs = [g \in Group |-> 0]
  /\ artifact = [g \in Group |-> [state |-> "absent", from |-> With(g, 0, [d \in Group |-> 0])]]
  /\ stamps = {}
  /\ work = [c \in Command |-> NoWork]

Fail(c) ==
  /\ Goto(c, "collect last")
  /\ work' = [work EXCEPT ![c] = NoWork]

-----------------------------------------------------------------------------

\* group_specs
Specify(c) ==
  /\ kind = "downloads" /\ pc[c] = "admitted"
  /\ Goto(c, "specified")
  /\ work' = [work EXCEPT ![c] = [NoWork EXCEPT !.seen = inputs, !.left = Group]]
  /\ UNCHANGED <<kind, files, epoch, parts, gate, child, inputs, artifact, stamps>>

Validate(c) ==
  /\ pc[c] = "specified"
  /\ \/ /\ \A d \in Command : ~Exclusive(d)
        /\ Goto(c, "validate")
        /\ UNCHANGED work
     \/ /\ \E d \in Command : Exclusive(d)
        /\ Fail(c)
  /\ UNCHANGED <<kind, files, epoch, parts, gate, child, inputs, artifact, stamps>>

Inspect(c, g) ==
  /\ pc[c] = "validate" /\ Turn(c, g)
  /\ work' = [work EXCEPT ![c].left = @ \ {g},
                          ![c].stale = IF Current(c, g) THEN @ ELSE @ \cup {g}]
  /\ UNCHANGED <<poolVars, inputs, artifact, stamps>>

Proceed(c) ==
  /\ pc[c] = "validate" /\ work[c].left = {} /\ work[c].stale = {}
  /\ Goto(c, "running")
  /\ child' = [child EXCEPT ![c] = "task"]
  /\ work' = [work EXCEPT ![c] = NoWork]
  /\ UNCHANGED <<kind, files, epoch, parts, gate, inputs, artifact, stamps>>

\* The repair is authorised, or it is not; then the shared lock is dropped.
Unlock(c) ==
  /\ pc[c] = "validate" /\ work[c].left = {} /\ work[c].stale # {}
  /\ \/ Goto(c, "upgrade") /\ UNCHANGED work
     \/ Fail(c)
  /\ UNCHANGED <<kind, files, epoch, parts, gate, child, inputs, artifact, stamps>>

Upgrade(c) ==
  /\ pc[c] = "upgrade"
  /\ \/ /\ \A d \in Command : ~Exclusive(d) /\ ~Shared(d)
        /\ Goto(c, "repair")
        /\ work' = [work EXCEPT ![c].left = Group, ![c].stale = {}]
     \/ /\ \E d \in Command : Exclusive(d) \/ Shared(d)
        /\ Fail(c)
  /\ UNCHANGED <<kind, files, epoch, parts, gate, child, inputs, artifact, stamps>>

\* Mutated form: the stamp is only replaced on success.
WithoutStamp_Kept(g) == stamps

WithoutStamp(g) == {s \in stamps : s.group # g}

\* Somebody else may have repaired the group between the two locks.  Otherwise
\* its stamp goes before its installer is started.
Repair(c, g) ==
  /\ pc[c] = "repair" /\ Turn(c, g)
  /\ \/ /\ Current(c, g)
        /\ work' = [work EXCEPT ![c].left = @ \ {g}]
        /\ UNCHANGED <<pc, child, stamps>>
     \/ /\ ~Current(c, g)
        /\ work' = [work EXCEPT ![c].group = g, ![c].expected = {Fingerprint(c, g)},
                                ![c].succeeded = FALSE]
        /\ stamps' = WithoutStamp(g)
        /\ Goto(c, "install")
        /\ child' = [child EXCEPT ![c] = "starting"]
  /\ UNCHANGED <<kind, files, epoch, parts, gate, inputs, artifact>>

-----------------------------------------------------------------------------
(* The installer, which may outlive its command *)

\* It reads its inputs and begins to replace the artifacts.
InstallStarts(c) ==
  LET g == work[c].group IN
  /\ child[c] = "starting"
  /\ child' = [child EXCEPT ![c] = "installing"]
  /\ \E state \in {"absent", "partial"} :
       artifact' = [artifact EXCEPT ![g] =
         [state |-> state,
          from |-> With(g, inputs[g], [d \in Needs[g] |-> artifact[d].from[d]])]]
  /\ UNCHANGED <<kind, files, epoch, parts, gate, pc, inputs, stamps, work>>

\* It exits with 0: everything has been downloaded, and either the declared
\* artifacts are made or some of them do not exist.
InstallEnds(c) ==
  /\ child[c] = "installing"
  /\ parts = Part
  /\ child' = [child EXCEPT ![c] = "none"]
  /\ \E state \in {"absent", "made"} :
       artifact' = [artifact EXCEPT ![work[c].group].state = state]
  /\ work' = [work EXCEPT ![c] = IF pc[c] = "install" THEN [@ EXCEPT !.succeeded = TRUE]
                                                       ELSE NoWork]
  /\ UNCHANGED <<kind, files, epoch, parts, gate, pc, inputs, stamps>>

\* It fails or is killed, and leaves what it has written.
InstallDies(c) ==
  /\ child[c] \in {"starting", "installing"}
  /\ child' = [child EXCEPT ![c] = "none"]
  /\ work' = IF pc[c] = "install" THEN work ELSE [work EXCEPT ![c] = NoWork]
  /\ UNCHANGED <<kind, files, epoch, parts, gate, pc, inputs, artifact, stamps>>

WithStamp(c) == stamps \cup work[c].expected

\* Success is recorded if the artifacts exist and the fingerprint is still the
\* one that was computed before the installation.
Record(c) ==
  LET g == work[c].group IN
  /\ pc[c] = "install" /\ child[c] = "none"
  /\ \/ /\ work[c].succeeded /\ Ready(g) /\ work[c].expected = {Fingerprint(c, g)}
        /\ stamps' = WithStamp(c)
        /\ Goto(c, "repair")
        /\ work' = [work EXCEPT ![c].left = @ \ {g}, ![c].group = NoGroup,
                                ![c].expected = {}, ![c].succeeded = FALSE]
     \/ /\ ~(work[c].succeeded /\ Ready(g) /\ work[c].expected = {Fingerprint(c, g)})
        /\ UNCHANGED stamps
        /\ Fail(c)
  /\ UNCHANGED <<kind, files, epoch, parts, gate, child, inputs, artifact>>

\* The exclusive lock becomes a shared one and the task is started.
Downgrade(c) ==
  /\ pc[c] = "repair" /\ work[c].left = {}
  /\ Goto(c, "running")
  /\ child' = [child EXCEPT ![c] = "task"]
  /\ work' = [work EXCEPT ![c] = NoWork]
  /\ UNCHANGED <<kind, files, epoch, parts, gate, inputs, artifact, stamps>>

TaskEnds(c) ==
  /\ child[c] = "task"
  /\ child' = [child EXCEPT ![c] = "none"]
  /\ UNCHANGED <<kind, files, epoch, parts, gate, pc, setupVars>>

\* The command's descriptors are closed; a child in the background keeps its own.
Release(c) ==
  /\ pc[c] = "running"
  /\ Goto(c, "collect last")
  /\ UNCHANGED <<kind, files, epoch, parts, gate, child, setupVars>>

-----------------------------------------------------------------------------
(* The rest of the world *)

Kill(c) ==
  /\ Stop(c)
  /\ work' = IF child[c] = "none" THEN [work EXCEPT ![c] = NoWork] ELSE work
  /\ UNCHANGED <<inputs, artifact, stamps>>

EditInputs(g) ==
  /\ kind = "downloads"
  /\ inputs[g] < MaxEdits
  /\ inputs' = [inputs EXCEPT ![g] = @ + 1]
  /\ UNCHANGED <<poolVars, artifact, stamps, work>>

\* A person cleans the worktree while nothing there runs.
Clean(g) ==
  /\ \A c \in Command : ~Exclusive(c) /\ ~Shared(c)
  /\ Ready(g)
  /\ artifact' = [artifact EXCEPT ![g].state = "absent"]
  /\ UNCHANGED <<poolVars, inputs, stamps, work>>

Next ==
  \/ \E c \in Command :
       \/ PoolStep(c) /\ UNCHANGED setupVars
       \/ Specify(c) \/ Validate(c) \/ Proceed(c) \/ Unlock(c) \/ Upgrade(c)
       \/ \E g \in Group : Inspect(c, g) \/ Repair(c, g)
       \/ InstallStarts(c) \/ InstallEnds(c) \/ InstallDies(c)
       \/ Record(c) \/ Downgrade(c) \/ TaskEnds(c) \/ Release(c) \/ Kill(c)
  \/ \E g \in Group : EditInputs(g) \/ Clean(g)

Spec == Init /\ [][Next]_vars

-----------------------------------------------------------------------------

Stamp ==
  UNION {[group : {g}, inputs : [Needs[g] \cup {g} -> 0..MaxEdits], epoch : 0..MaxEpoch] :
           g \in Group}

TypeOK ==
  /\ kind \in Kinds
  /\ files \subseteq Whole
  /\ epoch \in 0..MaxEpoch
  /\ parts \subseteq Part
  /\ gate \in [by : Command, at : {"remove", "create", "register"}, left : SUBSET Part]
              \cup {Open}
  /\ pc \in [Command -> PoolSteps \cup SetupSteps]
  /\ child \in [Command -> Children \cup {"starting", "installing", "task"}]
  /\ inputs \in [Group -> 0..MaxEdits]
  /\ \A g \in Group :
       /\ artifact[g].state \in {"absent", "partial", "made"}
       /\ artifact[g].from \in [Needs[g] \cup {g} -> 0..MaxEdits]
  /\ stamps \subseteq Stamp
  /\ \A s, t \in stamps : s.group = t.group => s = t
  /\ \A c \in Command :
       /\ work[c].seen \in Versions
       /\ work[c].left \cup work[c].stale \subseteq Group
       /\ work[c].group \in Group \cup {NoGroup}
       /\ work[c].expected \subseteq Stamp
       /\ work[c].succeeded \in BOOLEAN

\* A stamp that matches vouches for what it says, whoever was killed when:
\* whatever of the group's artifacts exists is complete and was installed from
\* these inputs, on what its dependencies' present inputs give, and no download it
\* was installed from has been removed
\* (setup_use; runtime.md: "Eviction changes the cache epoch before deleting any
\* payload, invalidating setup evidence even after a partial failure").
StampsVouch ==
  \A g \in Group : FingerprintAt(g, inputs) \in stamps =>
    /\ parts = Part
    /\ Ready(g) => artifact[g] = [state |-> "made", from |-> With(g, inputs[g], inputs)]

\* No two installers, and no installer beside a task, even if the command that
\* started one of them is gone ("One installation lock protects overlapping
\* physical outputs ... inherited by task processes, including after parent exit").
InstallersAreAlone ==
  \A c, d \in Command :
    c # d /\ child[c] \in {"starting", "installing"} =>
      child[d] \notin {"starting", "installing", "task"}

\* A task runs on complete artifacts of every group, and on all downloads, to
\* its end.
TasksAreSetUp ==
  \A c \in Command : child[c] = "task" =>
    /\ parts = Part
    /\ \A g \in Group : artifact[g].state = "made"
=============================================================================
