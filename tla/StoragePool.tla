----------------------------- MODULE StoragePool -----------------------------
(***************************************************************************)
(* Who may use and who may remove one entry of chainman's shared storage.  *)
(*                                                                         *)
(* A pool directory holds one `downloads` entry, shared by all worktrees,  *)
(* or one `runtime` entry per revision.  An entry is a directory with a    *)
(* `.lease` file, whose flock its users share, a `.receipt.json` and its   *)
(* contents.  Every command collects before and after its work (`collect`) *)
(* and in between holds a lease (`use`) that its children inherit and keep *)
(* when the command is gone.  All of it happens under the pool's `.gate`,  *)
(* a flock that a killed command drops wherever it was.                    *)
(***************************************************************************)
EXTENDS Naturals, FiniteSets

CONSTANTS
  Command,   \* processes; each may run any number of commands in turn
  Part,      \* payload families of `downloads`, root links of a `runtime`
  Kinds,     \* the kinds of entry to consider
  Nobody,
  MaxEpoch   \* bound: how often a receipt gets a new epoch

ASSUME PoolAssumption ==
  /\ Nobody \notin Command
  /\ Kinds \subseteq {"downloads", "runtime"}
  /\ MaxEpoch \in Nat

VARIABLES
  kind,    \* kind of the entry, fixed
  files,   \* which of the entry's directory, `.lease` and `.receipt.json` exist
  epoch,   \* the receipt's epoch: the random values are numbered
  parts,   \* the payloads that are present and complete
  gate,    \* who holds the pool gate, at what step, with what left to do
  pc,      \* command -> how far it has come outside the gate
  child    \* command -> the process it started that holds its descriptors

poolVars == <<kind, files, epoch, parts, gate, pc, child>>

Whole == {"directory", "lease", "receipt"}
Open  == [by |-> Nobody, at |-> "open", left |-> {}]

PoolSteps == {"idle", "collect first", "admit", "admitted", "visiting", "collect last"}
Children  == {"none", "visit"}

\* Mutated form: children do not inherit the descriptor.
Leased_Commands(c) == pc[c] \notin {"idle", "collect first", "admit", "collect last"}

\* The flock on `.lease` belongs to an open file: the command's own descriptor
\* or the one that its child inherited.
Leased(c) ==
  \/ pc[c] \notin {"idle", "collect first", "admit", "collect last"}
  \/ child[c] # "none"

Goto(c, step) == pc' = [pc EXCEPT ![c] = step]

Collected(c) == Goto(c, IF pc[c] = "collect first" THEN "admit" ELSE "idle")

PoolInit ==
  /\ kind \in Kinds
  /\ files = {} /\ epoch = 0 /\ parts = {}
  /\ gate = Open
  /\ pc = [c \in Command |-> "idle"]
  /\ child = [c \in Command |-> "none"]

-----------------------------------------------------------------------------
(* Collecting *)

Start(c) ==
  /\ pc[c] = "idle" /\ child[c] = "none"
  /\ Goto(c, "collect first")
  /\ UNCHANGED <<kind, files, epoch, parts, gate, child>>

\* Nothing is eligible, a lease is held, or the entry is not there or unreadable.
Spare(c) ==
  /\ pc[c] \in {"collect first", "collect last"}
  /\ gate = Open
  /\ Collected(c)
  /\ UNCHANGED <<kind, files, epoch, parts, gate, child>>

\* The receipt gets its new epoch before the first payload goes.  Age, budget
\* and the references of installed tools select what goes from `downloads`.
Evict(c) ==
  /\ pc[c] \in {"collect first", "collect last"}
  /\ gate = Open /\ files = Whole
  /\ \A d \in Command : ~Leased(d)
  /\ epoch < MaxEpoch /\ epoch' = epoch + 1
  /\ \E doomed \in SUBSET parts :
       /\ kind = "downloads" => doomed # {}
       /\ kind = "runtime" => doomed = parts
       /\ gate' = [by |-> c, at |-> "remove", left |-> doomed]
  /\ UNCHANGED <<kind, files, parts, pc, child>>

Remove(c, p) ==
  /\ gate.by = c /\ gate.at = "remove" /\ p \in gate.left
  /\ parts' = parts \ {p}
  /\ gate' = [gate EXCEPT !.left = @ \ {p}]
  /\ UNCHANGED <<kind, files, epoch, pc, child>>

\* An error during the removal is reported and the entry left as it is.
Swept(c) ==
  /\ gate.by = c /\ gate.at = "remove"
  /\ \/ gate.left # {}
     \/ kind = "downloads"
  /\ gate' = Open
  /\ Collected(c)
  /\ UNCHANGED <<kind, files, epoch, parts, child>>

\* A runtime without roots goes altogether: its receipt, its lease, then itself.
Retire(c) ==
  /\ gate.by = c /\ gate.at = "remove" /\ gate.left = {} /\ kind = "runtime"
  /\ \/ /\ "receipt" \in files
        /\ files' = files \ {"receipt"}
        /\ UNCHANGED <<gate, pc>>
     \/ /\ files = {"directory", "lease"}
        /\ files' = {"directory"}
        /\ UNCHANGED <<gate, pc>>
     \/ /\ files = {"directory"}
        /\ files' = {}
        /\ gate' = Open
        /\ Collected(c)
  /\ UNCHANGED <<kind, epoch, parts, child>>

-----------------------------------------------------------------------------
(* Using *)

\* The receipt is read and refreshed and the lease locked.
Admit(c) ==
  /\ pc[c] = "admit" /\ gate = Open /\ files = Whole
  /\ Goto(c, "admitted")
  /\ UNCHANGED <<kind, files, epoch, parts, gate, child>>

\* The first use of an entry makes its directory, its lease and its receipt.
Create(c) ==
  /\ pc[c] = "admit"
  /\ \/ /\ gate = Open /\ files = {}
        /\ files' = {"directory"}
        /\ gate' = [Open EXCEPT !.by = c, !.at = "create"]
        /\ UNCHANGED <<epoch, pc>>
     \/ /\ gate.by = c /\ gate.at = "create" /\ files = {"directory"}
        /\ files' = files \cup {"lease"}
        /\ UNCHANGED <<epoch, gate, pc>>
     \/ /\ gate.by = c /\ gate.at = "create" /\ files = {"directory", "lease"}
        /\ files' = Whole
        /\ epoch < MaxEpoch /\ epoch' = epoch + 1
        /\ gate' = Open
        /\ Goto(c, "admitted")
  /\ UNCHANGED <<kind, parts, child>>

\* An entry whose directory exists is never completed: the read of what is
\* missing fails, and so does the command.
AdmitRefused(c) ==
  /\ pc[c] = "admit" /\ gate = Open
  /\ "directory" \in files /\ files # Whole
  /\ Goto(c, "idle")
  /\ UNCHANGED <<kind, files, epoch, parts, gate, child>>

\* Mutated form: one root that exists vouches for the other.
MissingRoots_Any == IF parts = {} THEN Part ELSE {}

\* The roots that are not registered yet.
MissingRoots == Part \ parts

\* A runtime's missing roots are registered, and only then its child started.
Register(c) ==
  /\ kind = "runtime" /\ pc[c] = "admitted"
  /\ \/ /\ gate = Open
        /\ gate' = [by |-> c, at |-> "register", left |-> MissingRoots]
        /\ UNCHANGED <<parts, pc, child>>
     \/ /\ gate.by = c /\ gate.at = "register"
        /\ \E p \in gate.left :
             /\ parts' = parts \cup {p}
             /\ gate' = [gate EXCEPT !.left = @ \ {p}]
        /\ UNCHANGED <<pc, child>>
     \/ /\ gate.by = c /\ gate.at = "register" /\ gate.left = {}
        /\ gate' = Open
        /\ Goto(c, "visiting")
        /\ child' = [child EXCEPT ![c] = "visit"]
        /\ UNCHANGED parts
  /\ UNCHANGED <<kind, files, epoch>>

\* Another worktree's command, or one that needs no setup.
Visit(c) ==
  /\ kind = "downloads" /\ pc[c] = "admitted"
  /\ Goto(c, "visiting")
  /\ child' = [child EXCEPT ![c] = "visit"]
  /\ UNCHANGED <<kind, files, epoch, parts, gate>>

\* A package manager that runs below a command fills its cache.
Fetch(c, p) ==
  /\ kind = "downloads" /\ child[c] # "none" /\ p \notin parts
  /\ parts' = parts \cup {p}
  /\ UNCHANGED <<kind, files, epoch, gate, pc, child>>

ChildEnds(c) ==
  /\ child[c] = "visit"
  /\ child' = [child EXCEPT ![c] = "none"]
  /\ UNCHANGED <<kind, files, epoch, parts, gate, pc>>

\* The command closes its descriptors.  A child that it leaves in the
\* background keeps the lease.
Leave(c) ==
  /\ pc[c] = "visiting"
  /\ Goto(c, "collect last")
  /\ UNCHANGED <<kind, files, epoch, parts, gate, child>>

\* The command is killed, or fails where the code above does not say how.
Stop(c) ==
  /\ pc[c] # "idle"
  /\ Goto(c, "idle")
  /\ gate' = IF gate.by = c THEN Open ELSE gate
  /\ UNCHANGED <<kind, files, epoch, parts, child>>

PoolStep(c) ==
  \/ Start(c) \/ Spare(c) \/ Evict(c) \/ Swept(c) \/ Retire(c)
  \/ \E p \in Part : Remove(c, p) \/ Fetch(c, p)
  \/ Admit(c) \/ Create(c) \/ AdmitRefused(c)
  \/ Register(c) \/ Visit(c) \/ ChildEnds(c) \/ Leave(c)

PoolSpec == PoolInit /\ [][\E c \in Command : PoolStep(c) \/ Stop(c)]_poolVars

-----------------------------------------------------------------------------

\* An entry and its payloads lose nothing while anybody holds a lease on it:
\* a command, or a child that outlived it (collect, use).
LeasedStorageStays ==
  [][(\E c \in Command : Leased(c) \/ child[c] # "none") =>
       parts \subseteq parts' /\ files \subseteq files']_poolVars

\* A runtime's child runs from an entry with all its roots, so that Nix cannot
\* collect what it executes (runtime_run).
RuntimeIsRooted ==
  \A c \in Command : kind = "runtime" /\ child[c] # "none" => parts = Part /\ files = Whole

\* "The generation can retire completely and a future cold admission creates it
\* anew" (storage.py:409-411): once an entry has been complete, no command is
\* turned away because it finds the entry half retired or half made.
AdmissionServed == [][epoch > 0 => \A c \in Command : ~AdmitRefused(c)]_poolVars
=============================================================================
