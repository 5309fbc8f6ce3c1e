------------------------- MODULE CommandAdmission -------------------------
(***************************************************************************)
(* How a command sequence starts its commands (src/nix/control/             *)
(* command_admission.go, task.go).  The supervisor starts a verified helper *)
(* that waits on a pipe; only the permit lets it become the command.        *)
(* Signals reach the supervisor, or it and the helper together, at any step.*)
(***************************************************************************)
EXTENDS Integers, FiniteSets

CONSTANTS Commands,  \* commands in the sequence
          MaxSignals \* signals sent in one behaviour
ASSUME CommandAssumption == Commands \in Nat /\ MaxSignals \in Nat

VARIABLES sup,       \* the supervisor: place, command, signal disposition
          pending,   \* a signal waits in its channel
          command,   \* the admitted helper, later the command itself
          pipe,      \* the permit pipe as the helper sees it
          container, \* whether the commands are clients of a container engine
          leased,    \* processes that hold the operation's lease descriptors
          heard,     \* a stop was delivered before the current work started
          sent

admissionVars == <<sup, pending, command, pipe, container, leased, heard, sent>>

Over == {"ended", "killed"}
AdmissionTypeOK ==
  /\ sup \in [pc : {"next", "polled", "spawned", "reset", "armed", "granting",
                    "waiting"} \cup Over, k : 1..Commands + 1]
  /\ pending \in BOOLEAN /\ container \in BOOLEAN /\ heard \in BOOLEAN
  /\ command \in {"none", "gated", "work", "ended", "failed"}
  /\ pipe \in {"open", "written", "closed"}
  /\ leased \subseteq {"sequence", "command", "left"} /\ sent \in 0..MaxSignals

AdmissionInit ==
  /\ sup = [pc |-> "next", k |-> 1] /\ pending = FALSE /\ command = "none"
  /\ pipe = "closed" /\ container \in BOOLEAN /\ leased = {"sequence"}
  /\ heard = FALSE /\ sent = 0

\* The sequence returns or dies: its end of the pipe and its leases are closed.
Quit(how) ==
  /\ sup' = [sup EXCEPT !.pc = how] /\ leased' = leased \ {"sequence"}
  /\ pipe' = IF pipe = "open" THEN "closed" ELSE pipe

\* startAdmitted: a signal already received ends the sequence before any helper.
PollSignals ==
  /\ sup.pc = "next" /\ sup.k <= Commands
  /\ IF pending THEN Quit("ended") /\ pending' = FALSE
     ELSE sup' = [sup EXCEPT !.pc = "polled"] /\ UNCHANGED <<pending, pipe, leased>>
  /\ UNCHANGED <<command, container, heard, sent>>

\* Mutated form: container clients inherit the lease descriptors too.
Inherits_Wrong == {"command"}

\* forwardLeases for host commands, isolateContainerDescriptors for clients of
\* a container engine, whose infrastructure may outlive the task.
Inherits == IF container THEN {} ELSE {"command"}

SpawnCommand ==
  /\ sup.pc = "polled" /\ sup' = [sup EXCEPT !.pc = "spawned"]
  /\ command' = "gated" /\ pipe' = "open" /\ leased' = leased \cup Inherits
  /\ UNCHANGED <<pending, container, heard, sent>>

\* admitStarted: notification stops, with default termination meanwhile, and
\* starts again; what the channel already holds stays in it.
ResetSignals ==
  /\ \/ sup.pc = "spawned" /\ sup' = [sup EXCEPT !.pc = "reset"]
     \/ sup.pc = "reset" /\ sup' = [sup EXCEPT !.pc = "armed"]
  /\ UNCHANGED <<pending, command, pipe, container, leased, heard, sent>>

\* Mutated form: the channel is not looked at again after the helper started.
Vetoed_Wrong == FALSE

\* A signal from before the permit vetoes it.
Vetoed == pending

DecidePermit ==
  /\ sup.pc = "armed"
  /\ IF Vetoed
     THEN /\ pending' = FALSE /\ command' = "failed" /\ sup' = [sup EXCEPT !.pc = "ended"]
          /\ leased' = leased \ {"sequence", "command"} /\ pipe' = "closed"
     ELSE sup' = [sup EXCEPT !.pc = "granting"] /\ UNCHANGED <<pending, command, pipe, leased>>
  /\ UNCHANGED <<container, heard, sent>>

\* The permit byte; a helper that is gone makes the write fail.
WritePermit ==
  /\ sup.pc = "granting"
  /\ IF command = "gated"
     THEN sup' = [sup EXCEPT !.pc = "waiting"] /\ pipe' = "written" /\ UNCHANGED leased
     ELSE Quit("ended")
  /\ UNCHANGED <<pending, command, container, heard, sent>>

\* admittedCommand: the permit, or end of file, decides what the helper becomes.
HelperReads ==
  /\ command = "gated" /\ pipe # "open"
  /\ command' = IF pipe = "written" THEN "work" ELSE "failed"
  /\ leased' = IF pipe = "written" THEN leased ELSE leased \ {"command"}
  /\ UNCHANGED <<sup, pending, pipe, container, heard, sent>>

\* The command ends, or leaves a descendant behind that has what it inherited.
WorkEnds ==
  /\ command = "work" /\ command' \in {"ended", "failed"}
  /\ \E left \in BOOLEAN :
       leased' = (leased \ {"command"})
                   \cup (IF left /\ "command" \in leased THEN {"left"} ELSE {})
  /\ UNCHANGED <<sup, pending, pipe, container, heard, sent>>
LeftEnds ==
  /\ "left" \in leased /\ leased' = leased \ {"left"}
  /\ UNCHANGED <<sup, pending, command, pipe, container, heard, sent>>

\* A signal found in the channel when a command has ended ends the sequence too.
ReapCommand ==
  /\ sup.pc = "waiting" /\ command \in {"ended", "failed"}
  /\ IF pending \/ command = "failed" \/ sup.k = Commands
     THEN Quit("ended")
     ELSE sup' = [sup EXCEPT !.pc = "next", !.k = @ + 1] /\ UNCHANGED <<pipe, leased>>
  /\ pending' = FALSE
  /\ command' = "none"
  /\ UNCHANGED <<container, heard, sent>>

\* A signal as the supervisor takes it: noted, or fatal while notification is
\* off.  The leases of whoever dies of it are closed.
Deliver(gone) ==
  LET dies == sup.pc = "reset" IN
  /\ pending' = (pending \/ ~dies)
  /\ sup' = IF dies THEN [sup EXCEPT !.pc = "killed"] ELSE sup
  /\ pipe' = IF dies /\ pipe = "open" THEN "closed" ELSE pipe
  /\ leased' = leased \ (gone \cup IF dies THEN {"sequence"} ELSE {})

\* The owner signals the whole group: a helper that still waits dies of it; a
\* running command ends in its own time.
SignalGroup ==
  /\ sup.pc \notin Over /\ sent < MaxSignals /\ sent' = sent + 1
  /\ Deliver(IF command = "gated" THEN {"command"} ELSE {})
  /\ command' = IF command = "gated" THEN "failed" ELSE command
  /\ heard' = TRUE /\ UNCHANGED container
\* One that reaches the supervisor alone: its caller, or watchTaskOwner when the
\* caller is gone.  It comes too late for a helper that was already permitted.
SignalSupervisor ==
  /\ sup.pc \notin Over /\ sent < MaxSignals /\ sent' = sent + 1
  /\ Deliver({})
  /\ heard' = (heard \/ ~(sup.pc \in {"granting", "waiting"} /\ command = "gated"))
  /\ UNCHANGED <<command, container>>
SupervisorKilled ==
  /\ sup.pc \notin Over /\ sent < MaxSignals /\ sent' = sent + 1
  /\ Quit("killed") /\ heard' = (heard \/ pipe # "written")
  /\ UNCHANGED <<pending, command, container>>

AdmissionNext ==
  \/ PollSignals \/ SpawnCommand \/ ResetSignals \/ DecidePermit \/ WritePermit
  \/ HelperReads \/ WorkEnds \/ LeftEnds \/ ReapCommand
  \/ SignalGroup \/ SignalSupervisor \/ SupervisorKilled
AdmissionSpec == AdmissionInit /\ [][AdmissionNext]_admissionVars

\* No command begins after a stop that came before it: not one sent before its
\* helper existed, not one sent between two commands, and not one that killed
\* the supervisor while the helper waited.
NoWorkAfterStop ==
  [][command = "gated" /\ command' = "work" => ~heard]_admissionVars

\* When the sequence is over, only descendants of host commands still hold its
\* leases; whatever a container engine leaves behind holds none.
EngineHoldsNoLease ==
  sup.pc \in Over /\ container => leased = {}
=============================================================================
