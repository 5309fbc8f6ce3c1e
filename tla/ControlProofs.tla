---------------------------- MODULE ControlProofs ----------------------------
(***************************************************************************)
(* What is proved of the control process's remaining parts: the admission   *)
(* of commands and their cancellation, services rebuilt while a client      *)
(* watches them, the task's terminal, and resources that worktrees share.   *)
(* And of what users see and answer: the log of a service, the rows of      *)
(* development operations, and the prompt that asks for consent.            *)
(* Each part has its invariant, the lemma that every step keeps it, and the *)
(* theorems that follow.                                                    *)
(***************************************************************************)
EXTENDS CommandAdmission, WatchedService, TaskTerminal, ResourceScopes, LogFollow,
        DevelopmentSession, ConsentPrompt, FiniteSetTheorems, SequenceTheorems, TLAPS

----------------------------------------------------------------------------
(* Starting commands: the invariant.                                       *)

USE CommandAssumption DEF Over

SupervisorTyped ==
  sup \in [pc : {"next", "polled", "spawned", "reset", "armed", "granting", "waiting"} \cup Over,
          k : 1 .. Commands + 1]

\* Where a helper waits the supervisor is on the way to its permit, or over.
HelperIsStarted ==
  /\ command = "gated" => sup.pc \notin {"next", "polled"}
  /\ command = "gated" /\ pipe = "written" => sup.pc \in {"waiting"} \cup Over
  /\ sup.pc \notin {"next"} \cup Over => sup.k <= Commands

\* A stop that was heard waits in the channel, and no permit was given after it.
StopIsPending ==
  /\ heard => pending \/ sup.pc \in Over
  /\ command = "gated" /\ (sup.pc \in {"granting", "waiting"} \/ pipe = "written") => ~heard

\* Only the sequence itself holds leases beside a container engine, as long as it lives.
LeasesAreHost ==
  /\ container => leased \subseteq {"sequence"}
  /\ sup.pc \in Over => "sequence" \notin leased

CommandInv == SupervisorTyped /\ HelperIsStarted /\ StopIsPending /\ LeasesAreHost

\* Every step keeps it.
LEMMA CommandStep == CommandInv /\ [AdmissionNext]_admissionVars => CommandInv'
<1> SUFFICES ASSUME CommandInv, [AdmissionNext]_admissionVars PROVE CommandInv'
  OBVIOUS
<1> USE DEF CommandInv, SupervisorTyped, HelperIsStarted, StopIsPending, LeasesAreHost
<1>1. CASE PollSignals
  BY <1>1 DEF PollSignals, Quit
<1>2. CASE SpawnCommand
  BY <1>2 DEF SpawnCommand, Inherits
<1>3. CASE ResetSignals
  BY <1>3 DEF ResetSignals
<1>4. CASE DecidePermit
  BY <1>4 DEF DecidePermit, Vetoed
<1>5. CASE WritePermit
  BY <1>5 DEF WritePermit, Quit
<1>6. CASE HelperReads
  BY <1>6 DEF HelperReads
<1>7. CASE WorkEnds
  BY <1>7 DEF WorkEnds
<1>8. CASE LeftEnds
  BY <1>8 DEF LeftEnds
<1>9. CASE ReapCommand
  <2>1. CASE pending \/ command = "failed" \/ sup.k = Commands
    BY <1>9, <2>1 DEF ReapCommand, Quit
  <2>2. CASE ~(pending \/ command = "failed" \/ sup.k = Commands)
    <3>1. ~heard /\ heard' = heard /\ command' = "none" /\ container' = container
          /\ leased' = leased
      BY <1>9, <2>2 DEF ReapCommand
    <3>2. sup.k <= Commands /\ sup.k # Commands /\ sup.k \in 1 .. Commands + 1
      BY <1>9, <2>2 DEF ReapCommand
    <3>3. sup' = [sup EXCEPT !.pc = "next", !.k = sup.k + 1] /\ SupervisorTyped
      BY <1>9, <2>2 DEF ReapCommand
    <3>4. sup'.pc = "next" /\ SupervisorTyped'
      <4> HIDE DEF CommandInv
      <4>1. sup.k + 1 \in 1 .. Commands + 1
        BY <3>2
      <4> QED BY <4>1, <3>3
    <3> QED BY <3>1, <3>4
  <2> QED BY <2>1, <2>2
<1>10. CASE SignalGroup
  <2>1. CASE sup.pc = "reset"
    BY <1>10, <2>1 DEF SignalGroup, Deliver
  <2>2. CASE sup.pc # "reset"
    BY <1>10, <2>2 DEF SignalGroup, Deliver
  <2> QED BY <2>1, <2>2
<1>11. CASE SignalSupervisor
  BY <1>11 DEF SignalSupervisor, Deliver
<1>12. CASE SupervisorKilled
  BY <1>12 DEF SupervisorKilled, Quit
<1>13. CASE UNCHANGED admissionVars
  BY <1>13 DEF admissionVars
<1> QED
  BY <1>1, <1>2, <1>3, <1>4, <1>5, <1>6, <1>7, <1>8, <1>9, <1>10, <1>11, <1>12, <1>13
     DEF AdmissionNext

\* The invariant holds of every sequence of commands.
THEOREM CommandInvariant == AdmissionSpec => []CommandInv
<1>1. AdmissionInit => CommandInv
  BY DEF AdmissionInit, CommandInv, SupervisorTyped, HelperIsStarted, StopIsPending,
         LeasesAreHost
<1> QED BY <1>1, CommandStep, PTL DEF AdmissionSpec

\* No command begins its work after a stop that came before it.
THEOREM StopsPrevent == AdmissionSpec => NoWorkAfterStop
<1>1. CommandInv /\ [AdmissionNext]_admissionVars
        => [command = "gated" /\ command' = "work" => ~heard]_admissionVars
  <2> SUFFICES ASSUME CommandInv, AdmissionNext, command = "gated", command' = "work" PROVE ~heard
    OBVIOUS
  <2>1. HelperReads
    BY DEF AdmissionNext, PollSignals, SpawnCommand, ResetSignals, DecidePermit, WritePermit,
           WorkEnds, LeftEnds, ReapCommand, SignalGroup, SignalSupervisor, SupervisorKilled
  <2> QED BY <2>1 DEF HelperReads, CommandInv, StopIsPending
<1> QED BY <1>1, CommandInvariant, PTL DEF AdmissionSpec, NoWorkAfterStop

\* What a container engine leaves behind holds none of the operation's leases.
THEOREM EnginesLeaseNothing == AdmissionSpec => []EngineHoldsNoLease
<1>1. CommandInv => EngineHoldsNoLease
  BY DEF CommandInv, LeasesAreHost, EngineHoldsNoLease
<1> QED BY <1>1, CommandInvariant, PTL

----------------------------------------------------------------------------
(* Starting commands: the types.                                           *)

\* The other components of a sequence's state.
AdmissionFlags == pending \in BOOLEAN /\ container \in BOOLEAN /\ heard \in BOOLEAN
AdmissionNamed ==
  /\ command \in {"none", "gated", "work", "ended", "failed"}
  /\ pipe \in {"open", "written", "closed"}
  /\ leased \subseteq {"sequence", "command", "left"} /\ sent \in 0..MaxSignals

LEMMA AdmissionFlagsStep ==
  ASSUME AdmissionFlags, [AdmissionNext]_admissionVars PROVE AdmissionFlags'
BY DEF AdmissionFlags, AdmissionNext, PollSignals, SpawnCommand, ResetSignals, DecidePermit,
       WritePermit, HelperReads, WorkEnds, LeftEnds, ReapCommand, SignalGroup, SignalSupervisor,
       SupervisorKilled, Quit, Deliver, admissionVars

LEMMA AdmissionNamedStep ==
  ASSUME AdmissionNamed, [AdmissionNext]_admissionVars PROVE AdmissionNamed'
<1> USE DEF AdmissionNamed
<1>1. CASE PollSignals \/ SupervisorKilled
  BY <1>1 DEF PollSignals, SupervisorKilled, Quit
<1>2. CASE SpawnCommand \/ ResetSignals
  BY <1>2 DEF SpawnCommand, ResetSignals, Inherits
<1>3. CASE DecidePermit \/ WritePermit
  BY <1>3 DEF DecidePermit, WritePermit, Quit
<1>4. CASE HelperReads \/ LeftEnds
  BY <1>4 DEF HelperReads, LeftEnds
<1>5. CASE WorkEnds
  BY <1>5 DEF WorkEnds
<1>6. CASE ReapCommand
  BY <1>6 DEF ReapCommand, Quit
<1>7. CASE SignalGroup
  BY <1>7 DEF SignalGroup, Deliver
<1>8. CASE SignalSupervisor
  BY <1>8 DEF SignalSupervisor, Deliver
<1>9. CASE UNCHANGED admissionVars
  BY <1>9 DEF admissionVars
<1> QED BY <1>1, <1>2, <1>3, <1>4, <1>5, <1>6, <1>7, <1>8, <1>9 DEF AdmissionNext

\* What a sequence, its helper and its leases are called.
THEOREM AdmissionTypeCorrect == AdmissionSpec => []AdmissionTypeOK
<1>1. AdmissionInit => AdmissionFlags
  BY DEF AdmissionInit, AdmissionFlags
<1>2. AdmissionInit => AdmissionNamed
  BY DEF AdmissionInit, AdmissionNamed
<1>3. CommandInv /\ AdmissionFlags /\ AdmissionNamed => AdmissionTypeOK
  BY DEF CommandInv, SupervisorTyped, AdmissionFlags, AdmissionNamed, AdmissionTypeOK
<1> QED BY <1>1, <1>2, <1>3, CommandInvariant, AdmissionFlagsStep, AdmissionNamedStep, PTL
        DEF AdmissionSpec
HIDE CommandAssumption DEF Over

----------------------------------------------------------------------------
(* Watched services: the invariant.                                        *)

USE WatchAssumption DEF Pool, HadSuccess, StopSeen, MonitorGate

IsBuild(b) == b = [pc |-> b.pc, had |-> b.had, n |-> b.n]
MonitorStates == [at : Pool \cup {"tick"}, missed : [Pool -> BOOLEAN],
                  inARow : [Pool -> 0 .. 2], looking : BOOLEAN]
BuildTyped ==
  IsBuild(build) /\ build.pc \in {"idle", "run", "marked", "restart"} /\ commits \in Nat
MonitorTyped == monitor \in MonitorStates

Stopped == {"stopped", "halted", "off"}
\* The gate, the mark and the watcher say what may still happen to a process.
BuildIsGated ==
  /\ build.pc \in {"marked", "restart"} <=> buildGate = "build"
  /\ build.pc = "restart" <=> proc = "between"
  /\ control \in Stopped => mark /\ build.pc \in {"idle", "run"}
  /\ control \in {"halted", "off"} => proc = "down"
  /\ control \in {"off", "start"} => ~watcher /\ build.pc = "idle"

\* A build that found a success began after the commit that first wrote the marker.
SuccessIsEarlier ==
  /\ built => first \in 1 .. commits
  /\ build.pc = "run" /\ build.had => built
  /\ build.pc = "marked" /\ build.had => first \in 1 .. build.n - 1

\* A task is watched while its service is meant to run, and looked at under the gate.
TaskIsWatched ==
  /\ proc = "ended" => crashed
  /\ payload = "running" => /\ control \in {"on", "stop"} \cup Stopped
                            /\ control = "on" => proc # "down"
  /\ payload = "running" /\ monitor.looking => monitor.at = "worktree" /\ buildGate = "monitor"

\* A pool's missed deadline is the last thing known of it.
MissesAreCounted ==
  /\ payload = "deadline" => \E p \in Pool : monitor.inARow[p] = 2
  /\ payload # "deadline" =>
       \A p \in Pool : /\ monitor.missed[p] => monitor.inARow[p] = 1
                       /\ ~monitor.missed[p] => monitor.inARow[p] = 0

WatchInv ==
  /\ BuildTyped /\ BuildIsGated /\ SuccessIsEarlier
  /\ MonitorTyped /\ TaskIsWatched /\ MissesAreCounted

\* What the client's monitor knows at its beginning.
LEMMA WatchingFields ==
  /\ Watching \in MonitorStates /\ Watching.at = "tick" /\ ~Watching.looking
  /\ \A p \in Pool : ~Watching.missed[p] /\ Watching.inARow[p] = 0
BY DEF MonitorStates, Watching

\* What a build is that does not run.
LEMMA NoBuildFields == IsBuild(NoBuild) /\ NoBuild.pc = "idle"
BY DEF IsBuild, NoBuild

\* How an answer changes it.
LEMMA LateForm ==
  ASSUME monitor \in MonitorStates, NEW p \in Pool, LateAnswer(p), ~monitor.missed[p],
         monitor.inARow[p] = 0
  PROVE  /\ monitor' \in MonitorStates /\ payload' = payload
         /\ monitor'.looking = FALSE /\ monitor'.missed = [monitor.missed EXCEPT ![p] = TRUE]
         /\ monitor'.inARow = [monitor.inARow EXCEPT ![p] = 1]
<1> DEFINE a == After(p)
           missed == [monitor.missed EXCEPT ![p] = TRUE]
           inARow == [monitor.inARow EXCEPT ![p] = 1]
<1>1. monitor' = [monitor EXCEPT !.at = a, !.looking = FALSE, !.missed[p] = TRUE, !.inARow[p] = @ + 1]
      /\ payload' = payload
  BY DEF LateAnswer
<1>2. monitor' = [monitor EXCEPT !.at = a, !.looking = FALSE, !.missed = missed, !.inARow = inARow]
  BY <1>1 DEF MonitorStates
<1>3. a \in Pool \cup {"tick"} /\ missed \in [Pool -> BOOLEAN] /\ inARow \in [Pool -> 0 .. 2]
  BY DEF MonitorStates, After
<1> HIDE DEF a, missed, inARow
<1>4. /\ monitor' \in MonitorStates /\ monitor'.looking = FALSE
      /\ monitor'.missed = missed /\ monitor'.inARow = inARow
  BY <1>2, <1>3 DEF MonitorStates
<1> QED BY <1>1, <1>4 DEF missed, inARow

\* A good answer clears its pool, or ends the task for an ended service.
LEMMA GoodForm ==
  ASSUME monitor \in MonitorStates, NEW p \in Pool, GoodAnswer(p)
  PROVE  \/ /\ monitor' \in MonitorStates /\ payload' = payload
            /\ monitor'.looking = FALSE /\ monitor'.missed = [monitor.missed EXCEPT ![p] = FALSE]
            /\ monitor'.inARow = [monitor.inARow EXCEPT ![p] = 0]
         \/ p = "worktree" /\ monitor' = Watching /\ payload' = "service ended"
<1>1. CASE p = "worktree" /\ proc \in {"ended", "between", "down"}
  BY <1>1 DEF GoodAnswer, Cancel
<1>2. CASE ~(p = "worktree" /\ proc \in {"ended", "between", "down"})
  <2> DEFINE a == After(p)
             missed == [monitor.missed EXCEPT ![p] = FALSE]
             inARow == [monitor.inARow EXCEPT ![p] = 0]
  <2>1. monitor' = [monitor EXCEPT !.at = a, !.looking = FALSE, !.missed = missed, !.inARow = inARow]
        /\ payload' = payload
    BY <1>2 DEF GoodAnswer, Cleared, MonitorStates
  <2>2. a \in Pool \cup {"tick"} /\ missed \in [Pool -> BOOLEAN] /\ inARow \in [Pool -> 0 .. 2]
    BY DEF MonitorStates, After
  <2> HIDE DEF a, missed, inARow
  <2>3. /\ monitor' \in MonitorStates /\ monitor'.looking = FALSE
        /\ monitor'.missed = missed /\ monitor'.inARow = inARow
    BY <2>1, <2>2 DEF MonitorStates
  <2> QED BY <2>1, <2>3 DEF missed, inARow
<1> QED BY <1>1, <1>2
\* What a commit does.
LEMMA CommitForm ==
  ASSUME BuildTyped, CommitBuild
  PROVE  /\ UNCHANGED <<proc, watcher, control, mark, payload, monitor, crashed>>
         /\ build.pc = "run" /\ buildGate = "free"
         /\ \/ mark /\ build' = NoBuild /\ UNCHANGED <<buildGate, built, commits, first>>
            \/ /\ ~mark /\ buildGate' = "build" /\ built' = TRUE /\ commits' = commits + 1
               /\ first' = IF built THEN first ELSE commits + 1
               /\ IsBuild(build') /\ build'.pc = "marked" /\ build'.n = commits + 1
               /\ build'.had = build.had
<1>1. CASE mark
  BY <1>1 DEF CommitBuild
<1>2. CASE ~mark
  <2>1. /\ buildGate' = "build" /\ built' = TRUE /\ commits' = commits + 1
        /\ first' = IF built THEN first ELSE commits + 1
        /\ build' = [build EXCEPT !.pc = "marked", !.n = commits + 1]
        /\ UNCHANGED <<proc, watcher, control, mark, payload, monitor, crashed>> /\ build.pc = "run"
        /\ buildGate = "free"
    BY <1>2 DEF CommitBuild
  <2>2. commits + 1 \in Nat
    BY DEF BuildTyped
  <2>3. /\ IsBuild(build') /\ build'.pc = "marked" /\ build'.n = commits + 1
        /\ build'.had = build.had
    BY <2>1, <2>2 DEF BuildTyped, IsBuild
  <2> QED BY <1>2, <2>1, <2>3
<1> QED BY <1>1, <1>2

\* What the end of a commit does.
LEMMA AfterForm ==
  ASSUME BuildTyped, AfterCommit
  PROVE  /\ UNCHANGED <<watcher, control, mark, payload, monitor, crashed, built, commits, first>>
         /\ build.pc = "marked"
         /\ \/ /\ IsBuild(build') /\ build'.pc = "restart" /\ proc' = "between"
               /\ build.had /\ UNCHANGED buildGate
            \/ build' = NoBuild /\ buildGate' = "free" /\ UNCHANGED proc
<1>1. CASE build.had /\ proc = "up"
  BY <1>1 DEF AfterCommit, BuildTyped, IsBuild
<1>2. CASE ~(build.had /\ proc = "up")
  BY <1>2 DEF AfterCommit
<1> QED BY <1>1, <1>2

\* The build record keeps its form.
LEMMA BuildTypeStep == WatchInv /\ [WatchNext]_watchVars => BuildTyped'
<1> SUFFICES ASSUME WatchInv, [WatchNext]_watchVars PROVE BuildTyped'
  OBVIOUS
<1> USE DEF WatchInv, BuildTyped, IsBuild, NoBuild
<1>1. CASE StartBuild
  BY <1>1 DEF StartBuild
<1>2. CASE CommitBuild
  <2>1. CASE build' = NoBuild /\ commits' = commits
    BY <2>1, NoBuildFields
  <2>2. CASE IsBuild(build') /\ build'.pc = "marked" /\ commits' = commits + 1
    <3> HIDE DEF IsBuild
    <3> QED BY <2>2
  <2> HIDE DEF IsBuild, NoBuild
  <2> QED BY <1>2, <2>1, <2>2, CommitForm DEF WatchInv
<1>3. CASE AfterCommit
  BY <1>3, AfterForm, NoBuildFields
<1>5. CASE BuildFails
  BY <1>5 DEF BuildFails
<1>6. CASE Restarted
  BY <1>6 DEF Restarted
<1>7. CASE StopWatcher
  BY <1>7 DEF StopWatcher
<1>8. ASSUME NEW p \in Pool, GoodAnswer(p) \/ LateAnswer(p) PROVE BuildTyped'
  BY <1>8 DEF GoodAnswer, LateAnswer
<1>4. CASE BackendStarts \/ ServiceEnds \/ BeginStop \/ MarkStopping
          \/ StopService \/ ClearMark \/ StartMissing \/ TaskBegins \/ Tick \/
          TakeGates \/ UNCHANGED watchVars
  BY <1>4 DEF BackendStarts, ServiceEnds, BeginStop, MarkStopping,
         StopService, ClearMark, StartMissing, TaskBegins, Tick, TakeGates, watchVars
<1> QED
  BY <1>1, <1>2, <1>3, <1>4, <1>5, <1>6, <1>7, <1>8 DEF WatchNext

\* A task that goes on has missed at most one deadline of a pool.
LEMMA MissesOne ==
  ASSUME MissesAreCounted, payload = "running", NEW p \in Pool, monitor.missed[p]
  PROVE  monitor.inARow[p] = 1
<1>1. payload # "deadline"
  OBVIOUS
<1>2. \A q \in Pool : monitor.missed[q] => monitor.inARow[q] = 1
  BY <1>1, Zenon DEF MissesAreCounted
<1> QED BY <1>2, Zenon

\* The monitor keeps its type.
LEMMA MonitorTypeStep == WatchInv /\ [WatchNext]_watchVars => MonitorTyped'
<1> SUFFICES ASSUME WatchInv, [WatchNext]_watchVars PROVE MonitorTyped'
  OBVIOUS
<1> USE DEF WatchInv, MonitorTyped, MissesAreCounted
<1>1. CASE TaskBegins
  BY <1>1, WatchingFields DEF TaskBegins
<1>2. CASE Tick
  <2>1. CASE monitor' = Watching
    BY <2>1, WatchingFields
  <2>2. CASE monitor' = [monitor EXCEPT !.at = "worktree"]
    BY <2>2 DEF MonitorStates
  <2> QED BY <1>2, <2>1, <2>2 DEF Tick, Cancel
<1>3. CASE TakeGates
  BY <1>3 DEF TakeGates, MonitorStates
<1>4. ASSUME NEW p \in Pool, GoodAnswer(p) PROVE MonitorTyped'
  BY <1>4, GoodForm, WatchingFields
<1>5. ASSUME NEW p \in Pool, LateAnswer(p) PROVE MonitorTyped'
  <2>1. CASE monitor.missed[p]
    <3>1. payload = "running"
      BY <1>5 DEF LateAnswer, Looking
    <3>6. monitor.inARow[p] = 1
      BY <2>1, <3>1, MissesOne
    <3>4. monitor.inARow[p] + 1 = 2
      BY ONLY <3>6
    <3>5. monitor' = [Watching EXCEPT !.inARow[p] = monitor.inARow[p] + 1]
      BY <1>5, <2>1 DEF LateAnswer
    <3>2. monitor' = [Watching EXCEPT !.inARow = [Watching.inARow EXCEPT ![p] = 2]]
      BY <3>4, <3>5 DEF Watching
    <3>3. [Watching.inARow EXCEPT ![p] = 2] \in [Pool -> 0 .. 2]
      BY WatchingFields DEF MonitorStates
    <3> QED BY <3>2, <3>3, WatchingFields DEF MonitorStates
  <2>2. CASE ~monitor.missed[p]
    <3>1. monitor.inARow[p] = 0
      BY <1>5, <2>2 DEF LateAnswer, Looking
    <3> QED BY <1>5, <2>2, <3>1, LateForm
  <2> QED BY <2>1, <2>2
<1>6. CASE StartBuild \/ BuildFails \/ CommitBuild \/ AfterCommit \/ Restarted \/ BackendStarts
          \/ ServiceEnds \/ BeginStop \/ MarkStopping \/ StopService \/ StopWatcher \/
          ClearMark \/ StartMissing \/ UNCHANGED watchVars
  BY <1>6 DEF StartBuild, BuildFails, CommitBuild, AfterCommit, Restarted, BackendStarts,
         ServiceEnds, BeginStop, MarkStopping, StopService, StopWatcher, ClearMark,
         StartMissing, watchVars
<1> QED
  BY <1>1, <1>2, <1>3, <1>4, <1>5, <1>6 DEF WatchNext

\* Gate, mark and process, step by step.
LEMMA GatedStep == WatchInv /\ [WatchNext]_watchVars => BuildIsGated'
<1> SUFFICES ASSUME WatchInv, [WatchNext]_watchVars PROVE BuildIsGated'
  OBVIOUS
<1> USE DEF WatchInv, BuildTyped, BuildIsGated, Stopped
<1>1. CASE StartBuild
  BY <1>1, NoBuildFields DEF StartBuild
<1>2. CASE BuildFails
  BY <1>2, NoBuildFields DEF BuildFails
<1>3. CASE CommitBuild
  BY <1>3, CommitForm, NoBuildFields
<1>4. CASE AfterCommit
  BY <1>4, AfterForm, NoBuildFields
<1>5. CASE Restarted
  BY <1>5, NoBuildFields DEF Restarted
<1>6. CASE BackendStarts
  BY <1>6 DEF BackendStarts
<1>7. CASE ServiceEnds
  BY <1>7 DEF ServiceEnds
<1>8. CASE BeginStop
  BY <1>8 DEF BeginStop
<1>9. CASE MarkStopping
  BY <1>9 DEF MarkStopping
<1>10. CASE StopService
  BY <1>10 DEF StopService
<1>11. CASE StopWatcher
  BY <1>11, NoBuildFields DEF StopWatcher
<1>12. CASE ClearMark
  BY <1>12 DEF ClearMark
<1>13. CASE StartMissing
  BY <1>13 DEF StartMissing
<1>14. CASE TaskBegins
  BY <1>14 DEF TaskBegins
<1>15. CASE TakeGates
  BY <1>15 DEF TakeGates
<1>16. ASSUME NEW p \in Pool, GoodAnswer(p) PROVE BuildIsGated'
  BY <1>16 DEF GoodAnswer, Looking, LeaveGates, Cancel
<1>17. ASSUME NEW p \in Pool, LateAnswer(p) PROVE BuildIsGated'
  BY <1>17 DEF LateAnswer, Looking, LeaveGates, After
<1>18. CASE Tick \/ UNCHANGED watchVars
  BY <1>18 DEF Tick, watchVars, Cancel
<1> QED
  BY <1>1, <1>2, <1>3, <1>4, <1>5, <1>6, <1>7, <1>8, <1>9, <1>10, <1>11, <1>12, <1>13,
     <1>14, <1>15, <1>16, <1>17, <1>18 DEF WatchNext

\* The marker, the commit that wrote it, and the build that saw it, step by step.
LEMMA SuccessStep == WatchInv /\ [WatchNext]_watchVars => SuccessIsEarlier'
<1> SUFFICES ASSUME WatchInv, [WatchNext]_watchVars PROVE SuccessIsEarlier'
  OBVIOUS
<1> USE DEF WatchInv, BuildTyped, BuildIsGated, SuccessIsEarlier
<1>1. CASE StartBuild
  BY <1>1, NoBuildFields DEF StartBuild
<1>2. CASE BuildFails
  BY <1>2, NoBuildFields DEF BuildFails
<1>3. CASE CommitBuild
  <2>1. CASE build' = NoBuild /\ UNCHANGED <<built, commits, first>>
    BY <2>1, NoBuildFields
  <2>2. CASE /\ built' = TRUE /\ commits' = commits + 1 /\ build.pc = "run"
             /\ first' = IF built THEN first ELSE commits + 1
             /\ build'.pc = "marked" /\ build'.n = commits + 1 /\ build'.had = build.had
    <3>1. first' \in 1 .. commits'
      BY <2>2
    <3>2. build.had => first' \in 1 .. build'.n - 1
      BY <2>2
    <3> QED BY <2>2, <3>1, <3>2
  <2> QED BY <1>3, <2>1, <2>2, CommitForm
<1>4. CASE AfterCommit
  BY <1>4, AfterForm, NoBuildFields
<1>5. CASE Restarted
  BY <1>5, NoBuildFields DEF Restarted
<1>6. CASE StopWatcher
  BY <1>6, NoBuildFields DEF StopWatcher
<1>7. CASE StartMissing
  BY <1>7 DEF StartMissing
<1>8. CASE BackendStarts \/ ServiceEnds \/ BeginStop \/ MarkStopping \/ StopService \/
          ClearMark \/ TaskBegins \/ Tick \/ TakeGates \/ UNCHANGED watchVars
  <2>1. UNCHANGED <<build, built, first, commits>>
    BY <1>8 DEF BackendStarts, ServiceEnds, BeginStop, MarkStopping, StopService, ClearMark,
         TaskBegins, Tick, TakeGates, watchVars
  <2> QED BY <2>1
<1>9. ASSUME NEW p \in Pool, GoodAnswer(p) \/ LateAnswer(p) PROVE SuccessIsEarlier'
  <2>1. UNCHANGED <<build, built, first, commits>>
    BY <1>9 DEF GoodAnswer, LateAnswer
  <2> QED BY <2>1
<1> QED
  BY <1>1, <1>2, <1>3, <1>4, <1>5, <1>6, <1>7, <1>8, <1>9 DEF WatchNext

\* The task and its monitor, step by step.
LEMMA WatchedStep == WatchInv /\ [WatchNext]_watchVars => TaskIsWatched'
<1> SUFFICES ASSUME WatchInv, [WatchNext]_watchVars PROVE TaskIsWatched'
  OBVIOUS
<1> USE DEF WatchInv, BuildTyped, MonitorTyped, MonitorStates, BuildIsGated, Stopped, TaskIsWatched
<1>1. CASE CommitBuild
  BY <1>1 DEF CommitBuild
<1>2. CASE AfterCommit
  BY <1>2 DEF AfterCommit
<1>3. CASE Restarted
  BY <1>3 DEF Restarted
<1>4. CASE BackendStarts
  BY <1>4 DEF BackendStarts
<1>5. CASE ServiceEnds
  BY <1>5 DEF ServiceEnds
<1>6. CASE BeginStop
  BY <1>6 DEF BeginStop
<1>7. CASE MarkStopping
  BY <1>7 DEF MarkStopping
<1>8. CASE StopService
  BY <1>8 DEF StopService
<1>9. CASE StopWatcher
  BY <1>9 DEF StopWatcher
<1>10. CASE ClearMark
  BY <1>10 DEF ClearMark
<1>11. CASE StartMissing
  BY <1>11 DEF StartMissing
<1>12. CASE TaskBegins
  BY <1>12, WatchingFields DEF TaskBegins
<1>13. CASE Tick
  BY <1>13 DEF Tick, Cancel
<1>14. CASE TakeGates
  BY <1>14 DEF TakeGates
<1>15. ASSUME NEW p \in Pool, GoodAnswer(p) PROVE TaskIsWatched'
  BY <1>15 DEF GoodAnswer, Looking, LeaveGates, Cancel
<1>16. ASSUME NEW p \in Pool, LateAnswer(p) PROVE TaskIsWatched'
  BY <1>16 DEF LateAnswer, Looking, LeaveGates, After
<1>17. CASE StartBuild \/ BuildFails \/ UNCHANGED watchVars
  BY <1>17 DEF StartBuild, BuildFails, watchVars
<1> QED
  BY <1>1, <1>2, <1>3, <1>4, <1>5, <1>6, <1>7, <1>8, <1>9, <1>10, <1>11, <1>12, <1>13,
     <1>14, <1>15, <1>16, <1>17 DEF WatchNext

\* Missed deadlines, step by step.
LEMMA MissesStep == WatchInv /\ [WatchNext]_watchVars => MissesAreCounted'
<1> SUFFICES ASSUME WatchInv, [WatchNext]_watchVars PROVE MissesAreCounted'
  OBVIOUS
<1> USE DEF WatchInv, MonitorTyped, MonitorStates, MissesAreCounted
<1>1. CASE TaskBegins
  BY <1>1, WatchingFields DEF TaskBegins
<1>2. CASE Tick
  BY <1>2, WatchingFields DEF Tick, Cancel
<1>3. CASE TakeGates
  BY <1>3 DEF TakeGates
<1>4. ASSUME NEW p \in Pool, GoodAnswer(p) PROVE MissesAreCounted'
  <2>1. payload = "running"
    BY <1>4 DEF GoodAnswer, Looking
  <2>2. CASE monitor' = Watching /\ payload' = "service ended"
    BY <2>2, WatchingFields
  <2>3. CASE /\ payload' = payload /\ monitor'.missed = [monitor.missed EXCEPT ![p] = FALSE]
             /\ monitor'.inARow = [monitor.inARow EXCEPT ![p] = 0]
    BY <2>1, <2>3
  <2> QED BY <1>4, <2>2, <2>3, GoodForm
<1>5. ASSUME NEW p \in Pool, LateAnswer(p) PROVE MissesAreCounted'
  <2>1. payload = "running"
    BY <1>5 DEF LateAnswer, Looking
  <2>2. CASE monitor.missed[p]
    <3>4. monitor.inARow[p] = 1
      BY <2>1, <2>2, MissesOne
    <3>3. monitor.inARow[p] + 1 = 2
      BY ONLY <3>4
    <3>1. payload' = "deadline" /\ monitor' = [Watching EXCEPT !.inARow[p] = monitor.inARow[p] + 1]
      BY <1>5, <2>2 DEF LateAnswer
    <3>2. monitor'.inARow[p] = 2
      BY <3>1, <3>3 DEF Watching
    <3> QED BY <3>1, <3>2
  <2>3. CASE ~monitor.missed[p]
    <3>1. monitor.inARow[p] = 0
      BY <2>1, <2>3
    <3>2. /\ payload' = "running" /\ monitor'.missed = [monitor.missed EXCEPT ![p] = TRUE]
          /\ monitor'.inARow = [monitor.inARow EXCEPT ![p] = 1]
      BY <1>5, <2>1, <2>3, <3>1, LateForm
    <3> QED BY <2>1, <3>2
  <2> QED BY <2>2, <2>3
<1>6. CASE StartBuild \/ BuildFails \/ CommitBuild \/ AfterCommit \/ Restarted \/ BackendStarts
          \/ ServiceEnds \/ BeginStop \/ MarkStopping \/ StopService \/ StopWatcher \/
          ClearMark \/ StartMissing \/ UNCHANGED watchVars
  BY <1>6 DEF StartBuild, BuildFails, CommitBuild, AfterCommit, Restarted, BackendStarts,
         ServiceEnds, BeginStop, MarkStopping, StopService, StopWatcher, ClearMark,
         StartMissing, watchVars
<1> QED
  BY <1>1, <1>2, <1>3, <1>4, <1>5, <1>6 DEF WatchNext

\* Every step keeps the invariant.
LEMMA WatchStep == WatchInv /\ [WatchNext]_watchVars => WatchInv'
  BY BuildTypeStep, MonitorTypeStep, GatedStep, SuccessStep, WatchedStep, MissesStep DEF WatchInv

\* The invariant holds of every behaviour of a watched service and its client.
THEOREM WatchInvariant == WatchSpec => []WatchInv
<1>1. WatchInit => WatchInv
  <2> SUFFICES ASSUME WatchInit PROVE WatchInv
    OBVIOUS
  <2>1. BuildTyped /\ BuildIsGated /\ SuccessIsEarlier
    BY NoBuildFields DEF WatchInit, BuildTyped, BuildIsGated, Stopped, SuccessIsEarlier
  <2>2. MonitorTyped /\ TaskIsWatched /\ MissesAreCounted
    BY WatchingFields DEF WatchInit, MonitorTyped, TaskIsWatched, MissesAreCounted
  <2> QED BY <2>1, <2>2 DEF WatchInv
<1> QED BY <1>1, WatchStep, PTL DEF WatchSpec

----------------------------------------------------------------------------
(* Watched services: the properties.                                       *)

\* Builds, restarts, stops and monitoring of one service agree on whether it is meant
\* to run: none undoes or misreads what another has just done.
THEOREM WatchSteady == WatchSpec => WatchIsSteady
<1>1. WatchInv => StoppedStaysDown /\ DeadlineTwice
  BY DEF WatchInv, BuildIsGated, MissesAreCounted, StoppedStaysDown, DeadlineTwice
<1>2. WatchInv /\ [WatchNext]_watchVars
        => [proc = "up" /\ proc' = "between" => build.n # first]_watchVars
  <2> SUFFICES ASSUME WatchInv, WatchNext, proc = "up", proc' = "between" PROVE build.n # first
    OBVIOUS
  <2>1. AfterCommit
    BY DEF WatchNext, StartBuild, BuildFails, CommitBuild, Restarted, BackendStarts, ServiceEnds,
           BeginStop, MarkStopping, StopService, StopWatcher, ClearMark, StartMissing, TaskBegins,
           Tick, TakeGates, GoodAnswer, LateAnswer
  <2> QED BY <2>1 DEF AfterCommit, WatchInv, MonitorTyped, BuildTyped, SuccessIsEarlier, BuildIsGated
<1>3. WatchInv /\ [WatchNext]_watchVars
        => [payload = "running" /\ payload' = "service ended" =>
              crashed \/ control \in {"stop", "stopped", "halted", "off"}]_watchVars
  <2> SUFFICES ASSUME WatchInv, WatchNext, payload = "running", payload' = "service ended"
               PROVE  crashed \/ control \in {"stop", "stopped", "halted", "off"}
    OBVIOUS
  <2>1. GoodAnswer("worktree")
    BY DEF WatchNext, StartBuild, BuildFails, CommitBuild, AfterCommit, Restarted, BackendStarts,
           ServiceEnds, BeginStop, MarkStopping, StopService, StopWatcher, ClearMark,
           StartMissing, TaskBegins, Tick, Cancel, TakeGates, GoodAnswer, LateAnswer
  <2>2. proc \in {"ended", "down"}
    BY <2>1 DEF GoodAnswer, Looking, WatchInv, MonitorTyped, BuildTyped, TaskIsWatched, BuildIsGated
  <2> QED BY <2>2 DEF WatchInv, TaskIsWatched, BuildIsGated, Stopped
<1>4. WatchSpec => [](StoppedStaysDown /\ DeadlineTwice)
  BY <1>1, WatchInvariant, PTL
<1>5. WatchSpec => FirstBuildRestartsNothing
  BY <1>2, WatchInvariant, PTL DEF WatchSpec, FirstBuildRestartsNothing
<1>6. WatchSpec => RestartIsNoEnd
  BY <1>3, WatchInvariant, PTL DEF WatchSpec, RestartIsNoEnd
<1> QED BY <1>4, <1>5, <1>6 DEF WatchIsSteady

----------------------------------------------------------------------------
(* Watched services: the types.                                            *)

\* The remaining types of a watched service.
WatchNamed ==
  /\ buildGate \in {"free", "build", "monitor", "control"}
  /\ proc \in {"down", "up", "ended", "between"}
  /\ control \in {"on", "stop", "stopped", "halted", "off", "start", "starting"}
  /\ payload \in {"none", "running", "stopped", "service ended", "deadline"}
  /\ rounds \in 0..MaxRounds /\ lateNews \in 0..MaxLate
WatchFlags ==
  /\ mark \in BOOLEAN /\ built \in BOOLEAN /\ watcher \in BOOLEAN /\ crashed \in BOOLEAN
  /\ build.had \in BOOLEAN
\* Every commit is of a build that was started, and a running build has yet to make its.
CommitsAreBuilds ==
  /\ builds \in 0..MaxBuilds /\ commits \in 0..builds
  /\ build.pc = "run" => commits < builds
  /\ build.n \in 0..MaxBuilds /\ first \in 0..commits

LEMMA WatchNamedStep ==
  ASSUME WatchNamed, [WatchNext]_watchVars PROVE WatchNamed'
<1> USE DEF WatchNamed
<1>1. CASE StartBuild \/ BuildFails \/ CommitBuild
  BY <1>1 DEF StartBuild, BuildFails, CommitBuild
<1>2. CASE AfterCommit \/ Restarted \/ BackendStarts \/ ServiceEnds
  BY <1>2 DEF AfterCommit, Restarted, BackendStarts, ServiceEnds
<1>3. CASE BeginStop \/ MarkStopping \/ StopService \/ StopWatcher
  <2>1. /\ rounds' = rounds \/ (rounds < MaxRounds /\ rounds' = rounds + 1)
        /\ rounds \in 0..MaxRounds
    BY <1>3 DEF BeginStop, MarkStopping, StopService, StopWatcher
  <2>2. rounds' \in 0..MaxRounds
    <3> HIDE DEF WatchNamed
    <3> QED BY <2>1, WatchAssumption
  <2>3. (WatchNamed /\ rounds' \in 0..MaxRounds) => WatchNamed'
    BY <1>3 DEF BeginStop, MarkStopping, StopService, StopWatcher
  <2> QED BY <2>2, <2>3
<1>4. CASE ClearMark \/ StartMissing \/ TaskBegins
  BY <1>4 DEF ClearMark, StartMissing, TaskBegins
<1>5. CASE Tick \/ TakeGates
  BY <1>5 DEF Tick, TakeGates, Cancel
<1>6. ASSUME NEW p \in Pool, GoodAnswer(p) PROVE WatchNamed'
  BY <1>6 DEF GoodAnswer, LeaveGates, Cancel
<1>7. ASSUME NEW p \in Pool, LateAnswer(p) PROVE WatchNamed'
  <2>1. lateNews' \in 0..MaxLate
    <3>1. lateNews < MaxLate /\ lateNews' = lateNews + 1 /\ lateNews \in 0..MaxLate
      BY <1>7 DEF LateAnswer
    <3> HIDE DEF WatchNamed
    <3> QED BY <3>1, WatchAssumption
  <2>2. payload' \in {payload, "deadline"} /\ buildGate' \in {buildGate, "free"}
    BY <1>7 DEF LateAnswer, LeaveGates
  <2>3. UNCHANGED <<proc, control, rounds>>
    BY <1>7 DEF LateAnswer
  <2> QED BY <2>1, <2>2, <2>3
<1>8. CASE UNCHANGED watchVars
  BY <1>8 DEF watchVars
<1> QED BY <1>1, <1>2, <1>3, <1>4, <1>5, <1>6, <1>7, <1>8 DEF WatchNext

LEMMA WatchFlagsStep ==
  ASSUME BuildTyped, WatchFlags, [WatchNext]_watchVars PROVE WatchFlags'
<1> USE DEF WatchFlags
<1>1. NoBuild.had \in BOOLEAN
  BY DEF NoBuild
<1>2. CASE StartBuild
  <2>1. build'.had = NoBuild.had \/ build'.had = built
    BY <1>2 DEF StartBuild
  <2> QED BY <1>1, <1>2, <2>1 DEF StartBuild
<1>3. CASE CommitBuild
  <2>1. build'.had = NoBuild.had \/ build'.had = build.had
    BY <1>3, CommitForm
  <2> QED BY <1>1, <1>3, <2>1, CommitForm
<1>4. CASE AfterCommit
  <2>1. build'.had = NoBuild.had \/ build'.had = build.had
    BY <1>4 DEF AfterCommit, BuildTyped, IsBuild
  <2> QED BY <1>1, <1>4, <2>1 DEF AfterCommit
<1>5. CASE BuildFails \/ Restarted \/ StopWatcher
  BY <1>1, <1>5 DEF BuildFails, Restarted, StopWatcher
<1>6. CASE BackendStarts \/ ServiceEnds \/ BeginStop \/ MarkStopping \/ StopService
  BY <1>6 DEF BackendStarts, ServiceEnds, BeginStop, MarkStopping, StopService
<1>7. CASE ClearMark \/ StartMissing \/ TaskBegins \/ Tick \/ TakeGates
  BY <1>7 DEF ClearMark, StartMissing, TaskBegins, Tick, TakeGates
<1>8. ASSUME NEW p \in Pool, GoodAnswer(p) \/ LateAnswer(p) PROVE WatchFlags'
  BY <1>8 DEF GoodAnswer, LateAnswer
<1>9. CASE UNCHANGED watchVars
  BY <1>9 DEF watchVars
<1> QED BY <1>2, <1>3, <1>4, <1>5, <1>6, <1>7, <1>8, <1>9 DEF WatchNext

LEMMA CommitsStep ==
  ASSUME BuildTyped, SuccessIsEarlier, CommitsAreBuilds, [WatchNext]_watchVars
  PROVE  CommitsAreBuilds'
<1> USE DEF CommitsAreBuilds
<1>1. NoBuild.pc = "idle" /\ NoBuild.n = 0
  BY DEF NoBuild
<1>2. CASE StartBuild
  BY <1>1, <1>2 DEF StartBuild
<1>3. CASE CommitBuild
  <2>1. CASE build' = NoBuild
    BY <1>1, <1>3, <2>1 DEF CommitBuild
  <2>2. CASE build' # NoBuild
    <3>1. /\ commits' = commits + 1 /\ build'.pc = "marked" /\ build'.n = commits + 1
          /\ first' = (IF built THEN first ELSE commits + 1) /\ builds' = builds
      BY <1>3, <2>2, CommitForm DEF CommitBuild
    <3> QED BY <1>3, <3>1 DEF CommitBuild
  <2> QED BY <2>1, <2>2
<1>4. CASE AfterCommit
  <2>1. build'.n \in {0, build.n} /\ build'.pc \in {"idle", "restart"}
    BY <1>1, <1>4 DEF AfterCommit, BuildTyped, IsBuild
  <2> QED BY <1>4, <2>1 DEF AfterCommit
<1>5. CASE BuildFails \/ Restarted \/ StopWatcher
  BY <1>1, <1>5 DEF BuildFails, Restarted, StopWatcher
<1>6. CASE BackendStarts \/ ServiceEnds \/ BeginStop \/ MarkStopping \/ StopService
  BY <1>6 DEF BackendStarts, ServiceEnds, BeginStop, MarkStopping, StopService
<1>7. CASE ClearMark \/ StartMissing \/ TaskBegins \/ Tick \/ TakeGates
  BY <1>7 DEF ClearMark, StartMissing, TaskBegins, Tick, TakeGates
<1>8. ASSUME NEW p \in Pool, GoodAnswer(p) \/ LateAnswer(p) PROVE CommitsAreBuilds'
  BY <1>8 DEF GoodAnswer, LateAnswer
<1>9. CASE UNCHANGED watchVars
  BY <1>9 DEF watchVars
<1> QED BY <1>2, <1>3, <1>4, <1>5, <1>6, <1>7, <1>8, <1>9 DEF WatchNext

\* A watched service's state is of its types: no more commits than builds, and no
\* third deadline counted.
THEOREM WatchTypeCorrect == WatchSpec => []WatchTypeOK
<1>1. WatchInit => WatchNamed /\ CommitsAreBuilds
  BY DEF WatchInit, WatchNamed, CommitsAreBuilds, NoBuild
<1>2. WatchInit => WatchFlags
  <2>1. NoBuild.had = FALSE
    BY DEF NoBuild
  <2> QED BY <2>1 DEF WatchInit, WatchFlags
<1>3. WatchInv /\ WatchNamed /\ WatchFlags /\ CommitsAreBuilds => WatchTypeOK
  <2> SUFFICES ASSUME WatchInv, WatchNamed, WatchFlags, CommitsAreBuilds PROVE WatchTypeOK
    OBVIOUS
  <2>1. build \in [pc : {"idle", "run", "commit", "marked", "restart"}, had : BOOLEAN,
                   n : 0..MaxBuilds]
    <3>1. /\ build = [pc |-> build.pc, had |-> build.had, n |-> build.n]
          /\ build.pc \in {"idle", "run", "commit", "marked", "restart"}
      BY DEF WatchInv, BuildTyped, IsBuild
    <3>2. build.had \in BOOLEAN /\ build.n \in 0..MaxBuilds
      BY DEF WatchFlags, CommitsAreBuilds
    <3> QED BY <3>1, <3>2
  <2>2. builds \in 0..MaxBuilds /\ commits \in 0..MaxBuilds /\ first \in 0..MaxBuilds
    BY DEF CommitsAreBuilds
  <2>3. mark \in BOOLEAN /\ built \in BOOLEAN /\ watcher \in BOOLEAN /\ crashed \in BOOLEAN
    BY DEF WatchFlags
  <2>4. monitor \in [at : Pool \cup {"tick"}, missed : [Pool -> BOOLEAN],
                     inARow : [Pool -> 0..2], looking : BOOLEAN]
    BY DEF WatchInv, MonitorTyped, MonitorStates
  <2> HIDE DEF Pool
  <2> QED BY <2>1, <2>2, <2>3, <2>4 DEF WatchNamed, WatchTypeOK
<1>4. WatchInv => BuildTyped /\ SuccessIsEarlier
  BY DEF WatchInv
<1> QED BY <1>1, <1>2, <1>3, <1>4, WatchInvariant, WatchNamedStep, WatchFlagsStep, CommitsStep,
           PTL DEF WatchSpec
HIDE WatchAssumption DEF Pool, HadSuccess, StopSeen, MonitorGate

----------------------------------------------------------------------------
(* The terminal: the invariant.                                            *)

\* The task's group has the terminal only while its settings are kept for the shell,
\* and not while the owner starts, stops or is over.
TerminalIsLent ==
  /\ group = "task" => tty /\ settings = "shell"
                       /\ owner \notin {"starts", "stops", "paused", "ended"}
  /\ group # "task" => modes = "shell"
  /\ owner \in {"reclaims", "stops", "paused", "continues"} => tty

TerminalInv == TerminalIsLent /\ CancelledTaskRuns

\* Who has the terminal, and whose settings it bears.
LEMMA TerminalLentStep == TerminalInv /\ [TerminalNext]_ttyVars => TerminalIsLent'
<1> SUFFICES ASSUME TerminalInv, [TerminalNext]_ttyVars PROVE TerminalIsLent'
  OBVIOUS
<1> USE DEF TerminalInv, TerminalIsLent, terminalState, taskState, shellState,
            Continued, ContinueTask, Lent, Reclaimed, Key
<1>1. CASE StartTask
  BY <1>1 DEF StartTask
<1>2. CASE CollectSignal
  BY <1>2 DEF CollectSignal, ResumesFirst
<1>3. CASE CollectStop
  BY <1>3 DEF CollectStop
<1>4. CASE ReclaimStopped
  BY <1>4 DEF ReclaimStopped
<1>5. CASE StopJob
  BY <1>5 DEF StopJob
<1>6. CASE ResumeTask
  BY <1>6 DEF ResumeTask, Refreshed
<1>7. CASE WakeTask
  BY <1>7 DEF WakeTask
<1>8. CASE CollectExit
  BY <1>8 DEF CollectExit
<1>9. CASE PropagateStop
  BY <1>9 DEF PropagateStop
<1>10. CASE EndSequence
  BY <1>10 DEF EndSequence
<1>11. CASE EndAnchor
  BY <1>11 DEF EndAnchor
<1>12. CASE ChangeModes
  BY <1>12 DEF ChangeModes
<1>13. ASSUME NEW which \in {"group", "sequence"}, StopTask(which) PROVE TerminalIsLent'
  BY <1>13 DEF StopTask
<1>14. CASE CancelOwner
  BY <1>14 DEF CancelOwner
<1>15. CASE ShellTakes
  BY <1>15 DEF ShellTakes
<1>16. ASSUME NEW b \in BOOLEAN, ShellContinues(b) PROVE TerminalIsLent'
  BY <1>16 DEF ShellContinues
<1>17. CASE UNCHANGED ttyVars
  BY <1>17 DEF ttyVars
<1> QED
  BY <1>1, <1>2, <1>3, <1>4, <1>5, <1>6, <1>7, <1>8, <1>9, <1>10, <1>11, <1>12, <1>13, <1>14,
     <1>15, <1>16, <1>17 DEF TerminalNext, OwnerStep

\* A cancelled task is not left stopped.
LEMMA CancelledStep == TerminalInv /\ [TerminalNext]_ttyVars => CancelledTaskRuns'
<1> SUFFICES ASSUME TerminalInv, [TerminalNext]_ttyVars PROVE CancelledTaskRuns'
  OBVIOUS
<1> USE DEF TerminalInv, CancelledTaskRuns, terminalState, taskState,
            shellState, Continued, ContinueTask, Lent, Reclaimed, Key
<1>1. CASE StartTask
  BY <1>1 DEF StartTask
<1>2. CASE CollectSignal
  BY <1>2 DEF CollectSignal, ResumesFirst
<1>3. CASE CollectStop
  BY <1>3 DEF CollectStop
<1>4. CASE ReclaimStopped
  BY <1>4 DEF ReclaimStopped
<1>5. CASE StopJob
  BY <1>5 DEF StopJob
<1>6. CASE ResumeTask
  BY <1>6 DEF ResumeTask, Refreshed
<1>7. CASE WakeTask
  BY <1>7 DEF WakeTask
<1>8. CASE CollectExit
  BY <1>8 DEF CollectExit
<1>9. CASE PropagateStop
  BY <1>9 DEF PropagateStop
<1>10. CASE EndSequence
  BY <1>10 DEF EndSequence
<1>11. CASE EndAnchor
  BY <1>11 DEF EndAnchor
<1>12. CASE ChangeModes
  BY <1>12 DEF ChangeModes
<1>13. ASSUME NEW which \in {"group", "sequence"}, StopTask(which) PROVE CancelledTaskRuns'
  BY <1>13 DEF StopTask
<1>14. CASE CancelOwner
  BY <1>14 DEF CancelOwner
<1>15. CASE ShellTakes
  BY <1>15 DEF ShellTakes
<1>16. ASSUME NEW b \in BOOLEAN, ShellContinues(b) PROVE CancelledTaskRuns'
  BY <1>16 DEF ShellContinues
<1>17. CASE UNCHANGED ttyVars
  BY <1>17 DEF ttyVars
<1> QED
  BY <1>1, <1>2, <1>3, <1>4, <1>5, <1>6, <1>7, <1>8, <1>9, <1>10, <1>11, <1>12, <1>13, <1>14,
     <1>15, <1>16, <1>17 DEF TerminalNext, OwnerStep

\* Every step keeps the invariant.
LEMMA TerminalStep == TerminalInv /\ [TerminalNext]_ttyVars => TerminalInv'
  BY TerminalLentStep, CancelledStep DEF TerminalInv

\* The invariant holds of every behaviour of task, owner and shell.
THEOREM TerminalInvariant == TerminalSpec => []TerminalInv
<1>1. TerminalInit => TerminalInv
  BY DEF TerminalInit, TerminalInv, TerminalIsLent, CancelledTaskRuns
<1> QED BY <1>1, TerminalStep, PTL DEF TerminalSpec

\* A task that is over or stopped has given the terminal back, with the shell's settings;
\* a cancelled one is not left stopped.
THEOREM TerminalReturns == TerminalSpec => [](TerminalComesBack /\ CancelledTaskRuns)
<1>1. TerminalInv => TerminalComesBack /\ CancelledTaskRuns
  BY DEF TerminalInv, TerminalIsLent, TerminalComesBack
<1> QED BY <1>1, TerminalInvariant, PTL

\* While the shell has the terminal, only the shell gives it away.
THEOREM ShellKeeps == TerminalSpec => ShellKeepsTerminal
<1>1. [TerminalNext]_ttyVars => [group = "shell" /\ owner' # owner => group' = "shell"]_ttyVars
  BY DEF TerminalNext, OwnerStep, StartTask, CollectSignal, CollectStop, ReclaimStopped,
         StopJob, ResumeTask, WakeTask, CollectExit, PropagateStop, EndSequence, EndAnchor,
         ChangeModes, StopTask, CancelOwner, ShellTakes, ShellContinues, Reclaimed, Lent,
         terminalState, taskState, shellState
<1> QED BY <1>1, PTL DEF TerminalSpec, ShellKeepsTerminal

----------------------------------------------------------------------------
(* The terminal: the types.                                                *)

USE TerminalAssumption
\* What the components of the state are called, and which are yes or no.
TerminalNamed ==
  /\ group \in {"shell", "job", "task"} /\ modes \in {"shell", "task"}
  /\ owner \in {"starts", "waits", "reclaims", "stops", "paused", "continues", "ended"}
  /\ settings \in {"none", "shell", "task"} /\ kept \in {"none", "shell", "task"}
  /\ anchor \in {"new", "runs", "stopped", "ended"}
  /\ sequence \in {"new", "runs", "stopped", "ended"} /\ keys \in 0..MaxKeys
TerminalFlags ==
  /\ stopped \in BOOLEAN /\ interrupted \in BOOLEAN /\ arrived \in BOOLEAN
  /\ resumed \in BOOLEAN /\ anchorNews \in BOOLEAN /\ sequenceNews \in BOOLEAN
  /\ term \in BOOLEAN /\ tty \in BOOLEAN

LEMMA TerminalNamedStep ==
 ASSUME TerminalNamed, [TerminalNext]_ttyVars PROVE TerminalNamed'
<1> USE DEF TerminalNamed, terminalState, taskState, shellState, Continued, ContinueTask
<1>1. CASE UNCHANGED ttyVars
  BY <1>1 DEF ttyVars
<1>2. CASE StartTask
  BY <1>2 DEF StartTask
<1>3. CASE CollectSignal
  BY <1>3 DEF CollectSignal
<1>4. CASE CollectStop
  BY <1>4 DEF CollectStop
<1>5. CASE ReclaimStopped
  BY <1>5 DEF ReclaimStopped, Reclaimed
<1>6. CASE StopJob
  BY <1>6 DEF StopJob
<1>7. CASE ResumeTask
  BY <1>7 DEF ResumeTask, Refreshed
<1>8. CASE WakeTask
  BY <1>8 DEF WakeTask
<1>9. CASE CollectExit
  BY <1>9 DEF CollectExit, Reclaimed
<1>10. CASE PropagateStop
  BY <1>10 DEF PropagateStop
<1>11. CASE EndSequence
  BY <1>11 DEF EndSequence
<1>12. CASE EndAnchor
  BY <1>12 DEF EndAnchor
<1>13. CASE ChangeModes
  BY <1>13 DEF ChangeModes
<1>14. CASE CancelOwner
  BY <1>14 DEF CancelOwner, Key
<1>15. CASE ShellTakes
  BY <1>15 DEF ShellTakes
<1>16. ASSUME NEW which, StopTask(which) PROVE TerminalNamed'
  BY <1>16 DEF StopTask, Key
<1>17. ASSUME NEW b \in BOOLEAN, ShellContinues(b) PROVE TerminalNamed'
  BY <1>17 DEF ShellContinues, Key
<1> QED BY <1>1, <1>2, <1>3, <1>4, <1>5, <1>6, <1>7, <1>8, <1>9, <1>10, <1>11, <1>12, <1>13, <1>14, <1>15, <1>16, <1>17
  DEF TerminalNext, OwnerStep

LEMMA TerminalFlagsStep ==
 ASSUME TerminalFlags, [TerminalNext]_ttyVars PROVE TerminalFlags'
<1> USE DEF TerminalFlags, terminalState, taskState, shellState, ContinueTask
<1>1. CASE UNCHANGED ttyVars
  BY <1>1 DEF ttyVars
<1>2. CASE StartTask
  BY <1>2 DEF StartTask
<1>3. CASE CollectSignal
  BY <1>3 DEF CollectSignal
<1>4. CASE CollectStop
  BY <1>4 DEF CollectStop
<1>5. CASE ReclaimStopped
  BY <1>5 DEF ReclaimStopped, Reclaimed
<1>6. CASE StopJob
  BY <1>6 DEF StopJob
<1>7. CASE ResumeTask
  BY <1>7 DEF ResumeTask, Refreshed
<1>8. CASE WakeTask
  BY <1>8 DEF WakeTask
<1>9. CASE CollectExit
  BY <1>9 DEF CollectExit, Reclaimed
<1>10. CASE PropagateStop
  BY <1>10 DEF PropagateStop
<1>11. CASE EndSequence
  BY <1>11 DEF EndSequence
<1>12. CASE EndAnchor
  BY <1>12 DEF EndAnchor
<1>13. CASE ChangeModes
  BY <1>13 DEF ChangeModes
<1>14. CASE CancelOwner
  BY <1>14 DEF CancelOwner, Key
<1>15. CASE ShellTakes
  BY <1>15 DEF ShellTakes
<1>16. ASSUME NEW which, StopTask(which) PROVE TerminalFlags'
  BY <1>16 DEF StopTask, Key
<1>17. ASSUME NEW b \in BOOLEAN, ShellContinues(b) PROVE TerminalFlags'
  BY <1>17 DEF ShellContinues, Key
<1> QED BY <1>1, <1>2, <1>3, <1>4, <1>5, <1>6, <1>7, <1>8, <1>9, <1>10, <1>11, <1>12, <1>13, <1>14, <1>15, <1>16, <1>17
  DEF TerminalNext, OwnerStep

THEOREM TerminalTypeCorrect == TerminalSpec => []TerminalTypeOK
<1>1. TerminalInit => TerminalNamed
  BY DEF TerminalInit, TerminalNamed
<1>2. TerminalInit => TerminalFlags
  BY DEF TerminalInit, TerminalFlags
<1>3. TerminalNamed /\ TerminalFlags => TerminalTypeOK
  BY DEF TerminalNamed, TerminalFlags, TerminalTypeOK
<1> QED BY <1>1, <1>2, <1>3, TerminalNamedStep, TerminalFlagsStep, PTL DEF TerminalSpec
HIDE TerminalAssumption

----------------------------------------------------------------------------
(* Shared resources: the invariant.                                        *)

USE SharingAssumption DEF Actor, Resources, ScopeNames

IsPlaces(w) ==
  /\ w = [c \in Client |-> w[c]]
  /\ \A c \in Client : w[c].pc \in Stations /\ w[c].i \in 0 .. 3
ScopesTyped ==
  /\ IsPlaces(where)
  /\ scopeGates \in [ScopeNames -> Actor \cup {Nobody}]
  /\ claimFile \in [Client -> {"none", "locked", "file"}]
  /\ claims \in [{"net", "data"} -> SUBSET Client]
  /\ probing \in [Actor -> Client \cup {Nobody}]
  /\ up \in [ScopeNames -> BOOLEAN]
  /\ reset \in [pc : {"idle", "enter", "visit", "clear", "end"}, i : 1 .. 3, of : Tree]

\* A client's lease is locked from its admission to its return, or its death.
LeaseOf(c) ==
  /\ claimFile[c] = "locked" <=> where[c].pc \in {"enter", "visit", "run"}
  /\ where[c].pc = "idle" => claimFile[c] = "none"
  /\ where[c].pc = "enter" => where[c].i \in 1 .. 3
  /\ where[c].pc = "prune" => where[c].i \in 0 .. 2
  /\ where[c].pc \in {"visit", "sweep"} => where[c].i \in 1 .. 2
LeasesAreLocked == \A c \in Client : LeaseOf(c)

\* A lease that somebody looks at was not locked by its client, and will not be again.
ProbesMissLocks ==
  \A a \in Actor, c \in Client :
    probing[a] = c => claimFile[c] # "locked" /\ where[c].pc # "idle"

Within(c, i) == where[c].pc \in {"visit", "sweep"} /\ where[c].i = i
HasNetwork ==
  \/ reset.pc = "clear"
  \/ reset.pc = "visit" /\ reset.i \in 2 .. 3
  \/ reset.pc = "enter" /\ reset.i = 3
HasData == reset.pc = "clear" \/ (reset.pc = "visit" /\ reset.i = 3)
\* Clients keep one resource for a moment, a reset what it has reached.
GatesAreHeld ==
  /\ \A c \in Client : /\ scopeGates["net"] = c <=> Within(c, 1)
                       /\ scopeGates["data"] = c <=> Within(c, 2)
  /\ scopeGates["net"] = Reset <=> HasNetwork
  /\ scopeGates["data"] = Reset <=> HasData
  /\ reset.pc = "idle" => reset.i = 1
  /\ reset.pc = "enter" => reset.i \in 2 .. 3

\* What a client has claimed on its way in, a living client keeps.
Networked(c) == where[c].pc = "run" \/ (where[c].pc \in {"enter", "visit"} /\ where[c].i \in 2 .. 3)
Supplied(c) == where[c].pc = "run" \/ (where[c].pc = "enter" /\ where[c].i = 3)
ClaimOf(c) ==
  /\ Networked(c) => c \in claims["net"] /\ up["net"]
  /\ Supplied(c) => c \in claims["data"] /\ up["data"] /\ volume = inputs[c]
  /\ where[c].pc = "run" => up[TreeOf[c]]
\* What a reset has found unclaimed stays so.
ResetIsAlone ==
  /\ reset.pc \in {"enter", "visit"} /\ reset.i = 3 => claims["net"] = {}
  /\ reset.pc = "clear" => claims["net"] = {} /\ claims["data"] = {}
ClaimsAreKept == (\A c \in Client : ClaimOf(c)) /\ ResetIsAlone

SharingInv ==
  ScopesTyped /\ LeasesAreLocked /\ ProbesMissLocks /\ GatesAreHeld /\ ClaimsAreKept

----------------------------------------------------------------------------
(* Shared resources: what the handlers do.                                 *)

\* Where a client is.
LEMMA PlaceTyped ==
  ASSUME ScopesTyped, NEW c \in Client
  PROVE  where[c].pc \in Stations /\ where[c].i \in 0 .. 3
BY DEF ScopesTyped, IsPlaces

\* Where a handler leaves its client, and the others where they were.
MovesTo(c, pc, i) ==
  /\ IsPlaces(where') /\ where'[c].pc = pc /\ where'[c].i = i
  /\ \A d \in Client \ {c} : where'[d] = where[d]

\* The place given to a client is where it is next.
LEMMA PlaceForm ==
  ASSUME ScopesTyped, NEW c \in Client, NEW v, v.pc \in Stations, v.i \in 0 .. 3,
         where' = [where EXCEPT ![c] = v]
  PROVE  MovesTo(c, v.pc, v.i)
BY DEF ScopesTyped, IsPlaces, MovesTo

\* One lemma for each place that a handler names.
LEMMA GoesEnter ==
  ASSUME ScopesTyped, NEW c \in Client, Move(c, "enter", 1, TRUE) PROVE MovesTo(c, "enter", 1)
<1> DEFINE v == [pc |-> "enter", i |-> 1, ok |-> TRUE]
<1>1. v.pc = "enter" /\ v.i = 1 /\ where' = [where EXCEPT ![c] = v]
  BY DEF Move
<1>2. v.pc \in Stations /\ v.i \in 0 .. 3
  BY DEF Stations
<1> HIDE DEF v
<1> QED BY <1>1, <1>2, PlaceForm

\* ... the task begins,
LEMMA GoesRun ==
  ASSUME ScopesTyped, NEW c \in Client, Move(c, "run", 0, TRUE) PROVE MovesTo(c, "run", 0)
<1> DEFINE v == [pc |-> "run", i |-> 0, ok |-> TRUE]
<1>1. v.pc = "run" /\ v.i = 0 /\ where' = [where EXCEPT ![c] = v]
  BY DEF Move
<1>2. v.pc \in Stations /\ v.i \in 0 .. 3
  BY DEF Stations
<1> HIDE DEF v
<1> QED BY <1>1, <1>2, PlaceForm

\* ... the task ends,
LEMMA GoesEnding ==
  ASSUME ScopesTyped, NEW c \in Client, Move(c, "ending", 0, TRUE) PROVE MovesTo(c, "ending", 0)
<1> DEFINE v == [pc |-> "ending", i |-> 0, ok |-> TRUE]
<1>1. v.pc = "ending" /\ v.i = 0 /\ where' = [where EXCEPT ![c] = v]
  BY DEF Move
<1>2. v.pc \in Stations /\ v.i \in 0 .. 3
  BY DEF Stations
<1> HIDE DEF v
<1> QED BY <1>1, <1>2, PlaceForm

\* ... its worktree is released,
LEMMA GoesPrune ==
  ASSUME ScopesTyped, NEW c \in Client, Move(c, "prune", 2, TRUE) PROVE MovesTo(c, "prune", 2)
<1> DEFINE v == [pc |-> "prune", i |-> 2, ok |-> TRUE]
<1>1. v.pc = "prune" /\ v.i = 2 /\ where' = [where EXCEPT ![c] = v]
  BY DEF Move
<1>2. v.pc \in Stations /\ v.i \in 0 .. 3
  BY DEF Stations
<1> HIDE DEF v
<1> QED BY <1>1, <1>2, PlaceForm

\* ... or was refused,
LEMMA GoesBack ==
  ASSUME ScopesTyped, NEW c \in Client, Move(c, "prune", 2, FALSE) PROVE MovesTo(c, "prune", 2)
<1> DEFINE v == [pc |-> "prune", i |-> 2, ok |-> FALSE]
<1>1. v.pc = "prune" /\ v.i = 2 /\ where' = [where EXCEPT ![c] = v]
  BY DEF Move
<1>2. v.pc \in Stations /\ v.i \in 0 .. 3
  BY DEF Stations
<1> HIDE DEF v
<1> QED BY <1>1, <1>2, PlaceForm

\* ... the client is killed,
LEMMA GoesDead ==
  ASSUME ScopesTyped, NEW c \in Client, Move(c, "dead", 0, FALSE) PROVE MovesTo(c, "dead", 0)
<1> DEFINE v == [pc |-> "dead", i |-> 0, ok |-> FALSE]
<1>1. v.pc = "dead" /\ v.i = 0 /\ where' = [where EXCEPT ![c] = v]
  BY DEF Move
<1>2. v.pc \in Stations /\ v.i \in 0 .. 3
  BY DEF Stations, Ended
<1> HIDE DEF v
<1> QED BY <1>1, <1>2, PlaceForm

\* ... a resource is claimed and the next one is due,
LEMMA GoesOn ==
  ASSUME ScopesTyped, NEW c \in Client, where[c].i + 1 \in 0 .. 3,
         Move(c, "enter", where[c].i + 1, TRUE)
  PROVE  MovesTo(c, "enter", where[c].i + 1)
<1> DEFINE v == [pc |-> "enter", i |-> where[c].i + 1, ok |-> TRUE]
<1>1. v.pc = "enter" /\ v.i = where[c].i + 1 /\ where' = [where EXCEPT ![c] = v]
  BY DEF Move
<1>2. v.pc \in Stations
  BY DEF Stations
<1> HIDE DEF v
<1> QED BY <1>1, <1>2, PlaceForm

\* ... a resource is entered, on the way in or out,
LEMMA GoesVisit ==
  ASSUME ScopesTyped, NEW c \in Client, EnterResource(c)
  PROVE  MovesTo(c, IF where[c].pc = "enter" THEN "visit" ELSE "sweep", where[c].i)
<1> DEFINE pc == IF where[c].pc = "enter" THEN "visit" ELSE "sweep"
           v == [pc |-> pc, i |-> where[c].i, ok |-> where[c].ok]
<1>1. v.pc = pc /\ v.i = where[c].i /\ where' = [where EXCEPT ![c] = v]
  BY DEF EnterResource, Move
<1>2. pc \in Stations /\ where[c].i \in 0 .. 3
  BY PlaceTyped DEF Stations
<1> HIDE DEF v, pc
<1>3. MovesTo(c, pc, where[c].i)
  BY <1>1, <1>2, PlaceForm
<1> QED BY <1>3 DEF pc

\* ... a resource is pruned and the one before it is due,
LEMMA GoesDown ==
  ASSUME ScopesTyped, NEW c \in Client, PruneResource(c), where[c].i - 1 \in 0 .. 3
  PROVE  MovesTo(c, "prune", where[c].i - 1)
<1> DEFINE v == [pc |-> "prune", i |-> where[c].i - 1, ok |-> where[c].ok]
<1>1. v.pc = "prune" /\ v.i = where[c].i - 1 /\ where' = [where EXCEPT ![c] = v]
  BY DEF PruneResource, Move
<1>2. v.pc \in Stations
  BY DEF Stations
<1> HIDE DEF v
<1> QED BY <1>1, <1>2, PlaceForm

\* ... the worktree is left.
LEMMA GoesOut ==
  ASSUME ScopesTyped, NEW c \in Client, LeaveTree(c)
  PROVE  MovesTo(c, IF where[c].ok THEN "done" ELSE "failed", 0)
<1> DEFINE pc == IF where[c].ok THEN "done" ELSE "failed"
           v == [pc |-> pc, i |-> 0, ok |-> where[c].ok]
<1>1. v.pc = pc /\ v.i = 0 /\ where' = [where EXCEPT ![c] = v]
  BY DEF LeaveTree, Move
<1>2. pc \in Stations /\ v.i \in 0 .. 3
  BY DEF Stations, Ended
<1> HIDE DEF v, pc
<1>3. MovesTo(c, pc, 0)
  BY <1>1, <1>2, PlaceForm
<1> QED BY <1>3 DEF pc

\* active() drops only lease files that nobody has locked.
LEMMA ReapedForm ==
  ASSUME ScopesTyped, NEW t
  PROVE  /\ Reaped(t) \in [Client -> {"none", "locked", "file"}]
         /\ \A d \in Client : \/ Reaped(t)[d] = claimFile[d]
                              \/ claimFile[d] = "file" /\ Reaped(t)[d] = "none"
BY DEF ScopesTyped, Reaped, Dead

\* A scope without users has no client there that runs.
LEMMA UsersForm ==
  ASSUME ScopesTyped, NEW c \in Client, claimFile[c] = "locked"
  PROVE  c \in Users(TreeOf[c])
BY DEF ScopesTyped, Users, Dead

\* A dropped claim is the only one that goes, whatever the visitor looks at.
LEMMA ClaimForm ==
  ASSUME ScopesTyped, NEW a, NEW c \in Client,
         claims' = [claims EXCEPT ![Visited(a)] = @ \ {c}]
  PROVE  /\ claims' \in [{"net", "data"} -> SUBSET Client]
         /\ \A r \in {"net", "data"} : /\ claims'[r] \subseteq claims[r]
                                         /\ claims[r] \ {c} \subseteq claims'[r]
<1> DEFINE v == Visited(a)
<1>1. claims' = [claims EXCEPT ![v] = claims[v] \ {c}]
  OBVIOUS
<1> HIDE DEF v
<1>2. \A r \in {"net", "data"} : claims'[r] = IF r = v THEN claims[r] \ {c} ELSE claims[r]
  BY <1>1 DEF ScopesTyped
<1>3. \A r \in {"net", "data"} : claims'[r] \in SUBSET Client
  BY <1>2 DEF ScopesTyped
<1>4. claims' = [r \in {"net", "data"} |-> claims'[r]]
  BY <1>1 DEF ScopesTyped
<1>5. claims' \in [{"net", "data"} -> SUBSET Client]
  BY <1>3, <1>4
<1> QED BY <1>2, <1>5

\* The resource a client visits.
LEMMA VisitedName ==
  ASSUME ScopesTyped, NEW c \in Client, where[c].i \in 1 .. 2
  PROVE  /\ Visited(c) = IF where[c].i = 1 THEN "net" ELSE "data"
         /\ Visited(c) = Resources[where[c].i]
BY DEF Visited

\* The scope a reset has reached.
LEMMA ResetName ==
  ASSUME ScopesTyped
  PROVE  /\ reset.i = 1 => ResetOrder(reset.of)[reset.i] = reset.of
         /\ reset.i = 2 => ResetOrder(reset.of)[reset.i] = "net"
         /\ reset.i = 3 => ResetOrder(reset.of)[reset.i] = "data"
         /\ reset.of \in Tree /\ reset.i \in 1 .. 3
BY DEF ScopesTyped, ResetOrder

\* A claim at a resource: refused, and the worktree released, or recorded.
LEMMA ClaimResourceForm ==
  ASSUME ScopesTyped, NEW c \in Client, ClaimResource(c), where[c].i \in 1 .. 2
  PROVE  LET r == Visited(c) IN
         /\ where[c].pc = "visit" /\ scopeGates' = [scopeGates EXCEPT ![r] = Nobody]
         /\ UNCHANGED <<probing, inputs, reset, disposable>>
         /\ \/ /\ claimFile' = [Reaped(TreeOf[c]) EXCEPT ![c] = "none"]
               /\ up' = [up EXCEPT ![TreeOf[c]] = up[TreeOf[c]] /\ Users(TreeOf[c]) # {c}]
               /\ Move(c, "prune", 2, FALSE) /\ UNCHANGED <<claims, volume>>
            \/ /\ volume' \in IF r = "data" THEN VolumeAfter(c, claims[r] # {}) ELSE {volume}
               /\ claims' = [claims EXCEPT ![r] = claims[r] \cup {c}]
               /\ up' = [up EXCEPT ![r] = TRUE]
               /\ Move(c, "enter", where[c].i + 1, TRUE) /\ UNCHANGED claimFile
<1> DEFINE r == Visited(c)
           inUse == claims[r] # {}
           volumes == IF r = "data" THEN VolumeAfter(c, inUse) ELSE {volume}
           refused == volumes = {} \/ (r = "net" /\ inUse /\ ~up["net"])
<1>1. CASE refused
  BY <1>1 DEF ClaimResource
<1>2. CASE ~refused
  BY <1>2 DEF ClaimResource
<1> QED BY <1>1, <1>2

\* The steps of a reset at one scope.
LEMMA ResetVisitForm ==
  ASSUME ScopesTyped, ResetVisit
  PROVE  LET s == ResetOrder(reset.of)[reset.i] IN
         /\ reset.pc = "visit"
         /\ reset' \in [pc : {"idle", "enter", "visit", "clear", "end"}, i : 1 .. 3, of : Tree]
         /\ \/ /\ reset'.pc = "end"
               /\ scopeGates' = [g \in ScopeNames |-> IF scopeGates[g] = Reset THEN Nobody
                                                    ELSE scopeGates[g]]
            \/ ~ResetUsed(s) /\ UNCHANGED scopeGates /\ reset.i = 3
               /\ reset'.pc = "clear" /\ reset'.i = 3
            \/ ~ResetUsed(s) /\ UNCHANGED scopeGates /\ reset.i \in 1 .. 2
               /\ reset'.pc = "enter" /\ reset'.i = reset.i + 1
<1> DEFINE s == ResetOrder(reset.of)[reset.i]
           States == [pc : {"idle", "enter", "visit", "clear", "end"}, i : 1 .. 3, of : Tree]
<1>1. reset \in States
  BY DEF ScopesTyped
<1>2. CASE ResetUsed(s)
  BY <1>1, <1>2 DEF ResetVisit
<1>3. CASE ~ResetUsed(s) /\ reset.i = 3
  BY <1>1, <1>3 DEF ResetVisit
<1>4. CASE ~ResetUsed(s) /\ reset.i # 3
  <2>1. reset.i \in 1 .. 2 /\ reset.i + 1 \in 1 .. 3
    BY <1>1, <1>4
  <2>2. reset' = [reset EXCEPT !.pc = "enter", !.i = reset.i + 1]
        /\ reset.pc = "visit" /\ UNCHANGED scopeGates
    BY <1>4 DEF ResetVisit
  <2>3. reset' \in States /\ reset'.pc = "enter" /\ reset'.i = reset.i + 1
    BY <1>1, <2>1, <2>2
  <2> HIDE DEF s
  <2> QED BY <1>4, <2>1, <2>2, <2>3 DEF ResetVisit
<1> QED BY <1>2, <1>3, <1>4

\* Every step keeps the types.
LEMMA ScopesTypeStep == SharingInv /\ [ScopesNext]_resourceVars => ScopesTyped'
<1> SUFFICES ASSUME SharingInv, [ScopesNext]_resourceVars PROVE ScopesTyped'
  OBVIOUS
<1>0. ScopesTyped /\ LeasesAreLocked /\ GatesAreHeld
  BY DEF SharingInv
<1> DEFINE Leases == [Client -> {"none", "locked", "file"}]
           Gates == [ScopeNames -> Actor \cup {Nobody}]
           Claims == [{"net", "data"} -> SUBSET Client]
           Probes == [Actor -> Client \cup {Nobody}]
<1>1. ASSUME NEW c \in Client, EnterTree(c) PROVE ScopesTyped'
  <2>1. IsPlaces(where')
    BY <1>0, <1>1, GoesEnter DEF EnterTree, MovesTo
  <2>2. claimFile' \in Leases
    BY <1>0, <1>1, ReapedForm DEF EnterTree
  <2>3. scopeGates' \in Gates /\ UNCHANGED <<claims, probing, up, reset>>
    BY <1>0, <1>1 DEF EnterTree, ScopesTyped
  <2> QED BY <1>0, <2>1, <2>2, <2>3 DEF ScopesTyped
<1>2. ASSUME NEW c \in Client, EnterResource(c) PROVE ScopesTyped'
  <2>1. IsPlaces(where')
    BY <1>0, <1>2, GoesVisit DEF MovesTo
  <2>2. scopeGates' \in Gates /\ UNCHANGED <<claimFile, claims, probing, up, reset>>
    BY <1>0, <1>2 DEF EnterResource, ScopesTyped
  <2> QED BY <1>0, <2>1, <2>2 DEF ScopesTyped
<1>3. ASSUME NEW c \in Client, ClaimResource(c) PROVE ScopesTyped'
  <2>1. where[c].i \in 1 .. 2
    BY <1>0, <1>3 DEF ClaimResource, LeasesAreLocked, LeaseOf
  <2>2. Visited(c) \in {"net", "data"} /\ where[c].i + 1 \in 0 .. 3
    BY <1>0, <2>1, VisitedName
  <2>3. scopeGates' \in Gates /\ UNCHANGED <<probing, reset>>
    BY <1>0, <1>3 DEF ClaimResource, ScopesTyped
  <2>4. IsPlaces(where')
    <3>1. CASE Move(c, "prune", 2, FALSE)
      BY <1>0, <3>1, GoesBack DEF MovesTo
    <3>2. CASE Move(c, "enter", where[c].i + 1, TRUE)
      BY <1>0, <2>2, <3>2, GoesOn DEF MovesTo
    <3> QED BY <1>0, <1>3, <2>1, <3>1, <3>2, ClaimResourceForm
  <2>5. claimFile' \in Leases
    <3>1. CASE claimFile' = claimFile
      BY <1>0, <3>1 DEF ScopesTyped
    <3>2. CASE claimFile' = [Reaped(TreeOf[c]) EXCEPT ![c] = "none"]
      BY <1>0, <3>2, ReapedForm
    <3> QED BY <1>0, <1>3, <2>1, <3>1, <3>2, ClaimResourceForm
  <2>6. claims' \in Claims
    <3> DEFINE v == Visited(c)
    <3>1. CASE claims' = [claims EXCEPT ![v] = claims[v] \cup {c}]
      <4> HIDE DEF v
      <4> QED BY <1>0, <3>1 DEF ScopesTyped
    <3>2. CASE claims' = claims
      BY <1>0, <3>2 DEF ScopesTyped
    <3> QED BY <1>0, <1>3, <2>1, <3>1, <3>2, ClaimResourceForm
  <2>7. up' \in [ScopeNames -> BOOLEAN]
    <3> DEFINE v == Visited(c)
    <3>1. CASE up' = [up EXCEPT ![v] = TRUE]
      <4> HIDE DEF v
      <4> QED BY <1>0, <3>1 DEF ScopesTyped
    <3>2. CASE up' = [up EXCEPT ![TreeOf[c]] = up[TreeOf[c]] /\ Users(TreeOf[c]) # {c}]
      BY <1>0, <3>2 DEF ScopesTyped
    <3> QED BY <1>0, <1>3, <2>1, <3>1, <3>2, ClaimResourceForm
  <2> QED BY <1>0, <2>3, <2>4, <2>5, <2>6, <2>7 DEF ScopesTyped
<1>4. ASSUME NEW c \in Client, StartTree(c) PROVE ScopesTyped'
  <2>1. IsPlaces(where')
    BY <1>0, <1>4, GoesRun DEF StartTree, MovesTo
  <2>2. /\ scopeGates' \in Gates /\ UNCHANGED <<claimFile, claims, probing, reset>>
        /\ up' \in [ScopeNames -> BOOLEAN]
    BY <1>0, <1>4 DEF StartTree, ScopesTyped
  <2> QED BY <1>0, <2>1, <2>2 DEF ScopesTyped
<1>5. ASSUME NEW c \in Client, TaskReturns(c) PROVE ScopesTyped'
  <2>1. IsPlaces(where')
    BY <1>0, <1>5, GoesEnding DEF TaskReturns, MovesTo
  <2>2. claimFile' \in Leases /\ UNCHANGED <<scopeGates, claims, probing, up, reset>>
    BY <1>0, <1>5 DEF TaskReturns, ScopesTyped, LeaseOnReturn
  <2> QED BY <1>0, <2>1, <2>2 DEF ScopesTyped
<1>6. ASSUME NEW c \in Client, ReleaseTree(c) PROVE ScopesTyped'
  <2>1. IsPlaces(where')
    BY <1>0, <1>6, GoesPrune DEF ReleaseTree, MovesTo
  <2>2. claimFile' \in Leases
    BY <1>0, <1>6, ReapedForm DEF ReleaseTree
  <2>3. scopeGates' \in Gates /\ UNCHANGED <<claims, probing, reset>>
    BY <1>0, <1>6 DEF ReleaseTree, ScopesTyped
  <2>4. up' \in [ScopeNames -> BOOLEAN]
    BY <1>0, <1>6 DEF ReleaseTree, ScopesTyped
  <2> QED BY <1>0, <2>1, <2>2, <2>3, <2>4 DEF ScopesTyped
<1>7. ASSUME NEW c \in Client, PruneResource(c) PROVE ScopesTyped'
  <2>1. where[c].i \in 1 .. 2
    BY <1>0, <1>7 DEF PruneResource, LeasesAreLocked, LeaseOf
  <2>2. where[c].i - 1 \in 0 .. 3
    BY <2>1
  <2>3. IsPlaces(where')
    BY <1>0, <1>7, <2>2, GoesDown DEF MovesTo
  <2> DEFINE v == Visited(c)
             stay == up[v] /\ claims[v] # {}
  <2>4. up' = [up EXCEPT ![v] = stay] /\ scopeGates' = [scopeGates EXCEPT ![v] = Nobody]
        /\ UNCHANGED <<claimFile, claims, probing, reset>>
    BY <1>7 DEF PruneResource
  <2>5. stay \in BOOLEAN
    OBVIOUS
  <2> HIDE DEF v, stay
  <2>6. up' \in [ScopeNames -> BOOLEAN]
    BY <1>0, <2>4, <2>5 DEF ScopesTyped
  <2>7. scopeGates' \in Gates
    BY <1>0, <2>4 DEF ScopesTyped
  <2> QED BY <1>0, <2>3, <2>4, <2>6, <2>7 DEF ScopesTyped
<1>8. ASSUME NEW c \in Client, LeaveTree(c) PROVE ScopesTyped'
  <2>1. IsPlaces(where')
    BY <1>0, <1>8, GoesOut DEF MovesTo
  <2>2. scopeGates' \in Gates /\ UNCHANGED <<claimFile, claims, probing, up, reset>>
    BY <1>0, <1>8 DEF LeaveTree, ScopesTyped
  <2> QED BY <1>0, <2>1, <2>2 DEF ScopesTyped
<1>9. ASSUME NEW c \in Client, Killed(c) PROVE ScopesTyped'
  <2>1. IsPlaces(where')
    BY <1>0, <1>9, GoesDead DEF Killed, MovesTo
  <2>2. scopeGates' \in Gates
    BY <1>0, <1>9 DEF Killed, ScopesTyped
  <2>3. claimFile' \in Leases /\ probing' \in Probes /\ UNCHANGED <<claims, up, reset>>
    BY <1>0, <1>9 DEF Killed, ScopesTyped
  <2> QED BY <1>0, <2>1, <2>2, <2>3 DEF ScopesTyped
<1>10. ASSUME NEW a \in Actor, EndProbe(a) PROVE ScopesTyped'
  <2>1. probing[a] \in Client /\ probing' \in Probes
    BY <1>0, <1>10 DEF EndProbe, ScopesTyped
  <2>2. claims' \in Claims
    BY <1>0, <1>10, <2>1, ClaimForm DEF EndProbe
  <2> QED BY <1>0, <1>10, <2>1, <2>2 DEF EndProbe, ScopesTyped
<1>11. ASSUME NEW a \in Actor, NEW c \in Client, LookAtClaim(a, c) PROVE ScopesTyped'
  <2>1. CASE UNCHANGED <<claims, probing>>
    BY <1>0, <1>11, <2>1 DEF LookAtClaim, ScopesTyped
  <2>2. CASE claims' = [claims EXCEPT ![Visited(a)] = @ \ {c}] /\ UNCHANGED probing
    <3>1. claims' \in Claims
      BY <1>0, <2>2, ClaimForm
    <3> QED BY <1>0, <1>11, <2>2, <3>1 DEF LookAtClaim, ScopesTyped
  <2>3. CASE probing' = [probing EXCEPT ![a] = c] /\ UNCHANGED claims
    BY <1>0, <1>11, <2>3 DEF LookAtClaim, ScopesTyped
  <2> QED BY <1>11, <2>1, <2>2, <2>3 DEF LookAtClaim
<1>12. CASE ResetGate
  <2>1. scopeGates' \in Gates
    BY <1>0, <1>12 DEF ResetGate, ScopesTyped
  <2> QED BY <1>0, <1>12, <2>1 DEF ResetGate, ScopesTyped
<1>13. CASE ResetVisit
  <2> DEFINE s == ResetOrder(reset.of)[reset.i]
  <2>1. claimFile' \in Leases
    <3>1. CASE s \in Tree
      BY <1>0, <1>13, <3>1, ReapedForm DEF ResetVisit
    <3>2. CASE s \notin Tree
      BY <1>0, <1>13, <3>2 DEF ResetVisit, ScopesTyped
    <3> QED BY <3>1, <3>2
  <2> HIDE DEF s
  <2>2. scopeGates' \in Gates
    BY <1>0, <1>13 DEF ResetVisit, ScopesTyped
  <2>3. reset' \in [pc : {"idle", "enter", "visit", "clear", "end"}, i : 1 .. 3, of : Tree]
    BY <1>0, <1>13, ResetVisitForm DEF ScopesTyped
  <2> QED BY <1>0, <1>13, <2>1, <2>2, <2>3 DEF ResetVisit, ScopesTyped
<1>14. CASE ResetClear
  <2>1. scopeGates' \in Gates
    BY <1>0, <1>14 DEF ResetClear, ScopesTyped
  <2>2. up' \in [ScopeNames -> BOOLEAN]
    BY <1>0, <1>14 DEF ResetClear, ScopesTyped
  <2> QED BY <1>0, <1>14, <2>1, <2>2 DEF ResetClear, ScopesTyped
<1>15. CASE (\E c \in Client : StatusLooks(c)) \/ StatusLeaves \/ UNCHANGED resourceVars
  BY <1>0, <1>15 DEF StatusLooks, StatusLeaves, resourceVars, ScopesTyped
<1> QED BY <1>1, <1>2, <1>3, <1>4, <1>5, <1>6, <1>7, <1>8, <1>9, <1>10, <1>11, <1>12, <1>13,
           <1>14, <1>15 DEF ScopesNext

----------------------------------------------------------------------------
(* Shared resources: leases.                                               *)

\* A client that rests keeps its lease, unless it was left behind and is reaped.
LEMMA LeaseKept ==
  ASSUME NEW d \in Client, LeaseOf(d), where'[d] = where[d],
         \/ claimFile'[d] = claimFile[d]
         \/ claimFile[d] = "file" /\ claimFile'[d] = "none"
  PROVE  LeaseOf(d)'
BY DEF LeaseOf

\* A handler that leaves its client in another place.
LEMMA LeaseMoved ==
  ASSUME LeasesAreLocked, NEW c \in Client, LeaseOf(c)',
         \A d \in Client \ {c} : /\ where'[d] = where[d]
                                 /\ \/ claimFile'[d] = claimFile[d]
                                    \/ claimFile[d] = "file" /\ claimFile'[d] = "none"
  PROVE  LeasesAreLocked'
<1> SUFFICES ASSUME NEW d \in Client PROVE LeaseOf(d)'
  BY DEF LeasesAreLocked
<1>1. CASE d = c
  BY <1>1
<1>2. CASE d # c
  BY <1>2, LeaseKept DEF LeasesAreLocked
<1> QED BY <1>1, <1>2

\* Leases, step by step.
LEMMA SharedLeaseStep == SharingInv /\ [ScopesNext]_resourceVars => LeasesAreLocked'
<1> SUFFICES ASSUME SharingInv, [ScopesNext]_resourceVars PROVE LeasesAreLocked'
  OBVIOUS
<1>0. ScopesTyped /\ LeasesAreLocked
  BY DEF SharingInv
<1>1. ASSUME NEW c \in Client, EnterTree(c) PROVE LeasesAreLocked'
  <2>1. MovesTo(c, "enter", 1)
    BY <1>0, <1>1, GoesEnter DEF EnterTree
  <2>2. claimFile'[c] = "locked"
        /\ \A d \in Client \ {c} : claimFile'[d] = Reaped(TreeOf[c])[d]
    BY <1>0, <1>1, ReapedForm DEF EnterTree
  <2>3. LeaseOf(c)'
    BY <2>1, <2>2 DEF LeaseOf, MovesTo
  <2>4. \A d \in Client \ {c} : \/ claimFile'[d] = claimFile[d]
                                \/ claimFile[d] = "file" /\ claimFile'[d] = "none"
    BY <1>0, <2>2, ReapedForm
  <2> QED BY <1>0, <2>1, <2>3, <2>4, LeaseMoved DEF MovesTo
<1>2. ASSUME NEW c \in Client, EnterResource(c) PROVE LeasesAreLocked'
  <2>1. UNCHANGED claimFile /\ where[c].pc \in {"enter", "prune"} /\ where[c].i \in 1 .. 2
    BY <1>2 DEF EnterResource
  <2>2. MovesTo(c, IF where[c].pc = "enter" THEN "visit" ELSE "sweep", where[c].i)
    BY <1>0, <1>2, GoesVisit
  <2>3. LeaseOf(c)'
    BY <1>0, <2>1, <2>2 DEF LeasesAreLocked, LeaseOf, MovesTo
  <2> QED BY <1>0, <2>1, <2>2, <2>3, LeaseMoved DEF MovesTo
<1>3. ASSUME NEW c \in Client, ClaimResource(c) PROVE LeasesAreLocked'
  <2>1. where[c].pc = "visit" /\ where[c].i \in 1 .. 2 /\ where[c].i + 1 \in 0 .. 3
    BY <1>0, <1>3 DEF ClaimResource, LeasesAreLocked, LeaseOf
  <2>2. CASE Move(c, "enter", where[c].i + 1, TRUE) /\ UNCHANGED claimFile
    <3>1. MovesTo(c, "enter", where[c].i + 1)
      BY <1>0, <2>1, <2>2, GoesOn
    <3>2. LeaseOf(c)'
      BY <1>0, <2>1, <2>2, <3>1 DEF LeasesAreLocked, LeaseOf, MovesTo
    <3> QED BY <1>0, <2>2, <3>1, <3>2, LeaseMoved DEF MovesTo
  <2>3. CASE Move(c, "prune", 2, FALSE) /\ claimFile' = [Reaped(TreeOf[c]) EXCEPT ![c] = "none"]
    <3>1. MovesTo(c, "prune", 2)
      BY <1>0, <2>3, GoesBack
    <3>2. claimFile'[c] = "none" /\ \A d \in Client \ {c} : claimFile'[d] = Reaped(TreeOf[c])[d]
      BY <1>0, <2>3, ReapedForm
    <3>3. LeaseOf(c)'
      BY <3>1, <3>2 DEF LeaseOf, MovesTo
    <3>4. \A d \in Client \ {c} : \/ claimFile'[d] = claimFile[d]
                                  \/ claimFile[d] = "file" /\ claimFile'[d] = "none"
      BY <1>0, <3>2, ReapedForm
    <3> QED BY <1>0, <3>1, <3>3, <3>4, LeaseMoved DEF MovesTo
  <2> QED BY <1>0, <1>3, <2>1, <2>2, <2>3, ClaimResourceForm
<1>4. ASSUME NEW c \in Client, StartTree(c) PROVE LeasesAreLocked'
  <2>1. MovesTo(c, "run", 0) /\ UNCHANGED claimFile /\ where[c].pc = "enter"
    BY <1>0, <1>4, GoesRun DEF StartTree
  <2>2. LeaseOf(c)'
    BY <1>0, <2>1 DEF LeasesAreLocked, LeaseOf, MovesTo
  <2> QED BY <1>0, <2>1, <2>2, LeaseMoved DEF MovesTo
<1>5. ASSUME NEW c \in Client, TaskReturns(c) PROVE LeasesAreLocked'
  <2>1. MovesTo(c, "ending", 0)
    BY <1>0, <1>5, GoesEnding DEF TaskReturns
  <2>2. claimFile'[c] = "file" /\ \A d \in Client \ {c} : claimFile'[d] = claimFile[d]
    BY <1>0, <1>5 DEF TaskReturns, LeaseOnReturn, ScopesTyped
  <2>3. LeaseOf(c)'
    BY <2>1, <2>2 DEF LeaseOf, MovesTo
  <2> QED BY <1>0, <2>1, <2>2, <2>3, LeaseMoved DEF MovesTo
<1>6. ASSUME NEW c \in Client, ReleaseTree(c) PROVE LeasesAreLocked'
  <2>1. MovesTo(c, "prune", 2) /\ claimFile' = Reaped(TreeOf[c]) /\ where[c].pc = "ending"
    BY <1>0, <1>6, GoesPrune DEF ReleaseTree
  <2>2. \A d \in Client : \/ claimFile'[d] = claimFile[d]
                          \/ claimFile[d] = "file" /\ claimFile'[d] = "none"
    BY <1>0, <2>1, ReapedForm
  <2>3. LeaseOf(c)'
    BY <1>0, <2>1, <2>2 DEF LeasesAreLocked, LeaseOf, MovesTo
  <2> QED BY <1>0, <2>1, <2>2, <2>3, LeaseMoved DEF MovesTo
<1>7. ASSUME NEW c \in Client, PruneResource(c) PROVE LeasesAreLocked'
  <2>1. where[c].pc = "sweep" /\ where[c].i \in 1 .. 2 /\ where[c].i - 1 \in 0 .. 3
        /\ UNCHANGED claimFile
    BY <1>0, <1>7 DEF PruneResource, LeasesAreLocked, LeaseOf
  <2>2. MovesTo(c, "prune", where[c].i - 1)
    BY <1>0, <1>7, <2>1, GoesDown
  <2>3. LeaseOf(c)'
    BY <1>0, <2>1, <2>2 DEF LeasesAreLocked, LeaseOf, MovesTo
  <2> QED BY <1>0, <2>1, <2>2, <2>3, LeaseMoved DEF MovesTo
<1>8. ASSUME NEW c \in Client, LeaveTree(c) PROVE LeasesAreLocked'
  <2>1. MovesTo(c, IF where[c].ok THEN "done" ELSE "failed", 0) /\ UNCHANGED claimFile
        /\ where[c].pc = "prune"
    BY <1>0, <1>8, GoesOut DEF LeaveTree
  <2>2. LeaseOf(c)'
    BY <1>0, <2>1 DEF LeasesAreLocked, LeaseOf, MovesTo
  <2> QED BY <1>0, <2>1, <2>2, LeaseMoved DEF MovesTo
<1>9. ASSUME NEW c \in Client, Killed(c) PROVE LeasesAreLocked'
  <2>1. MovesTo(c, "dead", 0)
    BY <1>0, <1>9, GoesDead DEF Killed
  <2>2. claimFile'[c] # "locked" /\ \A d \in Client \ {c} : claimFile'[d] = claimFile[d]
    BY <1>0, <1>9 DEF Killed, ScopesTyped
  <2>3. LeaseOf(c)'
    BY <2>1, <2>2 DEF LeaseOf, MovesTo
  <2> QED BY <1>0, <2>1, <2>2, <2>3, LeaseMoved DEF MovesTo
<1>10. CASE ResetVisit
  <2> DEFINE s == ResetOrder(reset.of)[reset.i]
  <2>1. UNCHANGED where /\ (claimFile' = claimFile \/ claimFile' = Reaped(s))
    BY <1>10 DEF ResetVisit
  <2> HIDE DEF s
  <2>2. \A d \in Client : \/ claimFile'[d] = claimFile[d]
                          \/ claimFile[d] = "file" /\ claimFile'[d] = "none"
    BY <1>0, <2>1, ReapedForm
  <2> QED BY <1>0, <2>1, <2>2, LeaseKept DEF LeasesAreLocked
<1>11. CASE UNCHANGED <<where, claimFile>>
  BY <1>0, <1>11 DEF LeasesAreLocked, LeaseOf
<1>12. ASSUME NEW a \in Actor, EndProbe(a) PROVE UNCHANGED <<where, claimFile>>
  BY <1>12 DEF EndProbe
<1>13. ASSUME NEW a \in Actor, NEW c \in Client, LookAtClaim(a, c) PROVE UNCHANGED <<where, claimFile>>
  BY <1>13 DEF LookAtClaim
<1>14. (\E c \in Client : StatusLooks(c)) \/ StatusLeaves \/ ResetGate \/ ResetClear
         \/ UNCHANGED resourceVars
       => UNCHANGED <<where, claimFile>>
  BY DEF StatusLooks, StatusLeaves, ResetGate, ResetClear, resourceVars
<1> QED BY <1>1, <1>2, <1>3, <1>4, <1>5, <1>6, <1>7, <1>8, <1>9, <1>10, <1>11, <1>12, <1>13,
           <1>14 DEF ScopesNext

\* A lease is locked for a moment only when its client has let go of it.
LEMMA ProbeKept ==
  ASSUME ProbesMissLocks, UNCHANGED probing,
         \A d \in Client : /\ claimFile'[d] = "locked" /\ claimFile[d] # "locked" => where[d].pc = "idle"
                           /\ where'[d].pc = "idle" => where[d].pc = "idle"
  PROVE  ProbesMissLocks'
BY DEF ProbesMissLocks

\* Looked-at leases, step by step.
LEMMA ProbeStep == SharingInv /\ [ScopesNext]_resourceVars => ProbesMissLocks'
<1> SUFFICES ASSUME SharingInv, [ScopesNext]_resourceVars PROVE ProbesMissLocks'
  OBVIOUS
<1>0. ScopesTyped /\ LeasesAreLocked /\ ProbesMissLocks
  BY DEF SharingInv
<1>1. ASSUME NEW c \in Client, EnterTree(c) PROVE ProbesMissLocks'
  <2>1. MovesTo(c, "enter", 1) /\ where[c].pc = "idle" /\ UNCHANGED probing
    BY <1>0, <1>1, GoesEnter DEF EnterTree
  <2>2. \A d \in Client \ {c} : claimFile'[d] = Reaped(TreeOf[c])[d]
    BY <1>0, <1>1, ReapedForm DEF EnterTree
  <2>3. \A d \in Client \ {c} : claimFile'[d] = "locked" => claimFile[d] = "locked"
    BY <1>0, <2>2, ReapedForm
  <2> QED BY <1>0, <2>1, <2>3, ProbeKept DEF MovesTo
<1>2. ASSUME NEW c \in Client, EnterResource(c) PROVE ProbesMissLocks'
  <2>1. UNCHANGED <<claimFile, probing>> /\ where[c].pc \in {"enter", "prune"}
    BY <1>2 DEF EnterResource
  <2>2. MovesTo(c, IF where[c].pc = "enter" THEN "visit" ELSE "sweep", where[c].i)
    BY <1>0, <1>2, GoesVisit
  <2> QED BY <1>0, <2>1, <2>2, ProbeKept DEF MovesTo
<1>3. ASSUME NEW c \in Client, ClaimResource(c) PROVE ProbesMissLocks'
  <2>1. where[c].i \in 1 .. 2 /\ where[c].i + 1 \in 0 .. 3 /\ UNCHANGED probing
    BY <1>0, <1>3 DEF ClaimResource, LeasesAreLocked, LeaseOf
  <2>2. CASE Move(c, "enter", where[c].i + 1, TRUE) /\ UNCHANGED claimFile
    <3>1. MovesTo(c, "enter", where[c].i + 1)
      BY <1>0, <2>1, <2>2, GoesOn
    <3> QED BY <1>0, <2>1, <2>2, <3>1, ProbeKept DEF MovesTo
  <2>3. CASE Move(c, "prune", 2, FALSE) /\ claimFile' = [Reaped(TreeOf[c]) EXCEPT ![c] = "none"]
    <3>1. MovesTo(c, "prune", 2)
      BY <1>0, <2>3, GoesBack
    <3>2. claimFile'[c] = "none" /\ \A d \in Client \ {c} : claimFile'[d] = Reaped(TreeOf[c])[d]
      BY <1>0, <2>3, ReapedForm
    <3>3. \A d \in Client : claimFile'[d] = "locked" => claimFile[d] = "locked"
      BY <1>0, <3>2, ReapedForm
    <3> QED BY <1>0, <2>1, <3>1, <3>3, ProbeKept DEF MovesTo
  <2> QED BY <1>0, <1>3, <2>1, <2>2, <2>3, ClaimResourceForm
<1>4. ASSUME NEW c \in Client, StartTree(c) PROVE ProbesMissLocks'
  <2>1. MovesTo(c, "run", 0) /\ UNCHANGED <<claimFile, probing>>
    BY <1>0, <1>4, GoesRun DEF StartTree
  <2> QED BY <1>0, <2>1, ProbeKept DEF MovesTo
<1>5. ASSUME NEW c \in Client, TaskReturns(c) PROVE ProbesMissLocks'
  <2>1. MovesTo(c, "ending", 0) /\ UNCHANGED probing
    BY <1>0, <1>5, GoesEnding DEF TaskReturns
  <2>2. \A d \in Client : claimFile'[d] = "locked" => claimFile[d] = "locked"
    BY <1>0, <1>5 DEF TaskReturns, LeaseOnReturn, ScopesTyped
  <2> QED BY <1>0, <2>1, <2>2, ProbeKept DEF MovesTo
<1>6. ASSUME NEW c \in Client, ReleaseTree(c) PROVE ProbesMissLocks'
  <2>1. MovesTo(c, "prune", 2) /\ claimFile' = Reaped(TreeOf[c]) /\ UNCHANGED probing
    BY <1>0, <1>6, GoesPrune DEF ReleaseTree
  <2>2. \A d \in Client : claimFile'[d] = "locked" => claimFile[d] = "locked"
    BY <1>0, <2>1, ReapedForm
  <2> QED BY <1>0, <2>1, <2>2, ProbeKept DEF MovesTo
<1>7. ASSUME NEW c \in Client, PruneResource(c) PROVE ProbesMissLocks'
  <2>1. where[c].i \in 1 .. 2 /\ where[c].i - 1 \in 0 .. 3 /\ UNCHANGED <<claimFile, probing>>
    BY <1>0, <1>7 DEF PruneResource, LeasesAreLocked, LeaseOf
  <2>2. MovesTo(c, "prune", where[c].i - 1)
    BY <1>0, <1>7, <2>1, GoesDown
  <2> QED BY <1>0, <2>1, <2>2, ProbeKept DEF MovesTo
<1>8. ASSUME NEW c \in Client, LeaveTree(c) PROVE ProbesMissLocks'
  <2>1. MovesTo(c, IF where[c].ok THEN "done" ELSE "failed", 0) /\ UNCHANGED <<claimFile, probing>>
    BY <1>0, <1>8, GoesOut DEF LeaveTree
  <2> QED BY <1>0, <2>1, ProbeKept DEF MovesTo
<1>9. ASSUME NEW c \in Client, Killed(c) PROVE ProbesMissLocks'
  <2>1. MovesTo(c, "dead", 0)
    BY <1>0, <1>9, GoesDead DEF Killed
  <2>2. \A d \in Client : claimFile'[d] = "locked" => claimFile[d] = "locked"
    BY <1>0, <1>9 DEF Killed, ScopesTyped
  <2>3. \A a \in Actor : probing'[a] = probing[a] \/ probing'[a] \notin Client
    BY <1>0, <1>9 DEF Killed, ScopesTyped
  <2> QED BY <1>0, <2>1, <2>2, <2>3 DEF MovesTo, ProbesMissLocks
<1>10. CASE ResetVisit
  <2> DEFINE s == ResetOrder(reset.of)[reset.i]
  <2>1. UNCHANGED <<where, probing>> /\ (claimFile' = claimFile \/ claimFile' = Reaped(s))
    BY <1>10 DEF ResetVisit
  <2> HIDE DEF s
  <2>2. \A d \in Client : claimFile'[d] = "locked" => claimFile[d] = "locked"
    BY <1>0, <2>1, ReapedForm
  <2> QED BY <1>0, <2>1, <2>2, ProbeKept
<1>11. CASE UNCHANGED <<where, claimFile, probing>>
  BY <1>0, <1>11 DEF ProbesMissLocks
<1>12. ASSUME NEW a \in Actor, EndProbe(a) PROVE ProbesMissLocks'
  <2>1. UNCHANGED <<where, claimFile>>
        /\ \A b \in Actor : probing'[b] = probing[b] \/ probing'[b] \notin Client
    BY <1>0, <1>12 DEF EndProbe, ScopesTyped
  <2> QED BY <1>0, <2>1 DEF ProbesMissLocks
<1>13. ASSUME NEW a \in Actor, NEW c \in Client, LookAtClaim(a, c) PROVE ProbesMissLocks'
  <2>1. UNCHANGED <<where, claimFile>>
    BY <1>13 DEF LookAtClaim
  <2>2. CASE UNCHANGED probing
    BY <1>0, <2>1, <2>2 DEF ProbesMissLocks
  <2>3. CASE probing' = [probing EXCEPT ![a] = c] /\ ~ParentAlive(c) /\ claimFile[c] # "none"
    <3>1. claimFile[c] # "locked" /\ where[c].pc # "idle"
      BY <1>0, <2>3 DEF ParentAlive, Busy, LeasesAreLocked, LeaseOf
    <3>2. \A b \in Actor : probing'[b] = probing[b] \/ probing'[b] = c
      BY <1>0, <2>3 DEF ScopesTyped
    <3> QED BY <1>0, <2>1, <3>1, <3>2 DEF ProbesMissLocks
  <2> QED BY <1>13, <2>2, <2>3 DEF LookAtClaim
<1>14. (\E c \in Client : StatusLooks(c)) \/ StatusLeaves \/ ResetGate \/ ResetClear
         \/ UNCHANGED resourceVars
       => UNCHANGED <<where, claimFile, probing>>
  BY DEF StatusLooks, StatusLeaves, ResetGate, ResetClear, resourceVars
<1> QED BY <1>1, <1>2, <1>3, <1>4, <1>5, <1>6, <1>7, <1>8, <1>9, <1>10, <1>11, <1>12, <1>13,
           <1>14 DEF ScopesNext

----------------------------------------------------------------------------
(* Shared resources: gates.                                                *)

\* A step that leaves the resources' gates and their visitors alone.
LEMMA GatesRest ==
  ASSUME GatesAreHeld, UNCHANGED reset, scopeGates'["net"] = scopeGates["net"],
         scopeGates'["data"] = scopeGates["data"],
         \A d \in Client : (Within(d, 1)' <=> Within(d, 1)) /\ (Within(d, 2)' <=> Within(d, 2))
  PROVE  GatesAreHeld'
BY DEF GatesAreHeld, HasNetwork, HasData

\* A client moves between places where it visits no resource.
LEMMA GatesPassed ==
  ASSUME ScopesTyped, GatesAreHeld, NEW c \in Client, NEW pc, NEW i, MovesTo(c, pc, i), UNCHANGED reset,
         pc \notin {"visit", "sweep"}, where[c].pc \notin {"visit", "sweep"},
         scopeGates'["net"] = scopeGates["net"], scopeGates'["data"] = scopeGates["data"]
  PROVE  GatesAreHeld'
BY GatesRest DEF MovesTo, Within

\* No worktree scope is a resource.
LEMMA TreesApart == \A c \in Client : TreeOf[c] \in Tree /\ TreeOf[c] # "net" /\ TreeOf[c] # "data"
OBVIOUS

GivesBack(c) == scopeGates' = [scopeGates EXCEPT ![Visited(c)] = Nobody]
\* A visitor that gives its resource back.
LEMMA GateGivenBack ==
  ASSUME ScopesTyped, GatesAreHeld, NEW c \in Client, NEW pc, NEW i, MovesTo(c, pc, i), UNCHANGED reset,
         pc \notin {"visit", "sweep"}, where[c].pc \in {"visit", "sweep"}, where[c].i \in 1 .. 2,
         GivesBack(c)
  PROVE  GatesAreHeld'
<1>1. ~Within(c, 1)' /\ ~Within(c, 2)'
      /\ \A d \in Client \ {c} : (Within(d, 1)' <=> Within(d, 1)) /\ (Within(d, 2)' <=> Within(d, 2))
  BY DEF MovesTo, Within
<1>2. UNCHANGED <<HasNetwork, HasData>>
  BY DEF HasNetwork, HasData
<1>3. CASE where[c].i = 1
  <2>1. scopeGates["net"] = c /\ scopeGates'["net"] = Nobody
        /\ scopeGates'["data"] = scopeGates["data"]
    BY <1>3, VisitedName DEF GivesBack, ScopesTyped, GatesAreHeld, Within
  <2>2. ~Within(c, 2)
    BY <1>3 DEF Within
  <2> QED BY <1>1, <1>2, <2>1, <2>2 DEF GatesAreHeld, Nobody, Reset
<1>4. CASE where[c].i = 2
  <2>1. scopeGates["data"] = c /\ scopeGates'["data"] = Nobody /\ scopeGates'["net"] = scopeGates["net"]
    BY <1>4, VisitedName DEF GivesBack, ScopesTyped, GatesAreHeld, Within
  <2>2. ~Within(c, 1)
    BY <1>4 DEF Within
  <2> QED BY <1>1, <1>2, <2>1, <2>2 DEF GatesAreHeld, Nobody, Reset
<1> QED BY <1>3, <1>4

\* A reset that ends lets go of every gate.
LEMMA GatesReset ==
  ASSUME ScopesTyped, GatesAreHeld, UNCHANGED where, reset'.pc = "end",
         scopeGates' = [g \in ScopeNames |-> IF scopeGates[g] = Reset THEN Nobody ELSE scopeGates[g]]
  PROVE  GatesAreHeld'
<1>1. \A d \in Client : UNCHANGED <<Within(d, 1), Within(d, 2)>>
  BY DEF Within
<1>2. ~HasNetwork' /\ ~HasData'
  BY DEF HasNetwork, HasData
<1>3. \A r \in {"net", "data"} : /\ scopeGates'[r] # Reset
                                 /\ \A d \in Client : scopeGates'[r] = d <=> scopeGates[r] = d
  BY DEF Nobody, Reset
<1> QED BY <1>1, <1>2, <1>3 DEF GatesAreHeld

\* Gates, step by step.
LEMMA SharedGateStep == SharingInv /\ [ScopesNext]_resourceVars => GatesAreHeld'
<1> SUFFICES ASSUME SharingInv, [ScopesNext]_resourceVars PROVE GatesAreHeld'
  OBVIOUS
<1>0. ScopesTyped /\ LeasesAreLocked /\ GatesAreHeld
  BY DEF SharingInv
<1>1. ASSUME NEW c \in Client, EnterTree(c) PROVE GatesAreHeld'
  <2>1. MovesTo(c, "enter", 1) /\ where[c].pc = "idle" /\ UNCHANGED reset
    BY <1>0, <1>1, GoesEnter DEF EnterTree
  <2>2. scopeGates'["net"] = scopeGates["net"] /\ scopeGates'["data"] = scopeGates["data"]
    BY <1>0, <1>1, TreesApart DEF EnterTree, ScopesTyped
  <2> QED BY <1>0, <2>1, <2>2, GatesPassed
<1>2. ASSUME NEW c \in Client, EnterResource(c) PROVE GatesAreHeld'
  <2> DEFINE r == Resources[where[c].i]
  <2>1. UNCHANGED reset /\ where[c].pc \in {"enter", "prune"} /\ where[c].i \in 1 .. 2
        /\ scopeGates[r] = Nobody /\ scopeGates' = [scopeGates EXCEPT ![r] = c]
    BY <1>2 DEF EnterResource
  <2>2. MovesTo(c, IF where[c].pc = "enter" THEN "visit" ELSE "sweep", where[c].i)
    BY <1>0, <1>2, GoesVisit
  <2>3. ~Within(c, 1) /\ ~Within(c, 2)
        /\ \A d \in Client \ {c} : (Within(d, 1)' <=> Within(d, 1)) /\ (Within(d, 2)' <=> Within(d, 2))
    BY <2>1, <2>2 DEF MovesTo, Within
  <2>4. UNCHANGED <<HasNetwork, HasData>>
    BY <2>1 DEF HasNetwork, HasData
  <2>5. CASE where[c].i = 1
    <3>1. scopeGates["net"] = Nobody /\ scopeGates'["net"] = c
          /\ scopeGates'["data"] = scopeGates["data"]
      BY <1>0, <2>1, <2>5 DEF ScopesTyped
    <3>2. Within(c, 1)' /\ ~Within(c, 2)'
      BY <2>2, <2>5 DEF MovesTo, Within
    <3> QED BY <1>0, <2>1, <2>3, <2>4, <3>1, <3>2 DEF GatesAreHeld, Nobody, Reset
  <2>6. CASE where[c].i = 2
    <3>1. scopeGates["data"] = Nobody /\ scopeGates'["data"] = c /\ scopeGates'["net"] = scopeGates["net"]
      BY <1>0, <2>1, <2>6 DEF ScopesTyped
    <3>2. Within(c, 2)' /\ ~Within(c, 1)'
      BY <2>2, <2>6 DEF MovesTo, Within
    <3> QED BY <1>0, <2>1, <2>3, <2>4, <3>1, <3>2 DEF GatesAreHeld, Nobody, Reset
  <2> QED BY <2>1, <2>5, <2>6
<1>3. ASSUME NEW c \in Client, ClaimResource(c) PROVE GatesAreHeld'
  <2>1. where[c].pc = "visit" /\ where[c].i \in 1 .. 2 /\ where[c].i + 1 \in 0 .. 3
    BY <1>0, <1>3 DEF ClaimResource, LeasesAreLocked, LeaseOf
  <2>2. UNCHANGED reset /\ GivesBack(c)
    BY <1>3 DEF ClaimResource, GivesBack
  <2>3. CASE Move(c, "enter", where[c].i + 1, TRUE)
    <3>1. MovesTo(c, "enter", where[c].i + 1)
      BY <1>0, <2>1, <2>3, GoesOn
    <3> QED BY <1>0, <2>1, <2>2, <3>1, GateGivenBack
  <2>4. CASE Move(c, "prune", 2, FALSE)
    <3>1. MovesTo(c, "prune", 2)
      BY <1>0, <2>4, GoesBack
    <3> QED BY <1>0, <2>1, <2>2, <3>1, GateGivenBack
  <2> QED BY <1>0, <1>3, <2>1, <2>3, <2>4, ClaimResourceForm
<1>4. ASSUME NEW c \in Client, StartTree(c) PROVE GatesAreHeld'
  <2>1. MovesTo(c, "run", 0) /\ where[c].pc = "enter" /\ UNCHANGED reset
    BY <1>0, <1>4, GoesRun DEF StartTree
  <2>2. scopeGates'["net"] = scopeGates["net"] /\ scopeGates'["data"] = scopeGates["data"]
    BY <1>0, <1>4, TreesApart DEF StartTree, ScopesTyped
  <2> QED BY <1>0, <2>1, <2>2, GatesPassed
<1>5. ASSUME NEW c \in Client, TaskReturns(c) PROVE GatesAreHeld'
  <2>1. MovesTo(c, "ending", 0) /\ where[c].pc = "run" /\ UNCHANGED <<scopeGates, reset>>
    BY <1>0, <1>5, GoesEnding DEF TaskReturns
  <2> QED BY <1>0, <2>1, GatesPassed
<1>6. ASSUME NEW c \in Client, ReleaseTree(c) PROVE GatesAreHeld'
  <2>1. MovesTo(c, "prune", 2) /\ where[c].pc = "ending" /\ UNCHANGED reset
    BY <1>0, <1>6, GoesPrune DEF ReleaseTree
  <2>2. scopeGates'["net"] = scopeGates["net"] /\ scopeGates'["data"] = scopeGates["data"]
    BY <1>0, <1>6, TreesApart DEF ReleaseTree, ScopesTyped
  <2> QED BY <1>0, <2>1, <2>2, GatesPassed
<1>7. ASSUME NEW c \in Client, PruneResource(c) PROVE GatesAreHeld'
  <2>1. where[c].pc = "sweep" /\ where[c].i \in 1 .. 2 /\ where[c].i - 1 \in 0 .. 3
    BY <1>0, <1>7 DEF PruneResource, LeasesAreLocked, LeaseOf
  <2>2. MovesTo(c, "prune", where[c].i - 1)
    BY <1>0, <1>7, <2>1, GoesDown
  <2>3. UNCHANGED reset /\ GivesBack(c)
    BY <1>7 DEF PruneResource, GivesBack
  <2> QED BY <1>0, <2>1, <2>2, <2>3, GateGivenBack
<1>8. ASSUME NEW c \in Client, LeaveTree(c) PROVE GatesAreHeld'
  <2>1. MovesTo(c, IF where[c].ok THEN "done" ELSE "failed", 0) /\ where[c].pc = "prune"
        /\ UNCHANGED reset
    BY <1>0, <1>8, GoesOut DEF LeaveTree
  <2>2. scopeGates'["net"] = scopeGates["net"] /\ scopeGates'["data"] = scopeGates["data"]
    BY <1>0, <1>8, TreesApart DEF LeaveTree, ScopesTyped
  <2> QED BY <1>0, <2>1, <2>2, GatesPassed
<1>9. ASSUME NEW c \in Client, Killed(c) PROVE GatesAreHeld'
  <2>1. MovesTo(c, "dead", 0) /\ UNCHANGED reset
    BY <1>0, <1>9, GoesDead DEF Killed
  <2>2. ~Within(c, 1)' /\ ~Within(c, 2)'
        /\ \A d \in Client \ {c} : (Within(d, 1)' <=> Within(d, 1)) /\ (Within(d, 2)' <=> Within(d, 2))
    BY <2>1 DEF MovesTo, Within
  <2>3. UNCHANGED <<HasNetwork, HasData>>
    BY <2>1 DEF HasNetwork, HasData
  <2>4. \A r \in {"net", "data"} : scopeGates'[r] = IF scopeGates[r] = c THEN Nobody ELSE scopeGates[r]
    BY <1>9 DEF Killed
  <2> QED BY <1>0, <2>1, <2>2, <2>3, <2>4 DEF GatesAreHeld, Nobody, Reset
<1>10. CASE ResetGate
  <2> DEFINE s == ResetOrder(reset.of)[reset.i]
  <2>1. UNCHANGED where /\ reset.pc \in {"idle", "enter"} /\ scopeGates[s] = Nobody
        /\ scopeGates' = [scopeGates EXCEPT ![s] = Reset]
    BY <1>10 DEF ResetGate
  <2>2. reset'.pc = "visit" /\ reset'.i = reset.i
    BY <1>0, <1>10 DEF ResetGate, ScopesTyped
  <2>3. \A d \in Client : UNCHANGED <<Within(d, 1), Within(d, 2)>>
    BY <2>1 DEF Within
  <2>4. CASE reset.i = 1
    <3>1. scopeGates'["net"] = scopeGates["net"] /\ scopeGates'["data"] = scopeGates["data"]
      BY <1>0, <2>1, <2>4, ResetName DEF ScopesTyped
    <3>2. ~HasNetwork /\ ~HasData /\ ~HasNetwork' /\ ~HasData'
      BY <2>1, <2>2, <2>4 DEF HasNetwork, HasData
    <3> QED BY <1>0, <2>2, <2>3, <2>4, <3>1, <3>2 DEF GatesAreHeld
  <2>5. CASE reset.i = 2
    <3>1. scopeGates["net"] = Nobody /\ scopeGates'["net"] = Reset
          /\ scopeGates'["data"] = scopeGates["data"]
      BY <1>0, <2>1, <2>5, ResetName DEF ScopesTyped
    <3>2. ~HasData /\ HasNetwork' /\ ~HasData'
      BY <2>1, <2>2, <2>5 DEF HasNetwork, HasData
    <3> QED BY <1>0, <2>2, <2>3, <2>5, <3>1, <3>2 DEF GatesAreHeld, Nobody, Reset
  <2>6. CASE reset.i = 3
    <3>1. scopeGates["data"] = Nobody /\ scopeGates'["data"] = Reset /\ scopeGates'["net"] = scopeGates["net"]
      BY <1>0, <2>1, <2>6, ResetName DEF ScopesTyped
    <3>2. reset.pc = "enter"
      BY <1>0, <2>1, <2>6 DEF GatesAreHeld
    <3>3. HasNetwork /\ HasNetwork' /\ HasData'
      BY <2>2, <2>6, <3>2 DEF HasNetwork, HasData
    <3> QED BY <1>0, <2>2, <2>3, <2>6, <3>1, <3>3 DEF GatesAreHeld, Nobody, Reset
  <2> QED BY <1>0, <2>4, <2>5, <2>6, ResetName
<1>11. CASE ResetVisit
  <2> DEFINE s == ResetOrder(reset.of)[reset.i]
  <2>1. UNCHANGED where /\ reset.pc = "visit"
    BY <1>11 DEF ResetVisit
  <2>2. \A d \in Client : UNCHANGED <<Within(d, 1), Within(d, 2)>>
    BY <2>1 DEF Within
  <2>3. CASE /\ reset'.pc = "end"
             /\ scopeGates' = [g \in ScopeNames |-> IF scopeGates[g] = Reset THEN Nobody ELSE scopeGates[g]]
    BY <1>0, <2>1, <2>3, GatesReset
  <2>4. CASE UNCHANGED scopeGates /\ reset.i = 3 /\ reset'.pc = "clear"
    <3>1. HasNetwork /\ HasData /\ HasNetwork' /\ HasData'
      BY <2>1, <2>4 DEF HasNetwork, HasData
    <3> QED BY <1>0, <2>2, <2>4, <3>1 DEF GatesAreHeld
  <2>5. CASE UNCHANGED scopeGates /\ reset.i \in 1 .. 2 /\ reset'.pc = "enter" /\ reset'.i = reset.i + 1
    <3>1. reset'.i \in 2 .. 3 /\ (reset'.i = 3 <=> reset.i = 2)
      BY <2>5
    <3>2. (HasNetwork' <=> HasNetwork) /\ (HasData' <=> HasData)
      BY <2>1, <2>5, <3>1 DEF HasNetwork, HasData
    <3> QED BY <1>0, <2>2, <2>5, <3>1, <3>2 DEF GatesAreHeld
  <2> QED BY <1>0, <1>11, <2>3, <2>4, <2>5, ResetVisitForm
<1>12. CASE ResetClear
  <2>1. reset'.pc = "end"
    BY <1>0, <1>12 DEF ResetClear, ScopesTyped
  <2> QED BY <1>0, <1>12, <2>1, GatesReset DEF ResetClear
<1>13. CASE UNCHANGED <<where, scopeGates, reset>>
  BY <1>0, <1>13, GatesRest DEF Within
<1>14. ASSUME NEW a \in Actor, EndProbe(a) PROVE UNCHANGED <<where, scopeGates, reset>>
  BY <1>14 DEF EndProbe
<1>15. ASSUME NEW a \in Actor, NEW c \in Client, LookAtClaim(a, c)
       PROVE  UNCHANGED <<where, scopeGates, reset>>
  BY <1>15 DEF LookAtClaim
<1>16. (\E c \in Client : StatusLooks(c)) \/ StatusLeaves \/ UNCHANGED resourceVars
       => UNCHANGED <<where, scopeGates, reset>>
  BY DEF StatusLooks, StatusLeaves, resourceVars
<1> QED BY <1>1, <1>2, <1>3, <1>4, <1>5, <1>6, <1>7, <1>8, <1>9, <1>10, <1>11, <1>12, <1>13,
           <1>14, <1>15, <1>16 DEF ScopesNext

----------------------------------------------------------------------------
(* Shared resources: claims.                                               *)

\* A client moves to where it relies on nothing new.
LEMMA ClaimsRest ==
  ASSUME ClaimsAreKept, UNCHANGED <<claims, up, volume, inputs, reset>>, NEW c \in Client,
         \A d \in Client \ {c} : where'[d] = where[d],
         Networked(c)' => Networked(c), ~Supplied(c)', where'[c].pc # "run"
  PROVE  ClaimsAreKept'
<1> SUFFICES ASSUME NEW d \in Client PROVE ClaimOf(d)'
  BY DEF ClaimsAreKept, ResetIsAlone
<1>1. CASE d = c
  BY <1>1 DEF ClaimsAreKept, ClaimOf
<1>2. CASE d # c
  BY <1>2 DEF ClaimsAreKept, ClaimOf, Networked, Supplied
<1> QED BY <1>1, <1>2

\* A client that relies on a claim holds its lease.
LEMMA RelyingIsLocked ==
  ASSUME LeasesAreLocked, NEW d \in Client, Networked(d) \/ Supplied(d)
  PROVE  claimFile[d] = "locked"
BY DEF LeasesAreLocked, LeaseOf, Networked, Supplied

\* Claims are dropped only of clients that hold no lease.
LEMMA ClaimDropped ==
  ASSUME ScopesTyped, LeasesAreLocked, ClaimsAreKept, NEW a, NEW c \in Client, claimFile[c] # "locked",
         claims' = [claims EXCEPT ![Visited(a)] = @ \ {c}],
         UNCHANGED <<where, up, volume, inputs, reset>>
  PROVE  ClaimsAreKept'
<1>1. \A r \in {"net", "data"} : claims'[r] \subseteq claims[r] /\ claims[r] \ {c} \subseteq claims'[r]
  BY ClaimForm
<1>2. ASSUME NEW d \in Client PROVE ClaimOf(d)'
  <2>1. Networked(d) \/ Supplied(d) => d # c
    BY RelyingIsLocked
  <2> QED BY <1>1, <2>1 DEF ClaimsAreKept, ClaimOf, Networked, Supplied
<1>3. ResetIsAlone'
  BY <1>1 DEF ClaimsAreKept, ResetIsAlone
<1> QED BY <1>2, <1>3 DEF ClaimsAreKept

\* The volume that a claim leaves: the one asked for, and the one in use.
LEMMA VolumeForm ==
  ASSUME NEW c \in Client, NEW inUse \in BOOLEAN, NEW v \in VolumeAfter(c, inUse)
  PROVE  v = inputs[c] /\ (inUse => v = volume) /\ (v # volume => volume = 0 \/ disposable)
<1>1. CASE volume = inputs[c]
  BY <1>1 DEF VolumeAfter
<1>2. CASE volume # inputs[c] /\ volume = 0
  BY <1>2 DEF VolumeAfter
<1>3. CASE volume # inputs[c] /\ volume # 0
  BY <1>3 DEF VolumeAfter
<1> QED BY <1>1, <1>2, <1>3

\* Claims, step by step.
LEMMA ClaimStep == SharingInv /\ [ScopesNext]_resourceVars => ClaimsAreKept'
<1> SUFFICES ASSUME SharingInv, [ScopesNext]_resourceVars PROVE ClaimsAreKept'
  OBVIOUS
<1>0. ScopesTyped /\ LeasesAreLocked /\ ProbesMissLocks /\ GatesAreHeld /\ ClaimsAreKept
  BY DEF SharingInv
<1>1. ASSUME NEW c \in Client, EnterTree(c) PROVE ClaimsAreKept'
  <2>1. MovesTo(c, "enter", 1) /\ UNCHANGED <<claims, up, volume, inputs, reset>>
    BY <1>0, <1>1, GoesEnter DEF EnterTree
  <2>2. ~Networked(c)' /\ ~Supplied(c)' /\ where'[c].pc # "run"
    BY <2>1 DEF MovesTo, Networked, Supplied
  <2> QED BY <1>0, <2>1, <2>2, ClaimsRest DEF MovesTo
<1>2. ASSUME NEW c \in Client, EnterResource(c) PROVE ClaimsAreKept'
  <2>1. where[c].pc \in {"enter", "prune"} /\ where[c].i \in 1 .. 2
        /\ UNCHANGED <<claims, up, volume, inputs, reset>>
    BY <1>2 DEF EnterResource
  <2>2. MovesTo(c, IF where[c].pc = "enter" THEN "visit" ELSE "sweep", where[c].i)
    BY <1>0, <1>2, GoesVisit
  <2>3. (Networked(c)' => Networked(c)) /\ ~Supplied(c)' /\ where'[c].pc # "run"
    BY <2>1, <2>2 DEF MovesTo, Networked, Supplied
  <2> QED BY <1>0, <2>1, <2>2, <2>3, ClaimsRest DEF MovesTo
<1>3. ASSUME NEW c \in Client, ClaimResource(c) PROVE ClaimsAreKept'
  <2> DEFINE t == TreeOf[c]
  <2>1. where[c].pc = "visit" /\ where[c].i \in 1 .. 2 /\ where[c].i + 1 \in 0 .. 3
        /\ UNCHANGED <<inputs, reset>>
    BY <1>0, <1>3 DEF ClaimResource, LeasesAreLocked, LeaseOf
  <2>2. CASE /\ up' = [up EXCEPT ![t] = up[t] /\ Users(t) # {c}]
             /\ Move(c, "prune", 2, FALSE) /\ UNCHANGED <<claims, volume>>
    <3>1. MovesTo(c, "prune", 2)
      BY <1>0, <2>2, GoesBack
    <3>2. up'["net"] = up["net"] /\ up'["data"] = up["data"]
      BY <1>0, <2>2, TreesApart DEF ScopesTyped
    <3>3. ASSUME NEW d \in Client, d # c, where[d].pc = "run" PROVE up'[TreeOf[d]]
      <4>1. claimFile[d] = "locked" /\ up[TreeOf[d]]
        BY <1>0, <3>3 DEF LeasesAreLocked, LeaseOf, ClaimsAreKept, ClaimOf
      <4>2. d \in Users(TreeOf[d])
        BY <1>0, <4>1, UsersForm
      <4>3. TreeOf[d] = t => Users(t) # {c}
        BY <3>3, <4>2
      <4>4. TreeOf[d] \in ScopeNames
        BY TreesApart
      <4> QED BY <1>0, <2>2, <4>1, <4>3, <4>4 DEF ScopesTyped
    <3>4. ASSUME NEW d \in Client PROVE ClaimOf(d)'
      <4>1. CASE d = c
        BY <3>1, <4>1 DEF MovesTo, ClaimOf, Networked, Supplied
      <4>2. CASE d # c
        BY <1>0, <2>1, <2>2, <3>1, <3>2, <3>3, <4>2
           DEF MovesTo, ClaimsAreKept, ClaimOf, Networked, Supplied
      <4> QED BY <4>1, <4>2
    <3> QED BY <1>0, <2>1, <2>2, <3>4 DEF ClaimsAreKept, ResetIsAlone
  <2>3. CASE /\ where[c].i = 1 /\ volume' = volume
             /\ claims' = [claims EXCEPT !["net"] = claims["net"] \cup {c}]
             /\ up' = [up EXCEPT !["net"] = TRUE] /\ Move(c, "enter", where[c].i + 1, TRUE)
    <3>1. MovesTo(c, "enter", 2)
      <4>1. Move(c, "enter", where[c].i + 1, TRUE)
        BY <2>3
      <4>2. MovesTo(c, "enter", where[c].i + 1)
        BY <1>0, <2>1, <4>1, GoesOn
      <4>3. where[c].i + 1 = 2
        BY <2>3
      <4> QED BY <4>2, <4>3
    <3>2. claims'["net"] = claims["net"] \cup {c} /\ claims'["data"] = claims["data"]
      BY <1>0, <2>3 DEF ScopesTyped
    <3>3. up'["net"] /\ up'["data"] = up["data"] /\ \A d \in Client : up'[TreeOf[d]] = up[TreeOf[d]]
      BY <1>0, <2>3, TreesApart DEF ScopesTyped
    <3>4. ~HasNetwork
      BY <1>0, <2>1, <2>3 DEF GatesAreHeld, Within
    <3>5. ASSUME NEW d \in Client PROVE ClaimOf(d)'
      <4>1. CASE d = c
        BY <3>1, <3>2, <3>3, <4>1 DEF MovesTo, ClaimOf, Networked, Supplied
      <4>2. CASE d # c
        BY <1>0, <2>1, <2>3, <3>1, <3>2, <3>3, <4>2
           DEF MovesTo, ClaimsAreKept, ClaimOf, Networked, Supplied
      <4> QED BY <4>1, <4>2
    <3> QED BY <2>1, <3>4, <3>5 DEF ClaimsAreKept, ResetIsAlone, HasNetwork
  <2>4. CASE /\ where[c].i = 2 /\ volume' \in VolumeAfter(c, claims["data"] # {})
             /\ claims' = [claims EXCEPT !["data"] = claims["data"] \cup {c}]
             /\ up' = [up EXCEPT !["data"] = TRUE] /\ Move(c, "enter", where[c].i + 1, TRUE)
    <3>1. MovesTo(c, "enter", 3)
      <4>1. Move(c, "enter", where[c].i + 1, TRUE)
        BY <2>4
      <4>2. MovesTo(c, "enter", where[c].i + 1)
        BY <1>0, <2>1, <4>1, GoesOn
      <4>3. where[c].i + 1 = 3
        BY <2>4
      <4> QED BY <4>2, <4>3
    <3>2. claims'["data"] = claims["data"] \cup {c} /\ claims'["net"] = claims["net"]
      BY <1>0, <2>4 DEF ScopesTyped
    <3>3. up'["data"] /\ up'["net"] = up["net"] /\ \A d \in Client : up'[TreeOf[d]] = up[TreeOf[d]]
      BY <1>0, <2>4, TreesApart DEF ScopesTyped
    <3>4. ~HasData
      BY <1>0, <2>1, <2>4 DEF GatesAreHeld, Within
    <3>5. volume' = inputs[c] /\ (claims["data"] # {} => volume' = volume)
      BY <2>4, VolumeForm
    <3>6. c \in claims["net"] /\ up["net"]
      BY <1>0, <2>1, <2>4 DEF ClaimsAreKept, ClaimOf, Networked
    <3>7. ASSUME NEW d \in Client PROVE ClaimOf(d)'
      <4>1. CASE d = c
        BY <2>1, <3>1, <3>2, <3>3, <3>5, <3>6, <4>1 DEF MovesTo, ClaimOf, Networked, Supplied
      <4>2. CASE d # c
        BY <1>0, <2>1, <3>1, <3>2, <3>3, <3>5, <4>2
           DEF MovesTo, ClaimsAreKept, ClaimOf, Networked, Supplied
      <4> QED BY <4>1, <4>2
    <3> QED BY <1>0, <2>1, <3>2, <3>4, <3>7 DEF ClaimsAreKept, ResetIsAlone, HasData
  <2>5. Visited(c) = IF where[c].i = 1 THEN "net" ELSE "data"
    BY <1>0, <2>1, VisitedName
  <2> DEFINE r == Visited(c)
  <2>6. CASE /\ volume' \in IF r = "data" THEN VolumeAfter(c, claims[r] # {}) ELSE {volume}
             /\ claims' = [claims EXCEPT ![r] = claims[r] \cup {c}]
             /\ up' = [up EXCEPT ![r] = TRUE] /\ Move(c, "enter", where[c].i + 1, TRUE)
    <3>1. CASE where[c].i = 1 /\ r = "net"
      <4>1. volume' = volume
        BY <2>6, <3>1
      <4>2. claims' = [claims EXCEPT !["net"] = claims["net"] \cup {c}]
            /\ up' = [up EXCEPT !["net"] = TRUE]
        BY <2>6, <3>1
      <4> QED BY <2>3, <2>6, <3>1, <4>1, <4>2
    <3>2. CASE where[c].i = 2 /\ r = "data"
      <4>1. volume' \in VolumeAfter(c, claims["data"] # {})
        BY <2>6, <3>2
      <4>2. claims' = [claims EXCEPT !["data"] = claims["data"] \cup {c}]
            /\ up' = [up EXCEPT !["data"] = TRUE]
        BY <2>6, <3>2
      <4> QED BY <2>4, <2>6, <3>2, <4>1, <4>2
    <3> QED BY <2>1, <2>5, <3>1, <3>2
  <2> QED BY <1>0, <1>3, <2>1, <2>2, <2>6, ClaimResourceForm
<1>4. ASSUME NEW c \in Client, StartTree(c) PROVE ClaimsAreKept'
  <2>1. MovesTo(c, "run", 0) /\ where[c].pc = "enter" /\ where[c].i = 3
        /\ UNCHANGED <<claims, volume, inputs, reset>>
    BY <1>0, <1>4, GoesRun DEF StartTree
  <2>2. up'["net"] = up["net"] /\ up'["data"] = up["data"] /\ up'[TreeOf[c]]
        /\ \A d \in Client : up[TreeOf[d]] => up'[TreeOf[d]]
    BY <1>0, <1>4, TreesApart DEF StartTree, ScopesTyped
  <2>3. ASSUME NEW d \in Client PROVE ClaimOf(d)'
    <3>1. CASE d = c
      BY <1>0, <2>1, <2>2, <3>1 DEF MovesTo, ClaimsAreKept, ClaimOf, Networked, Supplied
    <3>2. CASE d # c
      BY <1>0, <2>1, <2>2, <3>2 DEF MovesTo, ClaimsAreKept, ClaimOf, Networked, Supplied
    <3> QED BY <3>1, <3>2
  <2> QED BY <1>0, <2>1, <2>3 DEF ClaimsAreKept, ResetIsAlone
<1>5. ASSUME NEW c \in Client, TaskReturns(c) PROVE ClaimsAreKept'
  <2>1. MovesTo(c, "ending", 0) /\ UNCHANGED <<claims, up, volume, inputs, reset>>
    BY <1>0, <1>5, GoesEnding DEF TaskReturns
  <2>2. ~Networked(c)' /\ ~Supplied(c)' /\ where'[c].pc # "run"
    BY <2>1 DEF MovesTo, Networked, Supplied
  <2> QED BY <1>0, <2>1, <2>2, ClaimsRest DEF MovesTo
<1>6. ASSUME NEW c \in Client, ReleaseTree(c) PROVE ClaimsAreKept'
  <2> DEFINE t == TreeOf[c]
  <2>1. MovesTo(c, "prune", 2) /\ UNCHANGED <<claims, volume, inputs, reset>>
        /\ up' = [up EXCEPT ![t] = up[t] /\ Users(t) # {}]
    BY <1>0, <1>6, GoesPrune DEF ReleaseTree
  <2>2. up'["net"] = up["net"] /\ up'["data"] = up["data"]
    BY <1>0, <2>1, TreesApart DEF ScopesTyped
  <2>3. ASSUME NEW d \in Client, where[d].pc = "run" PROVE up'[TreeOf[d]]
    <3>1. claimFile[d] = "locked" /\ up[TreeOf[d]]
      BY <1>0, <2>3 DEF LeasesAreLocked, LeaseOf, ClaimsAreKept, ClaimOf
    <3>2. d \in Users(TreeOf[d])
      BY <1>0, <3>1, UsersForm
    <3>3. TreeOf[d] = t => Users(t) # {}
      BY <3>2
    <3>4. TreeOf[d] \in ScopeNames
      BY TreesApart
    <3> QED BY <1>0, <2>1, <3>1, <3>3, <3>4 DEF ScopesTyped
  <2>4. ASSUME NEW d \in Client PROVE ClaimOf(d)'
    <3>1. CASE d = c
      BY <2>1, <3>1 DEF MovesTo, ClaimOf, Networked, Supplied
    <3>2. CASE d # c
      BY <1>0, <2>1, <2>2, <2>3, <3>2 DEF MovesTo, ClaimsAreKept, ClaimOf, Networked, Supplied
    <3> QED BY <3>1, <3>2
  <2> QED BY <1>0, <2>1, <2>4 DEF ClaimsAreKept, ResetIsAlone
<1>7. ASSUME NEW c \in Client, PruneResource(c) PROVE ClaimsAreKept'
  <2> DEFINE r == Visited(c)
  <2>1. where[c].i \in 1 .. 2 /\ where[c].i - 1 \in 0 .. 3
    BY <1>0, <1>7 DEF PruneResource, LeasesAreLocked, LeaseOf
  <2>2. MovesTo(c, "prune", where[c].i - 1)
    BY <1>0, <1>7, <2>1, GoesDown
  <2>3. UNCHANGED <<claims, volume, inputs, reset>> /\ up' = [up EXCEPT ![r] = up[r] /\ claims[r] # {}]
    BY <1>7 DEF PruneResource
  <2>4. r \in {"net", "data"}
    BY <1>0, <2>1, VisitedName
  <2> HIDE DEF r
  <2>5. \A s \in {"net", "data"} : up[s] /\ claims[s] # {} => up'[s]
    BY <1>0, <2>3, <2>4 DEF ScopesTyped
  <2>6. \A d \in Client : up'[TreeOf[d]] = up[TreeOf[d]]
    BY <1>0, <2>3, <2>4, TreesApart DEF ScopesTyped
  <2>7. ASSUME NEW d \in Client PROVE ClaimOf(d)'
    <3>1. CASE d = c
      BY <2>2, <3>1 DEF MovesTo, ClaimOf, Networked, Supplied
    <3>2. CASE d # c
      BY <1>0, <2>2, <2>3, <2>5, <2>6, <3>2 DEF MovesTo, ClaimsAreKept, ClaimOf, Networked, Supplied
    <3> QED BY <3>1, <3>2
  <2> QED BY <1>0, <2>3, <2>7 DEF ClaimsAreKept, ResetIsAlone
<1>8. ASSUME NEW c \in Client, LeaveTree(c) PROVE ClaimsAreKept'
  <2>1. MovesTo(c, IF where[c].ok THEN "done" ELSE "failed", 0)
        /\ UNCHANGED <<claims, up, volume, inputs, reset>>
    BY <1>0, <1>8, GoesOut DEF LeaveTree
  <2>2. ~Networked(c)' /\ ~Supplied(c)' /\ where'[c].pc # "run"
    BY <2>1 DEF MovesTo, Networked, Supplied
  <2> QED BY <1>0, <2>1, <2>2, ClaimsRest DEF MovesTo
<1>9. ASSUME NEW c \in Client, Killed(c) PROVE ClaimsAreKept'
  <2>1. MovesTo(c, "dead", 0) /\ UNCHANGED <<claims, up, volume, inputs, reset>>
    BY <1>0, <1>9, GoesDead DEF Killed
  <2>2. ~Networked(c)' /\ ~Supplied(c)' /\ where'[c].pc # "run"
    BY <2>1 DEF MovesTo, Networked, Supplied
  <2> QED BY <1>0, <2>1, <2>2, ClaimsRest DEF MovesTo
<1>10. ASSUME NEW a \in Actor, EndProbe(a) PROVE ClaimsAreKept'
  <2>1. probing[a] \in Client /\ claimFile[probing[a]] # "locked"
    BY <1>0, <1>10 DEF EndProbe, ScopesTyped, ProbesMissLocks
  <2> QED BY <1>0, <1>10, <2>1, ClaimDropped DEF EndProbe
<1>11. ASSUME NEW a \in Actor, NEW c \in Client, LookAtClaim(a, c) PROVE ClaimsAreKept'
  <2>1. UNCHANGED <<where, up, volume, inputs, reset>>
    BY <1>11 DEF LookAtClaim
  <2>2. CASE claims' = [claims EXCEPT ![Visited(a)] = @ \ {c}] /\ ~ParentAlive(c)
    <3>1. claimFile[c] # "locked"
      BY <2>2 DEF ParentAlive, Busy
    <3> QED BY <1>0, <2>1, <2>2, <3>1, ClaimDropped
  <2>3. CASE UNCHANGED claims
    BY <1>0, <2>1, <2>3 DEF ClaimsAreKept, ClaimOf, ResetIsAlone, Networked, Supplied
  <2> QED BY <1>11, <2>2, <2>3 DEF LookAtClaim
<1>12. CASE ResetGate
  <2>1. UNCHANGED <<where, claims, up, volume, inputs>> /\ reset.pc \in {"idle", "enter"}
    BY <1>12 DEF ResetGate
  <2>2. reset'.pc = "visit" /\ reset'.i = reset.i
    BY <1>0, <1>12 DEF ResetGate, ScopesTyped
  <2>3. \A d \in Client : ClaimOf(d)'
    BY <1>0, <2>1 DEF ClaimsAreKept, ClaimOf, Networked, Supplied
  <2>4. ResetIsAlone'
    BY <1>0, <2>1, <2>2 DEF ClaimsAreKept, ResetIsAlone, GatesAreHeld
  <2> QED BY <2>3, <2>4 DEF ClaimsAreKept
<1>13. CASE ResetVisit
  <2> DEFINE s == ResetOrder(reset.of)[reset.i]
  <2>1. UNCHANGED <<where, claims, up, volume, inputs>> /\ reset.pc = "visit"
    BY <1>13 DEF ResetVisit
  <2>2. \A d \in Client : ClaimOf(d)'
    BY <1>0, <2>1 DEF ClaimsAreKept, ClaimOf, Networked, Supplied
  <2>3. ASSUME reset'.pc = "end" PROVE ResetIsAlone'
    BY <2>3 DEF ResetIsAlone
  <2>4. ASSUME ~ResetUsed(s), reset.i = 3, reset'.pc = "clear" PROVE ResetIsAlone'
    <3>1. s = "data"
      BY <1>0, <2>4, ResetName
    <3>2. claims["data"] = {}
      BY <2>4, <3>1 DEF ResetUsed
    <3> QED BY <1>0, <2>1, <2>4, <3>2 DEF ClaimsAreKept, ResetIsAlone
  <2>5. ASSUME ~ResetUsed(s), reset.i \in 1 .. 2, reset'.pc = "enter", reset'.i = reset.i + 1
        PROVE  ResetIsAlone'
    <3>1. reset'.i = 3 => s = "net"
      BY <1>0, <2>5, ResetName
    <3>2. reset'.i = 3 => claims["net"] = {}
      BY <2>5, <3>1 DEF ResetUsed
    <3> QED BY <2>1, <2>5, <3>2 DEF ResetIsAlone
  <2>6. ResetIsAlone'
    BY <1>0, <1>13, <2>3, <2>4, <2>5, ResetVisitForm
  <2> QED BY <2>2, <2>6 DEF ClaimsAreKept
<1>14. CASE ResetClear
  <2>1. UNCHANGED <<where, claims, inputs>> /\ reset.pc = "clear"
    BY <1>14 DEF ResetClear
  <2>2. \A d \in Client : ~Networked(d) /\ ~Supplied(d) /\ where[d].pc # "run"
    BY <1>0, <2>1 DEF ClaimsAreKept, ClaimOf, ResetIsAlone, Networked, Supplied
  <2>3. \A d \in Client : ClaimOf(d)'
    BY <2>1, <2>2 DEF ClaimOf, Networked, Supplied
  <2>4. reset'.pc = "end"
    BY <1>0, <1>14 DEF ResetClear, ScopesTyped
  <2> QED BY <2>3, <2>4 DEF ClaimsAreKept, ResetIsAlone
<1>15. CASE (\E c \in Client : StatusLooks(c)) \/ StatusLeaves \/ UNCHANGED resourceVars
  <2>1. UNCHANGED <<where, claims, up, volume, inputs, reset>>
    BY <1>15 DEF StatusLooks, StatusLeaves, resourceVars
  <2> QED BY <1>0, <2>1 DEF ClaimsAreKept, ClaimOf, ResetIsAlone, Networked, Supplied
<1> QED BY <1>1, <1>2, <1>3, <1>4, <1>5, <1>6, <1>7, <1>8, <1>9, <1>10, <1>11, <1>12, <1>13,
           <1>14, <1>15 DEF ScopesNext

----------------------------------------------------------------------------
(* Shared resources: the theorems.                                         *)

\* The invariant holds of every behaviour of clients, a reset and a report.
THEOREM SharingInvariant == ScopesSpec => []SharingInv
<1>1. ScopesInit => SharingInv
  <2> SUFFICES ASSUME ScopesInit PROVE SharingInv
    OBVIOUS
  <2>1. ScopesTyped
    BY DEF ScopesInit, ScopesTyped, IsPlaces, Stations, Nobody
  <2>2. LeasesAreLocked /\ ProbesMissLocks
    BY DEF ScopesInit, LeasesAreLocked, LeaseOf, ProbesMissLocks, Nobody
  <2>3. GatesAreHeld
    BY DEF ScopesInit, GatesAreHeld, HasNetwork, HasData, Within, Nobody, Reset
  <2>4. ClaimsAreKept
    BY DEF ScopesInit, ClaimsAreKept, ClaimOf, ResetIsAlone, Networked, Supplied
  <2> QED BY <2>1, <2>2, <2>3, <2>4 DEF SharingInv
<1>2. SharingInv /\ [ScopesNext]_resourceVars => SharingInv'
  BY ScopesTypeStep, SharedLeaseStep, ProbeStep, SharedGateStep, ClaimStep DEF SharingInv
<1> QED BY <1>1, <1>2, PTL DEF ScopesSpec

\* While a task runs, what its plan asks for stays up, with the data it was admitted with.
LEMMA ResourcesStay == SharingInv => RunningKeepsResources
BY DEF SharingInv, ClaimsAreKept, ClaimOf, Networked, Supplied, RunningKeepsResources

\* Whoever keeps the data waits for nothing; whoever keeps the network waits at most for the data.
LEMMA GatesAreOrdered == SharingInv => NoGateCycle
<1> SUFFICES ASSUME SharingInv, NEW S \in SUBSET Actor, S # {},
                    \A a \in S : \E s \in Wants(a) : scopeGates[s] \in S
             PROVE  FALSE
  BY DEF NoGateCycle
<1>0. ScopesTyped /\ GatesAreHeld
  BY DEF SharingInv
<1>1. \A c \in Client : where[c].pc \in {"visit", "sweep"} => Wants(c) = {}
  BY DEF Wants, Reset
<1>2. reset.pc # "enter" => Wants(Reset) = {}
  BY DEF Wants, Reset
<1>3. \A a \in S : \A s \in Wants(a) : s \in {"net", "data"}
  <2> SUFFICES ASSUME NEW a \in S, NEW s \in Wants(a) PROVE s \in {"net", "data"}
    OBVIOUS
  <2>1. CASE a = Reset
    BY <1>0, <2>1, ResetName DEF Wants, GatesAreHeld
  <2>2. CASE a # Reset
    BY <2>2 DEF Wants
  <2> QED BY <2>1, <2>2
<1>4. ASSUME scopeGates["data"] \in S PROVE FALSE
  <2> DEFINE h == scopeGates["data"]
  <2>1. Wants(h) = {}
    BY <1>0, <1>1, <1>2, <1>4 DEF GatesAreHeld, HasData, Within
  <2> HIDE DEF h
  <2>2. h \in S
    BY <1>4 DEF h
  <2> QED BY <2>1, <2>2
<1>5. ASSUME scopeGates["net"] \in S PROVE FALSE
  <2>1. CASE scopeGates["net"] \in Client
    <3> DEFINE h == scopeGates["net"]
    <3>1. Wants(h) = {}
      BY <1>0, <1>1, <2>1 DEF GatesAreHeld, Within
    <3> HIDE DEF h
    <3>2. h \in S
      BY <1>5 DEF h
    <3> QED BY <3>1, <3>2
  <2>2. CASE scopeGates["net"] = Reset
    <3>1. Reset \in S /\ HasNetwork
      BY <1>0, <1>5, <2>2 DEF GatesAreHeld
    <3>2. reset.pc = "enter" /\ reset.i = 3
      BY <1>2, <3>1 DEF HasNetwork
    <3>3. Wants(Reset) = {"data"}
      BY <1>0, <3>2, ResetName DEF Wants
    <3> QED BY <1>4, <3>1, <3>3
  <2> QED BY <1>5, <2>1, <2>2
<1> QED BY <1>3, <1>4, <1>5

\* Only a reset, or a plan that finds disposable data unused, gives up stored data.
LEMMA DataStays ==
  ASSUME SharingInv, ScopesNext, volume # 0, volume' # volume
  PROVE  /\ disposable \/ reset.pc = "clear"
         /\ \A c \in Client : c \in claims["data"] => claimFile[c] # "locked"
<1>0. ScopesTyped /\ LeasesAreLocked /\ ClaimsAreKept
  BY DEF SharingInv
<1>1. ASSUME NEW c \in Client, ClaimResource(c) PROVE disposable /\ claims["data"] = {}
  <2>1. where[c].i \in 1 .. 2
    BY <1>0, <1>1 DEF ClaimResource, LeasesAreLocked, LeaseOf
  <2>2. volume' \in VolumeAfter(c, claims["data"] # {})
    BY <1>0, <1>1, <2>1, ClaimResourceForm
  <2> QED BY <2>2, VolumeForm
<1>2. CASE ResetClear
  BY <1>0, <1>2 DEF ResetClear, ClaimsAreKept, ResetIsAlone
<1>3. ASSUME NEW c \in Client,
             \/ EnterTree(c) \/ EnterResource(c) \/ StartTree(c) \/ TaskReturns(c) \/ ReleaseTree(c)
             \/ PruneResource(c) \/ LeaveTree(c) \/ Killed(c) \/ StatusLooks(c)
      PROVE  FALSE
  BY <1>3 DEF EnterTree, EnterResource, StartTree, TaskReturns, ReleaseTree, PruneResource, LeaveTree,
              Killed, StatusLooks
<1>4. ASSUME NEW a \in Actor, EndProbe(a) \/ \E c \in Client : LookAtClaim(a, c) PROVE FALSE
  BY <1>4 DEF EndProbe, LookAtClaim
<1>5. ~ResetGate /\ ~ResetVisit /\ ~StatusLeaves
  BY DEF ResetGate, ResetVisit, StatusLeaves
<1> QED BY <1>1, <1>2, <1>3, <1>4, <1>5 DEF ScopesNext

\* A release leaves services running for another's lease, or for one that is looked at.
LEMMA TaskReleases ==
  ASSUME SharingInv, ScopesNext, NEW c \in Client, where[c].pc = "ending", where'[c].pc = "prune",
         up'[TreeOf[c]]
  PROVE  Probed(c) \/ \E d \in Client \ {c} : TreeOf[d] = TreeOf[c] /\ claimFile[d] # "none"
<1>0. ScopesTyped /\ LeasesAreLocked
  BY DEF SharingInv
<1>1. ReleaseTree(c)
  <2>1. ASSUME NEW d \in Client, \E pc, i : d # c /\ MovesTo(d, pc, i) PROVE FALSE
    BY <2>1 DEF MovesTo
  <2>2. ASSUME NEW d \in Client, EnterTree(d) \/ EnterResource(d) \/ ClaimResource(d) \/ StartTree(d)
                                 \/ TaskReturns(d) \/ PruneResource(d) \/ LeaveTree(d)
        PROVE  FALSE
    <3>1. d # c
      BY <2>2
         DEF EnterTree, EnterResource, ClaimResource, StartTree, TaskReturns, PruneResource, LeaveTree
    <3>2. CASE EnterTree(d)
      BY <1>0, <2>1, <3>1, <3>2, GoesEnter DEF EnterTree
    <3>3. CASE EnterResource(d)
      BY <1>0, <2>1, <3>1, <3>3, GoesVisit
    <3>4. CASE ClaimResource(d)
      <4>1. where[d].i \in 1 .. 2 /\ where[d].i + 1 \in 0 .. 3
        BY <1>0, <3>4 DEF ClaimResource, LeasesAreLocked, LeaseOf
      <4> QED BY <1>0, <2>1, <3>1, <3>4, <4>1, GoesOn, GoesBack, ClaimResourceForm
    <3>5. CASE StartTree(d)
      BY <1>0, <2>1, <3>1, <3>5, GoesRun DEF StartTree
    <3>6. CASE TaskReturns(d)
      BY <1>0, <2>1, <3>1, <3>6, GoesEnding DEF TaskReturns
    <3>7. CASE PruneResource(d)
      <4>1. where[d].i - 1 \in 0 .. 3
        BY <1>0, <3>7 DEF PruneResource, LeasesAreLocked, LeaseOf
      <4> QED BY <1>0, <2>1, <3>1, <3>7, <4>1, GoesDown
    <3>8. CASE LeaveTree(d)
      BY <1>0, <2>1, <3>1, <3>8, GoesOut
    <3> QED BY <2>2, <3>2, <3>3, <3>4, <3>5, <3>6, <3>7, <3>8
  <2>3. ASSUME NEW d \in Client, Killed(d) PROVE FALSE
    BY <1>0, <2>3, GoesDead DEF Killed, MovesTo
  <2>4. ASSUME NEW d \in Client, d # c, ReleaseTree(d) PROVE FALSE
    BY <1>0, <2>1, <2>4, GoesPrune DEF ReleaseTree
  <2>5. ASSUME UNCHANGED where PROVE FALSE
    BY <2>5
  <2>6. ASSUME NEW a \in Actor, EndProbe(a) \/ \E d \in Client : LookAtClaim(a, d) PROVE UNCHANGED where
    BY <2>6 DEF EndProbe, LookAtClaim
  <2>7. (\E d \in Client : StatusLooks(d)) \/ StatusLeaves \/ ResetGate \/ ResetVisit \/ ResetClear
        => UNCHANGED where
    BY DEF StatusLooks, StatusLeaves, ResetGate, ResetVisit, ResetClear
  <2> QED BY <2>2, <2>3, <2>4, <2>5, <2>6, <2>7 DEF ScopesNext
<1>2. Users(TreeOf[c]) # {}
  <2> DEFINE t == TreeOf[c]
  <2>1. up' = [up EXCEPT ![t] = up[t] /\ Users(t) # {}]
    BY <1>1 DEF ReleaseTree
  <2>2. t \in ScopeNames
    OBVIOUS
  <2> HIDE DEF t
  <2>3. up'[t] = (up[t] /\ Users(t) # {})
    BY <1>0, <2>1, <2>2 DEF ScopesTyped
  <2> QED BY <2>3 DEF t
<1>3. PICK d \in Users(TreeOf[c]) : TRUE
  BY <1>2
<1>4. d \in Client /\ TreeOf[d] = TreeOf[c] /\ claimFile[d] # "none"
      /\ ~(claimFile[d] = "file" /\ ~Busy(d))
  BY <1>3 DEF Users, Dead
<1>5. d = c => Probed(c)
  BY <1>0, <1>4 DEF Busy, LeasesAreLocked, LeaseOf, ScopesTyped
<1> QED BY <1>4, <1>5

\* Worktrees share resources without taking them, or the data in them, from each other,
\* without waiting for each other in a circle, and without leaving services behind.
THEOREM SharingStaysSafe == ScopesSpec => SharingIsSafe
<1>1. SharingInv => RunningKeepsResources /\ NoGateCycle
  BY ResourcesStay, GatesAreOrdered
<1>2. SharingInv /\ [ScopesNext]_resourceVars
        => [volume # 0 /\ volume' # volume =>
              /\ disposable \/ reset.pc = "clear"
              /\ \A c \in Client : c \in claims["data"] => claimFile[c] # "locked"]_resourceVars
  BY DataStays
<1>3. SharingInv /\ [ScopesNext]_resourceVars
        => [\A c \in Client :
              where[c].pc = "ending" /\ where'[c].pc = "prune" /\ up'[TreeOf[c]] =>
                Probed(c) \/ \E d \in Client \ {c} : TreeOf[d] = TreeOf[c] /\ claimFile[d] # "none"
           ]_resourceVars
  BY TaskReleases
<1>4. ScopesSpec => [](RunningKeepsResources /\ NoGateCycle)
  BY <1>1, SharingInvariant, PTL
<1>5. ScopesSpec => DataIsKept
  BY <1>2, SharingInvariant, PTL DEF ScopesSpec, DataIsKept
<1>6. ScopesSpec => EndedTaskReleases
  BY <1>3, SharingInvariant, PTL DEF ScopesSpec, EndedTaskReleases
<1> QED BY <1>4, <1>5, <1>6 DEF SharingIsSafe


----------------------------------------------------------------------------
(* Shared resources: the types.                                            *)

\* Where a client is says too whether its task was admitted.
IsPlace(w) == w = [pc |-> w.pc, i |-> w.i, ok |-> w.ok] /\ w.ok \in BOOLEAN
PlacesWhole == \A c \in Client : IsPlace(where[c])
\* The other components of the state.
SharesTyped ==
  /\ unseen \in [Actor -> SUBSET Client] /\ watched \in Client \cup {Nobody}
  /\ volume \in 0..2 /\ inputs \in [Client -> 1..2] /\ crashes \in 0..MaxCrashes
\* A worktree's gate is held from the moment it is entered until it is left.
TreesAreHeld ==
  /\ \A c \in Client : where[c].pc \in {"enter", "visit", "prune", "sweep"}
                         => scopeGates[TreeOf[c]] = c
  /\ reset.pc \in {"enter", "visit", "clear"} => scopeGates[reset.of] = Reset

LEMMA PlaceKept ==
  ASSUME ScopesTyped, PlacesWhole, NEW c \in Client, NEW pc, NEW i, NEW ok \in BOOLEAN,
         Move(c, pc, i, ok)
  PROVE  /\ PlacesWhole' /\ where'[c].pc = pc
         /\ \A d \in Client \ {c} : where'[d] = where[d]
<1> DEFINE v == [pc |-> pc, i |-> i, ok |-> ok]
<1>1. IsPlace(v) /\ v.pc = pc
  BY DEF IsPlace
<1>2. where' = [where EXCEPT ![c] = v]
  BY DEF Move
<1> HIDE DEF v
<1>3. \A d \in Client : where'[d] = IF d = c THEN v ELSE where[d]
  BY <1>2 DEF ScopesTyped, IsPlaces
<1> QED BY <1>1, <1>3 DEF PlacesWhole, IsPlace

LEMMA PlacesStep == SharingInv /\ PlacesWhole /\ [ScopesNext]_resourceVars => PlacesWhole'
<1> SUFFICES ASSUME SharingInv, PlacesWhole, [ScopesNext]_resourceVars PROVE PlacesWhole'
  OBVIOUS
<1>0. ScopesTyped /\ LeasesAreLocked
  BY DEF SharingInv
<1>1. \A c \in Client : where[c].ok \in BOOLEAN
  BY DEF PlacesWhole, IsPlace
<1>2. ASSUME NEW c \in Client,
             EnterTree(c) \/ StartTree(c) \/ TaskReturns(c) \/ ReleaseTree(c) \/ Killed(c)
      PROVE  PlacesWhole'
  BY <1>0, <1>2, PlaceKept DEF EnterTree, StartTree, TaskReturns, ReleaseTree, Killed
<1>3. ASSUME NEW c \in Client, EnterResource(c) PROVE PlacesWhole'
  <2> DEFINE pc == IF where[c].pc = "enter" THEN "visit" ELSE "sweep"
  <2>1. Move(c, pc, where[c].i, where[c].ok)
    BY <1>3 DEF EnterResource
  <2> HIDE DEF pc
  <2> QED BY <1>0, <1>1, <2>1, PlaceKept
<1>4. ASSUME NEW c \in Client, PruneResource(c) PROVE PlacesWhole'
  <2> DEFINE i == where[c].i - 1
  <2>1. Move(c, "prune", i, where[c].ok)
    BY <1>4 DEF PruneResource
  <2> HIDE DEF i
  <2> QED BY <1>0, <1>1, <2>1, PlaceKept
<1>5. ASSUME NEW c \in Client, LeaveTree(c) PROVE PlacesWhole'
  <2> DEFINE pc == IF where[c].ok THEN "done" ELSE "failed"
  <2>1. Move(c, pc, 0, where[c].ok)
    BY <1>5 DEF LeaveTree
  <2> HIDE DEF pc
  <2> QED BY <1>0, <1>1, <2>1, PlaceKept
<1>6. ASSUME NEW c \in Client, ClaimResource(c) PROVE PlacesWhole'
  <2>1. where[c].i \in 1 .. 2
    BY <1>0, <1>6 DEF ClaimResource, LeasesAreLocked, LeaseOf
  <2> DEFINE i == where[c].i + 1
  <2>2. Move(c, "prune", 2, FALSE) \/ Move(c, "enter", i, TRUE)
    BY <1>0, <1>6, <2>1, ClaimResourceForm
  <2> HIDE DEF i
  <2> QED BY <1>0, <2>2, PlaceKept
<1>7. ASSUME NEW a \in Actor, EndProbe(a) PROVE PlacesWhole'
  BY <1>7 DEF EndProbe, PlacesWhole
<1>8. ASSUME NEW a \in Actor, NEW c \in Client, LookAtClaim(a, c) PROVE PlacesWhole'
  BY <1>8 DEF LookAtClaim, PlacesWhole
<1>9. CASE ResetGate \/ ResetVisit \/ ResetClear
  BY <1>9 DEF ResetGate, ResetVisit, ResetClear, PlacesWhole
<1>10. CASE (\E c \in Client : StatusLooks(c)) \/ StatusLeaves \/ UNCHANGED resourceVars
  BY <1>10 DEF StatusLooks, StatusLeaves, resourceVars, PlacesWhole
<1> QED BY <1>2, <1>3, <1>4, <1>5, <1>6, <1>7, <1>8, <1>9, <1>10 DEF ScopesNext

LEMMA SharesStep ==
  SharingInv /\ SharesTyped /\ [ScopesNext]_resourceVars => SharesTyped'
<1> SUFFICES ASSUME SharingInv, SharesTyped, [ScopesNext]_resourceVars PROVE SharesTyped'
  OBVIOUS
<1>0. ScopesTyped /\ LeasesAreLocked
  BY DEF SharingInv
<1> USE DEF SharesTyped
<1>1. ASSUME NEW c \in Client,
             \/ EnterTree(c) \/ StartTree(c) \/ TaskReturns(c) \/ ReleaseTree(c)
             \/ PruneResource(c) \/ LeaveTree(c)
      PROVE  SharesTyped'
  BY <1>1 DEF EnterTree, StartTree, TaskReturns, ReleaseTree, PruneResource, LeaveTree
<1>2. ASSUME NEW c \in Client, Killed(c) PROVE SharesTyped'
  <2>1. crashes' \in 0..MaxCrashes
    <3>1. crashes < MaxCrashes /\ crashes' = crashes + 1 /\ crashes \in 0..MaxCrashes
      BY <1>2 DEF Killed
    <3> HIDE DEF SharesTyped
    <3> QED BY <3>1
  <2>2. unseen' \in [Actor -> SUBSET Client] /\ UNCHANGED <<watched, volume, inputs>>
    BY <1>2 DEF Killed
  <2> QED BY <2>1, <2>2
<1>3. ASSUME NEW c \in Client, EnterResource(c) PROVE SharesTyped'
  <2> DEFINE r == Resources[where[c].i]
  <2>1. r \in {"net", "data"}
    BY <1>3 DEF EnterResource
  <2>2. unseen' = [unseen EXCEPT ![c] = claims[r]] /\ UNCHANGED <<watched, volume, inputs, crashes>>
    BY <1>3 DEF EnterResource
  <2> HIDE DEF r
  <2>3. unseen' \in [Actor -> SUBSET Client]
    BY <1>0, <2>1, <2>2 DEF ScopesTyped
  <2> QED BY <2>2, <2>3
<1>4. ASSUME NEW c \in Client, ClaimResource(c) PROVE SharesTyped'
  <2>1. where[c].i \in 1 .. 2
    BY <1>0, <1>4 DEF ClaimResource, LeasesAreLocked, LeaseOf
  <2>2. \/ volume' = volume
        \/ volume' \in IF Visited(c) = "data" THEN VolumeAfter(c, claims[Visited(c)] # {}) ELSE {volume}
    BY <1>0, <1>4, <2>1, ClaimResourceForm
  <2>3. volume' \in {volume, inputs[c]}
    BY <2>2 DEF VolumeAfter
  <2> QED BY <1>4, <2>3 DEF ClaimResource
<1>5. ASSUME NEW a \in Actor, EndProbe(a) PROVE SharesTyped'
  BY <1>5 DEF EndProbe
<1>6. ASSUME NEW a \in Actor, NEW c \in Client, LookAtClaim(a, c) PROVE SharesTyped'
  BY <1>6 DEF LookAtClaim
<1>7. CASE ResetGate
  <2> DEFINE s == ResetOrder(reset.of)[reset.i]
             seen == IF s \in Tree THEN {} ELSE claims[s]
  <2>1. seen \subseteq Client
    BY <1>0, ResetName DEF ScopesTyped
  <2>2. unseen' = [unseen EXCEPT ![Reset] = seen] /\ UNCHANGED <<watched, volume, inputs, crashes>>
    BY <1>7 DEF ResetGate
  <2> HIDE DEF seen
  <2> QED BY <2>1, <2>2
<1>8. CASE ResetVisit \/ ResetClear
  BY <1>8 DEF ResetVisit, ResetClear
<1>9. CASE (\E c \in Client : StatusLooks(c)) \/ StatusLeaves \/ UNCHANGED resourceVars
  BY <1>9 DEF StatusLooks, StatusLeaves, resourceVars
<1> QED BY <1>1, <1>2, <1>3, <1>4, <1>5, <1>6, <1>7, <1>8, <1>9 DEF ScopesNext

\* One gate is given, or given back, and it is not a worktree's that another holds.
LEMMA TreesKept ==
  ASSUME ScopesTyped, TreesAreHeld, UNCHANGED reset, NEW c \in Client,
         \A d \in Client \ {c} : where'[d] = where[d],
         where'[c].pc \in {"enter", "visit", "prune", "sweep"} => scopeGates'[TreeOf[c]] = c,
         \A t \in Tree : \/ scopeGates'[t] = scopeGates[t]
                         \/ scopeGates[t] \in {c, Nobody}
  PROVE  TreesAreHeld'
BY DEF TreesAreHeld, ScopesTyped, Nobody, Reset

LEMMA TreesStep ==
  SharingInv /\ PlacesWhole /\ TreesAreHeld /\ [ScopesNext]_resourceVars => TreesAreHeld'
<1> SUFFICES ASSUME SharingInv, PlacesWhole, TreesAreHeld, [ScopesNext]_resourceVars
             PROVE  TreesAreHeld'
  OBVIOUS
<1>0. ScopesTyped /\ LeasesAreLocked /\ GatesAreHeld
  BY DEF SharingInv
<1>1. \A c \in Client : where[c].ok \in BOOLEAN
  BY DEF PlacesWhole, IsPlace
<1>2. ASSUME NEW c \in Client, EnterTree(c) PROVE TreesAreHeld'
  <2>1. /\ where'[c].pc = "enter" /\ \A d \in Client \ {c} : where'[d] = where[d]
    BY <1>0, <1>2, PlaceKept DEF EnterTree
  <2>2. /\ scopeGates' = [scopeGates EXCEPT ![TreeOf[c]] = c] /\ scopeGates[TreeOf[c]] = Nobody
        /\ UNCHANGED reset
    BY <1>2 DEF EnterTree
  <2> QED BY <1>0, <2>1, <2>2, TreesKept DEF ScopesTyped
<1>3. ASSUME NEW c \in Client, EnterResource(c) PROVE TreesAreHeld'
  <2> DEFINE pc == IF where[c].pc = "enter" THEN "visit" ELSE "sweep"
             r == Resources[where[c].i]
  <2>1. /\ Move(c, pc, where[c].i, where[c].ok) /\ UNCHANGED reset
        /\ scopeGates' = [scopeGates EXCEPT ![r] = c]
        /\ where[c].pc \in {"enter", "prune"} /\ r \in {"net", "data"}
    BY <1>3 DEF EnterResource
  <2> HIDE DEF pc, r
  <2>2. \A d \in Client \ {c} : where'[d] = where[d]
    BY <1>0, <1>1, <2>1, PlaceKept
  <2>3. \A t \in Tree : scopeGates'[t] = scopeGates[t]
    BY <1>0, <2>1 DEF ScopesTyped
  <2>4. scopeGates[TreeOf[c]] = c
    BY <2>1 DEF TreesAreHeld
  <2> QED BY <1>0, <2>1, <2>2, <2>3, <2>4, TreesKept
<1>4. ASSUME NEW c \in Client, ClaimResource(c) PROVE TreesAreHeld'
  <2>1. where[c].i \in 1 .. 2
    BY <1>0, <1>4 DEF ClaimResource, LeasesAreLocked, LeaseOf
  <2> DEFINE i == where[c].i + 1
             r == Visited(c)
  <2>2. /\ Move(c, "prune", 2, FALSE) \/ Move(c, "enter", i, TRUE)
        /\ scopeGates' = [scopeGates EXCEPT ![r] = Nobody] /\ UNCHANGED reset
        /\ where[c].pc = "visit"
    BY <1>0, <1>4, <2>1, ClaimResourceForm
  <2>3. r \in {"net", "data"}
    BY <1>0, <2>1, VisitedName
  <2> HIDE DEF i, r
  <2>4. \A d \in Client \ {c} : where'[d] = where[d]
    BY <1>0, <2>2, PlaceKept
  <2>5. \A t \in Tree : scopeGates'[t] = scopeGates[t]
    BY <1>0, <2>2, <2>3 DEF ScopesTyped
  <2>6. scopeGates[TreeOf[c]] = c
    BY <2>2 DEF TreesAreHeld
  <2> QED BY <1>0, <2>2, <2>4, <2>5, <2>6, TreesKept
<1>5. ASSUME NEW c \in Client, StartTree(c) PROVE TreesAreHeld'
  <2>1. /\ where'[c].pc = "run" /\ \A d \in Client \ {c} : where'[d] = where[d]
    BY <1>0, <1>5, PlaceKept DEF StartTree
  <2>2. /\ scopeGates' = [scopeGates EXCEPT ![TreeOf[c]] = Nobody] /\ where[c].pc = "enter"
        /\ UNCHANGED reset
    BY <1>5 DEF StartTree
  <2>3. scopeGates[TreeOf[c]] = c
    BY <2>2 DEF TreesAreHeld
  <2> QED BY <1>0, <2>1, <2>2, <2>3, TreesKept DEF ScopesTyped
<1>6. ASSUME NEW c \in Client, TaskReturns(c) PROVE TreesAreHeld'
  <2>1. /\ where'[c].pc = "ending" /\ \A d \in Client \ {c} : where'[d] = where[d]
    BY <1>0, <1>6, PlaceKept DEF TaskReturns
  <2> QED BY <1>0, <1>6, <2>1, TreesKept DEF TaskReturns
<1>7. ASSUME NEW c \in Client, ReleaseTree(c) PROVE TreesAreHeld'
  <2>1. /\ where'[c].pc = "prune" /\ \A d \in Client \ {c} : where'[d] = where[d]
    BY <1>0, <1>7, PlaceKept DEF ReleaseTree
  <2>2. /\ scopeGates' = [scopeGates EXCEPT ![TreeOf[c]] = c] /\ scopeGates[TreeOf[c]] = Nobody
        /\ UNCHANGED reset
    BY <1>7 DEF ReleaseTree
  <2> QED BY <1>0, <2>1, <2>2, TreesKept DEF ScopesTyped
<1>8. ASSUME NEW c \in Client, PruneResource(c) PROVE TreesAreHeld'
  <2>1. where[c].i \in 1 .. 2
    BY <1>0, <1>8 DEF PruneResource, LeasesAreLocked, LeaseOf
  <2> DEFINE i == where[c].i - 1
             r == Visited(c)
  <2>2. /\ Move(c, "prune", i, where[c].ok) /\ UNCHANGED reset
        /\ scopeGates' = [scopeGates EXCEPT ![r] = Nobody] /\ where[c].pc = "sweep"
    BY <1>8 DEF PruneResource
  <2>3. r \in {"net", "data"}
    BY <1>0, <2>1, VisitedName
  <2> HIDE DEF i, r
  <2>4. \A d \in Client \ {c} : where'[d] = where[d]
    BY <1>0, <1>1, <2>2, PlaceKept
  <2>5. \A t \in Tree : scopeGates'[t] = scopeGates[t]
    BY <1>0, <2>2, <2>3 DEF ScopesTyped
  <2>6. scopeGates[TreeOf[c]] = c
    BY <2>2 DEF TreesAreHeld
  <2> QED BY <1>0, <2>2, <2>4, <2>5, <2>6, TreesKept
<1>9. ASSUME NEW c \in Client, LeaveTree(c) PROVE TreesAreHeld'
  <2> DEFINE pc == IF where[c].ok THEN "done" ELSE "failed"
  <2>1. /\ Move(c, pc, 0, where[c].ok) /\ UNCHANGED reset /\ pc \in {"done", "failed"}
        /\ scopeGates' = [scopeGates EXCEPT ![TreeOf[c]] = Nobody] /\ where[c].pc = "prune"
    BY <1>9 DEF LeaveTree
  <2> HIDE DEF pc
  <2>2. where'[c].pc = pc /\ \A d \in Client \ {c} : where'[d] = where[d]
    BY <1>0, <1>1, <2>1, PlaceKept
  <2>3. scopeGates[TreeOf[c]] = c
    BY <2>1 DEF TreesAreHeld
  <2> QED BY <1>0, <2>1, <2>2, <2>3, TreesKept DEF ScopesTyped
<1>10. ASSUME NEW c \in Client, Killed(c) PROVE TreesAreHeld'
  <2>1. /\ where'[c].pc = "dead" /\ \A d \in Client \ {c} : where'[d] = where[d]
    BY <1>0, <1>10, PlaceKept DEF Killed
  <2>2. \A t \in Tree : scopeGates'[t] = scopeGates[t] \/ scopeGates[t] = c
    BY <1>10 DEF Killed
  <2> QED BY <1>0, <1>10, <2>1, <2>2, TreesKept DEF Killed
<1>11. ASSUME NEW a \in Actor, EndProbe(a) \/ (\E c \in Client : LookAtClaim(a, c))
       PROVE TreesAreHeld'
  BY <1>11 DEF EndProbe, LookAtClaim, TreesAreHeld
<1>12. CASE ResetGate
  <2> DEFINE s == ResetOrder(reset.of)[reset.i]
  <2>1. /\ scopeGates[s] = Nobody /\ scopeGates' = [scopeGates EXCEPT ![s] = Reset]
        /\ reset' = [reset EXCEPT !.pc = "visit"] /\ UNCHANGED where
        /\ reset.pc \in {"idle", "enter"}
    BY <1>12 DEF ResetGate
  <2>2. reset'.of = reset.of /\ reset.of \in Tree
    BY <1>0, <2>1 DEF ScopesTyped
  <2>3. s \in ScopeNames /\ (reset.pc = "idle" => s = reset.of)
    BY <1>0, ResetName DEF GatesAreHeld
  <2> HIDE DEF s
  <2>4. \A g \in ScopeNames : scopeGates'[g] = IF g = s THEN Reset ELSE scopeGates[g]
    BY <1>0, <2>1, <2>3 DEF ScopesTyped
  <2>5. scopeGates'[reset'.of] = Reset
    BY <2>1, <2>2, <2>3, <2>4 DEF TreesAreHeld
  <2>6. \A c \in Client : where[c].pc \in {"enter", "visit", "prune", "sweep"}
          => scopeGates'[TreeOf[c]] = c
    BY <2>1, <2>3, <2>4 DEF TreesAreHeld, Nobody
  <2> QED BY <2>1, <2>5, <2>6 DEF TreesAreHeld
<1>13. CASE ResetVisit
  <2>1. UNCHANGED where /\ reset'.of = reset.of /\ reset.of \in Tree /\ reset.pc = "visit"
    <3>1. \/ reset' = [reset EXCEPT !.pc = "end"] \/ reset' = [reset EXCEPT !.pc = "clear"]
          \/ reset' = [reset EXCEPT !.pc = "enter", !.i = @ + 1]
      BY <1>13 DEF ResetVisit
    <3>2. reset'.of = reset.of /\ reset.of \in Tree
      BY <1>0, <3>1 DEF ScopesTyped
    <3> QED BY <1>13, <3>2 DEF ResetVisit
  <2>2. CASE UNCHANGED scopeGates
    BY <2>1, <2>2 DEF TreesAreHeld
  <2>3. CASE /\ reset'.pc = "end"
             /\ scopeGates' = [g \in ScopeNames |-> IF scopeGates[g] = Reset THEN Nobody
                                                     ELSE scopeGates[g]]
    BY <2>1, <2>3 DEF TreesAreHeld, Reset
  <2> QED BY <1>0, <1>13, <2>2, <2>3, ResetVisitForm
<1>14. CASE ResetClear
  <2>1. reset'.pc = "end" /\ UNCHANGED where
    BY <1>0, <1>14 DEF ResetClear, ScopesTyped
  <2> QED BY <1>14, <2>1 DEF ResetClear, TreesAreHeld, Reset
<1>15. CASE (\E c \in Client : StatusLooks(c)) \/ StatusLeaves \/ UNCHANGED resourceVars
  BY <1>15 DEF StatusLooks, StatusLeaves, resourceVars, TreesAreHeld
<1> QED BY <1>2, <1>3, <1>4, <1>5, <1>6, <1>7, <1>8, <1>9, <1>10, <1>11, <1>12, <1>13, <1>14,
           <1>15 DEF ScopesNext

\* Whether data is disposable is the plan's, and stays.
DisposableTyped == disposable \in BOOLEAN
LEMMA DisposableStep == DisposableTyped /\ [ScopesNext]_resourceVars => DisposableTyped'
BY DEF DisposableTyped, ScopesNext, EnterTree, EnterResource, ClaimResource, StartTree, TaskReturns, ReleaseTree,
       PruneResource, LeaveTree, Killed, StatusLooks, EndProbe, LookAtClaim, ResetGate, ResetVisit,
       ResetClear, StatusLeaves, resourceVars

\* The state of shared resources is of its types; a reset that waits or clears has its
\* worktree's gate.
THEOREM ScopesTypeCorrect == ScopesSpec => []ScopesTypeOK
<1>1. ScopesInit => PlacesWhole /\ SharesTyped /\ TreesAreHeld
  <2> SUFFICES ASSUME ScopesInit PROVE PlacesWhole /\ SharesTyped /\ TreesAreHeld
    OBVIOUS
  <2>1. PlacesWhole
    BY DEF ScopesInit, PlacesWhole, IsPlace
  <2>2. SharesTyped
    BY DEF ScopesInit, SharesTyped
  <2>3. TreesAreHeld
    BY DEF ScopesInit, TreesAreHeld
  <2> QED BY <2>1, <2>2, <2>3
<1>2. ScopesInit => DisposableTyped
  BY DEF ScopesInit, DisposableTyped
<1>3. /\ SharingInv /\ PlacesWhole /\ SharesTyped /\ TreesAreHeld /\ DisposableTyped
      => ScopesTypeOK
  <2> SUFFICES ASSUME SharingInv, PlacesWhole, SharesTyped, TreesAreHeld, DisposableTyped
               PROVE  ScopesTypeOK
    OBVIOUS
  <2>0. ScopesTyped
    BY DEF SharingInv
  <2>1. where \in [Client -> [pc : Stations, i : 0..3, ok : BOOLEAN]]
    BY <2>0 DEF ScopesTyped, IsPlaces, PlacesWhole, IsPlace
  <2>2. reset \in [pc : {"idle", "enter", "visit", "clear", "end"}, i : 0..3, of : Tree]
    BY <2>0 DEF ScopesTyped
  <2>3. reset.pc \in {"enter", "clear"} => scopeGates[reset.of] = Reset
    BY DEF TreesAreHeld
  <2> HIDE DEF Actor, ScopeNames
  <2> QED BY <2>0, <2>1, <2>2, <2>3 DEF ScopesTyped, SharesTyped, DisposableTyped, ScopesTypeOK
<1> QED BY <1>1, <1>2, <1>3, SharingInvariant, PlacesStep, SharesStep, TreesStep, DisposableStep,
           PTL
        DEF ScopesSpec
HIDE SharingAssumption DEF Actor, Resources, ScopeNames

----------------------------------------------------------------------------
(* Showing logs: the invariant.                                          *)

\* Where the viewer is: in the file it has open, or at the beginning of the newest one.
Position == IF open.file # 0 THEN open.at ELSE IF ends = <<>> THEN 0 ELSE Begins(Len(ends))
FilesGrow == \A i, j \in DOMAIN ends : i <= j => ends[i] <= ends[j]
ReaderStands ==
  /\ open.file <= Len(ends) /\ statted <= Len(ends)
  /\ open.file # 0 => Begins(open.file) <= open.at /\ open.at <= ends[open.file]
  /\ reader = "statted" => statted # 0 /\ open.file <= statted
  /\ reader = "opens" => ends # <<>> /\ open.file = 0
  /\ reader = "reads" => open.file # 0
  /\ goal = "view" => primed
  /\ goal = "boundary" => shown = <<>>
\* Nothing shown, and no boundary, is ahead of the viewer.
ShownBehind == boundary <= Position /\ \A i \in DOMAIN shown : shown[i] <= Position
\* What one more chunk of a file that was replaced would not reach is excused.
LeftBehind ==
  open.file # 0 =>
    \A n \in 1..Begins(Len(ends)) : n > open.at + Chunk \/ n > ends[open.file] => n \in excused
ViewComplete == goal = "view" => ((boundary + 1)..Position) \ Shown \subseteq excused
LogInv ==
  /\ LogTypeOK /\ FilesGrow /\ ReaderStands /\ ShownBehind /\ LeftBehind /\ ViewComplete
  /\ NothingIsReplayed

LEMMA SmallerIs ==
  ASSUME NEW a \in Nat, NEW b \in Nat
  PROVE  /\ Smaller(a, b) \in Nat /\ Smaller(a, b) <= a /\ Smaller(a, b) <= b
         /\ Smaller(a, b) = a \/ Smaller(a, b) = b
BY DEF Smaller

LEMMA BiggerIs ==
  ASSUME NEW a \in Nat, NEW b \in Int
  PROVE  /\ Bigger(a, b) \in Nat /\ a <= Bigger(a, b) /\ b <= Bigger(a, b)
         /\ Bigger(a, b) = a \/ Bigger(a, b) = b
BY DEF Bigger

LEMMA EndsAreNumbers ==
  ASSUME NEW s \in Seq(0..MaxRecords) PROVE \A i \in 1..Len(s) : s[i] \in Nat
BY LogAssumption

LEMMA LogTyped ==
  ASSUME LogInv
  PROVE  /\ ends \in Seq(0..MaxRecords) /\ Len(ends) \in Nat /\ DOMAIN ends = 1..Len(ends)
         /\ \A i \in 1..Len(ends) : ends[i] \in 0..MaxRecords
         /\ open.file \in 0..MaxFiles /\ open.at \in 0..MaxRecords
         /\ open = [file |-> open.file, at |-> open.at]
         /\ statted \in 0..MaxFiles /\ boundary \in 0..MaxRecords /\ Position \in 0..MaxRecords
         /\ shown \in Seq(1..MaxRecords) /\ Chunk \in Nat /\ MaxRecords \in Nat
         /\ MaxFiles \in Nat
         /\ (ends = <<>> <=> Len(ends) = 0)
         /\ \A i, j \in 1..Len(ends) : i <= j => ends[i] <= ends[j]
         /\ \A i \in 1..Len(ends) : Begins(i) \in 0..MaxRecords /\ Begins(i) <= ends[i]
<1>1. /\ ends \in Seq(0..MaxRecords) /\ Len(ends) \in Nat /\ DOMAIN ends = 1..Len(ends)
      /\ \A i \in 1..Len(ends) : ends[i] \in 0..MaxRecords
      /\ open \in [file : 0..MaxFiles, at : 0..MaxRecords]
      /\ statted \in 0..MaxFiles /\ boundary \in 0..MaxRecords
      /\ shown \in Seq(1..MaxRecords) /\ Chunk \in Nat /\ MaxRecords \in Nat
      /\ MaxFiles \in Nat
  BY LogAssumption DEF LogInv, LogTypeOK
<1>2. ends = <<>> <=> Len(ends) = 0
  BY <1>1, EmptySeq
<1>3. Position \in 0..MaxRecords
  BY <1>1, <1>2 DEF Position, Begins
<1>4. \A i, j \in 1..Len(ends) : i <= j => ends[i] <= ends[j]
  BY <1>1 DEF LogInv, FilesGrow
<1>5. ASSUME NEW i \in 1..Len(ends) PROVE Begins(i) \in 0..MaxRecords /\ Begins(i) <= ends[i]
  <2>1. CASE i = 1
    BY <1>1, <2>1 DEF Begins
  <2>2. CASE i # 1
    <3>1. i - 1 \in 1..Len(ends) /\ i - 1 <= i /\ Begins(i) = ends[i - 1]
      BY <1>1, <2>2 DEF Begins
    <3> QED BY <1>1, <1>4, <3>1
  <2> QED BY <2>1, <2>2
<1> QED BY <1>1, <1>2, <1>3, <1>4, <1>5

\* What a viewer shows goes on from where it stands.
LEMMA ShowGoesOn ==
  ASSUME LogInv, NEW from \in 0..MaxRecords, NEW to \in 0..MaxRecords, from <= to,
         Show(from, to), Position <= from
  PROVE  /\ shown' \in Seq(1..MaxRecords)
         /\ goal = "boundary" => shown' = <<>>
         /\ \A i \in DOMAIN shown' : shown'[i] \in Nat /\ shown'[i] <= to /\ shown'[i] > boundary
         /\ \A i, j \in DOMAIN shown' : i < j => shown'[i] < shown'[j]
         /\ goal # "boundary" => Shown' = Shown \cup (from + 1)..to
<1>1. /\ shown \in Seq(1..MaxRecords) /\ boundary \in 0..MaxRecords /\ Position \in 0..MaxRecords
      /\ MaxRecords \in Nat
  BY LogTyped
<1>2. \A i \in DOMAIN shown : shown[i] <= Position /\ shown[i] > boundary /\ shown[i] \in 1..MaxRecords
  BY <1>1 DEF LogInv, ShownBehind, NothingIsReplayed
<1>3. boundary <= Position
  BY DEF LogInv, ShownBehind
<1>4. CASE goal = "boundary"
  <2>1. shown = <<>> /\ shown' = shown
    BY <1>4 DEF LogInv, ReaderStands, Show
  <2> QED BY <1>4, <2>1
<1>5. CASE goal # "boundary"
  <2> DEFINE more == [i \in 1..(to - from) |-> from + i]
  <2>1. more \in Seq(1..MaxRecords) /\ Len(more) = to - from
    BY <1>1
  <2>2. shown' = shown \o more
    BY <1>5 DEF Show
  <2>3. /\ shown' \in Seq(1..MaxRecords) /\ Len(shown') = Len(shown) + (to - from)
        /\ DOMAIN shown' = 1..(Len(shown) + (to - from)) /\ DOMAIN shown = 1..Len(shown)
        /\ Len(shown) \in Nat
    BY <1>1, <2>1, <2>2
  <2>4. /\ \A i \in 1..Len(shown) : shown'[i] = shown[i]
        /\ \A i \in 1..(Len(shown) + (to - from)) :
             i > Len(shown) => shown'[i] = from + (i - Len(shown))
    BY <1>1, <2>1, <2>2, <2>3
  <2> HIDE DEF more
  <2>5. \A i \in DOMAIN shown' : shown'[i] \in Nat /\ shown'[i] <= to /\ shown'[i] > boundary
    <3> SUFFICES ASSUME NEW i \in DOMAIN shown'
                 PROVE  shown'[i] \in Nat /\ shown'[i] <= to /\ shown'[i] > boundary
      OBVIOUS
    <3>1. CASE i \in 1..Len(shown)
      BY <1>1, <1>2, <2>3, <2>4, <3>1, SMTT(30)
    <3>2. CASE i > Len(shown)
      <4>1. i \in 1..(Len(shown) + (to - from)) /\ shown'[i] = from + (i - Len(shown))
        BY <2>3, <2>4, <3>2
      <4>2. from \in Nat /\ to \in Nat /\ Len(shown) \in Nat /\ boundary \in Nat /\ boundary <= from
        <5>1. Position \in Nat
          BY <1>1
        <5> QED BY <1>1, <1>3, <2>3, <5>1
      <4>3. i \in Nat /\ i - Len(shown) \in 1..(to - from)
        BY <3>2, <4>1, <4>2
      <4> QED BY <4>1, <4>2, <4>3
    <3> QED BY <2>3, <3>1, <3>2
  <2>6. \A i, j \in DOMAIN shown' : i < j => shown'[i] < shown'[j]
    <3> SUFFICES ASSUME NEW i \in DOMAIN shown', NEW j \in DOMAIN shown', i < j
                 PROVE  shown'[i] < shown'[j]
      OBVIOUS
    <3>1. CASE j \in 1..Len(shown)
      <4>1. i \in 1..Len(shown)
        BY <2>3, <3>1
      <4>2. shown[i] < shown[j]
        BY <2>3, <3>1, <4>1 DEF LogInv, NothingIsReplayed
      <4> QED BY <2>4, <3>1, <4>1, <4>2
    <3>2. CASE j > Len(shown) /\ i \in 1..Len(shown)
      <4>1. j \in 1..(Len(shown) + (to - from)) /\ shown'[j] = from + (j - Len(shown))
        BY <2>3, <2>4, <3>2
      <4>2. shown'[i] = shown[i] /\ shown[i] <= Position /\ shown[i] \in 1..MaxRecords
        BY <1>2, <2>3, <2>4, <3>2
      <4> QED BY <1>1, <2>3, <3>2, <4>1, <4>2
    <3>3. CASE j > Len(shown) /\ i > Len(shown)
      <4>1. /\ j \in 1..(Len(shown) + (to - from)) /\ shown'[j] = from + (j - Len(shown))
            /\ i \in 1..(Len(shown) + (to - from)) /\ shown'[i] = from + (i - Len(shown))
        BY <2>3, <2>4, <3>3
      <4> QED BY <2>3, <4>1
    <3> QED BY <2>3, <3>1, <3>2, <3>3
  <2>7. Shown' = Shown \cup (from + 1)..to
    <3>1. ASSUME NEW n \in Shown' PROVE n \in Shown \cup (from + 1)..to
      <4>1. PICK i \in 1..(Len(shown) + (to - from)) : n = shown'[i]
        BY <2>3 DEF Shown
      <4>2. CASE i \in 1..Len(shown)
        BY <2>3, <2>4, <4>1, <4>2 DEF Shown
      <4>3. CASE i > Len(shown)
        BY <1>1, <2>3, <2>4, <4>1, <4>3
      <4> QED BY <2>3, <4>2, <4>3
    <3>2. Shown \subseteq Shown'
      BY <2>3, <2>4 DEF Shown
    <3>3. ASSUME NEW n \in (from + 1)..to PROVE n \in Shown'
      <4> DEFINE i == Len(shown) + (n - from)
      <4>1. i \in 1..(Len(shown) + (to - from)) /\ i > Len(shown)
        BY <2>3
      <4>2. shown'[i] = n
        BY <2>3, <2>4, <4>1
      <4> QED BY <2>3, <4>1, <4>2 DEF Shown
    <3> QED BY <3>1, <3>2, <3>3
  <2> QED BY <1>5, <2>3, <2>5, <2>6, <2>7
<1> QED BY <1>4, <1>5

\* The files: a record is written, or the log rotates, under any viewer.
LEMMA WriteKeeps == ASSUME LogInv, WriteRecord PROVE LogInv'
<1>1. UNCHANGED <<reader, open, primed, statted, goal, shown, boundary, excused>>
      /\ Written < MaxRecords
      /\ ends' = IF ends = <<>> THEN <<1>> ELSE [ends EXCEPT ![Len(ends)] = @ + 1]
  BY DEF WriteRecord
<1>2. /\ ends' \in Seq(0..MaxRecords) /\ Len(ends') <= MaxFiles /\ ends' # <<>>
      /\ Len(ends) <= Len(ends') /\ Len(ends') \in Nat \ {0} /\ DOMAIN ends' = 1..Len(ends')
      /\ \A i \in 1..Len(ends) : ends[i] <= ends'[i] /\ (i < Len(ends) => ends'[i] = ends[i])
      /\ FilesGrow'
      /\ ends # <<>> => Len(ends') = Len(ends)
      /\ ends = <<>> => Len(ends') = 1
  <2>1. CASE ends = <<>>
    <3>1. ends' = <<1>> /\ 1 \in 0..MaxRecords /\ 1 <= MaxFiles /\ Len(ends) = 0
      BY <1>1, <2>1, LogTyped, LogAssumption DEF Written
    <3> QED BY <2>1, <3>1 DEF FilesGrow
  <2>2. CASE ends # <<>>
    <3>1. ends' = [ends EXCEPT ![Len(ends)] = @ + 1] /\ ends[Len(ends)] < MaxRecords
          /\ Len(ends) \in 1..Len(ends)
      BY <1>1, <2>2, LogTyped DEF Written
    <3>2. /\ ends' \in Seq(0..MaxRecords) /\ Len(ends') = Len(ends) /\ DOMAIN ends' = 1..Len(ends)
          /\ \A i \in 1..Len(ends) : ends'[i] = IF i = Len(ends) THEN ends[i] + 1 ELSE ends[i]
      BY <3>1, LogTyped
    <3>3. FilesGrow'
      <4> SUFFICES ASSUME NEW i \in 1..Len(ends), NEW j \in 1..Len(ends), i <= j
                   PROVE  ends'[i] <= ends'[j]
        BY <3>2 DEF FilesGrow
      <4>1. ends[i] <= ends[j] /\ ends[i] \in Nat /\ ends[j] \in Nat /\ Len(ends) \in Nat
            /\ (j = Len(ends) => ends[i] <= ends[Len(ends)])
        BY LogTyped, SMTT(30)
      <4>2. /\ ends'[i] = IF i = Len(ends) THEN ends[i] + 1 ELSE ends[i]
            /\ ends'[j] = IF j = Len(ends) THEN ends[j] + 1 ELSE ends[j]
        BY <3>2
      <4> QED BY <4>1, <4>2
    <3>4. Len(ends) <= MaxFiles /\ Len(ends) \in Nat \ {0}
      BY <3>1, LogTyped DEF LogInv, LogTypeOK
    <3>5. ASSUME NEW i \in 1..Len(ends)
          PROVE  ends[i] <= ends'[i] /\ (i < Len(ends) => ends'[i] = ends[i])
      <4>1. ends[i] \in Nat
        BY LogTyped, SMTT(30)
      <4>2. ends'[i] = IF i = Len(ends) THEN ends[i] + 1 ELSE ends[i]
        BY <3>2
      <4> QED BY <4>1, <4>2, <3>4
    <3>6. ends' # <<>>
      BY <3>2, <3>4, EmptySeq
    <3>7. /\ ends' \in Seq(0..MaxRecords) /\ Len(ends') = Len(ends) /\ DOMAIN ends' = 1..Len(ends')
          /\ Len(ends) <= Len(ends') /\ Len(ends') \in Nat \ {0} /\ Len(ends') <= MaxFiles
      <4>1. Len(ends') = Len(ends)
        BY <3>2
      <4>2. Len(ends) <= Len(ends') /\ Len(ends') \in Nat \ {0} /\ Len(ends') <= MaxFiles
        BY <3>4, <4>1
      <4> QED BY <3>2, <4>1, <4>2
    <3> QED BY <2>2, <3>3, <3>5, <3>6, <3>7
  <2> QED BY <2>1, <2>2
<1>3. Position' = Position
  <2>1. CASE ends = <<>>
    BY <1>1, <1>2, <2>1, LogTyped DEF Position, Begins, LogInv, ReaderStands
  <2>2. CASE ends # <<>>
    <3>1. Begins(Len(ends))' = Begins(Len(ends))
      <4>1. Len(ends) \in Nat \ {0} /\ Len(ends') = Len(ends)
        BY <1>2, <2>2, LogTyped
      <4>2. Len(ends) # 1 => ends'[Len(ends) - 1] = ends[Len(ends) - 1]
        BY <1>2, <4>1
      <4> QED BY <4>1, <4>2 DEF Begins
    <3> QED BY <1>1, <1>2, <2>2, <3>1 DEF Position
  <2> QED BY <2>1, <2>2
<1>4. ASSUME open.file # 0
      PROVE  /\ open.file \in 1..Len(ends) /\ open.at <= ends[open.file] /\ open.at \in Nat
             /\ Begins(open.file) <= open.at
             /\ ends[open.file] \in Nat /\ ends'[open.file] \in Nat
             /\ ends[open.file] <= ends'[open.file]
             /\ Begins(open.file)' = Begins(open.file) /\ Begins(Len(ends))' = Begins(Len(ends))
  <2>1. /\ open.file \in 1..Len(ends) /\ open.at <= ends[open.file] /\ open.at \in Nat
        /\ Begins(open.file) <= open.at /\ Len(ends) \in Nat \ {0}
    <3>1. open.file \in Nat /\ open.at \in Nat /\ Len(ends) \in Nat
      BY LogTyped
    <3>2. ReaderStands
      BY DEF LogInv
    <3> QED BY <1>4, <3>1, <3>2 DEF ReaderStands
  <2>2. ends \in Seq(0..MaxRecords) /\ ends' \in Seq(0..MaxRecords)
    BY <1>2, LogTyped
  <2>3. Len(ends') = Len(ends) /\ open.file \in 1..Len(ends')
    <3>1. ends # <<>>
      BY <2>1
    <3> QED BY <1>2, <2>1, <3>1
  <2>4. open' = open
    BY <1>1
  <2>5. ASSUME NEW f \in 1..Len(ends), f # 1 PROVE ends'[f - 1] = ends[f - 1]
    <3>1. f - 1 \in 1..Len(ends) /\ f - 1 < Len(ends)
      BY <2>1, <2>5
    <3> QED BY <1>2, <3>1
  <2>6. Begins(open.file)' = Begins(open.file) /\ Begins(Len(ends))' = Begins(Len(ends))
    <3>1. Len(ends) \in 1..Len(ends)
      BY <2>1
    <3>2. Begins(open.file)' = Begins(open.file)
      BY <2>1, <2>4, <2>5 DEF Begins
    <3>3. Begins(Len(ends))' = Begins(Len(ends))
      BY <2>3, <2>5, <3>1 DEF Begins
    <3> QED BY <3>2, <3>3
  <2>7. ends[open.file] <= ends'[open.file]
    BY <1>2, <2>1
  <2> QED BY <2>1, <2>2, <2>3, <2>6, <2>7, EndsAreNumbers
<1>5. ReaderStands'
  <2>1. open.file # 0 => Begins(open.file)' = Begins(open.file)
    BY <1>4
  <2>3. open.file # 0 => open.at <= ends'[open.file]
    BY <1>4
  <2>4. /\ open.file \in Nat /\ statted \in Nat /\ Len(ends) \in Nat /\ Len(ends') \in Nat
        /\ Len(ends) <= Len(ends') /\ ends' # <<>>
        /\ UNCHANGED <<reader, open, primed, statted, goal, shown>>
    BY <1>1, <1>2, LogTyped
  <2> QED BY <2>1, <2>3, <2>4 DEF LogInv, ReaderStands
<1>6. ShownBehind' /\ ViewComplete' /\ NothingIsReplayed' /\ LogTypeOK'
  BY <1>1, <1>2, <1>3 DEF LogInv, ShownBehind, ViewComplete, NothingIsReplayed, LogTypeOK, Shown
<1>7. LeftBehind'
  BY <1>1, <1>4 DEF LogInv, LeftBehind
<1> QED BY <1>2, <1>5, <1>6, <1>7 DEF LogInv

LEMMA RotateKeeps == ASSUME LogInv, Rotate PROVE LogInv'
<1> DEFINE last == Len(ends)
           lost == ((IF open.file = last THEN open.at + Chunk ELSE Begins(last)) + 1)..ends[last]
<1>1. /\ last \in 1..(MaxFiles - 1) /\ ends' = Append(ends, ends[last])
      /\ excused' = excused \cup lost
      /\ UNCHANGED <<reader, open, primed, statted, goal, shown, boundary>>
  BY DEF Rotate
<1>2. /\ ends' \in Seq(0..MaxRecords) /\ Len(ends') = last + 1 /\ Len(ends') <= MaxFiles
      /\ DOMAIN ends' = 1..(last + 1) /\ ends' # <<>> /\ ends # <<>>
      /\ \A i \in 1..last : ends'[i] = ends[i]
      /\ ends'[last + 1] = ends[last] /\ ends[last] \in 0..MaxRecords
      /\ Begins(Len(ends))' = ends[last]
  <2>1. last \in Nat \ {0} /\ ends[last] \in 0..MaxRecords /\ ends \in Seq(0..MaxRecords)
        /\ MaxFiles \in Nat
    BY <1>1, LogTyped
  <2>2. /\ ends' \in Seq(0..MaxRecords) /\ Len(ends') = last + 1
        /\ \A i \in 1..last : ends'[i] = ends[i]
        /\ ends'[last + 1] = ends[last]
    BY <1>1, <2>1
  <2>3. Begins(Len(ends))' = ends[last]
    BY <2>1, <2>2 DEF Begins
  <2>4. DOMAIN ends' = 1..(last + 1) /\ Len(ends') <= MaxFiles /\ ends # <<>>
    BY <1>1, <2>1, <2>2
  <2>5. ends' # <<>>
    BY <2>1, <2>2, EmptySeq
  <2> QED BY <2>1, <2>2, <2>3, <2>4, <2>5
<1>3. FilesGrow'
  <2> SUFFICES ASSUME NEW i \in 1..(last + 1), NEW j \in 1..(last + 1), i <= j
               PROVE  ends'[i] <= ends'[j]
    BY <1>2 DEF FilesGrow
  <2>1. \A a, b \in 1..last : a <= b => ends[a] <= ends[b]
    BY LogTyped DEF LogInv, FilesGrow
  <2>2. CASE i \in 1..last /\ j \in 1..last
    BY <1>2, <2>1, <2>2
  <2>3. CASE i \in 1..last /\ j = last + 1
    BY <1>1, <1>2, <2>1, <2>3
  <2>4. CASE i = last + 1 /\ j = last + 1
    BY <1>2, <2>4
  <2> QED BY <1>1, <2>2, <2>3, <2>4
<1>4. /\ Position \in 0..MaxRecords /\ Position' \in 0..MaxRecords /\ Position <= Position'
      /\ open.file # 0 => Position' = Position
      /\ open.file = 0 => Position = Begins(last) /\ Position' = ends[last]
  <2>1. Begins(last) <= ends[last] /\ Begins(last) \in 0..MaxRecords
    BY <1>1, LogTyped, SMTT(30)
  <2>2. CASE open.file # 0
    BY <1>1, <2>2, LogTyped DEF Position
  <2>3. CASE open.file = 0
    BY <1>1, <1>2, <2>1, <2>3 DEF Position
  <2> QED BY <2>2, <2>3, LogTyped
<1>5. ReaderStands'
  <2>1. open.file # 0 => Begins(open.file)' = Begins(open.file) /\ ends'[open.file] = ends[open.file]
    <3> SUFFICES ASSUME open.file # 0
                 PROVE  Begins(open.file)' = Begins(open.file) /\ ends'[open.file] = ends[open.file]
      OBVIOUS
    <3>1. open.file \in 1..last /\ open' = open
      BY <1>1, LogTyped DEF LogInv, ReaderStands
    <3>2. open.file # 1 => open.file - 1 \in 1..last
      BY <3>1
    <3> QED BY <1>2, <3>1, <3>2 DEF Begins
  <2>2. /\ open.file \in Nat /\ statted \in Nat /\ last \in Nat /\ Len(ends') = last + 1
        /\ UNCHANGED <<reader, open, primed, statted, goal, shown>> /\ ends' # <<>>
    <3>1. open.file \in Nat /\ statted \in Nat
      BY LogTyped
    <3>2. last \in Nat /\ Len(ends') = last + 1 /\ ends' # <<>>
      BY <1>1, <1>2
    <3>3. UNCHANGED <<reader, open, primed, statted, goal, shown>>
      BY <1>1
    <3> QED BY <3>1, <3>2, <3>3
  <2> QED BY <2>1, <2>2 DEF LogInv, ReaderStands
<1>6. lost \subseteq 1..MaxRecords
  <2>1. Begins(last) \in Nat /\ ends[last] \in 0..MaxRecords /\ open.at \in Nat /\ Chunk \in Nat
        /\ MaxRecords \in Nat
    BY <1>1, LogTyped
  <2> QED BY <2>1
<1> HIDE DEF lost
<1>7. ShownBehind'
  <2>1. \A i \in DOMAIN shown : shown[i] \in Nat /\ shown[i] <= Position
    BY LogTyped DEF LogInv, ShownBehind
  <2>2. boundary \in Nat /\ boundary <= Position /\ Position \in Nat /\ Position' \in Nat
    BY <1>4, LogTyped DEF LogInv, ShownBehind
  <2> QED BY <1>1, <1>4, <2>1, <2>2 DEF ShownBehind
<1>8. LeftBehind'
  <2> SUFFICES ASSUME open.file # 0, NEW n \in 1..ends[last],
                      n > open.at + Chunk \/ n > ends[open.file]
               PROVE  n \in excused \cup lost
    <3>1. ASSUME open.file # 0 PROVE ends'[open.file] = ends[open.file]
      <4>1. open.file \in 1..last
        BY <1>1, <3>1, LogTyped DEF LogInv, ReaderStands
      <4> QED BY <1>2, <4>1
    <3> QED BY <1>1, <1>2, <3>1 DEF LeftBehind
  <2>1. /\ Begins(last) \in Nat /\ ends[last] \in Nat /\ open.at \in Nat /\ Chunk \in Nat
        /\ n \in Nat
    <3>1. last \in 1..last
      BY <1>1, LogTyped
    <3>2. Begins(last) \in 0..MaxRecords /\ ends[last] \in 0..MaxRecords /\ n \in 1..ends[last]
          /\ MaxRecords \in Nat
      BY <3>1, LogTyped
    <3> QED BY <3>2, LogTyped
  <2>2. CASE open.file = last
    BY <2>1, <2>2 DEF lost
  <2>3. CASE open.file # last /\ n <= Begins(last)
    BY <2>1, <2>3 DEF LogInv, LeftBehind
  <2>4. CASE open.file # last /\ n > Begins(last)
    BY <2>1, <2>4 DEF lost
  <2> QED BY <2>1, <2>2, <2>3, <2>4
<1>9. ViewComplete'
  <2> SUFFICES ASSUME goal = "view", NEW n \in ((boundary + 1)..Position'), n \notin Shown
               PROVE  n \in excused \cup lost
    BY <1>1 DEF ViewComplete, Shown
  <2>1. CASE n <= Position
    BY <1>4, <2>1, LogTyped DEF LogInv, ViewComplete
  <2>2. CASE n > Position
    <3>1. open.file = 0 /\ n \in (Begins(last) + 1)..ends[last]
      BY <1>4, <2>2, LogTyped
    <3>2. open.file # last
      BY <1>1, <3>1
    <3> QED BY <3>1, <3>2 DEF lost
  <2> QED BY <1>4, <2>1, <2>2, LogTyped
<1>10. LogTypeOK'
  BY <1>1, <1>2, <1>6 DEF LogInv, LogTypeOK
<1>11. NothingIsReplayed'
  BY <1>1 DEF LogInv, NothingIsReplayed
<1> QED BY <1>3, <1>5, <1>7, <1>8, <1>9, <1>10, <1>11 DEF LogInv

\* The viewer: it asks for the name, compares, opens and reads.
LEMMA SameFilesKeep ==
  ASSUME LogInv, UNCHANGED <<ends, excused>>
  PROVE  /\ FilesGrow' /\ \A i : Begins(i)' = Begins(i)
         /\ ends' \in Seq(0..MaxRecords) /\ Len(ends') <= MaxFiles /\ excused' \subseteq 1..MaxRecords
BY DEF LogInv, FilesGrow, Begins, LogTypeOK

LEMMA StatKeeps == ASSUME LogInv, StatLog PROVE LogInv'
<1>1. reader = "idle" /\ statted' = Len(ends) /\ UNCHANGED <<ends, open, shown, excused>>
  BY DEF StatLog
<1>2. Position' = Position
  BY <1>1, SameFilesKeep DEF Position
<1>3. \/ ends # <<>> /\ reader' = "statted" /\ UNCHANGED <<goal, primed, boundary>>
      \/ /\ ends = <<>> /\ goal = "boundary" /\ goal' = "view" /\ primed' = TRUE
         /\ reader' = "idle" /\ boundary' = 0
      \/ ends = <<>> /\ reader' \in {"ended", "idle"} /\ UNCHANGED <<goal, primed, boundary>>
  BY DEF StatLog
<1>4. Len(ends) \in Nat /\ Len(ends) <= MaxFiles /\ statted' \in 0..MaxFiles
  BY <1>1, LogTyped DEF LogInv, LogTypeOK
<1>5. LogTypeOK'
  <2>1. 0 \in 0..MaxRecords
    BY LogTyped
  <2> QED BY <1>1, <1>3, <1>4, <2>1, SameFilesKeep DEF LogInv, LogTypeOK
<1>6. ReaderStands'
  BY <1>1, <1>3, <1>4, LogTyped, SameFilesKeep DEF LogInv, ReaderStands
<1>7. ASSUME ends = <<>>, goal = "boundary" PROVE shown = <<>> /\ Position = 0
  BY <1>7, LogTyped DEF LogInv, ReaderStands, Position
<1>8. ShownBehind' /\ NothingIsReplayed'
  BY <1>1, <1>2, <1>3, <1>7 DEF LogInv, ShownBehind, NothingIsReplayed
<1>9. LeftBehind'
  BY <1>1, SameFilesKeep DEF LogInv, LeftBehind
<1>10. ViewComplete'
  <2>1. CASE UNCHANGED <<goal, boundary>>
    BY <1>1, <1>2, <2>1 DEF LogInv, ViewComplete, Shown
  <2>2. CASE ends = <<>> /\ goal = "boundary" /\ boundary' = 0
    <3>1. Position' = 0 /\ (boundary' + 1)..Position' = {}
      BY <1>2, <1>7, <2>2
    <3> QED BY <3>1 DEF ViewComplete
  <2> QED BY <1>3, <2>1, <2>2
<1> QED BY <1>1, <1>5, <1>6, <1>8, <1>9, <1>10, SameFilesKeep DEF LogInv

LEMMA CompareKeeps == ASSUME LogInv, CompareLog PROVE LogInv'
<1>1. reader = "statted" /\ UNCHANGED <<ends, statted, goal, boundary, excused>>
  BY DEF CompareLog
<1>2. CASE open.file = 0 \/ open.file = statted
  <2>1. reader' = (IF open.file = 0 THEN "opens" ELSE "reads") /\ UNCHANGED <<open, shown, primed>>
    BY <1>2 DEF CompareLog
  <2>2. Position' = Position
    BY <1>1, <2>1, SameFilesKeep DEF Position
  <2>3. LogTypeOK'
    BY <1>1, <2>1, SameFilesKeep DEF LogInv, LogTypeOK
  <2>4. ReaderStands'
    BY <1>1, <1>2, <2>1, LogTyped, SameFilesKeep DEF LogInv, ReaderStands
  <2>5. ShownBehind' /\ NothingIsReplayed' /\ LeftBehind' /\ ViewComplete'
    BY <1>1, <2>1, <2>2, SameFilesKeep
       DEF LogInv, ShownBehind, NothingIsReplayed, LeftBehind, ViewComplete, Shown
  <2> QED BY <1>1, <2>3, <2>4, <2>5, SameFilesKeep DEF LogInv
<1>3. CASE open.file # 0 /\ open.file # statted
  <2>1. /\ Show(open.at, Drained) /\ open' = [file |-> 0, at |-> 0] /\ reader' = "opens"
        /\ primed' = IF goal = "excerpt" THEN FALSE ELSE primed
    BY <1>3 DEF CompareLog
  <2>2. /\ open.file \in Nat \ {0} /\ statted \in Nat /\ open.file < statted
        /\ statted <= Len(ends) /\ Len(ends) \in Nat
    BY <1>1, <1>3, LogTyped DEF LogInv, ReaderStands
  <2>3. /\ open.file \in 1..Len(ends) /\ Len(ends) - 1 \in 1..Len(ends) /\ Len(ends) # 1
        /\ open.file <= Len(ends) - 1
    <3>1. ASSUME NEW a \in Nat \ {0}, NEW b \in Nat, NEW c \in Nat, a < b, b <= c
          PROVE  a \in 1..c /\ c - 1 \in 1..c /\ c # 1 /\ a <= c - 1
      BY <3>1
    <3> QED BY <2>2, <3>1
  <2>4. Begins(Len(ends)) = ends[Len(ends) - 1]
    BY <2>3 DEF Begins
  <2>5. /\ ends[open.file] \in 0..MaxRecords /\ ends[open.file] <= Begins(Len(ends))
        /\ open.at <= ends[open.file] /\ Begins(Len(ends)) \in 0..MaxRecords
    BY <2>2, <2>3, <2>4, LogTyped DEF LogInv, ReaderStands
  <2>6. /\ Drained \in 0..MaxRecords /\ open.at <= Drained /\ Drained <= Begins(Len(ends))
        /\ open.at \in 0..MaxRecords /\ Chunk \in Nat
        /\ Drained = open.at + Chunk \/ Drained = ends[open.file]
        /\ Drained <= open.at + Chunk /\ Drained <= ends[open.file]
    <3>1. open.at \in 0..MaxRecords /\ Chunk \in Nat /\ open.at + Chunk \in Nat
          /\ open.at <= open.at + Chunk
      BY LogTyped
    <3>2. ends[open.file] \in Nat
      BY <2>5
    <3>3. /\ Drained \in Nat /\ Drained <= open.at + Chunk /\ Drained <= ends[open.file]
          /\ Drained = open.at + Chunk \/ Drained = ends[open.file]
      BY <3>1, <3>2, SmallerIs DEF Drained
    <3>4. open.at <= Drained
      BY <2>5, <3>1, <3>3
    <3> QED BY <2>5, <3>1, <3>3, <3>4, LogAssumption
  <2>7. Position = open.at /\ Position' = Begins(Len(ends)) /\ ends # <<>>
    BY <1>1, <1>3, <2>1, <2>2, LogTyped, SameFilesKeep DEF Position
  <2>8. /\ shown' \in Seq(1..MaxRecords)
        /\ goal = "boundary" => shown' = <<>>
        /\ \A i \in DOMAIN shown' :
             shown'[i] \in Nat /\ shown'[i] <= Drained /\ shown'[i] > boundary
        /\ \A i, j \in DOMAIN shown' : i < j => shown'[i] < shown'[j]
        /\ goal # "boundary" => Shown' = Shown \cup (open.at + 1)..Drained
    BY <2>1, <2>6, <2>7, ShowGoesOn
  <2>9. LogTypeOK'
    <3>1. open' \in [file : 0..MaxFiles, at : 0..MaxRecords]
      BY <2>1, LogTyped
    <3> QED BY <1>1, <2>1, <2>8, <3>1, SameFilesKeep DEF LogInv, LogTypeOK
  <2>10. ReaderStands'
    BY <1>1, <2>1, <2>2, <2>7, <2>8 DEF LogInv, ReaderStands
  <2>11. ShownBehind'
    <3>1. boundary \in Nat /\ boundary <= Position
      BY LogTyped DEF LogInv, ShownBehind
    <3>2. Drained \in Nat /\ Begins(Len(ends)) \in Nat /\ open.at \in Nat
      BY <2>5, <2>6, LogAssumption
    <3> QED BY <1>1, <2>6, <2>7, <2>8, <3>1, <3>2 DEF ShownBehind
  <2>12. NothingIsReplayed'
    BY <1>1, <2>8 DEF NothingIsReplayed
  <2>13. LeftBehind'
    BY <2>1 DEF LeftBehind
  <2>14. ViewComplete'
    <3> SUFFICES ASSUME goal = "view", NEW n \in (boundary + 1)..Begins(Len(ends)),
                        n \notin Shown, n \notin (open.at + 1)..Drained
                 PROVE  n \in excused
      BY <1>1, <2>7, <2>8 DEF ViewComplete
    <3>1. n \in Nat /\ boundary \in Nat
      BY <2>5, LogTyped
    <3>2. CASE n <= open.at
      BY <2>6, <2>7, <3>1, <3>2 DEF LogInv, ViewComplete
    <3>3. CASE n > Drained
      <4>1. Drained \in Nat /\ (Drained = ends[open.file] \/ Drained = open.at + Chunk)
        BY <2>6, LogAssumption
      <4>2. n \in 1..Begins(Len(ends))
        BY <3>1
      <4> QED BY <1>3, <3>3, <4>1, <4>2 DEF LogInv, LeftBehind
    <3> QED BY <2>6, <3>1, <3>2, <3>3
  <2> QED BY <1>1, <2>9, <2>10, <2>11, <2>12, <2>13, <2>14, SameFilesKeep DEF LogInv
<1> QED BY <1>2, <1>3

LEMMA OpenKeeps == ASSUME LogInv, OpenLog PROVE LogInv'
<1> DEFINE last == Len(ends)
<1>1. /\ reader = "opens" /\ reader' = "reads" /\ open' = [file |-> last, at |-> Entered(last)]
      /\ primed' = TRUE /\ UNCHANGED <<ends, statted, goal, shown, boundary, excused>>
  BY DEF OpenLog
<1>2. /\ ends # <<>> /\ open.file = 0 /\ last \in 1..Len(ends) /\ last \in Nat \ {0}
      /\ last <= MaxFiles
  BY <1>1, LogTyped DEF LogInv, ReaderStands, LogTypeOK
<1>3. /\ Begins(last) \in 0..MaxRecords /\ Begins(last) <= ends[last] /\ ends[last] \in 0..MaxRecords
      /\ Chunk \in Nat
  BY <1>2, LogTyped
<1>4. /\ Entered(last) \in 0..MaxRecords /\ Begins(last) <= Entered(last)
      /\ Entered(last) <= ends[last] /\ (primed => Entered(last) = Begins(last))
  <2>1. ends[last] - Chunk \in Int /\ ends[last] - Chunk <= ends[last]
    BY <1>3
  <2>2. /\ Bigger(Begins(last), ends[last] - Chunk) \in Nat
        /\ Begins(last) <= Bigger(Begins(last), ends[last] - Chunk)
        /\ Bigger(Begins(last), ends[last] - Chunk) <= ends[last]
    <3>1. Begins(last) \in Nat
      BY <1>3, LogAssumption
    <3>2. /\ Bigger(Begins(last), ends[last] - Chunk) \in Nat
          /\ Begins(last) <= Bigger(Begins(last), ends[last] - Chunk)
          /\ \/ Bigger(Begins(last), ends[last] - Chunk) = Begins(last)
             \/ Bigger(Begins(last), ends[last] - Chunk) = ends[last] - Chunk
      BY <2>1, <3>1, BiggerIs
    <3> QED BY <1>3, <2>1, <3>2
  <2>3. CASE primed
    BY <1>3, <2>3 DEF Entered
  <2>4. CASE ~primed
    BY <1>3, <2>2, <2>4, LogAssumption DEF Entered
  <2> QED BY <2>3, <2>4
<1>5. open'.file = last /\ open'.at = Entered(last)
  BY <1>1
<1>6. Position = Begins(last) /\ Position' = Entered(last)
  BY <1>1, <1>2, <1>5 DEF Position
<1>7. LogTypeOK'
  <2>1. open' \in [file : 0..MaxFiles, at : 0..MaxRecords]
    BY <1>1, <1>2, <1>4, LogTyped
  <2> QED BY <1>1, <2>1, SameFilesKeep DEF LogInv, LogTypeOK
<1>8. ReaderStands'
  BY <1>1, <1>2, <1>4, <1>5, SameFilesKeep DEF LogInv, ReaderStands
<1>9. ShownBehind'
  <2>1. \A i \in DOMAIN shown : shown[i] \in Nat /\ shown[i] <= Position
    BY LogTyped DEF LogInv, ShownBehind
  <2>2. boundary \in Nat /\ boundary <= Position
    BY LogTyped DEF LogInv, ShownBehind
  <2> QED BY <1>1, <1>3, <1>4, <1>6, <2>1, <2>2 DEF ShownBehind
<1>10. NothingIsReplayed'
  BY <1>1 DEF LogInv, NothingIsReplayed
<1>11. LeftBehind'
  <2>1. ASSUME NEW n \in 1..Begins(last) PROVE ~(n > Entered(last) + Chunk \/ n > ends[last])
    BY <1>3, <1>4, LogAssumption
  <2>2. Begins(Len(ends))' = Begins(last)
    BY <1>1, SameFilesKeep
  <2> QED BY <1>1, <1>5, <2>1, <2>2 DEF LeftBehind
<1>12. ViewComplete'
  <2>1. goal = "view" => Entered(last) = Position
    BY <1>4, <1>6 DEF LogInv, ReaderStands
  <2> QED BY <1>1, <1>6, <2>1 DEF LogInv, ViewComplete, Shown
<1> QED BY <1>1, <1>7, <1>8, <1>9, <1>10, <1>11, <1>12, SameFilesKeep DEF LogInv

LEMMA ReadKeeps == ASSUME LogInv, ReadLog PROVE LogInv'
<1> DEFINE to == Smaller(open.at + Chunk, ends[open.file])
<1>1. reader = "reads" /\ Show(open.at, to) /\ Reads(to) /\ UNCHANGED <<ends, statted, excused>>
  BY DEF ReadLog
<1>2. /\ open.file \in 1..Len(ends) /\ open.at \in 0..MaxRecords /\ ends[open.file] \in 0..MaxRecords
      /\ open.at <= ends[open.file] /\ Chunk \in Nat /\ open.file # 0
  BY <1>1, LogTyped DEF LogInv, ReaderStands
<1>3. to \in 0..MaxRecords /\ open.at <= to /\ to <= ends[open.file]
  <2>1. open.at + Chunk \in Nat /\ ends[open.file] \in Nat /\ open.at <= open.at + Chunk
    BY <1>2
  <2>2. to \in Nat /\ to <= ends[open.file] /\ (to = open.at + Chunk \/ to = ends[open.file])
    BY <2>1, SmallerIs
  <2> QED BY <1>2, <2>1, <2>2, LogAssumption
<1> HIDE DEF to
<1>4. open' = [file |-> open.file, at |-> to] /\ open'.file = open.file /\ open'.at = to
  BY <1>1, LogTyped DEF Reads
<1>5. Position = open.at /\ Position' = to
  BY <1>2, <1>4 DEF Position
<1>6. /\ shown' \in Seq(1..MaxRecords)
      /\ goal = "boundary" => shown' = <<>>
      /\ \A i \in DOMAIN shown' : shown'[i] \in Nat /\ shown'[i] <= to /\ shown'[i] > boundary
      /\ \A i, j \in DOMAIN shown' : i < j => shown'[i] < shown'[j]
      /\ goal # "boundary" => Shown' = Shown \cup (open.at + 1)..to
  BY <1>1, <1>2, <1>3, <1>5, ShowGoesOn
<1>7. \/ /\ goal = "boundary" /\ goal' = "view" /\ primed' = TRUE /\ reader' = "idle"
         /\ boundary' = to
      \/ /\ goal # "boundary" /\ reader' \in {"ended", "idle"}
         /\ UNCHANGED <<goal, primed, boundary>>
  BY <1>1 DEF Reads
<1>8. LogTypeOK'
  <2>1. open' \in [file : 0..MaxFiles, at : 0..MaxRecords]
    BY <1>3, <1>4, LogTyped
  <2> QED BY <1>1, <1>3, <1>6, <1>7, <2>1, SameFilesKeep DEF LogInv, LogTypeOK
<1>9. ReaderStands'
  <2>1. Begins(open.file) <= open.at
    BY <1>2 DEF LogInv, ReaderStands
  <2>2. Begins(open.file) <= to
    BY <1>2, <1>3, <2>1, LogTyped
  <2> QED BY <1>1, <1>2, <1>3, <1>4, <1>6, <1>7, <2>2, SameFilesKeep DEF LogInv, ReaderStands
<1>10. boundary \in Nat /\ boundary <= to
  BY <1>2, <1>3, <1>5, LogTyped DEF LogInv, ShownBehind
<1>11. ShownBehind'
  BY <1>3, <1>5, <1>6, <1>7, <1>10 DEF ShownBehind
<1>12. NothingIsReplayed'
  BY <1>6, <1>7 DEF NothingIsReplayed
<1>13. LeftBehind'
  <2>1. Begins(Len(ends))' = Begins(Len(ends)) /\ Begins(Len(ends)) \in Nat
    BY <1>1, <1>2, LogTyped, SameFilesKeep
  <2>2. \A n \in 1..Begins(Len(ends)) : n > to + Chunk => n > open.at + Chunk
    BY <1>2, <1>3, <2>1, LogAssumption
  <2> QED BY <1>1, <1>2, <1>4, <2>1, <2>2 DEF LogInv, LeftBehind
<1>14. ViewComplete'
  <2>1. CASE goal = "boundary"
    <3>1. (boundary' + 1)..Position' = {}
      BY <1>3, <1>5, <1>7, <2>1
    <3> QED BY <3>1 DEF ViewComplete
  <2>2. CASE goal # "boundary"
    <3> SUFFICES ASSUME goal = "view", NEW n \in (boundary + 1)..to,
                        n \notin Shown, n \notin (open.at + 1)..to
                 PROVE  n \in excused
      BY <1>1, <1>5, <1>6, <1>7, <2>2 DEF ViewComplete
    <3>1. n \in (boundary + 1)..open.at
      BY <1>2, <1>3, <1>10
    <3> QED BY <1>5, <3>1 DEF LogInv, ViewComplete
  <2> QED BY <2>1, <2>2
<1> QED BY <1>1, <1>8, <1>9, <1>11, <1>12, <1>13, <1>14, SameFilesKeep DEF LogInv

\* The excerpt starts no earlier than where the viewer stands.
LEMMA ExcerptKeeps == ASSUME LogInv, AskExcerpt PROVE LogInv'
<1>1. /\ goal = "view" /\ reader = "idle" /\ shown = <<>> /\ goal' = "excerpt"
      /\ open' = [open EXCEPT !.at = Latest] /\ primed' = (open.file # 0)
      /\ UNCHANGED <<ends, reader, statted, shown, boundary, excused>>
  BY DEF AskExcerpt
<1>2. open' = [file |-> open.file, at |-> Latest] /\ open'.file = open.file /\ open'.at = Latest
  BY <1>1, LogTyped
<1>3. /\ Latest \in 0..MaxRecords
      /\ open.file # 0 => /\ open.at <= Latest /\ Latest <= ends[open.file]
                          /\ Begins(open.file) <= Latest
  <2>1. CASE open.file = 0
    BY <2>1, LogTyped DEF Latest
  <2>2. CASE open.file # 0
    <3>1. /\ open.file \in 1..Len(ends) /\ open.at <= ends[open.file]
          /\ Begins(open.file) <= open.at
      BY <2>2, LogTyped DEF LogInv, ReaderStands
    <3>2. /\ open.at \in 0..MaxRecords /\ ends[open.file] \in 0..MaxRecords /\ Chunk \in Nat
          /\ Begins(open.file) \in 0..MaxRecords
      BY <3>1, LogTyped
    <3>3. ends[open.file] - Chunk \in Int /\ ends[open.file] - Chunk <= ends[open.file]
      BY <3>2
    <3>4. Latest = Bigger(open.at, ends[open.file] - Chunk)
      BY <2>2 DEF Latest
    <3>5. Latest \in Nat /\ open.at <= Latest /\ Latest <= ends[open.file]
      <4>1. open.at \in Nat
        BY <3>2, LogAssumption
      <4>2. /\ Latest \in Nat /\ open.at <= Latest
            /\ Latest = open.at \/ Latest = ends[open.file] - Chunk
        BY <3>3, <3>4, <4>1, BiggerIs
      <4> QED BY <3>1, <3>3, <4>2
    <3> QED BY <2>2, <3>1, <3>2, <3>5, LogAssumption
  <2> QED BY <2>1, <2>2
<1>4. Position <= Position' /\ Position' \in Nat /\ Position \in Nat
  <2>1. CASE open.file = 0
    <3>1. Position' = Position
      BY <1>1, <1>2, <2>1, SameFilesKeep DEF Position
    <3> QED BY <3>1, LogTyped
  <2>2. CASE open.file # 0
    BY <1>2, <1>3, <2>2, LogTyped DEF Position
  <2> QED BY <2>1, <2>2
<1>5. LogTypeOK'
  <2>1. open' \in [file : 0..MaxFiles, at : 0..MaxRecords]
    BY <1>2, <1>3, LogTyped
  <2>2. primed' \in BOOLEAN
    BY <1>1
  <2> QED BY <1>1, <2>1, <2>2, SameFilesKeep DEF LogInv, LogTypeOK
<1>6. ReaderStands'
  BY <1>1, <1>2, <1>3, SameFilesKeep DEF LogInv, ReaderStands
<1>7. ShownBehind'
  BY <1>1, <1>4, LogTyped DEF LogInv, ShownBehind
<1>8. NothingIsReplayed' /\ ViewComplete'
  BY <1>1 DEF LogInv, NothingIsReplayed, ViewComplete
<1>9. LeftBehind'
  <2> SUFFICES ASSUME open.file # 0
               PROVE  \A n \in 1..Begins(Len(ends)) :
                        n > Latest + Chunk \/ n > ends[open.file] => n \in excused
    BY <1>1, <1>2, SameFilesKeep DEF LeftBehind
  <2>1. Begins(Len(ends)) \in Nat
    <3>1. Len(ends) \in 1..Len(ends)
      BY LogTyped DEF LogInv, ReaderStands
    <3> QED BY <3>1, LogTyped, SMTT(30)
  <2>2. \A n \in 1..Begins(Len(ends)) : n > Latest + Chunk => n > open.at + Chunk
    BY <1>3, <2>1, LogTyped
  <2> QED BY <2>2 DEF LogInv, LeftBehind
<1> QED BY <1>1, <1>5, <1>6, <1>7, <1>8, <1>9, SameFilesKeep DEF LogInv

\* The viewer stands where the invariant says, whatever is rotated, for any length.
THEOREM LogInvariant == LogSpec => []LogInv
<1>1. LogInit => LogInv
  <2> SUFFICES ASSUME LogInit PROVE LogInv
    OBVIOUS
  <2>1. /\ reader = "idle" /\ open = [file |-> 0, at |-> 0] /\ primed = FALSE /\ statted = 0
        /\ goal = "boundary" /\ shown = <<>> /\ boundary = 0 /\ excused = {}
    BY DEF LogInit
  <2>2. /\ ends \in Seq(0..MaxRecords) /\ Len(ends) \in 0..1 /\ DOMAIN ends = 1..Len(ends)
        /\ \A i \in DOMAIN ends : ends[i] \in 0..MaxRecords
    <3>1. CASE ends = <<>>
      BY <3>1
    <3>2. CASE \E n \in 0..(MaxRecords - 1) : ends = <<n>>
      BY <3>2, LogAssumption
    <3> QED BY <3>1, <3>2 DEF LogInit
  <2>3. LogTypeOK
    <3>1. open \in [file : 0..MaxFiles, at : 0..MaxRecords] /\ 0 \in 0..MaxFiles /\ 0 \in 0..MaxRecords
      BY <2>1, LogAssumption
    <3>2. Len(ends) <= MaxFiles
      BY <2>2, LogAssumption
    <3>3. shown \in Seq(1..MaxRecords)
      BY <2>1
    <3> QED BY <2>1, <2>2, <3>1, <3>2, <3>3 DEF LogTypeOK
  <2>4. FilesGrow
    <3> SUFFICES ASSUME NEW i \in DOMAIN ends, NEW j \in DOMAIN ends PROVE ends[i] <= ends[j]
      BY DEF FilesGrow
    <3>1. i = j /\ ends[i] \in 0..MaxRecords
      BY <2>2
    <3> QED BY <3>1
  <2>5. ReaderStands
    BY <2>1, <2>2 DEF ReaderStands
  <2>6. Position \in Nat
    <3>1. CASE ends = <<>>
      BY <2>1, <3>1 DEF Position
    <3>2. CASE ends # <<>>
      <4>1. Len(ends) = 1
        BY <2>2, <3>2, EmptySeq
      <4> QED BY <2>1, <3>2, <4>1 DEF Position, Begins
    <3> QED BY <3>1, <3>2
  <2>7. ShownBehind /\ NothingIsReplayed /\ LeftBehind /\ ViewComplete
    BY <2>1, <2>6 DEF ShownBehind, NothingIsReplayed, LeftBehind, ViewComplete
  <2> QED BY <2>3, <2>4, <2>5, <2>7 DEF LogInv
<1>2. LogInv /\ [LogNext]_logVars => LogInv'
  <2> SUFFICES ASSUME LogInv, [LogNext]_logVars PROVE LogInv'
    OBVIOUS
  <2>1. CASE UNCHANGED logVars
    BY <2>1 DEF logVars, LogInv, LogTypeOK, FilesGrow, ReaderStands, ShownBehind, LeftBehind,
                ViewComplete, NothingIsReplayed, Shown, Position, Begins
  <2> QED BY <2>1, WriteKeeps, RotateKeeps, StatKeeps, CompareKeeps, OpenKeeps, ReadKeeps,
             ExcerptKeeps DEF LogNext
<1> QED BY <1>1, <1>2, PTL DEF LogSpec

\* Output is shown once, in order, and none of an earlier operation.
THEOREM NothingReplayed == LogSpec => []NothingIsReplayed
<1>1. LogInv => NothingIsReplayed
  BY DEF LogInv
<1> QED BY <1>1, LogInvariant, PTL

\* The view has everything up to where it is, but for what a rotation took away.
THEOREM NothingSkipped == LogSpec => []NothingIsSkipped
<1>1. LogInv => NothingIsSkipped
  BY DEF LogInv, ViewComplete, NothingIsSkipped, Position
<1> QED BY <1>1, LogInvariant, PTL

----------------------------------------------------------------------------
(* Rows of development operations: the invariant.                        *)

\* What a session does fits its row: none before it has begun, one phase in memory and
\* on disk while it lives, a row that says it is ending only when it is.
RowFits(s) ==
  /\ session[s] \in {"off", "prunes"} =>
       row[s] = "none" /\ rowFile[s] = "none" /\ observer[s] = "off"
  /\ Lives(s) => rowFile[s] = row[s]
  /\ Lives(s) /\ session[s] # "prunes" => rowFile[s] # "none"
  /\ rowFile[s] = "stopping" => session[s] \in {"finishes", "dead"}
  /\ rowFile[s] \in Terminal => session[s] \in {"ended", "dead"}
RowsFit == \A s \in Sessions : RowFits(s)

\* The rows of operations that are over which are newer than t.
NewerRows(t) == {u \in Sessions : u > t /\ rowFile[u] # "none" /\ ~Lives(u)}
Enough(t) == Cardinality(NewerRows(t)) >= KeepRows

\* What a starting client has listed is over; of what it has counted, rows stay that
\* are newer than those it still has to deal with.
PruningFits ==
  \A s \in Sessions :
    /\ session[s] # "prunes" => listing[s] = {} /\ counted[s] = 0
    /\ counted[s] + Cardinality(listing[s]) <= Cardinality(Sessions)
    /\ \A t \in listing[s] :
         /\ session[t] \in {"ended", "dead"}
         /\ rowFile[t] # "none" \/ Enough(t)
         /\ Cardinality(NewerRows(t)) >= counted[s] \/ Enough(t)

DevInv == DevTypeOK /\ RowsFit /\ PruningFits
\* Rows that are there stay where nobody removes one.
LEMMA NewerRowsStay ==
  ASSUME DevInv, NEW t \in Sessions,
         \A u \in Sessions : rowFile[u] # "none" /\ ~Lives(u) => rowFile'[u] # "none" /\ ~Lives(u)'
  PROVE  /\ Cardinality(NewerRows(t)') >= Cardinality(NewerRows(t))
         /\ Enough(t) => Enough(t)'
         /\ Cardinality(NewerRows(t)) \in Nat /\ Cardinality(NewerRows(t)') \in Nat
<1>1. NewerRows(t) \subseteq NewerRows(t)' /\ NewerRows(t)' \subseteq Sessions
  BY DEF NewerRows
<1>2. IsFiniteSet(NewerRows(t)')
  BY <1>1, FS_Subset, DevAssumption
<1>3. /\ Cardinality(NewerRows(t)) <= Cardinality(NewerRows(t)')
      /\ IsFiniteSet(NewerRows(t))
  BY <1>1, <1>2, FS_Subset
<1> QED BY <1>2, <1>3, FS_CardinalityType, DevAssumption DEF Enough

\* A step of one session leaves the others their rows, and so their prunings.
LEMMA OneSessionPrunes ==
  ASSUME DevInv, NEW s \in Sessions, session[s] \notin {"ended", "dead"},
         \A t \in Sessions \ {s} : /\ session'[t] = session[t] /\ rowFile'[t] = rowFile[t]
                                   /\ listing'[t] = listing[t] /\ counted'[t] = counted[t],
         session'[s] # "prunes", listing'[s] = {}, counted'[s] = 0,
         Lives(s) \/ rowFile[s] = "none"
  PROVE  PruningFits'
<1>1. \A u \in Sessions : rowFile[u] # "none" /\ ~Lives(u) => rowFile'[u] # "none" /\ ~Lives(u)'
  BY DEF Lives
<1>2. \A t \in Sessions : session[t] \in {"ended", "dead"} => t # s
  OBVIOUS
<1>3. Cardinality(Sessions) \in Nat
  BY FS_CardinalityType, DevAssumption
<1>4. ASSUME NEW r \in Sessions, r # s, NEW t \in listing'[r]
      PROVE  /\ session'[t] \in {"ended", "dead"}
             /\ rowFile'[t] # "none" \/ Enough(t)'
             /\ Cardinality(NewerRows(t)') >= counted'[r] \/ Enough(t)'
  <2>1. t \in listing[r] /\ t \in Sessions /\ counted'[r] = counted[r] /\ counted[r] \in Nat
    BY <1>3, <1>4 DEF DevInv, DevTypeOK
  <2>2. /\ session[t] \in {"ended", "dead"}
        /\ rowFile[t] # "none" \/ Enough(t)
        /\ Cardinality(NewerRows(t)) >= counted[r] \/ Enough(t)
    BY <2>1 DEF DevInv, PruningFits
  <2>3. t # s
    BY <1>2, <2>1, <2>2
  <2>4. /\ Cardinality(NewerRows(t)') >= Cardinality(NewerRows(t)) /\ (Enough(t) => Enough(t)')
        /\ Cardinality(NewerRows(t)) \in Nat /\ Cardinality(NewerRows(t)') \in Nat
    BY <1>1, <2>1, NewerRowsStay
  <2> QED BY <2>1, <2>2, <2>3, <2>4
<1>5. Cardinality({}) = 0
  BY FS_EmptySet
<1>6. ASSUME NEW r \in Sessions
      PROVE  /\ session'[r] # "prunes" => listing'[r] = {} /\ counted'[r] = 0
             /\ counted'[r] + Cardinality(listing'[r]) <= Cardinality(Sessions)
  <2>1. CASE r = s
    BY <1>3, <1>5, <2>1
  <2>2. CASE r # s
    BY <2>2 DEF DevInv, PruningFits
  <2> QED BY <2>1, <2>2
<1> QED BY <1>4, <1>6 DEF PruningFits

\* A living session changes what is its own.
OwnChange(s) ==
  \A t \in Sessions \ {s} : /\ session'[t] = session[t] /\ rowFile'[t] = rowFile[t]
                             /\ row'[t] = row[t] /\ observer'[t] = observer[t]
                             /\ listing'[t] = listing[t] /\ counted'[t] = counted[t]
LEMMA LivingStep ==
  ASSUME DevInv, NEW s \in Sessions, Lives(s), DevTypeOK', OwnChange(s), RowFits(s)',
         session'[s] # "prunes", listing'[s] = {}, counted'[s] = 0
  PROVE  DevInv'
<1>1. PruningFits'
  BY OneSessionPrunes DEF OwnChange, Lives
<1>2. ASSUME NEW t \in Sessions \ {s} PROVE RowFits(t)'
  BY <1>2 DEF DevInv, RowsFit, RowFits, OwnChange, Lives
<1> QED BY <1>1, <1>2 DEF DevInv, RowsFit

\* What is known of a living session.
LEMMA LivingFacts ==
  ASSUME DevInv, NEW s \in Sessions
  PROVE  /\ DevTypeOK /\ RowFits(s) /\ Cardinality(Sessions) \in Nat
         /\ session[s] # "prunes" => listing[s] = {} /\ counted[s] = 0
  BY FS_CardinalityType, DevAssumption DEF DevInv, RowsFit, PruningFits

LEMMA BeginKeeps == ASSUME DevInv, NEW s \in Sessions, Begin(s) PROVE DevInv'
<1> USE LivingFacts DEF Begin, SetPhase, Go
<1>1. DevTypeOK' /\ OwnChange(s)
  BY DEF DevTypeOK, OwnChange, Phases
<1>2. RowFits(s)'
  BY DEF DevTypeOK, RowFits, Lives, Terminal
<1> QED BY <1>1, <1>2, LivingStep DEF DevTypeOK, Lives
LEMMA AdvanceKeeps ==
  ASSUME DevInv, NEW s \in Sessions, Advance(s) \/ FailsEarly(s) PROVE DevInv'
<1> USE LivingFacts
<1>1. /\ \/ session' = [session EXCEPT ![s] = "acquires"]
         \/ session' = [session EXCEPT ![s] = "starts"]
         \/ session' = [session EXCEPT ![s] = "announces"]
         \/ session' = [session EXCEPT ![s] = "finishes"]
      /\ stopAsked' \in BOOLEAN /\ session[s] \in {"prepares", "acquires", "starts"}
      /\ UNCHANGED <<row, reached, rowFile, observer, progress, problems, listing, counted>>
  BY DEF DevTypeOK, Lives, Advance, FailsEarly, devRest, Go
<1>2. DevTypeOK' /\ OwnChange(s)
  BY <1>1 DEF DevTypeOK, OwnChange
<1>3. session'[s] \in {"acquires", "starts", "announces", "finishes"}
  BY <1>1 DEF DevTypeOK
<1>4. RowFits(s)'
  BY <1>1, <1>3 DEF RowFits, Lives
<1>5. Lives(s) /\ listing'[s] = {} /\ counted'[s] = 0
  BY <1>1 DEF Lives
<1> QED BY <1>2, <1>3, <1>4, <1>5, LivingStep
LEMMA PhaseKeeps ==
  ASSUME DevInv, NEW s \in Sessions, Announce(s) \/ EndTask(s) \/ TellObserver(s) \/ FinishSession(s)
  PROVE  DevInv'
<1> USE LivingFacts DEF Announce, EndTask, TellObserver, FinishSession, devRest, SetPhase, Go
<1>1. DevTypeOK' /\ OwnChange(s)
  BY DEF DevTypeOK, OwnChange, Phases, Terminal
<1>2. RowFits(s)'
  BY DEF DevTypeOK, RowFits, Lives, Terminal
<1> QED BY <1>1, <1>2, LivingStep DEF DevTypeOK, Lives
LEMMA ObserveKeeps ==
  ASSUME DevInv, NEW s \in Sessions, NEW found \in BOOLEAN, Observe(s, found) PROVE DevInv'
<1> USE LivingFacts
<1>1. /\ observer[s] = "on" /\ Lives(s) /\ row[s] \notin Terminal \cup {"stopping"}
      /\ UNCHANGED <<session, observer, progress, listing, counted, stopAsked>>
  BY DEF Observe, Leaves, devRest
<1>2. PICK next \in {"ready", "preparing", "degraded", row[s]} :
        /\ row' = [row EXCEPT ![s] = next]
        /\ rowFile' = IF next # row[s] THEN [rowFile EXCEPT ![s] = next] ELSE rowFile
  BY DEF Observe
<1>3. reached' \in [Sessions -> BOOLEAN] /\ problems' \in [Sessions -> BOOLEAN]
  BY DEF Observe, DevTypeOK
<1>4. row[s] # "none" /\ row[s] \in Phases /\ rowFile[s] = row[s] /\ session[s] # "prunes"
  BY <1>1 DEF RowFits, DevTypeOK
<1>5. DevTypeOK' /\ OwnChange(s)
  BY <1>1, <1>2, <1>3, <1>4 DEF DevTypeOK, OwnChange, Phases
<1>6. rowFile'[s] = next /\ row'[s] = next /\ next \notin Terminal \cup {"stopping", "none"}
  BY <1>1, <1>2, <1>4 DEF DevTypeOK, Terminal
<1>7. RowFits(s)'
  BY <1>1, <1>4, <1>6 DEF RowFits, Lives
<1> QED BY <1>1, <1>4, <1>5, <1>7, LivingStep
LEMMA PublishKeeps ==
  ASSUME DevInv, NEW s \in Sessions, NEW what \in {"preparing", "ready"}, Publish(s, what)
  PROVE  DevInv'
<1> USE LivingFacts DEF Publish
<1>1. DevTypeOK' /\ OwnChange(s)
  BY DEF DevTypeOK, OwnChange
<1>2. RowFits(s)'
  BY DEF DevTypeOK, RowFits, Lives
<1> QED BY <1>1, <1>2, LivingStep DEF DevTypeOK, Lives
LEMMA KillClientKeeps == ASSUME DevInv, NEW s \in Sessions, KillClient(s) PROVE DevInv'
<1> USE LivingFacts DEF KillClient, Go
<1>1. DevTypeOK' /\ OwnChange(s)
  BY DEF DevTypeOK, OwnChange
<1>2. RowFits(s)'
  BY DEF DevTypeOK, RowFits, Lives
<1> QED BY <1>1, <1>2, LivingStep DEF DevTypeOK, Lives

\* A client starts and reads the rows.
LEMMA ListsKeeps == ASSUME DevInv, NEW s \in Sessions, Lists(s) PROVE DevInv'
<1> DEFINE listed == {t \in Sessions : rowFile[t] # "none" /\ Completed(t)}
<1>1. /\ session[s] = "off" /\ session' = [session EXCEPT ![s] = "prunes"]
      /\ listing' = [listing EXCEPT ![s] = listed]
      /\ UNCHANGED <<row, reached, rowFile, observer, progress, problems, counted, stopAsked>>
  BY DEF Lists, Go
<1>2. DevTypeOK /\ RowFits(s) /\ Cardinality(Sessions) \in Nat /\ counted[s] = 0
  BY <1>1, LivingFacts
<1>3. DevTypeOK'
  BY <1>1, <1>2 DEF DevTypeOK
<1>4. RowsFit'
  <2>1. ASSUME NEW t \in Sessions PROVE RowFits(t)'
    BY <1>1, <1>2 DEF DevInv, RowsFit, RowFits, Lives, DevTypeOK, Terminal
  <2> QED BY <2>1 DEF RowsFit
<1>5. \A t \in listed : session[t] \in {"ended", "dead"}
  BY <1>1 DEF DevInv, RowsFit, RowFits, Completed, ShownPhase, Lives, Terminal
<1>6. \A t \in Sessions : NewerRows(t)' = NewerRows(t) /\ (Enough(t)' <=> Enough(t))
  <2>1. \A u \in Sessions : rowFile[u] # "none" => (Lives(u)' <=> Lives(u))
    BY <1>1, <1>2 DEF RowFits, Lives, DevTypeOK
  <2>2. \A t \in Sessions : NewerRows(t)' = NewerRows(t)
    BY <1>1, <2>1 DEF NewerRows
  <2> QED BY <2>2 DEF Enough
<1>7. ASSUME NEW r \in Sessions, NEW t \in listing'[r]
      PROVE  /\ session'[t] \in {"ended", "dead"}
             /\ rowFile'[t] # "none" \/ Enough(t)'
             /\ Cardinality(NewerRows(t)') >= counted'[r] \/ Enough(t)'
  <2>1. CASE r = s
    <3>1. t \in listed /\ t \in Sessions
      BY <1>1, <1>2, <1>7, <2>1 DEF DevTypeOK
    <3>2. NewerRows(t)' \subseteq Sessions
      BY DEF NewerRows
    <3>3. Cardinality(NewerRows(t)') \in Nat
      BY <3>2, FS_Subset, FS_CardinalityType, DevAssumption
    <3> QED BY <1>1, <1>2, <1>5, <2>1, <3>1, <3>3
  <2>2. CASE r # s
    <3>1. t \in listing[r] /\ t \in Sessions
      BY <1>1, <1>2, <1>7, <2>2 DEF DevTypeOK
    <3>2. /\ session[t] \in {"ended", "dead"} /\ (rowFile[t] # "none" \/ Enough(t))
          /\ Cardinality(NewerRows(t)) >= counted[r] \/ Enough(t)
      BY <3>1 DEF DevInv, PruningFits
    <3> QED BY <1>1, <1>2, <1>6, <3>1, <3>2
  <2> QED BY <2>1, <2>2
<1>8. ASSUME NEW r \in Sessions
      PROVE  /\ session'[r] # "prunes" => listing'[r] = {} /\ counted'[r] = 0
             /\ counted'[r] + Cardinality(listing'[r]) <= Cardinality(Sessions)
  <2>1. CASE r = s
    <3>1. Cardinality(listed) \in Nat /\ Cardinality(listed) <= Cardinality(Sessions)
      BY FS_Subset, FS_CardinalityType, DevAssumption
    <3> QED BY <1>1, <1>2, <2>1, <3>1 DEF DevTypeOK
  <2>2. CASE r # s
    BY <1>1, <1>2, <2>2 DEF DevInv, PruningFits, DevTypeOK
  <2> QED BY <2>1, <2>2
<1>9. PruningFits'
  BY <1>7, <1>8 DEF PruningFits
<1> QED BY <1>3, <1>4, <1>9 DEF DevInv

\* What a client removes is old: enough newer rows stay.
LEMMA PrunedIsOld ==
  ASSUME DevInv, NEW s \in Sessions, session[s] = "prunes", NEW t \in listing[s],
         counted[s] >= KeepRows
  PROVE  Enough(t)
<1>1. t \in Sessions /\ counted[s] \in Nat
  BY LivingFacts DEF DevTypeOK
<1>2. NewerRows(t) \subseteq Sessions
  BY DEF NewerRows
<1>3. Cardinality(NewerRows(t)) \in Nat
  BY <1>2, FS_Subset, FS_CardinalityType, DevAssumption
<1> QED BY <1>1, <1>3, DevAssumption DEF DevInv, PruningFits, Enough

LEMMA PruneKeeps == ASSUME DevInv, NEW s \in Sessions, Prune(s) PROVE DevInv'
<1>1. PICK o \in Newest(listing[s]) :
        /\ listing' = [listing EXCEPT ![s] = @ \ {o}]
        /\ counted' = [counted EXCEPT ![s] = @ + 1]
        /\ rowFile' = IF counted[s] >= KeepRows THEN [rowFile EXCEPT ![o] = "none"] ELSE rowFile
  BY DEF Prune
<1>2. session[s] = "prunes" /\ UNCHANGED <<session, row, reached, observer, progress, problems, stopAsked>>
  BY DEF Prune
<1>3. /\ DevTypeOK /\ Cardinality(Sessions) \in Nat /\ counted[s] \in Nat /\ KeepRows \in Nat
      /\ o \in listing[s] /\ o \in Sessions /\ \A t \in listing[s] : o >= t
      /\ listing[s] \subseteq Sessions /\ session[o] \in {"ended", "dead"} /\ Sessions \subseteq Nat
  BY <1>1, LivingFacts, DevAssumption DEF DevTypeOK, Newest, DevInv, PruningFits
<1>4. /\ Cardinality(listing[s] \ {o}) = Cardinality(listing[s]) - 1
      /\ Cardinality(listing[s]) \in Nat /\ Cardinality(listing[s] \ {o}) \in Nat
  <2>1. IsFiniteSet(listing[s])
    BY <1>3, FS_Subset, DevAssumption
  <2> QED BY <1>3, <2>1, FS_RemoveElement, FS_CardinalityType
<1>5. counted[s] + Cardinality(listing[s]) <= Cardinality(Sessions)
  BY DEF DevInv, PruningFits
<1>6. DevTypeOK'
  <2>1. counted[s] + 1 \in 0..Cardinality(Sessions)
    BY <1>3, <1>4, <1>5
  <2> QED BY <1>1, <1>2, <1>3, <2>1 DEF DevTypeOK, Phases
<1>7. RowsFit'
  <2>1. ASSUME NEW t \in Sessions PROVE RowFits(t)'
    BY <1>1, <1>2, <1>3 DEF DevInv, RowsFit, RowFits, Lives, DevTypeOK, Terminal
  <2> QED BY <2>1 DEF RowsFit
<1>8. \A t \in Sessions : /\ IsFiniteSet(NewerRows(t)) /\ IsFiniteSet(NewerRows(t)')
                         /\ Cardinality(NewerRows(t)) \in Nat /\ Cardinality(NewerRows(t)') \in Nat
  <2>1. \A t \in Sessions : NewerRows(t) \subseteq Sessions /\ NewerRows(t)' \subseteq Sessions
    BY DEF NewerRows
  <2> QED BY <2>1, FS_Subset, FS_CardinalityType, DevAssumption
\* Rows that are enough for an older one stay enough.
<1>9. ASSUME NEW t \in Sessions, Enough(t) PROVE Enough(t)'
  <2>1. CASE rowFile' = rowFile \/ t >= o
    <3>1. NewerRows(t) \subseteq NewerRows(t)'
      BY <1>1, <1>2, <1>3, <2>1 DEF NewerRows, Lives, DevTypeOK
    <3> QED BY <1>3, <1>8, <1>9, <3>1, FS_Subset DEF Enough
  <2>2. CASE rowFile' = [rowFile EXCEPT ![o] = "none"] /\ counted[s] >= KeepRows /\ t < o
    <3>1. Enough(o)
      BY <1>2, <1>3, <2>2, PrunedIsOld
    <3>2. \A u \in Sessions : u > o => u > t /\ u # o
      BY <1>3, <2>2
    <3>3. NewerRows(o) \subseteq NewerRows(t)'
      BY <1>2, <1>3, <2>2, <3>2 DEF NewerRows, Lives, DevTypeOK
    <3>4. Cardinality(NewerRows(o)) <= Cardinality(NewerRows(t)')
      BY <1>8, <3>3, FS_Subset
    <3>5. Cardinality(NewerRows(o)) \in Nat /\ Cardinality(NewerRows(t)') \in Nat
      BY <1>3, <1>8
    <3> QED BY <1>3, <3>1, <3>4, <3>5 DEF Enough
  <2> QED BY <1>1, <1>3, <2>1, <2>2
<1>10. ASSUME NEW t \in Sessions, ~Enough(t)'
       PROVE  Cardinality(NewerRows(t)') >= Cardinality(NewerRows(t))
  <2>1. rowFile' = rowFile \/ t >= o
    <3>1. SUFFICES ASSUME counted[s] >= KeepRows, rowFile' = [rowFile EXCEPT ![o] = "none"], t < o
                   PROVE  FALSE
      BY <1>1, <1>3
    <3>2. Enough(o)
      BY <1>2, <1>3, <3>1, PrunedIsOld
    <3>3. \A u \in Sessions : u > o => u > t /\ u # o
      BY <1>3, <3>1
    <3>4. NewerRows(o) \subseteq NewerRows(t)'
      BY <1>2, <1>3, <3>1, <3>3 DEF NewerRows, Lives, DevTypeOK
    <3>5. Cardinality(NewerRows(o)) <= Cardinality(NewerRows(t)')
      BY <1>8, <3>4, FS_Subset
    <3> QED BY <1>3, <1>8, <1>10, <3>2, <3>5 DEF Enough
  <2>2. NewerRows(t) \subseteq NewerRows(t)'
    BY <1>1, <1>2, <1>3, <2>1 DEF NewerRows, Lives, DevTypeOK
  <2> QED BY <1>8, <2>2, FS_Subset
<1>11. ASSUME NEW r \in Sessions, NEW t \in listing'[r]
       PROVE  /\ session'[t] \in {"ended", "dead"}
              /\ rowFile'[t] # "none" \/ Enough(t)'
              /\ Cardinality(NewerRows(t)') >= counted'[r] \/ Enough(t)'
  <2>1. t \in listing[r] /\ t \in Sessions /\ counted[r] \in Nat
    BY <1>1, <1>3, <1>11 DEF DevTypeOK
  <2>2. /\ session[t] \in {"ended", "dead"} /\ (rowFile[t] # "none" \/ Enough(t))
        /\ Cardinality(NewerRows(t)) >= counted[r] \/ Enough(t)
    BY <2>1 DEF DevInv, PruningFits
  <2>3. rowFile'[t] # "none" \/ Enough(t)'
    <3>1. SUFFICES ASSUME t = o, counted[s] >= KeepRows PROVE Enough(t)'
      BY <1>1, <1>3, <1>9, <2>1, <2>2 DEF DevTypeOK
    <3> QED BY <1>2, <1>3, <1>9, <3>1, PrunedIsOld
  <2>4. CASE r = s
    <3>1. t < o /\ counted'[r] = counted[s] + 1
      BY <1>1, <1>3, <1>11, <2>1, <2>4 DEF DevTypeOK
    <3>2. ASSUME ~Enough(t)' PROVE Cardinality(NewerRows(t)') >= counted[s] + 1
      <4>1. ~(counted[s] >= KeepRows) /\ rowFile' = rowFile
        BY <1>1, <1>2, <1>9, <2>1, <2>4, <3>2, PrunedIsOld
      <4>2. \A u \in Sessions : NewerRows(u)' = NewerRows(u)
        BY <1>2, <4>1 DEF NewerRows, Lives
      <4>3. \A u \in Sessions : u > o => u > t /\ u # o
        BY <1>3, <2>1, <3>1
      <4>4. ~Enough(o)
        <5>1. NewerRows(o) \subseteq NewerRows(t)
          BY <4>3 DEF NewerRows
        <5> QED BY <1>3, <1>8, <1>9, <2>1, <3>2, <5>1, FS_Subset DEF Enough
      <4>5. Cardinality(NewerRows(o)) >= counted[s] /\ rowFile[o] # "none"
        BY <1>3, <4>4 DEF DevInv, PruningFits
      <4>6. NewerRows(o) \cup {o} \subseteq NewerRows(t) /\ o \notin NewerRows(o)
        <5>1. ~Lives(o)
          BY <1>3 DEF Lives
        <5> QED BY <1>3, <2>1, <3>1, <4>5, <4>3, <5>1 DEF NewerRows
      <4>7. /\ Cardinality(NewerRows(o) \cup {o}) = Cardinality(NewerRows(o)) + 1
            /\ Cardinality(NewerRows(o) \cup {o}) <= Cardinality(NewerRows(t))
        BY <1>3, <1>8, <2>1, <4>6, FS_AddElement, FS_Subset
      <4>8. Cardinality(NewerRows(t)') = Cardinality(NewerRows(t))
        BY <2>1, <4>2
      <4>9. Cardinality(NewerRows(o)) \in Nat /\ Cardinality(NewerRows(t)) \in Nat
        BY <1>3, <1>8, <2>1
      <4>10. counted[s] \in Nat
        BY <1>3
      <4> QED BY <4>5, <4>7, <4>8, <4>9, <4>10
    <3> QED BY <1>2, <2>2, <2>3, <3>1, <3>2
  <2>5. CASE r # s
    <3>1. counted'[r] = counted[r]
      BY <1>1, <1>3, <2>5 DEF DevTypeOK
    <3> QED BY <1>2, <1>8, <1>9, <1>10, <2>1, <2>2, <2>3, <3>1
  <2> QED BY <2>4, <2>5
<1>12. ASSUME NEW r \in Sessions
       PROVE  /\ session'[r] # "prunes" => listing'[r] = {} /\ counted'[r] = 0
              /\ counted'[r] + Cardinality(listing'[r]) <= Cardinality(Sessions)
  <2>1. CASE r = s
    BY <1>1, <1>2, <1>3, <1>4, <1>5, <2>1 DEF DevTypeOK
  <2>2. CASE r # s
    BY <1>1, <1>2, <1>3, <2>2 DEF DevInv, PruningFits, DevTypeOK
  <2> QED BY <2>1, <2>2
<1>13. PruningFits'
  BY <1>11, <1>12 DEF PruningFits
<1> QED BY <1>6, <1>7, <1>13 DEF DevInv

\* Another client asks the services to stop, or nothing happens.
LEMMA DevRests ==
  ASSUME DevInv, UNCHANGED <<session, row, reached, rowFile, observer, progress, problems, listing,
                             counted>>, stopAsked' \in BOOLEAN
  PROVE  DevInv'
<1>1. DevTypeOK'
  BY DEF DevInv, DevTypeOK
<1>2. RowsFit'
  BY DEF DevInv, RowsFit, RowFits, Lives
<1>3. \A t : NewerRows(t)' = NewerRows(t)
  BY DEF NewerRows, Lives
<1>4. \A t : Enough(t)' <=> Enough(t)
  BY <1>3 DEF Enough
<1>5. PruningFits'
  BY <1>3, <1>4 DEF DevInv, PruningFits
<1> QED BY <1>1, <1>2, <1>5 DEF DevInv

LEMMA DevInitHolds == DevInit => DevInv
<1> SUFFICES ASSUME DevInit PROVE DevInv
  OBVIOUS
<1>1. PICK at \in {"waits", "dead"}, phase \in Phases :
        /\ at = "waits" => phase = "preparing"
        /\ session = [s \in Sessions |-> IF s = 1 THEN at ELSE "off"]
        /\ row = [s \in Sessions |-> IF s = 1 THEN phase ELSE "none"]
        /\ observer = [s \in Sessions |-> IF s = 1 /\ at = "waits" THEN "on" ELSE "off"]
  BY DEF DevInit
<1>2. /\ rowFile = row /\ reached = [s \in Sessions |-> FALSE]
      /\ progress = [s \in Sessions |-> "none"] /\ problems = [s \in Sessions |-> FALSE]
      /\ listing = [s \in Sessions |-> {}] /\ counted = [s \in Sessions |-> 0] /\ stopAsked = FALSE
  BY DEF DevInit
<1>3. Cardinality(Sessions) \in Nat /\ Cardinality({}) = 0
  BY FS_CardinalityType, FS_EmptySet, DevAssumption
<1>4. DevTypeOK
  <2>1. /\ session \in [Sessions -> {"waits", "dead", "off"}] /\ row \in [Sessions -> Phases]
        /\ observer \in [Sessions -> {"off", "on", "ended"}]
    BY <1>1 DEF Phases
  <2>2. counted \in [Sessions -> 0..Cardinality(Sessions)]
    BY <1>2, <1>3
  <2> QED BY <1>2, <2>1, <2>2 DEF DevTypeOK
<1>5. RowsFit
  BY <1>1, <1>2 DEF RowsFit, RowFits, Lives, Terminal
<1>6. PruningFits
  BY <1>2, <1>3 DEF PruningFits
<1> QED BY <1>4, <1>5, <1>6 DEF DevInv

LEMMA DevStepKeeps == DevInv /\ [DevNext]_devVars => DevInv'
<1> SUFFICES ASSUME DevInv, [DevNext]_devVars PROVE DevInv'
  OBVIOUS
<1>1. ASSUME NEW s \in Sessions, DevStep(s) PROVE DevInv'
  BY <1>1, ListsKeeps, PruneKeeps, BeginKeeps, AdvanceKeeps, PhaseKeeps, ObserveKeeps,
     PublishKeeps, KillClientKeeps DEF DevStep
<1>2. CASE AskStop
  BY <1>2, DevRests DEF AskStop
<1>3. CASE UNCHANGED devVars
  BY <1>3, DevRests DEF devVars, DevInv, DevTypeOK
<1> QED BY <1>1, <1>2, <1>3 DEF DevNext

\* Rows fit what sessions do, and what is counted while old rows are removed is there.
THEOREM DevInvariant == DevSpec => []DevInv
<1> QED BY DevInitHolds, DevStepKeeps, PTL DEF DevSpec

\* A living client keeps its row (LivingRowsStay).
THEOREM LivingKeepRows == DevSpec => []LivingRowsStay
<1>1. DevInv => LivingRowsStay
  BY DEF DevInv, RowsFit, RowFits, LivingRowsStay
<1> QED BY <1>1, DevInvariant, PTL

\* Removing old rows leaves the newest (RecentRowsStay).
THEOREM RecentStay == DevSpec => RecentRowsStay
<1> DEFINE Recent == \A s \in Sessions : rowFile[s] # "none" /\ rowFile'[s] = "none" =>
              Cardinality({t \in Sessions : t > s /\ rowFile'[t] # "none" /\ ~Lives(t)}) >= KeepRows
<1>1. DevInv /\ [DevNext]_devVars => [Recent]_devVars
  <2> SUFFICES ASSUME DevInv, DevNext, NEW s \in Sessions, rowFile[s] # "none", rowFile'[s] = "none"
               PROVE  Cardinality({t \in Sessions : t > s /\ rowFile'[t] # "none" /\ ~Lives(t)})
                        >= KeepRows
    OBVIOUS
  <2>1. PICK r \in Sessions : Prune(r)
    <3>1. DevTypeOK /\ RowsFit
      BY DEF DevInv
    <3>2. ASSUME NEW r \in Sessions, DevStep(r), ~Prune(r) PROVE FALSE
      <4>1. CASE Begin(r) \/ Announce(r) \/ EndTask(r) \/ FinishSession(r)
        BY <3>1, <4>1 DEF Begin, Announce, EndTask, FinishSession, SetPhase, DevTypeOK, Terminal
      <4>2. ASSUME NEW found \in BOOLEAN, Observe(r, found) PROVE FALSE
        <5>1. /\ Lives(r) /\ observer[r] = "on" /\ RowFits(r)
              /\ \E next \in {"ready", "preparing", "degraded", row[r]} :
                   rowFile' = IF next # row[r] THEN [rowFile EXCEPT ![r] = next] ELSE rowFile
          BY <3>1, <4>2 DEF Observe, RowsFit
        <5> QED BY <3>1, <5>1 DEF DevTypeOK
      <4> QED BY <3>2, <4>1, <4>2 DEF DevStep, Lists, Advance, FailsEarly, TellObserver, Publish, KillClient
    <3> QED BY <3>2 DEF DevNext, AskStop
  <2>2. PICK o \in Newest(listing[r]) :
          rowFile' = IF counted[r] >= KeepRows THEN [rowFile EXCEPT ![o] = "none"] ELSE rowFile
    BY <2>1 DEF Prune
  <2>3. o = s /\ counted[r] >= KeepRows /\ rowFile' = [rowFile EXCEPT ![s] = "none"]
    BY <2>2 DEF DevInv, DevTypeOK
  <2>4. Enough(s)
    BY <2>1, <2>2, <2>3, PrunedIsOld DEF Prune, Newest
  <2>5. \A t \in Sessions : t > s => t # s
    BY DevAssumption
  <2>6. {t \in Sessions : t > s /\ rowFile'[t] # "none" /\ ~Lives(t)} = NewerRows(s)
    BY <2>3, <2>5 DEF NewerRows, DevInv, DevTypeOK
  <2> QED BY <2>4, <2>6 DEF Enough
<1> QED BY <1>1, DevInvariant, PTL DEF DevSpec, RecentRowsStay

\* An operation that is stopping says nothing but its end (EndingsAreFinal).
THEOREM EndingsStayFinal == DevSpec => EndingsAreFinal
<1> DEFINE Final == \A s \in Sessions :
       /\ rowFile[s] = "stopping" /\ session'[s] # "dead" =>
            rowFile'[s] \in {"stopping", "none"} \cup Terminal
       /\ rowFile[s] \in Terminal => rowFile'[s] \in {rowFile[s], "none"}
<1>1. DevInv /\ [DevNext]_devVars => [Final]_devVars
  <2> SUFFICES ASSUME DevInv, DevNext PROVE Final
    OBVIOUS
  <2>1. DevTypeOK /\ RowsFit
    BY DEF DevInv
  <2>2. ASSUME NEW r \in Sessions, DevStep(r) PROVE Final
    <3>1. CASE Begin(r) \/ Announce(r) \/ EndTask(r) \/ FinishSession(r)
      BY <2>1, <3>1 DEF Begin, Announce, EndTask, FinishSession, SetPhase, DevTypeOK, Terminal,
                        RowsFit, RowFits
    <3>2. ASSUME NEW found \in BOOLEAN, Observe(r, found) PROVE Final
      <4>1. /\ Lives(r) /\ RowFits(r) /\ row[r] \notin Terminal \cup {"stopping"}
            /\ \E next \in {"ready", "preparing", "degraded", row[r]} :
                 rowFile' = IF next # row[r] THEN [rowFile EXCEPT ![r] = next] ELSE rowFile
        BY <2>1, <3>2 DEF Observe, Leaves, RowsFit
      <4>2. rowFile[r] \notin Terminal \cup {"stopping"}
            /\ \A s \in Sessions \ {r} : rowFile'[s] = rowFile[s]
        BY <2>1, <4>1 DEF RowFits, DevTypeOK
      <4> QED BY <4>2
    <3>3. CASE Prune(r)
      BY <2>1, <3>3 DEF Prune, DevTypeOK
    <3> QED BY <2>2, <3>1, <3>2, <3>3
            DEF DevStep, Lists, Advance, FailsEarly, TellObserver, Publish, KillClient
  <2> QED BY <2>2 DEF DevNext, AskStop
<1> QED BY <1>1, DevInvariant, PTL DEF DevSpec, EndingsAreFinal

----------------------------------------------------------------------------
(* Consent: the invariant.                                               *)

\* The requesters with a consent, and the consents typed that nobody has read.
Consented == {r \in Requester : conclusion[r] = "yes" \/ outgoing[r] = "yes"}
UnreadYes == {i \in DOMAIN typed : typed[i] = "yes"}

\* No consent is without its line, and each line is for one.
LinesCover == Cardinality(Consented) + Cardinality(UnreadYes) <= yes /\ yes <= lines

\* The question that is open has no answer yet.
QuestionIsOpen ==
  server \in {"shows", "reads"} => current \in Requester /\ outgoing[current] = "none"

ConsentInv ==
  /\ ConsentTypeOK /\ typed \in Seq({"yes", "no", "hangup"}) /\ LinesCover /\ QuestionIsOpen
\* These are finite sets.
LEMMA ConsentCounts ==
  ASSUME ConsentInv
  PROVE  /\ IsFiniteSet(Consented) /\ Cardinality(Consented) \in Nat
         /\ IsFiniteSet(UnreadYes) /\ Cardinality(UnreadYes) \in Nat /\ UnreadYes \subseteq 1..Len(typed)
         /\ Len(typed) \in Nat /\ lines \in Nat /\ yes \in Nat
<1>1. Consented \subseteq Requester /\ UnreadYes \subseteq 1..Len(typed) /\ Len(typed) \in Nat
  BY DEF Consented, UnreadYes, ConsentInv
<1>2. IsFiniteSet(1..Len(typed))
  BY <1>1, FS_Interval
<1>3. lines \in Nat /\ yes \in Nat
  BY ConsentAssumption DEF ConsentInv, ConsentTypeOK
<1> QED BY <1>1, <1>2, <1>3, FS_Subset, FS_CardinalityType, ConsentAssumption

\* Nothing is typed or read, and no consent is new.
LEMMA NothingConsented ==
  ASSUME ConsentInv, Consented' \subseteq Consented, UNCHANGED ttyState
  PROVE  LinesCover' /\ typed' \in Seq({"yes", "no", "hangup"})
<1>1. UnreadYes' = UnreadYes
  BY DEF UnreadYes, ttyState
<1>2. /\ Cardinality(Consented') \in Nat /\ Cardinality(Consented') <= Cardinality(Consented)
  BY ConsentCounts, FS_Subset, FS_CardinalityType
<1> QED BY <1>1, <1>2, ConsentCounts DEF ConsentInv, LinesCover, ttyState

\* The owner of the terminal, but for reading an answer, and the requesters.
LEMMA OwnerKeeps ==
  ASSUME ConsentInv,
         \/ \E b \in BOOLEAN : OpenChannel(b)
         \/ BeatOwner \/ ShowQuestion \/ GiveUp \/ CloseChannel \/ StallOwner
         \/ \E r \in Requester : TakeRequest(r)
  PROVE  ConsentInv'
<1> USE DEF OpenChannel, BeatOwner, ShowQuestion, GiveUp, CloseChannel, StallOwner, TakeRequest,
            askState, Answer, Unanswered
<1>1. UNCHANGED <<typed, lines, yes, asking, incoming, beating, conclusion>>
  BY DEF ttyState
<1>2. ConsentTypeOK'
  <2>1. outgoing' \in [Requester -> {"none", "yes", "no"}]
    BY DEF ConsentInv, ConsentTypeOK
  <2>2. /\ server' \in {"off", "scans", "shows", "reads", "ended"}
        /\ current' \in Requester \cup {NoRequest} /\ beats' \in BOOLEAN /\ channel' \in BOOLEAN
    BY DEF ConsentInv, ConsentTypeOK
  <2> QED BY <1>1, <2>1, <2>2 DEF ConsentInv, ConsentTypeOK
<1>3. QuestionIsOpen'
  BY DEF ConsentInv, ConsentTypeOK, QuestionIsOpen
<1>4. Consented' \subseteq Consented
  BY <1>1 DEF Consented, ConsentInv, ConsentTypeOK
<1> QED BY <1>1, <1>2, <1>3, <1>4, NothingConsented DEF ConsentInv, ttyState
LEMMA RequesterKeeps ==
  ASSUME ConsentInv, NEW r \in Requester,
         \/ MakeRequest(r) \/ WriteQuestion(r) \/ BeatRequester(r) \/ PollAnswer(r)
         \/ OwnerSilent(r) \/ Stall(r) \/ KillRequester(r)
  PROVE  ConsentInv'
<1> USE DEF MakeRequest, WriteQuestion, BeatRequester, PollAnswer, OwnerSilent, Stall,
            KillRequester, Conclude, ownerState
<1>1. UNCHANGED <<typed, lines, yes, outgoing, server, current, beats, channel>>
  BY DEF ttyState
<1>2. ConsentTypeOK'
  <2>1. /\ asking' \in [Requester -> {"idle", "waits", "dead", "done"}]
        /\ incoming' \in [Requester -> {"none", "alive", "question"}]
        /\ beating' \in [Requester -> BOOLEAN]
    BY DEF ConsentInv, ConsentTypeOK
  <2>2. conclusion' \in [Requester -> {"none", "yes", "no", "error"}]
    <3>1. conclusion' = conclusion \/ \E value \in {"yes", "no", "error"} :
                                       conclusion' = [conclusion EXCEPT ![r] = value]
      BY DEF ConsentInv, ConsentTypeOK
    <3> QED BY <3>1 DEF ConsentInv, ConsentTypeOK
  <2> QED BY <1>1, <2>1, <2>2 DEF ConsentInv, ConsentTypeOK
<1>3. QuestionIsOpen'
  BY <1>1 DEF ConsentInv, QuestionIsOpen
<1>4. Consented' \subseteq Consented
  BY <1>1 DEF Consented, ConsentInv, ConsentTypeOK
<1> QED BY <1>1, <1>2, <1>3, <1>4, NothingConsented DEF ConsentInv, ttyState

\* A line is typed.
LEMMA TypeLineKeeps ==
  ASSUME ConsentInv, NEW line \in {"yes", "no", "hangup"}, TypeLine(line) PROVE ConsentInv'
<1>1. /\ UNCHANGED <<asking, incoming, beating, conclusion, outgoing, server, current, beats, channel>>
      /\ lines < MaxLines /\ lines' = lines + 1 /\ typed' = Append(typed, line)
      /\ yes' = IF line = "yes" THEN yes + 1 ELSE yes
  BY DEF TypeLine, askState, ownerState
<1>2. typed \in Seq({"yes", "no", "hangup"}) /\ typed' \in Seq({"yes", "no", "hangup"})
      /\ Len(typed') = Len(typed) + 1 /\ typed'[Len(typed) + 1] = line
      /\ \A i \in 1..Len(typed) : typed'[i] = typed[i]
  BY <1>1 DEF ConsentInv
<1>3. UnreadYes' = IF line = "yes" THEN UnreadYes \cup {Len(typed) + 1} ELSE UnreadYes
  BY <1>2, ConsentCounts DEF UnreadYes
<1>4. Len(typed) + 1 \notin UnreadYes
  BY ConsentCounts
<1>5. Cardinality(UnreadYes') = IF line = "yes" THEN Cardinality(UnreadYes) + 1 ELSE Cardinality(UnreadYes)
  BY <1>3, <1>4, ConsentCounts, FS_AddElement
<1>6. Consented' = Consented
  BY <1>1 DEF Consented
<1>7. LinesCover'
  BY <1>1, <1>5, <1>6, ConsentCounts DEF ConsentInv, LinesCover
<1>8. ConsentTypeOK'
  <2>1. lines' \in 0..MaxLines /\ yes' \in 0..MaxLines
    BY <1>1, ConsentCounts, ConsentAssumption DEF ConsentInv, LinesCover
  <2>2. \A i \in DOMAIN typed' : typed'[i] \in {"yes", "no", "hangup"}
    BY <1>2
  <2> QED BY <1>1, <2>1, <2>2 DEF ConsentInv, ConsentTypeOK
<1>9. QuestionIsOpen'
  BY <1>1 DEF ConsentInv, QuestionIsOpen
<1> QED BY <1>2, <1>7, <1>8, <1>9 DEF ConsentInv

\* An answer is read.
LEMMA ReadAnswerKeeps == ASSUME ConsentInv, ReadAnswer PROVE ConsentInv'
<1>1. /\ server = "reads" /\ typed # <<>> /\ server' = "scans" /\ current' = NoRequest
      /\ outgoing' = [outgoing EXCEPT ![current] = IF typed[1] = "yes" THEN "yes" ELSE "no"]
      /\ typed' = [i \in 1..(Len(typed) - 1) |-> typed[i + 1]]
      /\ UNCHANGED <<asking, incoming, beating, conclusion, lines, yes, beats, channel>>
  BY DEF ReadAnswer, Answer, Consents, Rest, askState
<1>2. typed \in Seq({"yes", "no", "hangup"}) /\ Len(typed) \in Nat \ {0}
  BY <1>1 DEF ConsentInv
<1>3. typed' \in Seq({"yes", "no", "hangup"}) /\ Len(typed') = Len(typed) - 1
      /\ \A i \in 1..(Len(typed) - 1) : typed'[i] = typed[i + 1]
  BY <1>1, <1>2
<1>4. current \in Requester /\ outgoing[current] = "none"
  BY <1>1 DEF ConsentInv, QuestionIsOpen
<1> DEFINE rest == UnreadYes \ {1} shift == [i \in UnreadYes' |-> i + 1]
<1>5. Cardinality(UnreadYes') \in Nat /\ Cardinality(UnreadYes') <= Cardinality(rest)
  <2>1. \A i \in UnreadYes' : i \in Nat /\ i + 1 \in rest
    BY <1>1, <1>2, <1>3 DEF UnreadYes
  <2>2. shift \in [UnreadYes' -> rest]
    BY <2>1
  <2>3. \A i, j \in UnreadYes' : shift[i] = shift[j] => i = j
    BY <2>1
  <2>4. shift \in Injection(UnreadYes', rest)
    BY <2>2, <2>3 DEF Injection, IsInjective
  <2>5. IsFiniteSet(rest)
    BY ConsentCounts, FS_RemoveElement
  <2> QED BY <2>4, <2>5, FS_Injection, FS_CardinalityType
<1>6. Cardinality(rest) = IF typed[1] = "yes" THEN Cardinality(UnreadYes) - 1 ELSE Cardinality(UnreadYes)
  <2>1. 1 \in UnreadYes <=> typed[1] = "yes"
    BY <1>2 DEF UnreadYes
  <2> QED BY <2>1, ConsentCounts, FS_RemoveElement
<1>7. Consented' \subseteq IF typed[1] = "yes" THEN Consented \cup {current} ELSE Consented
  BY <1>1, <1>4 DEF Consented, ConsentInv, ConsentTypeOK
<1>8. Cardinality(Consented') \in Nat
      /\ Cardinality(Consented') <= IF typed[1] = "yes" THEN Cardinality(Consented) + 1
                                    ELSE Cardinality(Consented)
  <2>1. CASE typed[1] = "yes"
    <3>1. IsFiniteSet(Consented \cup {current})
          /\ Cardinality(Consented \cup {current}) \in {Cardinality(Consented), Cardinality(Consented) + 1}
      BY ConsentCounts, FS_AddElement
    <3>2. Cardinality(Consented') \in Nat /\ Cardinality(Consented') <= Cardinality(Consented \cup {current})
      BY <1>7, <2>1, <3>1, FS_Subset, FS_CardinalityType
    <3> QED BY <2>1, <3>1, <3>2, ConsentCounts
  <2>2. CASE typed[1] # "yes"
    BY <1>7, <2>2, ConsentCounts, FS_Subset, FS_CardinalityType
  <2> QED BY <2>1, <2>2
<1>9. LinesCover'
  BY <1>1, <1>5, <1>6, <1>8, ConsentCounts DEF ConsentInv, LinesCover
<1>10. ConsentTypeOK'
  <2>1. \A i \in DOMAIN typed' : typed'[i] \in {"yes", "no", "hangup"}
    BY <1>3
  <2> QED BY <1>1, <2>1 DEF ConsentInv, ConsentTypeOK
<1>11. QuestionIsOpen'
  BY <1>1 DEF QuestionIsOpen
<1> QED BY <1>3, <1>9, <1>10, <1>11 DEF ConsentInv

\* No consent is without a line that was typed for it, for any requesters.
THEOREM ConsentInvariant == ConsentSpec => []ConsentInv
<1>1. ConsentInit => ConsentInv
  <2> SUFFICES ASSUME ConsentInit PROVE ConsentInv
    OBVIOUS
  <2>1. Consented = {} /\ UnreadYes = {}
    BY DEF ConsentInit, Consented, UnreadYes
  <2>2. LinesCover
    BY <2>1, FS_EmptySet DEF ConsentInit, LinesCover
  <2>3. typed \in Seq({"yes", "no", "hangup"}) /\ DOMAIN typed = {}
    BY DEF ConsentInit
  <2>4. ConsentTypeOK
    <3>1. /\ asking \in [Requester -> {"idle", "waits", "dead", "done"}]
          /\ incoming \in [Requester -> {"none", "alive", "question"}]
          /\ beating \in [Requester -> BOOLEAN]
          /\ outgoing \in [Requester -> {"none", "yes", "no"}]
          /\ conclusion \in [Requester -> {"none", "yes", "no", "error"}]
          /\ server = "off" /\ current = NoRequest
          /\ lines = 0 /\ yes = 0 /\ beats = FALSE /\ channel = FALSE
      BY DEF ConsentInit
    <3>2. \A i \in DOMAIN typed : typed[i] \in {"yes", "no", "hangup"}
      BY <2>3
    <3>3. 0 \in 0..MaxLines
      BY ConsentAssumption
    <3>4. /\ server \in {"off", "scans", "shows", "reads", "ended"}
          /\ current \in Requester \cup {NoRequest}
          /\ lines \in 0..MaxLines /\ yes \in 0..MaxLines
          /\ beats \in BOOLEAN /\ channel \in BOOLEAN
      BY <3>1, <3>3
    <3> QED BY <3>1, <3>2, <3>4, Zenon DEF ConsentTypeOK
  <2>5. QuestionIsOpen
    BY DEF ConsentInit, QuestionIsOpen
  <2> QED BY <2>2, <2>3, <2>4, <2>5 DEF ConsentInv
<1>2. ConsentInv /\ [ConsentNext]_consentVars => ConsentInv'
  <2> SUFFICES ASSUME ConsentInv, [ConsentNext]_consentVars PROVE ConsentInv'
    OBVIOUS
  <2>1. CASE UNCHANGED consentVars
    <3>1. Consented' = Consented /\ UNCHANGED ttyState
      BY <2>1 DEF consentVars, Consented, ttyState
    <3>2. ConsentTypeOK' /\ QuestionIsOpen'
      BY <2>1 DEF consentVars, ConsentInv, ConsentTypeOK, QuestionIsOpen
    <3> QED BY <3>1, <3>2, NothingConsented DEF ConsentInv
  <2> QED BY <2>1, OwnerKeeps, RequesterKeeps, TypeLineKeeps, ReadAnswerKeeps DEF ConsentNext
<1> QED BY <1>1, <1>2, PTL DEF ConsentSpec

\* A yes was typed for it (ConsentIsTyped).
THEOREM ConsentStaysTyped == ConsentSpec => []ConsentIsTyped
<1>1. ConsentInv => ConsentIsTyped
  <2> SUFFICES ASSUME ConsentInv PROVE Cardinality(Consented) <= yes
    BY DEF ConsentIsTyped, Consented
  <2> QED BY ConsentCounts DEF ConsentInv, LinesCover
<1> QED BY <1>1, ConsentInvariant, PTL

\* An answer does not change (AnswerStands).
THEOREM AnswersStand == ConsentSpec => AnswerStands
<1> DEFINE Stands == \A r \in Requester : outgoing[r] # "none" => outgoing'[r] \in {outgoing[r], "none"}
<1>1. ConsentInv /\ [ConsentNext]_consentVars => [Stands]_consentVars
  <2> SUFFICES ASSUME ConsentInv, ConsentNext, NEW r \in Requester, outgoing[r] # "none"
               PROVE  outgoing'[r] \in {outgoing[r], "none"}
    OBVIOUS
  <2>1. CASE ReadAnswer \/ GiveUp
    <3>1. r # current /\ \E value : outgoing' = [outgoing EXCEPT ![current] = value]
      BY <2>1 DEF ReadAnswer, GiveUp, Answer, ConsentInv, QuestionIsOpen
    <3> QED BY <3>1 DEF ConsentInv, ConsentTypeOK
  <2>2. CASE CloseChannel
    BY <2>2 DEF CloseChannel
  <2> QED BY <2>1, <2>2 DEF ConsentNext, OpenChannel, BeatOwner, ShowQuestion, StallOwner, TypeLine,
       TakeRequest, MakeRequest, WriteQuestion, BeatRequester, PollAnswer, OwnerSilent, Stall,
       KillRequester, ownerState
<1> QED BY <1>1, ConsentInvariant, PTL DEF ConsentSpec, AnswerStands
=============================================================================
