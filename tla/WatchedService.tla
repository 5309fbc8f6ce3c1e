-------------------------- MODULE WatchedService --------------------------
(***************************************************************************)
(* A service that is rebuilt and restarted when its sources change, the     *)
(* stop and start of it, and the client that watches it while its task runs *)
(* (src/nix/control/watch.go, wait.go).  Build, control and monitor meet    *)
(* only at the service's build gate.                                        *)
(***************************************************************************)
EXTENDS Integers, FiniteSets

CONSTANTS MaxBuilds, \* builds the watcher starts
          MaxRounds, \* times the service is stopped and started again
          MaxLate    \* status queries that exceed their deadline
ASSUME WatchAssumption == MaxBuilds \in Nat /\ MaxRounds \in Nat /\ MaxLate \in Nat

VARIABLES buildGate, \* who holds the build gate
          mark,      \* the service's watch-stopping mark
          built,     \* the marker the hidden service's readiness probe reads
          build,     \* the running build: its place, what it found at its start
          proc,      \* the service process: down, up, ended, between two runs
          watcher,   \* whether the backend runs the hidden watcher
          control,   \* the operation that stops or starts the service
          builds, commits, rounds,
          first,     \* the commit that first wrote the present marker
          payload,   \* the client's task and why it was cancelled
          monitor,   \* its monitor: pool it looks at, deadlines missed in a row
          crashed, lateNews

watchVars == <<buildGate, mark, built, build, proc, watcher, control, builds, commits,
               rounds, first, payload, monitor, crashed, lateNews>>

Pool == {"worktree", "repository"}   \* saved plans the monitor visits in turn

WatchTypeOK ==
  /\ buildGate \in {"free", "build", "monitor", "control"}
  /\ mark \in BOOLEAN /\ built \in BOOLEAN /\ watcher \in BOOLEAN
  /\ build \in [pc : {"idle", "run", "commit", "marked", "restart"}, had : BOOLEAN,
                n : 0..MaxBuilds]
  /\ proc \in {"down", "up", "ended", "between"} /\ first \in 0..MaxBuilds
  /\ control \in {"on", "stop", "stopped", "halted", "off", "start", "starting"}
  /\ builds \in 0..MaxBuilds /\ commits \in 0..MaxBuilds /\ rounds \in 0..MaxRounds
  /\ payload \in {"none", "running", "stopped", "service ended", "deadline"}
  /\ monitor \in [at : Pool \cup {"tick"}, missed : [Pool -> BOOLEAN],
                  inARow : [Pool -> 0..2], looking : BOOLEAN]
  /\ crashed \in BOOLEAN /\ lateNews \in 0..MaxLate

Watching == [at |-> "tick", missed |-> [p \in Pool |-> FALSE],
             inARow |-> [p \in Pool |-> 0], looking |-> FALSE]
NoBuild == [pc |-> "idle", had |-> FALSE, n |-> 0]

WatchInit ==
  /\ buildGate = "free" /\ mark = FALSE /\ built = FALSE /\ build = NoBuild
  /\ proc = "down" /\ first = 0 /\ watcher = TRUE /\ control = "on"
  /\ builds = 0 /\ commits = 0 /\ rounds = 0
  /\ payload = "none" /\ monitor = Watching /\ crashed = FALSE /\ lateNews = 0

----------------------------------------------------------------------------
\* Mutated form: the earlier success is looked up after the marker was written.
HadSuccess_Wrong == build.had \/ built

\* Whether some build had succeeded when this one started.
HadSuccess == build.had

\* watchAction "build": refused by the stop mark, then the earlier success read.
StartBuild ==
  /\ watcher /\ build.pc = "idle" /\ builds < MaxBuilds /\ builds' = builds + 1
  /\ build' = IF mark THEN NoBuild ELSE [pc |-> "run", had |-> built, n |-> 0]
  /\ UNCHANGED <<buildGate, mark, built, proc, watcher, control, commits, rounds, payload,
                 monitor, crashed, first, lateNews>>
BuildFails ==
  /\ build.pc = "run" /\ build' = NoBuild
  /\ UNCHANGED <<buildGate, mark, built, proc, watcher, control, builds, commits, rounds,
                 payload, monitor, crashed, first, lateNews>>

\* Mutated form: a finished build does not look at the stop mark again.
StopSeen_Wrong == FALSE

\* The mark as the build finds it under the gate.
StopSeen == mark

\* The commit under the gate: mark, marker, then the restart of a process that
\* ran before; a first build only publishes its readiness.
CommitBuild ==
  /\ build.pc = "run" /\ buildGate = "free"
  /\ IF StopSeen
     THEN build' = NoBuild /\ UNCHANGED <<buildGate, built, commits, first>>
     ELSE /\ buildGate' = "build" /\ built' = TRUE /\ commits' = commits + 1
          /\ first' = IF built THEN first ELSE commits + 1
          /\ build' = [build EXCEPT !.pc = "marked", !.n = commits + 1]
  /\ UNCHANGED <<mark, proc, watcher, control, builds, rounds, payload, monitor, crashed,
                 lateNews>>
AfterCommit ==
  /\ build.pc = "marked"
  /\ IF HadSuccess /\ proc = "up"
     THEN /\ build' = [build EXCEPT !.pc = "restart"]
          /\ proc' = "between" /\ UNCHANGED buildGate
     ELSE build' = NoBuild /\ buildGate' = "free" /\ UNCHANGED proc
  /\ UNCHANGED <<mark, built, watcher, control, builds, commits, rounds, payload, monitor,
                 crashed, first, lateNews>>
Restarted ==
  /\ build.pc = "restart" /\ build' = NoBuild /\ buildGate' = "free"
  /\ proc' = "up"
  /\ UNCHANGED <<mark, built, watcher, control, builds, commits, rounds, payload, monitor,
                 crashed, first, lateNews>>

\* The backend starts the service once its hidden watcher is ready.
BackendStarts ==
  /\ proc = "down" /\ built /\ control \in {"on", "starting"}
  /\ proc' = "up"
  /\ UNCHANGED <<buildGate, mark, built, build, watcher, control, builds, commits, rounds,
                 payload, monitor, crashed, first, lateNews>>
ServiceEnds ==
  /\ proc = "up" /\ ~crashed /\ crashed' = TRUE
  /\ proc' = "ended"
  /\ UNCHANGED <<buildGate, mark, built, build, watcher, control, builds, commits, rounds,
                 payload, monitor, first, lateNews>>

----------------------------------------------------------------------------
\* releaseUnused: the stop request, then watchStopping under the gate, then the
\* processes; the watcher's build dies with its group.
BeginStop ==
  /\ control = "on" /\ rounds < MaxRounds /\ control' = "stop" /\ rounds' = rounds + 1
  /\ UNCHANGED <<buildGate, mark, built, build, proc, watcher, builds, commits, payload, monitor,
                 crashed, first, lateNews>>
MarkStopping ==
  /\ control = "stop" /\ buildGate = "free" /\ mark' = TRUE /\ control' = "stopped"
  /\ UNCHANGED <<buildGate, built, build, proc, watcher, builds, commits, rounds, payload,
                 monitor, crashed, first, lateNews>>
StopService ==
  /\ control = "stopped" /\ control' = "halted" /\ proc' = "down"
  /\ UNCHANGED <<buildGate, mark, built, build, watcher, builds, commits, rounds, payload,
                 monitor, crashed, first, lateNews>>
StopWatcher ==
  /\ control = "halted" /\ control' = "off" /\ watcher' = FALSE /\ build' = NoBuild
  /\ buildGate' = IF buildGate = "build" THEN "free" ELSE buildGate
  /\ UNCHANGED <<mark, built, proc, builds, commits, rounds, payload, monitor, crashed, first,
                 lateNews>>

\* startMissing: the mark is dropped; under the gates, the marker goes when the
\* watcher does not run, and what does not run is started.
ClearMark ==
  /\ control = "off" /\ payload # "running" /\ buildGate = "free"
  /\ mark' = FALSE /\ control' = "start"
  /\ UNCHANGED <<buildGate, built, build, proc, watcher, builds, commits, rounds, payload,
                 monitor, crashed, first, lateNews>>
StartMissing ==
  /\ control = "start" /\ buildGate = "free" /\ control' = "starting"
  /\ built' = (built /\ watcher) /\ watcher' = TRUE
  /\ UNCHANGED <<buildGate, mark, build, proc, builds, commits, rounds, payload, monitor,
                 crashed, first, lateNews>>
\* `ready` returns when the service runs; the client's task and monitor begin.
TaskBegins ==
  /\ proc = "up" /\ payload \notin {"running"} /\ control \in {"on", "starting"}
  /\ control' = "on" /\ payload' = "running" /\ monitor' = Watching /\ crashed' = FALSE
  /\ UNCHANGED <<buildGate, mark, built, build, proc, watcher, builds, commits, rounds, first,
                 lateNews>>

----------------------------------------------------------------------------
Cancel(why) == payload' = why /\ monitor' = Watching

\* monitorServicePools: at each tick the stop request, then every pool.
Tick ==
  /\ payload = "running" /\ monitor.at = "tick"
  /\ IF control \in {"stop", "stopped", "halted", "off"} THEN Cancel("stopped")
     ELSE monitor' = [monitor EXCEPT !.at = "worktree"] /\ UNCHANGED payload
  /\ UNCHANGED <<buildGate, mark, built, build, proc, watcher, control, builds, commits,
                 rounds, crashed, first, lateNews>>

\* Mutated form: the states are read without the build gates.
MonitorGate_Wrong == "free"

\* serviceOutcome reads the backend's states inside watchGates.
MonitorGate == "monitor"

TakeGates ==
  /\ payload = "running" /\ monitor.at = "worktree" /\ ~monitor.looking
  /\ MonitorGate = "monitor" => buildGate = "free"
  /\ buildGate' = IF MonitorGate = "monitor" THEN "monitor" ELSE buildGate
  /\ monitor' = [monitor EXCEPT !.looking = TRUE]
  /\ UNCHANGED <<mark, built, build, proc, watcher, control, builds, commits, rounds,
                 payload, crashed, first, lateNews>>
LeaveGates == buildGate' = IF buildGate = "monitor" THEN "free" ELSE buildGate
After(p) == IF p = "worktree" THEN "repository" ELSE "tick"

\* Mutated form: a good answer does not clear the pool's missed deadline.
Cleared_Wrong(p) == monitor.missed

\* A good answer from a pool, and only from that pool, clears its evidence.
Cleared(p) == [monitor.missed EXCEPT ![p] = FALSE]

Looking(p) == payload = "running" /\ monitor.at = p /\ (p = "worktree" => monitor.looking)

\* The answer in time: the task goes on unless a wanted service has ended.
GoodAnswer(p) ==
  /\ Looking(p) /\ LeaveGates
  /\ IF p = "worktree" /\ proc \in {"ended", "between", "down"}
     THEN Cancel("service ended")
     ELSE /\ monitor' = [monitor EXCEPT !.at = After(p), !.looking = FALSE,
                           !.missed = Cleared(p), !.inARow[p] = 0]
          /\ UNCHANGED payload
  /\ UNCHANGED <<mark, built, build, proc, watcher, control, builds, commits, rounds,
                 crashed, first, lateNews>>
\* A missed deadline ends the task only when the pool's last query missed its own.
LateAnswer(p) ==
  /\ Looking(p) /\ LeaveGates /\ lateNews < MaxLate /\ lateNews' = lateNews + 1
  /\ IF monitor.missed[p]
     THEN payload' = "deadline" /\ monitor' = [Watching EXCEPT !.inARow[p] = monitor.inARow[p] + 1]
     ELSE /\ monitor' = [monitor EXCEPT !.at = After(p), !.looking = FALSE,
                           !.missed[p] = TRUE, !.inARow[p] = @ + 1]
          /\ UNCHANGED payload
  /\ UNCHANGED <<mark, built, build, proc, watcher, control, builds, commits, rounds,
                 crashed, first>>

WatchNext ==
  \/ StartBuild \/ BuildFails \/ CommitBuild \/ AfterCommit \/ Restarted
  \/ BackendStarts \/ ServiceEnds
  \/ BeginStop \/ MarkStopping \/ StopService \/ StopWatcher \/ ClearMark \/ StartMissing
  \/ TaskBegins \/ Tick \/ TakeGates
  \/ \E p \in Pool : GoodAnswer(p) \/ LateAnswer(p)
WatchSpec == WatchInit /\ [][WatchNext]_watchVars

----------------------------------------------------------------------------
\* A build that finishes around a stop never brings the stopped service back.
StoppedStaysDown == control = "off" => proc = "down" /\ build.pc = "idle"

\* The first build publishes readiness, and that may start the service at once:
\* the build that wrote the marker first never restarts what it has just started.
FirstBuildRestartsNothing ==
  [][proc = "up" /\ proc' = "between" => build.n # first]_watchVars

\* A rebuild under way is never taken for the end of the service: the client is
\* cancelled for an ended service only if it crashed or was being stopped.
RestartIsNoEnd ==
  [][payload = "running" /\ payload' = "service ended" =>
       crashed \/ control \in {"stop", "stopped", "halted", "off"}]_watchVars

\* A late answer alone never cancels a task: the same pool missed two deadlines
\* with no good answer of its own between them, whatever other pools answered.
DeadlineTwice == payload = "deadline" => \E p \in Pool : monitor.inARow[p] = 2

\* Builds, restarts, stops and monitoring of one service agree on whether it is
\* meant to run: none undoes or misreads what another has just done.
WatchIsSteady ==
  /\ [](StoppedStaysDown /\ DeadlineTwice)
  /\ FirstBuildRestartsNothing /\ RestartIsNoEnd
=============================================================================
