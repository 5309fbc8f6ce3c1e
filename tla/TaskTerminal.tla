------------------------------ MODULE TaskTerminal ------------------------------
(***************************************************************************)
(* A task and the terminal (src/nix/control/terminal.go, its use by task.go). *)
(* The owner, in the shell's job, starts the task's anchor in a process      *)
(* group of its own and lends that group the terminal; the anchor runs the   *)
(* command sequence in the same group.  Stops travel up: sequence, anchor,   *)
(* owner, shell; the user's fg and bg travel down.                           *)
(***************************************************************************)
EXTENDS Integers

CONSTANTS MaxKeys \* stops, signals and shell commands of the user
ASSUME TerminalAssumption == MaxKeys \in Nat

VARIABLES group,        \* the terminal's foreground group: "shell", "job" or "task"
          modes,        \* its settings: the shell's or the task's
          owner,        \* what waitTask does next
          stopped,      \* the owner's job is stopped
          interrupted,  \* it has forwarded a cancellation
          arrived,      \* a signal for the owner is in its channel
          resumed,      \* a SIGCONT is in its channel
          settings,     \* taskTTY.settings: what it gives back, "none" if nothing
          kept,         \* taskTTY.stopped: the task's settings at its last stop
          anchor,       \* the anchor: "new", "runs", "stopped" or "ended"
          anchorNews,   \* its last stop has not been collected by the owner
          sequence,     \* the sequence below it
          sequenceNews, \* its last stop has not been collected by the anchor
          term,         \* the anchor was told to end
          tty,          \* the owner has a terminal
          keys

ttyVars == <<group, modes, owner, stopped, interrupted, arrived, resumed, settings, kept,
             anchor, anchorNews, sequence, sequenceNews, term, tty, keys>>
terminalState == <<group, modes>>
taskState == <<anchor, anchorNews, sequence, sequenceNews, term>>
shellState == <<stopped, arrived, resumed, tty, keys>>

TerminalTypeOK ==
  /\ group \in {"shell", "job", "task"} /\ modes \in {"shell", "task"}
  /\ owner \in {"starts", "waits", "reclaims", "stops", "paused", "continues", "ended"}
  /\ stopped \in BOOLEAN /\ interrupted \in BOOLEAN /\ arrived \in BOOLEAN
  /\ resumed \in BOOLEAN /\ settings \in {"none", "shell", "task"}
  /\ kept \in {"none", "shell", "task"}
  /\ anchor \in {"new", "runs", "stopped", "ended"} /\ anchorNews \in BOOLEAN
  /\ sequence \in {"new", "runs", "stopped", "ended"} /\ sequenceNews \in BOOLEAN
  /\ term \in BOOLEAN /\ tty \in BOOLEAN /\ keys \in 0..MaxKeys

\* The job was started in the foreground or in the background, or without a terminal.
TerminalInit ==
  /\ group \in {"shell", "job"} /\ modes = "shell" /\ owner = "starts" /\ stopped = FALSE
  /\ interrupted = FALSE /\ arrived = FALSE /\ resumed = FALSE /\ settings = "none"
  /\ kept = "none" /\ anchor = "new" /\ anchorNews = FALSE /\ sequence = "new"
  /\ sequenceNews = FALSE /\ term = FALSE /\ tty \in BOOLEAN /\ keys = 0

----------------------------------------------------------------------------
(* Signals to the task group.                                              *)
\* SIGCONT: what is stopped runs again, and its stop is no news any more.
Continued(state) == IF state = "stopped" THEN "runs" ELSE state
ContinueTask ==
  /\ anchor' = Continued(anchor) /\ sequence' = Continued(sequence)
  /\ anchorNews' = FALSE /\ sequenceNews' = FALSE

----------------------------------------------------------------------------
(* The owner: taskTerminal and waitTask.                                   *)
\* taskTerminal: the child gets the terminal before it runs.
StartTask ==
  /\ owner = "starts" /\ ~stopped /\ owner' = "waits"
  /\ IF tty /\ group = "job"
     THEN settings' = modes /\ group' = "task" ELSE UNCHANGED <<settings, group>>
  /\ anchor' = "runs" /\ sequence' = "runs"
  /\ UNCHANGED <<modes, interrupted, kept, anchorNews, sequenceNews, term, shellState>>

\* Mutated form: cancellation does not resume its receiver first.
ResumesFirst_Wrong == FALSE
ResumesFirst == TRUE

\* interruptTask: the anchor ends its sequence itself.
CollectSignal ==
  /\ owner = "waits" /\ ~stopped /\ arrived /\ ~anchorNews /\ arrived' = FALSE
  /\ interrupted' = TRUE /\ term' = TRUE
  /\ anchor' = IF ~interrupted /\ ResumesFirst THEN Continued(anchor) ELSE anchor
  /\ UNCHANGED <<anchorNews, sequence, sequenceNews, terminalState, owner, settings, kept,
                 stopped, resumed, tty, keys>>

\* wait4 reports a stop: a cancelled task is woken at once, one without a terminal is
\* left as it is.
CollectStop ==
  /\ owner = "waits" /\ ~stopped /\ anchorNews /\ anchor = "stopped"
  /\ IF arrived \/ interrupted
     THEN ContinueTask /\ term' = TRUE /\ interrupted' = TRUE /\ arrived' = FALSE /\ UNCHANGED owner
     ELSE /\ anchorNews' = FALSE /\ owner' = IF tty THEN "reclaims" ELSE "waits"
          /\ UNCHANGED <<arrived, interrupted, anchor, sequence, sequenceNews, term>>
  /\ UNCHANGED <<terminalState, settings, kept, stopped, resumed, tty, keys>>

\* Mutated form: the terminal is taken from whoever has it.
Lent_Wrong == TRUE
\* taskTTY.reclaim: only from the task's own group.
Lent == group = "task"

Reclaimed ==
  IF tty /\ Lent
  THEN group' = "job" /\ modes' = IF settings # "none" THEN settings ELSE modes
  ELSE UNCHANGED terminalState
ReclaimStopped ==
  /\ owner = "reclaims" /\ ~stopped /\ owner' = "stops"
  /\ kept' = IF Lent THEN modes ELSE kept
  /\ Reclaimed
  /\ UNCHANGED <<interrupted, settings, taskState, shellState>>
\* An earlier SIGCONT is dropped, then the whole job stops, waiting wrappers too.
StopJob ==
  /\ owner = "stops" /\ ~stopped /\ owner' = "paused" /\ resumed' = FALSE /\ stopped' = TRUE
  /\ UNCHANGED <<terminalState, interrupted, settings, kept, taskState, arrived, tty, keys>>

\* Mutated form: the settings of the first start are given back for ever.
Refreshed_Wrong == settings
\* taskTTY.resume: what the shell has set meanwhile is what it gets back.
Refreshed == modes

ResumeTask ==
  /\ owner = "paused" /\ ~stopped /\ resumed /\ resumed' = FALSE /\ owner' = "continues"
  /\ IF group = "job"
     THEN /\ settings' = Refreshed /\ group' = "task"
          /\ modes' = IF kept # "none" THEN kept ELSE modes
     ELSE UNCHANGED <<settings, terminalState>>
  /\ UNCHANGED <<interrupted, kept, taskState, stopped, arrived, tty, keys>>
WakeTask ==
  /\ owner = "continues" /\ ~stopped /\ owner' = "waits" /\ ContinueTask
  /\ UNCHANGED <<term, terminalState, interrupted, settings, kept, shellState>>
\* The exit is collected and the terminal, if the task still has it, taken back.
CollectExit ==
  /\ owner = "waits" /\ ~stopped /\ anchor = "ended" /\ owner' = "ended"
  /\ Reclaimed
  /\ UNCHANGED <<interrupted, settings, kept, taskState, shellState>>

----------------------------------------------------------------------------
(* The anchor (waitTaskAnchor) and its sequence.                           *)
PropagateStop ==
  /\ anchor = "runs" /\ sequenceNews /\ sequence = "stopped" /\ tty
  /\ sequenceNews' = FALSE /\ anchor' = "stopped" /\ anchorNews' = TRUE
  /\ UNCHANGED <<terminalState, owner, interrupted, settings, kept, sequence, term, shellState>>
\* It ends by itself, or the anchor that is to end ends it, stopped or not.
EndSequence ==
  /\ anchor = "runs" /\ (sequence = "runs" \/ (term /\ sequence = "stopped"))
  /\ sequence' = "ended" /\ sequenceNews' = FALSE
  /\ UNCHANGED <<terminalState, owner, interrupted, settings, kept, anchor, anchorNews, term,
                 shellState>>
EndAnchor ==
  /\ anchor = "runs" /\ sequence = "ended" /\ anchor' = "ended" /\ anchorNews' = FALSE
  /\ UNCHANGED <<terminalState, owner, interrupted, settings, kept, sequence, sequenceNews,
                 term, shellState>>
\* An editor, for instance, while it has the terminal.
ChangeModes ==
  /\ group = "task" /\ sequence = "runs" /\ \E m \in {"shell", "task"} : modes' = m
  /\ UNCHANGED <<group, owner, interrupted, settings, kept, taskState, shellState>>

----------------------------------------------------------------------------
(* The user and the shell.                                                 *)
Key == keys < MaxKeys /\ keys' = keys + 1
\* ^Z, or somebody, stops the whole task group, or a command stops itself (reading
\* in the background, for instance).
StopTask(which) ==
  /\ Key /\ sequence = "runs"
  /\ sequence' = "stopped" /\ sequenceNews' = TRUE
  /\ IF which = "group" /\ anchor = "runs"
     THEN anchor' = "stopped" /\ anchorNews' = TRUE ELSE UNCHANGED <<anchor, anchorNews>>
  /\ UNCHANGED <<terminalState, owner, stopped, interrupted, arrived, resumed, settings, kept,
                 term, tty>>
\* kill or an explicit stop; ^C while the job has the terminal.
CancelOwner ==
  /\ Key /\ owner \notin {"starts", "ended"} /\ ~stopped /\ ~arrived /\ arrived' = TRUE
  /\ UNCHANGED <<terminalState, owner, stopped, interrupted, resumed, settings, kept, taskState,
                 tty>>
\* The shell sees its job stop and takes the terminal.
ShellTakes ==
  /\ group = "job" /\ (stopped \/ owner = "ended") /\ group' = "shell"
  /\ modes' = IF stopped THEN "shell" ELSE modes
  /\ UNCHANGED <<owner, interrupted, settings, kept, taskState, shellState>>
\* fg and bg.
ShellContinues(foreground) ==
  /\ Key /\ group = "shell" /\ owner # "ended" /\ tty
  /\ group' = IF foreground THEN "job" ELSE "shell"
  /\ stopped' = FALSE /\ resumed' = TRUE
  /\ UNCHANGED <<modes, owner, interrupted, arrived, settings, kept, taskState, tty>>

OwnerStep ==
  \/ StartTask \/ CollectSignal \/ CollectStop \/ ReclaimStopped \/ StopJob \/ ResumeTask
  \/ WakeTask \/ CollectExit
TerminalNext ==
  \/ OwnerStep \/ PropagateStop \/ EndSequence \/ EndAnchor \/ ChangeModes
  \/ (\E which \in {"group", "sequence"} : StopTask(which)) \/ CancelOwner \/ ShellTakes
  \/ (\E b \in BOOLEAN : ShellContinues(b))
TerminalSpec == TerminalInit /\ [][TerminalNext]_ttyVars

----------------------------------------------------------------------------
(* The owner never takes the terminal from the shell: while the shell has    *)
(* it, whatever the task does and however it ends, only the shell gives it   *)
(* away.                                                                    *)
ShellKeepsTerminal ==
  [][group = "shell" /\ owner' # owner => group' = "shell"]_ttyVars

(* When the task is over, or its job is stopped, the terminal is not left to *)
(* the task's group nor, in the job's hands, with the settings the task made. *)
TerminalComesBack ==
  /\ owner = "ended" => group # "task"
  /\ stopped /\ owner = "paused" => group # "task"
  /\ (owner = "ended" \/ (stopped /\ owner = "paused")) /\ group = "job" => modes = "shell"

(* A cancelled task is never left stopped: a stop of its group that the      *)
(* owner has not undone is one it has yet to see.                           *)
CancelledTaskRuns ==
  interrupted /\ owner = "waits" /\ anchor = "stopped" => anchorNews
=============================================================================
