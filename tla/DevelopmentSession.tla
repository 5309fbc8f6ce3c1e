--------------------------- MODULE DevelopmentSession ---------------------------
(***************************************************************************)
(* The status rows of development operations (src/nix/control/              *)
(* development.go and its calls in main.go).  The client of `run` keeps a   *)
(* row of its own in memory and on disk; its main program and an observer   *)
(* ticking beside it both change the phase under one mutex, a finished row  *)
(* stays for inspection, and the next client removes old finished rows.     *)
(***************************************************************************)
EXTENDS Integers, FiniteSets

CONSTANTS Sessions, \* 1..n: clients of one service scope, in the order they start
          KeepRows  \* finished rows that are kept (20 in the code)

ASSUME DevAssumption == Sessions \subseteq Nat /\ IsFiniteSet(Sessions) /\ KeepRows \in Nat

VARIABLES session,  \* session[s]: what the client's main program does next
          row,      \* the phase it holds in memory
          reached,  \* reached_ready
          rowFile,  \* the phase on disk, "none" without a file
          observer, \* its observer: "off", "on", or "ended"
          progress, \* what its task published last in progress.json
          problems, \* the observer's last list of problems is not empty
          listing,  \* the rows a starting client has read and not yet dealt with
          counted,  \* completed: the finished rows it has counted
          stopAsked \* stop-request.json exists

devVars == <<session, row, reached, rowFile, observer, progress, problems, listing, counted,
             stopAsked>>
\* What only one session's own steps change, the row aside.
devRest == <<progress, listing, counted, stopAsked>>

Terminal == {"stopped", "failed"}
Phases == {"none", "starting", "preparing", "ready", "degraded", "stopping"} \cup Terminal

DevTypeOK ==
  /\ session \in [Sessions -> {"off", "prunes", "prepares", "acquires", "starts",
                               "announces", "waits", "finishes", "ended", "dead"}]
  /\ row \in [Sessions -> Phases] /\ rowFile \in [Sessions -> Phases]
  /\ reached \in [Sessions -> BOOLEAN] /\ problems \in [Sessions -> BOOLEAN]
  /\ observer \in [Sessions -> {"off", "on", "ended"}]
  /\ progress \in [Sessions -> {"none", "preparing", "ready"}]
  /\ listing \in [Sessions -> SUBSET Sessions]
  /\ counted \in [Sessions -> 0..Cardinality(Sessions)] /\ stopAsked \in BOOLEAN

\* The first client started before: its task runs, or it finished its row or was
\* killed in any phase.
DevInit ==
  /\ \E at \in {"waits", "dead"}, phase \in Phases :
       /\ at = "waits" => phase = "preparing"
       /\ session = [s \in Sessions |-> IF s = 1 THEN at ELSE "off"]
       /\ row = [s \in Sessions |-> IF s = 1 THEN phase ELSE "none"]
       /\ observer = [s \in Sessions |-> IF s = 1 /\ at = "waits" THEN "on" ELSE "off"]
  /\ rowFile = row /\ reached = [s \in Sessions |-> FALSE]
  /\ progress = [s \in Sessions |-> "none"]
  /\ problems = [s \in Sessions |-> FALSE] /\ listing = [s \in Sessions |-> {}]
  /\ counted = [s \in Sessions |-> 0] /\ stopAsked = FALSE

Go(s, at) == session' = [session EXCEPT ![s] = at]
Lives(s) == session[s] \notin {"off", "ended", "dead"}

----------------------------------------------------------------------------
(* The phase.                                                              *)
\* applicationStatuses: the phase a reader is shown.
ShownPhase(s) ==
  IF rowFile[s] \in Terminal THEN rowFile[s]
  ELSE IF ~Lives(s) THEN "stopped"
  ELSE IF stopAsked /\ rowFile[s] # "starting" THEN "stopping"
  ELSE rowFile[s]

\* developmentSession.phase: memory and file under the mutex.
SetPhase(s, phase) ==
  /\ row' = [row EXCEPT ![s] = phase] /\ rowFile' = [rowFile EXCEPT ![s] = phase]
  /\ UNCHANGED reached

----------------------------------------------------------------------------
(* beginDevelopment.                                                       *)
\* Mutated form: every row counts, whatever its phase.
Completed_Wrong(t) == TRUE
Completed(t) == ShownPhase(t) \in Terminal

\* The rows as one reading sees them; only the completed ones matter.
Lists(s) ==
  /\ session[s] = "off" /\ \A t \in Sessions : t < s => session[t] # "off"
  /\ Go(s, "prunes")
  /\ listing' = [listing EXCEPT ![s] = {t \in Sessions : rowFile[t] # "none" /\ Completed(t)}]
  /\ UNCHANGED <<row, reached, rowFile, observer, progress, problems, counted, stopAsked>>

\* Mutated form: the rows are listed with the oldest first.
Newest_Wrong(S) == {t \in S : \A u \in S : t <= u}
\* The newest row listed, unless there is none.
Newest(S) == {t \in S : \A u \in S : t >= u}

Prune(s) ==
  /\ session[s] = "prunes"
  /\ \E t \in Newest(listing[s]) :
     /\ listing' = [listing EXCEPT ![s] = @ \ {t}]
     /\ counted' = [counted EXCEPT ![s] = @ + 1]
     /\ rowFile' = IF counted[s] >= KeepRows THEN [rowFile EXCEPT ![t] = "none"] ELSE rowFile
  /\ UNCHANGED <<session, row, reached, observer, progress, problems, stopAsked>>
Begin(s) ==
  /\ session[s] = "prunes" /\ listing[s] = {}
  /\ Go(s, "prepares") /\ SetPhase(s, "starting")
  /\ observer' = [observer EXCEPT ![s] = "on"]
  /\ counted' = [counted EXCEPT ![s] = 0]
  /\ UNCHANGED <<problems, progress, listing, stopAsked>>

----------------------------------------------------------------------------
(* `run`.                                                                  *)
\* Preparing or acquiring fails: nothing was started, only the row is finished.
Advance(s) ==
  /\ session[s] \in {"prepares", "acquires", "starts"}
  /\ \/ session[s] = "prepares" /\ Go(s, "acquires")
     \/ session[s] = "acquires" /\ Go(s, "starts")
     \/ session[s] = "starts" /\ Go(s, "announces")
  /\ stopAsked' = (stopAsked /\ session[s] # "acquires")   \* `start` removes the request
  /\ UNCHANGED <<row, reached, rowFile, observer, progress, problems, listing, counted>>
FailsEarly(s) ==
  /\ session[s] \in {"prepares", "acquires"} /\ Go(s, "finishes")
  /\ UNCHANGED <<row, reached, rowFile, observer, problems, devRest>>
\* cmd.Start came before: the task may already have published its progress.
Announce(s) ==
  /\ session[s] = "announces" /\ Go(s, "waits") /\ SetPhase(s, "preparing")
  /\ UNCHANGED <<observer, problems, devRest>>
\* The task ends, or could not start, or a signal, a failed service or a stop
\* request ends it; the deferred cleanup says so again and stops what it owns.
EndTask(s) ==
  /\ session[s] \in {"starts", "waits"} /\ Go(s, "finishes") /\ SetPhase(s, "stopping")
  /\ UNCHANGED <<observer, problems, devRest>>

\* finish: the observer is told to end and waited for.
ObserverDone(s) == observer[s] = "ended"
TellObserver(s) ==
  /\ session[s] = "finishes" /\ observer[s] = "on"
  /\ observer' = [observer EXCEPT ![s] = "ended"]
  /\ UNCHANGED <<session, row, reached, rowFile, problems, devRest>>
FinishSession(s) ==
  /\ session[s] = "finishes" /\ ObserverDone(s) /\ Go(s, "ended")
  /\ \E phase \in Terminal : SetPhase(s, phase)
  /\ progress' = [progress EXCEPT ![s] = "none"]   \* its channel is removed
  /\ UNCHANGED <<observer, problems, listing, counted, stopAsked>>

----------------------------------------------------------------------------
(* observe: one tick, under the mutex.                                     *)
\* Mutated form: only a finished row is left alone.
Leaves_Wrong(s) == row[s] \in Terminal
Leaves(s) == row[s] \in Terminal \cup {"stopping"}

Observe(s, found) ==
  /\ observer[s] = "on" /\ Lives(s) /\ ~Leaves(s)
  /\ LET ready == progress[s] = "ready"
         first == IF ready /\ ~reached[s] THEN "ready"
                  ELSE IF progress[s] = "preparing" /\ row[s] = "starting" THEN "preparing"
                  ELSE row[s]
         looks == reached[s] \/ ready
         next == IF looks /\ found # problems[s]
                 THEN IF found THEN "degraded" ELSE "ready" ELSE first
     IN /\ reached' = [reached EXCEPT ![s] = looks]
        /\ problems' = [problems EXCEPT ![s] = IF looks THEN found ELSE @]
        /\ row' = [row EXCEPT ![s] = next]
        /\ rowFile' = IF next # row[s] THEN [rowFile EXCEPT ![s] = next] ELSE rowFile
  /\ UNCHANGED <<session, observer, devRest>>

----------------------------------------------------------------------------
(* The task, another client's stop request, and a killed client.           *)
Publish(s, what) ==
  /\ session[s] \in {"announces", "waits"} /\ progress[s] # "ready"
  /\ progress' = [progress EXCEPT ![s] = what]
  /\ UNCHANGED <<session, row, reached, rowFile, observer, problems, listing, counted,
                 stopAsked>>
AskStop ==
  /\ ~stopAsked /\ \E s \in Sessions : session[s] = "waits"
  /\ stopAsked' = TRUE
  /\ UNCHANGED <<session, row, reached, rowFile, observer, progress, problems, listing,
                 counted>>
KillClient(s) ==
  /\ Lives(s) /\ Go(s, "dead") /\ observer' = [observer EXCEPT ![s] = "ended"]
  /\ listing' = [listing EXCEPT ![s] = {}] /\ counted' = [counted EXCEPT ![s] = 0]
  /\ UNCHANGED <<row, reached, rowFile, progress, problems, stopAsked>>

DevStep(s) ==
  \/ Lists(s) \/ Prune(s) \/ Begin(s) \/ Advance(s) \/ FailsEarly(s) \/ Announce(s)
  \/ EndTask(s) \/ TellObserver(s) \/ FinishSession(s)
  \/ (\E found \in BOOLEAN : Observe(s, found))
  \/ (\E what \in {"preparing", "ready"} : Publish(s, what))
  \/ KillClient(s)
DevNext == (\E s \in Sessions : DevStep(s)) \/ AskStop
DevSpec == DevInit /\ [][DevNext]_devVars

----------------------------------------------------------------------------
(* A row that says the operation is stopping says nothing but its end      *)
(* afterwards, and a finished row is final: neither the observer nor a     *)
(* late phase of the main program overwrites it.                           *)
EndingsAreFinal ==
  [][\A s \in Sessions :
       /\ rowFile[s] = "stopping" /\ session'[s] # "dead" =>
            rowFile'[s] \in {"stopping", "none"} \cup Terminal
       /\ rowFile[s] \in Terminal => rowFile'[s] \in {rowFile[s], "none"}]_devVars

(* The row of a client that still lives is never removed by another one.   *)
LivingRowsStay ==
  \A s \in Sessions : Lives(s) /\ session[s] # "prunes" => rowFile[s] # "none"

(* Removing old rows leaves the newest finished ones: whatever two starting *)
(* clients do together, a row goes only when KeepRows newer rows of         *)
(* operations that are over stay.                                          *)
RecentRowsStay ==
  [][\A s \in Sessions : rowFile[s] # "none" /\ rowFile'[s] = "none" =>
       Cardinality({t \in Sessions : t > s /\ rowFile'[t] # "none" /\ ~Lives(t)}) >= KeepRows
    ]_devVars
=============================================================================
