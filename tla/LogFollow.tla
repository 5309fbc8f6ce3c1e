------------------------------- MODULE LogFollow -------------------------------
(***************************************************************************)
(* Showing the output of services (src/nix/control/logs.go): a live view    *)
(* whose beginning is fixed before the services are acquired, and the short *)
(* excerpt shown when the acquisition fails.  Process Compose writes the    *)
(* file and rotates it; the viewer only has read descriptors, compares      *)
(* names with descriptors and reads a bounded amount at a time.             *)
(***************************************************************************)
EXTENDS Integers, Sequences, FiniteSets

CONSTANTS MaxRecords, \* records the services write, one unit of length each
          Chunk,      \* logHistoryBytes in these units
          MaxFiles    \* files the log goes through

ASSUME LogAssumption == MaxRecords \in Nat /\ Chunk \in Nat \ {0} /\ MaxFiles \in Nat \ {0}

VARIABLES ends,     \* ends[i]: the last record written to the i-th file
          reader,   \* what the viewer does next
          open,     \* the file it has open (0: none) and the last record it read of it
          primed,   \* the cursor is initialized: a file it opens is new output
          statted,  \* the file the name was when it last asked, 0 if there was none
          goal,     \* the boundary, the view, or the excerpt
          shown,    \* records shown, in order
          boundary, \* the last record written when the view began
          excused   \* records a bounded viewer cannot get: see Rotate

logVars == <<ends, reader, open, primed, statted, goal, shown, boundary, excused>>

Written == IF ends = <<>> THEN 0 ELSE ends[Len(ends)]
Begins(i) == IF i = 1 THEN 0 ELSE ends[i - 1]
SizeOf(i) == ends[i] - Begins(i)
Bigger(a, b) == IF a > b THEN a ELSE b
Smaller(a, b) == IF a < b THEN a ELSE b

LogTypeOK ==
  /\ ends \in Seq(0..MaxRecords) /\ Len(ends) <= MaxFiles
  /\ reader \in {"idle", "statted", "opens", "reads", "ended"}
  /\ open \in [file : 0..MaxFiles, at : 0..MaxRecords] /\ primed \in BOOLEAN
  /\ statted \in 0..MaxFiles /\ goal \in {"boundary", "view", "excerpt"}
  /\ shown \in Seq(1..MaxRecords) /\ boundary \in 0..MaxRecords
  /\ excused \subseteq 1..MaxRecords

\* Earlier operations may have left a log.
LogInit ==
  /\ ends \in {<<>>} \cup {<<n>> : n \in 0..(MaxRecords - 1)}
  /\ reader = "idle" /\ open = [file |-> 0, at |-> 0] /\ primed = FALSE /\ statted = 0
  /\ goal = "boundary" /\ shown = <<>> /\ boundary = 0 /\ excused = {}

----------------------------------------------------------------------------
\* Process Compose: the first record creates the file; rotation gives it another
\* name and starts a new one.  What is unread beyond one chunk of the file the
\* viewer has open, or anything in a file it has not opened, is beyond it.
WriteRecord ==
  /\ Written < MaxRecords
  /\ ends' = IF ends = <<>> THEN <<1>> ELSE [ends EXCEPT ![Len(ends)] = @ + 1]
  /\ UNCHANGED <<reader, open, primed, statted, goal, shown, boundary, excused>>
Rotate ==
  LET i == Len(ends) IN
  /\ i \in 1..(MaxFiles - 1) /\ ends' = Append(ends, ends[i])
  /\ excused' = excused \cup
       ((IF open.file = i THEN open.at + Chunk ELSE Begins(i)) + 1)..ends[i]
  /\ UNCHANGED <<reader, open, primed, statted, goal, shown, boundary>>

----------------------------------------------------------------------------
Show(from, to) ==
  shown' = IF goal = "boundary" THEN shown
           ELSE shown \o [i \in 1..(to - from) |-> from + i]
\* liveLogCursors: what was read so far is dropped, what comes is new.
Reads(to) ==
  /\ open' = [open EXCEPT !.at = to]
  /\ IF goal = "boundary"
     THEN goal' = "view" /\ primed' = TRUE /\ reader' = "idle" /\ boundary' = to
     ELSE /\ reader' = IF goal = "excerpt" THEN "ended" ELSE "idle"
          /\ UNCHANGED <<goal, primed, boundary>>

\* logCursor.copy asks what the name is now.
StatLog ==
  /\ reader = "idle" /\ statted' = Len(ends)
  /\ IF ends # <<>> THEN reader' = "statted" /\ UNCHANGED <<goal, primed, boundary>>
     ELSE IF goal = "boundary"
     THEN goal' = "view" /\ primed' = TRUE /\ reader' = "idle" /\ boundary' = 0
     ELSE /\ reader' = IF goal = "excerpt" THEN "ended" ELSE "idle"
          /\ UNCHANGED <<goal, primed, boundary>>
  /\ UNCHANGED <<ends, open, shown, excused>>

\* Mutated form: a replaced file is closed at once.
Drained_Wrong == open.at
\* A replaced file is read once more, one chunk at most, before it is closed.
Drained == Smaller(open.at + Chunk, ends[open.file])

CompareLog ==
  /\ reader = "statted"
  /\ IF open.file = 0 \/ open.file = statted
     THEN /\ reader' = IF open.file = 0 THEN "opens" ELSE "reads"
          /\ UNCHANGED <<open, shown, primed>>
     ELSE /\ Show(open.at, Drained) /\ open' = [file |-> 0, at |-> 0] /\ reader' = "opens"
          /\ primed' = IF goal = "excerpt" THEN FALSE ELSE primed
  /\ UNCHANGED <<ends, statted, goal, boundary, excused>>

\* A file is entered near its end the first time, at its beginning later.
Entered(i) == IF primed THEN Begins(i) ELSE Bigger(Begins(i), ends[i] - Chunk)

\* The file opened may be newer than the one the name was.
OpenLog ==
  LET i == Len(ends) IN
  /\ reader = "opens" /\ reader' = "reads" /\ open' = [file |-> i, at |-> Entered(i)]
  /\ primed' = TRUE
  /\ UNCHANGED <<ends, statted, goal, shown, boundary, excused>>
ReadLog ==
  LET to == Smaller(open.at + Chunk, ends[open.file]) IN
  /\ reader = "reads" /\ Show(open.at, to) /\ Reads(to)
  /\ UNCHANGED <<ends, statted, excused>>

\* Mutated form: the excerpt starts one chunk before the end, wherever the view began.
Latest_Wrong == IF open.file = 0 THEN 0 ELSE Bigger(Begins(open.file), ends[open.file] - Chunk)
\* logCursor.latest goes on to the end of the open file, never back.
Latest == IF open.file = 0 THEN 0 ELSE Bigger(open.at, ends[open.file] - Chunk)

\* The acquisition failed: the excerpt instead of the view.
AskExcerpt ==
  /\ goal = "view" /\ reader = "idle" /\ shown = <<>> /\ goal' = "excerpt"
  /\ open' = [open EXCEPT !.at = Latest] /\ primed' = (open.file # 0)
  /\ UNCHANGED <<ends, reader, statted, shown, boundary, excused>>

LogNext ==
  WriteRecord \/ Rotate \/ StatLog \/ CompareLog \/ OpenLog \/ ReadLog \/ AskExcerpt
LogSpec == LogInit /\ [][LogNext]_logVars

----------------------------------------------------------------------------
Shown == {shown[i] : i \in DOMAIN shown}
\* Output is shown once, in order, and none of an earlier operation, whatever is
\* rotated between any two looks at the file.
NothingIsReplayed ==
  /\ \A i, j \in DOMAIN shown : i < j => shown[i] < shown[j]
  /\ \A i \in DOMAIN shown : shown[i] > boundary

\* Between two looks, the view has everything up to where it is, but for what a
\* rotation took away while more than one chunk was unread.
NothingIsSkipped ==
  (goal = "view" /\ open.file # 0 /\ reader # "opens")
    => ((boundary + 1)..open.at) \ Shown \subseteq excused
=============================================================================
