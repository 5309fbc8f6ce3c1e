----------------------------- MODULE StagedFormat -----------------------------
(***************************************************************************)
(* The pre-commit formatter (src/nix/control/hook_format.go): what is       *)
(* staged is formatted in a snapshot, and the result put into the working   *)
(* files and the index at once.  The user goes on editing, staging and      *)
(* committing; the formatter may be killed at any step.                     *)
(***************************************************************************)
EXTENDS Integers, FiniteSets

CONSTANTS Staged,     \* files staged for the commit
          MaxChanges, \* edits, stagings and commits of the user
          MaxRuns     \* runs of the formatter

ASSUME FormatAssumption == MaxChanges \in Nat /\ MaxRuns \in Nat /\ "none" \notin Staged

VARIABLES fmt,     \* the formatter: its place
          work,    \* working files
          idx,     \* the Git index
          idxLock, \* index.lock: "free", "git", "fmt", or "stale"
          git,     \* a Git command of the user: "idle" or "busy", the index it read
          tip,     \* what HEAD names
          begun,   \* index, files and HEAD as the run read them
          output,  \* what the snapshot's formatter made of each file
          journal, \* files named by apply.json; NoJournal without it
          applied, \* files this run has replaced
          changes, runs

formatVars == <<fmt, work, idx, idxLock, git, tip, begun, output, journal, applied, changes,
                runs>>

\* A content is a text, raw or formatted.  Text 0 is the one staged at first.
Texts == 0..MaxChanges
Raw(t) == [text |-> t, clean |-> FALSE]
Formatted(c) == [text |-> c.text, clean |-> TRUE]
FileContents == [text : Texts, clean : BOOLEAN]
NoJournal == {"none"}
AllRaw == [f \in Staged |-> Raw(0)]
RunPlaces == {"idle", "read", "worker", "judge", "lock", "compare", "files", "journal",
              "apply", "rename", "settle", "unlock", "done", "failed", "killed"}

FormatTypeOK ==
  /\ fmt \in RunPlaces /\ idxLock \in {"free", "git", "fmt", "stale"}
  /\ work \in [Staged -> FileContents] /\ idx \in [Staged -> FileContents] /\ tip \in 0..MaxChanges
  /\ git \in [is : {"idle", "busy"}, idx : [Staged -> FileContents]]
  /\ begun \in [work : [Staged -> FileContents], idx : [Staged -> FileContents],
                tip : 0..MaxChanges]
  /\ output \in [Staged -> FileContents]
  /\ journal \in (SUBSET Staged) \cup {NoJournal} /\ applied \subseteq Staged
  /\ changes \in 0..MaxChanges /\ runs \in 0..MaxRuns

FormatInit ==
  /\ fmt = "idle" /\ idxLock = "free" /\ tip = 0
  /\ work \in [Staged -> {Raw(0), Formatted(Raw(0))}] /\ idx = work
  /\ git = [is |-> "idle", idx |-> idx]
  /\ begun = [work |-> work, idx |-> work, tip |-> 0] /\ output = AllRaw
  /\ journal = NoJournal /\ applied = {} /\ changes = 0 /\ runs = 0

----------------------------------------------------------------------------
Goes(from, to) == fmt = from /\ fmt' = to
\* Files whose formatting is to be applied.
Replaced == {f \in Staged : output[f] # begun.idx[f]}
Fails == fmt' = "failed" /\ idxLock' = IF idxLock = "fmt" THEN "free" ELSE idxLock

\* An operation and a serial lock of their own, then the index is read.  A run that
\* will find a journal uses nothing of it, and `begun' is what the journal keeps.
ReadIndex ==
  /\ fmt \in {"idle", "done", "failed", "killed"} /\ runs < MaxRuns /\ runs' = runs + 1
  /\ fmt' = "read"
  /\ IF journal = NoJournal
     THEN begun' = [work |-> work, idx |-> idx, tip |-> tip] /\ applied' = {}
     ELSE UNCHANGED <<begun, applied>>
  /\ UNCHANGED <<work, idx, idxLock, git, tip, output, journal, changes>>

\* Then the working files; the journal of an interrupted run is left for review.
ReadFiles ==
  /\ IF journal # NoJournal
     THEN fmt = "read" /\ Fails /\ UNCHANGED begun
     ELSE /\ Goes("read", "worker") /\ begun' = [begun EXCEPT !.work = work]
          /\ UNCHANGED idxLock
  /\ UNCHANGED <<work, idx, git, tip, output, journal, applied, changes, runs>>

\* The worker formats a snapshot of the index, all files or some.
Format ==
  /\ Goes("worker", "judge")
  /\ \E F \in SUBSET Staged :
       output' = [f \in Staged |-> IF f \in F THEN Formatted(begun.idx[f]) ELSE begun.idx[f]]
  /\ UNCHANGED <<work, idx, idxLock, git, tip, begun, journal, applied, changes, runs>>

\* What is staged of a file is all of it.
WhollyStaged(f) == begun.work[f] = begun.idx[f]

\* Nothing is applied when a file that needs formatting is only partly staged.
JudgeFormat ==
  /\ fmt = "judge"
  /\ IF \A f \in Replaced : WhollyStaged(f)
     THEN fmt' = (IF Replaced = {} THEN "done" ELSE "lock") /\ UNCHANGED idxLock
     ELSE Fails
  /\ UNCHANGED <<work, idx, git, tip, begun, output, journal, applied, changes, runs>>

\* Mutated form: the new index is prepared outside of Git's lock.
LocksIndex_Wrong == idxLock

\* Git's own lock, exclusively created; the new index is written into it.
LocksIndex == "fmt"

LockIndex ==
  /\ fmt = "lock"
  /\ IF idxLock = "free" THEN fmt' = "compare" /\ idxLock' = LocksIndex ELSE Fails
  /\ UNCHANGED <<work, idx, git, tip, begun, output, journal, applied, changes, runs>>

\* Under the lock nothing has changed: index and HEAD first, then the files.
CompareIndex ==
  /\ fmt = "compare"
  /\ IF idx = begun.idx /\ tip = begun.tip THEN fmt' = "files" /\ UNCHANGED idxLock ELSE Fails
  /\ UNCHANGED <<work, idx, git, tip, begun, output, journal, applied, changes, runs>>
CompareFiles ==
  /\ fmt = "files"
  /\ IF work = begun.work THEN fmt' = "journal" /\ UNCHANGED idxLock ELSE Fails
  /\ UNCHANGED <<work, idx, git, tip, begun, output, journal, applied, changes, runs>>

\* Mutated form: originals are kept for the files replaced so far.
Journalled_Wrong == {}

\* Originals and replacements of all files, named by apply.json.
Journalled == Replaced

WriteJournal ==
  /\ Goes("journal", "apply") /\ journal' = Journalled
  /\ UNCHANGED <<work, idx, idxLock, git, tip, begun, output, applied, changes, runs>>

\* Mutated form: the files were compared once already.
Unedited_Wrong(f) == TRUE

\* A file is compared again just before it is replaced.
Unedited(f) == work[f] = begun.work[f]

ApplyFile(f) ==
  /\ fmt = "apply" /\ f \in Replaced \ applied
  /\ IF Unedited(f)
     THEN /\ work' = [work EXCEPT ![f] = output[f]] /\ applied' = applied \cup {f}
          /\ fmt' = (IF Replaced \subseteq applied \cup {f} THEN "rename" ELSE "apply")
          /\ UNCHANGED idxLock
     ELSE Fails /\ UNCHANGED <<work, applied>>
  /\ UNCHANGED <<idx, git, tip, begun, output, journal, changes, runs>>

\* The lock file becomes the index; then the journal is dropped.
RenameIndex ==
  /\ Goes("rename", "settle") /\ idx' = output
  /\ idxLock' = IF idxLock = "fmt" THEN "free" ELSE idxLock
  /\ UNCHANGED <<work, git, tip, begun, output, journal, applied, changes, runs>>
DropJournal ==
  /\ Goes("settle", "unlock") /\ journal' = NoJournal
  /\ UNCHANGED <<work, idx, idxLock, git, tip, begun, output, applied, changes, runs>>

\* The deferred removal of index.lock, which was renamed away: whose ever it is.
RemoveLock ==
  /\ Goes("unlock", "done") /\ idxLock' = "free"
  /\ UNCHANGED <<work, idx, git, tip, begun, output, journal, applied, changes, runs>>

FormatterKilled ==
  /\ fmt \notin {"idle", "done", "failed", "killed"} /\ fmt' = "killed"
  /\ idxLock' = IF idxLock = "fmt" THEN "stale" ELSE idxLock
  /\ UNCHANGED <<work, idx, git, tip, begun, output, journal, applied, changes, runs>>

----------------------------------------------------------------------------
\* The user, with an editor and with Git, which locks
\* the index, reads it, and renames a new one over it.
UserEdits(f) ==
  /\ changes < MaxChanges /\ changes' = changes + 1 /\ work' = [work EXCEPT ![f] = Raw(changes + 1)]
  /\ UNCHANGED <<fmt, idx, idxLock, git, tip, begun, output, journal, applied, runs>>
GitLocks ==
  /\ git.is = "idle" /\ idxLock = "free" /\ changes < MaxChanges /\ changes' = changes + 1
  /\ idxLock' = "git" /\ git' = [is |-> "busy", idx |-> idx]
  /\ UNCHANGED <<fmt, work, idx, tip, begun, output, journal, applied, runs>>
\* Without its lock file a Git command cannot put its index in place.
GitLosesLock ==
  /\ git.is = "busy" /\ idxLock # "git" /\ git' = [git EXCEPT !.is = "idle"]
  /\ UNCHANGED <<fmt, work, idx, idxLock, tip, begun, output, journal, applied, changes, runs>>
GitStages(f) ==
  /\ git.is = "busy" /\ idxLock = "git" /\ idxLock' = "free"
  /\ git' = [git EXCEPT !.is = "idle"] /\ idx' = [git.idx EXCEPT ![f] = work[f]]
  /\ UNCHANGED <<fmt, work, tip, begun, output, journal, applied, changes, runs>>
GitCommits ==
  /\ git.is = "busy" /\ idxLock = "git" /\ idxLock' = "free"
  /\ git' = [git EXCEPT !.is = "idle"] /\ tip' = changes
  /\ UNCHANGED <<fmt, work, idx, begun, output, journal, applied, changes, runs>>
\* After an interrupted run: the user looks at what was kept, and removes it.
UserReviews ==
  /\ fmt \in {"killed", "failed"} /\ fmt' = "failed"
  /\ journal # NoJournal \/ idxLock = "stale" \/ fmt = "killed"
  /\ journal' = NoJournal /\ applied' = {}
  /\ idxLock' = IF idxLock = "stale" THEN "free" ELSE idxLock
  /\ work' = [f \in Staged |-> IF journal # NoJournal /\ f \in journal /\ work[f] = output[f]
                               THEN begun.work[f] ELSE work[f]]
  /\ UNCHANGED <<idx, git, tip, begun, output, changes, runs>>

FormatNext ==
  \/ ReadIndex \/ ReadFiles \/ Format \/ JudgeFormat \/ LockIndex \/ CompareIndex \/ CompareFiles
  \/ WriteJournal \/ RenameIndex \/ DropJournal \/ RemoveLock \/ FormatterKilled
  \/ GitLocks \/ GitLosesLock \/ GitCommits \/ UserReviews
  \/ \E f \in Staged : ApplyFile(f) \/ UserEdits(f) \/ GitStages(f)
FormatSpec == FormatInit /\ [][FormatNext]_formatVars

----------------------------------------------------------------------------
\* A text the user typed never leaves the working file but by another edit of
\* that file: formatting only ever cleans the text that is there.
EditsAreKept ==
  [][\A f \in Staged : work'[f].text # work[f].text => work'[f].text = changes']_formatVars

\* Formatting never takes a text out of the index or puts one in: what is staged
\* while the formatter runs is not replaced by what it had read.
StagingIsKept ==
  [][\A f \in Staged :
       idx'[f].text # idx[f].text => idx'[f] = work[f]]_formatVars

\* While some files are formatted and the index is not, the originals of all of
\* them are kept, and named, also when the run was killed or gave up.
HalfAppliedIsRecorded ==
  \A f \in applied : idx[f] = begun.idx[f] => journal # NoJournal /\ f \in journal

\* docs/hooks.md:151: "Git-owned locks are never removed."
GitLocksAreKept ==
  [][idxLock = "git" /\ idxLock' # "git" => git'.is = "idle"]_formatVars
=============================================================================
