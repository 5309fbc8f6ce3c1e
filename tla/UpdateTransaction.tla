------------------------- MODULE UpdateTransaction -------------------------
(***************************************************************************)
(* One dependency update of a repository (src/scripts/update_staging.py,    *)
(* updates.py): outputs are resolved and verified in a disposable candidate *)
(* and only then applied to the original checkout and committed.  The       *)
(* original belongs to its user, who edits, stages and commits at any step; *)
(* processes left behind by a resolver or verifier may still write to the   *)
(* candidate; the worker may be killed anywhere and the candidate resumed.  *)
(***************************************************************************)
EXTENDS Integers, FiniteSets

CONSTANTS Outputs,      \* files an update may change
          Sources,      \* other files of the repository
          MaxUserEdits, \* edits, stagings and commits of the user
          MaxStray,     \* writes to the candidate outside the update's phases
          MaxKills      \* times the worker is killed or the candidate resumed

ASSUME UpdateAssumption == MaxUserEdits \in Nat /\ MaxStray \in Nat /\ MaxKills \in Nat

VARIABLES worker,    \* the update: its place, options, verification result
          orig,      \* working files of the original
          index,     \* its Git index
          head,      \* the commit its branch names
          candidate, \* the candidate's files; whether its Git data was touched
          saved,     \* control/state.json: head and files at the start, inspection
          frozen,    \* outputs read before the original is written
          wanted,    \* the entries the commit must have
          made,      \* the commit object the update made
          verified,  \* the candidate that verification (or its waiver) was about
          userEdits, strays, kills

updateVars == <<worker, orig, index, head, candidate, saved, frozen, wanted, made,
                verified, userEdits, strays, kills>>

Files == Outputs \cup Sources
Tree0 == [f \in Files |-> 0]
NoTree == [f \in Files |-> -1]
\* 0 as at the start, 1 written by an updater, 2 by the user, 3 by a stray process.
Content == -1..3
Finished == {"done", "failed", "dead"}
Stages == {"idle", "resolve", "inspect", "verify", "verifying", "freeze", "recheck", "apply",
           "applied", "entries", "add", "commit", "advance", "confirm"} \cup Finished

UpdateTypeOK ==
  /\ worker \in [pc : Stages, how : {"verify", "force", "skip"}, code : {0, 1, 130},
                 end : {"preview", "apply", "commit"}]
  /\ orig \in [Files -> Content] /\ index \in [Files -> Content]
  /\ head \in [id : 0..2, tree : [Files -> Content]]
  /\ candidate \in [files : [Files -> Content], git : BOOLEAN]
  /\ saved \in [exists : BOOLEAN, id : 0..2, before : [Files -> Content],
                index : [Files -> Content], inspected : [Files -> Content]]
  /\ frozen \in [Files -> Content] /\ wanted \in [Files -> Content]
  /\ made \in [parent : -1..2, tree : [Files -> Content]] /\ verified \in [Files -> Content]
  /\ userEdits \in 0..MaxUserEdits /\ strays \in 0..MaxStray /\ kills \in 0..MaxKills

\* Options, as the command line and every later checkpoint agree on them.
WorkerChoices == [pc : {"idle"}, how : {"verify", "force", "skip"}, code : {0},
            end : {"preview", "apply", "commit"}]

UpdateInit ==
  /\ worker \in WorkerChoices
  /\ orig = Tree0 /\ index = Tree0 /\ head = [id |-> 0, tree |-> Tree0]
  /\ candidate = [files |-> Tree0, git |-> FALSE]
  /\ saved = [exists |-> FALSE, id |-> 0, before |-> Tree0, index |-> Tree0,
              inspected |-> NoTree]
  /\ frozen = NoTree /\ wanted = NoTree /\ made = [parent |-> -1, tree |-> NoTree]
  /\ verified = NoTree /\ userEdits = 0 /\ strays = 0 /\ kills = 0

----------------------------------------------------------------------------
At(pc) == worker.pc = pc
To(pc) == worker' = [worker EXCEPT !.pc = pc]
Clean == orig = head.tree /\ index = head.tree

\* unchanged: the original is as prepare saw it, branch, index and files.
Unchanged == head.id = saved.id /\ index = saved.index /\ orig = saved.before
ChangedPaths == {f \in Files : saved.inspected[f] # saved.before[f]}
Expected == [f \in Files |-> IF f \in ChangedPaths THEN saved.inspected[f] ELSE saved.before[f]]

\* copy_submodule: the candidate of a commit, from Git objects and not from the
\* working files; prepare_preview: of the files as they are.  Both own their Git.
CopyCommit == [files |-> head.tree, git |-> FALSE]
CopyPreview == [files |-> orig, git |-> FALSE]
\* State: what later phases are compared with; no inspection yet.
Checkpoint == [exists |-> TRUE, id |-> head.id, before |-> orig, index |-> index,
               inspected |-> NoTree]

\* prepare: a clean checkout, unless for a preview, and its copy.
Prepare ==
  /\ At("idle")
  /\ IF worker.end # "preview" /\ ~Clean
     THEN To("failed") /\ UNCHANGED <<candidate, saved>>
     ELSE /\ To("resolve") /\ saved' = Checkpoint
          /\ candidate' = IF worker.end = "preview" THEN CopyPreview ELSE CopyCommit
  /\ UNCHANGED <<orig, index, head, frozen, wanted, made, verified, userEdits, strays, kills>>

\* Resolvers and reconcile tasks run on the candidate; they may fail, write what
\* they must not, or touch its Git data.
ResolveCandidate ==
  /\ At("resolve")
  /\ \/ To("failed") /\ UNCHANGED candidate
     \/ /\ To("inspect")
        /\ \E W \in SUBSET Files, touched \in BOOLEAN :
             candidate' = [files |-> [f \in Files |-> IF f \in W THEN 1 ELSE candidate.files[f]],
                      git |-> candidate.git \/ touched]
  /\ UNCHANGED <<orig, index, head, saved, frozen, wanted, made, verified, userEdits, strays,
                 kills>>

\* inspect: both checkouts unchanged where they must be, outputs all declared.
InspectCandidate ==
  LET paths == {f \in Files : candidate.files[f] # saved.before[f]} IN
  /\ At("inspect")
  /\ IF ~Unchanged \/ candidate.git \/ ~(paths \subseteq Outputs)
     THEN To("failed") /\ UNCHANGED <<saved, verified>>
     ELSE /\ worker' = [worker EXCEPT !.code = 0,
                          !.pc = IF paths = {} \/ worker.how = "skip" THEN "freeze" ELSE "verify"]
          /\ saved' = [saved EXCEPT !.inspected = candidate.files]
          /\ verified' = candidate.files
  /\ UNCHANGED <<orig, index, head, candidate, frozen, wanted, made, userEdits, strays, kills>>

\* The gates run on the candidate as they find it.
BeginVerify ==
  /\ At("verify") /\ To("verifying") /\ verified' = candidate.files
  /\ UNCHANGED <<orig, index, head, candidate, saved, frozen, wanted, made, userEdits, strays,
                 kills>>

\* Mutated form: a forced update also goes on after an interrupted verification.
MayForce_Wrong(code) == worker.how = "force"

\* --force lets only an ordinary failure through.
MayForce(code) == worker.how = "force" /\ code < 128

EndVerify ==
  /\ At("verifying")
  /\ \E code \in {0, 1, 130} :
       worker' = [worker EXCEPT !.code = code,
                    !.pc = IF code = 0 \/ MayForce(code) THEN "freeze" ELSE "failed"]
  /\ UNCHANGED <<orig, index, head, candidate, saved, frozen, wanted, made, verified, userEdits,
                 strays, kills>>

\* Mutated form: the candidate is not compared again after its verification.
CandidateHolds_Wrong == TRUE

\* finalize: the candidate is still the inspected one.
CandidateHolds == ~candidate.git /\ candidate.files = saved.inspected

\* The outputs are read before anything is written in the original.
Freeze ==
  /\ At("freeze") /\ To(IF CandidateHolds THEN "recheck" ELSE "failed")
  /\ frozen' = [f \in Files |-> IF f \in ChangedPaths THEN candidate.files[f] ELSE -1]
  /\ UNCHANGED <<orig, index, head, candidate, saved, wanted, made, verified, userEdits, strays,
                 kills>>
Recheckout ==
  /\ At("recheck")
  /\ To(IF ~Unchanged THEN "failed"
        ELSE IF worker.end = "preview" \/ ChangedPaths = {} THEN "done" ELSE "apply")
  /\ UNCHANGED <<orig, index, head, candidate, saved, frozen, wanted, made, verified, userEdits,
                 strays, kills>>

\* Mutated form: a destination is not looked at again before it is replaced.
StillOriginal_Wrong(f) == TRUE

\* The destination still has the content the update began with.
StillOriginal(f) == orig[f] = saved.before[f]

\* Outputs replace their destinations one by one.
ApplyOutput(f) ==
  /\ At("apply") /\ frozen[f] # -1
  /\ IF StillOriginal(f)
     THEN /\ orig' = [orig EXCEPT ![f] = frozen[f]]
          /\ frozen' = [frozen EXCEPT ![f] = -1] /\ UNCHANGED worker
     ELSE To("failed") /\ UNCHANGED <<orig, frozen>>
  /\ UNCHANGED <<index, head, candidate, saved, wanted, made, verified, userEdits, strays, kills>>
EndApply ==
  /\ At("apply") /\ frozen = NoTree
  /\ To(IF orig # Expected THEN "failed"
        ELSE IF worker.end = "commit" THEN "applied" ELSE "done")
  /\ UNCHANGED <<orig, index, head, candidate, saved, frozen, wanted, made, verified, userEdits,
                 strays, kills>>

----------------------------------------------------------------------------
\* commit_verified: nothing moved and nothing is staged.
BeginCommit ==
  /\ At("applied")
  /\ To(IF head.id = saved.id /\ orig = Expected /\ index = head.tree
        THEN "entries" ELSE "failed")
  /\ UNCHANGED <<orig, index, head, candidate, saved, frozen, wanted, made, verified, userEdits,
                 strays, kills>>
ReadEntries ==
  /\ At("entries") /\ To("add") /\ wanted' = orig
  /\ UNCHANGED <<orig, index, head, candidate, saved, frozen, made, verified, userEdits, strays,
                 kills>>

\* Mutated form: the tree is committed as the index holds it.
StagedHolds_Wrong(staged) == TRUE

\* The staged tree is the expected one, and the working files still are.
StagedHolds(staged) == staged = wanted /\ orig = Expected /\ head.id = saved.id

\* `git add` of the outputs, and of them alone; then the tree is written.
StageOutputs ==
  LET staged == [f \in Files |-> IF f \in ChangedPaths THEN orig[f] ELSE index[f]] IN
  /\ At("add") /\ index' = staged
  /\ IF StagedHolds(staged)
     THEN To("commit") /\ made' = [parent |-> saved.id, tree |-> staged]
     ELSE To("failed") /\ UNCHANGED made
  /\ UNCHANGED <<orig, head, candidate, saved, frozen, wanted, verified, userEdits, strays,
                 kills>>
CheckCommit ==
  /\ At("commit")
  /\ To(IF StagedHolds(index) /\ index = made.tree THEN "advance" ELSE "failed")
  /\ UNCHANGED <<orig, index, head, candidate, saved, frozen, wanted, made, verified, userEdits,
                 strays, kills>>

\* Mutated form: the branch is set, whatever it names by now.
BranchHolds_Wrong == TRUE

\* `git update-ref branch commit head` compares and swaps.
BranchHolds == head.id = saved.id

AdvanceBranch ==
  /\ At("advance")
  /\ IF BranchHolds THEN head' = [id |-> 2, tree |-> made.tree] /\ To("confirm")
     ELSE To("failed") /\ UNCHANGED head
  /\ UNCHANGED <<orig, index, candidate, saved, frozen, wanted, made, verified, userEdits,
                 strays, kills>>
Confirm ==
  /\ At("confirm") /\ To(IF head.id = 2 /\ Clean THEN "done" ELSE "failed")
  /\ UNCHANGED <<orig, index, head, candidate, saved, frozen, wanted, made, verified, userEdits,
                 strays, kills>>

----------------------------------------------------------------------------
WorkerKilled ==
  /\ worker.pc \notin Finished \cup {"idle"} /\ kills < MaxKills /\ kills' = kills + 1
  /\ To("dead")
  /\ UNCHANGED <<orig, index, head, candidate, saved, frozen, wanted, made, verified, userEdits,
                 strays>>

\* resume: same original, the earlier inspection is forgotten, the edited
\* candidate is audited from the start.
Resume ==
  /\ worker.pc \in {"dead", "failed"} /\ saved.exists /\ Unchanged /\ ~candidate.git
  /\ kills < MaxKills /\ kills' = kills + 1 /\ To("inspect")
  /\ saved' = [saved EXCEPT !.inspected = NoTree]
  /\ UNCHANGED <<orig, index, head, candidate, frozen, wanted, made, verified, userEdits, strays>>

\* The user of the original, and whoever still writes to the candidate.
EditsFile(f) ==
  /\ userEdits < MaxUserEdits /\ userEdits' = userEdits + 1 /\ orig[f] # 2 /\ orig' = [orig EXCEPT ![f] = 2]
  /\ UNCHANGED <<worker, index, head, candidate, saved, frozen, wanted, made, verified, strays,
                 kills>>
StagesFile(f) ==
  /\ userEdits < MaxUserEdits /\ userEdits' = userEdits + 1 /\ index' = [index EXCEPT ![f] = orig[f]]
  /\ UNCHANGED <<worker, orig, head, candidate, saved, frozen, wanted, made, verified, strays,
                 kills>>
CommitsAll ==
  /\ userEdits < MaxUserEdits /\ userEdits' = userEdits + 1 /\ head.id = 0
  /\ head' = [id |-> 1, tree |-> orig] /\ index' = orig
  /\ UNCHANGED <<worker, orig, candidate, saved, frozen, wanted, made, verified, strays, kills>>
StrayWrite(f) ==
  /\ strays < MaxStray /\ strays' = strays + 1 /\ saved.exists
  /\ candidate' = [candidate EXCEPT !.files[f] = 3]
  /\ UNCHANGED <<worker, orig, index, head, saved, frozen, wanted, made, verified, userEdits,
                 kills>>

UpdateNext ==
  \/ Prepare \/ ResolveCandidate \/ InspectCandidate \/ BeginVerify \/ EndVerify \/ Freeze \/ Recheckout
  \/ EndApply \/ BeginCommit \/ ReadEntries \/ StageOutputs \/ CheckCommit
  \/ AdvanceBranch \/ Confirm \/ WorkerKilled \/ Resume \/ CommitsAll
  \/ \E f \in Files : \/ ApplyOutput(f) \/ EditsFile(f) \/ StagesFile(f) \/ StrayWrite(f)
UpdateSpec == UpdateInit /\ [][UpdateNext]_updateVars

----------------------------------------------------------------------------
\* Whatever lands on the branch is what was judged: the outputs as verification
\* found them on top of the commit the update began from, with no edit, staging
\* or stray write of anybody in between.
CommittedIsJudged ==
  head.id = 2 =>
    head.tree = [f \in Files |-> IF f \in Outputs THEN verified[f] ELSE saved.before[f]]

\* An edit made to a destination after the update began is never replaced.
EditsSurvive ==
  [][\A f \in Files : orig[f] = 2 /\ saved.before[f] # 2 => orig'[f] = 2]_updateVars

\* A commit of the user is never dropped from the branch.
CommitsSurvive == [][head.id # 2 /\ head'.id = 2 => made.parent = head.id]_updateVars

\* A verification that was interrupted is never applied, forced or not.
InterruptedIsNotApplied ==
  worker.code = 130 => worker.pc \notin {"recheck", "apply", "applied", "advance", "confirm"}

\* What an update applies or commits is what its gates judged, and no edit, staging
\* or commit made meanwhile is overwritten.
UpdatesAreJudged ==
  /\ [](CommittedIsJudged /\ InterruptedIsNotApplied)
  /\ EditsSurvive /\ CommitsSurvive
=============================================================================
