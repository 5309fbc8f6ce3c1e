--------------------------- MODULE CandidateExport ---------------------------
(***************************************************************************)
(* An update exported instead of applied (src/scripts/candidate_export.py,  *)
(* its phases in update_staging.py, source_workflow.py and the bootstrap    *)
(* shell).  The export directory always holds a result.json that another    *)
(* program may check at any time: the worker may have been interrupted or   *)
(* killed between any two writes, and processes of a resolver or a verifier *)
(* may go on writing to the candidate.                                      *)
(***************************************************************************)
EXTENDS Integers, FiniteSets

CONSTANTS ExportFiles, \* files of the candidate that the update may change
          MaxWrites    \* writes to the candidate outside the resolver

ASSUME ExportAssumption == MaxWrites \in Nat

VARIABLES flow,         \* "source" or "consumer": who runs the phases
          run,          \* the worker: its phase, place in it, code it ends with
          request,      \* control/export.json: the recorded stage, or "none"
          resultFile,   \* result.json: outcome, stage, exit code, has a snapshot
          snapshot,     \* snapshot.json: output contents, or Absent
          blobs,        \* contents stored for each output
          snapshotMark, \* control/export-snapshot: the snapshot is accepted
          tree,         \* the candidate's files
          inspected,    \* the files as inspect saw them
          verdict,      \* what verification returned, and the files it ended on
          writes

exportVars == <<flow, run, request, resultFile, snapshot, blobs, snapshotMark, tree, inspected,
                verdict, writes>>

ExportStages == {"none", "preparation", "resolution", "inspection", "verification", "complete"}
Outcomes == {"none", "verified_success", "complete_no_change", "accepted_verification_failed",
             "failure_before_acceptance", "unsupported", "interrupted_or_unknown"}
Successes == {"verified_success", "complete_no_change"}
Interrupts == {130, 137, 143}
NoCode == -1
Base == [f \in ExportFiles |-> 0]
NoFiles == [f \in ExportFiles |-> -1]
\* 0 as in the base, 1 written by the resolver, above by a stray process.
Bodies == -1..(MaxWrites + 1)

ExportTypeOK ==
  /\ flow \in {"source", "consumer"}
  /\ run \in [phase : ExportStages, code : 0..143, unsupported : BOOLEAN, seen : Outcomes,
              at : {"request", "record", "work", "read", "store", "publish", "accept",
                    "judge", "write", "exit", "killed"}]
  /\ request \in ExportStages
  /\ resultFile \in [outcome : Outcomes, stage : ExportStages, code : NoCode..143,
                     accepted : BOOLEAN]
  /\ snapshot \in [ExportFiles -> Bodies] /\ blobs \in [ExportFiles -> Bodies]
  /\ snapshotMark \in BOOLEAN /\ tree \in [ExportFiles -> Bodies]
  /\ inspected \in [ExportFiles -> Bodies]
  /\ verdict \in [code : {NoCode, 0, 1}, tree : [ExportFiles -> Bodies]]
  /\ writes \in 0..MaxWrites

\* An export takes no --force, --no-verify, resume or commit control, so that
\* the flow below is the only one.
ExportInit ==
  /\ flow \in {"source", "consumer"}
  /\ run = [phase |-> "preparation", code |-> 0, unsupported |-> FALSE, seen |-> "none",
            at |-> "request"]
  /\ request = "none" /\ snapshot = NoFiles /\ blobs = NoFiles /\ snapshotMark = FALSE
  /\ resultFile = [outcome |-> "none", stage |-> "none", code |-> NoCode, accepted |-> FALSE]
  /\ tree = Base /\ inspected = NoFiles /\ verdict = [code |-> NoCode, tree |-> NoFiles]
  /\ writes = 0

----------------------------------------------------------------------------
In(phase, at) == run.phase = phase /\ run.at = at
Ends(code) == run' = [run EXCEPT !.at = "judge", !.code = code]
Enters(phase) == run' = [run EXCEPT !.phase = phase, !.at = "request"]

\* write_result: the accepted snapshot is read again, and its blobs with it.
SnapshotReads == snapshotMark => snapshot # NoFiles /\ blobs = snapshot
ResultOf(outcome, code) ==
  [outcome |-> outcome, stage |-> request, code |-> code, accepted |-> snapshotMark]

\* Mutated form: a phase records the failure it would end with.
StageResult_Wrong == ResultOf("failure_before_acceptance", 1)

\* Until the worker ends, the result is that nothing is known of its end.
StageResult == ResultOf("interrupted_or_unknown", NoCode)

\* start and stage: the request first, the result after it.
RecordRequest ==
  /\ run.at = "request" /\ request' = run.phase /\ run' = [run EXCEPT !.at = "record"]
  /\ UNCHANGED <<flow, resultFile, snapshot, blobs, snapshotMark, tree, inspected, verdict,
                 writes>>
RecordResult ==
  /\ run.at = "record"
  /\ IF SnapshotReads THEN resultFile' = StageResult /\ run' = [run EXCEPT !.at = "work"]
                      ELSE UNCHANGED resultFile /\ Ends(1)
  /\ UNCHANGED <<flow, request, snapshot, blobs, snapshotMark, tree, inspected, verdict, writes>>

\* A phase that fails ends the worker; so does a signal it handles.
PhaseFails ==
  /\ run.at \in {"work", "read", "store"} /\ Ends(1)
  /\ UNCHANGED <<flow, request, resultFile, snapshot, blobs, snapshotMark, tree, inspected,
                 verdict, writes>>

Preparation ==
  /\ In("preparation", "work") /\ Enters("resolution")
  /\ UNCHANGED <<flow, request, resultFile, snapshot, blobs, snapshotMark, tree, inspected,
                 verdict, writes>>
Resolution ==
  /\ In("resolution", "work") /\ Enters("inspection")
  /\ \E W \in SUBSET ExportFiles : tree' = [f \in ExportFiles |-> IF f \in W THEN 1 ELSE tree[f]]
  /\ UNCHANGED <<flow, request, resultFile, snapshot, blobs, snapshotMark, inspected, verdict,
                 writes>>
\* inspect, then the first checks of capture.
Inspection ==
  /\ In("inspection", "work") /\ inspected' = tree /\ run' = [run EXCEPT !.at = "read"]
  /\ UNCHANGED <<flow, request, resultFile, snapshot, blobs, snapshotMark, tree, verdict, writes>>

\* Policy evidence that cannot be exported ends the worker as unsupported.
Unsupported ==
  /\ In("inspection", "read")
  /\ run' = [run EXCEPT !.at = "judge", !.code = 1, !.unsupported = TRUE]
  /\ UNCHANGED <<flow, request, resultFile, snapshot, blobs, snapshotMark, tree, inspected,
                 verdict, writes>>

\* capture: each output is listed, then stored under its digest.
ReadOutput(f) ==
  /\ In("inspection", "read") /\ snapshot[f] = -1 /\ snapshot' = [snapshot EXCEPT ![f] = tree[f]]
  /\ run' = IF \A g \in ExportFiles \ {f} : snapshot[g] # -1
            THEN [run EXCEPT !.at = "store"] ELSE run
  /\ UNCHANGED <<flow, request, resultFile, blobs, snapshotMark, tree, inspected, verdict,
                 writes>>
StoreBlob(f) ==
  /\ In("inspection", "store") /\ blobs[f] = -1
  /\ IF tree[f] = snapshot[f]
     THEN /\ blobs' = [blobs EXCEPT ![f] = tree[f]]
          /\ run' = IF \A g \in ExportFiles \ {f} : blobs[g] # -1
                    THEN [run EXCEPT !.at = "publish"] ELSE run
     ELSE UNCHANGED blobs /\ Ends(1)
  /\ UNCHANGED <<flow, request, resultFile, snapshot, snapshotMark, tree, inspected, verdict,
                 writes>>

\* Mutated form: nothing is compared again after the outputs were read.
CaptureHolds_Wrong == TRUE

\* The candidate is still the inspected one, now that its outputs were read.
CaptureHolds == tree = inspected

\* snapshot.json is complete before the marker that accepts it.
PublishSnapshot ==
  /\ In("inspection", "publish")
  /\ IF CaptureHolds THEN run' = [run EXCEPT !.at = "accept"] ELSE Ends(1)
  /\ UNCHANGED <<flow, request, resultFile, snapshot, blobs, snapshotMark, tree, inspected,
                 verdict, writes>>
AcceptSnapshot ==
  /\ In("inspection", "accept") /\ snapshotMark' = TRUE /\ Enters("verification")
  /\ UNCHANGED <<flow, request, resultFile, snapshot, blobs, tree, inspected, verdict, writes>>

\* The gates run unless nothing changed; a failing one ends the worker.
Verification ==
  /\ In("verification", "work")
  /\ \E code \in IF inspected = Base THEN {0} ELSE {0, 1} :
       verdict' = [code |-> code, tree |-> tree] /\ Ends(code)
  /\ UNCHANGED <<flow, request, resultFile, snapshot, blobs, snapshotMark, tree, inspected,
                 writes>>

\* check, as the reader of an export makes it.
Checks ==
  LET o == resultFile.outcome IN
  /\ resultFile.accepted => snapshot # NoFiles /\ blobs = snapshot
  /\ o \in Successes => resultFile.accepted /\ resultFile.code = 0 /\ resultFile.stage = "complete"
  /\ o = "accepted_verification_failed" =>
       resultFile.accepted /\ resultFile.code \notin {NoCode,
                                                      0} /\ resultFile.stage = "verification"
  /\ o \in {"failure_before_acceptance", "unsupported"} =>
       ~resultFile.accepted /\ resultFile.code \notin {NoCode, 0}
  /\ o = "complete_no_change" => snapshot = Base
  /\ o = "verified_success" => snapshot # Base

----------------------------------------------------------------------------
\* Mutated form: success is what the gates said.
StillCaptured_Wrong == TRUE

\* finish: the candidate the gates passed on is still the captured one.
StillCaptured == tree = inspected

\* Mutated form: an interruption after acceptance counts as a failed verification.
OutcomeOf_Wrong ==
  CASE snapshotMark /\ request = "verification" /\ run.code # 0 -> "accepted_verification_failed"
    [] snapshotMark /\ request = "verification" /\ run.code = 0 /\ StillCaptured ->
         (IF inspected # Base THEN "verified_success" ELSE "complete_no_change")
    [] OTHER -> "interrupted_or_unknown"

\* finish: what the end of the worker means for the export.
OutcomeOf ==
  CASE run.code \in Interrupts -> "interrupted_or_unknown"
    [] run.code \notin Interrupts /\ ~snapshotMark ->
         (IF run.unsupported THEN "unsupported" ELSE "failure_before_acceptance")
    [] run.code \notin Interrupts /\ snapshotMark /\ request # "verification" -> "interrupted_or_unknown"
    [] run.code \notin Interrupts /\ snapshotMark /\ request = "verification" ->
         IF run.code # 0 \/ ~StillCaptured THEN "accepted_verification_failed"
         ELSE IF inspected # Base THEN "verified_success" ELSE "complete_no_change"

\* Without a request there is nothing to report.
FinishUnrequested ==
  /\ run.at = "judge" /\ request = "none" /\ run' = [run EXCEPT !.at = "exit"]
  /\ UNCHANGED <<flow, request, resultFile, snapshot, blobs, snapshotMark, tree, inspected,
                 verdict, writes>>
\* The outcome is found, and a success is recorded as the request's last stage.
FinishExport ==
  /\ run.at = "judge" /\ request # "none"
  /\ run' = [run EXCEPT !.at = "write", !.seen = OutcomeOf,
               !.code = IF run.code = 0 /\ OutcomeOf \notin Successes THEN 1 ELSE run.code]
  /\ request' = IF OutcomeOf \in Successes THEN "complete" ELSE request
  /\ UNCHANGED <<flow, resultFile, snapshot, blobs, snapshotMark, tree, inspected, verdict,
                 writes>>
WriteResult ==
  /\ run.at = "write" /\ run' = [run EXCEPT !.at = "exit"]
  /\ resultFile' = IF SnapshotReads THEN ResultOf(run.seen, run.code) ELSE resultFile
  /\ UNCHANGED <<flow, request, snapshot, blobs, snapshotMark, tree, inspected, verdict, writes>>

\* A handled signal ends the phase.  The shell has given up its traps when it
\* finishes; Python may be interrupted there too, and finishes a second time.
Signalled ==
  /\ \E code \in {130, 143} :
       /\ \/ run.at \in {"request", "record", "work", "read", "store", "publish", "accept"}
          \/ flow = "source" /\ code = 130 /\ run.at = "write"
       /\ flow = "source" => code = 130
       /\ Ends(code)
  /\ UNCHANGED <<flow, request, resultFile, snapshot, blobs, snapshotMark, tree, inspected,
                 verdict, writes>>
WorkerDies ==
  /\ run.at \notin {"exit", "killed"} /\ run' = [run EXCEPT !.at = "killed"]
  /\ UNCHANGED <<flow, request, resultFile, snapshot, blobs, snapshotMark, tree, inspected,
                 verdict, writes>>
LateWrite(f) ==
  /\ writes < MaxWrites /\ writes' = writes + 1 /\ request # "none"
  /\ tree' = [tree EXCEPT ![f] = writes + 2]
  /\ UNCHANGED <<flow, run, request, resultFile, snapshot, blobs, snapshotMark, inspected,
                 verdict>>

ExportNext ==
  \/ RecordRequest \/ RecordResult \/ PhaseFails \/ Preparation \/ Resolution \/ Inspection
  \/ Unsupported \/ PublishSnapshot \/ AcceptSnapshot \/ Verification \/ FinishUnrequested
  \/ FinishExport \/ WriteResult \/ Signalled \/ WorkerDies
  \/ \E f \in ExportFiles : ReadOutput(f) \/ StoreBlob(f) \/ LateWrite(f)
ExportSpec == ExportInit /\ [][ExportNext]_exportVars

----------------------------------------------------------------------------
\* Whenever the directory is looked at, its result is one that candidate-check
\* accepts: the outcome agrees with the stage, the code and the snapshot.
ResultChecks == resultFile.outcome # "none" => Checks

\* What is accepted is what was inspected, never a mixture with what a process
\* left behind wrote while the outputs were read.
AcceptedIsInspected == snapshotMark => snapshot = inspected /\ blobs = inspected

\* A success on disk was verified: the gates passed, and on the exported files.
SuccessIsVerified ==
  resultFile.outcome \in Successes => verdict.code = 0 /\ verdict.tree = snapshot

\* A worker that was interrupted says nothing about the candidate: the end it
\* records is never a verdict of the gates, whatever it had reached.
InterruptedIsUnknown ==
  resultFile.code \in Interrupts => resultFile.outcome = "interrupted_or_unknown"

\* Whenever an export is read, also after its worker was killed, it is consistent,
\* and says of the candidate only what was inspected and verified.
ExportsAreTrue ==
  /\ ResultChecks /\ AcceptedIsInspected /\ SuccessIsVerified /\ InterruptedIsUnknown
=============================================================================
