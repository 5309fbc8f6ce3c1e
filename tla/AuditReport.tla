---------------------------- MODULE AuditReport ----------------------------
(***************************************************************************)
(* The vulnerability audit (src/scripts/dependency_audit.py).  Every        *)
(* directory of the selected adapters becomes a lane of the report.  A      *)
(* JavaScript lane's findings are reduced by the declared waivers, one      *)
(* waiver after the other, and a waiver that matches nothing is an error;   *)
(* a native scanner only says yes or no.                                    *)
(*                                                                          *)
(* Findings and waivers are of one advisory of one package.  Waivers of     *)
(* other advisories or packages never match these findings nor overlap      *)
(* these waivers.                                                           *)
(***************************************************************************)
EXTENDS Integers, Sequences, FiniteSets

CONSTANTS Version,   \* exact versions a lock may hold
          DepPath,   \* dependency paths
          Lanes,     \* number of directories
          MaxEntries \* bound on findings per lane and on waivers

ASSUME AuditAssumption ==
  /\ Lanes \in Nat /\ MaxEntries \in Nat
  /\ "unknown" \notin Version /\ "nowhere" \notin DepPath

VARIABLES step,      \* what runs, or how the audit ended
          waivers,   \* audits.exceptions of the adapter
          kind,      \* the scanner of each directory
          lane,      \* the directory in hand
          scanned,   \* its findings
          remaining, \* those no waiver has taken so far
          turn,      \* the waiver in hand
          laneRows   \* the report's lanes

auditVars == <<step, waivers, kind, lane, scanned, remaining, turn, laneRows>>

UpTo(n, S) == UNION {[1..k -> S] : k \in 0..n}
\* "unknown": the lock does not tell the installed version.
Findings == [version : Version \cup {"unknown"}, paths : SUBSET DepPath]
Reports == {found \in SUBSET Findings : Cardinality(found) <= MaxEntries}
\* A waiver without paths is for the package wherever it is.
Waivers == [versions : (SUBSET Version) \ {{}}, paths : SUBSET DepPath]
Rows == [status : {"passed", "failed", "unsupported"}, error : BOOLEAN, stale : 0..MaxEntries]
AuditTypeOK ==
  /\ step \in {"validates", "lane", "waives", "passed", "complete", "partial", "refused"}
  /\ waivers \in UpTo(MaxEntries, Waivers) /\ kind \in [1..Lanes -> {"javascript", "native",
                                                                     "none"}]
  /\ lane \in 1..Lanes + 1 /\ scanned \in Reports /\ remaining \subseteq Findings
  /\ turn \in 1..MaxEntries + 1 /\ laneRows \in UpTo(Lanes, Rows)

AuditInit ==
  /\ step = "validates" /\ waivers \in UpTo(MaxEntries, Waivers)
  /\ kind \in [1..Lanes -> {"javascript", "native", "none"}]
  /\ lane = 1 /\ scanned = {} /\ remaining = {} /\ turn = 1 /\ laneRows = <<>>

----------------------------------------------------------------------------
\* Two waivers may not take the same version on the same path.
Overlap_Wrong(v, w) == v = w \* Mutated form: only equal waivers are duplicates.
Overlap(v, w) == /\ v.versions \cap w.versions # {}
                 /\ v.paths = {} \/ w.paths = {} \/ v.paths \cap w.paths # {}
ValidateWaivers ==
  /\ step = "validates"
  /\ step' = IF \E i, j \in DOMAIN waivers : i < j /\ Overlap(waivers[i], waivers[j])
           THEN "refused" ELSE "lane"
  /\ UNCHANGED <<waivers, kind, lane, scanned, remaining, turn, laneRows>>

Row(status, error, stale) == [status |-> status, error |-> error, stale |-> stale]
EndLane(row) == /\ laneRows' = Append(laneRows, row) /\ lane' = lane + 1 /\ step' = "lane"
                /\ scanned' = {} /\ remaining' = {} /\ turn' = 1
                /\ UNCHANGED <<waivers, kind>>
InLane(k) == step = "lane" /\ lane <= Lanes /\ kind[lane] = k
SkipLane == InLane("none") /\ EndLane(Row("unsupported", FALSE, 0))
\* A scanner's nonzero exit may be findings or a failure of its own.
ScanNative == InLane("native") /\ \E ok \in BOOLEAN :
                EndLane(Row(IF ok THEN "passed" ELSE "failed", ~ok, 0))
\* The tool could not be run, or failed without findings, or its report is unreadable.
ScanFails == InLane("javascript") /\ EndLane(Row("failed", TRUE, 0))
ScanPackages(found) ==
  /\ InLane("javascript") /\ scanned' = found /\ remaining' = found /\ turn' = 1
  /\ step' = "waives" /\ UNCHANGED <<waivers, kind, lane, laneRows>>

Concerned(w, f) == f.version \in w.versions
\* What a waiver leaves of a finding: its other paths, and all of it when the waiver
\* names paths and the finding has none.
Kept(w, f) == IF w.paths = {} THEN {} ELSE f.paths \ w.paths
Stays_Wrong(w, f) == \* Mutated form: a finding is gone as soon as one path is waived.
  ~Concerned(w, f) \/ (w.paths # {} /\ f.paths \cap w.paths = {})
Stays(w, f) == ~Concerned(w, f) \/ (w.paths # {} /\ f.paths = {}) \/ Kept(w, f) # {}
Matches(w, f) == Concerned(w, f) /\ (w.paths = {} \/ f.paths \cap w.paths # {})
Left(w, f) == IF Concerned(w, f) /\ w.paths # {} THEN [f EXCEPT !.paths = Kept(w, f)] ELSE f
Waived(w, found) == {Left(w, f) : f \in {g \in found : Stays(w, g)}}
ApplyWaiver ==
  /\ step = "waives" /\ turn <= Len(waivers)
  /\ IF \E f \in remaining : Matches(waivers[turn], f)
     THEN /\ remaining' = Waived(waivers[turn], remaining) /\ turn' = turn + 1
          /\ UNCHANGED <<step, waivers, kind, lane, scanned, laneRows>>
     ELSE EndLane(Row("failed", TRUE, turn))
CloseLane == /\ step = "waives" /\ turn > Len(waivers)
             /\ EndLane(Row(IF remaining = {} THEN "passed" ELSE "failed", FALSE, 0))

\* The audit assessed everything when no lane was left out or broke off.
Complete_Wrong == laneRows # <<>> /\ \A i \in DOMAIN laneRows : laneRows[i].status # "unsupported"
   \* Mutated form: a failed lane counts as assessed whatever made it fail.
Complete == laneRows # <<>> /\ \A i \in DOMAIN laneRows :
              laneRows[i].status \in {"passed", "failed"} /\ ~laneRows[i].error
WriteReport ==
  /\ step = "lane" /\ lane > Lanes
  /\ step' = IF ~Complete THEN "partial"
           ELSE IF \A i \in DOMAIN laneRows : laneRows[i].status = "passed" THEN "passed" ELSE "complete"
  /\ UNCHANGED <<waivers, kind, lane, scanned, remaining, turn, laneRows>>

AuditNext ==
  \/ ValidateWaivers \/ SkipLane \/ ScanNative \/ ScanFails \/ ApplyWaiver \/ CloseLane
  \/ WriteReport \/ \E found \in Reports : ScanPackages(found)
AuditSpec == AuditInit /\ [][AuditNext]_auditVars

----------------------------------------------------------------------------
\* What a finding says, piece by piece; a finding without paths is one piece.
Places(f) == IF f.paths = {} THEN {"nowhere"} ELSE f.paths
Pieces(found) == UNION {{f.version} \X Places(f) : f \in found}
Covers(w, piece) == piece[1] \in w.versions /\ (w.paths = {} \/ piece[2] \in w.paths)

\* Waiving one waiver after the other leaves exactly what no waiver covers, in
\* whatever order they are declared.
WaiversAreExact ==
  step = "waives" /\ turn > Len(waivers) =>
    Pieces(remaining) = {x \in Pieces(scanned) : \A i \in DOMAIN waivers : ~Covers(waivers[i], x)}

\* A waiver called stale covers nothing the scanner found: no other waiver took its
\* findings first.
StaleIsUseless ==
  [][\A i \in DOMAIN laneRows' :
       i > Len(laneRows) /\ laneRows'[i].stale # 0
       => \A x \in Pieces(scanned) : ~Covers(waivers[laneRows'[i].stale], x)]_auditVars

\* A report that calls itself complete has a lane for every directory, and none of
\* them ended without its scanner's answer.
CompleteIsAssessed ==
  step \in {"passed", "complete"} =>
    /\ Len(laneRows) = Lanes /\ \A l \in 1..Lanes : kind[l] # "none" /\ ~laneRows[l].error
=============================================================================
