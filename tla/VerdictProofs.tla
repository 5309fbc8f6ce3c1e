---------------------------- MODULE VerdictProofs ----------------------------
(***************************************************************************)
(* That what is recorded of a candidate is so: a verification sweep that   *)
(* counts has decided every gate on one source, for any number of gates;   *)
(* an exported update says only what was inspected and verified; and what  *)
(* an update commits is what its gates judged, for any files and any       *)
(* number of stray writes.  And that the hooks that judge commits and      *)
(* pushes are whole, keep what the user staged and let no hostile file     *)
(* pass, for any history, any staged files and any number of pushes.       *)
(***************************************************************************)
EXTENDS Verification, CandidateExport, UpdateTransaction, StagedFormat, HookScan, HookInstall,
        FiniteSetTheorems, TLAPS

----------------------------------------------------------------------------
(* The sweep: the invariant.                                               *)

\* The gates the sweep has been over, at the place it is.
Decided == IF sweep.pc \in {"recheck", "reservice"} THEN 1 .. sweep.k ELSE 1 .. sweep.k - 1
AllPassed(gates) == \A g \in gates : gateRows[g] = "passed"

\* The loop decides gates in order and remembers whether one did not pass.
LoopIsOrdered ==
  sweep.pc \in {"gate", "running", "recheck", "reservice"} =>
    /\ ~sweep.completed /\ sweep.result \in {0, 1}
    /\ \A g \in Decided : gateRows[g] \in Settled
    /\ sweep.result = 0 <=> AllPassed(Decided)
    /\ sweep.pc # "gate" => sweep.k <= GateCount
    /\ sweep.pc = "running" => gateRows[sweep.k] = "running"
    /\ \A g \in Gate : (g > sweep.k \/ (g = sweep.k /\ sweep.pc = "gate")) => gateRows[g] = "unrun"

\* Before the loop nothing is decided; behind it, a code that counts is the
\* loop's own.
EndsAreKept ==
  /\ sweep.pc \in {"health", "identity"} =>
       ~sweep.completed /\ sweep.k = 1 /\ \A g \in Gate : gateRows[g] = "unrun"
  /\ sweep.pc = "leave" /\ ~sweep.completed => sweep.result \in {1, 128}
  /\ sweep.pc = "leave" /\ sweep.completed => sweep.result \in {0, 1}
  /\ Swept => sweep.completed
  /\ sweep.pc \in {"leave", "exit"} /\ sweep.completed /\ sweep.result \in {0, 1} =>
       /\ \A g \in Gate : gateRows[g] \in Settled
       /\ sweep.result = 0 <=> AllPassed(Gate)

\* Prerequisites precede their gates, and were looked at when a gate began.
NeedsPrecede ==
  /\ \A g \in Gate : needs[g] \subseteq 1 .. g - 1
  /\ PrerequisitesPassed

\* What has not been found out yet has not happened: an edit is noticed before
\* the next gate, and so are services that a gate has left.
NothingIsMissed ==
  /\ spoiled => edited
  /\ sweep.pc \in {"health", "identity", "gate", "reservice"} \/ sweep.completed => ~spoiled
  /\ moves = 0 /\ (sweep.pc \in {"identity", "gate"} \/ sweep.completed) => live = base

\* The type invariant, the sweep's own record apart from the rest.
SweepPhases == {"health", "identity", "gate", "running", "recheck", "reservice", "leave", "exit"}
SweepStates == [pc : SweepPhases,
                k : 1 .. GateCount + 1, result : {0, 1, 2, 128}, completed : BOOLEAN]
GateRows == [Gate -> {"unrun", "running", "interrupted"} \cup Settled]
RestTyped ==
  /\ needs \in [Gate -> SUBSET Gate] /\ live \in SUBSET Scopes /\ base \in SUBSET Scopes
  /\ report \in {-1, 0, 1, 2, 128} /\ moves \in 0 .. MaxMoves
FlagsTyped == edited \in BOOLEAN /\ unsafe \in BOOLEAN /\ signalled \in BOOLEAN /\ spoiled \in BOOLEAN

SweepInv ==
  /\ sweep \in SweepStates /\ gateRows \in GateRows /\ RestTyped /\ FlagsTyped
  /\ LoopIsOrdered /\ EndsAreKept /\ NeedsPrecede /\ NothingIsMissed

----------------------------------------------------------------------------
(* The sweep: every operation keeps it.                                    *)

\* The sweep goes on as this record, field by field.
SweepGoes(pc, k, result) ==
  /\ sweep' \in SweepStates
  /\ sweep'.pc = pc /\ sweep'.k = k /\ sweep'.result = result
  /\ sweep'.completed = sweep.completed

USE SweepAssumption DEF Gate, Scopes, Ran, Settled, Recorded, SweepPhases

\* A step that moves the phase of the record only.
LEMMA PhaseMoves ==
  ASSUME sweep \in SweepStates, NEW pc \in SweepPhases,
         sweep' = [sweep EXCEPT !.pc = pc]
  PROVE  SweepGoes(pc, sweep.k, sweep.result)
<1>1. sweep' \in SweepStates
  BY DEF SweepStates
<1>2. sweep'.completed = sweep.completed
  BY DEF SweepStates
<1> QED BY <1>1, <1>2 DEF SweepStates, SweepGoes

\* One that also records an exit code.
LEMMA PhaseAndCodeMove ==
  ASSUME sweep \in SweepStates, NEW pc \in SweepPhases, NEW result \in {0, 1, 2, 128},
         sweep' = [sweep EXCEPT !.pc = pc, !.result = result]
  PROVE  SweepGoes(pc, sweep.k, result)
<1>1. sweep' \in SweepStates
  BY DEF SweepStates
<1>2. sweep'.completed = sweep.completed
  BY DEF SweepStates
<1> QED BY <1>1, <1>2 DEF SweepStates, SweepGoes

\* One that passes a gate over, with its code.
LEMMA GateIsPassedOver ==
  ASSUME sweep \in SweepStates, NEW k \in 1 .. GateCount + 1, NEW result \in {0, 1, 2, 128},
         sweep' = [sweep EXCEPT !.k = k, !.result = result]
  PROVE  SweepGoes(sweep.pc, k, result)
<1>1. sweep' \in SweepStates
  BY DEF SweepStates
<1>2. sweep'.completed = sweep.completed
  BY DEF SweepStates
<1> QED BY <1>1, <1>2 DEF SweepStates, SweepGoes

\* One that goes on to another gate.
LEMMA NextGateIsUp ==
  ASSUME sweep \in SweepStates, NEW pc \in SweepPhases, NEW k \in 1 .. GateCount + 1,
         sweep' = [sweep EXCEPT !.pc = pc, !.k = k]
  PROVE  SweepGoes(pc, k, sweep.result)
<1>1. sweep' \in SweepStates
  BY DEF SweepStates
<1>2. sweep'.completed = sweep.completed
  BY DEF SweepStates
<1> QED BY <1>1, <1>2 DEF SweepStates, SweepGoes

\* One that leaves the sweep.
LEMMA SweepIsLeft ==
  ASSUME sweep \in SweepStates, NEW result \in {0, 1, 2, 128},
         LeaveSweep(result)
  PROVE  SweepGoes("leave", sweep.k, result)
<1>1. sweep' \in SweepStates
  BY DEF SweepStates, LeaveSweep
<1>2. sweep'.completed = sweep.completed
  BY DEF SweepStates, LeaveSweep
<1> QED BY <1>1, <1>2 DEF SweepStates, SweepGoes, LeaveSweep

\* The services are looked at before anything runs.
LEMMA FirstHealthKeeps == SweepInv /\ FirstHealth => SweepInv'
<1> SUFFICES ASSUME SweepInv, FirstHealth PROVE SweepInv'
  OBVIOUS
<1>1. sweep \in SweepStates /\ gateRows \in GateRows /\ RestTyped /\ FlagsTyped
  BY DEF SweepInv
<1>2. LoopIsOrdered /\ EndsAreKept /\ NeedsPrecede /\ NothingIsMissed
  BY DEF SweepInv
<1>3. /\ sweep.pc = "health" /\ base' = live
      /\ UNCHANGED <<gateRows, needs, edited, live, unsafe, signalled, report, spoiled, moves>>
  BY SMTT(30) DEF FirstHealth
<1>4. SweepGoes("leave", sweep.k, 1) \/ SweepGoes("identity", sweep.k, sweep.result)
  <2>1. LeaveSweep(1) \/ sweep' = [sweep EXCEPT !.pc = "identity"]
    BY Zenon DEF FirstHealth
  <2>2. sweep.k \in 1 .. GateCount + 1 /\ 1 \in {0, 1, 2, 128}
    BY <1>1 DEF SweepStates
  <2>3. CASE LeaveSweep(1)
    BY <1>1, <2>2, <2>3, SweepIsLeft
  <2>4. CASE sweep' = [sweep EXCEPT !.pc = "identity"]
    BY <1>1, <2>4, PhaseMoves
  <2> QED BY <2>1, <2>3, <2>4
<1>5. sweep' \in SweepStates
  BY <1>1, <1>2, <1>3, <1>4 DEF SweepGoes
<1>6. gateRows' \in GateRows
  BY <1>1, <1>2, <1>3, <1>4 DEF GateRows
<1>7. RestTyped'
  BY <1>1, <1>2, <1>3, <1>4 DEF RestTyped, SweepGoes
<1>8. FlagsTyped'
  BY <1>1, <1>3, <1>4, Zenon DEF FlagsTyped
<1>9. LoopIsOrdered'
  BY <1>1, <1>2, <1>3, <1>4
     DEF LoopIsOrdered, EndsAreKept, Decided, AllPassed, SweepGoes, GateRows, SweepStates
<1>10. EndsAreKept'
  BY <1>1, <1>2, <1>3, <1>4
     DEF EndsAreKept, LoopIsOrdered, Decided, AllPassed, Swept, SweepGoes, GateRows, SweepStates
<1>11. NeedsPrecede'
  BY <1>1, <1>2, <1>3, <1>4
     DEF NeedsPrecede, PrerequisitesPassed, Decided, SweepGoes, GateRows, SweepStates
<1>12. NothingIsMissed'
  BY <1>1, <1>2, <1>3, <1>4 DEF NothingIsMissed, SweepGoes
<1> QED BY <1>5, <1>6, <1>7, <1>8, <1>9, <1>10, <1>11, <1>12 DEF SweepInv

\* The plan is for the source as it is, or the sweep ends.
LEMMA FirstIdentityKeeps == SweepInv /\ FirstIdentity => SweepInv'
<1> SUFFICES ASSUME SweepInv, FirstIdentity PROVE SweepInv'
  OBVIOUS
<1>1. sweep \in SweepStates /\ gateRows \in GateRows /\ RestTyped /\ FlagsTyped
  BY DEF SweepInv
<1>2. LoopIsOrdered /\ EndsAreKept /\ NeedsPrecede /\ NothingIsMissed
  BY DEF SweepInv
<1>3. /\ sweep.pc = "identity"
      /\ UNCHANGED <<gateRows, needs, edited, live, base, unsafe, signalled, report, spoiled,
                     moves>>
  BY SMTT(30) DEF FirstIdentity
<1>4. SweepGoes("leave", sweep.k, 1) \/ (~edited /\ SweepGoes("gate", sweep.k, 0))
  <2>1. LeaveSweep(1) \/ (~edited /\ sweep' = [sweep EXCEPT !.pc = "gate", !.result = 0])
    BY Zenon DEF FirstIdentity
  <2>2. sweep.k \in 1 .. GateCount + 1
    BY <1>1 DEF SweepStates
  <2>3. CASE LeaveSweep(1)
    BY <1>1, <2>2, <2>3, SweepIsLeft
  <2>4. CASE ~edited /\ sweep' = [sweep EXCEPT !.pc = "gate", !.result = 0]
    <3>1. SweepGoes("gate", sweep.k, 0)
      BY <1>1, <2>4, PhaseAndCodeMove
    <3> QED BY <2>4, <3>1
  <2> QED BY <2>1, <2>3, <2>4
<1>5. sweep' \in SweepStates
  BY <1>1, <1>2, <1>3, <1>4 DEF SweepGoes
<1>6. gateRows' \in GateRows
  BY <1>1, <1>2, <1>3, <1>4 DEF GateRows
<1>7. RestTyped'
  BY <1>1, <1>2, <1>3, <1>4 DEF RestTyped, SweepGoes
<1>8. FlagsTyped'
  BY <1>1, <1>3, <1>4, Zenon DEF FlagsTyped
<1>9. LoopIsOrdered'
  BY <1>1, <1>2, <1>3, <1>4
     DEF LoopIsOrdered, EndsAreKept, Decided, AllPassed, SweepGoes, GateRows, SweepStates
<1>10. EndsAreKept'
  BY <1>1, <1>2, <1>3, <1>4
     DEF EndsAreKept, LoopIsOrdered, Decided, AllPassed, Swept, SweepGoes, GateRows, SweepStates
<1>11. NeedsPrecede'
  BY <1>1, <1>2, <1>3, <1>4
     DEF NeedsPrecede, PrerequisitesPassed, Decided, SweepGoes, GateRows, SweepStates
<1>12. NothingIsMissed'
  BY <1>1, <1>2, <1>3, <1>4 DEF NothingIsMissed, SweepGoes
<1> QED BY <1>5, <1>6, <1>7, <1>8, <1>9, <1>10, <1>11, <1>12 DEF SweepInv

\* A signal ends the sweep; a gate over one that did not pass is blocked; the others
\* begin, if that can be recorded.
LEMMA NextGateKeeps == SweepInv /\ NextGate => SweepInv'
<1> SUFFICES ASSUME SweepInv, NextGate PROVE SweepInv'
  OBVIOUS
<1>1. sweep \in SweepStates /\ gateRows \in GateRows /\ RestTyped /\ FlagsTyped
  BY DEF SweepInv
<1>2. LoopIsOrdered /\ EndsAreKept /\ NeedsPrecede /\ NothingIsMissed
  BY DEF SweepInv
<1>3. /\ sweep.pc = "gate" /\ sweep.k \in Gate /\ sweep.k + 1 \in 1 .. GateCount + 1
      /\ UNCHANGED <<needs, edited, live, base, unsafe, report, moves>>
      /\ signalled' \in BOOLEAN
  <2>1. sweep.pc = "gate" /\ sweep.k <= GateCount
        /\ UNCHANGED <<needs, edited, live, base, unsafe, report, moves>>
    BY DEF NextGate
  <2>2. signalled' = FALSE \/ signalled' = signalled
    BY DEF NextGate
  <2>3. signalled' \in BOOLEAN
    BY <1>1, <2>2, Zenon DEF FlagsTyped
  <2> QED BY <1>1, <2>1, <2>3 DEF SweepStates
<1>4. \/ UNCHANGED <<gateRows, spoiled>> /\ SweepGoes("leave", sweep.k, 128)
      \/ /\ gateRows' = [gateRows EXCEPT ![sweep.k] = "blocked"]
         /\ Blocked(sweep.k) /\ UNCHANGED spoiled
         /\ SweepGoes("leave", sweep.k, 1) \/ SweepGoes("gate", sweep.k + 1, 1)
      \/ /\ gateRows' = [gateRows EXCEPT ![sweep.k] = "running"]
         /\ ~Blocked(sweep.k) /\ spoiled' = (spoiled \/ edited)
         /\ SweepGoes("running", sweep.k, sweep.result)
      \/ /\ \E s \in {"unrun", "running"} : gateRows' = [gateRows EXCEPT ![sweep.k] = s]
         /\ ~Blocked(sweep.k) /\ UNCHANGED spoiled /\ SweepGoes("leave", sweep.k, 1)
  <2>1. LeaveSweep(1) => SweepGoes("leave", sweep.k, 1)
    BY <1>1, SweepIsLeft
  <2>2. LeaveSweep(128) => SweepGoes("leave", sweep.k, 128)
    BY <1>1, SweepIsLeft
  <2>3. sweep' = [sweep EXCEPT !.k = sweep.k + 1, !.result = 1] => SweepGoes("gate", sweep.k + 1, 1)
    BY <1>1, <1>3, GateIsPassedOver
  <2>4. sweep' = [sweep EXCEPT !.pc = "running"] => SweepGoes("running", sweep.k, sweep.result)
    BY <1>1, PhaseMoves
  <2> QED BY <2>1, <2>2, <2>3, <2>4, Zenon DEF NextGate
<1>5. sweep' \in SweepStates
  BY <1>1, <1>2, <1>3, <1>4 DEF SweepGoes
<1>6. gateRows' \in GateRows
  BY <1>1, <1>2, <1>3, <1>4 DEF GateRows
<1>7. RestTyped'
  BY <1>1, <1>2, <1>3, <1>4 DEF RestTyped, SweepGoes
<1>8. FlagsTyped'
  BY <1>1, <1>3, <1>4, Zenon DEF FlagsTyped
<1>9. LoopIsOrdered'
  <2>1. CASE \E result \in {1, 128} : SweepGoes("leave", sweep.k, result)
    BY <2>1 DEF LoopIsOrdered, SweepGoes
  <2>2. CASE /\ gateRows' = [gateRows EXCEPT ![sweep.k] = "blocked"]
             /\ SweepGoes("gate", sweep.k + 1, 1)
    BY <1>1, <1>2, <1>3, <2>2
       DEF LoopIsOrdered, Decided, AllPassed, SweepGoes, GateRows, SweepStates
  <2>3. CASE /\ gateRows' = [gateRows EXCEPT ![sweep.k] = "running"]
             /\ SweepGoes("running", sweep.k, sweep.result)
    BY <1>1, <1>2, <1>3, <2>3
       DEF LoopIsOrdered, Decided, AllPassed, SweepGoes, GateRows, SweepStates
  <2> QED BY <1>4, <2>1, <2>2, <2>3
<1>10. EndsAreKept'
  BY <1>1, <1>2, <1>3, <1>4
     DEF EndsAreKept, LoopIsOrdered, Decided, AllPassed, Swept, SweepGoes, GateRows, SweepStates
<1>11. NeedsPrecede'
  <2> DEFINE k == sweep.k
  <2>1. gateRows[k] = "unrun" /\ needs[k] \subseteq 1 .. k - 1 /\ k \in Gate
    BY <1>2, <1>3 DEF LoopIsOrdered, NeedsPrecede
  <2>2. \A n \in Gate : n # k => gateRows'[n] = gateRows[n]
    BY <1>1, <1>4 DEF GateRows
  <2>3. gateRows'[k] \in {"unrun", "blocked", "running"}
    BY <1>1, <1>4, <2>1 DEF GateRows
  <2>4. gateRows'[k] = "running" => \A n \in needs[k] : gateRows[n] = "passed"
    BY <1>1, <1>4, <2>1 DEF GateRows, Blocked
  <2>5. \A n \in needs[k] : n \in Gate /\ n # k
    BY <2>1
  <2> HIDE DEF k
  <2>6. needs' = needs
    BY <1>3
  <2> QED BY <1>2, <2>1, <2>2, <2>3, <2>4, <2>5, <2>6 DEF NeedsPrecede, PrerequisitesPassed
<1>12. NothingIsMissed'
  <2>1. ~sweep.completed /\ ~spoiled
    BY <1>2, <1>3 DEF LoopIsOrdered, NothingIsMissed
  <2>2. ~sweep'.completed /\ sweep'.pc \in {"leave", "gate", "running"}
    BY <1>4, <2>1 DEF SweepGoes
  <2>3. sweep'.pc = "running" \/ spoiled' = spoiled
    BY <1>4 DEF SweepGoes
  <2>4. spoiled' => edited
    BY <1>4, <2>1, Zenon
  <2> QED BY <1>2, <1>3, <2>1, <2>2, <2>3, <2>4 DEF NothingIsMissed

<1> QED BY <1>5, <1>6, <1>7, <1>8, <1>9, <1>10, <1>11, <1>12 DEF SweepInv

\* The gate's command ends: it is recorded how, and the sweep looks around or leaves.
LEMMA GateEndsKeeps == SweepInv /\ GateEnds => SweepInv'
<1> SUFFICES ASSUME SweepInv, GateEnds PROVE SweepInv'
  OBVIOUS
<1>1. sweep \in SweepStates /\ gateRows \in GateRows /\ RestTyped /\ FlagsTyped
  BY DEF SweepInv
<1>2. LoopIsOrdered /\ EndsAreKept /\ NeedsPrecede /\ NothingIsMissed
  BY DEF SweepInv
<1>3. /\ sweep.pc = "running" /\ sweep.k \in Gate /\ gateRows[sweep.k] = "running"
      /\ ~sweep.completed /\ sweep.result \in {0, 1}
      /\ UNCHANGED <<needs, edited, base, unsafe, report, spoiled, moves>>
      /\ signalled' \in BOOLEAN /\ live' \in SUBSET Scopes
  <2>1. sweep.pc = "running" /\ UNCHANGED <<needs, edited, base, unsafe, report, spoiled, moves>>
    BY DEF GateEnds
  <2>2. sweep.k \in Gate /\ gateRows[sweep.k] = "running" /\ ~sweep.completed /\ sweep.result \in {0, 1}
    BY <1>1, <1>2, <2>1 DEF LoopIsOrdered, SweepStates
  <2>3. signalled' = FALSE \/ signalled' = signalled
    BY DEF GateEnds
  <2>4. signalled' \in BOOLEAN
    BY <1>1, <2>3, Zenon DEF FlagsTyped
  <2>5. live' \in SUBSET Scopes
    BY <1>1 DEF GateEnds, RestTyped
  <2> QED BY <2>1, <2>2, <2>4, <2>5
<1>4. \E status \in {"interrupted", "passed", "failed"} :
        /\ gateRows' = [gateRows EXCEPT ![sweep.k] = status]
        /\ \/ SweepGoes("leave", sweep.k, 1) \/ SweepGoes("leave", sweep.k, 128)
           \/ status = "passed" /\ SweepGoes("recheck", sweep.k, sweep.result)
           \/ status = "failed" /\ SweepGoes("recheck", sweep.k, 1)
  <2>0. sweep.k \in 1 .. GateCount + 1 /\ 1 \in {0, 1, 2, 128} /\ 128 \in {0, 1, 2, 128}
    BY <1>3
  <2>1. LeaveSweep(1) => SweepGoes("leave", sweep.k, 1)
    BY <1>1, SweepIsLeft
  <2>2. LeaveSweep(128) => SweepGoes("leave", sweep.k, 128)
    BY <1>1, SweepIsLeft
  <2>3. ASSUME NEW result \in {0, 1},
               sweep' = [sweep EXCEPT !.pc = "recheck", !.result = result]
        PROVE  SweepGoes("recheck", sweep.k, result)
    BY <1>1, <2>3, PhaseAndCodeMove
  <2> DEFINE status(code) == IF signalled \/ code = 128 THEN "interrupted"
                             ELSE IF code = 0 THEN "passed" ELSE "failed"
             result(code) == IF code = 0 THEN sweep.result ELSE 1
             Ending(code, ok) ==
               /\ gateRows' = [gateRows EXCEPT ![sweep.k] = status(code)]
               /\ IF signalled THEN LeaveSweep(128) /\ signalled' = FALSE
                  ELSE /\ UNCHANGED signalled
                       /\ IF code = 128 THEN LeaveSweep(128)
                          ELSE IF ~ok THEN LeaveSweep(1)
                          ELSE sweep' = [sweep EXCEPT !.pc = "recheck", !.result = result(code)]
  <2>4. PICK code \in {0, 1, 128}, ok \in BOOLEAN : Ending(code, ok)
    <3>1. PICK code \in {0, 1, 128}, ok \in BOOLEAN,
               after \in {live} \cup {live \cup {s} : s \in Scopes} :
            live' = after /\ Ending(code, ok)
      <4> HIDE DEF LeaveSweep, Scopes
      <4> QED BY Zenon DEF GateEnds
    <3> HIDE DEF Ending
    <3> QED BY <3>1, Zenon
  <2>5. CASE signalled \/ code = 128
    BY <2>2, <2>4, <2>5, Zenon
  <2>6. CASE ~signalled /\ code # 128 /\ ~ok
    BY <2>1, <2>4, <2>6, Zenon
  <2>7. CASE ~signalled /\ code = 0 /\ ok
    <3>1. /\ gateRows' = [gateRows EXCEPT ![sweep.k] = "passed"]
          /\ sweep' = [sweep EXCEPT !.pc = "recheck", !.result = sweep.result]
      <4>1. status(code) = "passed" /\ result(code) = sweep.result /\ code # 128
        BY <2>7
      <4> HIDE DEF status, result, LeaveSweep
      <4> QED BY <2>4, <2>7, <4>1
    <3> QED BY <1>3, <2>3, <3>1, Zenon
  <2>8. CASE ~signalled /\ code = 1 /\ ok
    <3>1. /\ gateRows' = [gateRows EXCEPT ![sweep.k] = "failed"]
          /\ sweep' = [sweep EXCEPT !.pc = "recheck", !.result = 1]
      <4>1. status(code) = "failed" /\ result(code) = 1 /\ code # 128
        BY <2>8
      <4> HIDE DEF status, result, LeaveSweep
      <4> QED BY <2>4, <2>8, <4>1
    <3> QED BY <1>3, <2>3, <3>1, Zenon
  <2> QED BY <2>5, <2>6, <2>7, <2>8, Zenon
<1>5. sweep' \in SweepStates
  BY <1>1, <1>2, <1>3, <1>4 DEF SweepGoes
<1>6. gateRows' \in GateRows
  BY <1>1, <1>2, <1>3, <1>4 DEF GateRows
<1>7. RestTyped'
  BY <1>1, <1>2, <1>3, <1>4 DEF RestTyped, SweepGoes
<1>8. FlagsTyped'
  BY <1>1, <1>3, <1>4, Zenon DEF FlagsTyped
<1>9. LoopIsOrdered'
  <2>1. PICK status \in {"interrupted", "passed", "failed"} :
          /\ gateRows' = [gateRows EXCEPT ![sweep.k] = status]
          /\ \/ SweepGoes("leave", sweep.k, 1) \/ SweepGoes("leave", sweep.k, 128)
             \/ status = "passed" /\ SweepGoes("recheck", sweep.k, sweep.result)
             \/ status = "failed" /\ SweepGoes("recheck", sweep.k, 1)
    BY <1>4
  <2>2. CASE sweep'.pc = "leave"
    BY <2>2 DEF LoopIsOrdered
  <2>3. CASE sweep'.pc # "leave"
    <3>1. /\ status \in {"passed", "failed"} /\ sweep'.pc = "recheck" /\ sweep'.k = sweep.k
          /\ sweep'.completed = sweep.completed
          /\ sweep'.result = IF status = "passed" THEN sweep.result ELSE 1
      BY <2>1, <2>3 DEF SweepGoes
    <3> QED BY <1>1, <1>2, <1>3, <2>1, <3>1 DEF LoopIsOrdered, Decided, AllPassed, GateRows, SweepStates
  <2> QED BY <2>2, <2>3
<1>10. EndsAreKept'
  BY <1>1, <1>2, <1>3, <1>4
     DEF EndsAreKept, LoopIsOrdered, Decided, AllPassed, Swept, SweepGoes, GateRows, SweepStates
<1>11. NeedsPrecede'
  BY <1>1, <1>2, <1>3, <1>4
     DEF NeedsPrecede, PrerequisitesPassed, Decided, SweepGoes, GateRows, SweepStates
<1>12. NothingIsMissed'
  BY <1>1, <1>2, <1>3, <1>4 DEF NothingIsMissed, SweepGoes
<1> QED BY <1>5, <1>6, <1>7, <1>8, <1>9, <1>10, <1>11, <1>12 DEF SweepInv

\* An edit is found out before the next gate.
LEMMA CheckIdentityKeeps == SweepInv /\ CheckIdentity => SweepInv'
<1> SUFFICES ASSUME SweepInv, CheckIdentity PROVE SweepInv'
  OBVIOUS
<1>1. sweep \in SweepStates /\ gateRows \in GateRows /\ RestTyped /\ FlagsTyped
  BY DEF SweepInv
<1>2. LoopIsOrdered /\ EndsAreKept /\ NeedsPrecede /\ NothingIsMissed
  BY DEF SweepInv
<1>3. /\ sweep.pc = "recheck"
      /\ UNCHANGED <<gateRows, needs, edited, live, base, unsafe, signalled, report, spoiled,
                     moves>>
  BY DEF CheckIdentity
<1>4. SweepGoes("leave", sweep.k, 1) \/ (~edited /\ SweepGoes("reservice", sweep.k, sweep.result))
  <2>1. LeaveSweep(1) \/ (~edited /\ sweep' = [sweep EXCEPT !.pc = "reservice"])
    BY Zenon DEF CheckIdentity, IdentityHolds
  <2>2. sweep.k \in 1 .. GateCount + 1 /\ sweep.result \in {0, 1, 2, 128}
    BY <1>1 DEF SweepStates
  <2>3. CASE LeaveSweep(1)
    BY <1>1, <2>3, SweepIsLeft
  <2>4. CASE ~edited /\ sweep' = [sweep EXCEPT !.pc = "reservice"]
    <3>1. SweepGoes("reservice", sweep.k, sweep.result)
      BY <1>1, <2>4, PhaseMoves
    <3> QED BY <2>4, <3>1
  <2> QED BY <2>1, <2>3, <2>4
<1>5. sweep' \in SweepStates
  BY <1>1, <1>2, <1>3, <1>4 DEF SweepGoes
<1>6. gateRows' \in GateRows
  BY <1>1, <1>2, <1>3, <1>4 DEF GateRows
<1>7. RestTyped'
  BY <1>1, <1>2, <1>3, <1>4 DEF RestTyped, SweepGoes
<1>8. FlagsTyped'
  BY <1>1, <1>3, <1>4, Zenon DEF FlagsTyped
<1>9. LoopIsOrdered'
  BY <1>1, <1>2, <1>3, <1>4
     DEF LoopIsOrdered, EndsAreKept, Decided, AllPassed, SweepGoes, GateRows, SweepStates
<1>10. EndsAreKept'
  BY <1>1, <1>2, <1>3, <1>4
     DEF EndsAreKept, LoopIsOrdered, Decided, AllPassed, Swept, SweepGoes, GateRows, SweepStates
<1>11. NeedsPrecede'
  BY <1>1, <1>2, <1>3, <1>4
     DEF NeedsPrecede, PrerequisitesPassed, Decided, SweepGoes, GateRows, SweepStates
<1>12. NothingIsMissed'
  BY <1>1, <1>2, <1>3, <1>4 DEF NothingIsMissed, SweepGoes
<1> QED BY <1>5, <1>6, <1>7, <1>8, <1>9, <1>10, <1>11, <1>12 DEF SweepInv

\* The next gate begins over the services the sweep began with.
LEMMA CheckHealthKeeps == SweepInv /\ CheckHealth => SweepInv'
<1> SUFFICES ASSUME SweepInv, CheckHealth PROVE SweepInv'
  OBVIOUS
<1>1. sweep \in SweepStates /\ gateRows \in GateRows /\ RestTyped /\ FlagsTyped
  BY DEF SweepInv
<1>2. LoopIsOrdered /\ EndsAreKept /\ NeedsPrecede /\ NothingIsMissed
  BY DEF SweepInv
<1>3. /\ sweep.pc = "reservice" /\ sweep.k \in Gate /\ sweep.k + 1 \in 1 .. GateCount + 1
      /\ UNCHANGED <<gateRows, needs, edited, live, base, unsafe, signalled, report, spoiled,
                     moves>>
  <2>1. sweep.pc = "reservice"
        /\ UNCHANGED <<gateRows, needs, edited, live, base, unsafe, signalled, report, spoiled,
                       moves>>
    BY DEF CheckHealth
  <2> QED BY <1>1, <1>2, <2>1 DEF LoopIsOrdered, SweepStates
<1>4. SweepGoes("leave", sweep.k, 1) \/ (live = base /\ SweepGoes("gate", sweep.k + 1, sweep.result))
  <2>1. LeaveSweep(1) \/ (live = base /\ sweep' = [sweep EXCEPT !.pc = "gate", !.k = sweep.k + 1])
    BY Zenon DEF CheckHealth, HealthHolds
  <2>2. CASE LeaveSweep(1)
    BY <1>1, <2>2, SweepIsLeft
  <2>3. CASE live = base /\ sweep' = [sweep EXCEPT !.pc = "gate", !.k = sweep.k + 1]
    <3>1. SweepGoes("gate", sweep.k + 1, sweep.result)
      BY <1>1, <1>3, <2>3, NextGateIsUp
    <3> QED BY <2>3, <3>1
  <2> QED BY <2>1, <2>2, <2>3
<1>5. sweep' \in SweepStates
  BY <1>1, <1>2, <1>3, <1>4 DEF SweepGoes
<1>6. gateRows' \in GateRows
  BY <1>1, <1>2, <1>3, <1>4 DEF GateRows
<1>7. RestTyped'
  BY <1>1, <1>2, <1>3, <1>4 DEF RestTyped, SweepGoes
<1>8. FlagsTyped'
  BY <1>1, <1>3, <1>4, Zenon DEF FlagsTyped
<1>9. LoopIsOrdered'
  BY <1>1, <1>2, <1>3, <1>4
     DEF LoopIsOrdered, EndsAreKept, Decided, AllPassed, SweepGoes, GateRows, SweepStates
<1>10. EndsAreKept'
  BY <1>1, <1>2, <1>3, <1>4
     DEF EndsAreKept, LoopIsOrdered, Decided, AllPassed, Swept, SweepGoes, GateRows, SweepStates
<1>11. NeedsPrecede'
  BY <1>1, <1>2, <1>3, <1>4
     DEF NeedsPrecede, PrerequisitesPassed, Decided, SweepGoes, GateRows, SweepStates
<1>12. NothingIsMissed'
  BY <1>1, <1>2, <1>3, <1>4 DEF NothingIsMissed, SweepGoes
<1> QED BY <1>5, <1>6, <1>7, <1>8, <1>9, <1>10, <1>11, <1>12 DEF SweepInv

\* Behind the last gate the sweep is complete.
LEMMA SweepCompletesKeeps == SweepInv /\ SweepCompletes => SweepInv'
<1> SUFFICES ASSUME SweepInv, SweepCompletes PROVE SweepInv'
  OBVIOUS
<1>1. sweep \in SweepStates /\ gateRows \in GateRows /\ RestTyped /\ FlagsTyped
  BY DEF SweepInv
<1>2. LoopIsOrdered /\ EndsAreKept /\ NeedsPrecede /\ NothingIsMissed
  BY DEF SweepInv
<1>3. /\ sweep.pc = "gate" /\ sweep.k = GateCount + 1
      /\ UNCHANGED <<gateRows, needs, edited, live, base, unsafe, signalled, report, spoiled,
                     moves>>
  BY DEF SweepCompletes
<1>4. /\ sweep' \in SweepStates /\ sweep'.pc = "leave" /\ sweep'.completed
      /\ sweep'.result = sweep.result
  <2>1. sweep' = [sweep EXCEPT !.pc = "leave", !.completed = TRUE]
    BY DEF SweepCompletes
  <2>2. sweep' \in SweepStates
    BY <1>1, <2>1 DEF SweepStates
  <2>3. sweep'.pc = "leave" /\ sweep'.completed
    BY <1>1, <2>1 DEF SweepStates
  <2>4. sweep'.result = sweep.result
    BY <1>1, <2>1 DEF SweepStates
  <2> QED BY <2>2, <2>3, <2>4
<1>5. /\ Decided = Gate /\ sweep.result \in {0, 1}
  BY <1>2, <1>3 DEF Decided, LoopIsOrdered
<1>6. sweep' \in SweepStates
  BY <1>1, <1>2, <1>3, <1>4, <1>5 DEF SweepGoes
<1>7. gateRows' \in GateRows
  BY <1>1, <1>2, <1>3, <1>4, <1>5 DEF GateRows
<1>8. RestTyped'
  BY <1>1, <1>2, <1>3, <1>4, <1>5 DEF RestTyped, SweepGoes
<1>9. FlagsTyped'
  BY <1>1, <1>3, <1>4, <1>5, Zenon DEF FlagsTyped
<1>10. LoopIsOrdered'
  BY <1>4 DEF LoopIsOrdered
<1>11. EndsAreKept'
  BY <1>1, <1>2, <1>3, <1>4, <1>5
     DEF EndsAreKept, LoopIsOrdered, Decided, AllPassed, Swept, SweepGoes, GateRows, SweepStates
<1>12. NeedsPrecede'
  BY <1>1, <1>2, <1>3, <1>4, <1>5
     DEF NeedsPrecede, PrerequisitesPassed, Decided, SweepGoes, GateRows, SweepStates
<1>13. NothingIsMissed'
  BY <1>1, <1>2, <1>3, <1>4, <1>5 DEF NothingIsMissed, SweepGoes
<1> QED BY <1>6, <1>7, <1>8, <1>9, <1>10, <1>11, <1>12, <1>13 DEF SweepInv

\* The end is recorded, with 2 for a sweep that gave up.
LEMMA CloseSweepKeeps == SweepInv /\ CloseSweep => SweepInv'
<1> SUFFICES ASSUME SweepInv, CloseSweep PROVE SweepInv'
  OBVIOUS
<1>1. sweep \in SweepStates /\ gateRows \in GateRows /\ RestTyped /\ FlagsTyped
  BY DEF SweepInv
<1>2. LoopIsOrdered /\ EndsAreKept /\ NeedsPrecede /\ NothingIsMissed
  BY DEF SweepInv
<1>3. /\ sweep.pc = "leave" /\ report' \in {-1, 0, 1, 2, 128}
      /\ UNCHANGED <<gateRows, needs, edited, live, base, unsafe, signalled, spoiled, moves>>
  <2>1. sweep.pc = "leave"
        /\ UNCHANGED <<gateRows, needs, edited, live, base, unsafe, signalled, spoiled, moves>>
    BY DEF CloseSweep
  <2>2. report' \in {-1, 0, 1, 2, 128}
    <3>1. report' = ExitCode \/ report' = report
      BY DEF CloseSweep
    <3>2. ExitCode \in {0, 1, 2, 128}
      BY <1>1 DEF ExitCode, SweepStates
    <3> QED BY <1>1, <3>1, <3>2 DEF RestTyped
  <2> QED BY <2>1, <2>2
<1>4. \E result \in {0, 1, 2, 128} :
        /\ SweepGoes("exit", sweep.k, result)
        /\ result \in {0, 1} => sweep.completed /\ result = sweep.result
  <2>1. ExitCode \in {0, 1, 2, 128}
    BY <1>1 DEF ExitCode, SweepStates
  <2>2. ExitCode \in {0, 1} => sweep.completed /\ ExitCode = sweep.result
    BY <1>1, <1>2, <1>3 DEF ExitCode, SweepStates, EndsAreKept
  <2>3. \E result \in {ExitCode, 2} : sweep' = [sweep EXCEPT !.pc = "exit", !.result = result]
    BY DEF CloseSweep
  <2> HIDE DEF ExitCode
  <2>4. PICK result \in {ExitCode, 2} : sweep' = [sweep EXCEPT !.pc = "exit", !.result = result]
    BY <2>3
  <2>5. sweep.k \in 1 .. GateCount + 1 /\ result \in {0, 1, 2, 128}
    BY <1>1, <2>1, <2>4 DEF SweepStates
  <2>6. SweepGoes("exit", sweep.k, result)
    BY <1>1, <2>4, <2>5, PhaseAndCodeMove
  <2>7. result \in {0, 1} => result = ExitCode
    BY <2>4
  <2>8. result \in {0, 1} => sweep.completed /\ result = sweep.result
    BY <2>2, <2>7
  <2> QED BY <2>5, <2>6, <2>8
<1>5. sweep' \in SweepStates
  BY <1>1, <1>2, <1>3, <1>4 DEF SweepGoes
<1>6. gateRows' \in GateRows
  BY <1>1, <1>2, <1>3, <1>4 DEF GateRows
<1>7. RestTyped'
  BY <1>1, <1>2, <1>3, <1>4 DEF RestTyped, SweepGoes
<1>8. FlagsTyped'
  BY <1>1, <1>3, <1>4, Zenon DEF FlagsTyped
<1>9. LoopIsOrdered'
  BY <1>1, <1>2, <1>3, <1>4
     DEF LoopIsOrdered, EndsAreKept, Decided, AllPassed, SweepGoes, GateRows, SweepStates
<1>10. EndsAreKept'
  BY <1>1, <1>2, <1>3, <1>4
     DEF EndsAreKept, LoopIsOrdered, Decided, AllPassed, Swept, SweepGoes, GateRows, SweepStates
<1>11. NeedsPrecede'
  BY <1>1, <1>2, <1>3, <1>4
     DEF NeedsPrecede, PrerequisitesPassed, Decided, SweepGoes, GateRows, SweepStates
<1>12. NothingIsMissed'
  BY <1>1, <1>2, <1>3, <1>4 DEF NothingIsMissed, SweepGoes
<1> QED BY <1>5, <1>6, <1>7, <1>8, <1>9, <1>10, <1>11, <1>12 DEF SweepInv

\* An edit before a gate is not part of it; one during it is remembered.
LEMMA EditKeeps == SweepInv /\ Edit => SweepInv'
<1> SUFFICES ASSUME SweepInv, Edit PROVE SweepInv'
  OBVIOUS
<1>1. sweep \in SweepStates /\ gateRows \in GateRows /\ RestTyped /\ FlagsTyped
  BY DEF SweepInv
<1>2. LoopIsOrdered /\ EndsAreKept /\ NeedsPrecede /\ NothingIsMissed
  BY DEF SweepInv
<1>3. /\ edited' = TRUE /\ spoiled' = (spoiled \/ sweep.pc = "running")
      /\ UNCHANGED sweep /\ UNCHANGED <<gateRows, needs, live, base, unsafe, signalled, report,
                                        moves>>
  BY DEF Edit
<1>4. SweepGoes(sweep.pc, sweep.k, sweep.result)
  BY <1>1, <1>3 DEF SweepGoes
<1>5. sweep' \in SweepStates
  BY <1>1, <1>2, <1>3, <1>4 DEF SweepGoes
<1>6. gateRows' \in GateRows
  BY <1>1, <1>2, <1>3, <1>4 DEF GateRows
<1>7. RestTyped'
  BY <1>1, <1>2, <1>3, <1>4 DEF RestTyped, SweepGoes
<1>8. FlagsTyped'
  BY <1>1, <1>3, <1>4, Zenon DEF FlagsTyped
<1>9. LoopIsOrdered'
  BY <1>1, <1>2, <1>3, <1>4
     DEF LoopIsOrdered, EndsAreKept, Decided, AllPassed, SweepGoes, GateRows, SweepStates
<1>10. EndsAreKept'
  BY <1>1, <1>2, <1>3, <1>4
     DEF EndsAreKept, LoopIsOrdered, Decided, AllPassed, Swept, SweepGoes, GateRows, SweepStates
<1>11. NeedsPrecede'
  BY <1>1, <1>2, <1>3, <1>4
     DEF NeedsPrecede, PrerequisitesPassed, Decided, SweepGoes, GateRows, SweepStates
<1>12. NothingIsMissed'
  <2>1. spoiled' => spoiled \/ sweep.pc = "running"
    BY <1>3, Zenon
  <2>2. sweep.pc = "running" => ~sweep.completed
    BY <1>2 DEF LoopIsOrdered
  <2>3. sweep' = sweep /\ edited' /\ live' = live /\ base' = base /\ moves' = moves
    BY <1>3, Zenon
  <2>4. /\ sweep.pc \in {"health", "identity", "gate", "reservice"} \/ sweep.completed => ~spoiled
        /\ moves = 0 /\ (sweep.pc \in {"identity", "gate"} \/ sweep.completed) => live = base
    BY <1>2 DEF NothingIsMissed
  <2>5. sweep.pc \in {"health", "identity", "gate", "reservice"} => sweep.pc # "running"
    OBVIOUS
  <2> QED BY <2>1, <2>2, <2>3, <2>4, <2>5, Zenon DEF NothingIsMissed
<1> QED BY <1>5, <1>6, <1>7, <1>8, <1>9, <1>10, <1>11, <1>12 DEF SweepInv

\* Other users of the services are counted.
LEMMA OwnersMoveKeeps == SweepInv /\ OwnersMove => SweepInv'
<1> SUFFICES ASSUME SweepInv, OwnersMove PROVE SweepInv'
  OBVIOUS
<1>1. sweep \in SweepStates /\ gateRows \in GateRows /\ RestTyped /\ FlagsTyped
  BY DEF SweepInv
<1>2. LoopIsOrdered /\ EndsAreKept /\ NeedsPrecede /\ NothingIsMissed
  BY DEF SweepInv
<1>3. /\ moves' # 0 /\ moves' \in 0 .. MaxMoves /\ live' \in SUBSET Scopes
      /\ UNCHANGED sweep /\ UNCHANGED <<gateRows, needs, edited, base, signalled, report, spoiled>>
  <2>1. moves < MaxMoves /\ moves' = moves + 1
    BY DEF OwnersMove
  <2>2. moves' # 0 /\ moves' \in 0 .. MaxMoves
    BY <1>1, <2>1 DEF RestTyped
  <2>3. live' \in SUBSET Scopes
    <3>1. live' = live \/ \E s \in Scopes : live' = (live \ {s}) \cup ({s} \ live)
      BY Zenon DEF OwnersMove
    <3> QED BY <1>1, <3>1 DEF RestTyped
  <2> QED BY <2>2, <2>3 DEF OwnersMove
<1>4. SweepGoes(sweep.pc, sweep.k, sweep.result)
  BY <1>1, <1>3 DEF SweepGoes
<1>5. sweep' \in SweepStates
  BY <1>1, <1>2, <1>3, <1>4 DEF SweepGoes
<1>6. gateRows' \in GateRows
  BY <1>1, <1>2, <1>3, <1>4 DEF GateRows
<1>7. RestTyped'
  BY <1>1, <1>2, <1>3, <1>4 DEF RestTyped, SweepGoes
<1>8. FlagsTyped'
  <2>1. unsafe' = ~unsafe \/ unsafe' = unsafe
    BY DEF OwnersMove
  <2> QED BY <1>1, <1>3, <2>1, Zenon DEF FlagsTyped
<1>9. LoopIsOrdered'
  BY <1>1, <1>2, <1>3, <1>4
     DEF LoopIsOrdered, EndsAreKept, Decided, AllPassed, SweepGoes, GateRows, SweepStates
<1>10. EndsAreKept'
  BY <1>1, <1>2, <1>3, <1>4
     DEF EndsAreKept, LoopIsOrdered, Decided, AllPassed, Swept, SweepGoes, GateRows, SweepStates
<1>11. NeedsPrecede'
  BY <1>1, <1>2, <1>3, <1>4
     DEF NeedsPrecede, PrerequisitesPassed, Decided, SweepGoes, GateRows, SweepStates
<1>12. NothingIsMissed'
  BY <1>1, <1>2, <1>3, <1>4 DEF NothingIsMissed, SweepGoes
<1> QED BY <1>5, <1>6, <1>7, <1>8, <1>9, <1>10, <1>11, <1>12 DEF SweepInv

\* A signal only waits to be read.
LEMMA SignalSweepKeeps == SweepInv /\ SignalSweep => SweepInv'
<1> SUFFICES ASSUME SweepInv, SignalSweep PROVE SweepInv'
  OBVIOUS
<1>1. sweep \in SweepStates /\ gateRows \in GateRows /\ RestTyped /\ FlagsTyped
  BY DEF SweepInv
<1>2. LoopIsOrdered /\ EndsAreKept /\ NeedsPrecede /\ NothingIsMissed
  BY DEF SweepInv
<1>3. /\ signalled' = TRUE
      /\ UNCHANGED sweep /\ UNCHANGED <<gateRows, needs, edited, live, base, unsafe, report,
                                        spoiled, moves>>
  BY DEF SignalSweep
<1>4. SweepGoes(sweep.pc, sweep.k, sweep.result)
  BY <1>1, <1>3 DEF SweepGoes
<1>5. sweep' \in SweepStates
  BY <1>1, <1>2, <1>3, <1>4 DEF SweepGoes
<1>6. gateRows' \in GateRows
  BY <1>1, <1>2, <1>3, <1>4 DEF GateRows
<1>7. RestTyped'
  BY <1>1, <1>2, <1>3, <1>4 DEF RestTyped, SweepGoes
<1>8. FlagsTyped'
  BY <1>1, <1>3, <1>4, Zenon DEF FlagsTyped
<1>9. LoopIsOrdered'
  BY <1>1, <1>2, <1>3, <1>4
     DEF LoopIsOrdered, EndsAreKept, Decided, AllPassed, SweepGoes, GateRows, SweepStates
<1>10. EndsAreKept'
  BY <1>1, <1>2, <1>3, <1>4
     DEF EndsAreKept, LoopIsOrdered, Decided, AllPassed, Swept, SweepGoes, GateRows, SweepStates
<1>11. NeedsPrecede'
  BY <1>1, <1>2, <1>3, <1>4
     DEF NeedsPrecede, PrerequisitesPassed, Decided, SweepGoes, GateRows, SweepStates
<1>12. NothingIsMissed'
  BY <1>1, <1>2, <1>3, <1>4 DEF NothingIsMissed, SweepGoes
<1> QED BY <1>5, <1>6, <1>7, <1>8, <1>9, <1>10, <1>11, <1>12 DEF SweepInv

\* A sweep begins with nothing decided.
LEMMA SweepInitInv == SweepInit => SweepInv
<1> SUFFICES ASSUME SweepInit PROVE SweepInv
  OBVIOUS
<1>1. /\ sweep = [pc |-> "health", k |-> 1, result |-> 1, completed |-> FALSE]
      /\ gateRows = [g \in Gate |-> "unrun"]
      /\ needs \in [Gate -> SUBSET Gate] /\ \A g \in Gate : needs[g] \subseteq 1 .. g - 1
      /\ live \in SUBSET Scopes /\ base = {} /\ report = -1 /\ moves = 0
  BY DEF SweepInit
<1>2. spoiled = FALSE
  BY DEF SweepInit
<1>3. sweep \in SweepStates
  <2> DEFINE f == FALSE
  <2>1. f \in BOOLEAN
    BY Zenon
  <2>2. sweep = [pc |-> "health", k |-> 1, result |-> 1, completed |-> f]
    BY <1>1
  <2> HIDE DEF f
  <2> QED BY <2>1, <2>2 DEF SweepStates
<1>4. gateRows \in GateRows /\ RestTyped
  BY <1>1 DEF GateRows, RestTyped
<1>5. FlagsTyped
  BY Zenon DEF SweepInit, FlagsTyped
<1>6. sweep.pc = "health" /\ sweep.k = 1 /\ ~sweep.completed
  BY <1>1
<1>7. LoopIsOrdered /\ EndsAreKept
  BY <1>1, <1>6 DEF LoopIsOrdered, EndsAreKept, Swept
<1>8. NeedsPrecede /\ NothingIsMissed
  BY <1>1, <1>2, <1>6 DEF NeedsPrecede, PrerequisitesPassed, NothingIsMissed
<1> QED BY <1>3, <1>4, <1>5, <1>7, <1>8 DEF SweepInv

\* Every step of a sweep, or of those around it, keeps the invariant.
LEMMA SweepStep == SweepInv /\ [SweepNext]_sweepVars => SweepInv'
<1> SUFFICES ASSUME SweepInv, [SweepNext]_sweepVars PROVE SweepInv'
  OBVIOUS
<1>1. CASE SweepNext
  BY <1>1, FirstHealthKeeps, FirstIdentityKeeps, NextGateKeeps, GateEndsKeeps, CheckIdentityKeeps,
     CheckHealthKeeps, SweepCompletesKeeps, CloseSweepKeeps, EditKeeps, OwnersMoveKeeps,
     SignalSweepKeeps, Zenon
     DEF SweepNext
<1>2. CASE UNCHANGED sweepVars
  <2>1. UNCHANGED <<sweep, gateRows, needs, edited, live, base, unsafe, signalled, report, spoiled,
                    moves>>
    BY <1>2 DEF sweepVars
  <2>2. sweep' \in SweepStates /\ gateRows' \in GateRows /\ RestTyped' /\ FlagsTyped'
    <3>1. SweepStates' = SweepStates /\ GateRows' = GateRows
      BY Zenon DEF SweepStates, GateRows
    <3> QED BY <2>1, <3>1, Zenon DEF SweepInv, RestTyped, FlagsTyped
  <2>3. LoopIsOrdered'
    BY <2>1, Zenon DEF SweepInv, LoopIsOrdered, Decided, AllPassed
  <2>4. EndsAreKept'
    BY <2>1, Zenon DEF SweepInv, EndsAreKept, AllPassed, Swept
  <2>5. NeedsPrecede' /\ NothingIsMissed'
    BY <2>1, Zenon DEF SweepInv, NeedsPrecede, NothingIsMissed, PrerequisitesPassed
  <2> QED BY <2>2, <2>3, <2>4, <2>5 DEF SweepInv
<1> QED BY <1>1, <1>2

\* Every reachable state of a sweep is ordered in this way.
THEOREM SweepInvariant == SweepSpec => []SweepInv
  BY SweepInitInv, SweepStep, PTL DEF SweepSpec

\* Every variable of a sweep keeps its type.
THEOREM SweepTypeCorrect == SweepSpec => []SweepTypeOK
<1>1. SweepInv => SweepTypeOK
  BY Zenon DEF SweepInv, SweepTypeOK, SweepStates, GateRows, RestTyped, FlagsTyped
<1> QED BY SweepInvariant, <1>1, PTL

\* A sweep that ends with 0 or 1 has decided every gate, and 0 says that all of
\* them passed; none ran on an edited source or over a prerequisite that did not
\* pass, and no service was left behind.
THEOREM CountingSweeps == SweepSpec => []SweepsCount
<1>1. SweepInv => SweepsCount
  <2> SUFFICES ASSUME SweepInv PROVE SweepsCount
    OBVIOUS
  <2>1. OnlyWholeSweepsCount
    <3> SUFFICES ASSUME Swept PROVE OnlyWholeSweepsCount
      BY DEF OnlyWholeSweepsCount
    <3>1. (\A g \in Gate : gateRows[g] \in Settled) /\ (sweep.result = 0 <=> AllPassed(Gate))
      BY DEF SweepInv, EndsAreKept, Swept
    <3> QED BY <3>1 DEF OnlyWholeSweepsCount, AllPassed
  <2>2. OneSourceVerified /\ CleanupIsVerified
    BY DEF SweepInv, EndsAreKept, Swept, OneSourceVerified, CleanupIsVerified, NothingIsMissed
  <2>3. PrerequisitesPassed
    BY DEF SweepInv, NeedsPrecede
  <2> QED BY <2>1, <2>2, <2>3 DEF SweepsCount
<1> QED BY SweepInvariant, <1>1, PTL
----------------------------------------------------------------------------
(* The export: the invariant.                                              *)

ExportPhases == {"preparation", "resolution", "inspection", "verification"}
ExportPlaces == {"request", "record", "work", "read", "store", "publish", "accept", "judge",
                 "write", "exit", "killed"}
Working == {"record", "work", "read", "store", "publish", "accept"}
RunStates == [phase : ExportPhases, code : 0 .. 143, unsupported : BOOLEAN, seen : Outcomes,
              at : ExportPlaces]
ResultStates == [outcome : Outcomes, stage : ExportStages, code : NoCode .. 143, accepted : BOOLEAN]
VerdictStates == [code : {NoCode, 0, 1}, tree : [ExportFiles -> Bodies]]
ControlTyped ==
  /\ run \in RunStates /\ request \in ExportStages /\ resultFile \in ResultStates
  /\ verdict \in VerdictStates /\ flow \in {"source", "consumer"}
  /\ snapshotMark \in BOOLEAN

\* The marks of stray writes are new ones.
FilesTyped ==
  /\ snapshot \in [ExportFiles -> Bodies] /\ blobs \in [ExportFiles -> Bodies]
  /\ tree \in [ExportFiles -> 0 .. writes + 1] /\ inspected \in [ExportFiles -> -1 .. writes + 1]
  /\ writes \in 0 .. MaxWrites

\* The snapshot is filled file by file behind the inspection, and accepted when
\* it is whole and the candidate is still the inspected one.  A file that was
\* written to meanwhile never again reads as it was inspected.
CaptureInv ==
  /\ snapshotMark <=> run.phase = "verification"
  /\ run.phase \in {"preparation", "resolution"} => snapshot = NoFiles /\ blobs = NoFiles
  /\ run.phase = "inspection" /\ run.at \in {"request", "record", "work"} =>
       snapshot = NoFiles /\ blobs = NoFiles
  /\ run.at \in {"read", "store", "publish", "accept"} =>
       run.phase = "inspection" /\ \A f \in ExportFiles : inspected[f] >= 0
  /\ run.at = "read" => blobs = NoFiles
  /\ run.at \in {"read", "store", "publish"} =>
       \A f \in ExportFiles : snapshot[f] # -1 /\ tree[f] = inspected[f] => snapshot[f] = inspected[f]
  /\ run.at \in {"store", "publish"} =>
       ExportFiles # {} /\ \A f \in ExportFiles : snapshot[f] # -1
  /\ run.at = "store" => \A f \in ExportFiles : blobs[f] \in {-1, snapshot[f]}
  /\ run.at = "publish" => blobs = snapshot
  /\ run.at = "accept" \/ snapshotMark =>
       /\ ExportFiles # {} /\ \A f \in ExportFiles : inspected[f] >= 0
       /\ snapshot = inspected /\ blobs = inspected

\* The request names the phase that works, and says "verification" or "complete"
\* of an accepted snapshot only; a worker ends with 0 when its gates passed, on
\* files that are the inspected ones unless they were written to since.
RequestInv ==
  /\ run.at \in Working => request = run.phase
  /\ run.at = "request" => request # "complete"
  /\ request \in {"verification", "complete"} => snapshotMark
  /\ run.at = "judge" /\ request = "complete" => run.code \in Interrupts
  /\ run.at = "judge" /\ run.code = 0 => request = "verification" /\ verdict.code = 0
  /\ verdict.code # NoCode =>
       /\ snapshotMark
       /\ \A f \in ExportFiles : tree[f] = inspected[f] => verdict.tree[f] = inspected[f]

\* What an outcome claims of the code, the stage and the snapshot beside it.
Fits(outcome, stage, code, accepted) ==
  /\ outcome \in Successes =>
       accepted /\ code = 0 /\ stage = "complete" /\ verdict.code = 0 /\ verdict.tree = snapshot
  /\ outcome = "accepted_verification_failed" =>
       accepted /\ code \notin {NoCode, 0} /\ stage = "verification"
  /\ outcome \in {"failure_before_acceptance", "unsupported"} =>
       ~accepted /\ code \notin {NoCode, 0}
  /\ outcome = "complete_no_change" => snapshot = Base
  /\ outcome = "verified_success" => snapshot # Base
  /\ code \in Interrupts => outcome = "interrupted_or_unknown"

\* What is about to be written fits, and so does what was written.  An outcome
\* that says anything is written last.
JudgedInv == run.at = "write" => Fits(run.seen, request, run.code, snapshotMark)
ResultInv ==
  /\ Fits(resultFile.outcome, resultFile.stage, resultFile.code, resultFile.accepted)
  /\ resultFile.accepted => snapshotMark
  /\ resultFile.outcome \notin {"none", "interrupted_or_unknown"} => run.at = "exit"

ExportInv == ControlTyped /\ FilesTyped /\ CaptureInv /\ RequestInv /\ JudgedInv /\ ResultInv

----------------------------------------------------------------------------
(* The export: every operation keeps it.                                   *)

\* The worker goes on as this record, field by field.
Runs(phase, code, at, seen) ==
  /\ run' \in RunStates
  /\ run'.phase = phase /\ run'.code = code /\ run'.at = at /\ run'.seen = seen

USE ExportAssumption

\* Each form of step of the worker, as its fields: it goes to another place, ends,
\* enters a phase, ends as unsupported, or is about to write what it found.
LEMMA Moves ==
  ASSUME run \in RunStates, NEW at \in ExportPlaces, run' = [run EXCEPT !.at = at]
  PROVE  Runs(run.phase, run.code, at, run.seen)
<1>1. run' \in RunStates
  BY DEF RunStates, ExportPhases, Outcomes, ExportPlaces
<1> QED BY <1>1 DEF RunStates, Runs

\* The same, for this form.
LEMMA EndsMoves ==
  ASSUME run \in RunStates, NEW code \in 0 .. 143, Ends(code)
  PROVE  Runs(run.phase, code, "judge", run.seen)
<1>1. run' \in RunStates
  BY DEF RunStates, ExportPhases, Outcomes, ExportPlaces, Ends
<1> QED BY <1>1 DEF RunStates, Runs, Ends

\* The same, for this form.
LEMMA EntersMoves ==
  ASSUME run \in RunStates, NEW phase \in ExportPhases, Enters(phase)
  PROVE  Runs(phase, run.code, "request", run.seen)
<1>1. run' \in RunStates
  BY DEF RunStates, ExportPhases, Outcomes, ExportPlaces, Enters
<1> QED BY <1>1 DEF RunStates, Runs, Enters

\* The same, for this form.
LEMMA UnsupportedMoves ==
  ASSUME run \in RunStates,
         run' = [run EXCEPT !.at = "judge", !.code = 1, !.unsupported = TRUE]
  PROVE  Runs(run.phase, 1, "judge", run.seen)
<1> DEFINE t == TRUE
           y == [run EXCEPT !.at = "judge"]
           x == [y EXCEPT !.code = 1]
<1>1. t \in BOOLEAN
  BY Zenon
<1>2. x \in RunStates
  <2>1. y \in RunStates
    BY DEF RunStates, ExportPlaces
  <2> HIDE DEF y
  <2> QED BY <2>1 DEF RunStates
<1>3. x.phase = run.phase /\ x.code = 1 /\ x.at = "judge" /\ x.seen = run.seen
  BY DEF RunStates
<1>4. run' = [x EXCEPT !.unsupported = t]
  OBVIOUS
<1> HIDE DEF t, x
<1>5. run' \in RunStates
  BY <1>1, <1>2, <1>4 DEF RunStates
<1> QED BY <1>2, <1>3, <1>4, <1>5 DEF RunStates, Runs

\* The same, for this form.
LEMMA WriteMoves ==
  ASSUME run \in RunStates, NEW seen \in Outcomes, NEW code \in 0 .. 143,
         run' = [run EXCEPT !.at = "write", !.seen = seen, !.code = code]
  PROVE  Runs(run.phase, code, "write", seen)
<1>1. run' \in RunStates
  BY DEF RunStates, ExportPhases, Outcomes, ExportPlaces
<1> QED BY <1>1 DEF RunStates, Runs

\* The request names the phase that begins.
LEMMA RecordRequestFits == ExportInv /\ RecordRequest => ExportInv'
<1> SUFFICES ASSUME ExportInv, RecordRequest PROVE ExportInv'
  OBVIOUS
<1>1. ControlTyped /\ FilesTyped
  BY DEF ExportInv
<1>2. CaptureInv /\ RequestInv /\ JudgedInv /\ ResultInv
  BY DEF ExportInv
<1>3. run.at = "request" /\ request' = run.phase
      /\ UNCHANGED <<flow, resultFile, snapshot, blobs, snapshotMark, tree, inspected, verdict,
                     writes>>
  BY DEF RecordRequest
<1>4. Runs(run.phase, run.code, "record", run.seen)
  <2>1. run \in RunStates /\ 1 \in 0 .. 143
    BY <1>1 DEF ControlTyped, RunStates
  <2>2. "record" \in ExportPlaces /\ run' = [run EXCEPT !.at = "record"]
    BY DEF RecordRequest, ExportPlaces
  <2> QED BY <1>1, <2>1, <2>2, Moves DEF ControlTyped
<1>5. run.phase = "verification" <=> snapshotMark
  BY <1>2 DEF CaptureInv
<1>6. ControlTyped'
  BY <1>1, <1>3, <1>4, <1>5 DEF ControlTyped, Runs, ExportStages, RunStates, ExportPhases
<1>7. FilesTyped'
  BY <1>1, <1>3, <1>4, <1>5 DEF FilesTyped, Bodies
<1>8. CaptureInv'
  BY <1>1, <1>2, <1>3, <1>4, <1>5 DEF CaptureInv, Runs, ControlTyped
<1>9. RequestInv'
  BY <1>1, <1>2, <1>3, <1>4, <1>5, <1>5
    
     DEF RequestInv, Runs, Working, RunStates, ExportPhases, ControlTyped
<1>10. JudgedInv'
  BY <1>1, <1>2, <1>3, <1>4, <1>5 DEF JudgedInv, Runs, Fits, ControlTyped
<1>11. ResultInv'
  BY <1>1, <1>2, <1>3, <1>4, <1>5 DEF ResultInv, Runs, Fits, Successes, ControlTyped
<1> QED BY <1>6, <1>7, <1>8, <1>9, <1>10, <1>11 DEF ExportInv

\* A phase that fails ends the worker.
LEMMA PhaseFailsFits == ExportInv /\ PhaseFails => ExportInv'
<1> SUFFICES ASSUME ExportInv, PhaseFails PROVE ExportInv'
  OBVIOUS
<1>1. ControlTyped /\ FilesTyped
  BY DEF ExportInv
<1>2. CaptureInv /\ RequestInv /\ JudgedInv /\ ResultInv
  BY DEF ExportInv
<1>3. run.at \in {"work", "read", "store"}
      /\ UNCHANGED <<flow, request, resultFile, snapshot, blobs, snapshotMark, tree, inspected,
                     verdict, writes>>
  BY DEF PhaseFails, In
<1>4. Runs(run.phase, 1, "judge", run.seen)
  <2>1. run \in RunStates /\ 1 \in 0 .. 143
    BY <1>1 DEF ControlTyped, RunStates
  <2>2. Ends(1)
    BY DEF PhaseFails
  <2> QED BY <1>1, <2>1, <2>2, EndsMoves DEF ControlTyped
<1>5. ControlTyped'
  BY <1>1, <1>3, <1>4 DEF ControlTyped, Runs, ExportStages
<1>6. FilesTyped'
  BY <1>1, <1>3, <1>4 DEF FilesTyped, Bodies
<1>7. CaptureInv'
  BY <1>1, <1>2, <1>3, <1>4 DEF CaptureInv, Runs, ControlTyped
<1>8. RequestInv'
  BY <1>1, <1>2, <1>3, <1>4
     DEF RequestInv, Runs, Working, RunStates, ExportPhases, ControlTyped
<1>9. JudgedInv'
  BY <1>1, <1>2, <1>3, <1>4 DEF JudgedInv, Runs, Fits, ControlTyped
<1>10. ResultInv'
  BY <1>1, <1>2, <1>3, <1>4 DEF ResultInv, Runs, Fits, Successes, ControlTyped
<1> QED BY <1>5, <1>6, <1>7, <1>8, <1>9, <1>10 DEF ExportInv

\* The result says that nothing is known, or the worker gives up on its snapshot.
LEMMA RecordResultFits == ExportInv /\ RecordResult => ExportInv'
<1> SUFFICES ASSUME ExportInv, RecordResult PROVE ExportInv'
  OBVIOUS
<1>1. ControlTyped /\ FilesTyped
  BY DEF ExportInv
<1>2. CaptureInv /\ RequestInv /\ JudgedInv /\ ResultInv
  BY DEF ExportInv
<1>3. run.at = "record"
      /\ UNCHANGED <<flow, request, snapshot, blobs, snapshotMark, tree, inspected, verdict,
                     writes>>
  BY DEF RecordResult
<1>4. Runs(run.phase, 1, "judge", run.seen) \/ Runs(run.phase, run.code, "work", run.seen)
  <2>1. run \in RunStates /\ 1 \in 0 .. 143
    BY <1>1 DEF ControlTyped, RunStates
  <2>2. Ends(1) \/ run' = [run EXCEPT !.at = "work"]
    BY DEF RecordResult
  <2>3. "work" \in ExportPlaces
    BY DEF ExportPlaces
  <2> QED BY <1>1, <2>1, <2>2, <2>3, Moves, EndsMoves DEF ControlTyped
<1>5. /\ resultFile' \in ResultStates
      /\ \/ resultFile' = resultFile
         \/ /\ resultFile'.outcome = "interrupted_or_unknown" /\ resultFile'.code = NoCode
            /\ resultFile'.accepted = snapshotMark
  <2>1. resultFile' = resultFile \/ resultFile' = StageResult
    BY DEF RecordResult
  <2>2. StageResult \in ResultStates
    <3>1. StageResult = [outcome |-> "interrupted_or_unknown", stage |-> request, code |-> NoCode,
                         accepted |-> snapshotMark]
      BY DEF StageResult, ResultOf
    <3>2. snapshotMark \in BOOLEAN
      BY <1>1 DEF ControlTyped
    <3> QED BY <1>1, <3>1, <3>2 DEF ControlTyped, ResultStates, Outcomes, NoCode
  <2> QED BY <1>1, <2>1, <2>2 DEF StageResult, ResultOf, ControlTyped
<1>6. ControlTyped'
  <2>1. run' \in RunStates
    BY <1>4 DEF Runs
  <2>2. resultFile' \in ResultStates
    BY <1>5
  <2> QED BY <1>1, <1>3, <2>1, <2>2 DEF ControlTyped
<1>7. FilesTyped'
  BY <1>1, <1>3, <1>4, <1>5 DEF FilesTyped, Bodies
<1>8. CaptureInv'
  BY <1>1, <1>2, <1>3, <1>4, <1>5 DEF CaptureInv, Runs, ControlTyped
<1>9. RequestInv'
  BY <1>1, <1>2, <1>3, <1>4, <1>5
     DEF RequestInv, Runs, Working, RunStates, ExportPhases, ControlTyped
<1>10. JudgedInv'
  BY <1>1, <1>2, <1>3, <1>4, <1>5 DEF JudgedInv, Runs, Fits, ControlTyped
<1>11. ResultInv'
  BY <1>1, <1>2, <1>3, <1>4, <1>5 DEF ResultInv, Runs, Fits, Successes, ControlTyped
<1> QED BY <1>6, <1>7, <1>8, <1>9, <1>10, <1>11 DEF ExportInv

\* Preparation ends well.
LEMMA PreparationFits == ExportInv /\ Preparation => ExportInv'
<1> SUFFICES ASSUME ExportInv, Preparation PROVE ExportInv'
  OBVIOUS
<1>1. ControlTyped /\ FilesTyped
  BY DEF ExportInv
<1>2. CaptureInv /\ RequestInv /\ JudgedInv /\ ResultInv
  BY DEF ExportInv
<1>3. run.at = "work" /\ run.phase = "preparation"
      /\ UNCHANGED <<flow, request, resultFile, snapshot, blobs, snapshotMark, tree, inspected,
                     verdict, writes>>
  BY DEF Preparation, In
<1>4. Runs("resolution", run.code, "request", run.seen)
  <2>1. run \in RunStates /\ Enters("resolution")
    BY <1>1 DEF Preparation, ControlTyped
  <2>2. "resolution" \in ExportPhases
    BY DEF ExportPhases
  <2> QED BY <2>1, <2>2, EntersMoves
<1>5. ControlTyped'
  BY <1>1, <1>3, <1>4 DEF ControlTyped, Runs, ExportStages
<1>6. FilesTyped'
  BY <1>1, <1>3, <1>4 DEF FilesTyped, Bodies
<1>7. CaptureInv'
  BY <1>1, <1>2, <1>3, <1>4 DEF CaptureInv, Runs, ControlTyped
<1>8. RequestInv'
  BY <1>1, <1>2, <1>3, <1>4
     DEF RequestInv, Runs, Working, RunStates, ExportPhases, ControlTyped
<1>9. JudgedInv'
  BY <1>1, <1>2, <1>3, <1>4 DEF JudgedInv, Runs, Fits, ControlTyped
<1>10. ResultInv'
  BY <1>1, <1>2, <1>3, <1>4 DEF ResultInv, Runs, Fits, Successes, ControlTyped
<1> QED BY <1>5, <1>6, <1>7, <1>8, <1>9, <1>10 DEF ExportInv

\* The resolver has written what it changed.
LEMMA ResolutionFits == ExportInv /\ Resolution => ExportInv'
<1> SUFFICES ASSUME ExportInv, Resolution PROVE ExportInv'
  OBVIOUS
<1>1. ControlTyped /\ FilesTyped
  BY DEF ExportInv
<1>2. CaptureInv /\ RequestInv /\ JudgedInv /\ ResultInv
  BY DEF ExportInv
<1>3. run.at = "work" /\ run.phase = "resolution"
      /\ UNCHANGED <<flow, request, resultFile, snapshot, blobs, snapshotMark, inspected, verdict,
                     writes>>
  BY DEF Resolution, In
<1>4. Runs("inspection", run.code, "request", run.seen)
  <2>1. run \in RunStates /\ Enters("inspection")
    BY <1>1 DEF Resolution, ControlTyped
  <2>2. "inspection" \in ExportPhases
    BY DEF ExportPhases
  <2> QED BY <2>1, <2>2, EntersMoves
<1>5. tree' \in [ExportFiles -> 0 .. writes + 1] /\ verdict.code = NoCode
  <2>1. \E W \in SUBSET ExportFiles : tree' = [f \in ExportFiles |-> IF f \in W THEN 1 ELSE tree[f]]
    BY DEF Resolution
  <2>2. verdict.code = NoCode
    BY <1>2, <1>3 DEF RequestInv, CaptureInv
  <2> QED BY <1>1, <2>1, <2>2 DEF FilesTyped
<1>6. ControlTyped'
  BY <1>1, <1>3, <1>4, <1>5 DEF ControlTyped, Runs, ExportStages
<1>7. FilesTyped'
  BY <1>1, <1>3, <1>4, <1>5 DEF FilesTyped, Bodies
<1>8. CaptureInv'
  BY <1>1, <1>2, <1>3, <1>4, <1>5 DEF CaptureInv, Runs, ControlTyped
<1>9. RequestInv'
  BY <1>1, <1>2, <1>3, <1>4, <1>5
     DEF RequestInv, Runs, Working, RunStates, ExportPhases, ControlTyped
<1>10. JudgedInv'
  BY <1>1, <1>2, <1>3, <1>4, <1>5 DEF JudgedInv, Runs, Fits, ControlTyped
<1>11. ResultInv'
  BY <1>1, <1>2, <1>3, <1>4, <1>5 DEF ResultInv, Runs, Fits, Successes, ControlTyped
<1> QED BY <1>6, <1>7, <1>8, <1>9, <1>10, <1>11 DEF ExportInv

\* The candidate is inspected, before anything of it is captured.
LEMMA InspectionFits == ExportInv /\ Inspection => ExportInv'
<1> SUFFICES ASSUME ExportInv, Inspection PROVE ExportInv'
  OBVIOUS
<1>1. ControlTyped /\ FilesTyped
  BY DEF ExportInv
<1>2. CaptureInv /\ RequestInv /\ JudgedInv /\ ResultInv
  BY DEF ExportInv
<1>3. run.at = "work" /\ run.phase = "inspection"
      /\ UNCHANGED <<flow, request, resultFile, snapshot, blobs, snapshotMark, tree, verdict,
                     writes>>
  BY DEF Inspection, In
<1>4. Runs(run.phase, run.code, "read", run.seen)
  <2>1. run \in RunStates /\ run' = [run EXCEPT !.at = "read"]
    BY <1>1 DEF Inspection, ControlTyped
  <2>2. "read" \in ExportPlaces
    BY DEF ExportPlaces
  <2> QED BY <2>1, <2>2, Moves
<1>5. inspected' = tree /\ verdict.code = NoCode
  <2>1. verdict.code = NoCode
    BY <1>2, <1>3 DEF RequestInv, CaptureInv
  <2> QED BY <2>1 DEF Inspection
<1>6. ControlTyped'
  BY <1>1, <1>3, <1>4, <1>5 DEF ControlTyped, Runs, ExportStages
<1>7. FilesTyped'
  BY <1>1, <1>3, <1>4, <1>5 DEF FilesTyped, Bodies
<1>8. CaptureInv'
  BY <1>1, <1>2, <1>3, <1>4, <1>5 DEF CaptureInv, Runs, ControlTyped, NoFiles, FilesTyped
<1>9. RequestInv'
  BY <1>1, <1>2, <1>3, <1>4, <1>5
     DEF RequestInv, Runs, Working, RunStates, ExportPhases, ControlTyped
<1>10. JudgedInv'
  BY <1>1, <1>2, <1>3, <1>4, <1>5 DEF JudgedInv, Runs, Fits, ControlTyped
<1>11. ResultInv'
  BY <1>1, <1>2, <1>3, <1>4, <1>5 DEF ResultInv, Runs, Fits, Successes, ControlTyped
<1> QED BY <1>6, <1>7, <1>8, <1>9, <1>10, <1>11 DEF ExportInv

\* Evidence that cannot be exported ends the worker.
LEMMA UnsupportedFits == ExportInv /\ Unsupported => ExportInv'
<1> SUFFICES ASSUME ExportInv, Unsupported PROVE ExportInv'
  OBVIOUS
<1>1. ControlTyped /\ FilesTyped
  BY DEF ExportInv
<1>2. CaptureInv /\ RequestInv /\ JudgedInv /\ ResultInv
  BY DEF ExportInv
<1>3. run.at = "read" /\ run.phase = "inspection"
      /\ UNCHANGED <<flow, request, resultFile, snapshot, blobs, snapshotMark, tree, inspected,
                     verdict, writes>>
  BY DEF Unsupported, In
<1>4. Runs(run.phase, 1, "judge", run.seen)
  <2>1. /\ run \in RunStates
        /\ run' = [run EXCEPT !.at = "judge", !.code = 1, !.unsupported = TRUE]
    BY <1>1 DEF Unsupported, ControlTyped
  <2> QED BY <2>1, UnsupportedMoves
<1>5. ControlTyped'
  BY <1>1, <1>3, <1>4 DEF ControlTyped, Runs, ExportStages
<1>6. FilesTyped'
  BY <1>1, <1>3, <1>4 DEF FilesTyped, Bodies
<1>7. CaptureInv'
  BY <1>1, <1>2, <1>3, <1>4 DEF CaptureInv, Runs, ControlTyped
<1>8. RequestInv'
  BY <1>1, <1>2, <1>3, <1>4
     DEF RequestInv, Runs, Working, RunStates, ExportPhases, ControlTyped
<1>9. JudgedInv'
  BY <1>1, <1>2, <1>3, <1>4 DEF JudgedInv, Runs, Fits, ControlTyped
<1>10. ResultInv'
  BY <1>1, <1>2, <1>3, <1>4 DEF ResultInv, Runs, Fits, Successes, ControlTyped
<1> QED BY <1>5, <1>6, <1>7, <1>8, <1>9, <1>10 DEF ExportInv

\* The whole snapshot is published of an unchanged candidate, or the worker gives up.
LEMMA PublishSnapshotFits == ExportInv /\ PublishSnapshot => ExportInv'
<1> SUFFICES ASSUME ExportInv, PublishSnapshot PROVE ExportInv'
  OBVIOUS
<1>1. ControlTyped /\ FilesTyped
  BY DEF ExportInv
<1>2. CaptureInv /\ RequestInv /\ JudgedInv /\ ResultInv
  BY DEF ExportInv
<1>3. run.at = "publish" /\ run.phase = "inspection"
      /\ UNCHANGED <<flow, request, resultFile, snapshot, blobs, snapshotMark, tree, inspected,
                     verdict, writes>>
  BY DEF PublishSnapshot, In
<1>4. Runs(run.phase, 1, "judge", run.seen) \/ (tree = inspected /\ Runs(run.phase, run.code, "accept", run.seen))
  <2>1. run \in RunStates /\ 1 \in 0 .. 143 /\ "accept" \in ExportPlaces
    BY <1>1 DEF ControlTyped, ExportPlaces
  <2>2. Ends(1) \/ (tree = inspected /\ run' = [run EXCEPT !.at = "accept"])
    BY Zenon DEF PublishSnapshot, CaptureHolds
  <2> QED BY <2>1, <2>2, EndsMoves, Moves
<1>5. tree = inspected => snapshot = inspected /\ blobs = inspected
  <2> SUFFICES ASSUME tree = inspected PROVE snapshot = inspected /\ blobs = inspected
    OBVIOUS
  <2>1. /\ \A f \in ExportFiles : snapshot[f] # -1 /\ tree[f] = inspected[f] => snapshot[f] = inspected[f]
        /\ \A f \in ExportFiles : snapshot[f] # -1
        /\ blobs = snapshot
    BY <1>2, <1>3 DEF CaptureInv
  <2>2. \A f \in ExportFiles : snapshot[f] = inspected[f]
    BY <2>1
  <2> QED BY <1>1, <2>1, <2>2 DEF FilesTyped
<1>6. ControlTyped'
  BY <1>1, <1>3, <1>4, <1>5 DEF ControlTyped, Runs, ExportStages
<1>7. FilesTyped'
  BY <1>1, <1>3, <1>4, <1>5 DEF FilesTyped, Bodies
<1>8. CaptureInv'
  BY <1>1, <1>2, <1>3, <1>4, <1>5 DEF CaptureInv, Runs, ControlTyped
<1>9. RequestInv'
  BY <1>1, <1>2, <1>3, <1>4, <1>5
     DEF RequestInv, Runs, Working, RunStates, ExportPhases, ControlTyped
<1>10. JudgedInv'
  BY <1>1, <1>2, <1>3, <1>4, <1>5 DEF JudgedInv, Runs, Fits, ControlTyped
<1>11. ResultInv'
  BY <1>1, <1>2, <1>3, <1>4, <1>5 DEF ResultInv, Runs, Fits, Successes, ControlTyped
<1> QED BY <1>6, <1>7, <1>8, <1>9, <1>10, <1>11 DEF ExportInv

\* The snapshot is accepted.
LEMMA AcceptSnapshotFits == ExportInv /\ AcceptSnapshot => ExportInv'
<1> SUFFICES ASSUME ExportInv, AcceptSnapshot PROVE ExportInv'
  OBVIOUS
<1>1. ControlTyped /\ FilesTyped
  BY DEF ExportInv
<1>2. CaptureInv /\ RequestInv /\ JudgedInv /\ ResultInv
  BY DEF ExportInv
<1>3. /\ run.at = "accept" /\ run.phase = "inspection" /\ snapshotMark' = TRUE
      /\ UNCHANGED <<flow, request, resultFile, snapshot, blobs, tree, inspected, verdict, writes>>
  BY DEF AcceptSnapshot, In
<1>4. Runs("verification", run.code, "request", run.seen)
  <2>1. run \in RunStates /\ Enters("verification")
    BY <1>1 DEF AcceptSnapshot, ControlTyped
  <2>2. "verification" \in ExportPhases
    BY DEF ExportPhases
  <2> QED BY <2>1, <2>2, EntersMoves
<1>5. snapshotMark' \in BOOLEAN
  BY <1>3, Zenon
<1>6. ControlTyped'
  BY <1>1, <1>3, <1>4, <1>5 DEF ControlTyped, Runs, ExportStages
<1>7. FilesTyped'
  BY <1>1, <1>3, <1>4, <1>5 DEF FilesTyped, Bodies
<1>8. CaptureInv'
  BY <1>1, <1>2, <1>3, <1>4, <1>5 DEF CaptureInv, Runs, ControlTyped
<1>9. RequestInv'
  BY <1>1, <1>2, <1>3, <1>4, <1>5
     DEF RequestInv, Runs, Working, RunStates, ExportPhases, ControlTyped
<1>10. JudgedInv'
  BY <1>1, <1>2, <1>3, <1>4, <1>5 DEF JudgedInv, Runs, Fits, ControlTyped
<1>11. ResultInv'
  BY <1>1, <1>2, <1>3, <1>4, <1>5 DEF ResultInv, Runs, Fits, Successes, ControlTyped
<1> QED BY <1>6, <1>7, <1>8, <1>9, <1>10, <1>11 DEF ExportInv

\* The gates ran on the candidate, and their code ends the worker.
LEMMA VerificationFits == ExportInv /\ Verification => ExportInv'
<1> SUFFICES ASSUME ExportInv, Verification PROVE ExportInv'
  OBVIOUS
<1>1. ControlTyped /\ FilesTyped
  BY DEF ExportInv
<1>2. CaptureInv /\ RequestInv /\ JudgedInv /\ ResultInv
  BY DEF ExportInv
<1>3. run.at = "work" /\ run.phase = "verification"
      /\ UNCHANGED <<flow, request, resultFile, snapshot, blobs, snapshotMark, tree, inspected,
                     writes>>
  BY DEF Verification, In
<1>4. \E code \in {0, 1} :
        /\ Runs(run.phase, code, "judge", run.seen)
        /\ verdict' \in VerdictStates /\ verdict'.code = code /\ verdict'.tree = tree
  <2>1. PICK code \in {0, 1} : verdict' = [code |-> code, tree |-> tree] /\ Ends(code)
    <3>1. (IF inspected = Base THEN {0} ELSE {0, 1}) \subseteq {0, 1}
      OBVIOUS
    <3> QED BY <3>1, Zenon DEF Verification
  <2>2. Runs(run.phase, code, "judge", run.seen)
    BY <1>1, <2>1, EndsMoves DEF ControlTyped
  <2>3. tree \in [ExportFiles -> Bodies]
    BY <1>1 DEF FilesTyped, Bodies
  <2>4. verdict' \in VerdictStates /\ verdict'.code = code /\ verdict'.tree = tree
    BY <2>1, <2>3 DEF VerdictStates
  <2> QED BY <2>2, <2>4
<1>5. ControlTyped'
  BY <1>1, <1>3, <1>4 DEF ControlTyped, Runs, ExportStages
<1>6. FilesTyped'
  BY <1>1, <1>3, <1>4 DEF FilesTyped, Bodies
<1>7. CaptureInv'
  BY <1>1, <1>2, <1>3, <1>4 DEF CaptureInv, Runs, ControlTyped
<1>8. RequestInv'
  BY <1>1, <1>2, <1>3, <1>4
     DEF RequestInv, Runs, Working, RunStates, ExportPhases, ControlTyped
<1>9. JudgedInv'
  BY <1>1, <1>2, <1>3, <1>4 DEF JudgedInv, Runs, Fits, ControlTyped
<1>10. ResultInv'
  BY <1>1, <1>2, <1>3, <1>4 DEF ResultInv, Runs, Fits, Successes, ControlTyped
<1> QED BY <1>5, <1>6, <1>7, <1>8, <1>9, <1>10 DEF ExportInv

\* Nothing was requested.
LEMMA FinishUnrequestedFits == ExportInv /\ FinishUnrequested => ExportInv'
<1> SUFFICES ASSUME ExportInv, FinishUnrequested PROVE ExportInv'
  OBVIOUS
<1>1. ControlTyped /\ FilesTyped
  BY DEF ExportInv
<1>2. CaptureInv /\ RequestInv /\ JudgedInv /\ ResultInv
  BY DEF ExportInv
<1>3. run.at = "judge" /\ request = "none"
      /\ UNCHANGED <<flow, request, resultFile, snapshot, blobs, snapshotMark, tree, inspected,
                     verdict, writes>>
  BY DEF FinishUnrequested
<1>4. Runs(run.phase, run.code, "exit", run.seen)
  <2>1. run \in RunStates /\ "exit" \in ExportPlaces /\ run' = [run EXCEPT !.at = "exit"]
    BY <1>1 DEF FinishUnrequested, ControlTyped, ExportPlaces
  <2> QED BY <2>1, Moves
<1>5. ControlTyped'
  BY <1>1, <1>3, <1>4 DEF ControlTyped, Runs, ExportStages
<1>6. FilesTyped'
  BY <1>1, <1>3, <1>4 DEF FilesTyped, Bodies
<1>7. CaptureInv'
  BY <1>1, <1>2, <1>3, <1>4 DEF CaptureInv, Runs, ControlTyped
<1>8. RequestInv'
  BY <1>1, <1>2, <1>3, <1>4
     DEF RequestInv, Runs, Working, RunStates, ExportPhases, ControlTyped
<1>9. JudgedInv'
  BY <1>1, <1>2, <1>3, <1>4 DEF JudgedInv, Runs, Fits, ControlTyped
<1>10. ResultInv'
  BY <1>1, <1>2, <1>3, <1>4 DEF ResultInv, Runs, Fits, Successes, ControlTyped
<1> QED BY <1>5, <1>6, <1>7, <1>8, <1>9, <1>10 DEF ExportInv

\* The outcome is found from the code, the request and the snapshot; a success becomes
\* the request's last stage.
LEMMA FinishExportFits == ExportInv /\ FinishExport => ExportInv'
<1> SUFFICES ASSUME ExportInv, FinishExport PROVE ExportInv'
  OBVIOUS
<1>1. ControlTyped /\ FilesTyped
  BY DEF ExportInv
<1>2. CaptureInv /\ RequestInv /\ JudgedInv /\ ResultInv
  BY DEF ExportInv
<1>3. run.at = "judge" /\ request # "none"
      /\ UNCHANGED <<flow, resultFile, snapshot, blobs, snapshotMark, tree, inspected, verdict,
                     writes>>
  BY DEF FinishExport
<1>4. OutcomeOf \in Outcomes /\ Fits(OutcomeOf, IF OutcomeOf \in Successes THEN "complete" ELSE request,
             IF run.code = 0 /\ OutcomeOf \notin Successes THEN 1 ELSE run.code, snapshotMark)
  <2>1. run.code \in 0 .. 143 /\ request \in ExportStages
    BY <1>1 DEF ControlTyped, RunStates
  <2>2. run.code = 0 => request = "verification" /\ verdict.code = 0 /\ snapshotMark
    BY <1>2, <1>3 DEF RequestInv
  <2>3. CASE run.code \in Interrupts
    <3>1. OutcomeOf = "interrupted_or_unknown"
      BY <2>3 DEF OutcomeOf
    <3>2. run.code # 0
      BY <2>3 DEF Interrupts
    <3> QED BY <2>3, <3>1, <3>2 DEF Fits, Outcomes, Successes
  <2>4. CASE run.code \notin Interrupts /\ ~snapshotMark
    <3>1. OutcomeOf \in {"unsupported", "failure_before_acceptance"}
      BY <2>4 DEF OutcomeOf
    <3> QED BY <2>1, <2>2, <2>4, <3>1 DEF Fits, Outcomes, Successes, NoCode
  <2>5. CASE run.code \notin Interrupts /\ snapshotMark /\ request # "verification"
    <3>1. OutcomeOf = "interrupted_or_unknown"
      BY <2>5 DEF OutcomeOf
    <3>2. run.code # 0
      BY <2>2, <2>5
    <3> QED BY <2>5, <3>1, <3>2 DEF Fits, Outcomes, Successes
  <2>6. CASE /\ run.code \notin Interrupts /\ snapshotMark /\ request = "verification"
             /\ run.code # 0 \/ tree # inspected
    <3>1. OutcomeOf = "accepted_verification_failed"
      BY <2>6 DEF OutcomeOf, StillCaptured
    <3> QED BY <2>1, <2>6, <3>1 DEF Fits, Outcomes, Successes, NoCode, Interrupts
  <2>7. CASE /\ run.code \notin Interrupts /\ snapshotMark /\ request = "verification"
             /\ run.code = 0 /\ tree = inspected
    <3>1. OutcomeOf = IF inspected # Base THEN "verified_success" ELSE "complete_no_change"
      BY <2>7 DEF OutcomeOf, StillCaptured
    <3>2. verdict.code = 0 /\ snapshot = inspected
      BY <1>2, <2>2, <2>7 DEF CaptureInv
    <3>3. \A f \in ExportFiles : verdict.tree[f] = inspected[f]
      BY <1>2, <2>7, <3>2 DEF RequestInv, NoCode
    <3>4. verdict.tree = snapshot
      BY <1>1, <3>2, <3>3 DEF ControlTyped, FilesTyped, VerdictStates
    <3> HIDE DEF OutcomeOf
    <3>5. CASE inspected # Base
      BY <2>7, <3>1, <3>2, <3>4, <3>5 DEF Fits, Outcomes, Successes, Interrupts
    <3>6. CASE inspected = Base
      BY <2>7, <3>1, <3>2, <3>4, <3>6 DEF Fits, Outcomes, Successes, Interrupts
    <3> QED BY <3>5, <3>6
  <2> QED BY <2>3, <2>4, <2>5, <2>6, <2>7
<1>5. \E outcome \in Outcomes, code \in 0 .. 143 :
        /\ Runs(run.phase, code, "write", outcome)
        /\ request' \in {request, "complete"}
        /\ request' = "complete" => outcome \in Successes \/ request = "complete"
        /\ outcome \in Successes => snapshotMark
        /\ Fits(outcome, request', code, snapshotMark)
  <2> DEFINE code == IF run.code = 0 /\ OutcomeOf \notin Successes THEN 1 ELSE run.code
  <2>1. run' = [run EXCEPT !.at = "write", !.seen = OutcomeOf, !.code = code]
    BY DEF FinishExport
  <2>2. request' = IF OutcomeOf \in Successes THEN "complete" ELSE request
    BY DEF FinishExport
  <2>3. code \in 0 .. 143 /\ run \in RunStates
    BY <1>1 DEF ControlTyped, RunStates
  <2>4. Fits(OutcomeOf, request', code, snapshotMark)
    BY <1>4, <2>2, SMTT(30)
  <2> HIDE DEF code
  <2>5. Runs(run.phase, code, "write", OutcomeOf)
    BY <1>4, <2>1, <2>3, WriteMoves
  <2>6. OutcomeOf \in Successes => snapshotMark
    BY <1>4 DEF Fits
  <2>7. request' = "complete" => OutcomeOf \in Successes \/ request = "complete"
    BY <2>2
  <2> HIDE DEF OutcomeOf
  <2> QED BY <1>4, <2>2, <2>3, <2>4, <2>5, <2>6, <2>7
<1>6. ControlTyped'
  BY <1>1, <1>3, <1>4, <1>5 DEF ControlTyped, Runs, ExportStages
<1>7. FilesTyped'
  BY <1>1, <1>3, <1>4, <1>5 DEF FilesTyped, Bodies
<1>8. CaptureInv'
  BY <1>1, <1>2, <1>3, <1>4, <1>5 DEF CaptureInv, Runs, ControlTyped
<1>9. RequestInv'
  BY <1>1, <1>2, <1>3, <1>4, <1>5
     DEF RequestInv, Runs, Working, RunStates, ExportPhases, ControlTyped
<1>10. JudgedInv'
  BY <1>1, <1>2, <1>3, <1>4, <1>5 DEF JudgedInv, Runs, Fits, ControlTyped
<1>11. ResultInv'
  BY <1>1, <1>2, <1>3, <1>4, <1>5 DEF ResultInv, Runs, Fits, Successes, ControlTyped
<1> QED BY <1>6, <1>7, <1>8, <1>9, <1>10, <1>11 DEF ExportInv

\* The outcome is written, with what is accepted beside it.
LEMMA WriteResultFits == ExportInv /\ WriteResult => ExportInv'
<1> SUFFICES ASSUME ExportInv, WriteResult PROVE ExportInv'
  OBVIOUS
<1>1. ControlTyped /\ FilesTyped
  BY DEF ExportInv
<1>2. CaptureInv /\ RequestInv /\ JudgedInv /\ ResultInv
  BY DEF ExportInv
<1>3. run.at = "write"
      /\ UNCHANGED <<flow, request, snapshot, blobs, snapshotMark, tree, inspected, verdict,
                     writes>>
  BY DEF WriteResult
<1>4. Runs(run.phase, run.code, "exit", run.seen)
  <2>1. run \in RunStates /\ "exit" \in ExportPlaces /\ run' = [run EXCEPT !.at = "exit"]
    BY <1>1 DEF WriteResult, ControlTyped, ExportPlaces
  <2> QED BY <2>1, Moves
<1>5. /\ resultFile' \in ResultStates
      /\ \/ resultFile' = resultFile
         \/ /\ resultFile'.outcome = run.seen /\ resultFile'.code = run.code
            /\ resultFile'.accepted = snapshotMark /\ resultFile'.stage = request
  <2>1. resultFile' = resultFile \/ resultFile' = ResultOf(run.seen, run.code)
    BY DEF WriteResult
  <2>2. /\ run.seen \in Outcomes /\ run.code \in NoCode .. 143 /\ request \in ExportStages
        /\ snapshotMark \in BOOLEAN
    BY <1>1 DEF ControlTyped, RunStates, NoCode
  <2>3. ResultOf(run.seen, run.code) \in ResultStates
    BY <2>2 DEF ResultOf, ResultStates
  <2> QED BY <1>1, <2>1, <2>3 DEF ResultOf, ControlTyped
<1>6. ControlTyped'
  BY <1>1, <1>3, <1>4, <1>5 DEF ControlTyped, Runs, ExportStages
<1>7. FilesTyped'
  BY <1>1, <1>3, <1>4, <1>5 DEF FilesTyped, Bodies
<1>8. CaptureInv'
  BY <1>1, <1>2, <1>3, <1>4, <1>5 DEF CaptureInv, Runs, ControlTyped
<1>9. RequestInv'
  BY <1>1, <1>2, <1>3, <1>4, <1>5
     DEF RequestInv, Runs, Working, RunStates, ExportPhases, ControlTyped
<1>10. JudgedInv'
  BY <1>1, <1>2, <1>3, <1>4, <1>5 DEF JudgedInv, Runs, Fits, ControlTyped
<1>11. ResultInv'
  <2>1. /\ Fits(resultFile.outcome, resultFile.stage, resultFile.code, resultFile.accepted)
        /\ Fits(run.seen, request, run.code, snapshotMark)
        /\ resultFile.accepted => snapshotMark
    BY <1>2, <1>3 DEF JudgedInv, ResultInv
  <2>2. Fits(resultFile'.outcome, resultFile'.stage, resultFile'.code, resultFile'.accepted)
    BY <1>5, <2>1, Zenon
  <2>3. Fits(resultFile.outcome, resultFile.stage, resultFile.code, resultFile.accepted)'
    BY <1>3, <2>2, Zenon DEF Fits
  <2>4. resultFile'.accepted => snapshotMark'
    BY <1>3, <1>5, <2>1, Zenon
  <2>5. run'.at = "exit"
    BY <1>4 DEF Runs
  <2> QED BY <2>3, <2>4, <2>5 DEF ResultInv
<1> QED BY <1>6, <1>7, <1>8, <1>9, <1>10, <1>11 DEF ExportInv

\* A handled signal ends what it interrupts, the last write too.
LEMMA SignalledFits == ExportInv /\ Signalled => ExportInv'
<1> SUFFICES ASSUME ExportInv, Signalled PROVE ExportInv'
  OBVIOUS
<1>1. ControlTyped /\ FilesTyped
  BY DEF ExportInv
<1>2. CaptureInv /\ RequestInv /\ JudgedInv /\ ResultInv
  BY DEF ExportInv
<1>3. /\ run.at \in {"request", "record", "work", "read", "store", "publish", "accept", "write"}
      /\ UNCHANGED <<flow, request, resultFile, snapshot, blobs, snapshotMark, tree, inspected,
                     verdict, writes>>
  BY DEF Signalled
<1>4. \E code \in {130, 143} : Runs(run.phase, code, "judge", run.seen)
  <2>1. PICK code \in {130, 143} : Ends(code)
    BY DEF Signalled
  <2> QED BY <1>1, <2>1, EndsMoves DEF ControlTyped
<1>5. ControlTyped'
  BY <1>1, <1>3, <1>4 DEF ControlTyped, Runs, ExportStages
<1>6. FilesTyped'
  BY <1>1, <1>3, <1>4 DEF FilesTyped, Bodies
<1>7. CaptureInv'
  BY <1>1, <1>2, <1>3, <1>4 DEF CaptureInv, Runs, ControlTyped
<1>8. RequestInv'
  BY <1>1, <1>2, <1>3, <1>4
    
     DEF RequestInv, Runs, Working, RunStates, ExportPhases, ControlTyped, Interrupts
<1>9. JudgedInv'
  BY <1>1, <1>2, <1>3, <1>4 DEF JudgedInv, Runs, Fits, ControlTyped
<1>10. ResultInv'
  BY <1>1, <1>2, <1>3, <1>4 DEF ResultInv, Runs, Fits, Successes, ControlTyped
<1> QED BY <1>5, <1>6, <1>7, <1>8, <1>9, <1>10 DEF ExportInv

\* A worker that is killed says nothing more.
LEMMA WorkerDiesFits == ExportInv /\ WorkerDies => ExportInv'
<1> SUFFICES ASSUME ExportInv, WorkerDies PROVE ExportInv'
  OBVIOUS
<1>1. ControlTyped /\ FilesTyped
  BY DEF ExportInv
<1>2. CaptureInv /\ RequestInv /\ JudgedInv /\ ResultInv
  BY DEF ExportInv
<1>3. run.at \notin {"exit", "killed"}
      /\ UNCHANGED <<flow, request, resultFile, snapshot, blobs, snapshotMark, tree, inspected,
                     verdict, writes>>
  BY DEF WorkerDies
<1>4. Runs(run.phase, run.code, "killed", run.seen)
  <2>1. run \in RunStates /\ "killed" \in ExportPlaces /\ run' = [run EXCEPT !.at = "killed"]
    BY <1>1 DEF WorkerDies, ControlTyped, ExportPlaces
  <2> QED BY <2>1, Moves
<1>5. ControlTyped'
  BY <1>1, <1>3, <1>4 DEF ControlTyped, Runs, ExportStages
<1>6. FilesTyped'
  BY <1>1, <1>3, <1>4 DEF FilesTyped, Bodies
<1>7. CaptureInv'
  BY <1>1, <1>2, <1>3, <1>4 DEF CaptureInv, Runs, ControlTyped
<1>8. RequestInv'
  BY <1>1, <1>2, <1>3, <1>4
     DEF RequestInv, Runs, Working, RunStates, ExportPhases, ControlTyped
<1>9. JudgedInv'
  BY <1>1, <1>2, <1>3, <1>4 DEF JudgedInv, Runs, Fits, ControlTyped
<1>10. ResultInv'
  BY <1>1, <1>2, <1>3, <1>4 DEF ResultInv, Runs, Fits, Successes, ControlTyped
<1> QED BY <1>5, <1>6, <1>7, <1>8, <1>9, <1>10 DEF ExportInv

\* An output is read of the candidate as it is.
LEMMA ReadOutputFits == \A f \in ExportFiles : ExportInv /\ ReadOutput(f) => ExportInv'
<1> SUFFICES ASSUME NEW f \in ExportFiles, ExportInv, ReadOutput(f) PROVE ExportInv'
  OBVIOUS
<1>1. ControlTyped /\ FilesTyped
  BY DEF ExportInv
<1>2. CaptureInv /\ RequestInv /\ JudgedInv /\ ResultInv
  BY DEF ExportInv
<1>3. run.at = "read" /\ run.phase = "inspection" /\ snapshot[f] = -1
      /\ UNCHANGED <<flow, request, resultFile, blobs, snapshotMark, tree, inspected, verdict,
                     writes>>
  BY DEF ReadOutput, In
<1>4. snapshot' = [snapshot EXCEPT ![f] = tree[f]]
  BY DEF ReadOutput
<1>5. \/ Runs(run.phase, run.code, "read", run.seen)
      \/ /\ Runs(run.phase, run.code, "store", run.seen)
         /\ \A g \in ExportFiles \ {f} : snapshot[g] # -1
  <2>1. run \in RunStates /\ "store" \in ExportPlaces
    BY <1>1 DEF ControlTyped, ExportPlaces
  <2>2. \/ run' = run
        \/ run' = [run EXCEPT !.at = "store"] /\ \A g \in ExportFiles \ {f} : snapshot[g] # -1
    BY DEF ReadOutput
  <2>3. run' = run => Runs(run.phase, run.code, "read", run.seen)
    BY <1>3, <2>1 DEF Runs
  <2> QED BY <2>1, <2>2, <2>3, Moves
<1>6. ControlTyped'
  BY <1>1, <1>3, <1>4, <1>5 DEF ControlTyped, Runs, ExportStages
<1>7. FilesTyped'
  BY <1>1, <1>3, <1>4, <1>5 DEF FilesTyped, Bodies
<1>8. CaptureInv'
  BY <1>1, <1>2, <1>3, <1>4, <1>5 DEF CaptureInv, Runs, ControlTyped, FilesTyped, NoFiles
<1>9. RequestInv'
  BY <1>1, <1>2, <1>3, <1>4, <1>5
     DEF RequestInv, Runs, Working, RunStates, ExportPhases, ControlTyped
<1>10. JudgedInv'
  BY <1>1, <1>2, <1>3, <1>4, <1>5 DEF JudgedInv, Runs, Fits, ControlTyped
<1>11. ResultInv'
  BY <1>1, <1>2, <1>3, <1>4, <1>5 DEF ResultInv, Runs, Fits, Successes, ControlTyped
<1> QED BY <1>6, <1>7, <1>8, <1>9, <1>10, <1>11 DEF ExportInv

\* An output is stored if it still reads as it was listed.
LEMMA StoreBlobFits == \A f \in ExportFiles : ExportInv /\ StoreBlob(f) => ExportInv'
<1> SUFFICES ASSUME NEW f \in ExportFiles, ExportInv, StoreBlob(f) PROVE ExportInv'
  OBVIOUS
<1>1. ControlTyped /\ FilesTyped
  BY DEF ExportInv
<1>2. CaptureInv /\ RequestInv /\ JudgedInv /\ ResultInv
  BY DEF ExportInv
<1>3. run.at = "store" /\ run.phase = "inspection" /\ blobs[f] = -1
      /\ UNCHANGED <<flow, request, resultFile, snapshot, snapshotMark, tree, inspected, verdict,
                     writes>>
  BY DEF StoreBlob, In
<1>4. blobs' = blobs \/ blobs' = [blobs EXCEPT ![f] = snapshot[f]]
  BY DEF StoreBlob
<1>5. \/ Runs(run.phase, 1, "judge", run.seen) \/ Runs(run.phase, run.code, "store", run.seen)
      \/ /\ Runs(run.phase, run.code, "publish", run.seen)
         /\ \A g \in ExportFiles \ {f} : blobs[g] # -1
         /\ blobs' = [blobs EXCEPT ![f] = snapshot[f]]
  <2>1. run \in RunStates /\ "publish" \in ExportPlaces /\ 1 \in 0 .. 143
    BY <1>1 DEF ControlTyped, ExportPlaces
  <2>2. \/ run' = run \/ Ends(1)
        \/ /\ run' = [run EXCEPT !.at = "publish"] /\ \A g \in ExportFiles \ {f} : blobs[g] # -1
           /\ blobs' = [blobs EXCEPT ![f] = snapshot[f]]
    BY DEF StoreBlob
  <2>3. run' = run => Runs(run.phase, run.code, "store", run.seen)
    BY <1>3, <2>1 DEF Runs
  <2> QED BY <2>1, <2>2, <2>3, EndsMoves, Moves
<1>6. ControlTyped'
  BY <1>1, <1>3, <1>4, <1>5 DEF ControlTyped, Runs, ExportStages
<1>7. FilesTyped'
  BY <1>1, <1>3, <1>4, <1>5 DEF FilesTyped, Bodies
<1>8. CaptureInv'
  BY <1>1, <1>2, <1>3, <1>4, <1>5 DEF CaptureInv, Runs, ControlTyped, FilesTyped, NoFiles
<1>9. RequestInv'
  BY <1>1, <1>2, <1>3, <1>4, <1>5
     DEF RequestInv, Runs, Working, RunStates, ExportPhases, ControlTyped
<1>10. JudgedInv'
  BY <1>1, <1>2, <1>3, <1>4, <1>5 DEF JudgedInv, Runs, Fits, ControlTyped
<1>11. ResultInv'
  BY <1>1, <1>2, <1>3, <1>4, <1>5 DEF ResultInv, Runs, Fits, Successes, ControlTyped
<1> QED BY <1>6, <1>7, <1>8, <1>9, <1>10, <1>11 DEF ExportInv

\* A stray write leaves a mark that nothing read before.
LEMMA LateWriteFits == \A f \in ExportFiles : ExportInv /\ LateWrite(f) => ExportInv'
<1> SUFFICES ASSUME NEW f \in ExportFiles, ExportInv, LateWrite(f) PROVE ExportInv'
  OBVIOUS
<1>1. ControlTyped /\ FilesTyped
  BY DEF ExportInv
<1>2. CaptureInv /\ RequestInv /\ JudgedInv /\ ResultInv
  BY DEF ExportInv
<1>3. /\ UNCHANGED run /\ UNCHANGED <<flow, request, resultFile, snapshot, blobs, snapshotMark,
                                      inspected, verdict>>
      /\ writes < MaxWrites /\ writes' = writes + 1 /\ tree' = [tree EXCEPT ![f] = writes + 2]
  BY DEF LateWrite
<1>4. tree'[f] # inspected[f] /\ \A g \in ExportFiles \ {f} : tree'[g] = tree[g]
  BY <1>1, <1>3 DEF FilesTyped
<1>5. ControlTyped'
  BY <1>1, <1>3, <1>4 DEF ControlTyped, Runs, ExportStages
<1>6. FilesTyped'
  BY <1>1, <1>3, <1>4 DEF FilesTyped, Bodies
<1>7. CaptureInv'
  BY <1>1, <1>2, <1>3, <1>4 DEF CaptureInv, Runs, ControlTyped
<1>8. RequestInv'
  BY <1>1, <1>2, <1>3, <1>4
     DEF RequestInv, Runs, Working, RunStates, ExportPhases, ControlTyped
<1>9. JudgedInv'
  BY <1>1, <1>2, <1>3, <1>4 DEF JudgedInv, Runs, Fits, ControlTyped
<1>10. ResultInv'
  BY <1>1, <1>2, <1>3, <1>4 DEF ResultInv, Runs, Fits, Successes, ControlTyped
<1> QED BY <1>5, <1>6, <1>7, <1>8, <1>9, <1>10 DEF ExportInv

\* A worker begins without a request and without a result.
LEMMA ExportInitInv == ExportInit => ExportInv
<1> SUFFICES ASSUME ExportInit PROVE ExportInv
  OBVIOUS
<1>1. /\ flow \in {"source", "consumer"} /\ request = "none" /\ snapshot = NoFiles /\ blobs = NoFiles
      /\ tree = Base /\ inspected = NoFiles /\ verdict = [code |-> NoCode, tree |-> NoFiles]
      /\ writes = 0
  BY DEF ExportInit
<1> DEFINE no == FALSE
<1>2. no \in BOOLEAN /\ ~no
  BY Zenon
<1>3. /\ run = [phase |-> "preparation", code |-> 0, unsupported |-> no, seen |-> "none",
                at |-> "request"]
      /\ resultFile = [outcome |-> "none", stage |-> "none", code |-> NoCode, accepted |-> no]
      /\ snapshotMark = no
  BY DEF ExportInit
<1> HIDE DEF no
<1>4. FilesTyped
  BY <1>1 DEF FilesTyped, NoFiles, Base, Bodies
<1>5. /\ run \in RunStates /\ run.phase = "preparation" /\ run.at = "request"
  BY <1>2, <1>3 DEF RunStates, ExportPhases, Outcomes, ExportPlaces
<1>6. /\ resultFile \in ResultStates /\ resultFile.outcome = "none" /\ resultFile.code = NoCode
  BY <1>2, <1>3 DEF ResultStates, ExportStages, Outcomes, NoCode
<1>7. verdict \in VerdictStates /\ verdict.code = NoCode
  BY <1>1 DEF VerdictStates, NoFiles, Bodies
<1>8. resultFile.accepted = no
  BY <1>3
<1>9. ControlTyped
  BY <1>1, <1>2, <1>3, <1>5, <1>6, <1>7 DEF ControlTyped, ExportStages
<1>10. CaptureInv
  BY <1>1, <1>2, <1>3, <1>5 DEF CaptureInv
<1>11. RequestInv
  BY <1>1, <1>2, <1>3, <1>5, <1>7 DEF RequestInv, Working
<1>12. JudgedInv /\ ResultInv
  BY <1>2, <1>5, <1>6, <1>8 DEF JudgedInv, ResultInv, Fits, Successes, Interrupts, NoCode
<1> QED BY <1>4, <1>9, <1>10, <1>11, <1>12 DEF ExportInv

\* Every step of an export, or of what goes on beside it, keeps the invariant.
LEMMA ExportStep == ExportInv /\ [ExportNext]_exportVars => ExportInv'
<1> SUFFICES ASSUME ExportInv, [ExportNext]_exportVars PROVE ExportInv'
  OBVIOUS
<1>1. CASE ExportNext
  BY <1>1, RecordRequestFits, RecordResultFits, PhaseFailsFits, PreparationFits, ResolutionFits,
     InspectionFits, UnsupportedFits, PublishSnapshotFits, AcceptSnapshotFits, VerificationFits,
     FinishUnrequestedFits, FinishExportFits, WriteResultFits, SignalledFits, WorkerDiesFits,
     ReadOutputFits, StoreBlobFits, LateWriteFits, Zenon
     DEF ExportNext
<1>2. CASE UNCHANGED exportVars
  <2>1. UNCHANGED <<flow, run, request, resultFile, snapshot, blobs, snapshotMark, tree, inspected,
                    verdict, writes>>
    BY <1>2 DEF exportVars
  <2>2. ControlTyped' /\ FilesTyped'
    BY <2>1 DEF ExportInv, ControlTyped, FilesTyped
  <2>3. CaptureInv'
    BY <2>1, Zenon DEF ExportInv, CaptureInv
  <2>4. RequestInv'
    BY <2>1, Zenon DEF ExportInv, RequestInv
  <2>5. JudgedInv' /\ ResultInv'
    BY <2>1, Zenon DEF ExportInv, JudgedInv, ResultInv, Fits
  <2> QED BY <2>2, <2>3, <2>4, <2>5 DEF ExportInv
<1> QED BY <1>1, <1>2

\* Every reachable state of an export is one of these.
THEOREM ExportInvariant == ExportSpec => []ExportInv
  BY ExportInitInv, ExportStep, PTL DEF ExportSpec

\* Every variable of an export keeps its type.
THEOREM ExportTypeCorrect == ExportSpec => []ExportTypeOK
<1>1. ExportInv => ExportTypeOK
  <2> SUFFICES ASSUME ExportInv PROVE ExportTypeOK
    OBVIOUS
  <2>1. run.phase \in ExportStages
    BY DEF ExportInv, ControlTyped, RunStates, ExportPhases, ExportStages
  <2>2. run \in [phase : ExportStages, code : 0..143, unsupported : BOOLEAN, seen : Outcomes,
                 at : {"request", "record", "work", "read", "store", "publish", "accept",
                       "judge", "write", "exit", "killed"}]
    BY <2>1 DEF ExportInv, ControlTyped, RunStates, ExportPlaces
  <2>3. tree \in [ExportFiles -> Bodies] /\ inspected \in [ExportFiles -> Bodies]
    BY DEF ExportInv, FilesTyped, Bodies
  <2> QED BY <2>2, <2>3
          DEF ExportInv, ControlTyped, FilesTyped, ResultStates, VerdictStates, ExportTypeOK
<1> QED BY ExportInvariant, <1>1, PTL

\* Whenever the directory of an export is read, also after its worker was killed, its
\* result is consistent, and says of the candidate only what was inspected and
\* verified.
THEOREM ExportsSayWhatIs == ExportSpec => []ExportsAreTrue
<1>1. ExportInv => ExportsAreTrue
  <2> SUFFICES ASSUME ExportInv PROVE ExportsAreTrue
    OBVIOUS
  <2>1. AcceptedIsInspected
    BY DEF ExportInv, CaptureInv, AcceptedIsInspected
  <2>2. SuccessIsVerified /\ InterruptedIsUnknown
    BY DEF ExportInv, ResultInv, Fits, SuccessIsVerified, InterruptedIsUnknown
  <2>3. snapshotMark => snapshot # NoFiles /\ blobs = snapshot
    <3> SUFFICES ASSUME snapshotMark PROVE snapshot # NoFiles /\ blobs = snapshot
      OBVIOUS
    <3>1. /\ ExportFiles # {} /\ \A f \in ExportFiles : inspected[f] >= 0
          /\ snapshot = inspected /\ blobs = inspected
      BY DEF ExportInv, CaptureInv
    <3>2. PICK f \in ExportFiles : inspected[f] >= 0
      BY <3>1
    <3> QED BY <3>1, <3>2 DEF NoFiles
  <2>4. ResultChecks
    BY <2>3, Zenon DEF ExportInv, ResultInv, Fits, ResultChecks, Checks
  <2> QED BY <2>1, <2>2, <2>4 DEF ExportsAreTrue
<1> QED BY ExportInvariant, <1>1, PTL

----------------------------------------------------------------------------
(* The update: the invariant.                                              *)

\* The places of an update between its inspection and the comparison after its
\* verification, and those from that comparison to the branch.
Judging == {"verify", "verifying", "freeze"}
Landing == {"recheck", "apply", "applied", "entries", "add", "commit", "advance", "confirm"}

\* Strays alone write to a candidate under judgement, and nothing undoes that; so
\* once it is found to be the inspected one, that is what was verified.
JudgedKept ==
  /\ worker.pc \in Judging => \A f \in Files :
       /\ candidate.files[f] = saved.inspected[f] \/ candidate.files[f] = 3
       /\ verified[f] = saved.inspected[f] \/ (verified[f] = 3 /\ candidate.files[f] = 3)
  /\ worker.pc \in Landing => verified = saved.inspected
  /\ worker.pc \in Judging \cup Landing => ChangedPaths \subseteq Outputs

\* An interrupted verification leads to nothing but another inspection.
InterruptedStops == worker.code = 130 => worker.pc \in {"inspect"} \cup Finished

\* The user alone writes to an original that was compared with what is expected,
\* and nothing undoes that either; so if the index and the files are found to be
\* as read and as expected, the commit is what is expected.
CommitFits ==
  /\ worker.pc \in {"entries", "add"} => \A f \in Files : orig[f] = Expected[f] \/ orig[f] = 2
  /\ worker.pc = "add" =>
       \A f \in Files : wanted[f] = Expected[f] \/ (wanted[f] = 2 /\ orig[f] = 2)
  /\ worker.pc \in {"commit", "advance"} => made = [parent |-> saved.id, tree |-> Expected]

\* The update's own commit is never where an update began, nor where one resumes.
BranchKept ==
  /\ saved.id # 2
  /\ worker.pc = "idle" => head.id # 2
  /\ head.id = 2 => worker.pc \in {"confirm"} \cup Finished
  /\ CommittedIsJudged


----------------------------------------------------------------------------
(* The update: every step keeps it.                                        *)

UpdateTrees == [Files -> Content]
Workers == [pc : Stages, how : {"verify", "force", "skip"}, code : {0, 1, 130},
            end : {"preview", "apply", "commit"}]
HeadStates == [id : 0..2, tree : UpdateTrees]
Candidates == [files : UpdateTrees, git : BOOLEAN]
SavedStates == [exists : BOOLEAN, id : 0..2, before : UpdateTrees, index : UpdateTrees, inspected : UpdateTrees]
MadeStates == [parent : -1..2, tree : UpdateTrees]

\* The records and the files of an update have these types; the counters aside.
UpdateTyped ==
  /\ worker \in Workers /\ head \in HeadStates /\ candidate \in Candidates
  /\ saved \in SavedStates /\ made \in MadeStates
  /\ orig \in UpdateTrees /\ index \in UpdateTrees /\ frozen \in UpdateTrees /\ wanted \in UpdateTrees
  /\ verified \in UpdateTrees
CountersTyped == userEdits \in 0..MaxUserEdits /\ strays \in 0..MaxStray /\ kills \in 0..MaxKills

LEMMA UpdateTypes == UpdateTypeOK <=> UpdateTyped /\ CountersTyped
BY DEF UpdateTypeOK, UpdateTyped, CountersTyped, UpdateTrees, Workers, HeadStates, Candidates,
       SavedStates, MadeStates

\* Going to another place leaves the rest of the worker alone.
LEMMA WorkerGoes ==
  ASSUME worker \in Workers, NEW pc \in Stages, To(pc)
  PROVE  worker' \in Workers /\ worker'.pc = pc /\ worker'.code = worker.code
BY DEF To, Workers

\* So does the end of an inspection or a verification, with a code.
LEMMA WorkerJudges ==
  ASSUME worker \in Workers, NEW pc \in Stages, NEW code \in {0, 1, 130},
         worker' = [worker EXCEPT !.code = code, !.pc = pc]
  PROVE  worker' \in Workers /\ worker'.pc = pc /\ worker'.code = code
BY DEF Workers

\* What is not there yet has the type of a tree too.
LEMMA NoTreeIsTree == NoTree \in UpdateTrees
BY DEF NoTree, UpdateTrees, Content

\* One file's change keeps a tree a tree.
LEMMA OneChange == ASSUME NEW t \in UpdateTrees, NEW f \in Files, NEW v \in Content
                   PROVE  [t EXCEPT ![f] = v] \in UpdateTrees
BY DEF UpdateTrees

\* The worker is at one of its places after every step of its own.
LEMMA UpdateTypedStep == UpdateTyped /\ [UpdateNext]_updateVars => UpdateTyped'
<1> SUFFICES ASSUME UpdateTyped, [UpdateNext]_updateVars PROVE UpdateTyped'
  OBVIOUS
<1> USE DEF UpdateTyped
<1>0. /\ saved.before \in UpdateTrees /\ saved.inspected \in UpdateTrees /\ saved.index \in UpdateTrees
      /\ saved.id \in 0..2 /\ head.id \in 0..2 /\ head.tree \in UpdateTrees
      /\ candidate.files \in UpdateTrees /\ candidate.git \in BOOLEAN /\ made.tree \in UpdateTrees
  BY DEF SavedStates, HeadStates, Candidates, MadeStates
<1>1. CASE UNCHANGED updateVars
  BY <1>1 DEF updateVars
<1>2. CASE Prepare
  <2>1. worker' \in Workers
    BY <1>2, WorkerGoes DEF Prepare, Stages, Finished
  <2>2. saved' \in SavedStates
    <3>1. Checkpoint \in SavedStates
      BY <1>0, NoTreeIsTree DEF SavedStates, Checkpoint
    <3>2. saved' \in {saved, Checkpoint}
      BY <1>2 DEF Prepare
    <3> QED BY <3>1, <3>2
  <2>3. candidate' \in Candidates
    <3>1. CopyCommit \in Candidates /\ CopyPreview \in Candidates
      BY <1>0 DEF Candidates, CopyCommit, CopyPreview
    <3>2. candidate' \in {candidate, CopyCommit, CopyPreview}
      BY <1>2 DEF Prepare
    <3> QED BY <3>1, <3>2
  <2> QED BY <1>2, <2>1, <2>2, <2>3 DEF Prepare
<1>3. CASE ResolveCandidate
  <2>1. worker' \in Workers
    BY <1>3, WorkerGoes DEF ResolveCandidate, Stages, Finished
  <2>2. ASSUME NEW W \in SUBSET Files
        PROVE  [f \in Files |-> IF f \in W THEN 1 ELSE candidate.files[f]] \in UpdateTrees
    BY <1>0 DEF UpdateTrees, Content
  <2>3. candidate' \in Candidates
    BY <1>0, <1>3, <2>2 DEF ResolveCandidate, Candidates
  <2> QED BY <1>3, <2>1, <2>3 DEF ResolveCandidate
<1>4. CASE InspectCandidate
  <2>1. worker' \in Workers
    BY <1>4, WorkerGoes, WorkerJudges DEF InspectCandidate, Stages, Finished
  <2>2. saved' \in SavedStates
    BY <1>0, <1>4 DEF InspectCandidate, SavedStates
  <2> QED BY <1>0, <1>4, <2>1, <2>2 DEF InspectCandidate
<1>5. CASE BeginVerify
  BY <1>0, <1>5, WorkerGoes DEF BeginVerify, Stages
<1>6. CASE EndVerify
  BY <1>6, WorkerJudges DEF EndVerify, Stages, Finished
<1>7. CASE Freeze
  <2>1. worker' \in Workers
    BY <1>7, WorkerGoes DEF Freeze, Stages, Finished
  <2>2. frozen' \in UpdateTrees
    BY <1>0, <1>7 DEF Freeze, UpdateTrees, Content
  <2> QED BY <1>7, <2>1, <2>2 DEF Freeze
<1>8. CASE Recheckout \/ EndApply \/ BeginCommit \/ CheckCommit \/ Confirm
  <2>1. worker' \in Workers
    BY <1>8, WorkerGoes DEF Recheckout, EndApply, BeginCommit, CheckCommit, Confirm, Stages,
                            Finished
  <2> QED BY <1>8, <2>1 DEF Recheckout, EndApply, BeginCommit, CheckCommit, Confirm
<1>9. CASE ReadEntries
  BY <1>9, WorkerGoes DEF ReadEntries, Stages
<1>10. CASE StageOutputs
  <2> DEFINE staged == [f \in Files |-> IF f \in ChangedPaths THEN orig[f] ELSE index[f]]
  <2>1. staged \in UpdateTrees
    BY DEF UpdateTrees
  <2>2. worker' \in Workers
    BY <1>10, WorkerGoes DEF StageOutputs, Stages, Finished
  <2>3. made' \in MadeStates
    <3> HIDE DEF staged
    <3>1. made' \in {made, [parent |-> saved.id, tree |-> staged]}
      BY <1>10 DEF StageOutputs, staged
    <3> QED BY <1>0, <2>1, <3>1 DEF MadeStates
  <2> QED BY <1>10, <2>1, <2>2, <2>3 DEF StageOutputs
<1>11. CASE AdvanceBranch
  <2>1. worker' \in Workers
    BY <1>11, WorkerGoes DEF AdvanceBranch, Stages, Finished
  <2>2. head' \in HeadStates
    BY <1>0, <1>11 DEF AdvanceBranch, HeadStates
  <2> QED BY <1>11, <2>1, <2>2 DEF AdvanceBranch
<1>12. CASE WorkerKilled
  BY <1>12, WorkerGoes DEF WorkerKilled, Stages, Finished
<1>13. CASE Resume
  <2>1. worker' \in Workers
    BY <1>13, WorkerGoes DEF Resume, Stages
  <2>2. saved' \in SavedStates
    BY <1>13, NoTreeIsTree DEF Resume, SavedStates
  <2> QED BY <1>13, <2>1, <2>2 DEF Resume
<1>14. CASE CommitsAll
  BY <1>14 DEF CommitsAll, HeadStates
<1>15. ASSUME NEW f \in Files, ApplyOutput(f)
       PROVE  UpdateTyped'
  <2>1. worker' \in Workers
    BY <1>15, WorkerGoes DEF ApplyOutput, Stages, Finished
  <2>2. frozen[f] \in Content /\ -1 \in Content
    BY DEF UpdateTrees, Content
  <2>3. orig' \in UpdateTrees /\ frozen' \in UpdateTrees
    BY <1>15, <2>2, OneChange DEF ApplyOutput
  <2> QED BY <1>15, <2>1, <2>3 DEF ApplyOutput
<1>16. ASSUME NEW f \in Files, EditsFile(f) \/ StagesFile(f)
       PROVE  UpdateTyped'
  <2>1. orig[f] \in Content /\ 2 \in Content
    BY DEF UpdateTrees, Content
  <2>2. orig' \in UpdateTrees /\ index' \in UpdateTrees
    BY <1>16, <2>1, OneChange DEF EditsFile, StagesFile
  <2> QED BY <1>16, <2>2 DEF EditsFile, StagesFile
<1>17. ASSUME NEW f \in Files, StrayWrite(f)
       PROVE  UpdateTyped'
  <2>1. [candidate.files EXCEPT ![f] = 3] \in UpdateTrees
    <3>1. 3 \in Content
      BY DEF Content
    <3> QED BY <1>0, <3>1, OneChange
  <2>2. candidate' \in Candidates
    BY <1>0, <1>17, <2>1 DEF StrayWrite, Candidates
  <2> QED BY <1>17, <2>2 DEF StrayWrite
<1> QED
  BY <1>1, <1>2, <1>3, <1>4, <1>5, <1>6, <1>7, <1>8, <1>9, <1>10, <1>11, <1>12, <1>13, <1>14,
     <1>15, <1>16, <1>17
  DEF UpdateNext

\* Where a step takes the worker, and what it does besides: only the inspection, a
\* preparation and a resumption change what is saved.
WorkerAt(pc) == worker'.pc = pc /\ worker'.code = worker.code
LEMMA UpdateFields ==
  ASSUME UpdateTyped
  PROVE  /\ \A pc \in Stages : To(pc) => WorkerAt(pc)
         /\ worker.pc \in Stages /\ worker.code \in {0, 1, 130}
         /\ saved.before \in UpdateTrees /\ saved.inspected \in UpdateTrees /\ saved.id \in 0..2
         /\ head.id \in 0..2 /\ head.tree \in UpdateTrees /\ candidate.files \in UpdateTrees
BY WorkerGoes DEF UpdateTyped, WorkerAt, Workers, SavedStates, HeadStates, Candidates

\* Where an inspection and a verification end.
LEMMA JudgeMoves ==
  ASSUME UpdateTyped
  PROVE  /\ InspectCandidate => worker.pc = "inspect" /\ worker'.pc \in {"failed", "freeze", "verify"}
         /\ EndVerify => worker.pc = "verifying" /\ worker'.pc \in {"failed", "freeze"}
<1>1. ASSUME InspectCandidate
      PROVE  worker.pc = "inspect" /\ worker'.pc \in {"failed", "freeze", "verify"}
  BY <1>1, UpdateFields, WorkerJudges
  DEF InspectCandidate, At, WorkerAt, Stages, Finished, UpdateTyped
<1>2. ASSUME EndVerify PROVE worker.pc = "verifying" /\ worker'.pc \in {"failed", "freeze"}
  BY <1>2, WorkerJudges DEF EndVerify, At, Stages, Finished, UpdateTyped
<1> QED BY <1>1, <1>2

\* Strays alone write to a candidate under judgement.
LEMMA JudgedStep ==
  ASSUME UpdateTyped, JudgedKept, [UpdateNext]_updateVars
  PROVE  JudgedKept'
<1> USE UpdateFields DEF JudgedKept, ChangedPaths
<1>e. ASSUME worker'.pc \notin Judging \cup Landing PROVE JudgedKept'
  BY <1>e
<1>u. ASSUME UNCHANGED <<candidate, saved, verified>>,
             \/ worker.pc \in Judging /\ worker'.pc \in Judging
             \/ worker.pc \in Landing /\ worker'.pc \in Landing
             \/ worker'.pc \notin Judging \cup Landing
             \/ worker' = worker
      PROVE  JudgedKept'
  BY <1>u DEF Judging, Landing
<1>1. CASE UNCHANGED updateVars
  BY <1>1, <1>u DEF updateVars
<1>2. CASE Prepare
  BY <1>2, <1>e DEF Prepare, WorkerAt, Stages, Finished, Judging, Landing
<1>3. CASE ResolveCandidate
  BY <1>3, <1>e DEF ResolveCandidate, WorkerAt, Stages, Finished, Judging, Landing
<1>4. CASE InspectCandidate
  <2>1. CASE To("failed")
    BY <2>1, <1>e DEF WorkerAt, Stages, Finished, Judging, Landing
  <2>2. CASE ~To("failed")
    <3>1. /\ saved' = [saved EXCEPT !.inspected = candidate.files] /\ verified' = candidate.files
          /\ candidate' = candidate
          /\ {f \in Files : candidate.files[f] # saved.before[f]} \subseteq Outputs
      BY <1>4, <2>2 DEF InspectCandidate
    <3>2. saved'.inspected = candidate.files /\ saved'.before = saved.before
      BY <3>1, SMTT(30) DEF UpdateTyped, SavedStates
    <3>3. worker'.pc \in Judging
      BY <1>4, <2>2, WorkerJudges DEF InspectCandidate, Judging, UpdateTyped, Stages
    <3> QED BY <3>1, <3>2, <3>3 DEF Judging, Landing
  <2> QED BY <2>1, <2>2
<1>5. CASE BeginVerify
  <2>1. /\ worker.pc \in Judging /\ worker'.pc \in Judging
        /\ UNCHANGED <<candidate, saved>> /\ verified' = candidate.files
    BY <1>5 DEF BeginVerify, At, WorkerAt, Stages, Judging
  <2> QED BY <2>1 DEF Judging, Landing
<1>6. CASE EndVerify
  <2>1. worker.pc \in Judging /\ worker'.pc \in {"freeze", "failed"}
    BY <1>6, JudgeMoves DEF Judging
  <2> QED BY <1>6, <2>1, <1>u DEF EndVerify, Judging, Landing, Finished
<1>7. CASE Freeze
  <2>1. CASE To("failed")
    BY <2>1, <1>e DEF WorkerAt, Stages, Finished, Judging, Landing
  <2>2. CASE ~To("failed")
    <3>1. worker.pc = "freeze" /\ worker'.pc = "recheck" /\ candidate.files = saved.inspected
      BY <1>7, <2>2 DEF Freeze, At, CandidateHolds, WorkerAt, Stages
    <3>2. \A f \in Files : verified[f] = saved.inspected[f]
      BY <3>1 DEF Judging
    <3>3. verified = saved.inspected
      BY <3>2 DEF UpdateTyped, UpdateTrees
    <3> QED BY <1>7, <3>1, <3>3 DEF Freeze, Judging, Landing
  <2> QED BY <2>1, <2>2
<1>8. CASE Recheckout \/ EndApply \/ BeginCommit \/ ReadEntries \/ StageOutputs \/ CheckCommit
           \/ AdvanceBranch \/ Confirm
  <2>1. worker.pc \in Landing /\ worker'.pc \in Landing \cup Finished
    BY <1>8 DEF Recheckout, EndApply, BeginCommit, ReadEntries, StageOutputs, CheckCommit,
                AdvanceBranch, Confirm, At, WorkerAt, Stages, Landing, Finished
  <2>2. UNCHANGED <<candidate, saved, verified>>
    BY <1>8 DEF Recheckout, EndApply, BeginCommit, ReadEntries, StageOutputs, CheckCommit,
                AdvanceBranch, Confirm
  <2> QED BY <2>1, <2>2, <1>u DEF Judging, Landing, Finished
<1>9. CASE WorkerKilled \/ Resume
  BY <1>9, <1>e DEF WorkerKilled, Resume, WorkerAt, Stages, Finished, Judging, Landing
<1>10. CASE CommitsAll
  BY <1>10, <1>u DEF CommitsAll
<1>11. ASSUME NEW f \in Files, ApplyOutput(f)
       PROVE  JudgedKept'
  <2>1. worker.pc \in Landing /\ (worker' = worker \/ worker'.pc = "failed")
    BY <1>11 DEF ApplyOutput, At, WorkerAt, Stages, Finished, Landing
  <2> QED BY <1>11, <2>1, <1>u DEF ApplyOutput, Judging, Landing
<1>12. ASSUME NEW f \in Files, EditsFile(f) \/ StagesFile(f)
       PROVE  JudgedKept'
  BY <1>12, <1>u DEF EditsFile, StagesFile
<1>13. ASSUME NEW f \in Files, StrayWrite(f)
       PROVE  JudgedKept'
  <2>1. candidate'.files = [candidate.files EXCEPT ![f] = 3]
    BY <1>13 DEF StrayWrite, UpdateTyped, Candidates
  <2>2. \A g \in Files : candidate'.files[g] = candidate.files[g] \/ candidate'.files[g] = 3
    BY <2>1 DEF UpdateTrees
  <2>3. UNCHANGED <<worker, saved, verified>>
    BY <1>13 DEF StrayWrite
  <2> QED BY <2>2, <2>3
<1> QED
  BY <1>1, <1>2, <1>3, <1>4, <1>5, <1>6, <1>7, <1>8, <1>9, <1>10, <1>11, <1>12, <1>13
  DEF UpdateNext

\* Only an inspection or a verification changes the worker's code.
LEMMA InterruptedStep ==
  ASSUME UpdateTyped, InterruptedStops, [UpdateNext]_updateVars
  PROVE  InterruptedStops'
<1> USE UpdateFields DEF InterruptedStops
<1>1. CASE InspectCandidate
  <2>1. worker'.pc = "failed" \/ worker'.code = 0
    BY <1>1, WorkerJudges DEF InspectCandidate, WorkerAt, Stages, Finished, UpdateTyped
  <2> QED BY <2>1 DEF Finished
<1>2. CASE EndVerify
  <2>1. PICK code \in {0, 1, 130} :
          worker' = [worker EXCEPT !.code = code,
                       !.pc = IF code = 0 \/ MayForce(code) THEN "freeze" ELSE "failed"]
    BY <1>2 DEF EndVerify
  <2>2. worker'.code = code /\ worker'.pc = IF code = 0 \/ MayForce(code) THEN "freeze" ELSE "failed"
    BY <2>1, WorkerJudges DEF UpdateTyped, Stages, Finished
  <2> QED BY <2>2 DEF MayForce, Finished
<1>3. CASE Prepare \/ ResolveCandidate \/ BeginVerify \/ Freeze \/ Recheckout \/ EndApply
           \/ BeginCommit \/ ReadEntries \/ StageOutputs \/ CheckCommit \/ AdvanceBranch \/ Confirm
  <2>1. worker.pc \notin {"inspect"} \cup Finished /\ worker'.code = worker.code
    BY <1>3 DEF Prepare, ResolveCandidate, BeginVerify, Freeze, Recheckout, EndApply,
                BeginCommit, ReadEntries, StageOutputs, CheckCommit, AdvanceBranch, Confirm, At,
                WorkerAt, Stages, Finished
  <2> QED BY <2>1
<1>4. CASE WorkerKilled \/ Resume
  BY <1>4 DEF WorkerKilled, Resume, WorkerAt, Stages, Finished
<1>5. ASSUME NEW f \in Files, ApplyOutput(f)
      PROVE  InterruptedStops'
  <2>1. worker' = worker \/ WorkerAt("failed")
    BY <1>5 DEF ApplyOutput, Stages, Finished
  <2> QED BY <2>1 DEF WorkerAt, Finished
<1>6. CASE CommitsAll \/ UNCHANGED updateVars
           \/ \E f \in Files : EditsFile(f) \/ StagesFile(f) \/ StrayWrite(f)
  BY <1>6 DEF CommitsAll, EditsFile, StagesFile, StrayWrite, updateVars
<1> QED BY <1>1, <1>2, <1>3, <1>4, <1>5, <1>6 DEF UpdateNext

\* The user alone writes to an original that is being committed.
LEMMA CommitStep ==
  ASSUME UpdateTyped, CommitFits, [UpdateNext]_updateVars
  PROVE  CommitFits'
<1> DEFINE Committing == {"entries", "add", "commit", "advance"}
<1> USE UpdateFields DEF CommitFits, Expected, ChangedPaths
<1>e. ASSUME worker'.pc \notin Committing PROVE CommitFits'
  BY <1>e
<1>1. CASE Prepare \/ ResolveCandidate \/ BeginVerify \/ Freeze \/ Recheckout \/ EndApply
           \/ AdvanceBranch \/ Confirm \/ WorkerKilled \/ Resume
  BY <1>1, <1>e DEF Prepare, ResolveCandidate, BeginVerify, Freeze, Recheckout, EndApply,
                    AdvanceBranch, Confirm, WorkerKilled, Resume, WorkerAt, Stages, Finished
<1>2. CASE InspectCandidate \/ EndVerify
  <2>1. worker'.pc \notin Committing
    BY <1>2, JudgeMoves
  <2> QED BY <2>1, <1>e
<1>3. CASE BeginCommit
  <2>1. worker'.pc = "entries" => orig = Expected
    BY <1>3 DEF BeginCommit, WorkerAt, Stages, Finished
  <2>2. worker'.pc \in {"entries", "failed"}
    BY <1>3 DEF BeginCommit, WorkerAt, Stages, Finished
  <2> QED BY <1>3, <2>1, <2>2, <1>e DEF BeginCommit
<1>4. CASE ReadEntries
  <2>1. worker.pc = "entries" /\ worker'.pc = "add" /\ wanted' = orig /\ UNCHANGED <<orig, saved>>
    BY <1>4 DEF ReadEntries, At, WorkerAt, Stages
  <2> QED BY <2>1
<1>5. CASE StageOutputs
  <2> DEFINE staged == [f \in Files |-> IF f \in ChangedPaths THEN orig[f] ELSE index[f]]
  <2>1. CASE To("failed")
    BY <2>1, <1>e DEF WorkerAt, Stages, Finished
  <2>2. CASE ~To("failed")
    <3>1. /\ worker.pc = "add" /\ worker'.pc = "commit" /\ UNCHANGED saved
          /\ made' = [parent |-> saved.id, tree |-> staged]
          /\ staged = wanted /\ orig = Expected
      BY <1>5, <2>2 DEF StageOutputs, At, StagedHolds, WorkerAt, Stages
    <3>2. \A f \in Files : wanted[f] = Expected[f]
      BY <3>1
    <3>3. wanted = Expected
      BY <3>2 DEF UpdateTyped, UpdateTrees
    <3> QED BY <3>1, <3>3
  <2> QED BY <2>1, <2>2
<1>6. CASE CheckCommit
  <2>1. worker.pc = "commit" /\ worker'.pc \in {"advance", "failed"} /\ UNCHANGED <<saved, made>>
    BY <1>6 DEF CheckCommit, At, WorkerAt, Stages, Finished
  <2> QED BY <2>1
<1>7. ASSUME NEW f \in Files, ApplyOutput(f)
      PROVE  CommitFits'
  <2>1. worker'.pc \notin Committing
    BY <1>7 DEF ApplyOutput, At, WorkerAt, Stages, Finished
  <2> QED BY <2>1, <1>e
<1>8. ASSUME NEW f \in Files, EditsFile(f)
      PROVE  CommitFits'
  <2>1. orig' = [orig EXCEPT ![f] = 2] /\ UNCHANGED <<worker, saved, wanted, made>>
    BY <1>8 DEF EditsFile
  <2>2. \A g \in Files : orig'[g] = orig[g] \/ orig'[g] = 2
    BY <2>1 DEF UpdateTyped, UpdateTrees
  <2> QED BY <2>1, <2>2
<1>9. CASE CommitsAll \/ UNCHANGED updateVars
           \/ \E f \in Files : StagesFile(f) \/ StrayWrite(f)
  <2>1. UNCHANGED <<worker, orig, saved, wanted, made>>
    BY <1>9 DEF CommitsAll, StagesFile, StrayWrite, updateVars
  <2> QED BY <2>1
<1> QED BY <1>1, <1>2, <1>3, <1>4, <1>5, <1>6, <1>7, <1>8, <1>9 DEF UpdateNext

\* After its own commit an update neither begins nor resumes.
LEMMA BranchStep ==
  ASSUME UpdateTyped, JudgedKept, CommitFits, BranchKept, [UpdateNext]_updateVars
  PROVE  BranchKept'
<1> USE UpdateFields DEF BranchKept, CommittedIsJudged
<1>1. CASE Prepare
  <2>1. worker.pc = "idle" /\ worker'.pc \in {"failed", "resolve"} /\ UNCHANGED head
    BY <1>1 DEF Prepare, At, WorkerAt, Stages, Finished
  <2>2. saved'.id # 2
    BY <1>1, <2>1 DEF Prepare, Checkpoint
  <2> QED BY <2>1, <2>2
<1>2. CASE ResolveCandidate \/ BeginVerify \/ Freeze \/ Recheckout \/ EndApply
           \/ BeginCommit \/ ReadEntries \/ StageOutputs \/ CheckCommit
  <2>1. /\ head.id # 2 /\ worker'.pc # "idle" /\ UNCHANGED <<head, saved>>
    BY <1>2 DEF ResolveCandidate, BeginVerify, Freeze, Recheckout, EndApply,
                BeginCommit, ReadEntries, StageOutputs, CheckCommit, At, WorkerAt, Stages, Finished
  <2> QED BY <2>1
<1>3. CASE InspectCandidate \/ EndVerify
  <2>1. head.id # 2 /\ worker'.pc # "idle" /\ UNCHANGED head
    BY <1>3, JudgeMoves DEF InspectCandidate, EndVerify, Finished
  <2>2. saved'.id = saved.id
    BY <1>3 DEF InspectCandidate, EndVerify, UpdateTyped, SavedStates
  <2> QED BY <2>1, <2>2
<1>4. CASE AdvanceBranch
  <2>1. CASE To("failed")
    BY <1>4, <2>1 DEF AdvanceBranch, At, WorkerAt, Stages, Finished
  <2>2. CASE ~To("failed")
    <3>1. /\ worker.pc = "advance" /\ worker'.pc = "confirm" /\ UNCHANGED <<saved, verified>>
          /\ head' = [id |-> 2, tree |-> made.tree]
      BY <1>4, <2>2 DEF AdvanceBranch, At, WorkerAt, Stages
    <3>2. head'.tree = Expected
      BY <3>1 DEF CommitFits
    <3>3. verified = saved.inspected /\ ChangedPaths \subseteq Outputs
      BY <3>1 DEF JudgedKept, Landing
    <3>4. head'.tree = [f \in Files |-> IF f \in Outputs THEN verified[f] ELSE saved.before[f]]
      BY <3>2, <3>3 DEF Expected, ChangedPaths
    <3> QED BY <3>1, <3>4
  <2> QED BY <2>1, <2>2
<1>5. CASE Confirm
  <2>1. worker'.pc \in Finished /\ UNCHANGED <<head, saved, verified>>
    BY <1>5 DEF Confirm, WorkerAt, Stages, Finished
  <2> QED BY <2>1 DEF Finished
<1>6. CASE WorkerKilled
  BY <1>6 DEF WorkerKilled, WorkerAt, Stages, Finished
<1>7. CASE Resume
  <2>1. head.id # 2 /\ worker'.pc = "inspect" /\ UNCHANGED head
    BY <1>7 DEF Resume, Unchanged, WorkerAt, Stages
  <2>2. saved'.id = saved.id
    BY <1>7 DEF Resume, UpdateTyped, SavedStates
  <2> QED BY <2>1, <2>2
<1>8. CASE CommitsAll
  <2>1. head'.id = 1 /\ UNCHANGED <<worker, saved>>
    BY <1>8 DEF CommitsAll
  <2> QED BY <2>1
<1>9. ASSUME NEW f \in Files, ApplyOutput(f)
      PROVE  BranchKept'
  <2>1. head.id # 2 /\ worker'.pc # "idle" /\ UNCHANGED <<head, saved>>
    BY <1>9 DEF ApplyOutput, At, WorkerAt, Stages, Finished
  <2> QED BY <2>1
<1>10. CASE UNCHANGED updateVars \/ \E f \in Files : EditsFile(f) \/ StagesFile(f) \/ StrayWrite(f)
  <2>1. UNCHANGED <<worker, head, saved, verified>>
    BY <1>10 DEF EditsFile, StagesFile, StrayWrite, updateVars
  <2> QED BY <2>1
<1> QED
  BY <1>1, <1>2, <1>3, <1>4, <1>5, <1>6, <1>7, <1>8, <1>9, <1>10 DEF UpdateNext

\* An update begins with a branch of the user's.
LEMMA UpdateInitInv ==
  UpdateInit => UpdateTyped /\ JudgedKept /\ InterruptedStops /\ CommitFits /\ BranchKept
<1> SUFFICES ASSUME UpdateInit
             PROVE  UpdateTyped /\ JudgedKept /\ InterruptedStops /\ CommitFits /\ BranchKept
  OBVIOUS
<1>1. worker \in Workers /\ worker.pc = "idle" /\ worker.code = 0
  BY DEF UpdateInit, WorkerChoices, Workers, Stages
<1>2. Tree0 \in UpdateTrees
  BY DEF Tree0, UpdateTrees, Content
<1>3. UpdateTyped
  BY <1>1, <1>2, NoTreeIsTree
  DEF UpdateInit, UpdateTyped, HeadStates, Candidates, SavedStates, MadeStates
<1>4. saved.id = 0 /\ head.id = 0
  BY DEF UpdateInit
<1> QED
  BY <1>1, <1>3, <1>4 DEF JudgedKept, InterruptedStops, CommitFits, BranchKept, CommittedIsJudged,
                          Judging, Landing, Finished

----------------------------------------------------------------------------
(* The update: the theorems.                                               *)

UpdateInv == UpdateTyped /\ JudgedKept /\ InterruptedStops /\ CommitFits /\ BranchKept

\* The invariant of an update, for any files, edits, strays and kills.
THEOREM UpdateInvariant == UpdateSpec => []UpdateInv
<1>1. UpdateInv /\ [UpdateNext]_updateVars => UpdateInv'
  BY UpdateTypedStep, JudgedStep, InterruptedStep, CommitStep, BranchStep DEF UpdateInv
<1>2. UpdateInit => UpdateInv
  BY UpdateInitInv DEF UpdateInv
<1> QED BY <1>1, <1>2, PTL DEF UpdateSpec

\* Every variable of an update keeps its type.
THEOREM UpdateTypeCorrect == UpdateSpec => []UpdateTypeOK
<1> USE UpdateAssumption DEF CountersTyped
<1>1. UpdateInit => CountersTyped
  BY DEF UpdateInit
<1>2. CountersTyped /\ [UpdateNext]_updateVars => CountersTyped'
  <2> SUFFICES ASSUME CountersTyped, [UpdateNext]_updateVars PROVE CountersTyped'
    OBVIOUS
  <2>1. /\ userEdits' \in {userEdits, userEdits + 1}
        /\ userEdits' # userEdits => userEdits < MaxUserEdits
        /\ strays' \in {strays, strays + 1}
        /\ strays' # strays => strays < MaxStray
        /\ kills' \in {kills, kills + 1}
        /\ kills' # kills => kills < MaxKills
    BY DEF UpdateNext, updateVars, Prepare, ResolveCandidate, InspectCandidate, BeginVerify,
           EndVerify, Freeze, Recheckout, EndApply, BeginCommit, ReadEntries, StageOutputs,
           CheckCommit, AdvanceBranch, Confirm, WorkerKilled, Resume, CommitsAll, ApplyOutput,
           EditsFile, StagesFile, StrayWrite
  <2> QED BY <2>1
<1>3. UpdateInv => UpdateTyped
  BY DEF UpdateInv
<1> QED BY UpdateInvariant, UpdateTypes, <1>1, <1>2, <1>3, PTL DEF UpdateSpec

\* What an update commits is what its gates judged; it replaces no edit, and no
\* commit, that its user made meanwhile.
THEOREM UpdatesStayJudged == UpdateSpec => UpdatesAreJudged
<1>1. UpdateInv => CommittedIsJudged /\ InterruptedIsNotApplied
  BY DEF UpdateInv, BranchKept, InterruptedStops, InterruptedIsNotApplied, Finished
<1>2. UpdateInv /\ [UpdateNext]_updateVars
        => [\A f \in Files : orig[f] = 2 /\ saved.before[f] # 2 => orig'[f] = 2]_updateVars
  <2> SUFFICES ASSUME UpdateInv, UpdateNext, NEW f \in Files, orig[f] = 2, saved.before[f] # 2
               PROVE  orig'[f] = 2
    OBVIOUS
  <2>1. ASSUME NEW g \in Files, ApplyOutput(g) PROVE orig'[f] = 2
    BY <2>1 DEF ApplyOutput, StillOriginal, UpdateInv, UpdateTyped, UpdateTrees
  <2>2. ASSUME NEW g \in Files, EditsFile(g) PROVE orig'[f] = 2
    BY <2>2 DEF EditsFile, UpdateInv, UpdateTyped, UpdateTrees
  <2>3. CASE orig' = orig
    BY <2>3
  <2> QED
    BY <2>1, <2>2, <2>3
    DEF UpdateNext, Prepare, ResolveCandidate, InspectCandidate, BeginVerify,
        EndVerify, Freeze, Recheckout, EndApply, BeginCommit, ReadEntries, StageOutputs,
        CheckCommit, AdvanceBranch, Confirm, WorkerKilled, Resume, CommitsAll, StagesFile, StrayWrite
<1>3. UpdateInv /\ [UpdateNext]_updateVars
        => [head.id # 2 /\ head'.id = 2 => made.parent = head.id]_updateVars
  <2> SUFFICES ASSUME UpdateInv, UpdateNext, head.id # 2, head'.id = 2
               PROVE  made.parent = head.id
    OBVIOUS
  <2>1. CASE AdvanceBranch
    BY <2>1 DEF AdvanceBranch, At, BranchHolds, UpdateInv, CommitFits
  <2>2. CASE CommitsAll
    BY <2>2 DEF CommitsAll
  <2>3. CASE head' = head
    BY <2>3
  <2> QED
    BY <2>1, <2>2, <2>3
    DEF UpdateNext, Prepare, ResolveCandidate, InspectCandidate, BeginVerify,
        EndVerify, Freeze, Recheckout, EndApply, BeginCommit, ReadEntries, StageOutputs,
        CheckCommit, Confirm, WorkerKilled, Resume, ApplyOutput, EditsFile, StagesFile, StrayWrite
<1> QED
  BY UpdateInvariant, <1>1, <1>2, <1>3, PTL
  DEF UpdateSpec, UpdatesAreJudged, EditsSurvive, CommitsSurvive

HIDE DEF Gate, Scopes, Ran, Settled, Recorded
----------------------------------------------------------------------------
(* Formatting what is staged: the invariant.                             *)

\* The contents there can be: texts so far, raw or formatted.
TextsNow == [text : 0..changes, clean : BOOLEAN]
FormatTyped ==
  /\ fmt \in RunPlaces /\ idxLock \in {"free", "git", "fmt", "stale"}
  /\ changes \in 0..MaxChanges /\ runs \in 0..MaxRuns /\ tip \in 0..changes
  /\ work \in [Staged -> TextsNow] /\ idx \in [Staged -> TextsNow]
  /\ git \in [is : {"idle", "busy"}, idx : [Staged -> TextsNow]]
  /\ begun \in [work : [Staged -> TextsNow], idx : [Staged -> TextsNow], tip : 0..changes]
  /\ output \in [Staged -> [text : 0..changes, clean : BOOLEAN]]
  /\ journal \in (SUBSET Staged) \cup {NoJournal} /\ applied \subseteq Staged

\* The places from the formatted snapshot to the index that is renamed, those of
\* them under the index's lock, and those of them where the index was compared.
Applying == {"apply", "rename"}
Comparing == {"files", "journal"} \cup Applying
Locking == {"compare"} \cup Comparing
Holding == {"lock"} \cup Locking

\* The lock keeps the index as it was read.
LockKeepsIndex ==
  /\ fmt \in Locking => idxLock = "fmt"
  /\ fmt \in Comparing => idx = begun.idx
  /\ idxLock = "git" => git.is = "busy" /\ git.idx = idx

\* What will be put in place has the texts of the index, and where it is not the
\* same, of the working file.
OutputIsThere ==
  /\ fmt \in {"judge"} \cup Holding =>
       \A f \in Staged : output[f].text = begun.idx[f].text
                         /\ (output[f] # begun.idx[f] => output[f].clean)
  /\ fmt \in Holding => \A f \in Replaced : WhollyStaged(f)

\* A journal is complete before the first file is replaced, and names what the
\* working files were.
JournalComesFirst ==
  /\ fmt \in {"worker", "judge"} \cup (Holding \ Applying) => journal = NoJournal /\ applied = {}
  /\ fmt = "read" /\ journal = NoJournal => applied = {}
  /\ fmt \in Applying => journal = Replaced
  /\ journal # NoJournal => \A f \in journal : output[f].text = begun.work[f].text

\* A replaced file is never again as the index had it, and neither is the index
\* once the new one is in place.
ReplacedStays ==
  /\ \A f \in applied : work[f] # begun.idx[f]
  /\ fmt \in Applying => applied \subseteq Replaced
  /\ fmt = "settle" => \A f \in applied : idx[f] # begun.idx[f]

FormatInv == /\ FormatTyped /\ LockKeepsIndex /\ OutputIsThere /\ JournalComesFirst
             /\ ReplacedStays /\ HalfAppliedIsRecorded
----------------------------------------------------------------------------
(* The formatter: every step keeps it.                                     *)

USE FormatAssumption DEF NoJournal, FormatInv

\* Formatting makes contents of contents.
LEMMA Contents ==
  /\ changes \in Nat => Raw(0) \in TextsNow
  /\ \A c \in TextsNow : Formatted(c) \in TextsNow
<1>1. changes \in Nat => Raw(0) \in TextsNow
  BY DEF Raw, TextsNow
<1>2. ASSUME NEW c \in TextsNow PROVE Formatted(c) \in TextsNow
  BY DEF Formatted, TextsNow
<1> QED BY <1>1, <1>2

\* Every variable keeps its type, and no text is newer than the last change.
LEMMA FormatTypedStep ==
  ASSUME FormatInv, [FormatNext]_formatVars PROVE FormatTyped'
<1>1. CASE UNCHANGED formatVars
  BY <1>1 DEF formatVars, FormatTyped, TextsNow, RunPlaces
<1>2. CASE ReadIndex
  BY <1>2 DEF ReadIndex, FormatTyped, TextsNow, RunPlaces
<1>3. CASE ReadFiles
  BY <1>3 DEF ReadFiles, Goes, Fails, FormatTyped, TextsNow, RunPlaces
<1>4. CASE Format
  <2>1. PICK F \in SUBSET Staged :
          output' = [f \in Staged |-> IF f \in F THEN Formatted(begun.idx[f]) ELSE begun.idx[f]]
    BY <1>4 DEF Format
  <2>2. \A f \in Staged : begun.idx[f] \in TextsNow /\ Formatted(begun.idx[f]) \in TextsNow
    BY Contents DEF FormatTyped
  <2>3. output' \in [Staged -> TextsNow]
    BY <2>1, <2>2
  <2> QED BY <1>4, <2>3 DEF Format, Goes, FormatTyped, TextsNow, RunPlaces
<1>5. CASE JudgeFormat \/ LockIndex \/ CompareIndex \/ CompareFiles
  BY <1>5 DEF JudgeFormat, LockIndex, CompareIndex, CompareFiles, LocksIndex, Fails, FormatTyped,
              TextsNow, RunPlaces
<1>6. CASE WriteJournal
  BY <1>6 DEF WriteJournal, Journalled, Replaced, Goes, FormatTyped, TextsNow, RunPlaces
<1>7. CASE RenameIndex \/ DropJournal \/ RemoveLock \/ FormatterKilled
  BY <1>7 DEF RenameIndex, DropJournal, RemoveLock, FormatterKilled, Goes, FormatTyped, TextsNow,
              RunPlaces
<1>8. CASE GitLocks \/ GitLosesLock \/ GitCommits
  <2>1. CASE GitLocks
    BY <1>8, <2>1 DEF GitLocks, FormatTyped, TextsNow, RunPlaces
  <2>2. CASE GitLosesLock
    BY <1>8, <2>2 DEF GitLosesLock, FormatTyped, TextsNow, RunPlaces
  <2>3. CASE GitCommits
    <3>1. changes \in Nat /\ changes \in 0..changes
      BY DEF FormatTyped
    <3>2. git' \in [is : {"idle", "busy"}, idx : [Staged -> TextsNow]]
      BY <2>3 DEF GitCommits, FormatTyped
    <3> HIDE DEF TextsNow
    <3>3. TextsNow' = TextsNow
      BY <2>3 DEF GitCommits, TextsNow
    <3> QED BY <2>3, <3>1, <3>2, <3>3 DEF GitCommits, FormatTyped
  <2> QED BY <1>8, <2>1, <2>2, <2>3
<1>9. CASE UserReviews
  BY <1>9 DEF UserReviews, FormatTyped, TextsNow, RunPlaces
<1>10. ASSUME NEW f \in Staged, ApplyFile(f) PROVE FormatTyped'
  BY <1>10, SMTT(30) DEF ApplyFile, Fails, Replaced, FormatTyped, TextsNow,
               RunPlaces
<1>11. ASSUME NEW f \in Staged, UserEdits(f) PROVE FormatTyped'
  BY <1>11 DEF UserEdits, Raw, FormatTyped, TextsNow, RunPlaces
<1>12. ASSUME NEW f \in Staged, GitStages(f) PROVE FormatTyped'
  BY <1>12 DEF GitStages, FormatTyped, TextsNow, RunPlaces
<1> QED BY <1>1, <1>2, <1>3, <1>4, <1>5, <1>6, <1>7, <1>8, <1>9, <1>10, <1>11, <1>12 DEF FormatNext

\* Nobody moves the index under the formatter's lock, and a Git command has its own.
LEMMA LockKeepsStep ==
  ASSUME FormatInv, [FormatNext]_formatVars PROVE LockKeepsIndex'
<1>1. CASE UNCHANGED formatVars
  BY <1>1 DEF formatVars, LockKeepsIndex
<1>2. CASE ReadIndex
  BY <1>2 DEF ReadIndex, LockKeepsIndex, Comparing, Locking, Applying
<1>3. CASE ReadFiles
  BY <1>3 DEF ReadFiles, Goes, Fails, LockKeepsIndex, Comparing, Locking, Applying
<1>4. CASE Format \/ JudgeFormat
  BY <1>4 DEF Format, JudgeFormat, Goes, Fails, LockKeepsIndex, Comparing, Locking, Applying
<1>5. CASE LockIndex \/ CompareIndex \/ CompareFiles
  BY <1>5 DEF LockIndex, CompareIndex, CompareFiles, LocksIndex, Fails, LockKeepsIndex,
              Comparing, Locking, Applying
<1>6. CASE WriteJournal \/ RenameIndex \/ DropJournal \/ RemoveLock \/ FormatterKilled
  BY <1>6 DEF WriteJournal, RenameIndex, DropJournal, RemoveLock, FormatterKilled, Goes,
              LockKeepsIndex, Comparing, Locking, Applying
<1>7. CASE GitLocks \/ GitLosesLock \/ GitCommits
  BY <1>7 DEF GitLocks, GitLosesLock, GitCommits, FormatTyped, LockKeepsIndex, Comparing,
              Locking, Applying
<1>8. CASE UserReviews
  BY <1>8 DEF UserReviews, LockKeepsIndex, Comparing, Locking, Applying
<1>9. ASSUME NEW f \in Staged, ApplyFile(f) PROVE LockKeepsIndex'
  BY <1>9 DEF ApplyFile, Fails, LockKeepsIndex, Comparing, Locking, Applying
<1>10. ASSUME NEW f \in Staged, UserEdits(f) PROVE LockKeepsIndex'
  BY <1>10 DEF UserEdits, LockKeepsIndex, Comparing, Locking, Applying
<1>11. ASSUME NEW f \in Staged, GitStages(f) PROVE LockKeepsIndex'
  BY <1>11 DEF GitStages, LockKeepsIndex, Comparing, Locking, Applying
<1> QED BY <1>1, <1>2, <1>3, <1>4, <1>5, <1>6, <1>7, <1>8, <1>9, <1>10, <1>11 DEF FormatNext

\* The output of the formatter stays that of the index it read.
LEMMA OutputStep ==
  ASSUME FormatInv, [FormatNext]_formatVars PROVE OutputIsThere'
<1>1. CASE UNCHANGED formatVars
  BY <1>1 DEF formatVars, OutputIsThere, Replaced, WhollyStaged
<1>2. CASE ReadIndex \/ ReadFiles
  BY <1>2 DEF ReadIndex, ReadFiles, Goes, Fails, OutputIsThere, Holding, Locking, Comparing,
              Applying
<1>3. CASE Format
  BY <1>3 DEF Format, Goes, Formatted, FormatTyped, TextsNow, OutputIsThere, Holding, Locking,
              Comparing, Applying
<1>4. CASE JudgeFormat
  BY <1>4 DEF JudgeFormat, Fails, OutputIsThere, Replaced, WhollyStaged, Holding, Locking,
              Comparing, Applying
<1>5. CASE LockIndex \/ CompareIndex \/ CompareFiles \/ WriteJournal
  BY <1>5 DEF LockIndex, CompareIndex, CompareFiles, WriteJournal, Goes, Fails, OutputIsThere,
              Replaced, WhollyStaged, Holding, Locking, Comparing, Applying
<1>6. CASE RenameIndex \/ DropJournal \/ RemoveLock \/ FormatterKilled \/ UserReviews
  BY <1>6 DEF RenameIndex, DropJournal, RemoveLock, FormatterKilled, UserReviews, Goes,
              OutputIsThere, Holding, Locking, Comparing, Applying
<1>7. CASE GitLocks \/ GitLosesLock \/ GitCommits
  BY <1>7 DEF GitLocks, GitLosesLock, GitCommits, OutputIsThere, Replaced, WhollyStaged
<1>8. ASSUME NEW f \in Staged, ApplyFile(f) PROVE OutputIsThere'
  BY <1>8 DEF ApplyFile, Fails, OutputIsThere, Replaced, WhollyStaged, Holding, Locking,
              Comparing, Applying
<1>9. ASSUME NEW f \in Staged, UserEdits(f) \/ GitStages(f) PROVE OutputIsThere'
  BY <1>9 DEF UserEdits, GitStages, OutputIsThere, Replaced, WhollyStaged
<1> QED BY <1>1, <1>2, <1>3, <1>4, <1>5, <1>6, <1>7, <1>8, <1>9 DEF FormatNext

\* The journal is written before anything is replaced, and as long as it is there it names the same.
LEMMA JournalStep ==
  ASSUME FormatInv, [FormatNext]_formatVars PROVE JournalComesFirst'
<1>1. CASE UNCHANGED formatVars
  BY <1>1 DEF formatVars, JournalComesFirst, Replaced
<1>2. CASE ReadIndex \/ ReadFiles
  BY <1>2 DEF ReadIndex, ReadFiles, Goes, Fails, JournalComesFirst, Holding, Locking, Comparing,
              Applying
<1>3. CASE Format
  BY <1>3 DEF Format, Goes, JournalComesFirst, Holding, Locking, Comparing, Applying
<1>4. CASE JudgeFormat \/ LockIndex \/ CompareIndex \/ CompareFiles
  BY <1>4 DEF JudgeFormat, LockIndex, CompareIndex, CompareFiles, Fails, JournalComesFirst,
              Holding, Locking, Comparing, Applying
<1>5. CASE WriteJournal
  BY <1>5 DEF WriteJournal, Goes, Journalled, Replaced, WhollyStaged, OutputIsThere,
              JournalComesFirst, Holding, Locking, Comparing, Applying
<1>6. CASE RenameIndex \/ DropJournal \/ RemoveLock \/ FormatterKilled \/ UserReviews
  BY <1>6 DEF RenameIndex, DropJournal, RemoveLock, FormatterKilled, UserReviews, Goes,
              JournalComesFirst, Holding, Locking, Comparing, Applying
<1>7. CASE GitLocks \/ GitLosesLock \/ GitCommits
  BY <1>7 DEF GitLocks, GitLosesLock, GitCommits, JournalComesFirst, Replaced
<1>8. ASSUME NEW f \in Staged, ApplyFile(f) PROVE JournalComesFirst'
  BY <1>8 DEF ApplyFile, Fails, JournalComesFirst, Replaced, Holding, Locking, Comparing, Applying
<1>9. ASSUME NEW f \in Staged, UserEdits(f) \/ GitStages(f) PROVE JournalComesFirst'
  BY <1>9 DEF UserEdits, GitStages, JournalComesFirst, Replaced
<1> QED BY <1>1, <1>2, <1>3, <1>4, <1>5, <1>6, <1>7, <1>8, <1>9 DEF FormatNext

\* What was replaced stays so, but for an edit of the user's.
LEMMA ReplacedStep ==
  ASSUME FormatInv, [FormatNext]_formatVars PROVE ReplacedStays'
<1>1. CASE UNCHANGED formatVars
  BY <1>1 DEF formatVars, ReplacedStays, Replaced
<1>2. CASE ReadIndex \/ ReadFiles
  BY <1>2 DEF ReadIndex, ReadFiles, Goes, Fails, ReplacedStays, JournalComesFirst, Applying
<1>3. CASE Format
  BY <1>3 DEF Format, Goes, ReplacedStays, Applying
<1>4. CASE JudgeFormat \/ LockIndex \/ CompareIndex \/ CompareFiles
  BY <1>4 DEF JudgeFormat, LockIndex, CompareIndex, CompareFiles, Fails, ReplacedStays, Applying
<1>5. CASE WriteJournal
  BY <1>5 DEF WriteJournal, Goes, ReplacedStays, JournalComesFirst, Holding, Locking, Comparing,
              Applying
<1>6. CASE RenameIndex \/ DropJournal \/ RemoveLock \/ FormatterKilled \/ UserReviews
  BY <1>6 DEF RenameIndex, DropJournal, RemoveLock, FormatterKilled, UserReviews, Goes,
              ReplacedStays, Replaced, Applying
<1>7. CASE GitLocks \/ GitLosesLock \/ GitCommits
  BY <1>7 DEF GitLocks, GitLosesLock, GitCommits, ReplacedStays, Replaced
<1>8. ASSUME NEW f \in Staged, ApplyFile(f) PROVE ReplacedStays'
  BY <1>8 DEF ApplyFile, Fails, FormatTyped, ReplacedStays, Replaced, Applying
<1>9. ASSUME NEW f \in Staged, UserEdits(f) PROVE ReplacedStays'
  BY <1>9 DEF UserEdits, Raw, FormatTyped, TextsNow, ReplacedStays, Replaced
<1>10. ASSUME NEW f \in Staged, GitStages(f) PROVE ReplacedStays'
  BY <1>10 DEF GitStages, FormatTyped, LockKeepsIndex, ReplacedStays, Replaced
<1> QED BY <1>1, <1>2, <1>3, <1>4, <1>5, <1>6, <1>7, <1>8, <1>9, <1>10 DEF FormatNext

\* A file that was replaced without the index is one the journal names.
LEMMA HalfAppliedStep ==
  ASSUME FormatInv, [FormatNext]_formatVars PROVE HalfAppliedIsRecorded'
<1>1. CASE UNCHANGED formatVars
  BY <1>1 DEF formatVars, HalfAppliedIsRecorded
<1>2. CASE ReadIndex \/ ReadFiles
  BY <1>2 DEF ReadIndex, ReadFiles, Goes, Fails, HalfAppliedIsRecorded, JournalComesFirst
<1>3. CASE Format \/ JudgeFormat \/ LockIndex \/ CompareIndex \/ CompareFiles
  BY <1>3 DEF Format, JudgeFormat, LockIndex, CompareIndex, CompareFiles, HalfAppliedIsRecorded
<1>4. CASE WriteJournal
  BY <1>4 DEF WriteJournal, Goes, HalfAppliedIsRecorded, JournalComesFirst, Holding, Locking,
              Comparing, Applying
<1>5. CASE RenameIndex
  BY <1>5 DEF RenameIndex, Goes, HalfAppliedIsRecorded, ReplacedStays, Replaced, Applying
<1>6. CASE DropJournal
  BY <1>6 DEF DropJournal, Goes, HalfAppliedIsRecorded, ReplacedStays
<1>7. CASE RemoveLock \/ FormatterKilled \/ UserReviews
  BY <1>7 DEF RemoveLock, FormatterKilled, UserReviews, HalfAppliedIsRecorded
<1>8. CASE GitLocks \/ GitLosesLock \/ GitCommits
  BY <1>8 DEF GitLocks, GitLosesLock, GitCommits, HalfAppliedIsRecorded
<1>9. ASSUME NEW f \in Staged, ApplyFile(f) PROVE HalfAppliedIsRecorded'
  BY <1>9 DEF ApplyFile, FormatTyped, HalfAppliedIsRecorded, JournalComesFirst, Replaced, Applying
<1>10. ASSUME NEW f \in Staged, UserEdits(f) PROVE HalfAppliedIsRecorded'
  BY <1>10 DEF UserEdits, HalfAppliedIsRecorded
<1>11. ASSUME NEW f \in Staged, GitStages(f) PROVE HalfAppliedIsRecorded'
  BY <1>11 DEF GitStages, FormatTyped, LockKeepsIndex, HalfAppliedIsRecorded, ReplacedStays
<1> QED BY <1>1, <1>2, <1>3, <1>4, <1>5, <1>6, <1>7, <1>8, <1>9, <1>10, <1>11 DEF FormatNext

\* The invariant holds in every state.
THEOREM FormatInvariant == FormatSpec => []FormatInv
<1>1. FormatInit => FormatInv
  <2> SUFFICES ASSUME FormatInit PROVE FormatInv
    OBVIOUS
  <2>1. Raw(0) \in TextsNow /\ Formatted(Raw(0)) \in TextsNow
    BY Contents DEF FormatInit
  <2>2. work \in [Staged -> TextsNow] /\ AllRaw \in [Staged -> TextsNow]
    BY <2>1 DEF FormatInit, AllRaw
  <2>3. FormatTyped
    BY <2>2 DEF FormatInit, FormatTyped, TextsNow, RunPlaces
  <2>4. LockKeepsIndex /\ OutputIsThere /\ JournalComesFirst /\ ReplacedStays
        /\ HalfAppliedIsRecorded
    BY DEF FormatInit, LockKeepsIndex, OutputIsThere, JournalComesFirst, ReplacedStays,
           HalfAppliedIsRecorded, Holding, Locking, Comparing, Applying
  <2> QED BY <2>3, <2>4
<1>2. FormatInv /\ [FormatNext]_formatVars => FormatInv'
  BY FormatTypedStep, LockKeepsStep, OutputStep, JournalStep, ReplacedStep, HalfAppliedStep
     DEF FormatInv
<1> QED BY <1>1, <1>2, PTL DEF FormatSpec

\* Every variable keeps its declared type.
THEOREM FormatTypeCorrect == FormatSpec => []FormatTypeOK
<1>1. FormatInv => FormatTypeOK
  BY DEF FormatTyped, TextsNow, FormatTypeOK, FileContents, Texts
<1> QED BY <1>1, FormatInvariant, PTL

\* A text the user typed leaves the working file by another edit alone: what the
\* formatter puts there, and what a review puts back, has the text that is there.
THEOREM EditsStay == FormatSpec => EditsAreKept
<1> DEFINE Kept == \A f \in Staged : work'[f].text # work[f].text => work'[f].text = changes'
<1>1. FormatInv /\ [FormatNext]_formatVars => [Kept]_formatVars
  <2> SUFFICES ASSUME FormatInv, FormatNext PROVE Kept
    OBVIOUS
  <2>1. CASE UNCHANGED work
    BY <2>1
  <2>2. ASSUME NEW g \in Staged, ApplyFile(g) PROVE Kept
    <3>1. work' = work \/ work' = [work EXCEPT ![g] = output[g]]
      BY <2>2 DEF ApplyFile
    <3>2. work'[g] # work[g] => output[g].text = work[g].text
      BY <2>2 DEF ApplyFile, Unedited, JournalComesFirst, Applying, FormatTyped
    <3> QED BY <3>1, <3>2 DEF FormatTyped
  <2>3. ASSUME NEW g \in Staged, UserEdits(g) PROVE Kept
    BY <2>3 DEF UserEdits, Raw, FormatTyped
  <2>4. CASE UserReviews
    BY <2>4 DEF UserReviews, JournalComesFirst, FormatTyped
  <2> QED BY <2>1, <2>2, <2>3, <2>4
          DEF FormatNext, ReadIndex, ReadFiles, Format, JudgeFormat, LockIndex, CompareIndex,
              CompareFiles, WriteJournal, RenameIndex, DropJournal, RemoveLock, FormatterKilled,
              GitLocks, GitLosesLock, GitCommits, GitStages
<1> QED BY <1>1, FormatInvariant, PTL DEF FormatSpec, EditsAreKept

\* No text leaves the index or comes into it but by the user's staging.
THEOREM StagingStays == FormatSpec => StagingIsKept
<1> DEFINE Kept == \A f \in Staged : idx'[f].text # idx[f].text => idx'[f] = work[f]
<1>1. FormatInv /\ [FormatNext]_formatVars => [Kept]_formatVars
  <2> SUFFICES ASSUME FormatInv, FormatNext PROVE Kept
    OBVIOUS
  <2>1. CASE UNCHANGED idx
    BY <2>1
  <2>2. CASE RenameIndex
    BY <2>2 DEF RenameIndex, Goes, LockKeepsIndex, OutputIsThere, Holding, Locking, Comparing,
                Applying
  <2>3. ASSUME NEW g \in Staged, GitStages(g) PROVE Kept
    BY <2>3 DEF GitStages, LockKeepsIndex, FormatTyped
  <2> QED BY <2>1, <2>2, <2>3
          DEF FormatNext, ReadIndex, ReadFiles, Format, JudgeFormat, LockIndex, CompareIndex,
              CompareFiles, WriteJournal, DropJournal, RemoveLock, FormatterKilled, GitLocks,
              GitLosesLock, GitCommits, UserReviews, ApplyFile, UserEdits
<1> QED BY <1>1, FormatInvariant, PTL DEF FormatSpec, StagingIsKept

HIDE DEF NoJournal, FormatInv
----------------------------------------------------------------------------
(* Scanning what is pushed: the invariant.                               *)

\* The remote has with every commit its parents.
RemoteIsClosed == remote \subseteq Commits /\ \A c \in remote : parents[c] \subseteq remote

\* What a push's base names is on the remote.
BaseIsRemote ==
  push.pc \in {"roots", "trees", "check"} =>
    \A l \in push.local : push.base[l] \in remote \cup {0}

\* The list of revisions has everything the remote does not have, and every tip.
RootsCover ==
  push.pc \in {"trees", "check"} =>
    \A c \in (Reached(push.local) \ remote) \cup push.local : \E i \in DOMAIN roots : roots[i] = c

\* Every file of a revision that was read is among the pairs, also one that was
\* left out as being no difference.
ReadIsGathered ==
  /\ push.pc = "roots" => position = 1 /\ push.local # {}
  /\ push.pc = "trees" => position \in 1..Len(roots)
  /\ push.pc = "check" => position = Len(roots) + 1
  /\ push.pc \in {"trees", "check"} => \A i \in 1..(position - 1) : EntriesOf(roots[i]) \subseteq pairs

\* Whatever the policy was, only plain blobs are remembered.
CleanIsPlain == \A entry \in clean : entry[2] = "plain"

ScanInv == ScanTypeOK /\ RemoteIsClosed /\ BaseIsRemote /\ RootsCover /\ ReadIsGathered
           /\ CleanIsPlain
----------------------------------------------------------------------------
(* The scan: what is reached, and what a list of revisions holds.          *)

USE ScanAssumption

\* What is reached from some commits has them and all their parents, and is in
\* every set of commits that does.
LEMMA ReachedIsLeast ==
  ASSUME parents \in [Commits -> SUBSET Commits], NEW from, from \subseteq Commits
  PROVE  /\ Reached(from) \subseteq Commits /\ from \subseteq Reached(from)
         /\ \A c \in Reached(from) : parents[c] \subseteq Reached(from)
         /\ \A S \in SUBSET Commits :
              from \subseteq S /\ (\A d \in S : parents[d] \subseteq S) => Reached(from) \subseteq S
<1>1. Reached(from) \subseteq Commits /\ from \subseteq Reached(from)
  BY DEF Reached
<1>2. ASSUME NEW c \in Reached(from), NEW p \in parents[c] PROVE p \in Reached(from)
  <2>1. c \in Commits /\ p \in Commits
    BY <1>1
  <2>2. ASSUME NEW S \in SUBSET Commits, from \subseteq S, \A d \in S : parents[d] \subseteq S
        PROVE  p \in S
    BY <1>2, <2>2 DEF Reached
  <2> QED BY <2>1, <2>2 DEF Reached
<1>3. ASSUME NEW S \in SUBSET Commits, from \subseteq S, \A d \in S : parents[d] \subseteq S
      PROVE  Reached(from) \subseteq S
  BY <1>3 DEF Reached
<1> QED BY <1>1, <1>2, <1>3

\* What is reached from several commits is reached from one of them.
LEMMA ReachedFromOne ==
  ASSUME parents \in [Commits -> SUBSET Commits], NEW from, from \subseteq Commits,
         NEW c \in Reached(from)
  PROVE  \E l \in from : c \in Reached({l})
<1> DEFINE S == {d \in Commits : \E l \in from : d \in Reached({l})}
<1>1. ASSUME NEW l \in from
      PROVE  /\ {l} \subseteq Commits /\ l \in Reached({l}) /\ Reached({l}) \subseteq Commits
             /\ \A d \in Reached({l}) : parents[d] \subseteq Reached({l})
  <2>1. {l} \subseteq Commits
    OBVIOUS
  <2> QED BY <2>1, ReachedIsLeast
<1>2. from \subseteq S
  BY <1>1
<1>3. ASSUME NEW d \in S PROVE parents[d] \subseteq S
  <2>1. PICK l \in from : d \in Reached({l})
    OBVIOUS
  <2>2. parents[d] \subseteq Reached({l}) /\ Reached({l}) \subseteq Commits
    BY <1>1, <2>1
  <2> QED BY <2>1, <2>2
<1>4. Reached(from) \subseteq S
  <2> HIDE DEF S
  <2>1. S \in SUBSET Commits
    BY DEF S
  <2> QED BY <1>2, <1>3, <2>1, ReachedIsLeast
<1> QED BY <1>4

\* A listing of a finite set has all of it.
LEMMA ListingsCover ==
  ASSUME NEW S, IsFiniteSet(S), NEW order \in SetToSeqs(S)
  PROVE  order \in Seq(S) /\ \A x \in S : \E i \in DOMAIN order : order[i] = x
<1> DEFINE D == 1..Cardinality(S)
<1>1. Cardinality(S) \in Nat
  BY FS_CardinalityType
<1>2. order \in [D -> S] /\ \A i, j \in D : i # j => order[i] # order[j]
  BY DEF SetToSeqs
<1>3. order \in Injection(D, S)
  BY <1>2 DEF Injection, IsInjective
<1>4. Cardinality(D) = Cardinality(S)
  BY <1>1, FS_Interval
<1>5. order \in Surjection(D, S)
  BY <1>3, <1>4, FS_Injection
<1>6. order \in Seq(S)
  BY <1>1, <1>2
<1> QED BY <1>2, <1>5, <1>6 DEF Surjection

\* Whatever a base excludes is on the remote.
LEMMA ExcludedIsRemote ==
  ASSUME ScanInv, push.pc = "roots", NEW l \in push.local
  PROVE  Excluded(l) \subseteq remote
<1>1. parents \in [Commits -> SUBSET Commits] /\ remote \in SUBSET Commits /\ remote \subseteq remote
      /\ \A c \in remote : parents[c] \subseteq remote
  BY DEF ScanInv, ScanTypeOK, RemoteIsClosed
<1>2. push.base[l] \in remote \cup {0}
  BY DEF ScanInv, BaseIsRemote
<1>3. ASSUME NEW from, from \subseteq remote PROVE Reached(from) \subseteq remote
  BY <1>1, <1>3, ReachedIsLeast
<1>4. push.base[l] # 0 => {push.base[l]} \subseteq remote
  BY <1>2
<1> QED BY <1>1, <1>3, <1>4 DEF Excluded

----------------------------------------------------------------------------
(* The scan: every step keeps the invariant.                               *)

\* Git starts the hook.
LEMMA StartPushKeeps ==
  ASSUME ScanInv, NEW local \in SUBSET Commits, NEW bases \in [Commits -> Commits \cup {0}],
         NEW answers \in BOOLEAN, NEW pol \in Policies, StartPush(local, bases, answers, pol)
  PROVE  ScanInv'
<1>1. ScanTypeOK'
  BY DEF ScanInv, ScanTypeOK, StartPush
<1>2. RemoteIsClosed' /\ CleanIsPlain'
  BY DEF ScanInv, RemoteIsClosed, CleanIsPlain, StartPush
<1>3. BaseIsRemote'
  BY DEF ScanInv, BaseIsRemote, StartPush
<1>4. RootsCover' /\ ReadIsGathered'
  BY DEF RootsCover, ReadIsGathered, StartPush
<1> QED BY <1>1, <1>2, <1>3, <1>4 DEF ScanInv

\* The revisions are listed: all of them that the remote does not have.
LEMMA ListRevisionsKeeps == ASSUME ScanInv, ListRevisions PROVE ScanInv'
<1> DEFINE out == UNION {Revisions(c) : c \in push.local}
<1>1. /\ parents \in [Commits -> SUBSET Commits] /\ push.local \subseteq Commits
      /\ push.pc = "roots" /\ push' = [push EXCEPT !.pc = "trees"]
      /\ UNCHANGED <<parents, treeOf, remote, policy, position, pairs, clean, pushes>>
  BY DEF ScanInv, ScanTypeOK, ListRevisions
<1>2. ASSUME NEW l \in push.local PROVE Revisions(l) \subseteq Commits
  <2>1. {l} \subseteq Commits
    BY <1>1
  <2> QED BY <1>1, <2>1, ReachedIsLeast DEF Revisions
<1>3. out \subseteq Commits
  BY <1>2
<1>4. IsFiniteSet(out)
  BY <1>3, FS_Subset
<1>5. roots' \in SetToSeqs(out)
  BY DEF ListRevisions
<1>6. roots' \in Seq(out) /\ \A c \in out : \E i \in DOMAIN roots' : roots'[i] = c
  <2> HIDE DEF out
  <2> QED BY <1>4, <1>5, ListingsCover
<1>7. roots' \in Seq(Commits)
  BY <1>3, <1>6
<1>8. push'.local = push.local /\ push'.base = push.base /\ push'.pc = "trees"
  BY <1>1 DEF ScanInv, ScanTypeOK
<1>9. ScanTypeOK'
  BY <1>1, <1>7 DEF ScanInv, ScanTypeOK
<1>10. RootsCover'
  <2>1. ASSUME NEW c \in (Reached(push.local) \ remote) \cup push.local PROVE c \in out
    <3>1. CASE c \in push.local
      BY <3>1 DEF Revisions
    <3>2. CASE c \in Reached(push.local) /\ c \notin remote
      <4>1. PICK l \in push.local : c \in Reached({l})
        BY <1>1, <3>2, ReachedFromOne
      <4>2. c \in Revisions(l)
        BY <1>1, <3>2, <4>1, ExcludedIsRemote DEF Revisions
      <4> QED BY <4>2
    <3> QED BY <2>1, <3>1, <3>2
  <2>2. Reached(push.local)' = Reached(push.local)
    BY <1>1, <1>8 DEF Reached
  <2> HIDE DEF out
  <2> QED BY <1>1, <1>6, <1>8, <2>1, <2>2 DEF RootsCover
<1>11. ReadIsGathered'
  <2>1. PICK l \in push.local : TRUE
    BY <1>1 DEF ScanInv, ReadIsGathered
  <2>2. \E i \in DOMAIN roots' : roots'[i] = l
    <3>1. l \in out
      BY DEF Revisions
    <3> HIDE DEF out
    <3> QED BY <1>6, <3>1
  <2>3. position' = 1 /\ position \in 1..Len(roots')
    BY <1>1, <1>7, <2>2 DEF ScanInv, ReadIsGathered
  <2> QED BY <1>1, <1>8, <2>3 DEF ReadIsGathered
<1>12. RemoteIsClosed' /\ CleanIsPlain' /\ BaseIsRemote'
  BY <1>1, <1>8 DEF ScanInv, RemoteIsClosed, CleanIsPlain, BaseIsRemote
<1> QED BY <1>9, <1>10, <1>11, <1>12 DEF ScanInv

\* One more revision is read: what it shares with the one before is there already.
LEMMA ReadRevisionKeeps == ASSUME ScanInv, ReadRevision PROVE ScanInv'
<1>1. /\ push.pc = "trees" /\ position \in 1..Len(roots) /\ position' = position + 1
      /\ roots \in Seq(Commits) /\ treeOf \in [Commits -> Trees]
      /\ UNCHANGED <<parents, treeOf, remote, policy, roots, clean, pushes>>
  BY DEF ScanInv, ScanTypeOK, ReadIsGathered, ReadRevision
<1>2. push'.local = push.local /\ push'.base = push.base
      /\ push'.pc = IF position = Len(roots) THEN "check" ELSE "trees"
  BY DEF ScanInv, ScanTypeOK, ReadRevision
<1>3. ASSUME NEW c \in Commits PROVE EntriesOf(c) \subseteq ScanPaths \X Blobs
  <2>1. ASSUME NEW q \in ScanPaths, treeOf[c][q] # "none" PROVE treeOf[c][q] \in Blobs
    BY <1>1, <2>1 DEF Trees
  <2> QED BY <2>1 DEF EntriesOf
<1>4. /\ pairs \subseteq pairs' /\ pairs' \subseteq ScanPaths \X Blobs
      /\ EntriesOf(roots[position]) \subseteq pairs'
  <2>1. CASE position = 1
    BY <1>1, <1>3, <2>1 DEF ScanInv, ScanTypeOK, ReadRevision, Previous
  <2>2. CASE position # 1
    <3>1. Previous(position) = roots[position - 1] /\ position - 1 \in 1..(position - 1)
          /\ roots[position - 1] \in Commits
      BY <1>1, <2>2 DEF Previous
    <3>2. EntriesOf(roots[position - 1]) \subseteq pairs
      BY <1>1, <3>1 DEF ScanInv, ReadIsGathered
    <3>3. pairs' = pairs \cup (EntriesOf(roots[position]) \ EntriesOf(roots[position - 1]))
      BY <3>1 DEF ReadRevision, Differences
    <3>4. EntriesOf(roots[position]) \subseteq ScanPaths \X Blobs
      <4>1. roots[position] \in Commits
        BY <1>1
      <4> QED BY <1>3, <4>1
    <3>5. pairs \subseteq ScanPaths \X Blobs
      BY DEF ScanInv, ScanTypeOK
    <3> QED BY <3>2, <3>3, <3>4, <3>5, Zenon
  <2> QED BY <2>1, <2>2
<1>5. ScanTypeOK'
  <2>1. position' \in Nat
    BY <1>1
  <2>2. push' \in [pc : {"idle", "roots", "trees", "check", "passed", "refused"},
                   local : SUBSET Commits, base : [Commits -> Commits \cup {0}], answers : BOOLEAN]
    BY DEF ScanInv, ScanTypeOK, ReadRevision
  <2> QED BY <1>1, <1>4, <2>1, <2>2 DEF ScanInv, ScanTypeOK
<1>6. ReadIsGathered'
  <2>1. ASSUME NEW i \in 1..(position' - 1) PROVE EntriesOf(roots[i]) \subseteq pairs'
    <3>1. i \in 1..(position - 1) \/ i = position
      BY <1>1
    <3> QED BY <1>1, <1>4, <3>1 DEF ScanInv, ReadIsGathered
  <2>2. \A i \in 1..(position' - 1) : EntriesOf(roots[i])' \subseteq pairs'
    BY <1>1, <2>1 DEF EntriesOf
  <2> QED BY <1>1, <1>2, <2>2 DEF ReadIsGathered
<1>7. RootsCover'
  BY <1>1, <1>2 DEF ScanInv, RootsCover, Reached
<1>8. RemoteIsClosed' /\ CleanIsPlain' /\ BaseIsRemote'
  BY <1>1, <1>2 DEF ScanInv, RemoteIsClosed, CleanIsPlain, BaseIsRemote
<1> QED BY <1>5, <1>6, <1>7, <1>8 DEF ScanInv

\* The worker answers; a push it lets pass brings all its commits to the remote.
LEMMA CheckBlobsKeeps == ASSUME ScanInv, CheckBlobs PROVE ScanInv'
<1>1. /\ parents \in [Commits -> SUBSET Commits] /\ push.local \subseteq Commits
      /\ UNCHANGED <<parents, treeOf, policy, roots, position, pairs, pushes>>
  BY DEF ScanInv, ScanTypeOK, CheckBlobs
<1>2. remote' = remote \/ remote' = remote \cup Reached(push.local)
  BY DEF CheckBlobs
<1>3. RemoteIsClosed'
  <2>1. Reached(push.local) \subseteq Commits
        /\ \A c \in Reached(push.local) : parents[c] \subseteq Reached(push.local)
    BY <1>1, ReachedIsLeast
  <2> QED BY <1>1, <1>2, <2>1 DEF ScanInv, RemoteIsClosed
<1>4. push'.pc \in {"passed", "refused"} /\ push' \in [pc : {"passed", "refused"},
        local : SUBSET Commits, base : [Commits -> Commits \cup {0}], answers : BOOLEAN]
  BY DEF ScanInv, ScanTypeOK, CheckBlobs
<1>5. clean' \subseteq Policies \X Blobs /\ CleanIsPlain'
  <2>1. Remembered \subseteq {"plain"}
    BY DEF Remembered, Scanned, Pending, SelectedBlobs, Blobs
  <2>2. policy \in Policies
    BY DEF ScanInv, ScanTypeOK
  <2>3. clean' = clean \/ clean' = clean \cup {<<policy, b>> : b \in Remembered}
    BY DEF CheckBlobs
  <2> QED BY <2>1, <2>2, <2>3 DEF ScanInv, ScanTypeOK, CleanIsPlain, Blobs
<1>6. ScanTypeOK'
  BY <1>1, <1>3, <1>4, <1>5 DEF ScanInv, ScanTypeOK, RemoteIsClosed
<1>7. BaseIsRemote' /\ RootsCover' /\ ReadIsGathered'
  BY <1>4 DEF BaseIsRemote, RootsCover, ReadIsGathered
<1> QED BY <1>3, <1>5, <1>6, <1>7 DEF ScanInv

\* The invariant holds in every state.
THEOREM ScanInvariant == ScanSpec => []ScanInv
<1>1. ScanInit => ScanInv
  <2> SUFFICES ASSUME ScanInit PROVE ScanInv
    OBVIOUS
  <2>1. ScanTypeOK
    BY DEF ScanInit, ScanTypeOK, SomeTrees, Policies
  <2> QED BY <2>1 DEF ScanInit, ScanInv, RemoteIsClosed, BaseIsRemote, RootsCover,
             ReadIsGathered, CleanIsPlain
<1>2. ScanInv /\ [ScanNext]_scanVars => ScanInv'
  <2>1. ScanInv /\ UNCHANGED scanVars => ScanInv'
    <3> SUFFICES ASSUME ScanInv, UNCHANGED scanVars PROVE ScanInv'
      OBVIOUS
    <3>1. ScanTypeOK' /\ RemoteIsClosed' /\ BaseIsRemote' /\ CleanIsPlain'
      BY DEF scanVars, ScanInv, ScanTypeOK, RemoteIsClosed, BaseIsRemote, CleanIsPlain
    <3>2. RootsCover'
      BY DEF scanVars, ScanInv, RootsCover, Reached
    <3>3. ReadIsGathered'
      BY DEF scanVars, ScanInv, ReadIsGathered, EntriesOf
    <3> QED BY <3>1, <3>2, <3>3 DEF ScanInv
  <2> QED BY <2>1, StartPushKeeps, ListRevisionsKeeps, ReadRevisionKeeps, CheckBlobsKeeps
          DEF ScanNext
<1> QED BY <1>1, <1>2, PTL DEF ScanSpec

\* What was gathered and is not refused is harmless.
LEMMA GatheredIsHarmless ==
  ASSUME ScanInv, CheckBlobs, push'.pc = "passed", NEW c \in Commits,
         \E i \in DOMAIN roots : roots[i] = c
  PROVE  Harmless(c)
<1>1. push.pc = "check" /\ ~Refused
  BY DEF CheckBlobs, ScanInv, ScanTypeOK
<1>2. EntriesOf(c) \subseteq pairs
  BY <1>1 DEF ScanInv, ScanTypeOK, ReadIsGathered
<1>3. ASSUME NEW p \in ScanPaths, treeOf[c][p] \in {"bad", "binary"}, p = "src" \/ treeOf[c][p] = "bad"
      PROVE  <<p, treeOf[c][p]>> \in policy
  <2> DEFINE b == treeOf[c][p]
  <2>1. <<p, b>> \in pairs
    BY <1>2, <1>3 DEF EntriesOf
  <2>2. SUFFICES ASSUME <<p, b>> \notin policy PROVE FALSE
    OBVIOUS
  <2>3. <<policy, b>> \notin clean
    BY <1>3 DEF ScanInv, CleanIsPlain
  <2>4. b \in Pending
    BY <1>3, <2>1, <2>2, <2>3 DEF Pending, SelectedBlobs, Blobs
  <2>5. b = "binary" => IsSource(b)
    BY <1>3, <2>1, <2>2 DEF IsSource
  <2> QED BY <1>1, <1>3, <2>4, <2>5 DEF Refused
<1> QED BY <1>3 DEF Harmless

\* A push passes only if every file of every revision the remote did not have is
\* harmless under the policy of this push.
THEOREM PassedStaysHarmless == ScanSpec => PassedIsHarmless
<1> DEFINE Judged == push.pc = "check" /\ push'.pc = "passed"
                       => \A c \in Reached(push.local) \ remote : Harmless(c)
<1>1. ScanInv /\ [ScanNext]_scanVars => [Judged]_scanVars
  <2> SUFFICES ASSUME ScanInv, ScanNext, push.pc = "check", push'.pc = "passed",
                      NEW c \in Reached(push.local) \ remote
               PROVE  Harmless(c)
    OBVIOUS
  <2>1. CheckBlobs
    BY DEF ScanNext, StartPush, ListRevisions, ReadRevision
  <2>2. c \in Commits /\ \E i \in DOMAIN roots : roots[i] = c
    BY DEF ScanInv, RootsCover, Reached
  <2> QED BY <2>1, <2>2, GatheredIsHarmless
<1> QED BY <1>1, ScanInvariant, PTL DEF ScanSpec, PassedIsHarmless

\* And so is every tip, also one the remote has already.
THEOREM TipsStayHarmless == ScanSpec => TipsAreHarmless
<1> DEFINE Judged == push.pc = "check" /\ push'.pc = "passed" => \A c \in push.local : Harmless(c)
<1>1. ScanInv /\ [ScanNext]_scanVars => [Judged]_scanVars
  <2> SUFFICES ASSUME ScanInv, ScanNext, push.pc = "check", push'.pc = "passed",
                      NEW c \in push.local
               PROVE  Harmless(c)
    OBVIOUS
  <2>1. CheckBlobs
    BY DEF ScanNext, StartPush, ListRevisions, ReadRevision
  <2>2. c \in Commits /\ \E i \in DOMAIN roots : roots[i] = c
    BY DEF ScanInv, ScanTypeOK, RootsCover
  <2> QED BY <2>1, <2>2, GatheredIsHarmless
<1> QED BY <1>1, ScanInvariant, PTL DEF ScanSpec, TipsAreHarmless
----------------------------------------------------------------------------
(* Installing hooks: the invariant.                                      *)

\* The places of an operation that has Git's locks, and those of them where files
\* are replaced and restored.
Writing == {"publish", "verify", "rollback"}
Locked == {"recheck", "read"} \cup Writing
Needed == IF admin.kind = "remove" THEN {Own(ownConfig)} ELSE Configs

\* The operation has its locks, and what they protect nobody else changes.
LocksHeld ==
  /\ admin.pc \in Locked => \A c \in Needed : locks[c] = "admin"
  /\ admin.pc \notin Locked => \A c \in Configs : locks[c] # "admin"
  /\ admin.pc \in Writing => dirty \cap (Needed \cup {"ownership"}) = {}

\* What is read when writing begins: a state of the repository as any other.
Sound(fs) ==
  /\ fs.config[Own(ownConfig)].hooks = "target" => \A b \in Bridges : fs.bridge[b] # "none"
  /\ fs.config["shared"].hooks # "target"
  /\ IdentityOf(fs)
PlanFits ==
  admin.pc \in Writing =>
    /\ Sound(old)
    /\ admin.kind = "install" => target = Installed(old)
    /\ admin.kind = "remove" => target = Removed(old) /\ old.config[Own(ownConfig)].hooks = "target"

\* Before anything is written, and after everything is restored, files are as read.
UnwrittenIsOld ==
  admin.pc \in {"check", "lock", "recheck", "failed"} =>
    \A f \in HookFiles \ dirty : Part(files, f) = Part(old, f)

\* In between, a file is the new one if it was written and the old one if not, or
\* was edited meanwhile.
PutInPlace == {Order[i] : i \in published}
Stands(f) == IF f \in PutInPlace THEN target ELSE old
Edited(f) ==
  /\ f \in dirty /\ (f \in Bridges => files.bridge[f] = "edited")
  /\ f \in Configs => /\ files.config[f].hooks # "target"
                       /\ files.config[f].identity = old.config[f].identity
                       /\ files.config[f].ext = old.config[f].ext
FilesStand ==
  admin.pc \in Writing =>
    \A f \in HookFiles : Part(files, f) = Part(Stands(f), f) \/ Edited(f)

\* Files are written in their order and restored in the opposite one; those that are
\* left out do not change.
Skipped(i) == i \in published \/ Part(old, Order[i]) = Part(target, Order[i])
WrittenInOrder ==
  admin.pc \in Writing =>
    /\ published \subseteq 1..Len(Order)
    /\ \A i \in published : \A j \in 1..i : Skipped(j)
    /\ admin.pc = "publish" => published \subseteq 1..(admin.at - 1) /\ admin.at <= Len(Order)
                               /\ \A j \in 1..(admin.at - 1) : Skipped(j)

\* Until it has read the files an operation is at the beginning of its order.
Unstarted ==
  admin.pc \in {"check", "lock", "recheck", "read"} => published = {} /\ admin.at = 1

HookInv == /\ HookTypeOK /\ LocksHeld /\ PlanFits /\ UnwrittenIsOld /\ FilesStand /\ WrittenInOrder
           /\ Unstarted /\ Sound(files)
----------------------------------------------------------------------------
(* Hook installation: the files of an operation and its order.             *)

USE HookAssumption DEF Bridges, Configs, HookFiles

\* An order names files, each of them once.
LEMMA Orders ==
  ASSUME HookTypeOK
  PROVE  /\ admin.kind = "install" =>
              /\ Len(Order) = 6 /\ Order[1] = "pre-commit" /\ Order[2] = "pre-push"
              /\ Order[3] = "ownership" /\ Order[4] = "primary" /\ Order[5] = "selected"
              /\ Order[6] = "shared"
         /\ admin.kind = "remove" =>
              /\ Len(Order) = 4 /\ Order[1] = Own(ownConfig) /\ Order[2] = "pre-commit"
              /\ Order[3] = "pre-push" /\ Order[4] = "ownership"
         /\ Len(Order) \in {4, 6} /\ admin.kind \in {"install", "remove"}
         /\ \A i \in 1..Len(Order) : Order[i] \in HookFiles
         /\ \A i, j \in 1..Len(Order) : Order[i] = Order[j] => i = j
<1>1. admin.kind \in {"install", "remove"} /\ Own(ownConfig) \in {"primary", "selected"}
  BY DEF HookTypeOK, Own
<1>2. CASE admin.kind = "install"
  BY <1>2 DEF Order
<1>3. CASE admin.kind = "remove"
  BY <1>1, <1>3 DEF Order
<1> QED BY <1>1, <1>2, <1>3

\* Files are the same when their parts are.
LEMMA PartsTell ==
  ASSUME NEW fs \in FileSet, NEW gs \in FileSet
  PROVE  /\ \A b \in Bridges : Part(fs, b) = Part(gs, b) <=> fs.bridge[b] = gs.bridge[b]
         /\ Part(fs, "ownership") = Part(gs, "ownership") <=> fs.owner = gs.owner
         /\ \A c \in Configs : Part(fs, c) = Part(gs, c) <=> fs.config[c] = gs.config[c]
  BY DEF Part

\* Replacing a file by another's replaces nothing else.
LEMMA Replacing ==
  ASSUME NEW fs \in FileSet, NEW from \in FileSet, NEW f \in HookFiles
  PROVE  /\ With(fs, f, from) \in FileSet
         /\ Part(With(fs, f, from), f) = Part(from, f)
         /\ \A g \in HookFiles : g # f => Part(With(fs, f, from), g) = Part(fs, g)
<1> DEFINE W == With(fs, f, from)
<1>0. /\ fs.bridge \in [Bridges -> {"none", "ours", "edited"}] /\ fs.config \in [Configs -> Config]
      /\ from.bridge \in [Bridges -> {"none", "ours", "edited"}] /\ from.config \in [Configs -> Config]
      /\ from.owner \in BOOLEAN
  BY DEF FileSet
<1>1. CASE f \in Bridges
  <2>1. W = [fs EXCEPT !.bridge[f] = from.bridge[f]]
    BY <1>1 DEF With
  <2>2. W \in FileSet
    BY <1>0, <1>1, <2>1 DEF FileSet
  <2>3. W.bridge = [fs.bridge EXCEPT ![f] = from.bridge[f]] /\ W.owner = fs.owner
        /\ W.config = fs.config
    BY <2>1 DEF FileSet
  <2> QED BY <1>0, <1>1, <2>2, <2>3 DEF Part
<1>2. CASE f = "ownership"
  <2>1. W = [fs EXCEPT !.owner = from.owner]
    BY <1>2 DEF With
  <2>2. W \in FileSet
    BY <1>0, <2>1 DEF FileSet
  <2>3. W.bridge = fs.bridge /\ W.owner = from.owner /\ W.config = fs.config
    BY <2>1 DEF FileSet
  <2> QED BY <1>0, <1>2, <2>2, <2>3 DEF Part
<1>3. CASE f \in Configs
  <2>1. W = [fs EXCEPT !.config[f] = from.config[f]]
    BY <1>3 DEF With
  <2>2. W \in FileSet
    BY <1>0, <1>3, <2>1 DEF FileSet
  <2>3. W.bridge = fs.bridge /\ W.owner = fs.owner
        /\ W.config = [fs.config EXCEPT ![f] = from.config[f]]
    BY <2>1 DEF FileSet
  <2> QED BY <1>0, <1>3, <2>2, <2>3 DEF Part
<1> QED BY <1>1, <1>2, <1>3

\* The newest of some places is one of them and none is newer.
LEMMA NewestPlace ==
  ASSUME NEW S, S \subseteq 1..6, S # {}
  PROVE  LastOf(S) \in S /\ \A j \in S : j <= LastOf(S)
<1>1. \E i \in S : \A j \in S : j <= i
  <2>1. CASE 6 \in S
    BY <2>1
  <2>2. CASE 6 \notin S /\ 5 \in S
    BY <2>2
  <2>3. CASE 6 \notin S /\ 5 \notin S /\ 4 \in S
    BY <2>3
  <2>4. CASE 6 \notin S /\ 5 \notin S /\ 4 \notin S /\ 3 \in S
    BY <2>4
  <2>5. CASE 6 \notin S /\ 5 \notin S /\ 4 \notin S /\ 3 \notin S /\ 2 \in S
    BY <2>5
  <2>6. CASE 6 \notin S /\ 5 \notin S /\ 4 \notin S /\ 3 \notin S /\ 2 \notin S
    <3>1. \A j \in S : j = 1
      <4>1. \A j \in 1..6 : j = 1 \/ j = 2 \/ j = 3 \/ j = 4 \/ j = 5 \/ j = 6
        OBVIOUS
      <4> QED BY <2>6, <4>1
    <3>2. 1 \in S
      BY <3>1
    <3> QED BY <3>1, <3>2
  <2>7. 6 \in S \/ 5 \in S \/ 4 \in S \/ 3 \in S \/ 2 \in S
        \/ (6 \notin S /\ 5 \notin S /\ 4 \notin S /\ 3 \notin S /\ 2 \notin S)
    OBVIOUS
  <2> QED BY <2>1, <2>2, <2>3, <2>4, <2>5, <2>6, <2>7
<1> QED BY <1>1 DEF LastOf

\* What an operation makes of files.
LEMMA Making ==
  ASSUME HookTypeOK, NEW fs \in FileSet
  PROVE  /\ Installed(fs) \in FileSet /\ Removed(fs) \in FileSet
         /\ \A b \in Bridges : Installed(fs).bridge[b] = "ours" /\ Removed(fs).bridge[b] = "none"
         /\ Installed(fs).config["shared"].hooks = fs.config["shared"].hooks
         /\ Installed(fs).config[Own(ownConfig)].hooks = "target"
         /\ IdentityOf(fs) => Installed(fs).config["primary"].identity \/ Installed(fs).config["shared"].identity
         /\ fs.config["shared"].ext =>
              \A c \in Configs : Installed(fs).config[c].identity = fs.config[c].identity
         /\ Installed(fs).config["shared"].ext
         /\ Removed(fs).config[Own(ownConfig)].hooks = "none"
         /\ \A c \in Configs : /\ Removed(fs).config[c].identity = fs.config[c].identity
                               /\ Removed(fs).config[c].ext = fs.config[c].ext
         /\ \A c \in Configs \ {"shared"} : Installed(fs).config[c].ext = fs.config[c].ext
<1>1. Own(ownConfig) \in {"primary", "selected"}
  BY DEF HookTypeOK, Own
<1>2. fs.config \in [Configs -> Config] /\ fs.bridge \in [Bridges -> {"none", "ours", "edited"}]
  BY DEF FileSet
<1> HIDE DEF Own
<1>3. Installed(fs) \in FileSet
  BY <1>1, <1>2 DEF Installed, FileSet, Config
<1>4. Removed(fs) \in FileSet
  BY <1>1, <1>2 DEF Removed, FileSet, Config
<1>5. \A c \in Configs :
        /\ Installed(fs).config[c].hooks = IF c = Own(ownConfig) THEN "target" ELSE fs.config[c].hooks
        /\ Installed(fs).config[c].ext = (fs.config[c].ext \/ c = "shared")
        /\ fs.config["shared"].ext => Installed(fs).config[c].identity = fs.config[c].identity
  BY <1>1, <1>2 DEF Installed, Config
<1>6. ~fs.config["shared"].ext =>
        Installed(fs).config["primary"].identity = fs.config["shared"].identity
  BY <1>1, <1>2 DEF Installed, Config
<1>7. \A b \in Bridges : Installed(fs).bridge[b] = "ours" /\ Removed(fs).bridge[b] = "none"
  BY DEF Installed, Removed
<1>8. Removed(fs).config[Own(ownConfig)].hooks = "none"
      /\ \A c \in Configs : /\ Removed(fs).config[c].identity = fs.config[c].identity
                            /\ Removed(fs).config[c].ext = fs.config[c].ext
  BY <1>1, <1>2 DEF Removed, Config
<1>9. /\ Installed(fs).config["shared"].hooks = fs.config["shared"].hooks
      /\ Installed(fs).config[Own(ownConfig)].hooks = "target"
      /\ Installed(fs).config["shared"].ext
      /\ \A c \in Configs \ {"shared"} : Installed(fs).config[c].ext = fs.config[c].ext
  <2>1. /\ "shared" \in Configs /\ Own(ownConfig) \in Configs /\ Own(ownConfig) # "shared"
        /\ \A c \in Configs : fs.config[c].ext \in BOOLEAN
    BY <1>1, <1>2 DEF Config
  <2> QED BY <1>5, <2>1
<1>10. IdentityOf(fs) => Installed(fs).config["primary"].identity \/ Installed(fs).config["shared"].identity
  BY <1>5, <1>6 DEF IdentityOf
<1> QED BY <1>3, <1>4, <1>5, <1>7, <1>8, <1>9, <1>10

\* While files are written and restored, in whatever combination of the old ones and
\* the new ones, Git sees whole hooks and the repository's identity.
LEMMA StandingIsSound ==
  HookTypeOK /\ LocksHeld /\ PlanFits /\ FilesStand /\ WrittenInOrder /\ admin.pc \in Writing
    => Sound(files)
<1> SUFFICES ASSUME HookTypeOK, LocksHeld, PlanFits, FilesStand, WrittenInOrder,
                    admin.pc \in Writing
             PROVE  Sound(files)
  OBVIOUS
<1> DEFINE own == Own(ownConfig)
<1>1. /\ own \in {"primary", "selected"} /\ own \in Configs
      /\ files \in FileSet /\ old \in FileSet /\ target \in FileSet
  BY DEF HookTypeOK, Own
<1>2. /\ Sound(old) /\ published \subseteq 1..Len(Order)
      /\ \A i \in published : \A j \in 1..i : Skipped(j)
      /\ \A f \in HookFiles : Part(files, f) = Part(Stands(f), f) \/ Edited(f)
      /\ dirty \cap (Needed \cup {"ownership"}) = {}
  BY DEF PlanFits, FilesStand, WrittenInOrder, LocksHeld
<1>3. \A c \in Needed : c \in Configs => files.config[c] = Stands(c).config[c]
  BY <1>1, <1>2, PartsTell DEF Edited, Stands
<1>4. \A b \in Bridges : files.bridge[b] = Stands(b).bridge[b] \/ files.bridge[b] = "edited"
  BY <1>1, <1>2, PartsTell DEF Edited, Stands
<1>5. \A j \in 1..Len(Order) :
        Skipped(j) => Order[j] \in PutInPlace \/ Part(old, Order[j]) = Part(target, Order[j])
  BY DEF Skipped, PutInPlace
<1>6. CASE admin.kind = "install"
  <2>1. target = Installed(old) /\ Needed = Configs
    BY <1>6 DEF PlanFits, Needed
  <2>2. \A b \in Bridges : target.bridge[b] = "ours"
    BY <1>1, <2>1, Making
  <2>3. ASSUME files.config[own].hooks = "target", NEW b \in Bridges PROVE files.bridge[b] # "none"
    <3>1. CASE own \notin PutInPlace
      <4>1. old.bridge[b] # "none"
        BY <1>1, <1>2, <1>3, <2>1, <2>3, <3>1 DEF Sound, Stands
      <4> QED BY <1>4, <2>2, <4>1 DEF Stands
    <3>2. CASE own \in PutInPlace
      <4>1. PICK i \in published : Order[i] = own
        BY <3>2 DEF PutInPlace
      <4>2. i \in {4, 5} /\ \E j \in {1, 2} : Order[j] = b
        BY <1>1, <1>2, <1>6, <4>1, Orders
      <4>3. PICK j \in {1, 2} : Order[j] = b
        BY <4>2
      <4>4. Skipped(j) /\ j \in 1..Len(Order)
        BY <1>2, <1>6, <4>1, <4>2, Orders
      <4>5. b \in PutInPlace \/ old.bridge[b] = "ours"
        BY <1>1, <1>5, <2>2, <4>3, <4>4, PartsTell
      <4> QED BY <1>4, <2>2, <4>5 DEF Stands
    <3> QED BY <3>1, <3>2
  <2>4. files.config["shared"].hooks # "target"
    <3>1. files.config["shared"] = Stands("shared").config["shared"]
      BY <1>3, <2>1
    <3> QED BY <1>1, <1>2, <2>1, <3>1, Making DEF Stands, Sound
  <2>5. IdentityOf(files)
    <3>1. /\ files.config["shared"] = Stands("shared").config["shared"]
          /\ files.config["primary"] = Stands("primary").config["primary"]
      BY <1>3, <2>1
    <3>2. IdentityOf(old)
      BY <1>2 DEF Sound
    <3>3. CASE "shared" \in PutInPlace
      <4>1. PICK i \in published : Order[i] = "shared"
        BY <3>3 DEF PutInPlace
      <4>2. i = 6
        BY <1>2, <1>6, <4>1, Orders
      <4>3. Skipped(4) /\ 4 \in 1..Len(Order) /\ Order[4] = "primary"
        BY <1>2, <1>6, <4>1, <4>2, Orders
      <4>4. "primary" \in PutInPlace \/ Part(old, "primary") = Part(target, "primary")
        BY <1>5, <4>3
      <4>5. files.config["primary"] = target.config["primary"]
        BY <1>1, <3>1, <4>4, PartsTell DEF Stands
      <4>6. files.config["shared"] = target.config["shared"]
        BY <3>1, <3>3 DEF Stands
      <4>7. target.config["primary"].identity \/ target.config["shared"].identity
        BY <1>1, <2>1, <3>2, Making
      <4>8. target.config["shared"].ext
        BY <1>1, <2>1, Making
      <4> QED BY <4>5, <4>6, <4>7, <4>8 DEF IdentityOf
    <3>4. CASE "shared" \notin PutInPlace
      <4>1. files.config["shared"] = old.config["shared"]
        BY <3>1, <3>4 DEF Stands
      <4>2. old.config["shared"].ext =>
              files.config["primary"].identity = old.config["primary"].identity
        BY <1>1, <2>1, <3>1, Making DEF Stands
      <4> QED BY <3>2, <4>1, <4>2 DEF IdentityOf
    <3> QED BY <3>3, <3>4
  <2> QED BY <2>3, <2>4, <2>5 DEF Sound
<1>7. CASE admin.kind = "remove"
  <2>1. target = Removed(old) /\ old.config[own].hooks = "target" /\ Needed = {own}
    BY <1>7 DEF PlanFits, Needed
  <2>2. target.config[own].hooks = "none"
    BY <1>1, <2>1, Making
  <2>3. files.config[own] = Stands(own).config[own]
    BY <1>1, <1>3, <2>1
  <2>4. ASSUME files.config[own].hooks = "target", NEW b \in Bridges PROVE files.bridge[b] # "none"
    <3>1. own \notin PutInPlace
      BY <2>2, <2>3, <2>4 DEF Stands
    <3>2. Order[1] = own /\ 1 \in 1..Len(Order) /\ Len(Order) = 4
      BY <1>7, Orders
    <3>3. Part(old, own) # Part(target, own)
      BY <1>1, <2>1, <2>2, PartsTell
    <3>4. ~Skipped(1)
      BY <1>5, <3>1, <3>2, <3>3
    <3>5. published = {}
      <4>1. ASSUME NEW i \in published PROVE FALSE
        <5>1. i \in 1..4 /\ 1 \in 1..i
          BY <1>2, <3>2
        <5> QED BY <1>2, <3>4, <5>1
      <4> QED BY <4>1
    <3>6. Stands(b) = old
      BY <3>5 DEF Stands, PutInPlace
    <3>7. old.bridge[b] # "none"
      BY <1>2, <2>1 DEF Sound
    <3> QED BY <1>4, <3>6, <3>7
  <2>5. ASSUME NEW c \in Configs
        PROVE  /\ files.config[c].identity = old.config[c].identity
               /\ files.config[c].ext = old.config[c].ext
               /\ c # own => files.config[c] = old.config[c] \/ files.config[c].hooks # "target"
    <3>1. CASE Edited(c)
      BY <3>1 DEF Edited
    <3>2. CASE Part(files, c) = Part(Stands(c), c)
      <4>1. files.config[c] = Stands(c).config[c]
        BY <1>1, <3>2, PartsTell DEF Stands
      <4>2. c # own => c \notin PutInPlace
        <5>1. ASSUME NEW i \in 1..4, c # own PROVE Order[i] # c
          <6>1. i = 1 \/ i = 2 \/ i = 3 \/ i = 4
            OBVIOUS
          <6> QED BY <1>7, <5>1, <6>1, Orders
        <5> QED BY <1>2, <1>7, <5>1, Orders DEF PutInPlace
      <4> QED BY <1>1, <2>1, <4>1, <4>2, Making DEF Stands
    <3> QED BY <1>2, <3>1, <3>2
  <2>6. files.config["shared"].hooks # "target"
    BY <1>1, <1>2, <2>5 DEF Sound
  <2>7. IdentityOf(files)
    BY <1>2, <2>5 DEF Sound, IdentityOf
  <2> QED BY <2>4, <2>6, <2>7 DEF Sound
<1> QED BY <1>6, <1>7, Orders
----------------------------------------------------------------------------
(* Hook installation: every step keeps the invariant.                      *)


\* What an operation is about to do stays while it goes from place to place.
LEMMA PlanRests ==
  ASSUME HookInv, UNCHANGED <<ownConfig, old, target, published>>, admin'.kind = admin.kind,
         admin'.pc \in Writing => admin.pc \in Writing, admin'.pc = "publish" => admin' = admin
  PROVE  /\ PlanFits' /\ WrittenInOrder' /\ PutInPlace' = PutInPlace
         /\ \A f \in HookFiles : Stands(f)' = Stands(f)
         /\ UNCHANGED <<files, dirty>> => FilesStand'
<1>1. Order' = Order
  BY DEF Order, Own
<1>2. PutInPlace' = PutInPlace /\ \A f \in HookFiles : Stands(f)' = Stands(f)
  BY <1>1 DEF PutInPlace, Stands
<1>3. PlanFits'
  <2>1. Sound(old)' <=> Sound(old)
    BY DEF Sound, IdentityOf
  <2>2. Installed(old)' = Installed(old) /\ Removed(old)' = Removed(old)
    BY DEF Installed, Removed
  <2> QED BY <2>1, <2>2 DEF HookInv, PlanFits
<1>4. WrittenInOrder'
  <2>1. \A j : Skipped(j)' <=> Skipped(j)
    BY <1>1 DEF Skipped, Part
  <2> QED BY <1>1, <2>1 DEF HookInv, WrittenInOrder
<1>5. UNCHANGED <<files, dirty>> => FilesStand'
  BY <1>2 DEF HookInv, FilesStand, Edited, Part
<1> QED BY <1>2, <1>3, <1>4, <1>5

\* ExportPlaces and locks.
LEMMA AdminMoves ==
  ASSUME HookTypeOK, NEW pc \in AdminPlaces, Place(pc)
  PROVE  /\ admin' \in [kind : {"install", "remove"}, pc : AdminPlaces, at : 1..7]
         /\ admin'.pc = pc /\ admin'.kind = admin.kind /\ admin'.at = admin.at
  BY DEF HookTypeOK, Place
LEMMA Unlocks ==
  ASSUME HookTypeOK
  PROVE  /\ Unlocked \in [Configs -> {"free", "admin", "git", "stale"}]
         /\ \A c \in Configs : Unlocked[c] # "admin"
  BY DEF HookTypeOK, Unlocked

\* An operation begins.
LEMMA BeginAdminKeeps ==
  ASSUME HookInv, NEW kind \in {"install", "remove"}, BeginAdmin(kind) PROVE HookInv'
<1>1. HookTypeOK'
  BY DEF HookInv, HookTypeOK, BeginAdmin, AdminPlaces
<1>2. LocksHeld' /\ UnwrittenIsOld'
  BY DEF HookInv, LocksHeld, UnwrittenIsOld, BeginAdmin, Locked, Writing, Part
<1>3. PlanFits' /\ FilesStand' /\ WrittenInOrder'
  BY DEF PlanFits, FilesStand, WrittenInOrder, BeginAdmin, Writing
<1>4. Sound(files)' /\ Unstarted'
  BY DEF HookInv, Sound, IdentityOf, BeginAdmin, Unstarted
<1> QED BY <1>1, <1>2, <1>3, <1>4 DEF HookInv

\* It looks around and takes Git's locks.
LEMMA PreparingKeeps ==
  ASSUME HookInv, CheckFirst \/ LockConfigs \/ CheckAgain PROVE HookInv'
<1> USE DEF AtPlace, GivesUp
<1>1. admin.pc \in {"check", "lock", "recheck"} /\ Writing \cap {"check", "lock", "recheck"} = {}
      /\ UNCHANGED <<ownConfig, files, old, target, published, dirty, admins, touches>>
  BY DEF CheckFirst, LockConfigs, CheckAgain, Writing
<1>2. \/ Place("failed") /\ locks' = Unlocked
      \/ admin.pc = "check" /\ Place("lock") /\ locks' = locks
      \/ /\ admin.pc = "lock" /\ Place("recheck")
         /\ locks' = [c \in Configs |-> IF c \in Needed THEN "admin" ELSE locks[c]]
      \/ admin.pc = "recheck" /\ Place("read") /\ locks' = locks
  BY DEF CheckFirst, LockConfigs, CheckAgain, Needed
<1>3. /\ admin' \in [kind : {"install", "remove"}, pc : AdminPlaces, at : 1..7]
      /\ admin'.kind = admin.kind
      /\ \/ admin'.pc = "failed" /\ locks' = Unlocked
         \/ admin.pc = "check" /\ admin'.pc = "lock" /\ locks' = locks
         \/ /\ admin.pc = "lock" /\ admin'.pc = "recheck"
            /\ locks' = [c \in Configs |-> IF c \in Needed THEN "admin" ELSE locks[c]]
         \/ admin.pc = "recheck" /\ admin'.pc = "read" /\ locks' = locks
  BY <1>2, AdminMoves DEF HookInv, AdminPlaces
<1>4. HookTypeOK'
  BY <1>1, <1>3, Unlocks DEF HookInv, HookTypeOK
<1>5. LocksHeld'
  <2>1. Needed' = Needed /\ Needed \subseteq Configs
    BY <1>1, <1>3 DEF Needed, Own
  <2>2. CASE admin'.pc = "failed" /\ locks' = Unlocked
    BY <2>2, Unlocks DEF HookInv, LocksHeld, Locked, Writing
  <2>3. CASE admin.pc = "check" /\ admin'.pc = "lock" /\ locks' = locks
    BY <2>3 DEF HookInv, LocksHeld, Locked, Writing
  <2>4. CASE /\ admin.pc = "lock" /\ admin'.pc = "recheck"
             /\ locks' = [c \in Configs |-> IF c \in Needed THEN "admin" ELSE locks[c]]
    <3>1. \A c \in Needed' : locks'[c] = "admin"
      BY <2>1, <2>4
    <3> QED BY <2>4, <3>1 DEF LocksHeld, Locked, Writing
  <2>5. CASE admin.pc = "recheck" /\ admin'.pc = "read" /\ locks' = locks
    BY <2>1, <2>5 DEF HookInv, LocksHeld, Locked, Writing
  <2> QED BY <1>3, <2>2, <2>3, <2>4, <2>5
<1>6. UnwrittenIsOld'
  BY <1>1, <1>3 DEF HookInv, UnwrittenIsOld, Part
<1>7. PlanFits' /\ FilesStand' /\ WrittenInOrder'
  BY <1>3 DEF PlanFits, FilesStand, WrittenInOrder, Writing
<1>8. Sound(files)' /\ Unstarted'
  <2>1. Sound(files)'
    BY <1>1 DEF HookInv, Sound, IdentityOf
  <2>2. admin'.at = admin.at
    BY <1>2, AdminMoves DEF HookInv, AdminPlaces
  <2> QED BY <1>1, <1>3, <2>1, <2>2 DEF HookInv, Unstarted
<1> QED BY <1>4, <1>5, <1>6, <1>7, <1>8 DEF HookInv

\* It reads the files and decides what it will make of them.
LEMMA ReadHookFilesKeeps == ASSUME HookInv, ReadHookFiles PROVE HookInv'
<1>1. /\ admin.pc = "read" /\ old' = files /\ dirty' = {} /\ files \in FileSet
      /\ UNCHANGED <<ownConfig, files, published, admins, touches>>
      /\ published = {} /\ admin.at = 1
  BY DEF HookInv, HookTypeOK, Unstarted, ReadHookFiles, AtPlace
<1>2. \/ Place("failed") /\ locks' = Unlocked /\ target' = target
      \/ /\ Place("publish") /\ locks' = locks
         /\ admin.kind = "install" => target' = Installed(files)
         /\ admin.kind = "remove" => /\ target' = Removed(files)
                                     /\ files.config[Own(ownConfig)].hooks = "target"
  BY DEF ReadHookFiles, GivesUp
<1>3. /\ admin' \in [kind : {"install", "remove"}, pc : AdminPlaces, at : 1..7]
      /\ admin'.kind = admin.kind /\ admin'.at = admin.at
      /\ \/ admin'.pc = "failed" /\ locks' = Unlocked
         \/ admin'.pc = "publish" /\ locks' = locks
  BY <1>2, AdminMoves DEF HookInv, AdminPlaces
<1>4. HookTypeOK'
  <2>1. target' \in FileSet
    BY <1>1, <1>2, Making, Orders DEF HookInv, HookTypeOK
  <2> QED BY <1>1, <1>3, <2>1, Unlocks DEF HookInv, HookTypeOK
<1>5. LocksHeld'
  <2>1. Needed' = Needed
    BY <1>1, <1>3 DEF Needed, Own
  <2> QED BY <1>1, <1>3, <2>1, Unlocks DEF HookInv, LocksHeld, Locked, Writing
<1>6. UnwrittenIsOld'
  BY <1>1, <1>3 DEF UnwrittenIsOld, Part
<1>7. Sound(files)' /\ Sound(old)'
  BY <1>1 DEF HookInv, Sound, IdentityOf
<1>8. PlanFits'
  <2>1. CASE admin'.pc = "failed"
    BY <2>1 DEF PlanFits, Writing
  <2>2. CASE admin'.pc = "publish"
    <3>1. Place("publish")
      BY <1>2, <2>2, AdminMoves DEF HookInv, AdminPlaces
    <3>2. admin.kind = "install" => target' = Installed(files)
      BY <1>2, <2>2, AdminMoves DEF HookInv, AdminPlaces
    <3>3. admin.kind = "remove" => target' = Removed(files) /\ files.config[Own(ownConfig)].hooks = "target"
      BY <1>2, <2>2, AdminMoves DEF HookInv, AdminPlaces
    <3>4. Installed(old)' = Installed(files) /\ Removed(old)' = Removed(files)
          /\ Own(ownConfig)' = Own(ownConfig)
      BY <1>1 DEF Installed, Removed, Own
    <3> QED BY <1>1, <1>3, <1>7, <3>2, <3>3, <3>4 DEF PlanFits
  <2> QED BY <1>3, <2>1, <2>2
<1>9. FilesStand'
  <2>1. \A f \in HookFiles : Stands(f)' = files
    BY <1>1 DEF Stands, PutInPlace
  <2> QED BY <1>1, <2>1 DEF FilesStand, Part
<1>10. WrittenInOrder' /\ Unstarted'
  <2>1. Order' = Order /\ Len(Order) >= 1
    BY <1>1, <1>3, Orders DEF HookInv, Order, Own
  <2>2. /\ admin'.pc \notin {"check", "lock", "recheck", "read"} /\ admin'.at = 1
        /\ 1..(admin'.at - 1) = {} /\ published' = {}
    BY <1>1, <1>3
  <2> QED BY <2>1, <2>2 DEF WrittenInOrder, Unstarted
<1> QED BY <1>4, <1>5, <1>6, <1>7, <1>8, <1>9, <1>10 DEF HookInv

\* A write fails, or the result is verified: what was written stays.
LEMMA FinishingKeeps == ASSUME HookInv, PublishFails \/ Verify PROVE HookInv'
<1>1. /\ UNCHANGED <<ownConfig, files, old, target, published, dirty, admins, touches>>
      /\ admin.pc \in {"publish", "verify"}
      /\ \/ Place("rollback") /\ locks' = locks
         \/ Place("done") /\ locks' = Unlocked
  BY DEF PublishFails, Verify, AtPlace
<1>2. /\ admin' \in [kind : {"install", "remove"}, pc : AdminPlaces, at : 1..7]
      /\ admin'.kind = admin.kind
      /\ \/ admin'.pc = "rollback" /\ locks' = locks
         \/ admin'.pc = "done" /\ locks' = Unlocked
  BY <1>1, AdminMoves DEF HookInv, AdminPlaces
<1>3. HookTypeOK'
  BY <1>1, <1>2, Unlocks DEF HookInv, HookTypeOK
<1>4. LocksHeld'
  <2>1. Needed' = Needed
    BY <1>1, <1>2 DEF Needed, Own
  <2> QED BY <1>1, <1>2, <2>1, Unlocks DEF HookInv, LocksHeld, Locked, Writing
<1>5. UnwrittenIsOld' /\ Unstarted'
  BY <1>2 DEF UnwrittenIsOld, Unstarted
<1>6. PlanFits' /\ WrittenInOrder' /\ FilesStand'
  BY <1>1, <1>2, PlanRests DEF Writing
<1>7. Sound(files)'
  BY <1>1 DEF HookInv, Sound, IdentityOf
<1> QED BY <1>3, <1>4, <1>5, <1>6, <1>7 DEF HookInv

\* It is killed, and leaves its locks to whoever clears them away.
LEMMA AdminKilledKeeps == ASSUME HookInv, AdminKilled PROVE HookInv'
<1>1. /\ UNCHANGED <<ownConfig, files, old, target, published, dirty, admins, touches>>
      /\ admin' \in [kind : {"install", "remove"}, pc : AdminPlaces, at : 1..7]
      /\ admin'.pc = "killed"
      /\ locks' = [c \in Configs |-> IF locks[c] = "admin" THEN "stale" ELSE locks[c]]
  BY AdminMoves DEF HookInv, AdminKilled, AdminPlaces
<1>2. HookTypeOK'
  BY <1>1 DEF HookInv, HookTypeOK
<1>3. LocksHeld' /\ UnwrittenIsOld' /\ PlanFits' /\ WrittenInOrder' /\ FilesStand' /\ Unstarted'
  BY <1>1 DEF LocksHeld, UnwrittenIsOld, PlanFits, WrittenInOrder, FilesStand, Unstarted,
              Locked, Writing
<1>4. Sound(files)'
  BY <1>1 DEF HookInv, Sound, IdentityOf
<1> QED BY <1>2, <1>3, <1>4 DEF HookInv
LEMMA LocksClearedKeeps == ASSUME HookInv, LocksCleared PROVE HookInv'
<1>1. /\ UNCHANGED <<ownConfig, admin, files, old, target, published, dirty, admins, touches>>
      /\ locks' = [c \in Configs |-> IF locks[c] = "stale" THEN "free" ELSE locks[c]]
  BY DEF LocksCleared
<1>2. HookTypeOK'
  BY <1>1 DEF HookInv, HookTypeOK
<1>3. LocksHeld'
  <2>1. Needed' = Needed /\ Needed \subseteq Configs
    BY <1>1 DEF Needed, Own
  <2> QED BY <1>1, <2>1 DEF HookInv, LocksHeld
<1>4. UnwrittenIsOld' /\ Unstarted'
  BY <1>1 DEF HookInv, UnwrittenIsOld, Unstarted, Part
<1>5. PlanFits' /\ WrittenInOrder' /\ FilesStand'
  BY <1>1, PlanRests
<1>6. Sound(files)'
  BY <1>1 DEF HookInv, Sound, IdentityOf
<1> QED BY <1>2, <1>3, <1>4, <1>5, <1>6 DEF HookInv

\* The next file of the order is compared and written.
LEMMA PublishHooksKeeps == ASSUME HookInv, PublishHooks PROVE HookInv'
<1> DEFINE f == Order[admin.at]
<1>1. /\ admin.pc = "publish" /\ admin.at \in 1..Len(Order) /\ Len(Order) \in {4, 6}
      /\ f \in HookFiles /\ admin.at \in 1..6
      /\ UNCHANGED <<ownConfig, locks, old, target, dirty, admins, touches>>
      /\ files \in FileSet /\ old \in FileSet /\ target \in FileSet
  <2>1. /\ admin.pc = "publish" /\ admin.at <= Len(Order)
        /\ UNCHANGED <<ownConfig, locks, old, target, dirty, admins, touches>>
    BY DEF PublishHooks, AtPlace
  <2>2. admin.at \in 1..7 /\ files \in FileSet /\ old \in FileSet /\ target \in FileSet
    BY DEF HookInv, HookTypeOK
  <2> QED BY <2>1, <2>2, Orders DEF HookInv
<1>2. CASE Place("rollback") /\ UNCHANGED <<files, published>>
  <2>1. /\ admin' \in [kind : {"install", "remove"}, pc : AdminPlaces, at : 1..7]
        /\ admin'.kind = admin.kind /\ admin'.pc = "rollback"
    BY <1>2, AdminMoves DEF HookInv, AdminPlaces
  <2>2. HookTypeOK'
    BY <1>1, <1>2, <2>1 DEF HookInv, HookTypeOK
  <2>3. LocksHeld'
    <3>1. Needed' = Needed
      BY <1>1, <2>1 DEF Needed, Own
    <3> QED BY <1>1, <1>2, <2>1, <3>1 DEF HookInv, LocksHeld, Locked, Writing
  <2>4. UnwrittenIsOld' /\ Unstarted'
    BY <2>1 DEF UnwrittenIsOld, Unstarted
  <2>5. PlanFits' /\ WrittenInOrder' /\ FilesStand'
    BY <1>1, <1>2, <2>1, PlanRests DEF Writing
  <2>6. Sound(files)'
    BY <1>1, <1>2 DEF HookInv, Sound, IdentityOf
  <2> QED BY <2>2, <2>3, <2>4, <2>5, <2>6 DEF HookInv
<1>3. CASE /\ Part(files, f) = Part(old, f)
           /\ admin' = [admin EXCEPT !.at = @ + 1, !.pc = IF admin.at = Len(Order)
                                                         THEN "verify" ELSE "publish"]
           /\ IF Part(old, f) = Part(target, f) THEN UNCHANGED <<files, published>>
              ELSE files' = With(files, f, target) /\ published' = published \cup {admin.at}
  <2>1. /\ admin' \in [kind : {"install", "remove"}, pc : AdminPlaces, at : 1..7]
        /\ admin'.kind = admin.kind /\ admin'.at = admin.at + 1
        /\ admin'.pc = IF admin.at = Len(Order) THEN "verify" ELSE "publish"
    <3>1. admin \in [kind : {"install", "remove"}, pc : AdminPlaces, at : 1..7]
          /\ admin.at + 1 \in 1..7 /\ {"verify", "publish"} \subseteq AdminPlaces
      BY <1>1 DEF HookInv, HookTypeOK, AdminPlaces
    <3> QED BY <1>3, <3>1
  <2>2. Order' = Order /\ Needed' = Needed
    BY <1>1, <2>1 DEF Order, Needed, Own
  <2>3. /\ files' \in FileSet
        /\ Part(files', f) = Part(target, f)
        /\ \A g \in HookFiles : g # f => Part(files', g) = Part(files, g)
    <3>1. CASE Part(old, f) = Part(target, f) /\ UNCHANGED <<files, published>>
      BY <1>1, <1>3, <3>1
    <3>2. CASE files' = With(files, f, target)
      BY <1>1, <3>2, Replacing
    <3> QED BY <1>3, <3>1, <3>2
  <2>4. /\ published' \subseteq published \cup {admin.at} /\ published \subseteq published'
        /\ admin.at \in published' \/ Part(old, f) = Part(target, f)
    BY <1>3
  <2>5. published \subseteq 1..(admin.at - 1) /\ \A j \in 1..(admin.at - 1) : Skipped(j)
    BY <1>1 DEF HookInv, WrittenInOrder, Writing
  <2>6. HookTypeOK'
    <3>1. published' \subseteq 1..6
      BY <1>1, <2>4 DEF HookInv, HookTypeOK
    <3> QED BY <1>1, <2>1, <2>3, <3>1 DEF HookInv, HookTypeOK
  <2>7. LocksHeld'
    BY <1>1, <2>1, <2>2 DEF HookInv, LocksHeld, Locked, Writing
  <2>8. UnwrittenIsOld' /\ Unstarted'
    BY <2>1 DEF UnwrittenIsOld, Unstarted
  <2>9. PlanFits'
    <3>1. Sound(old)' <=> Sound(old)
      BY <1>1 DEF Sound, IdentityOf
    <3>2. Installed(old)' = Installed(old) /\ Removed(old)' = Removed(old)
      BY <1>1 DEF Installed, Removed
    <3>3. Own(ownConfig)' = Own(ownConfig)
      BY <1>1
    <3> QED BY <1>1, <2>1, <3>1, <3>2, <3>3 DEF HookInv, PlanFits, Writing
  <2>10. WrittenInOrder'
    <3>1. \A j \in 1..admin.at : Skipped(j)'
      <4>1. ASSUME NEW j \in 1..(admin.at - 1) PROVE Skipped(j)'
        <5>1. Skipped(j)
          BY <2>5
        <5> QED BY <1>1, <2>2, <2>4, <5>1 DEF Skipped, Part
      <4>2. ASSUME NEW j \in 1..admin.at, j = admin.at PROVE Skipped(j)'
        <5>1. j \in published' \/ Part(old', Order'[j]) = Part(target', Order'[j])
          BY <1>1, <2>2, <2>4, <4>2
        <5> QED BY <5>1 DEF Skipped, Part
      <4>3. \A j \in 1..admin.at : j = admin.at \/ j \in 1..(admin.at - 1)
        BY <1>1
      <4> QED BY <4>1, <4>2, <4>3
    <3>2. published' \subseteq 1..admin.at
      BY <1>1, <2>4, <2>5
    <3>3. published' \subseteq 1..Len(Order)
      BY <1>1, <3>2
    <3>4. \A i \in published' : \A j \in 1..i : Skipped(j)'
      BY <1>1, <3>1, <3>2
    <3>5. admin'.pc = "publish" => admin'.at <= Len(Order)
      BY <1>1, <2>1
    <3>6. admin'.at - 1 = admin.at
      BY <1>1, <2>1
    <3> QED BY <2>2, <3>1, <3>2, <3>3, <3>4, <3>5, <3>6 DEF WrittenInOrder
  <2>11. FilesStand'
    <3>1. \A g \in HookFiles : g # f => (g \in PutInPlace' <=> g \in PutInPlace)
      BY <2>2, <2>4 DEF PutInPlace
    <3>2. f \in PutInPlace' \/ Part(old, f) = Part(target, f)
      BY <2>2, <2>4 DEF PutInPlace
    <3>3. ASSUME NEW g \in HookFiles PROVE Part(files', g) = Part(Stands(g)', g) \/ Edited(g)'
      <4>1. CASE g = f
        <5>1. Part(files', g) = Part(target, g)
          BY <2>3, <4>1
        <5>2. Part(Stands(g)', g) = Part(target, g)
          BY <1>1, <3>2, <4>1 DEF Stands
        <5> QED BY <5>1, <5>2
      <4>2. CASE g # f
        <5>1. Part(files', g) = Part(files, g) /\ Stands(g)' = Stands(g)
          BY <1>1, <2>3, <3>1, <4>2 DEF Stands
        <5>2. Edited(g) => Edited(g)'
          BY <1>1, <2>3, <4>2, <5>1, PartsTell DEF Edited
        <5>3. Part(files, g) = Part(Stands(g), g) \/ Edited(g)
          BY <1>1 DEF HookInv, FilesStand, Writing
        <5> QED BY <5>1, <5>2, <5>3
      <4> QED BY <4>1, <4>2
    <3> QED BY <3>3 DEF FilesStand, Part
  <2>12. Sound(files)'
    <3>1. admin'.pc \in Writing
      BY <2>1 DEF Writing
    <3>2. (HookTypeOK /\ LocksHeld /\ PlanFits /\ FilesStand /\ WrittenInOrder
             /\ admin.pc \in Writing)' => Sound(files)'
      BY StandingIsSound, PTL
    <3> QED BY <2>6, <2>7, <2>9, <2>10, <2>11, <3>1, <3>2 DEF Writing
  <2> QED BY <2>6, <2>7, <2>8, <2>9, <2>10, <2>11, <2>12 DEF HookInv
<1> QED BY <1>2, <1>3 DEF PublishHooks

\* The newest file written is restored, or there is none left.
LEMMA RollbackKeeps == ASSUME HookInv, Rollback PROVE HookInv'
<1>1. /\ admin.pc = "rollback" /\ Len(Order) \in {4, 6}
      /\ UNCHANGED <<ownConfig, old, target, dirty, admins, touches>>
      /\ files \in FileSet /\ old \in FileSet /\ target \in FileSet
      /\ published \subseteq 1..Len(Order) /\ published \subseteq 1..6
      /\ \A i \in published : \A j \in 1..i : Skipped(j)
      /\ \A g \in HookFiles : Part(files, g) = Part(Stands(g), g) \/ Edited(g)
  BY Orders DEF HookInv, HookTypeOK, WrittenInOrder, FilesStand, Writing, Rollback, AtPlace
<1>2. CASE published = {} /\ GivesUp /\ UNCHANGED <<files, published>>
  <2>1. /\ admin' \in [kind : {"install", "remove"}, pc : AdminPlaces, at : 1..7]
        /\ admin'.kind = admin.kind /\ admin'.pc = "failed" /\ locks' = Unlocked
    BY <1>2, AdminMoves DEF HookInv, AdminPlaces, GivesUp
  <2>2. HookTypeOK'
    BY <1>1, <1>2, <2>1, Unlocks DEF HookInv, HookTypeOK
  <2>3. LocksHeld'
    BY <2>1, Unlocks DEF HookInv, LocksHeld, Locked, Writing
  <2>4. UnwrittenIsOld'
    <3>1. \A g \in HookFiles : Stands(g) = old
      BY <1>2 DEF Stands, PutInPlace
    <3> QED BY <1>1, <1>2, <3>1 DEF UnwrittenIsOld, Edited, Part
  <2>5. PlanFits' /\ WrittenInOrder' /\ FilesStand' /\ Unstarted'
    BY <2>1 DEF PlanFits, WrittenInOrder, FilesStand, Unstarted, Writing
  <2>6. Sound(files)'
    BY <1>1, <1>2 DEF HookInv, Sound, IdentityOf
  <2> QED BY <2>2, <2>3, <2>4, <2>5, <2>6 DEF HookInv
<1>3. CASE /\ published # {} /\ files' = With(files, Order[LastOf(published)], old)
           /\ published' = published \ {LastOf(published)} /\ UNCHANGED <<admin, locks>>
  <2> DEFINE i == LastOf(published) f == Order[i]
  <2>1. i \in published /\ (\A j \in published : j <= i) /\ i \in 1..Len(Order) /\ f \in HookFiles
    BY <1>1, <1>3, NewestPlace, Orders DEF HookInv
  <2> HIDE DEF i
  <2>2. Order' = Order /\ Needed' = Needed
    BY <1>1, <1>3 DEF Order, Needed, Own
  <2>3. /\ files' \in FileSet /\ Part(files', f) = Part(old, f)
        /\ \A g \in HookFiles : g # f => Part(files', g) = Part(files, g)
    BY <1>1, <1>3, <2>1, Replacing DEF i
  <2>4. published' = published \ {i}
    BY <1>3 DEF i
  <2>5. HookTypeOK'
    BY <1>1, <1>3, <2>3, <2>4 DEF HookInv, HookTypeOK
  <2>6. LocksHeld' /\ UnwrittenIsOld' /\ Unstarted'
    BY <1>1, <1>3, <2>2 DEF HookInv, LocksHeld, UnwrittenIsOld, Unstarted
  <2>7. PlanFits'
    <3>1. Sound(old)' <=> Sound(old)
      BY <1>1 DEF Sound, IdentityOf
    <3>2. Installed(old)' = Installed(old) /\ Removed(old)' = Removed(old)
      BY <1>1 DEF Installed, Removed
    <3> QED BY <1>1, <1>3, <3>1, <3>2 DEF HookInv, PlanFits
  <2>8. WrittenInOrder'
    <3>1. ASSUME NEW k \in published', NEW j \in 1..k PROVE Skipped(j)'
      <4>1. k \in published /\ k # i /\ k <= i /\ Skipped(j) /\ j # i
        BY <1>1, <2>1, <2>4
      <4> QED BY <1>1, <2>2, <2>4, <4>1 DEF Skipped, Part
    <3> QED BY <1>1, <1>3, <2>2, <2>4, <3>1 DEF WrittenInOrder
  <2>9. FilesStand'
    <3>1. \A g \in HookFiles : g # f => (g \in PutInPlace' <=> g \in PutInPlace)
      BY <2>2, <2>4 DEF PutInPlace
    <3>2. f \notin PutInPlace'
      <4>1. \A k \in published' : k \in 1..Len(Order) /\ k # i
        BY <1>1, <2>4
      <4> QED BY <2>1, <2>2, <4>1, Orders DEF HookInv, PutInPlace
    <3>3. ASSUME NEW g \in HookFiles PROVE Part(files', g) = Part(Stands(g)', g) \/ Edited(g)'
      <4>1. CASE g = f
        BY <1>1, <2>3, <3>2, <4>1 DEF Stands
      <4>2. CASE g # f
        <5>1. Part(files', g) = Part(files, g) /\ Stands(g)' = Stands(g)
          BY <1>1, <2>3, <3>1, <4>2 DEF Stands
        <5>2. Edited(g) => Edited(g)'
          BY <1>1, <2>3, <4>2, <5>1, PartsTell DEF Edited
        <5> QED BY <1>1, <5>1, <5>2
      <4> QED BY <4>1, <4>2
    <3> QED BY <3>3 DEF FilesStand, Part
  <2>10. Sound(files)'
    <3>1. (HookTypeOK /\ LocksHeld /\ PlanFits /\ FilesStand /\ WrittenInOrder
             /\ admin.pc \in Writing)' => Sound(files)'
      BY StandingIsSound, PTL
    <3> QED BY <1>1, <1>3, <2>5, <2>6, <2>7, <2>8, <2>9, <3>1 DEF Writing
  <2> QED BY <2>5, <2>6, <2>7, <2>8, <2>9, <2>10 DEF HookInv
<1> QED BY <1>2, <1>3 DEF Rollback, Recovered

\* Another program configures Git, or edits a bridge.
LEMMA GitConfigKeeps ==
  ASSUME HookInv, NEW c \in Configs, NEW hooks \in {"none", "foreign"}, GitConfig(c, hooks)
  PROVE  HookInv'
<1>1. /\ touches < MaxTouches /\ touches' = touches + 1 /\ locks[c] = "free"
      /\ files' = [files EXCEPT !.config[c].hooks = hooks] /\ dirty' = dirty \cup {c}
      /\ UNCHANGED <<ownConfig, admin, locks, old, target, published, admins>>
      /\ files \in FileSet /\ old \in FileSet /\ target \in FileSet
      /\ admin.kind \in {"install", "remove"}
  BY DEF HookInv, HookTypeOK, GitConfig
<1>2. /\ files' \in FileSet /\ files'.bridge = files.bridge /\ files'.owner = files.owner
      /\ files'.config[c].hooks = hooks
      /\ files'.config[c].identity = files.config[c].identity
      /\ files'.config[c].ext = files.config[c].ext
      /\ \A d \in Configs : d # c => files'.config[d] = files.config[d]
  BY <1>1 DEF FileSet, Config
<1>3. HookTypeOK'
  BY <1>1, <1>2 DEF HookInv, HookTypeOK
<1>4. Needed' = Needed /\ (admin.pc \in Locked => c \notin Needed)
  BY <1>1 DEF HookInv, LocksHeld, Needed, Own
<1>5. LocksHeld'
  BY <1>1, <1>4 DEF HookInv, LocksHeld, Locked
<1>6. \A g \in HookFiles : g # c => Part(files', g) = Part(files, g)
  BY <1>2 DEF Part
<1>7. UnwrittenIsOld' /\ Unstarted'
  <2>1. \A f \in HookFiles \ dirty' : f # c /\ f \in HookFiles \ dirty
    BY <1>1
  <2>2. UnwrittenIsOld'
    <3> SUFFICES ASSUME admin'.pc \in {"check", "lock", "recheck", "failed"},
                        NEW f \in HookFiles \ dirty'
                 PROVE  Part(files', f) = Part(old', f)
      BY DEF UnwrittenIsOld, Part
    <3>1. Part(files, f) = Part(old, f)
      BY <1>1, <2>1 DEF HookInv, UnwrittenIsOld
    <3> QED BY <1>1, <1>6, <2>1, <3>1
  <2> QED BY <1>1, <2>2 DEF HookInv, Unstarted
<1>8. PlanFits' /\ WrittenInOrder' /\ \A f \in HookFiles : Stands(f)' = Stands(f)
  BY <1>1, PlanRests
<1>9. FilesStand'
  <2> SUFFICES ASSUME admin.pc \in Writing, NEW g \in HookFiles
               PROVE  Part(files', g) = Part(Stands(g)', g) \/ Edited(g)'
    BY <1>1 DEF FilesStand, Part
  <2>1. Part(files, g) = Part(Stands(g), g) \/ Edited(g)
    BY DEF HookInv, FilesStand
  <2>2. CASE g # c
    <3>1. Edited(g) => Edited(g)'
      BY <1>1, <1>2, <2>2 DEF Edited
    <3> QED BY <1>6, <1>8, <2>1, <2>2, <3>1
  <2>3. CASE g = c
    <3>1. admin.kind = "remove" /\ target = Removed(old)
      BY <1>1, <1>4 DEF HookInv, PlanFits, Needed, Locked
    <3>2. /\ target.config[c].identity = old.config[c].identity
          /\ target.config[c].ext = old.config[c].ext
      BY <1>1, <3>1, Making DEF HookInv
    <3>3. /\ files.config[c].identity = old.config[c].identity
          /\ files.config[c].ext = old.config[c].ext
      BY <1>1, <2>1, <2>3, <3>2, PartsTell DEF Edited, Stands
    <3> QED BY <1>1, <1>2, <2>3, <3>3 DEF Edited
  <2> QED BY <2>2, <2>3
<1>10. Sound(files)'
  BY <1>1, <1>2 DEF HookInv, Sound, IdentityOf
<1> QED BY <1>3, <1>5, <1>7, <1>8, <1>9, <1>10 DEF HookInv
LEMMA EditBridgeKeeps ==
  ASSUME HookInv, NEW b \in Bridges, EditBridge(b) PROVE HookInv'
<1>1. /\ touches < MaxTouches /\ touches' = touches + 1
      /\ files' = [files EXCEPT !.bridge[b] = "edited"] /\ dirty' = dirty \cup {b}
      /\ UNCHANGED <<ownConfig, admin, locks, old, target, published, admins>>
      /\ files \in FileSet /\ admin.kind \in {"install", "remove"}
  BY DEF HookInv, HookTypeOK, EditBridge
<1>2. /\ files' \in FileSet /\ files'.config = files.config /\ files'.owner = files.owner
      /\ files'.bridge[b] = "edited"
      /\ \A d \in Bridges : d # b => files'.bridge[d] = files.bridge[d]
  BY <1>1 DEF FileSet
<1>3. HookTypeOK'
  BY <1>1, <1>2 DEF HookInv, HookTypeOK
<1>4. Needed' = Needed /\ b \notin Needed \cup {"ownership"}
  BY <1>1 DEF HookInv, HookTypeOK, Needed, Own
<1>5. LocksHeld'
  BY <1>1, <1>4 DEF HookInv, LocksHeld, Locked
<1>6. \A g \in HookFiles : g # b => Part(files', g) = Part(files, g)
  BY <1>2 DEF Part
<1>7. UnwrittenIsOld' /\ Unstarted'
  <2>1. \A f \in HookFiles \ dirty' : f # b /\ f \in HookFiles \ dirty
    BY <1>1
  <2>2. UnwrittenIsOld'
    <3> SUFFICES ASSUME admin'.pc \in {"check", "lock", "recheck", "failed"},
                        NEW f \in HookFiles \ dirty'
                 PROVE  Part(files', f) = Part(old', f)
      BY DEF UnwrittenIsOld, Part
    <3>1. Part(files, f) = Part(old, f)
      BY <1>1, <2>1 DEF HookInv, UnwrittenIsOld
    <3> QED BY <1>1, <1>6, <2>1, <3>1
  <2> QED BY <1>1, <2>2 DEF HookInv, Unstarted
<1>8. PlanFits' /\ WrittenInOrder' /\ \A f \in HookFiles : Stands(f)' = Stands(f)
  BY <1>1, PlanRests
<1>9. FilesStand'
  <2> SUFFICES ASSUME admin.pc \in Writing, NEW g \in HookFiles
               PROVE  Part(files', g) = Part(Stands(g)', g) \/ Edited(g)'
    BY <1>1 DEF FilesStand, Part
  <2>1. Part(files, g) = Part(Stands(g), g) \/ Edited(g)
    BY DEF HookInv, FilesStand
  <2>2. Edited(g) => Edited(g)'
    BY <1>1, <1>2 DEF Edited
  <2>3. g = b => Edited(g)'
    BY <1>1, <1>2 DEF Edited
  <2> QED BY <1>6, <1>8, <2>1, <2>2, <2>3
<1>10. Sound(files)'
  BY <1>1, <1>2 DEF HookInv, Sound, IdentityOf
<1> QED BY <1>3, <1>5, <1>7, <1>8, <1>9, <1>10 DEF HookInv

\* A repository as it is found.
LEMMA HookInitHolds == HookInit => HookInv
<1> SUFFICES ASSUME HookInit PROVE HookInv
  OBVIOUS
<1>1. PICK ext \in BOOLEAN, hooks \in {"none", "foreign"} : files = Repository(ownConfig, ext, hooks)
  BY DEF HookInit
<1>2. ownConfig \in BOOLEAN
  BY DEF HookInit
<1>3. files \in FileSet
  BY <1>1 DEF Repository, FileSet, Config, NoConfig
<1>4. HookTypeOK
  BY <1>3 DEF HookInit, HookTypeOK, AdminPlaces
<1>5. Sound(files)
  BY <1>1, <1>2 DEF Sound, IdentityOf, Repository, NoConfig, Own
<1>6. LocksHeld /\ PlanFits /\ UnwrittenIsOld /\ FilesStand /\ WrittenInOrder /\ Unstarted
  BY DEF HookInit, LocksHeld, PlanFits, UnwrittenIsOld, FilesStand, WrittenInOrder, Unstarted,
         Locked, Writing
<1> QED BY <1>4, <1>5, <1>6 DEF HookInv

\* Nothing happens.
LEMMA HookRests == HookInv /\ UNCHANGED hookVars => HookInv'
<1> SUFFICES ASSUME HookInv, UNCHANGED hookVars PROVE HookInv'
  OBVIOUS
<1>1. UNCHANGED <<ownConfig, admin, files, locks, old, target, published, dirty, admins, touches>>
  BY DEF hookVars
<1>2. HookTypeOK' /\ UnwrittenIsOld' /\ Unstarted' /\ Sound(files)'
  BY <1>1 DEF HookInv, HookTypeOK, UnwrittenIsOld, Unstarted, Sound, IdentityOf, Part
<1>3. LocksHeld'
  BY <1>1 DEF HookInv, LocksHeld, Needed, Own
<1>4. PlanFits' /\ FilesStand' /\ WrittenInOrder'
  BY <1>1, PlanRests
<1> QED BY <1>2, <1>3, <1>4 DEF HookInv

LEMMA HookStep == HookInv /\ [HookNext]_hookVars => HookInv'
<1> SUFFICES ASSUME HookInv, [HookNext]_hookVars PROVE HookInv'
  OBVIOUS
<1>1. CASE CheckFirst \/ LockConfigs \/ CheckAgain
  BY <1>1, PreparingKeeps
<1>2. CASE ReadHookFiles
  BY <1>2, ReadHookFilesKeeps
<1>3. CASE PublishHooks
  BY <1>3, PublishHooksKeeps
<1>4. CASE PublishFails \/ Verify
  BY <1>4, FinishingKeeps
<1>5. CASE Rollback
  BY <1>5, RollbackKeeps
<1>6. CASE AdminKilled
  BY <1>6, AdminKilledKeeps
<1>7. CASE LocksCleared
  BY <1>7, LocksClearedKeeps
<1>8. ASSUME NEW kind \in {"install", "remove"}, BeginAdmin(kind) PROVE HookInv'
  BY <1>8, BeginAdminKeeps
<1>9. ASSUME NEW c \in Configs, NEW hooks \in {"none", "foreign"}, GitConfig(c, hooks) PROVE HookInv'
  BY <1>9, GitConfigKeeps
<1>10. ASSUME NEW b \in Bridges, EditBridge(b) PROVE HookInv'
  BY <1>10, EditBridgeKeeps
<1>11. CASE UNCHANGED hookVars
  BY <1>11, HookRests
<1> QED BY <1>1, <1>2, <1>3, <1>4, <1>5, <1>6, <1>7, <1>8, <1>9, <1>10, <1>11 DEF HookNext

\* An installation or a removal is somewhere in its order, with its locks held, and
\* every file is what it makes of it or what it was.
THEOREM HookInvariant == HookSpec => []HookInv
<1> QED BY HookInitHolds, HookStep, PTL DEF HookSpec

\* HookTypeOK.
THEOREM HookTypeCorrect == HookSpec => []HookTypeOK
<1>1. HookInv => HookTypeOK
  BY DEF HookInv
<1> QED BY <1>1, HookInvariant, PTL

\* Git never selects hooks that are not there (ActiveHooksAreWhole).
THEOREM ActiveHooksStayWhole == HookSpec => []ActiveHooksAreWhole
<1>1. HookInv => ActiveHooksAreWhole
  BY DEF HookInv, Sound, ActiveHooksAreWhole, HooksOf
<1> QED BY <1>1, HookInvariant, PTL

\* The repository's identity is in force in every state (IdentityIsKept).
THEOREM IdentityStays == HookSpec => []IdentityIsKept
<1>1. HookInv => IdentityIsKept
  BY DEF HookInv, Sound, IdentityIsKept
<1> QED BY <1>1, HookInvariant, PTL

\* An operation that failed has left the files as they were (FailureRestores).
THEOREM FailureRestoresAll == HookSpec => []FailureRestores
<1>1. HookInv => FailureRestores
  BY DEF HookInv, UnwrittenIsOld, FailureRestores
<1> QED BY <1>1, HookInvariant, PTL
=============================================================================
