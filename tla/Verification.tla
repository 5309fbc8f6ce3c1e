---------------------------- MODULE Verification ----------------------------
(***************************************************************************)
(* A verification sweep (src/nix/control/verification.go): the gates of a   *)
(* frozen plan run in order, between checks that the source identity and    *)
(* the ownership of services are still those the sweep began with.  Editors,*)
(* other users of the services and signals move at any step.                *)
(***************************************************************************)
EXTENDS Integers

CONSTANTS GateCount, \* gates of the plan, in its order
          MaxMoves   \* changes of ownership or source by others

ASSUME SweepAssumption == GateCount \in Nat /\ MaxMoves \in Nat

VARIABLES sweep,     \* its place, the gate it is at, result and completed flag
          gateRows,  \* status of each gate, as the sweep and its report keep it
          needs,     \* prerequisites of each gate
          edited,    \* the source differs from the plan's identity
          live,      \* service scopes that run or are leased
          base,      \* those of the first health query
          unsafe,    \* a scope is busy or needs recovery
          signalled, \* a stop signal waits in the channel
          report,    \* the recorded exit code, -1 before the end
          spoiled,   \* a gate ran, at least in part, on the edited source
          moves

sweepVars == <<sweep, gateRows, needs, edited, live, base, unsafe, signalled, report,
               spoiled, moves>>

Gate == 1..GateCount
Scopes == {"scope", "resource"}
Ran == {"passed", "failed"}
Settled == Ran \cup {"blocked"}

SweepTypeOK ==
  /\ sweep \in [pc : {"health", "identity", "gate", "running", "recheck", "reservice",
                      "leave", "exit"},
                k : 1..GateCount + 1, result : {0, 1, 2, 128}, completed : BOOLEAN]
  /\ gateRows \in [Gate -> {"unrun", "running", "interrupted"} \cup Settled]
  /\ needs \in [Gate -> SUBSET Gate] /\ edited \in BOOLEAN
  /\ live \in SUBSET Scopes /\ base \in SUBSET Scopes /\ unsafe \in BOOLEAN
  /\ signalled \in BOOLEAN /\ report \in {-1, 0, 1, 2, 128}
  /\ spoiled \in BOOLEAN /\ moves \in 0..MaxMoves

\* verificationValidate: prerequisites precede their gate.
SweepInit ==
  /\ sweep = [pc |-> "health", k |-> 1, result |-> 1, completed |-> FALSE]
  /\ gateRows = [g \in Gate |-> "unrun"]
  /\ needs \in {n \in [Gate -> SUBSET Gate] : \A g \in Gate : n[g] \subseteq 1..g - 1}
  /\ edited = FALSE /\ live \in SUBSET Scopes /\ base = {} /\ unsafe \in BOOLEAN
  /\ signalled = FALSE /\ report = -1 /\ spoiled = FALSE /\ moves = 0

----------------------------------------------------------------------------
LeaveSweep(code) == sweep' = [sweep EXCEPT !.pc = "leave", !.result = code]
Recorded == BOOLEAN   \* atomic(path, report) may fail

\* Mutated form: the sweep's own scopes are compared, new ones are not.
HealthHolds_Wrong == ~unsafe /\ base \subseteq live

\* verificationScopes and verificationCheckHealth against a baseline.
HealthHolds == ~unsafe /\ live = base

\* Mutated form: the identity is checked once, before the first gate.
IdentityHolds_Wrong == TRUE

\* verificationCheckIdentity: the query's answer equals the plan's identity.
IdentityHolds == ~edited

FirstHealth ==
  /\ sweep.pc = "health" /\ base' = live
  /\ IF unsafe THEN LeaveSweep(1) ELSE sweep' = [sweep EXCEPT !.pc = "identity"]
  /\ UNCHANGED <<gateRows, needs, edited, live, unsafe, signalled, report, spoiled, moves>>

FirstIdentity ==
  /\ sweep.pc = "identity"
  /\ IF edited THEN LeaveSweep(1) ELSE sweep' = [sweep EXCEPT !.pc = "gate", !.result = 0]
  /\ UNCHANGED <<gateRows, needs, edited, live, base, unsafe, signalled, report, spoiled, moves>>

\* Mutated form: only a failed prerequisite blocks, a blocked one does not.
Blocked_Wrong(g) == \E n \in needs[g] : gateRows[n] = "failed"

\* A gate is blocked by every prerequisite that did not pass.
Blocked(g) == \E n \in needs[g] : gateRows[n] # "passed"

\* The head of the loop: a signal, a blocked gate, or the start of its command.
NextGate ==
  LET k == sweep.k IN
  /\ sweep.pc = "gate" /\ k <= GateCount
  /\ IF signalled
     THEN LeaveSweep(128) /\ signalled' = FALSE /\ UNCHANGED <<gateRows, spoiled>>
     ELSE /\ UNCHANGED signalled
          /\ \E ok \in Recorded :
               IF Blocked(k)
               THEN /\ gateRows' = [gateRows EXCEPT ![k] = "blocked"] /\ UNCHANGED spoiled
                    /\ IF ok THEN sweep' = [sweep EXCEPT !.k = k + 1, !.result = 1]
                       ELSE LeaveSweep(1)
               ELSE IF ok
               THEN /\ gateRows' = [gateRows EXCEPT ![k] = "running"] /\ spoiled' = (spoiled \/ edited)
                    /\ sweep' = [sweep EXCEPT !.pc = "running"]
               ELSE /\ \E s \in {"unrun", "running"} : gateRows' = [gateRows EXCEPT ![k] = s]
                    /\ LeaveSweep(1) /\ UNCHANGED spoiled
  /\ UNCHANGED <<needs, edited, live, base, unsafe, report, moves>>

\* The command ends; it may leave its services behind or a scope to recover.
GateEnds ==
  LET k == sweep.k IN
  /\ sweep.pc = "running"
  /\ \E code \in {0, 1, 128}, ok \in Recorded, after \in {live} \cup {live \cup {s} : s \in Scopes} :
       /\ live' = after
       /\ LET status == IF signalled \/ code = 128 THEN "interrupted"
                        ELSE IF code = 0 THEN "passed" ELSE "failed"
              result == IF code = 0 THEN sweep.result ELSE 1 IN
          /\ gateRows' = [gateRows EXCEPT ![k] = status]
          /\ IF signalled THEN LeaveSweep(128) /\ signalled' = FALSE
             ELSE /\ UNCHANGED signalled
                  /\ IF code = 128 THEN LeaveSweep(128)
                     ELSE IF ~ok THEN LeaveSweep(1)
                     ELSE sweep' = [sweep EXCEPT !.pc = "recheck", !.result = result]
  /\ UNCHANGED <<needs, edited, base, unsafe, report, spoiled, moves>>

CheckIdentity ==
  /\ sweep.pc = "recheck"
  /\ IF IdentityHolds THEN sweep' = [sweep EXCEPT !.pc = "reservice"] ELSE LeaveSweep(1)
  /\ UNCHANGED <<gateRows, needs, edited, live, base, unsafe, signalled, report, spoiled, moves>>

CheckHealth ==
  /\ sweep.pc = "reservice"
  /\ IF HealthHolds THEN sweep' = [sweep EXCEPT !.pc = "gate", !.k = @ + 1] ELSE LeaveSweep(1)
  /\ UNCHANGED <<gateRows, needs, edited, live, base, unsafe, signalled, report, spoiled, moves>>

SweepCompletes ==
  /\ sweep.pc = "gate" /\ sweep.k = GateCount + 1
  /\ sweep' = [sweep EXCEPT !.pc = "leave", !.completed = TRUE]
  /\ UNCHANGED <<gateRows, needs, edited, live, base, unsafe, signalled, report, spoiled, moves>>

\* Mutated form: an aborted sweep keeps the code of an ordinary failure.
ExitCode_Wrong == IF signalled THEN 128 ELSE sweep.result

\* The deferred end: exit 1 is kept for a completed sweep with failed gates.
ExitCode == IF signalled THEN 128
            ELSE IF ~sweep.completed /\ sweep.result \in 1..127 THEN 2 ELSE sweep.result

CloseSweep ==
  /\ sweep.pc = "leave"
  /\ \E ok \in Recorded :
       /\ report' = IF ok THEN ExitCode ELSE report
       /\ sweep' = [sweep EXCEPT !.pc = "exit",
                      !.result = IF ok \/ ExitCode = 128 THEN ExitCode ELSE 2]
  /\ UNCHANGED <<gateRows, needs, edited, live, base, unsafe, signalled, spoiled, moves>>

----------------------------------------------------------------------------
\* Others: an edit, which is not taken back; users of the services; a signal.
Edit ==
  /\ ~edited /\ edited' = TRUE /\ sweep.pc # "exit"
  /\ spoiled' = (spoiled \/ sweep.pc = "running")
  /\ UNCHANGED <<sweep, gateRows, needs, live, base, unsafe, signalled, report, moves>>
OwnersMove ==
  /\ moves < MaxMoves /\ moves' = moves + 1 /\ sweep.pc # "exit"
  /\ \/ \E s \in Scopes : live' = (live \ {s}) \cup ({s} \ live) /\ UNCHANGED unsafe
     \/ unsafe' = ~unsafe /\ UNCHANGED live
  /\ UNCHANGED <<sweep, gateRows, needs, edited, base, signalled, report, spoiled>>
SignalSweep ==
  /\ ~signalled /\ signalled' = TRUE /\ sweep.pc # "exit"
  /\ UNCHANGED <<sweep, gateRows, needs, edited, live, base, unsafe, report, spoiled, moves>>

SweepNext ==
  \/ FirstHealth \/ FirstIdentity \/ NextGate \/ GateEnds \/ CheckIdentity \/ CheckHealth
  \/ SweepCompletes \/ CloseSweep
  \/ Edit \/ OwnersMove \/ SignalSweep
SweepSpec == SweepInit /\ [][SweepNext]_sweepVars

----------------------------------------------------------------------------
Swept == sweep.pc = "exit" /\ sweep.result \in {0, 1}

\* Exit 0 accepts and exit 1 may be forced through: either says that every gate
\* was decided, and 1 that some gate really failed; no aborted sweep says so.
OnlyWholeSweepsCount ==
  Swept => /\ \A g \in Gate : gateRows[g] \in Settled
           /\ (sweep.result = 0) = (\A g \in Gate : gateRows[g] = "passed")

\* A result that counts is about one source: no gate of it ran on an edited one.
OneSourceVerified == Swept => ~spoiled

\* A gate ran only if all it rests on, directly or through blocked gates, passed.
PrerequisitesPassed ==
  \A g, n \in Gate : gateRows[g] \in Ran \cup {"running"} /\ n \in needs[g] => gateRows[n] = "passed"

\* A gate that left services behind fails the sweep, unless other users took them
\* over or away meanwhile.
CleanupIsVerified == Swept /\ moves = 0 => live = base

\* A sweep that counts as one, passed or failed, ran every gate it could on one
\* source, in order of their prerequisites, and left nothing running.
SweepsCount ==
  /\ OnlyWholeSweepsCount /\ OneSourceVerified /\ PrerequisitesPassed
  /\ CleanupIsVerified
=============================================================================
