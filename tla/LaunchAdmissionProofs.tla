----------------------- MODULE LaunchAdmissionProofs -----------------------
(***************************************************************************)
(* What holds of LaunchAdmission for any number of launches and            *)
(* generations.                                                            *)
(*                                                                         *)
(* Types and the generation fence hold in every environment.  The rest is  *)
(* proved for the supported one and follows from IInv, which is inductive: *)
(* one lemma for each operation says that it keeps IInv, taking its parts  *)
(* that mention a changed variable one by one and the others together.     *)
(***************************************************************************)
EXTENDS LaunchAdmission, TLAPS

USE LaunchAssumption, GenerationAssumption DEF Generation, Unlocked, ByHolder

\* Every operation keeps every variable in its type, supported environment or not.
LEMMA TypeStep == TypeOK /\ [Next]_vars => TypeOK'
<1> SUFFICES ASSUME TypeOK, Next PROVE TypeOK'
  BY DEF TypeOK, vars
<1>1. ASSUME NEW g \in Generation, ControllerNext(g) PROVE TypeOK'
  <2>1. CASE RegisterController(g)
    BY <2>1 DEF TypeOK, RegisterController, PlanNames, holderVars, launchVars, serviceVars,
           ReleaseSteps, StartSteps
  <2>2. CASE ObserveStopRequest(g)
    BY <2>2 DEF TypeOK, ObserveStopRequest, holderVars, launchVars, serviceVars, ReleaseSteps,
           StartSteps
  <2>3. CASE EndController(g)
    BY <2>3 DEF TypeOK, EndController, holderVars, launchVars, serviceVars, ReleaseSteps,
           StartSteps
  <2> QED BY <1>1, <2>1, <2>2, <2>3 DEF ControllerNext
<1>2. ASSUME NEW g \in Generation, NEW l \in Launch, SpawnLaunch(g, l) PROVE TypeOK'
  BY <1>2 DEF TypeOK, SpawnLaunch, Live, holderVars, scopeVars, serviceVars, ReleaseSteps,
         StartSteps
<1>3. ASSUME NEW l \in Launch, LaunchNext(l) PROVE TypeOK'
  <2>1. CASE EnterAdmission(l)
    BY <2>1, SMTT(30) DEF TypeOK, EnterAdmission, CommandNames, holderVars, scopeVars, ReleaseSteps,
           StartSteps
  <2>2. CASE RegisterOwner(l)
    BY <2>2 DEF TypeOK, RegisterOwner, holderVars, scopeVars, ReleaseSteps, StartSteps
  <2>3. CASE ObserveStopping(l)
    BY <2>3, ZenonT(30) DEF TypeOK, ObserveStopping, CommandNames, StopMarked, holderVars, scopeVars,
           ReleaseSteps, StartSteps
  <2>4. CASE Admit(l)
    BY <2>4, ZenonT(30) DEF TypeOK, Admit, holderVars, scopeVars, ReleaseSteps, StartSteps
  <2>5. CASE FinishWork(l)
    BY <2>5 DEF TypeOK, FinishWork, holderVars, scopeVars, serviceVars, ReleaseSteps, StartSteps
  <2>6. CASE ExitLaunch(l)
    BY <2>6 DEF TypeOK, ExitLaunch, holderVars, scopeVars, ReleaseSteps, StartSteps
  <2>7. CASE KillGroup(l)
    BY <2>7 DEF TypeOK, KillGroup, KilledLaunch, Live, holderVars, scopeVars, ReleaseSteps,
           StartSteps
  <2>8. CASE KillAnchor(l)
    BY <2>8 DEF TypeOK, KillAnchor, holderVars, scopeVars, serviceVars, ReleaseSteps, StartSteps
  <2> QED BY <1>3, <2>1, <2>2, <2>3, <2>4, <2>5, <2>6, <2>7, <2>8 DEF LaunchNext, KillLaunch
<1>4. CASE BeginRelease
  BY <1>4 DEF TypeOK, BeginRelease, ReturnsTo, launchVars, serviceVars, ReleaseSteps,
         StartSteps
<1>5. CASE MarkStopping
  BY <1>5 DEF TypeOK, MarkStopping, AdmissionFree, launchVars, scopeVars, ReleaseSteps,
         StartSteps
<1>6. CASE ReadOwner
  BY <1>6 DEF TypeOK, ReadOwner, launchVars, scopeVars, serviceVars, ReleaseSteps, StartSteps
<1>7. CASE EscalateOwner
  BY <1>7 DEF TypeOK, EscalateOwner, KilledLaunch, Live, holderVars, scopeVars, ReleaseSteps,
         StartSteps
<1>8. CASE RemoveReceipt
  BY <1>8 DEF TypeOK, RemoveReceipt, Live, OwnerEnded, launchVars, scopeVars, ReleaseSteps,
         StartSteps
<1>9. CASE TerminateController
  BY <1>9 DEF TypeOK, TerminateController, ControllerAlive, launchVars, serviceVars,
         ReleaseSteps, StartSteps
<1>10. CASE ForgetController
  BY <1>10 DEF TypeOK, ForgetController, launchVars, serviceVars, ReleaseSteps, StartSteps
<1>11. CASE BeginAcquire
  BY <1>11 DEF TypeOK, BeginAcquire, launchVars, scopeVars, serviceVars, ReleaseSteps,
         StartSteps
<1>12. CASE SavePlan
  BY <1>12 DEF TypeOK, SavePlan, launchVars, serviceVars, ReleaseSteps, StartSteps
<1>13. CASE FoundController
  BY <1>13 DEF TypeOK, FoundController, launchVars, scopeVars, serviceVars, ReleaseSteps,
         StartSteps
<1>14. CASE StartMissing
  BY <1>14 DEF TypeOK, StartMissing, launchVars, scopeVars, ReleaseSteps, StartSteps
<1>15. CASE OpenGeneration
  <2>1. issued' \in 0 .. MaxGeneration /\ controllerLock' \in 0 .. ByHolder
    BY <1>15 DEF TypeOK, OpenGeneration
  <2> QED
    BY <1>15, <2>1 DEF TypeOK, OpenGeneration, launchVars, serviceVars, StartSteps
<1>16. CASE ConfigureService
  BY <1>16 DEF TypeOK, ConfigureService, launchVars, scopeVars, ReleaseSteps, StartSteps
<1>17. CASE CommitPlan
  BY <1>17 DEF TypeOK, CommitPlan, launchVars, serviceVars, ReleaseSteps, StartSteps
<1>18. CASE SpawnController
  BY <1>18 DEF TypeOK, SpawnController, launchVars, serviceVars, ReleaseSteps, StartSteps
<1>19. CASE LoseHolder
  BY <1>19 DEF TypeOK, LoseHolder, launchVars, serviceVars, ReleaseSteps, StartSteps
<1> QED BY <1>1, <1>2, <1>3, <1>4, <1>5, <1>6, <1>7, <1>8, <1>9, <1>10, <1>11, <1>12,
         <1>13, <1>14, <1>15, <1>16, <1>17, <1>18, <1>19 DEF Next, ReleaseNext, AcquireNext

----------------------------------------------------------------------------
(* Types and the generation fence, in every environment.                   *)

\* Every variable starts in its type.
LEMMA InitTypeOK == Init => TypeOK
<1> SUFFICES ASSUME Init PROVE TypeOK
  OBVIOUS
<1>1. /\ pc \in [Launch -> {"unborn", "spawned", "entered", "registered", "observed",
                          "admitted", "finished", "gone"}]
      /\ launchGen \in [Launch -> 0 .. MaxGeneration]
      /\ work \in [Launch -> BOOLEAN]
  BY DEF Init
<1>2. ctl \in [Generation -> {"none", "spawned", "registered", "up", "draining", "gone"}]
  BY DEF Init
<1>3. /\ record \in 0 .. MaxGeneration /\ planGen \in 0 .. MaxGeneration
      /\ issued \in 0 .. MaxGeneration /\ recorded \in 0 .. MaxGeneration
      /\ controllerLock \in 0 .. ByHolder
  BY DEF Init
<1>4. /\ stopping \in BOOLEAN /\ planned \in BOOLEAN /\ stopRequest \in BOOLEAN
      /\ quiet \in BOOLEAN /\ receipt = NoLaunch /\ admission = NoLaunch
      /\ target = NoLaunch /\ holder = "idle" /\ resume = "idle"
  BY DEF Init
<1> QED BY <1>1, <1>2, <1>3, <1>4 DEF TypeOK

\* Spec keeps TypeOK whatever is killed, lost or left over.
THEOREM TypeCorrect == Spec => []TypeOK
  BY InitTypeOK, TypeStep, PTL DEF Spec

\* The part of IInv the fence needs, which no environment disturbs.
Fence == TypeOK /\ AdmissionIsExclusive /\ OldGenerationIsFenced

\* The flock <service>.admission spans the comparison of the generation and its
\* use, and configuration rewrites command.json only under the same flock.
LEMMA FenceStep == Fence /\ [Next]_vars => Fence'
<1> SUFFICES ASSUME Fence, [Next]_vars PROVE Fence'
  OBVIOUS
<1> USE DEF Fence, AdmissionIsExclusive, OldGenerationIsFenced, Holding
<1>1. TypeOK'
  BY TypeStep
<1>2. CASE UNCHANGED <<record, admission, pc, launchGen>>
  BY <1>1, <1>2
<1>3. ASSUME NEW g \in 1 .. MaxGeneration, NEW l \in Launch, SpawnLaunch(g, l) PROVE Fence'
  BY <1>1, <1>3 DEF SpawnLaunch, serviceVars, TypeOK
<1>4. ASSUME NEW l \in Launch, LaunchNext(l) PROVE Fence'
  <2>1. CASE EnterAdmission(l)
    BY <1>1, <2>1 DEF EnterAdmission, CommandNames, TypeOK
  <2>2. CASE RegisterOwner(l)
    BY <1>1, <2>2 DEF RegisterOwner, TypeOK
  <2>3. CASE ObserveStopping(l)
    BY <1>1, <2>3 DEF ObserveStopping, TypeOK
  <2>4. CASE Admit(l)
    BY <1>1, <2>4 DEF Admit, TypeOK
  <2>5. CASE FinishWork(l) \/ ExitLaunch(l) \/ KillAnchor(l)
    BY <1>1, <2>5 DEF FinishWork, ExitLaunch, KillAnchor, serviceVars, TypeOK
  <2>6. CASE KillGroup(l)
    BY <1>1, <2>6 DEF KillGroup, KilledLaunch, TypeOK
  <2> QED BY <1>4, <2>1, <2>2, <2>3, <2>4, <2>5, <2>6 DEF LaunchNext, KillLaunch
<1>5. CASE EscalateOwner
  BY <1>1, <1>5 DEF EscalateOwner, KilledLaunch, TypeOK
<1>6. CASE ConfigureService
  BY <1>1, <1>6 DEF ConfigureService, launchVars, TypeOK
<1>7. ASSUME NEW g \in 1 .. MaxGeneration, ControllerNext(g)
      PROVE  UNCHANGED <<record, admission, pc, launchGen>>
  BY <1>7 DEF ControllerNext, RegisterController, ObserveStopRequest, EndController,
              serviceVars, launchVars
<1>8. CASE BeginRelease \/ BeginAcquire \/ MarkStopping \/ ReadOwner \/ RemoveReceipt
           \/ TerminateController \/ ForgetController \/ SavePlan \/ FoundController
           \/ StartMissing \/ OpenGeneration \/ CommitPlan \/ SpawnController \/ LoseHolder
  <2>1. UNCHANGED <<record, admission, pc, launchGen>>
    BY <1>8 DEF BeginRelease, BeginAcquire, MarkStopping, ReadOwner, RemoveReceipt,
                TerminateController, ForgetController, SavePlan, FoundController,
                StartMissing, OpenGeneration, CommitPlan, SpawnController, LoseHolder,
                serviceVars, launchVars
  <2> QED BY <2>1, <1>2
<1>9. CASE UNCHANGED vars
  BY <1>9, <1>2 DEF vars
<1> QED
  BY <1>2, <1>3, <1>4, <1>5, <1>6, <1>7, <1>8, <1>9
     DEF Next, ReleaseNext, AcquireNext, Generation

\* A launch between its flock and its admission is of the configured generation,
\* also when controllers die late, anchors die alone or foreign claims exist.
THEOREM GenerationFence == Spec => []OldGenerationIsFenced
<1>1. Init => Fence
  BY InitTypeOK DEF Init, Fence, AdmissionIsExclusive, OldGenerationIsFenced, Holding
<1>2. Fence => OldGenerationIsFenced
  BY DEF Fence
<1> QED BY <1>1, <1>2, FenceStep, PTL DEF Spec

----------------------------------------------------------------------------
(* The inductive invariant, in the supported environment.                  *)

\* controllerExec's registration: the one live child is the one planGen names.
LEMMA RegisterControllerKeeps ==
  ASSUME Supported, IInv, TypeOK', NEW g \in Generation, RegisterController(g)
  PROVE  IInv'
<1> USE DEF IInv, RegisterController, PlanNames, holderVars, launchVars, serviceVars
<1>1. (WorkIsAnchored /\ AdmissionIsExclusive /\ AdmittedIsCurrent
      /\ OneInstance /\ AnchorIsRecorded)'
  BY DEF WorkIsAnchored, AdmissionIsExclusive, AdmittedIsCurrent, OneInstance,
         AnchorIsRecorded, Admitting, Holding, Live
<1>2. LaunchedByBackend'
  BY DEF TypeOK, LaunchedByBackend, Live, ReleaseSteps, StartSteps
<1>3. ReleasePhases'
  BY DEF TypeOK, ReleasePhases, Admitting, Closed, Live, ReleaseSteps, StartSteps
<1>4. StartPhases'
  BY DEF TypeOK, StartPhases, Admitting, Closed, ControllerAlive, Live, ReleaseSteps,
         StartSteps
<1>5. Generations'
  BY DEF TypeOK, Generations, ControllerAlive, ReleaseSteps, StartSteps
<1>6. BackendIsRecorded'
  BY DEF TypeOK, Generations, BackendIsRecorded, ControllerAlive, ReleaseSteps,
         StartSteps
<1> QED BY <1>1, <1>2, <1>3, <1>4, <1>5, <1>6

\* controllerExec's look for a stop request becomes the backend or ends.
LEMMA ObserveStopRequestKeeps ==
  ASSUME Supported, IInv, TypeOK', NEW g \in Generation, ObserveStopRequest(g)
  PROVE  IInv'
<1> USE DEF IInv, ObserveStopRequest, holderVars, launchVars, serviceVars
<1>1. (WorkIsAnchored /\ AdmissionIsExclusive /\ AdmittedIsCurrent
      /\ OneInstance /\ AnchorIsRecorded)'
  BY DEF WorkIsAnchored, AdmissionIsExclusive, AdmittedIsCurrent, OneInstance,
         AnchorIsRecorded, Admitting, Holding, Live
<1>2. LaunchedByBackend'
  BY DEF LaunchedByBackend, Live
<1>3. ReleasePhases'
  BY DEF ReleasePhases, Admitting, Closed, Live, ReleaseSteps
<1>4. StartPhases'
  <2>1. CASE recorded = g
    <3>1. record = g
      BY <2>1 DEF Generations, ControllerAlive
    <3>2. \A l \in Launch : ~Admitting(l) /\ (Live(l) => launchGen[l] # g)
      BY <3>1 DEF AdmittedIsCurrent, LaunchedByBackend, Admitting, Live
    <3>3. ctl'[g] = "gone" => Closed'
      BY <3>1, <3>2 DEF TypeOK, Closed, Admitting, Live
    <3>4. holder \notin {"configure", "commit"} /\ (ctl'[g] = "up" => ControllerAlive')
      BY <2>1 DEF TypeOK, StartPhases, Generations, ControllerAlive
    <3> QED BY <2>1, <3>3, <3>4 DEF TypeOK, StartPhases, Generations, Closed, Admitting, Live
  <2>2. CASE recorded # g
    <3>1. ControllerAlive' = ControllerAlive
      BY <2>2 DEF TypeOK, ControllerAlive
    <3>2. Closed => Closed'
      BY DEF TypeOK, Closed, Admitting, Live
    <3> QED BY <3>1, <3>2 DEF TypeOK, StartPhases, Generations
  <2> QED BY <2>1, <2>2
<1>5. Generations'
  BY DEF TypeOK, Generations, ControllerAlive, ReleaseSteps, StartSteps
<1>6. BackendIsRecorded'
  BY DEF Generations, BackendIsRecorded, ControllerAlive
<1> QED BY <1>1, <1>2, <1>3, <1>4, <1>5, <1>6

\* The death of a controller closes nothing and opens nothing.
LEMMA EndControllerKeeps ==
  ASSUME Supported, IInv, TypeOK', NEW g \in Generation, EndController(g)
  PROVE  IInv'
<1> USE DEF IInv, Supported, EndController, holderVars, launchVars, serviceVars
<1>1. (WorkIsAnchored /\ AdmissionIsExclusive /\ AdmittedIsCurrent
      /\ OneInstance /\ AnchorIsRecorded)'
  BY DEF WorkIsAnchored, AdmissionIsExclusive, AdmittedIsCurrent, OneInstance,
         AnchorIsRecorded, Admitting, Holding, Live
<1>2. LaunchedByBackend'
  BY DEF LaunchedByBackend, Live
<1>3. ReleasePhases'
  BY DEF ReleasePhases, Admitting, Closed, Live, ReleaseSteps
<1>4. StartPhases'
  BY DEF TypeOK, StartPhases, Admitting, Closed, ControllerAlive, Live, ReleaseSteps,
         StartSteps
<1>5. Generations'
  BY DEF TypeOK, Generations, ControllerAlive, ReleaseSteps, StartSteps
<1>6. BackendIsRecorded'
  BY DEF BackendIsRecorded
<1> QED BY <1>1, <1>2, <1>3, <1>4, <1>5, <1>6

\* A launch of the one configured generation is as stale or as fresh as that.
LEMMA SpawnLaunchKeeps ==
  ASSUME Supported, IInv, TypeOK', NEW g \in Generation, NEW l \in Launch, SpawnLaunch(g, l)
  PROVE  IInv'
<1> USE DEF IInv, SpawnLaunch, Live, holderVars, scopeVars, serviceVars
<1>1. (Generations /\ BackendIsRecorded)'
  BY DEF Generations, BackendIsRecorded, ControllerAlive
<1>2. WorkIsAnchored'
  BY DEF WorkIsAnchored
<1>3. AdmissionIsExclusive'
  BY DEF AdmissionIsExclusive, Holding
<1>4. AdmittedIsCurrent'
  BY DEF AdmittedIsCurrent, Admitting, Holding
<1>5. OneInstance'
  BY DEF TypeOK, OneInstance, ReleaseSteps, StartSteps
<1>6. LaunchedByBackend'
  BY DEF TypeOK, LaunchedByBackend, ReleaseSteps, StartSteps
<1>7. AnchorIsRecorded'
  BY DEF AnchorIsRecorded, Admitting
<1>8. ReleasePhases'
  BY DEF TypeOK, ReleasePhases, Admitting, Closed, ReleaseSteps, StartSteps
<1>9. StartPhases'
  BY DEF TypeOK, StartPhases, Admitting, Closed, ControllerAlive, ReleaseSteps,
         StartSteps
<1> QED BY <1>1, <1>2, <1>3, <1>4, <1>5, <1>6, <1>7, <1>8, <1>9

\* The flock of a launch is its claim to the generation it compared.
LEMMA EnterAdmissionKeeps ==
  ASSUME Supported, IInv, TypeOK', NEW l \in Launch, EnterAdmission(l)
  PROVE  IInv'
<1> USE DEF IInv, EnterAdmission, CommandNames, holderVars, scopeVars
<1>1. (Generations /\ BackendIsRecorded)'
  BY DEF Generations, BackendIsRecorded, ControllerAlive
<1>2. WorkIsAnchored'
  BY DEF TypeOK, WorkIsAnchored, ReleaseSteps, StartSteps
<1>3. AdmissionIsExclusive'
  BY DEF TypeOK, AdmissionIsExclusive, Holding, ReleaseSteps, StartSteps
<1>4. AdmittedIsCurrent'
  BY DEF TypeOK, AdmittedIsCurrent, Admitting, Holding, ReleaseSteps, StartSteps
<1>5. OneInstance'
  BY DEF TypeOK, AdmissionIsExclusive, OneInstance, AnchorIsRecorded, ReleasePhases,
         StartPhases, Live, Admitting, Closed, ControllerAlive, Holding, ReleaseSteps,
         StartSteps
<1>6. LaunchedByBackend'
  BY DEF TypeOK, LaunchedByBackend, ReleasePhases, StartPhases, Live, Admitting, Closed,
         ControllerAlive, ReleaseSteps, StartSteps
<1>7. AnchorIsRecorded'
  BY DEF TypeOK, AnchorIsRecorded, Admitting, ReleaseSteps, StartSteps
<1>8. ReleasePhases'
  BY SMTT(30) DEF TypeOK, WorkIsAnchored, OneInstance, LaunchedByBackend, ReleasePhases,
         Admitting, Closed, Live, ReleaseSteps, StartSteps
<1>9. StartPhases'
  BY DEF TypeOK, StartPhases, Admitting, Closed, ControllerAlive, Live, ReleaseSteps,
         StartSteps
<1> QED BY <1>1, <1>2, <1>3, <1>4, <1>5, <1>6, <1>7, <1>8, <1>9

\* No other anchor is admitted: launches of one generation exclude each other.
LEMMA RegisterOwnerKeeps ==
  ASSUME Supported, IInv, TypeOK', NEW l \in Launch, RegisterOwner(l)
  PROVE  IInv'
<1> USE DEF IInv, RegisterOwner, holderVars, scopeVars
<1>1. (Generations /\ BackendIsRecorded)'
  BY DEF Generations, BackendIsRecorded, ControllerAlive
<1>2. WorkIsAnchored'
  BY DEF WorkIsAnchored
<1>3. AdmissionIsExclusive'
  BY DEF AdmissionIsExclusive, Holding
<1>4. AdmittedIsCurrent'
  BY DEF AdmittedIsCurrent, Admitting, Holding
<1>5. OneInstance'
  BY DEF OneInstance, Live
<1>6. LaunchedByBackend'
  BY DEF LaunchedByBackend, Live
<1>7. AnchorIsRecorded'
  BY DEF AdmissionIsExclusive, AdmittedIsCurrent, OneInstance, LaunchedByBackend,
         AnchorIsRecorded, ReleasePhases, StartPhases, Generations, Admitting, Closed,
         ControllerAlive, Holding, Live, ReleaseSteps
<1>8. ReleasePhases'
  BY DEF ReleasePhases, Admitting, Closed, Live, ReleaseSteps
<1>9. StartPhases'
  BY DEF StartPhases, Admitting, Closed, ControllerAlive, Live
<1> QED BY <1>1, <1>2, <1>3, <1>4, <1>5, <1>6, <1>7, <1>8, <1>9

\* Whoever goes on has seen no stop marker, and the holder sees its receipt.
LEMMA ObserveStoppingKeeps ==
  ASSUME Supported, IInv, TypeOK', NEW l \in Launch, ObserveStopping(l)
  PROVE  IInv'
<1> USE DEF IInv, ObserveStopping, CommandNames, StopMarked, holderVars, scopeVars
<1>1. (Generations /\ BackendIsRecorded)'
  BY DEF Generations, BackendIsRecorded, ControllerAlive
<1>2. WorkIsAnchored'
  BY DEF WorkIsAnchored, AdmittedIsCurrent, OneInstance, Admitting, Holding, Live
<1>3. AdmissionIsExclusive'
  BY DEF TypeOK, AdmissionIsExclusive, Holding, ReleaseSteps, StartSteps
<1>4. AdmittedIsCurrent'
  BY DEF TypeOK, AdmittedIsCurrent, Admitting, Holding, ReleaseSteps, StartSteps
<1>5. OneInstance'
  BY DEF TypeOK, OneInstance, Live, ReleaseSteps, StartSteps
<1>6. LaunchedByBackend'
  BY DEF TypeOK, LaunchedByBackend, Live, ReleaseSteps, StartSteps
<1>7. AnchorIsRecorded'
  <2>1. \A k \in Launch : ~Admitting(k)
    BY DEF AdmittedIsCurrent, OneInstance, Admitting, Holding, Live
  <2> QED BY <2>1 DEF TypeOK, AnchorIsRecorded, Admitting
<1>8. ReleasePhases'
  BY DEF TypeOK, ReleasePhases, Admitting, Closed, Live, ReleaseSteps, StartSteps
<1>9. StartPhases'
  BY DEF TypeOK, StartPhases, BackendIsRecorded, Admitting, Closed, ControllerAlive,
         Live, ReleaseSteps, StartSteps
<1> QED BY <1>1, <1>2, <1>3, <1>4, <1>5, <1>6, <1>7, <1>8, <1>9

\* The application starts under the recorded anchor.
LEMMA AdmitKeeps ==
  ASSUME Supported, IInv, TypeOK', NEW l \in Launch, Admit(l)
  PROVE  IInv'
<1> USE DEF IInv, Admit, holderVars, scopeVars
<1>1. (Generations /\ BackendIsRecorded)'
  BY DEF Generations, BackendIsRecorded, ControllerAlive
<1>2. WorkIsAnchored'
  BY DEF TypeOK, WorkIsAnchored, ReleaseSteps, StartSteps
<1>3. AdmissionIsExclusive'
  BY DEF TypeOK, AdmissionIsExclusive, Holding, ReleaseSteps, StartSteps
<1>4. AdmittedIsCurrent'
  BY DEF TypeOK, AdmittedIsCurrent, Admitting, Holding, ReleaseSteps, StartSteps
<1>5. OneInstance'
  BY DEF TypeOK, AdmissionIsExclusive, OneInstance, Live, Holding, ReleaseSteps,
         StartSteps
<1>6. LaunchedByBackend'
  BY DEF TypeOK, LaunchedByBackend, BackendIsRecorded, Live, ReleaseSteps, StartSteps
<1>7. AnchorIsRecorded'
  BY DEF TypeOK, AnchorIsRecorded, Admitting, ReleaseSteps, StartSteps
<1>8. ReleasePhases'
  BY DEF ReleasePhases, Admitting, Closed, Live, ReleaseSteps
<1>9. StartPhases'
  BY DEF StartPhases, Admitting, Closed, ControllerAlive, Live
<1> QED BY <1>1, <1>2, <1>3, <1>4, <1>5, <1>6, <1>7, <1>8, <1>9

\* The group has ended before its anchor.
LEMMA FinishWorkKeeps ==
  ASSUME Supported, IInv, TypeOK', NEW l \in Launch, FinishWork(l)
  PROVE  IInv'
<1> USE DEF IInv, FinishWork, holderVars, scopeVars, serviceVars
<1>1. (Generations /\ BackendIsRecorded)'
  BY DEF Generations, BackendIsRecorded, ControllerAlive
<1>2. WorkIsAnchored'
  BY DEF TypeOK, WorkIsAnchored, ReleaseSteps, StartSteps
<1>3. AdmissionIsExclusive'
  BY DEF AdmissionIsExclusive, Holding
<1>4. AdmittedIsCurrent'
  BY DEF AdmittedIsCurrent, Admitting, Holding
<1>5. OneInstance'
  BY DEF OneInstance, Live
<1>6. LaunchedByBackend'
  BY DEF LaunchedByBackend, Live
<1>7. AnchorIsRecorded'
  BY DEF AnchorIsRecorded, Admitting
<1>8. ReleasePhases'
  BY DEF ReleasePhases, Admitting, Closed, Live, ReleaseSteps
<1>9. StartPhases'
  BY DEF StartPhases, Admitting, Closed, ControllerAlive, Live
<1> QED BY <1>1, <1>2, <1>3, <1>4, <1>5, <1>6, <1>7, <1>8, <1>9

\* Only the recorded anchor was admitted, so the receipt removed is its own.
LEMMA ExitLaunchKeeps ==
  ASSUME Supported, IInv, TypeOK', NEW l \in Launch, ExitLaunch(l)
  PROVE  IInv'
<1> USE DEF IInv, ExitLaunch, holderVars, scopeVars
<1>1. (Generations /\ BackendIsRecorded)'
  BY DEF Generations, BackendIsRecorded, ControllerAlive
<1>2. WorkIsAnchored'
  BY DEF WorkIsAnchored
<1>3. AdmissionIsExclusive'
  BY DEF AdmissionIsExclusive, Holding
<1>4. AdmittedIsCurrent'
  BY DEF AdmittedIsCurrent, Admitting, Holding
<1>5. OneInstance'
  BY DEF OneInstance, Live
<1>6. LaunchedByBackend'
  BY DEF LaunchedByBackend, Live
<1>7. AnchorIsRecorded'
  BY DEF TypeOK, AnchorIsRecorded, Admitting, ReleaseSteps, StartSteps
<1>8. ReleasePhases'
  BY DEF ReleasePhases, Admitting, Closed, Live, ReleaseSteps
<1>9. StartPhases'
  BY DEF StartPhases, Admitting, Closed, ControllerAlive, Live
<1> QED BY <1>1, <1>2, <1>3, <1>4, <1>5, <1>6, <1>7, <1>8, <1>9

\* A killed group leaves no application behind.
LEMMA KillGroupKeeps ==
  ASSUME Supported, IInv, TypeOK', NEW l \in Launch, Live(l), KillGroup(l)
  PROVE  IInv'
<1> USE DEF IInv, KillGroup, KilledLaunch, Live, holderVars, scopeVars
<1>1. (Generations /\ BackendIsRecorded)'
  BY DEF Generations, BackendIsRecorded, ControllerAlive
<1>2. WorkIsAnchored'
  BY DEF TypeOK, WorkIsAnchored, ReleaseSteps, StartSteps
<1>3. AdmissionIsExclusive'
  BY DEF TypeOK, AdmissionIsExclusive, Holding, ReleaseSteps, StartSteps
<1>4. AdmittedIsCurrent'
  BY DEF AdmittedIsCurrent, Admitting, Holding
<1>5. OneInstance'
  BY DEF OneInstance
<1>6. LaunchedByBackend'
  BY DEF LaunchedByBackend
<1>7. AnchorIsRecorded'
  BY DEF AnchorIsRecorded, Admitting
<1>8. ReleasePhases'
  BY DEF ReleasePhases, Admitting, Closed, ReleaseSteps
<1>9. StartPhases'
  BY DEF StartPhases, Admitting, Closed, ControllerAlive
<1> QED BY <1>1, <1>2, <1>3, <1>4, <1>5, <1>6, <1>7, <1>8, <1>9

\* A release begins with the stop request on disk.
LEMMA BeginReleaseKeeps ==
  ASSUME Supported, IInv, TypeOK', BeginRelease
  PROVE  IInv'
<1> USE DEF IInv, Supported, BeginRelease, ReturnsTo, launchVars, serviceVars
<1>1. (WorkIsAnchored /\ AdmissionIsExclusive /\ AdmittedIsCurrent /\ OneInstance
      /\ LaunchedByBackend /\ AnchorIsRecorded /\ BackendIsRecorded)'
  BY DEF WorkIsAnchored, AdmissionIsExclusive, AdmittedIsCurrent, OneInstance,
         LaunchedByBackend, AnchorIsRecorded, BackendIsRecorded, Admitting, Holding,
         Live
<1>2. ReleasePhases'
  BY DEF ReleasePhases, Admitting, Closed, Live, ReleaseSteps
<1>3. StartPhases'
  BY DEF StartPhases, Admitting, Closed, ControllerAlive, Live
<1>4. Generations'
  BY DEF Generations, ControllerAlive
<1> QED BY <1>1, <1>2, <1>3, <1>4

\* The marker is written while no launch has the flock.
LEMMA MarkStoppingKeeps ==
  ASSUME Supported, IInv, TypeOK', MarkStopping
  PROVE  IInv'
<1> USE DEF IInv, MarkStopping, AdmissionFree, launchVars, scopeVars
<1>1. (WorkIsAnchored /\ AdmissionIsExclusive /\ AdmittedIsCurrent /\ OneInstance
      /\ LaunchedByBackend /\ Generations /\ BackendIsRecorded)'
  BY DEF WorkIsAnchored, AdmissionIsExclusive, AdmittedIsCurrent, OneInstance,
         LaunchedByBackend, Generations, BackendIsRecorded, Admitting, ControllerAlive,
         Holding, Live
<1>2. AnchorIsRecorded'
  BY DEF AnchorIsRecorded, Admitting
<1>3. ReleasePhases'
  BY DEF AdmissionIsExclusive, ReleasePhases, Admitting, Closed, Live, ReleaseSteps,
         Holding
<1>4. StartPhases'
  BY DEF StartPhases, Admitting, Closed, ControllerAlive, Live
<1> QED BY <1>1, <1>2, <1>3, <1>4

\* What owner.json does not name now will never be admitted.
LEMMA ReadOwnerKeeps ==
  ASSUME Supported, IInv, TypeOK', ReadOwner
  PROVE  IInv'
<1> USE DEF IInv, ReadOwner, launchVars, scopeVars, serviceVars
<1>1. (WorkIsAnchored /\ AdmissionIsExclusive /\ AdmittedIsCurrent /\ OneInstance /\ LaunchedByBackend
      /\ AnchorIsRecorded /\ Generations /\ BackendIsRecorded)'
  BY DEF WorkIsAnchored, AdmissionIsExclusive, AdmittedIsCurrent, OneInstance,
         LaunchedByBackend, AnchorIsRecorded, Generations, BackendIsRecorded, Admitting,
         ControllerAlive, Holding, Live
<1>2. ReleasePhases'
  BY DEF TypeOK, AnchorIsRecorded, ReleasePhases, Admitting, Closed, Live, ReleaseSteps,
         StartSteps
<1>3. StartPhases'
  BY DEF StartPhases, Admitting, Closed, ControllerAlive, Live
<1> QED BY <1>1, <1>2, <1>3

\* SIGKILL ends the group that ignored SIGTERM.
LEMMA EscalateOwnerKeeps ==
  ASSUME Supported, IInv, TypeOK', EscalateOwner
  PROVE  IInv'
<1> USE DEF IInv, EscalateOwner, KilledLaunch, Live, holderVars, scopeVars
<1>1. (Generations /\ BackendIsRecorded)'
  BY DEF Generations, BackendIsRecorded, ControllerAlive
<1>2. WorkIsAnchored'
  BY DEF TypeOK, WorkIsAnchored, ReleaseSteps, StartSteps
<1>3. AdmissionIsExclusive'
  BY DEF TypeOK, AdmissionIsExclusive, Holding, ReleaseSteps, StartSteps
<1>4. AdmittedIsCurrent'
  BY DEF AdmittedIsCurrent, Admitting, Holding
<1>5. OneInstance'
  BY DEF OneInstance
<1>6. LaunchedByBackend'
  BY DEF LaunchedByBackend
<1>7. AnchorIsRecorded'
  BY DEF AnchorIsRecorded, Admitting
<1>8. ReleasePhases'
  BY DEF ReleasePhases, Admitting, Closed, ReleaseSteps
<1>9. StartPhases'
  BY DEF StartPhases, Admitting, Closed, ControllerAlive
<1> QED BY <1>1, <1>2, <1>3, <1>4, <1>5, <1>6, <1>7, <1>8, <1>9

\* The scope is closed once the recorded owner is gone.
LEMMA RemoveReceiptKeeps ==
  ASSUME Supported, IInv, TypeOK', RemoveReceipt
  PROVE  IInv'
<1> USE DEF IInv, RemoveReceipt, Live, OwnerEnded, launchVars, scopeVars
<1>1. (WorkIsAnchored /\ AdmissionIsExclusive /\ AdmittedIsCurrent /\ OneInstance
      /\ LaunchedByBackend /\ Generations /\ BackendIsRecorded)'
  BY DEF WorkIsAnchored, AdmissionIsExclusive, AdmittedIsCurrent, OneInstance,
         LaunchedByBackend, Generations, BackendIsRecorded, Admitting, ControllerAlive,
         Holding
<1>2. AnchorIsRecorded'
  BY DEF AnchorIsRecorded, ReleasePhases, Admitting, Closed, ReleaseSteps
<1>3. ReleasePhases'
  BY DEF ReleasePhases, Admitting, Closed, ReleaseSteps
<1>4. StartPhases'
  BY DEF StartPhases, Admitting, Closed, ControllerAlive
<1> QED BY <1>1, <1>2, <1>3, <1>4

\* After SIGTERM there is no backend left that starts anything.
LEMMA TerminateControllerKeeps ==
  ASSUME Supported, IInv, TypeOK', TerminateController
  PROVE  IInv'
<1> USE DEF IInv, TerminateController, ControllerAlive, launchVars, serviceVars
<1>1. (WorkIsAnchored /\ AdmissionIsExclusive /\ AdmittedIsCurrent
      /\ OneInstance /\ AnchorIsRecorded)'
  BY DEF WorkIsAnchored, AdmissionIsExclusive, AdmittedIsCurrent, OneInstance,
         AnchorIsRecorded, Admitting, Holding, Live
<1>2. LaunchedByBackend'
  BY DEF TypeOK, LaunchedByBackend, Live, ReleaseSteps, StartSteps
<1>3. ReleasePhases'
  BY DEF TypeOK, ReleasePhases, BackendIsRecorded, Admitting, Closed, Live,
         ReleaseSteps, StartSteps
<1>4. StartPhases'
  BY DEF StartPhases, Admitting, Closed, Live
<1>5. Generations'
  BY DEF TypeOK, Generations, ReleaseSteps, StartSteps
<1>6. BackendIsRecorded'
  BY DEF TypeOK, BackendIsRecorded, ReleaseSteps, StartSteps
<1> QED BY <1>1, <1>2, <1>3, <1>4, <1>5, <1>6

\* A completed release leaves the scope closed and unregistered.
LEMMA ForgetControllerKeeps ==
  ASSUME Supported, IInv, TypeOK', ForgetController
  PROVE  IInv'
<1> USE DEF IInv, ForgetController, launchVars, serviceVars
<1>1. (WorkIsAnchored /\ AdmissionIsExclusive /\ AdmittedIsCurrent /\ OneInstance
      /\ LaunchedByBackend /\ AnchorIsRecorded)'
  BY DEF WorkIsAnchored, AdmissionIsExclusive, AdmittedIsCurrent, OneInstance,
         LaunchedByBackend, AnchorIsRecorded, Admitting, Holding, Live
<1>2. ReleasePhases'
  BY DEF TypeOK, ReleasePhases, Admitting, Closed, Live, ReleaseSteps, StartSteps
<1>3. StartPhases'
  BY DEF TypeOK, ReleasePhases, StartPhases, Admitting, Closed, ControllerAlive, Live,
         ReleaseSteps, StartSteps
<1>4. Generations'
  BY DEF TypeOK, ReleasePhases, Generations, ControllerAlive, Admitting, Closed, Live,
         ReleaseSteps, StartSteps
<1>5. BackendIsRecorded'
  BY DEF ReleasePhases, BackendIsRecorded, Admitting, Closed, Live, ReleaseSteps
<1> QED BY <1>1, <1>2, <1>3, <1>4, <1>5

\* acquire finds a live controller or a closed scope.
LEMMA BeginAcquireKeeps ==
  ASSUME Supported, IInv, TypeOK', BeginAcquire
  PROVE  IInv'
<1> USE DEF IInv, Supported, BeginAcquire, ControllerAlive, launchVars, scopeVars,
        serviceVars
<1>1. (WorkIsAnchored /\ AdmissionIsExclusive /\ AdmittedIsCurrent /\ OneInstance /\ LaunchedByBackend
      /\ AnchorIsRecorded /\ Generations /\ BackendIsRecorded)'
  BY DEF WorkIsAnchored, AdmissionIsExclusive, AdmittedIsCurrent, OneInstance,
         LaunchedByBackend, AnchorIsRecorded, Generations, BackendIsRecorded, Admitting,
         Holding, Live
<1>2. ReleasePhases'
  BY DEF ReleasePhases, Admitting, Closed, Live, ReleaseSteps
<1>3. StartPhases'
  BY DEF StartPhases, Admitting, Closed, Live
<1> QED BY <1>1, <1>2, <1>3

\* A dead controller's generation does not survive the next plan.
LEMMA SavePlanKeeps ==
  ASSUME Supported, IInv, TypeOK', SavePlan
  PROVE  IInv'
<1> USE DEF IInv, SavePlan, ControllerAlive, launchVars, serviceVars
<1>1. (WorkIsAnchored /\ AdmissionIsExclusive /\ AdmittedIsCurrent /\ OneInstance
      /\ LaunchedByBackend /\ AnchorIsRecorded /\ BackendIsRecorded)'
  BY DEF WorkIsAnchored, AdmissionIsExclusive, AdmittedIsCurrent, OneInstance,
         LaunchedByBackend, AnchorIsRecorded, BackendIsRecorded, Admitting, Holding,
         Live
<1>2. ReleasePhases'
  BY DEF ReleasePhases, Admitting, Closed, Live, ReleaseSteps
<1>3. StartPhases'
  BY DEF StartPhases, Admitting, Closed, Live
<1>4. Generations'
  BY DEF TypeOK, Generations, ReleaseSteps, StartSteps
<1> QED BY <1>1, <1>2, <1>3, <1>4

\* Attaching to a live controller changes nothing.
LEMMA FoundControllerKeeps ==
  ASSUME Supported, IInv, TypeOK', FoundController
  PROVE  IInv'
<1> USE DEF IInv, FoundController, ControllerAlive, launchVars, scopeVars, serviceVars
<1>1. (WorkIsAnchored /\ AdmissionIsExclusive /\ AdmittedIsCurrent /\ OneInstance /\ LaunchedByBackend
      /\ AnchorIsRecorded /\ Generations /\ BackendIsRecorded)'
  BY DEF WorkIsAnchored, AdmissionIsExclusive, AdmittedIsCurrent, OneInstance,
         LaunchedByBackend, AnchorIsRecorded, Generations, BackendIsRecorded, Admitting,
         Holding, Live
<1>2. ReleasePhases'
  BY DEF ReleasePhases, Admitting, Closed, Live, ReleaseSteps
<1>3. StartPhases'
  BY DEF StartPhases, Admitting, Closed, Live
<1> QED BY <1>1, <1>2, <1>3

\* A live controller may launch again.
LEMMA StartMissingKeeps ==
  ASSUME Supported, IInv, TypeOK', StartMissing
  PROVE  IInv'
<1> USE DEF IInv, StartMissing, launchVars, scopeVars
<1>1. (WorkIsAnchored /\ AdmissionIsExclusive /\ AdmittedIsCurrent /\ OneInstance
      /\ LaunchedByBackend /\ Generations /\ BackendIsRecorded)'
  BY DEF WorkIsAnchored, AdmissionIsExclusive, AdmittedIsCurrent, OneInstance,
         LaunchedByBackend, Generations, BackendIsRecorded, Admitting, ControllerAlive,
         Holding, Live
<1>2. AnchorIsRecorded'
  BY DEF AdmissionIsExclusive, AnchorIsRecorded, Admitting, Holding
<1>3. ReleasePhases'
  BY DEF ReleasePhases, Admitting, Closed, Live, ReleaseSteps
<1>4. StartPhases'
  BY DEF StartPhases, Admitting, Closed, ControllerAlive, Live
<1> QED BY <1>1, <1>2, <1>3, <1>4

\* A new generation is opened in a closed scope only.
LEMMA OpenGenerationKeeps ==
  ASSUME Supported, IInv, TypeOK', OpenGeneration
  PROVE  IInv'
<1> USE DEF IInv, OpenGeneration, ControllerAlive, launchVars, serviceVars
<1>1. (WorkIsAnchored /\ AdmissionIsExclusive /\ AdmittedIsCurrent /\ OneInstance
      /\ LaunchedByBackend /\ AnchorIsRecorded /\ BackendIsRecorded)'
  BY DEF WorkIsAnchored, AdmissionIsExclusive, AdmittedIsCurrent, OneInstance,
         LaunchedByBackend, AnchorIsRecorded, BackendIsRecorded, Admitting, Holding,
         Live
<1>2. ReleasePhases'
  BY DEF ReleasePhases, Admitting, Closed, Live, ReleaseSteps
<1>3. StartPhases'
  BY DEF TypeOK, StartPhases, Generations, Admitting, Closed, Live, ReleaseSteps,
         StartSteps
<1>4. Generations'
  BY DEF TypeOK, Generations, ReleaseSteps, StartSteps
<1> QED BY <1>1, <1>2, <1>3, <1>4

\* The record moves on while no launch has the flock.
LEMMA ConfigureServiceKeeps ==
  ASSUME Supported, IInv, TypeOK', ConfigureService
  PROVE  IInv'
<1> USE DEF IInv, ConfigureService, launchVars, scopeVars
<1>1. (WorkIsAnchored /\ AdmissionIsExclusive /\ OneInstance
      /\ LaunchedByBackend /\ BackendIsRecorded)'
  BY DEF WorkIsAnchored, AdmissionIsExclusive, OneInstance, LaunchedByBackend,
         BackendIsRecorded, Holding, Live
<1>2. AdmittedIsCurrent'
  BY DEF AdmissionIsExclusive, AdmittedIsCurrent, StartPhases, Admitting, Holding,
         Closed, ControllerAlive, Live
<1>3. AnchorIsRecorded'
  BY DEF AdmissionIsExclusive, AnchorIsRecorded, Admitting, Holding
<1>4. ReleasePhases'
  BY DEF ReleasePhases, Admitting, Closed, Live, ReleaseSteps
<1>5. StartPhases'
  BY DEF StartPhases, Admitting, Closed, ControllerAlive, Live
<1>6. Generations'
  BY DEF StartPhases, Generations, ControllerAlive, Admitting, Closed, Live
<1> QED BY <1>1, <1>2, <1>3, <1>4, <1>5, <1>6

\* The plan names the generation its services were configured with.
LEMMA CommitPlanKeeps ==
  ASSUME Supported, IInv, TypeOK', CommitPlan
  PROVE  IInv'
<1> USE DEF IInv, CommitPlan, launchVars, serviceVars
<1>1. (WorkIsAnchored /\ AdmissionIsExclusive /\ AdmittedIsCurrent /\ OneInstance
      /\ LaunchedByBackend /\ AnchorIsRecorded /\ BackendIsRecorded)'
  BY DEF WorkIsAnchored, AdmissionIsExclusive, AdmittedIsCurrent, OneInstance,
         LaunchedByBackend, AnchorIsRecorded, BackendIsRecorded, Admitting, Holding,
         Live
<1>2. ReleasePhases'
  BY DEF ReleasePhases, Admitting, Closed, Live, ReleaseSteps
<1>3. StartPhases'
  BY DEF StartPhases, Admitting, Closed, ControllerAlive, Live
<1>4. Generations'
  BY DEF StartPhases, Generations, ControllerAlive, Admitting, Closed, Live
<1> QED BY <1>1, <1>2, <1>3, <1>4

\* The child's generation has never been used.
LEMMA SpawnControllerKeeps ==
  ASSUME Supported, IInv, TypeOK', SpawnController
  PROVE  IInv'
<1> USE DEF IInv, SpawnController, launchVars, serviceVars
<1>1. (WorkIsAnchored /\ AdmissionIsExclusive /\ AdmittedIsCurrent
      /\ OneInstance /\ AnchorIsRecorded)'
  BY DEF WorkIsAnchored, AdmissionIsExclusive, AdmittedIsCurrent, OneInstance,
         AnchorIsRecorded, Admitting, Holding, Live
<1>2. LaunchedByBackend'
  BY DEF LaunchedByBackend, StartPhases, Live, Admitting, Closed, ControllerAlive
<1>3. ReleasePhases'
  BY DEF ReleasePhases, StartPhases, Admitting, Closed, Live, ReleaseSteps,
         ControllerAlive
<1>4. StartPhases'
  BY DEF StartPhases, Admitting, Closed, ControllerAlive, Live
<1>5. Generations'
  BY DEF StartPhases, Generations, ControllerAlive, Admitting, Closed, Live
<1>6. BackendIsRecorded'
  BY DEF BackendIsRecorded
<1> QED BY <1>1, <1>2, <1>3, <1>4, <1>5, <1>6

\* A gate holder may be lost between any two steps.
LEMMA LoseHolderKeeps ==
  ASSUME Supported, IInv, TypeOK', LoseHolder
  PROVE  IInv'
<1> USE DEF IInv, LoseHolder, launchVars, serviceVars
<1>1. (WorkIsAnchored /\ AdmissionIsExclusive /\ AdmittedIsCurrent /\ OneInstance
      /\ LaunchedByBackend /\ AnchorIsRecorded /\ BackendIsRecorded)'
  BY DEF WorkIsAnchored, AdmissionIsExclusive, AdmittedIsCurrent, OneInstance,
         LaunchedByBackend, AnchorIsRecorded, BackendIsRecorded, Admitting, Holding,
         Live
<1>2. ReleasePhases'
  BY DEF ReleasePhases, Admitting, Closed, Live, ReleaseSteps
<1>3. StartPhases'
  BY DEF TypeOK, StartPhases, Admitting, Closed, ControllerAlive, Live, ReleaseSteps,
         StartSteps
<1>4. Generations'
  BY DEF Generations, ControllerAlive
<1> QED BY <1>1, <1>2, <1>3, <1>4

\* A stuttering step keeps IInv.
LEMMA StutterKeeps == IInv /\ UNCHANGED vars => IInv'
  BY DEF IInv, vars, TypeOK, WorkIsAnchored, AdmissionIsExclusive, AdmittedIsCurrent,
         OneInstance, LaunchedByBackend, AnchorIsRecorded, ReleasePhases, StartPhases,
         Generations, BackendIsRecorded, Live, Holding, Admitting, Closed, ControllerAlive

\* The scope starts empty and closed.
LEMMA InitIInv == Init => IInv
<1> SUFFICES ASSUME Init PROVE IInv
  OBVIOUS
<1>1. TypeOK
  BY InitTypeOK
<1>2. /\ WorkIsAnchored /\ AdmissionIsExclusive /\ AdmittedIsCurrent
      /\ OneInstance /\ LaunchedByBackend /\ AnchorIsRecorded
  BY DEF Init, WorkIsAnchored, AdmissionIsExclusive, AdmittedIsCurrent, OneInstance,
         LaunchedByBackend, AnchorIsRecorded, Live, Holding, Admitting
<1>3. Closed
  BY DEF Init, Closed, Admitting, Live
<1>4. ReleasePhases /\ StartPhases
  BY <1>3 DEF Init, ReleasePhases, StartPhases, ReleaseSteps, ControllerAlive
<1>5. Generations /\ BackendIsRecorded
  BY DEF Init, Generations, BackendIsRecorded, ControllerAlive
<1> QED BY <1>1, <1>2, <1>4, <1>5 DEF IInv

\* Every step keeps IInv.
LEMMA IInvStep == Supported /\ IInv /\ [Next]_vars => IInv'
<1> SUFFICES ASSUME Supported, IInv, [Next]_vars PROVE IInv'
  OBVIOUS
<1>1. TypeOK'
  BY TypeStep DEF IInv
<1>2. ASSUME NEW g \in 1 .. MaxGeneration, ControllerNext(g) PROVE IInv'
  BY <1>1, <1>2, RegisterControllerKeeps, ObserveStopRequestKeeps, EndControllerKeeps
     DEF ControllerNext
<1>3. ASSUME NEW g \in 1 .. MaxGeneration, NEW l \in Launch, SpawnLaunch(g, l) PROVE IInv'
  BY <1>1, <1>3, SpawnLaunchKeeps
<1>4. ASSUME NEW l \in Launch, LaunchNext(l) PROVE IInv'
  <2>1. ~KillAnchor(l)
    BY DEF Supported, KillAnchor
  <2> QED
    BY <1>1, <1>4, <2>1, EnterAdmissionKeeps, RegisterOwnerKeeps, ObserveStoppingKeeps,
       AdmitKeeps, FinishWorkKeeps, ExitLaunchKeeps, KillGroupKeeps
       DEF LaunchNext, KillLaunch
<1>5. ASSUME BeginRelease \/ ReleaseNext PROVE IInv'
  BY <1>1, <1>5, BeginReleaseKeeps, MarkStoppingKeeps, ReadOwnerKeeps, EscalateOwnerKeeps,
     RemoveReceiptKeeps, TerminateControllerKeeps, ForgetControllerKeeps
     DEF ReleaseNext
<1>6. ASSUME BeginAcquire \/ AcquireNext \/ LoseHolder PROVE IInv'
  BY <1>1, <1>6, BeginAcquireKeeps, SavePlanKeeps, FoundControllerKeeps, StartMissingKeeps,
     OpenGenerationKeeps, ConfigureServiceKeeps, CommitPlanKeeps, SpawnControllerKeeps,
     LoseHolderKeeps
     DEF AcquireNext
<1> QED BY <1>2, <1>3, <1>4, <1>5, <1>6, StutterKeeps DEF Next, Generation

\* In the supported environment IInv is an invariant of the protocol.
THEOREM InductiveInvariant ==
  ASSUME Supported
  PROVE  Spec => []IInv
<1>1. IInv /\ [Next]_vars => IInv'
  BY IInvStep
<1> QED BY InitIInv, <1>1, PTL DEF Spec

----------------------------------------------------------------------------
(* The properties.                                                         *)

\* Every running application can be found through owner.json.
THEOREM RunningRecorded ==
  ASSUME Supported
  PROVE  Spec => []RunningIsRecorded
<1>1. IInv => RunningIsRecorded
  BY DEF IInv, RunningIsRecorded, WorkIsAnchored, AnchorIsRecorded, Admitting
<1> QED BY InductiveInvariant, <1>1, PTL

\* No delayed launch brings the application back after a completed release.
THEOREM ReleaseIsFinal ==
  ASSUME Supported
  PROVE  Spec => []ReleasedIsQuiet
<1>1. IInv => ReleasedIsQuiet
  BY DEF IInv, ReleasedIsQuiet, ReleasePhases, Closed, WorkIsAnchored, Admitting
<1> QED BY InductiveInvariant, <1>1, PTL

\* Killing the acquiring client never leaves a started backend unrecorded.
THEOREM BackendRecorded ==
  ASSUME Supported
  PROVE  Spec => []BackendIsRecorded
<1>1. IInv => BackendIsRecorded
  BY DEF IInv
<1> QED BY InductiveInvariant, <1>1, PTL

----------------------------------------------------------------------------
(* The refinement of OwnedService.                                         *)

\* The refinement mapping, applied to a state.
Active == {l \in Launch : work[l]}

\* No launch can be admitted in a closed service or beside a running one: the
\* step that starts the application is the abstract Run.
LEMMA AdmitRuns ==
  ASSUME IInv, NEW l \in Launch, Admit(l), work' # work
  PROVE  ~quiet /\ Active = {} /\ Active' = {l}
<1> USE DEF IInv, Admit, Active
<1>1. Admitting(l) /\ pc[l] = "observed"
  BY DEF Admitting
<1>2. ~quiet
  BY <1>1 DEF ReleasePhases, Closed
<1>3. \A k \in Launch : ~work[k]
  BY <1>1 DEF WorkIsAnchored, AnchorIsRecorded, Admitting
<1>4. work' = [work EXCEPT ![l] = TRUE]
  OBVIOUS
<1> QED BY <1>2, <1>3, <1>4 DEF TypeOK

\* An application that ends, by itself or by SIGKILL, is the only active one: the
\* step is the abstract End or changes nothing.
LEMMA EndingEnds ==
  ASSUME IInv, NEW l \in Launch, work' = [work EXCEPT ![l] = FALSE]
  PROVE  Active' = Active \/ (Active = {l} /\ Active' = {})
<1> USE DEF IInv, Active
<1>1. \A k \in Launch : work[k] /\ work[l] => k = l
  BY DEF WorkIsAnchored, AnchorIsRecorded, Admitting
<1> QED BY <1>1 DEF TypeOK

\* Every step of the protocol is a step of OwnedService or changes nothing there.
LEMMA OwnedStep ==
  Supported /\ IInv /\ IInv' /\ [Next]_vars => [Owned!Next]_<<Active, ~quiet>>
<1> SUFFICES ASSUME Supported, IInv, IInv', [Next]_vars
             PROVE  Owned!Next \/ UNCHANGED <<Active, quiet>>
  BY DEF Active
<1> USE DEF Owned!Next, Owned!Open, Owned!Close, Owned!Run, Owned!End, Active
<1>1. CASE UNCHANGED <<work, quiet>>
  BY <1>1
<1>2. ASSUME NEW l \in Launch, LaunchNext(l) PROVE Owned!Next \/ UNCHANGED <<Active, quiet>>
  <2>1. CASE Admit(l)
    BY <2>1, <1>1, AdmitRuns DEF Admit, holderVars
  <2>2. CASE FinishWork(l) \/ KillGroup(l)
    BY <2>2, EndingEnds DEF FinishWork, KillGroup, KilledLaunch, holderVars
  <2>3. CASE EnterAdmission(l) \/ RegisterOwner(l) \/ ObserveStopping(l) \/ ExitLaunch(l)
             \/ KillAnchor(l)
    BY <2>3, <1>1 DEF EnterAdmission, RegisterOwner, ObserveStopping, ExitLaunch, KillAnchor,
                      holderVars
  <2> QED BY <1>2, <2>1, <2>2, <2>3 DEF LaunchNext, KillLaunch
<1>3. CASE EscalateOwner
  <2>1. target \in Launch
    BY <1>3 DEF EscalateOwner, IInv, ReleasePhases
  <2> QED BY <1>3, <2>1, EndingEnds DEF EscalateOwner, KilledLaunch, holderVars
<1>4. CASE ForgetController
  <2>1. Active' = {}
    BY <1>4 DEF ForgetController, IInv, ReleasePhases, Closed, WorkIsAnchored, Admitting
  <2>2. Active' = Active /\ quiet'
    BY <1>4 DEF ForgetController, launchVars
  <2> QED BY <2>1, <2>2 DEF IInv, TypeOK
<1>5. CASE StartMissing \/ ConfigureService
  BY <1>5 DEF StartMissing, ConfigureService, launchVars, IInv, TypeOK
<1>6. ASSUME NEW g \in 1 .. MaxGeneration,
             ControllerNext(g) \/ \E l \in Launch : SpawnLaunch(g, l)
      PROVE  UNCHANGED <<work, quiet>>
  BY <1>6 DEF ControllerNext, RegisterController, ObserveStopRequest, EndController,
              SpawnLaunch, launchVars, holderVars
<1>7. CASE BeginRelease \/ BeginAcquire \/ MarkStopping \/ ReadOwner \/ RemoveReceipt
           \/ TerminateController \/ SavePlan \/ FoundController \/ OpenGeneration
           \/ CommitPlan \/ SpawnController \/ LoseHolder
  <2>1. UNCHANGED <<work, quiet>>
    BY <1>7 DEF BeginRelease, BeginAcquire, MarkStopping, ReadOwner, RemoveReceipt,
                TerminateController, SavePlan, FoundController, OpenGeneration, CommitPlan,
                SpawnController, LoseHolder, launchVars
  <2> QED BY <2>1, <1>1
<1>8. CASE UNCHANGED vars
  BY <1>8, <1>1 DEF vars
<1> QED
  BY <1>1, <1>2, <1>3, <1>4, <1>5, <1>6, <1>7, <1>8
     DEF Next, ReleaseNext, AcquireNext, Generation

\* The launch protocol implements OwnedService.
THEOREM Refinement ==
  ASSUME Supported
  PROVE  Spec => ImplementsOwnedService
<1>1. Init => Owned!Init
  BY DEF Init, Owned!Init
<1>2. IInv /\ IInv' /\ [Next]_vars => [Owned!Next]_<<{l \in Launch : work[l]}, ~quiet>>
  BY OwnedStep DEF Active
<1> QED BY InductiveInvariant, <1>1, <1>2, PTL DEF Spec, ImplementsOwnedService, Owned!Spec
============================================================================
