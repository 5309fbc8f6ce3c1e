------------------------------ MODULE MCLosses ------------------------------
(***************************************************************************)
(* What is left when a process dies, in the three protocols that start work *)
(* which must not outlive its owner: the launch of a service, provisioning  *)
(* before it (StartupGuard) and the callbacks of a Git hook (HookBarrier).  *)
(* They share no state: a behaviour is that of the one `focus' names, and   *)
(* the other two rest.                                                      *)
(***************************************************************************)
EXTENDS MCLaunchAdmission, StartupGuard, HookBarrier

VARIABLE focus

lossVars == <<vars, guardVars, barrierVars, focus>>

LossInit ==
  /\ focus \in {"launch", "guard", "barrier"}
  /\ Init /\ BarrierInit
  /\ GuardInit /\ (focus = "guard" \/ ~starter.profile)

OnlyLaunch == focus = "launch" /\ UNCHANGED <<guardVars, barrierVars, focus>>
OnlyGuard == focus = "guard" /\ UNCHANGED <<vars, barrierVars, focus>>
OnlyBarrier == focus = "barrier" /\ UNCHANGED <<vars, guardVars, focus>>

LossNext ==
  \/ OnlyLaunch /\ Next
  \/ OnlyGuard /\ GuardNext
  \/ OnlyBarrier /\ BarrierNext

\* Fairness, GuardFairness and BarrierFairness, each where the behaviour is its own.
LossFairness ==
  /\ SF_lossVars(OnlyLaunch /\ MarkStopping) /\ WF_lossVars(OnlyLaunch /\ ReleaseNext)
  /\ \A l \in Launch :
       /\ SF_lossVars(OnlyLaunch /\ EnterAdmission(l))
       /\ WF_lossVars(OnlyLaunch /\ (\/ RegisterOwner(l) \/ ObserveStopping(l)
                                     \/ Admit(l) \/ ExitLaunch(l)))
  /\ WF_lossVars(OnlyGuard /\ CancelStartup) /\ WF_lossVars(OnlyGuard /\ Closing)
  /\ WF_lossVars(OnlyGuard /\ HelperEnds) /\ WF_lossVars(OnlyGuard /\ StopTakesGate("own"))
  /\ \A c \in Callback : /\ WF_lossVars(OnlyBarrier /\ SupervisorStops(c))
                         /\ WF_lossVars(OnlyBarrier /\ SupervisorKills(c))

LossSpec == LossInit /\ [][LossNext]_lossVars /\ LossFairness

\* The two components beside the launch protocol keep their types.
LossTypeOK == GuardTypeOK /\ BarrierTypeOK
=============================================================================
