---------------------------- MODULE OwnedService ----------------------------
(***************************************************************************)
(* What the launch protocol of LaunchAdmission promises about one service, *)
(* without files, locks, generations or controllers: while the service is  *)
(* open for launches at most one process group runs it, and it is closed   *)
(* only when none does.                                                    *)
(***************************************************************************)
CONSTANT Launch

VARIABLES
  active,   \* launches whose process group runs the application
  open      \* may a launch be admitted?

Init == active = {} /\ open = FALSE

Open == ~open /\ open' = TRUE /\ UNCHANGED active

Run(l) == open /\ active = {} /\ active' = {l} /\ UNCHANGED open

End(l) == active = {l} /\ active' = {} /\ UNCHANGED open

Close == open /\ active = {} /\ open' = FALSE /\ UNCHANGED active

Next == Open \/ Close \/ \E l \in Launch : Run(l) \/ End(l)

Spec == Init /\ [][Next]_<<active, open>>
=============================================================================
