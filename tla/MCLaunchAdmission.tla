------------------------- MODULE MCLaunchAdmission -------------------------
(***************************************************************************)
(* LaunchAdmission on small instances.                                     *)
(***************************************************************************)
EXTENDS LaunchAdmission, TLC

LaunchSymmetry == Permutations(Launch)
============================================================================
