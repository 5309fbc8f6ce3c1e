--------------------------- MODULE MCServiceScope ---------------------------
(***************************************************************************)
(* ServiceScope on small instances: what the clients may ask for.          *)
(***************************************************************************)
EXTENDS ServiceScope, TLC

CONSTANTS db, web, old, new

Ask(wants, exclusive, persistent, fingerprint) ==
  [wants |-> wants, exclusive |-> exclusive, persistent |-> persistent,
   fingerprint |-> fingerprint]

\* Two overlapping claims, one that has its service to itself, one for no service.
SharedRequests ==
  {Ask({db}, FALSE, FALSE, old), Ask({db, web}, FALSE, FALSE, old), Ask({db}, TRUE, FALSE, old),
   Ask({}, FALSE, FALSE, old)}

\* Persistent claims and claims for other inputs besides.
AllRequests ==
  SharedRequests \cup {Ask({db}, FALSE, TRUE, old), Ask({db}, FALSE, FALSE, new)}

ClientSymmetry == Permutations(Client)
============================================================================
