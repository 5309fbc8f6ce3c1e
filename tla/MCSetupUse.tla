----------------------------- MODULE MCSetupUse -----------------------------
EXTENDS SetupUse, TLC

CONSTANTS g1, g2

\* g2 depends on g1
Chain == (g1 :> {}) @@ (g2 :> {g1})

CommandSymmetry == Permutations(Command)
=============================================================================
