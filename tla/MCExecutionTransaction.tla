---------------------- MODULE MCExecutionTransaction ----------------------
(* Two generations and two edits for TLC. *)
EXTENDS ExecutionTransaction, TLC

CONSTANTS g1, g2, e1, e2

CallSymmetry == Permutations(Generations) \union Permutations(Edits)
===========================================================================
