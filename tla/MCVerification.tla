-------------------------- MODULE MCVerification ---------------------------
(* Two articles, and one registered key that is spelled in two ways, under *)
(* two names.  An entry is good, or made by another key.                   *)
EXTENDS Verification, TLC

CONSTANTS b1, b2, k1, k2, lower, upper

MCLower == lower :> k1 @@ upper :> k1

MCEntry == {[hash |-> b1, key |-> upper, sig |-> k1],
            [hash |-> b1, key |-> lower, sig |-> k2]}

Symmetry == Permutations(File) \cup Permutations(Name) \cup Permutations(Worker)
=============================================================================
