------------------------------ MODULE MCBuddy ------------------------------
(* Values for the constants of Buddy that a .cfg cannot write. *)
EXTENDS Buddy, TLC

PowersOf2 == [k \in 0 .. MaxOrder + 1 |-> 2 ^ k]

Symmetry == Permutations(Cores)
=============================================================================
