------------------------------- MODULE MCKlog -------------------------------
(* Values for the constants of Klog that a .cfg cannot write. *)
EXTENDS Klog, TLC

CONSTANTS p1, p2, p3

Symmetry == Permutations(Readers)
============================================================================
