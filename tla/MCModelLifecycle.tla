-------------------------- MODULE MCModelLifecycle --------------------------
(* Instances of ModelLifecycle for TLC: two or three shells.                *)
EXTENDS ModelLifecycle, TLC

CONSTANTS s1, s2, s3

MCSymmetry == Permutations(Proc)
=============================================================================
