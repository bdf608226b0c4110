--------------------------- MODULE MCSavingsLedger ---------------------------
(***************************************************************************)
(* SavingsLedger with interchangeable processes, for model checking.         *)
(***************************************************************************)
EXTENDS SavingsLedger

Symmetry == Permutations(Recorders)
=============================================================================
