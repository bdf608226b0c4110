---------------------------- MODULE MCOcrIsolation ----------------------------
(* Instances of OcrIsolation for TLC: the code's own sizes and limits, and    *)
(* documents of a few pages.                                                 *)
EXTENDS OcrIsolation

MCReduction == {40, 20, 10, 5, 2, 1}
=============================================================================
