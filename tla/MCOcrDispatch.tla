---------------------------- MODULE MCOcrDispatch ----------------------------
(* Instances of OcrDispatch for TLC: documents of up to four pages, with the  *)
(* thresholds scaled so that each of them decides some document.             *)
EXTENDS OcrDispatch
=============================================================================
