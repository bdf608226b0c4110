------------------------------ MODULE OcrService ------------------------------
(***************************************************************************)
(* What the Unlimited-OCR backend promises for one request, whatever         *)
(* happens to the worker processes behind it: one answer, which is the text  *)
(* of all the pages or a failure.  An empty text is an answer only where     *)
(* something else than the GPU's memory has failed, and only an attempt that *)
(* is stuck keeps the answer from coming.                                   *)
(***************************************************************************)
EXTENDS Naturals

VARIABLES pages,       \* how many pages were asked for
          answer,      \* "none" so far, "whole", "empty" or "failed"
          faulty,      \* something else than the memory has failed
          stuck        \* an attempt goes on for ever unless somebody ends it

serviceVars == <<pages, answer, faulty, stuck>>

Init == pages \in Nat \ {0} /\ answer = "none" /\ ~faulty /\ ~stuck

Deliver == answer' = "whole" /\ UNCHANGED faulty

Refuse == answer' = "failed" /\ faulty' \in {faulty, TRUE}

Lose == answer' = "empty" /\ faulty'

Respond == /\ answer = "none" /\ ~stuck
           /\ Deliver \/ Refuse \/ Lose
           /\ UNCHANGED <<pages, stuck>>

\* A fault may end an attempt, one that is stuck too, or leave it stuck.
Falter == /\ answer = "none"
          /\ faulty' /\ stuck' \in BOOLEAN
          /\ UNCHANGED <<pages, answer>>

Next == Respond \/ Falter

Safety == Init /\ [][Next]_serviceVars

Spec == Safety /\ WF_serviceVars(Respond)
=============================================================================
