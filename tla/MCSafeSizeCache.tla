--------------------------- MODULE MCSafeSizeCache ---------------------------
(***************************************************************************)
(* Two processes of one machine and one of another, for model checking       *)
(* SafeSizeCache.                                                           *)
(***************************************************************************)
EXTENDS SafeSizeCache

CONSTANTS p1, p2, p3, here, there

MCKeyOf == [p \in {p1, p2, p3} |-> IF p = p3 THEN there ELSE here]

MCCapacity == [k \in {here, there} |-> IF k = here THEN 1 ELSE 4]
=============================================================================
