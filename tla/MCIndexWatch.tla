---------------------------- MODULE MCIndexWatch ----------------------------
(* Instances of IndexWatch for TLC.                                         *)
EXTENDS IndexWatch, TLC

CONSTANTS p1, p2,
          long,     \* good and accepted, two chunks
          short,    \* good and accepted, one chunk
          plain,    \* good, not accepted, one chunk
          poor      \* below the readiness threshold

MCPath == {p1, p2}
MCContent == {long, short, plain, poor}
MCChunks == [c \in MCContent |-> IF c = long THEN 2 ELSE IF c = poor THEN 0 ELSE 1]
MCGood == {long, short, plain}
MCAccepted == {long, short}
MCSymmetry == Permutations({p1, p2})
=============================================================================
