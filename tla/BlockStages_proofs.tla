------------------------- MODULE BlockStages_proofs -------------------------
(***************************************************************************)
(* Proofs about the stages between the extraction and the chunks, for every  *)
(* document, every setting of the chunker and every value of the optimizer's *)
(* three limits.                                                             *)
(***************************************************************************)
EXTENDS BlockStages, SequenceTheorems, WellFoundedInduction, TLAPS

-----------------------------------------------------------------------------
(* Induction, extrema, and functions defined by recursion *)

\* A set of naturals with 0 and the successor of each of its members has them all.
LEMMA Induction ==
  ASSUME NEW T \in SUBSET Nat, 0 \in T, \A n \in T : n + 1 \in T
  PROVE  T = Nat
<1> SUFFICES ASSUME Nat \ T # {} PROVE FALSE
    OBVIOUS
<1> DEFINE U == Nat \ T
<1>1. PICK x \in U : \A y \in U : ~(<<y, x>> \in OpToRel(<, Nat))
  <2>1. U \subseteq Nat /\ U # {}
        OBVIOUS
  <2> HIDE DEF U
  <2> QED
    BY <2>1, NatLessThanWellFounded, WFMin
<1>2. x \in Nat /\ x # 0 /\ x - 1 \in Nat
      OBVIOUS
<1>3. <<x - 1, x>> \in OpToRel(<, Nat)
      BY <1>2 DEF OpToRel
<1>4. x - 1 \in T
      BY <1>1, <1>2, <1>3
<1>5. x \in T
      BY <1>2, <1>4, x = (x - 1) + 1
<1> QED
  BY <1>5

\* The functions that start with base and go on with g.
Recursive(V, N, base, g) ==
  {f \in [0 .. N -> V] : f[0] = base /\ \A n \in 1 .. N : f[n] = g[<<f[n - 1], n>>]}

LEMMA Recursion ==
  ASSUME NEW V, NEW N \in Nat, NEW base \in V, NEW g \in [V \X (1 .. N) -> V]
  PROVE  Recursive(V, N, base, g) # {}
<1> DEFINE Steps(f, m) == f[0] = base /\ \A n \in 1 .. m : f[n] = g[<<f[n - 1], n>>]
           T == {m \in Nat : m <= N => \E f \in [0 .. m -> V] : Steps(f, m)}
<1>1. 0 \in T
  <2>1. [n \in 0 .. 0 |-> base] \in [0 .. 0 -> V] /\ Steps([n \in 0 .. 0 |-> base], 0)
        OBVIOUS
  <2> QED
    BY <2>1
<1>2. ASSUME NEW m \in T PROVE m + 1 \in T
  <2> SUFFICES ASSUME m + 1 <= N PROVE \E f \in [0 .. m + 1 -> V] : Steps(f, m + 1)
      OBVIOUS
  <2>1. PICK f \in [0 .. m -> V] : Steps(f, m)
        OBVIOUS
  <2> DEFINE h == [n \in 0 .. m + 1 |-> IF n = m + 1 THEN g[<<f[m], m + 1>>] ELSE f[n]]
  <2>2. m \in Nat /\ f[m] \in V /\ g[<<f[m], m + 1>>] \in V
        OBVIOUS
  <2>3. \A n \in 0 .. m + 1 : n # m + 1 => n \in 0 .. m
        BY <2>2
  <2>4. h \in [0 .. m + 1 -> V]
        BY <2>2, <2>3
  <2>5. \A n \in 0 .. m : h[n] = f[n]
        BY <2>2
  <2>6. h[m + 1] = g[<<h[m], m + 1>>]
    <3>1. m \in 0 .. m /\ m + 1 \in 0 .. m + 1
          BY <2>2
    <3>2. h[m + 1] = g[<<f[m], m + 1>>]
          BY <3>1
    <3>3. h[m] = f[m]
          BY <2>5, <3>1
    <3> QED
      BY <3>2, <3>3
  <2>7. h[0] = base
        BY <2>1, <2>2, <2>5
  <2>8. \A n \in 1 .. m : h[n] = g[<<h[n - 1], n>>]
    <3>1. \A n \in 1 .. m : n \in 0 .. m /\ n - 1 \in 0 .. m
          BY <2>2
    <3> QED
      BY <2>1, <2>5, <3>1
  <2>9. \A n \in 1 .. m + 1 : n = m + 1 \/ n \in 1 .. m
        BY <2>2
  <2> HIDE DEF h
  <2>10. Steps(h, m + 1)
    <3>1. \A n \in 1 .. m + 1 : h[n] = g[<<h[n - 1], n>>]
      <4> TAKE n \in 1 .. m + 1
      <4>1. CASE n = m + 1
        <5>1. n - 1 = m
              BY <2>2, <4>1
        <5> QED
          BY <2>6, <4>1, <5>1
      <4>2. CASE n \in 1 .. m
            BY <2>8, <4>2
      <4> QED
        BY <2>9, <4>1, <4>2
    <3> QED
      BY <2>7, <3>1
  <2> QED
    BY <2>4, <2>10
<1>3. N \in T
  <2> HIDE DEF T
  <2>1. T \in SUBSET Nat
        BY DEF T
  <2> QED
    BY <1>1, <1>2, <2>1, Induction
<1> QED
  BY <1>3 DEF Recursive

\* Two functions that start alike and go on alike are the same.
GoAlike(f, h, N) ==
  f[0] = h[0] /\ \A n \in 1 .. N : f[n - 1] = h[n - 1] => f[n] = h[n]

LEMMA SameSteps ==
  ASSUME NEW N \in Nat, NEW f, NEW h, GoAlike(f, h, N)
  PROVE  \A n \in 0 .. N : f[n] = h[n]
<1> USE DEF GoAlike
<1> DEFINE T == {n \in Nat : n <= N => f[n] = h[n]}
<1>1. 0 \in T
      OBVIOUS
<1>2. ASSUME NEW n \in T PROVE n + 1 \in T
  <2> SUFFICES ASSUME n + 1 <= N PROVE f[n + 1] = h[n + 1]
      OBVIOUS
  <2>1. n + 1 \in 1 .. N /\ (n + 1) - 1 = n /\ f[n] = h[n]
        OBVIOUS
  <2> QED
    BY <2>1
<1>3. T = Nat
  <2>1. T \in SUBSET Nat
        OBVIOUS
  <2> HIDE DEF T
  <2> QED
    BY <1>1, <1>2, <2>1, Induction
<1> QED
  BY <1>3

LEMMA MinIs ==
  ASSUME NEW S \in SUBSET Nat, S # {}
  PROVE  Min(S) \in S /\ \A y \in S : Min(S) <= y
<1>1. PICK x \in S : \A y \in S : ~(<<y, x>> \in OpToRel(<, Nat))
      BY NatLessThanWellFounded, WFMin, Zenon
<1>2. \A y \in S : x <= y
  <2> SUFFICES ASSUME NEW y \in S, y < x PROVE FALSE
      OBVIOUS
  <2>1. <<y, x>> \in OpToRel(<, Nat)
        BY DEF OpToRel
  <2> QED
    BY <1>1, <2>1
<1> QED
  BY <1>2 DEF Min

LEMMA MaxIs ==
  ASSUME NEW S \in SUBSET Nat, S # {}, NEW N \in Nat, \A x \in S : x <= N
  PROVE  Max(S) \in S /\ \A y \in S : y <= Max(S)
<1> DEFINE D == {n \in Nat : n <= N /\ N - n \in S}
<1>1. D \in SUBSET Nat /\ D # {}
  <2>1. PICK x \in S : TRUE
        OBVIOUS
  <2>2. N - x \in D
        BY <2>1
  <2> QED
    BY <2>2
<1>2. Min(D) \in D /\ \A d \in D : Min(D) <= d
  <2> HIDE DEF D
  <2> QED
    BY <1>1, MinIs
<1>3. N - Min(D) \in S
      BY <1>2
<1>4. \A y \in S : y <= N - Min(D)
  <2> TAKE y \in S
  <2>1. N - y \in D
        OBVIOUS
  <2>2. Min(D) <= N - y
        BY <1>2, <2>1
  <2>3. Min(D) \in Nat
        BY <1>2
  <2> QED
    BY <2>2, <2>3
<1>5. \E x \in S : \A y \in S : x >= y
      BY <1>3, <1>4
<1> QED
  BY <1>5 DEF Max

-----------------------------------------------------------------------------
(* Sums, concatenations and passes *)

SumsTo(f, i, j) ==
  {h \in [0 .. j -> Nat] :
     /\ h[0] = 0
     /\ \A k \in 1 .. j : h[k] = IF k < i THEN 0 ELSE h[k - 1] + f[k]
     /\ Sum(f, i, j) = h[j]}

LEMMA SumExists ==
  ASSUME NEW n \in Nat, NEW f \in [1 .. n -> Nat], NEW i \in Nat \ {0},
         NEW j \in 0 .. n
  PROVE  SumsTo(f, i, j) # {}
<1> DEFINE P(h) == h = [k \in 0 .. j |-> IF k < i THEN 0 ELSE h[k - 1] + f[k]]
           g == [x \in Nat \X (1 .. j) |-> IF x[2] < i THEN 0 ELSE x[1] + f[x[2]]]
<1>1. g \in [Nat \X (1 .. j) -> Nat]
      OBVIOUS
<1>2. PICK h \in [0 .. j -> Nat] : h[0] = 0 /\ \A k \in 1 .. j : h[k] = g[<<h[k - 1], k>>]
  <2> HIDE DEF g
  <2>1. Recursive(Nat, j, 0, g) # {}
    <3>1. j \in Nat /\ 0 \in Nat
          OBVIOUS
    <3> QED
      BY <1>1, <3>1, Recursion
  <2> QED
    BY <2>1 DEF Recursive
<1>3. \A k \in 1 .. j : h[k] = IF k < i THEN 0 ELSE h[k - 1] + f[k]
  <2>1. \A k \in 1 .. j : k - 1 \in 0 .. j /\ h[k - 1] \in Nat
        OBVIOUS
  <2> QED
    BY <1>2, <2>1
<1>4. P(h)
  <2>1. \A k \in 0 .. j : k = 0 \/ k \in 1 .. j
        OBVIOUS
  <2>2. \A k \in 0 .. j : h[k] = IF k < i THEN 0 ELSE h[k - 1] + f[k]
        BY <1>2, <1>3, <2>1
  <2> QED
    BY <2>2
<1> DEFINE u == CHOOSE x : P(x)
<1>5. P(u)
  <2> HIDE DEF P
  <2> QED
    BY <1>4
<1>6. Sum(f, i, j) = u[j]
      BY DEF Sum
<1>7. \A k \in 0 .. j : u[k] = h[k]
  <2>1. \A k \in 0 .. j : u[k] = IF k < i THEN 0 ELSE u[k - 1] + f[k]
    <3> HIDE DEF u
    <3> QED
      BY <1>5
  <2> HIDE DEF u
  <2>2. u[0] = h[0]
        BY <1>2, <2>1
  <2>3. \A k \in 1 .. j : u[k - 1] = h[k - 1] => u[k] = h[k]
    <3> TAKE k \in 1 .. j
    <3>1. u[k] = IF k < i THEN 0 ELSE u[k - 1] + f[k]
          BY <2>1
    <3>2. h[k] = IF k < i THEN 0 ELSE h[k - 1] + f[k]
          BY <1>3
    <3> QED
      BY <3>1, <3>2
  <2>4. j \in Nat
        OBVIOUS
  <2>5. GoAlike(u, h, j)
        BY <2>2, <2>3 DEF GoAlike
  <2> QED
    BY <2>4, <2>5, SameSteps
<1>8. Sum(f, i, j) = h[j]
      BY <1>6, <1>7
<1>9. h \in SumsTo(f, i, j)
  <2> HIDE DEF P, u, g
  <2> QED
    BY <1>2, <1>3, <1>8 DEF SumsTo
<1> QED
  BY <1>9

\* A sum is a number, 0 when there is nothing to add, and the sum before its
\* last term with that term.
LEMMA SumSteps ==
  ASSUME NEW n \in Nat, NEW f \in [1 .. n -> Nat], NEW i \in Nat \ {0}, NEW j \in 0 .. n
  PROVE  /\ Sum(f, i, j) \in Nat
         /\ j < i => Sum(f, i, j) = 0
         /\ i <= j => Sum(f, i, j) = Sum(f, i, j - 1) + f[j]
<1>1. PICK h \in [0 .. j -> Nat] :
           /\ h[0] = 0
           /\ \A k \in 1 .. j : h[k] = IF k < i THEN 0 ELSE h[k - 1] + f[k]
           /\ Sum(f, i, j) = h[j]
  <2>1. SumsTo(f, i, j) # {}
        BY SumExists
  <2> QED
    BY <2>1 DEF SumsTo
<1>2. j < i => Sum(f, i, j) = 0
  <2>1. j = 0 \/ j \in 1 .. j
        OBVIOUS
  <2> QED
    BY <1>1, <2>1
<1>3. ASSUME i <= j PROVE Sum(f, i, j) = Sum(f, i, j - 1) + f[j]
  <2>1. j - 1 \in 0 .. n /\ j - 1 \in Nat /\ j \in 1 .. j
        BY <1>3
  <2> DEFINE m == j - 1
  <2> HIDE DEF m
  <2>2. m \in 0 .. n /\ m \in Nat /\ m + 1 = j
        BY <2>1 DEF m
  <2>3. PICK q \in [0 .. m -> Nat] :
           /\ q[0] = 0
           /\ \A k \in 1 .. m : q[k] = IF k < i THEN 0 ELSE q[k - 1] + f[k]
           /\ Sum(f, i, m) = q[m]
    <3>1. SumsTo(f, i, m) # {}
          BY <2>2, SumExists
    <3> QED
      BY <3>1 DEF SumsTo
  <2>4. \A k \in 1 .. m : q[k - 1] = h[k - 1] => q[k] = h[k]
    <3> TAKE k \in 1 .. m
    <3>1. k \in 1 .. j
          BY <2>2
    <3> QED
      BY <1>1, <2>3, <3>1
  <2>5. \A k \in 0 .. m : q[k] = h[k]
    <3>1. q[0] = h[0]
          BY <1>1, <2>3
    <3>2. m \in Nat
          BY <2>2
    <3>3. GoAlike(q, h, m)
          BY <2>4, <3>1 DEF GoAlike
    <3> QED
      BY <3>2, <3>3, SameSteps, ZenonT(60)
  <2>6. q[m] = h[m]
        BY <2>2, <2>5
  <2> QED
    BY <1>1, <1>3, <2>1, <2>3, <2>6 DEF m
<1> QED
  BY <1>1, <1>2, <1>3

ConcatsTo(S, s, i, j) ==
  {h \in [0 .. j -> Seq(S)] :
     /\ h[0] = <<>>
     /\ \A k \in 1 .. j : h[k] = IF k < i THEN <<>> ELSE h[k - 1] \o s[k]
     /\ Concat(s, i, j) = h[j]}

LEMMA ConcatExists ==
  ASSUME NEW S, NEW n \in Nat, NEW s \in [1 .. n -> Seq(S)], NEW i \in Nat \ {0},
         NEW j \in 0 .. n
  PROVE  ConcatsTo(S, s, i, j) # {}
<1> DEFINE P(h) == h = [k \in 0 .. j |-> IF k < i THEN <<>> ELSE h[k - 1] \o s[k]]
           g == [x \in Seq(S) \X (1 .. j) |-> IF x[2] < i THEN <<>> ELSE x[1] \o s[x[2]]]
<1>1. g \in [Seq(S) \X (1 .. j) -> Seq(S)]
  <2>1. \A t \in Seq(S), k \in 1 .. j : t \o s[k] \in Seq(S)
    <3> TAKE t \in Seq(S), k \in 1 .. j
    <3>1. s[k] \in Seq(S)
          OBVIOUS
    <3> QED
      BY <3>1, ConcatProperties
  <2>2. <<>> \in Seq(S)
        BY EmptySeq
  <2> QED
    BY <2>1, <2>2
<1>2. PICK h \in [0 .. j -> Seq(S)] : h[0] = <<>> /\ \A k \in 1 .. j : h[k] = g[<<h[k - 1], k>>]
  <2> HIDE DEF g
  <2>1. Recursive(Seq(S), j, <<>>, g) # {}
    <3>1. j \in Nat /\ <<>> \in Seq(S)
          BY EmptySeq
    <3> QED
      BY <1>1, <3>1, Recursion
  <2> QED
    BY <2>1 DEF Recursive
<1>3. \A k \in 1 .. j : h[k] = IF k < i THEN <<>> ELSE h[k - 1] \o s[k]
  <2> TAKE k \in 1 .. j
  <2>1. k - 1 \in 0 .. j
        OBVIOUS
  <2>2. h[k - 1] \in Seq(S)
        BY <2>1
  <2>3. <<h[k - 1], k>> \in Seq(S) \X (1 .. j)
        BY <2>2
  <2>4. g[<<h[k - 1], k>>] = IF k < i THEN <<>> ELSE h[k - 1] \o s[k]
        BY <2>3
  <2> HIDE DEF g
  <2> QED
    BY <1>2, <2>4
<1>4. P(h)
  <2>1. \A k \in 0 .. j : k = 0 \/ k \in 1 .. j
        OBVIOUS
  <2>2. \A k \in 0 .. j : h[k] = IF k < i THEN <<>> ELSE h[k - 1] \o s[k]
    <3> TAKE k \in 0 .. j
    <3>1. CASE k = 0
      <4>1. 0 < i
            OBVIOUS
      <4> QED
        BY <1>2, <3>1, <4>1
    <3>2. CASE k \in 1 .. j
          BY <1>3, <3>2, Zenon
    <3> QED
      BY <2>1, <3>1, <3>2
  <2> QED
    BY <2>2
<1> DEFINE u == CHOOSE x : P(x)
<1>5. P(u)
  <2> HIDE DEF P
  <2> QED
    BY <1>4
<1>6. Concat(s, i, j) = u[j]
      BY DEF Concat
<1>7. \A k \in 0 .. j : u[k] = h[k]
  <2>1. \A k \in 0 .. j : u[k] = IF k < i THEN <<>> ELSE u[k - 1] \o s[k]
    <3> HIDE DEF u
    <3> QED
      BY <1>5
  <2> HIDE DEF u
  <2>2. u[0] = h[0]
        BY <1>2, <2>1
  <2>3. \A k \in 1 .. j : u[k - 1] = h[k - 1] => u[k] = h[k]
    <3> TAKE k \in 1 .. j
    <3>1. u[k] = IF k < i THEN <<>> ELSE u[k - 1] \o s[k]
          BY <2>1
    <3>2. h[k] = IF k < i THEN <<>> ELSE h[k - 1] \o s[k]
          BY <1>3
    <3> QED
      BY <3>1, <3>2
  <2>4. j \in Nat /\ GoAlike(u, h, j)
        BY <2>2, <2>3 DEF GoAlike
  <2> QED
    BY <2>4, SameSteps
<1>8. Concat(s, i, j) = h[j]
  <2>1. j \in 0 .. j
        OBVIOUS
  <2> HIDE DEF u
  <2> QED
    BY <1>6, <1>7, <2>1
<1>9. h \in ConcatsTo(S, s, i, j)
  <2> HIDE DEF P, u, g
  <2> QED
    BY <1>2, <1>3, <1>8 DEF ConcatsTo
<1> QED
  BY <1>9

\* The same of sequences one after the other.
ManySeqs(S, n) == [1 .. n -> Seq(S)]

LEMMA ConcatSteps ==
  ASSUME NEW S, NEW n \in Nat, NEW s \in ManySeqs(S, n), NEW i \in Nat \ {0}, NEW j \in 0 .. n
  PROVE  /\ Concat(s, i, j) \in Seq(S)
         /\ j < i => Concat(s, i, j) = <<>>
<1> USE DEF ManySeqs
<1>1. PICK h \in [0 .. j -> Seq(S)] :
           /\ h[0] = <<>>
           /\ \A k \in 1 .. j : h[k] = IF k < i THEN <<>> ELSE h[k - 1] \o s[k]
           /\ Concat(s, i, j) = h[j]
  <2>1. ConcatsTo(S, s, i, j) # {}
        BY ConcatExists
  <2> QED
    BY <2>1 DEF ConcatsTo
<1>2. j < i => Concat(s, i, j) = <<>>
  <2>1. j = 0 \/ j \in 1 .. j
        OBVIOUS
  <2> QED
    BY <1>1, <2>1
<1>3. h[j] \in Seq(S)
      OBVIOUS
<1> QED
  BY <1>1, <1>2, <1>3

LEMMA ConcatLast ==
  ASSUME NEW S, NEW n \in Nat, NEW s \in ManySeqs(S, n), NEW i \in Nat \ {0},
         NEW j \in 0 .. n, i <= j
  PROVE  Concat(s, i, j) = Concat(s, i, j - 1) \o s[j]
<1> USE DEF ManySeqs
<1>1. PICK h \in [0 .. j -> Seq(S)] :
           /\ h[0] = <<>>
           /\ \A k \in 1 .. j : h[k] = IF k < i THEN <<>> ELSE h[k - 1] \o s[k]
           /\ Concat(s, i, j) = h[j]
  <2>1. ConcatsTo(S, s, i, j) # {}
        BY ConcatExists
  <2> QED
    BY <2>1 DEF ConcatsTo
<1>2. j - 1 \in 0 .. n /\ j - 1 \in Nat /\ j \in 1 .. j
      OBVIOUS
<1> DEFINE m == j - 1
<1> HIDE DEF m
<1>3. m \in 0 .. n /\ m \in Nat /\ m + 1 = j
      BY <1>2 DEF m
<1>4. PICK q \in [0 .. m -> Seq(S)] :
         /\ q[0] = <<>>
         /\ \A k \in 1 .. m : q[k] = IF k < i THEN <<>> ELSE q[k - 1] \o s[k]
         /\ Concat(s, i, m) = q[m]
  <2>1. ConcatsTo(S, s, i, m) # {}
        BY <1>3, ConcatExists
  <2> QED
    BY <2>1 DEF ConcatsTo
<1>5. \A k \in 1 .. m : q[k - 1] = h[k - 1] => q[k] = h[k]
  <2> TAKE k \in 1 .. m
  <2>1. k \in 1 .. j
        BY <1>3
  <2> QED
    BY <1>1, <1>4, <2>1
<1>6. \A k \in 0 .. m : q[k] = h[k]
  <2>1. q[0] = h[0]
        BY <1>1, <1>4
  <2>2. m \in Nat
        BY <1>3
  <2>3. GoAlike(q, h, m)
        BY <1>5, <2>1 DEF GoAlike
  <2> QED
    BY <2>2, <2>3, SameSteps, ZenonT(60)
<1>7. q[m] = h[m]
      BY <1>3, <1>6
<1>8. h[j] = h[m] \o s[j]
  <2>1. ~(j < i)
        OBVIOUS
  <2>2. h[j] = IF j < i THEN <<>> ELSE h[j - 1] \o s[j]
        BY <1>1, <1>2, Zenon
  <2> QED
    BY <2>1, <2>2, Zenon DEF m
<1>9. Concat(s, i, m) = h[m]
      BY <1>4, <1>7
<1> QED
  BY <1>1, <1>8, <1>9 DEF m

\* What a pass has written and dealt with at each position.
Passes(S, write, reach) ==
  {h \in [0 .. Len(write) -> [out : Seq(S), done : Nat]] :
     /\ h[0] = [out |-> <<>>, done |-> 0]
     /\ \A k \in 1 .. Len(write) :
          h[k] = IF k <= h[k - 1].done THEN h[k - 1]
                 ELSE [out |-> h[k - 1].out \o write[k], done |-> reach[k]]
     /\ Walk(write, reach) = h[Len(write)].out}

LEMMA WalkExists ==
  ASSUME NEW S, NEW write \in Seq(Seq(S)), NEW reach \in [1 .. Len(write) -> Nat]
  PROVE  Passes(S, write, reach) # {}
<1> DEFINE N == Len(write)
           V == [out : Seq(S), done : Nat]
           base == [out |-> <<>>, done |-> 0]
           P(h) == h = [k \in 0 .. N |->
                          IF k = 0 THEN base
                          ELSE LET before == h[k - 1]
                               IN IF k <= before.done THEN before
                                  ELSE [out |-> before.out \o write[k], done |-> reach[k]]]
           g == [x \in V \X (1 .. N) |->
                   IF x[2] <= x[1].done THEN x[1]
                   ELSE [out |-> x[1].out \o write[x[2]], done |-> reach[x[2]]]]
<1>1. N \in Nat /\ base \in V /\ \A k \in 1 .. N : write[k] \in Seq(S) /\ reach[k] \in Nat
      BY LenProperties, EmptySeq
<1>2. g \in [V \X (1 .. N) -> V]
  <2>1. \A v \in V, k \in 1 .. N : [out |-> v.out \o write[k], done |-> reach[k]] \in V
    <3> TAKE v \in V, k \in 1 .. N
    <3>1. v.out \in Seq(S) /\ write[k] \in Seq(S)
          BY <1>1
    <3>2. v.out \o write[k] \in Seq(S)
          BY <3>1, ConcatProperties
    <3> QED
      BY <1>1, <3>2
  <2> QED
    BY <2>1
<1> HIDE DEF N, V, base
<1>3. PICK h \in [0 .. N -> V] : h[0] = base /\ \A k \in 1 .. N : h[k] = g[<<h[k - 1], k>>]
  <2> HIDE DEF g
  <2>1. Recursive(V, N, base, g) # {}
        BY <1>1, <1>2, Recursion
  <2> QED
    BY <2>1 DEF Recursive
<1>4. \A k \in 1 .. N : k - 1 \in 0 .. N /\ h[k - 1] \in V
      BY <1>1
<1>5. \A k \in 1 .. N : h[k] = IF k <= h[k - 1].done THEN h[k - 1]
                               ELSE [out |-> h[k - 1].out \o write[k], done |-> reach[k]]
      BY <1>3, <1>4
<1>6. \A k \in 0 .. N : h[k] = IF k = 0 THEN base
                               ELSE LET before == h[k - 1]
                               IN IF k <= before.done THEN before
                                  ELSE [out |-> before.out \o write[k], done |-> reach[k]]
  <2>1. \A k \in 0 .. N : k = 0 \/ k \in 1 .. N
        BY <1>1
  <2> QED
    BY <1>3, <1>5, <2>1
<1>7. P(h)
      BY <1>6
<1> DEFINE u == CHOOSE x : P(x)
<1>8. P(u)
  <2> HIDE DEF P
  <2> QED
    BY <1>7
<1>9. Walk(write, reach) = u[N].out
      BY DEF Walk, N, base
<1>10. \A k \in 0 .. N : u[k] = h[k]
  <2>1. \A k \in 0 .. N : u[k] = IF k = 0 THEN base
                               ELSE LET before == u[k - 1]
                               IN IF k <= before.done THEN before
                                  ELSE [out |-> before.out \o write[k], done |-> reach[k]]
    <3> HIDE DEF u
    <3> QED
      BY <1>8
  <2> HIDE DEF u
  <2>2. u[0] = h[0]
        BY <1>1, <1>3, <2>1
  <2>3. \A k \in 1 .. N : u[k - 1] = h[k - 1] => u[k] = h[k]
    <3> TAKE k \in 1 .. N
    <3>1. k \in 0 .. N /\ k # 0
          BY <1>1
    <3>2. u[k] = IF k <= u[k - 1].done THEN u[k - 1]
                 ELSE [out |-> u[k - 1].out \o write[k], done |-> reach[k]]
          BY <2>1, <3>1
    <3> QED
      BY <1>5, <3>2
  <2>4. GoAlike(u, h, N)
        BY <2>2, <2>3 DEF GoAlike
  <2> QED
    BY <1>1, <2>4, SameSteps
<1>11. h \in Passes(S, write, reach)
  <2>1. Walk(write, reach) = h[N].out
    <3>1. N \in 0 .. N
          BY <1>1
    <3> HIDE DEF u
    <3> QED
      BY <1>9, <1>10, <3>1
  <2> HIDE DEF P, u, g
  <2> QED
    BY <1>3, <1>5, <2>1 DEF Passes, N, V, base
<1> QED
  BY <1>11

-----------------------------------------------------------------------------
(* Blocks *)

LEMMA BlockFields ==
  ASSUME NEW b \in Block
  PROVE  /\ b.kind \in TextKinds \cup {"table"}
         /\ b.level \in Nat /\ b.page \in Nat /\ b.size \in Nat /\ b.white \in BOOLEAN
         /\ b.facts \in Seq(Fact)
BY DEF Block, Text, Table

LEMMA TableFields ==
  ASSUME NEW b \in Block, b.kind = "table"
  PROVE  /\ b \in Table /\ b.size > 0 /\ b.heads \in 1 .. Len(b.rows)
         /\ b.rows \in Seq(Nat) /\ b.facts \in Seq(Fact) /\ Len(b.facts) = Len(b.rows)
         /\ b.origin \in Seq(Origin)
<1>1. b \notin Text
      BY DEF Text, TextKinds
<1>2. b \in Table /\ b.heads \in 1 .. Len(b.rows) /\ Len(b.facts) = Len(b.rows)
      BY <1>1 DEF Block
<1> QED
  BY <1>2 DEF Table

LEMMA TextFields ==
  ASSUME NEW b \in Block, b.kind # "table"
  PROVE  b \in Text
<1>1. b \notin Table
      BY DEF Table
<1> QED
  BY <1>1 DEF Block

WithRows(t, r, f, o) == [t EXCEPT !.rows = r, !.facts = f, !.origin = o]
WithText(t, n, f) == [t EXCEPT !.size = n, !.white = FALSE, !.facts = f]

LEMMA TableRewritten ==
  ASSUME NEW t \in Table, NEW r \in Seq(Nat), NEW f \in Seq(Fact), NEW o \in Seq(Origin)
  PROVE  LET u == WithRows(t, r, f, o)
         IN /\ u \in Table /\ u.rows = r /\ u.facts = f /\ u.origin = o
            /\ u.kind = t.kind /\ u.page = t.page /\ u.head = t.head /\ u.cols = t.cols
            /\ u.heads = t.heads /\ u.foot = t.foot /\ u.top = t.top
BY Zenon DEF Table, WithRows

LEMMA TextRewritten ==
  ASSUME NEW t \in Text, NEW n \in Nat, NEW f \in Seq(Fact)
  PROVE  LET u == WithText(t, n, f)
         IN u \in Text /\ u.facts = f /\ u.kind = t.kind
BY Zenon DEF Text, WithText

LEMMA WhiteRewritten ==
  ASSUME NEW b \in Block, NEW w \in BOOLEAN
  PROVE  LET u == [b EXCEPT !.white = w]
         IN /\ u \in Block /\ u.white = w /\ u.facts = b.facts /\ u.kind = b.kind
            /\ u.size = b.size /\ u.page = b.page /\ u.level = b.level
            /\ b.kind = "table" => u.origin = b.origin
<1> DEFINE u == [b EXCEPT !.white = w]
<1>1. CASE b.kind = "table"
  <2>1. b \in Table /\ b.heads \in 1 .. Len(b.rows) /\ Len(b.facts) = Len(b.rows)
        BY <1>1, TableFields
  <2>2. /\ u \in Table /\ u.white = w /\ u.facts = b.facts /\ u.kind = b.kind
        /\ u.size = b.size /\ u.page = b.page /\ u.level = b.level /\ u.heads = b.heads
        /\ u.rows = b.rows /\ u.origin = b.origin
        BY <2>1, Zenon DEF Table
  <2> HIDE DEF u
  <2>3. u \in Block
        BY <2>1, <2>2 DEF Block
  <2> QED
    BY <2>2, <2>3 DEF u
<1>2. CASE b.kind # "table"
  <2>1. b \in Text
        BY <1>2, TextFields
  <2>2. /\ u \in Text /\ u.white = w /\ u.facts = b.facts /\ u.kind = b.kind
        /\ u.size = b.size /\ u.page = b.page /\ u.level = b.level
        BY <2>1, Zenon DEF Text
  <2> HIDE DEF u
  <2>3. u \in Block
        BY <2>2 DEF Block
  <2> QED
    BY <1>2, <2>2, <2>3 DEF u
<1> QED
  BY <1>1, <1>2

\* A stitched table is a table again, with the facts of the two.
LEMMA StitchIs ==
  ASSUME NEW a \in Block, NEW b \in Block, a.kind = "table", b.kind = "table"
  PROVE  LET from == IF a.head = b.head THEN 2 ELSE 1
             s == Stitch(a, b)
         IN /\ s \in Block /\ s.kind = "table" /\ s.page = a.page /\ s.head = a.head
            /\ s.cols = a.cols /\ s.heads = a.heads /\ s.foot = a.foot /\ s.top = a.top
            /\ SubSeq(b.rows, from, Len(b.rows)) \in Seq(Nat)
            /\ SubSeq(b.facts, from, Len(b.facts)) \in Seq(Fact)
            /\ s.rows = a.rows \o SubSeq(b.rows, from, Len(b.rows))
            /\ s.facts = a.facts \o SubSeq(b.facts, from, Len(b.facts))
            /\ Len(s.rows) = Len(a.rows) + (IF a.head = b.head THEN Len(b.rows) - 1
                                                               ELSE Len(b.rows))
            /\ s.origin = <<[page |-> a.page, first |-> 1, last |-> Len(a.rows)],
                            [page |-> b.page, first |-> Len(a.rows) + 1,
                             last |-> Len(s.rows)]>>
<1> DEFINE from == IF a.head = b.head THEN 2 ELSE 1
           r == SubSeq(b.rows, from, Len(b.rows))
           f == SubSeq(b.facts, from, Len(b.facts))
           rows == a.rows \o r
           o == <<[page |-> a.page, first |-> 1, last |-> Len(a.rows)],
                  [page |-> b.page, first |-> Len(a.rows) + 1, last |-> Len(rows)]>>
           fs == a.facts \o f
           s == WithRows(a, rows, fs, o)
<1>1. /\ a \in Table /\ a.rows \in Seq(Nat) /\ a.facts \in Seq(Fact)
      /\ a.heads \in 1 .. Len(a.rows) /\ Len(a.facts) = Len(a.rows) /\ Len(a.rows) \in Nat
      /\ a.page \in Nat
      BY TableFields, BlockFields
<1>2. /\ b \in Table /\ b.rows \in Seq(Nat) /\ b.facts \in Seq(Fact)
      /\ b.heads \in 1 .. Len(b.rows) /\ Len(b.facts) = Len(b.rows) /\ Len(b.rows) \in Nat
      /\ b.page \in Nat /\ Len(b.rows) >= 1
      BY TableFields, BlockFields
<1>3. /\ from \in 1 .. 2 /\ from \in Int /\ Len(b.rows) \in Int
      /\ \A i \in from .. Len(b.rows) : b.rows[i] \in Nat /\ b.facts[i] \in Fact
  <2>1. from \in 1 .. 2
        OBVIOUS
  <2> HIDE DEF from
  <2> QED
    BY <1>2, <2>1, ElementOfSeq
<1>4. r \in Seq(Nat) /\ f \in Seq(Fact) /\ Len(r) = Len(f)
      /\ Len(r) = IF a.head = b.head THEN Len(b.rows) - 1 ELSE Len(b.rows)
  <2>1. from = IF a.head = b.head THEN 2 ELSE 1
        OBVIOUS
  <2> HIDE DEF from
  <2>2. r \in Seq(Nat) /\ Len(r) = IF from <= Len(b.rows) THEN Len(b.rows) - from + 1 ELSE 0
        BY <1>3, SubSeqProperties
  <2>3. f \in Seq(Fact) /\ Len(f) = IF from <= Len(b.rows) THEN Len(b.rows) - from + 1 ELSE 0
        BY <1>2, <1>3, SubSeqProperties
  <2> HIDE DEF r, f
  <2>4. Len(b.rows) \in Nat /\ Len(b.rows) >= 1
        BY <1>2
  <2>5. Len(r) = Len(f)
        BY <2>2, <2>3
  <2>6. CASE a.head = b.head
    <3>1. from = 2
          BY <2>1, <2>6
    <3>2. Len(r) = Len(b.rows) - 1
          BY <2>2, <2>4, <3>1
    <3> QED
      BY <2>2, <2>3, <2>5, <2>6, <3>2
  <2>7. CASE a.head # b.head
    <3>1. from = 1
          BY <2>1, <2>7
    <3>2. Len(r) = Len(b.rows)
          BY <2>2, <2>4, <3>1
    <3> QED
      BY <2>2, <2>3, <2>5, <2>7, <3>2
  <2> QED
    BY <2>6, <2>7
<1> HIDE DEF from, r, f
<1>5. /\ rows \in Seq(Nat) /\ Len(rows) = Len(a.rows) + Len(r)
      /\ fs \in Seq(Fact) /\ Len(fs) = Len(a.facts) + Len(f)
      BY <1>1, <1>4, ConcatProperties
<1>6. o \in Seq(Origin)
  <2>1. Len(rows) \in Nat /\ Len(a.rows) + 1 \in Nat
        BY <1>1, <1>5, LenProperties
  <2> HIDE DEF rows
  <2>2. /\ [page |-> a.page, first |-> 1, last |-> Len(a.rows)] \in Origin
        /\ [page |-> b.page, first |-> Len(a.rows) + 1, last |-> Len(rows)] \in Origin
        BY <1>1, <1>2, <2>1 DEF Origin
  <2> QED
    BY <2>2
<1>7. Stitch(a, b) = s
      BY DEF Stitch, WithRows, from, r, f
<1> HIDE DEF rows, o, fs
<1>8. /\ s \in Table /\ s.rows = rows /\ s.facts = fs /\ s.origin = o
      /\ s.kind = a.kind /\ s.page = a.page /\ s.head = a.head /\ s.cols = a.cols
      /\ s.heads = a.heads /\ s.foot = a.foot /\ s.top = a.top
      BY <1>1, <1>5, <1>6, TableRewritten, SMTT(20)
<1> HIDE DEF s
<1>9. s \in Block
  <2>1. Len(r) \in Nat
        BY <1>2, <1>4
  <2>2. Len(s.rows) = Len(a.rows) + Len(r) /\ Len(s.facts) = Len(s.rows)
        BY <1>1, <1>4, <1>5, <1>8
  <2>3. a.heads \in 1 .. (Len(a.rows) + Len(r))
        BY <1>1, <2>1
  <2>4. s.heads \in 1 .. Len(s.rows)
        BY <1>8, <2>2, <2>3
  <2> QED
    BY <1>8, <2>2, <2>4 DEF Block
<1> QED
  BY <1>4, <1>5, <1>7, <1>8, <1>9 DEF from, r, f, rows, o, fs

-----------------------------------------------------------------------------
(* Stitching *)

LEMMA NextTableIs ==
  ASSUME NEW bs \in Seq(Block), NEW i \in 1 .. Len(bs)
  PROVE  LET j == NextTable(bs, i)
         IN /\ j = 0 \/ (j \in i + 1 .. Len(bs) /\ bs[j].kind = "table")
            /\ \A k \in i + 1 .. Len(bs) : bs[k].kind = "table" => j # 0 /\ j <= k
<1> DEFINE after == {j \in (i + 1) .. Len(bs) : bs[j].kind = "table"}
<1>1. after \in SUBSET Nat /\ Len(bs) \in Nat
      BY LenProperties
<1>2. NextTable(bs, i) = IF after = {} THEN 0 ELSE Min(after)
      BY DEF NextTable
<1>3. after # {} => Min(after) \in after /\ \A y \in after : Min(after) <= y
  <2> HIDE DEF after
  <2> QED
    BY <1>1, MinIs
<1>4. \A k \in i + 1 .. Len(bs) : bs[k].kind = "table" => k \in after
      OBVIOUS
<1>5. \A k \in after : k \in i + 1 .. Len(bs) /\ bs[k].kind = "table" /\ k # 0
      BY <1>1
<1> HIDE DEF after
<1> QED
  BY <1>2, <1>3, <1>4, <1>5

\* What a round does with the block i: the table that i joins, or 0.
Partner(bs, i) ==
  LET j == IF bs[i].kind = "table" THEN NextTable(bs, i) ELSE 0
  IN IF j # 0 /\ Continues(bs[i], bs[j]) THEN j ELSE 0

LEMMA PartnerIs ==
  ASSUME NEW bs \in Seq(Block), NEW i \in 1 .. Len(bs)
  PROVE  LET j == Partner(bs, i)
         IN /\ j \in Nat
            /\ j # 0 => /\ j \in i + 1 .. Len(bs) /\ bs[i].kind = "table" /\ bs[j].kind = "table"
                        /\ Continues(bs[i], bs[j])
                        /\ \A k \in i + 1 .. j - 1 : bs[k].kind # "table"
<1> DEFINE j == NextTable(bs, i)
<1>1. /\ j = 0 \/ (j \in i + 1 .. Len(bs) /\ bs[j].kind = "table")
      /\ \A k \in i + 1 .. Len(bs) : bs[k].kind = "table" => j # 0 /\ j <= k
      BY NextTableIs
<1>2. Len(bs) \in Nat
      BY LenProperties
<1>3. Partner(bs, i) = IF bs[i].kind = "table" /\ j # 0 /\ Continues(bs[i], bs[j]) THEN j ELSE 0
      BY DEF Partner
<1> HIDE DEF j
<1>4. j \in Nat
      BY <1>1, <1>2
<1>5. ASSUME j # 0 PROVE \A k \in i + 1 .. j - 1 : bs[k].kind # "table"
  <2> TAKE k \in i + 1 .. j - 1
  <2>1. k \in i + 1 .. Len(bs) /\ ~(j <= k)
        BY <1>1, <1>2, <1>5
  <2> QED
    BY <1>1, <2>1
<1> QED
  BY <1>1, <1>3, <1>4, <1>5

Joins(bs, i) == IF Partner(bs, i) # 0 THEN Stitch(bs[i], bs[Partner(bs, i)]) ELSE bs[i]

LEMMA JoinsType ==
  ASSUME NEW bs \in Seq(Block), NEW i \in 1 .. Len(bs)
  PROVE  Joins(bs, i) \in Block
<1>1. CASE Partner(bs, i) = 0
      BY <1>1, ElementOfSeq DEF Joins
<1>2. CASE Partner(bs, i) # 0
  <2> DEFINE j == Partner(bs, i)
  <2> HIDE DEF j
  <2>1. j \in i + 1 .. Len(bs) /\ bs[i].kind = "table" /\ bs[j].kind = "table"
        BY <1>2, PartnerIs DEF j
  <2>2. j \in 1 .. Len(bs)
        BY <2>1
  <2>3. bs[i] \in Block /\ bs[j] \in Block
        BY <2>2, ElementOfSeq
  <2>4. Stitch(bs[i], bs[j]) \in Block
        BY <2>1, <2>3, StitchIs
  <2> QED
    BY <1>2, <2>4 DEF Joins, j
<1> QED
  BY <1>1, <1>2

\* What a round has written at each position, and the table it has taken in last.
Rounds(bs) ==
  {h \in [0 .. Len(bs) -> [out : Seq(Block), absorbed : Nat]] :
     /\ h[0] = [out |-> <<>>, absorbed |-> 0]
     /\ \A i \in 1 .. Len(bs) :
          h[i] = IF i = h[i - 1].absorbed THEN h[i - 1]
                 ELSE [out |-> Append(h[i - 1].out, Joins(bs, i)),
                       absorbed |-> IF Partner(bs, i) # 0 THEN Partner(bs, i)
                                    ELSE h[i - 1].absorbed]
     /\ StitchRound(bs) = h[Len(bs)].out}

LEMMA OutRewritten ==
  ASSUME NEW X, NEW Y, NEW v \in [out : X, absorbed : Y], NEW w
  PROVE  [v EXCEPT !.out = w] = [out |-> w, absorbed |-> v.absorbed]
OBVIOUS

LEMMA RoundExists ==
  ASSUME NEW bs \in Seq(Block)
  PROVE  Rounds(bs) # {}
<1> DEFINE N == Len(bs)
           V == [out : Seq(Block), absorbed : Nat]
           base == [out |-> <<>>, absorbed |-> 0]
           J(i) == IF bs[i].kind = "table" THEN NextTable(bs, i) ELSE 0
           Body(before, i, j) ==
             IF i = before.absorbed THEN before
             ELSE IF j # 0 /\ Continues(bs[i], bs[j])
                  THEN [out |-> Append(before.out, Stitch(bs[i], bs[j])), absorbed |-> j]
                  ELSE [before EXCEPT !.out = Append(@, bs[i])]
           Step(v, i) ==
             IF i = v.absorbed THEN v
             ELSE [out |-> Append(v.out, Joins(bs, i)),
                   absorbed |-> IF Partner(bs, i) # 0 THEN Partner(bs, i) ELSE v.absorbed]
           P(h) == h = [i \in 0 .. N |-> IF i = 0 THEN base ELSE Body(h[i - 1], i, J(i))]
           g == [x \in V \X (1 .. N) |-> Step(x[1], x[2])]
<1>1. N \in Nat /\ base \in V
      BY LenProperties, EmptySeq
<1>2. ASSUME NEW v \in V, NEW i \in 1 .. N
      PROVE  Step(v, i) \in V /\ Body(v, i, J(i)) = Step(v, i)
  <2>1. v.out \in Seq(Block) /\ v.absorbed \in Nat /\ Joins(bs, i) \in Block
        /\ Partner(bs, i) \in Nat
        BY JoinsType, PartnerIs
  <2>2. Append(v.out, Joins(bs, i)) \in Seq(Block)
        BY <2>1, AppendProperties
  <2>3. Step(v, i) \in V
        BY <2>1, <2>2
  <2>4. Partner(bs, i) = IF J(i) # 0 /\ Continues(bs[i], bs[J(i)]) THEN J(i) ELSE 0
        BY DEF Partner
  <2> DEFINE j == J(i)
             out == Append(v.out, bs[i])
  <2>5. [v EXCEPT !.out = Append(@, bs[i])] = [out |-> out, absorbed |-> v.absorbed]
    <3>1. [v EXCEPT !.out = Append(@, bs[i])] = [v EXCEPT !.out = out]
          OBVIOUS
    <3> HIDE DEF out
    <3> QED
      BY <3>1, OutRewritten
  <2> HIDE DEF j
  <2>6. Body(v, i, j) = Step(v, i)
    <3>1. CASE j # 0 /\ Continues(bs[i], bs[j])
      <4>1. Partner(bs, i) = j /\ Joins(bs, i) = Stitch(bs[i], bs[j]) /\ Partner(bs, i) # 0
            BY <2>4, <3>1 DEF j, Joins
      <4> QED
        BY <3>1, <4>1
    <3>2. CASE ~(j # 0 /\ Continues(bs[i], bs[j]))
      <4>1. Partner(bs, i) = 0 /\ Joins(bs, i) = bs[i]
            BY <2>4, <3>2 DEF j, Joins
      <4> QED
        BY <2>5, <3>2, <4>1
    <3> QED
      BY <3>1, <3>2
  <2> QED
    BY <2>3, <2>6 DEF j
<1>3. g \in [V \X (1 .. N) -> V]
  <2> HIDE DEF V, Step, Body
  <2> QED
    BY <1>2
<1> HIDE DEF N, V, base
<1>4. PICK h \in [0 .. N -> V] : h[0] = base /\ \A i \in 1 .. N : h[i] = g[<<h[i - 1], i>>]
  <2> HIDE DEF g
  <2>1. Recursive(V, N, base, g) # {}
        BY <1>1, <1>3, Recursion
  <2> QED
    BY <2>1 DEF Recursive
<1>5. \A i \in 1 .. N : i - 1 \in 0 .. N /\ h[i - 1] \in V
      BY <1>1
<1>6. \A i \in 1 .. N : h[i] = Step(h[i - 1], i)
  <2> HIDE DEF Step
  <2> QED
    BY <1>4, <1>5
<1>7. \A i \in 0 .. N : h[i] = IF i = 0 THEN base ELSE Body(h[i - 1], i, J(i))
  <2> HIDE DEF Step, Body, J
  <2>1. \A i \in 0 .. N : i = 0 \/ i \in 1 .. N
        BY <1>1
  <2> QED
    BY <1>2, <1>4, <1>5, <1>6, <2>1
<1>8. P(h)
  <2> HIDE DEF Body, J
  <2> QED
    BY <1>7
<1> DEFINE u == CHOOSE x : P(x)
<1>9. P(u)
  <2> HIDE DEF P
  <2> QED
    BY <1>8
<1>10. StitchRound(bs) = u[N].out
       BY DEF StitchRound, N, base
<1>11. \A i \in 0 .. N : u[i] = h[i]
  <2> HIDE DEF Body, J, Step
  <2>1. \A i \in 0 .. N : u[i] = IF i = 0 THEN base ELSE Body(u[i - 1], i, J(i))
    <3> HIDE DEF u
    <3> QED
      BY <1>9
  <2> HIDE DEF u
  <2>2. u[0] = h[0]
        BY <1>1, <1>4, <2>1
  <2>3. \A i \in 1 .. N : u[i - 1] = h[i - 1] => u[i] = h[i]
    <3> TAKE i \in 1 .. N
    <3>1. i \in 0 .. N /\ i # 0
          BY <1>1
    <3>2. u[i] = Body(u[i - 1], i, J(i)) /\ h[i] = Body(h[i - 1], i, J(i))
          BY <1>7, <2>1, <3>1
    <3> QED
      BY <3>2
  <2>4. GoAlike(u, h, N)
        BY <2>2, <2>3 DEF GoAlike
  <2> QED
    BY <1>1, <2>4, SameSteps
<1>12. h \in Rounds(bs)
  <2>1. StitchRound(bs) = h[N].out
    <3>1. N \in 0 .. N
          BY <1>1
    <3> HIDE DEF u
    <3> QED
      BY <1>10, <1>11, <3>1
  <2> HIDE DEF P, u, g
  <2> QED
    BY <1>4, <1>6, <2>1 DEF Rounds, N, V, base
<1> QED
  BY <1>12

LEMMA StitchRoundType ==
  ASSUME NEW bs \in Seq(Block)
  PROVE  StitchRound(bs) \in Seq(Block)
<1>1. PICK h \in [0 .. Len(bs) -> [out : Seq(Block), absorbed : Nat]] :
        StitchRound(bs) = h[Len(bs)].out
  <2>1. Rounds(bs) # {}
        BY RoundExists
  <2> QED
    BY <2>1 DEF Rounds
<1>2. Len(bs) \in 0 .. Len(bs)
      BY LenProperties
<1> QED
  BY <1>1, <1>2

\* The rounds of stitching, one after the other.
RoundsOf(bs) ==
  {h \in [0 .. Len(bs) -> Seq(Block)] :
     /\ h[0] = bs
     /\ \A n \in 1 .. Len(bs) : h[n] = StitchRound(h[n - 1])
     /\ Stitched(bs) = h[Len(bs)]}

LEMMA RoundsExist ==
  ASSUME NEW bs \in Seq(Block)
  PROVE  RoundsOf(bs) # {}
<1> DEFINE N == Len(bs)
           V == Seq(Block)
           P(h) == h = [n \in 0 .. N |-> IF n = 0 THEN bs ELSE StitchRound(h[n - 1])]
           g == [x \in V \X (1 .. N) |-> StitchRound(x[1])]
<1>1. N \in Nat
      BY LenProperties
<1>2. g \in [V \X (1 .. N) -> V]
  <2>1. \A v \in V : StitchRound(v) \in V
        BY StitchRoundType
  <2> QED
    BY <2>1
<1> HIDE DEF N
<1>3. PICK h \in [0 .. N -> V] : h[0] = bs /\ \A n \in 1 .. N : h[n] = g[<<h[n - 1], n>>]
  <2> HIDE DEF g
  <2>1. Recursive(V, N, bs, g) # {}
        BY <1>1, <1>2, Recursion
  <2> QED
    BY <2>1 DEF Recursive
<1>4. \A n \in 1 .. N : n - 1 \in 0 .. N /\ h[n - 1] \in V
      BY <1>1
<1> HIDE DEF V
<1>5. \A n \in 1 .. N : h[n] = StitchRound(h[n - 1])
      BY <1>3, <1>4
<1>6. \A n \in 0 .. N : h[n] = IF n = 0 THEN bs ELSE StitchRound(h[n - 1])
  <2>1. \A n \in 0 .. N : n = 0 \/ n \in 1 .. N
        BY <1>1
  <2> QED
    BY <1>3, <1>5, <2>1
<1>7. P(h)
      BY <1>6
<1> DEFINE u == CHOOSE x : P(x)
<1>8. P(u)
  <2> HIDE DEF P
  <2> QED
    BY <1>7
<1>9. Stitched(bs) = u[N]
      BY DEF Stitched, N
<1>10. \A n \in 0 .. N : u[n] = h[n]
  <2>1. \A n \in 0 .. N : u[n] = IF n = 0 THEN bs ELSE StitchRound(u[n - 1])
    <3> HIDE DEF u
    <3> QED
      BY <1>8
  <2> HIDE DEF u
  <2>2. u[0] = h[0]
        BY <1>1, <1>3, <2>1
  <2>3. \A n \in 1 .. N : u[n - 1] = h[n - 1] => u[n] = h[n]
        BY <1>1, <1>5, <2>1
  <2>4. GoAlike(u, h, N)
        BY <2>2, <2>3 DEF GoAlike
  <2> QED
    BY <1>1, <2>4, SameSteps
<1>11. h \in RoundsOf(bs)
  <2>1. Stitched(bs) = h[N]
    <3>1. N \in 0 .. N
          BY <1>1
    <3> HIDE DEF u
    <3> QED
      BY <1>9, <1>10, <3>1
  <2> HIDE DEF P, u, g
  <2> QED
    BY <1>3, <1>5, <2>1 DEF RoundsOf, N, V
<1> QED
  BY <1>11

LEMMA StitchedType ==
  ASSUME NEW bs \in Seq(Block)
  PROVE  Stitched(bs) \in Seq(Block)
<1>1. PICK h \in [0 .. Len(bs) -> Seq(Block)] : Stitched(bs) = h[Len(bs)]
  <2>1. RoundsOf(bs) # {}
        BY RoundsExist
  <2> QED
    BY <2>1 DEF RoundsOf
<1>2. Len(bs) \in 0 .. Len(bs)
      BY LenProperties
<1> QED
  BY <1>1, <1>2

-----------------------------------------------------------------------------
(* Cleaning and optimizing *)

LEMMA WalkType ==
  ASSUME NEW S, NEW write \in Seq(Seq(S)), NEW reach \in [1 .. Len(write) -> Nat]
  PROVE  Walk(write, reach) \in Seq(S)
<1>1. PICK h \in [0 .. Len(write) -> [out : Seq(S), done : Nat]] :
        Walk(write, reach) = h[Len(write)].out
  <2>1. Passes(S, write, reach) # {}
        BY WalkExists
  <2> QED
    BY <2>1 DEF Passes
<1>2. Len(write) \in 0 .. Len(write)
      BY LenProperties
<1> QED
  BY <1>1, <1>2

LEMMA NormalisedIs ==
  ASSUME NEW b \in Block
  PROVE  /\ Normalised(b) \in Block /\ Normalised(b).kind = b.kind
         /\ Normalised(b).facts = b.facts /\ Normalised(b).size = b.size
         /\ Normalised(b).page = b.page
         /\ b.kind = "table" => Normalised(b).origin = b.origin
<1>1. CASE b.kind \in Verbatim
      BY <1>1 DEF Normalised
<1>2. CASE b.kind \notin Verbatim
  <2>1. Normalised(b) = [b EXCEPT !.white = FALSE]
        BY <1>2 DEF Normalised
  <2> QED
    BY <2>1, WhiteRewritten, ZenonT(60)
<1> QED
  BY <1>1, <1>2

\* What the cleaner writes for each block, and where it then is.
CleanWrites(bs) == [i \in DOMAIN bs |-> IF Kept(bs[i]) THEN <<Normalised(bs[i])>> ELSE <<>>]
Positions(bs) == [i \in DOMAIN bs |-> i]

LEMMA CleanedIs ==
  ASSUME NEW bs \in Seq(Block)
  PROVE  /\ CleanWrites(bs) \in Seq(Seq(Block)) /\ Len(CleanWrites(bs)) = Len(bs)
         /\ Positions(bs) \in [1 .. Len(bs) -> Nat]
         /\ Cleaned(bs) = Walk(CleanWrites(bs), Positions(bs))
<1>1. DOMAIN bs = 1 .. Len(bs) /\ Len(bs) \in Nat
      BY LenProperties
<1>2. ASSUME NEW i \in 1 .. Len(bs)
      PROVE  (IF Kept(bs[i]) THEN <<Normalised(bs[i])>> ELSE <<>>) \in Seq(Block)
  <2>1. Normalised(bs[i]) \in Block
        BY ElementOfSeq, NormalisedIs
  <2>2. <<Normalised(bs[i])>> \in Seq(Block) /\ <<>> \in Seq(Block)
        BY <2>1
  <2> QED
    BY <2>2
<1>3. CleanWrites(bs) \in Seq(Seq(Block)) /\ Len(CleanWrites(bs)) = Len(bs)
      BY <1>1, <1>2 DEF CleanWrites
<1>4. Positions(bs) \in [1 .. Len(bs) -> Nat]
      BY <1>1 DEF Positions
<1>5. Cleaned(bs) = Walk(CleanWrites(bs), Positions(bs))
      BY DEF Cleaned, CleanWrites, Positions
<1> QED
  BY <1>3, <1>4, <1>5

LEMMA CleanedType ==
  ASSUME NEW bs \in Seq(Block)
  PROVE  Cleaned(bs) \in Seq(Block)
<1>1. /\ CleanWrites(bs) \in Seq(Seq(Block)) /\ Len(CleanWrites(bs)) = Len(bs)
      /\ Positions(bs) \in [1 .. Len(bs) -> Nat]
      /\ Cleaned(bs) = Walk(CleanWrites(bs), Positions(bs))
      BY CleanedIs
<1> DEFINE write == CleanWrites(bs)
           reach == Positions(bs)
<1>2. write \in Seq(Seq(Block)) /\ reach \in [1 .. Len(write) -> Nat]
      BY <1>1
<1> HIDE DEF write, reach
<1>3. Walk(write, reach) \in Seq(Block)
      BY <1>2, WalkType
<1> QED
  BY <1>1, <1>3 DEF write, reach

LEMMA TotalType ==
  ASSUME NEW bs \in Seq(Block), NEW i \in Nat \ {0}, NEW j \in 0 .. Len(bs)
  PROVE  Total(bs, i, j) \in Nat
<1> DEFINE f == [k \in DOMAIN bs |-> bs[k].size]
<1>1. Len(bs) \in Nat /\ f \in [1 .. Len(bs) -> Nat]
  <2>1. \A k \in 1 .. Len(bs) : bs[k].size \in Nat
        BY ElementOfSeq, BlockFields
  <2> QED
    BY <2>1, LenProperties
<1> HIDE DEF f
<1>2. Sum(f, i, j) \in Nat
      BY <1>1, SumSteps
<1> QED
  BY <1>2 DEF Total, f

LEMMA FactsSteps ==
  ASSUME NEW bs \in Seq(Block), NEW i \in Nat \ {0}, NEW j \in 0 .. Len(bs)
  PROVE  /\ FactsOf(bs, i, j) \in Seq(Fact)
         /\ j < i => FactsOf(bs, i, j) = <<>>
         /\ i <= j => FactsOf(bs, i, j) = FactsOf(bs, i, j - 1) \o bs[j].facts
<1> DEFINE f == [k \in DOMAIN bs |-> bs[k].facts]
<1>1. Len(bs) \in Nat /\ f \in [1 .. Len(bs) -> Seq(Fact)]
  <2>1. \A k \in 1 .. Len(bs) : bs[k].facts \in Seq(Fact)
        BY ElementOfSeq, BlockFields
  <2> QED
    BY <2>1, LenProperties
<1>2. i <= j => f[j] = bs[j].facts
      BY LenProperties
<1> HIDE DEF f
<1>3. /\ Concat(f, i, j) \in Seq(Fact)
      /\ j < i => Concat(f, i, j) = <<>>
      /\ i <= j => Concat(f, i, j) = Concat(f, i, j - 1) \o f[j]
  <2>1. Len(bs) \in Nat
        BY <1>1
  <2>2. f \in ManySeqs(Fact, Len(bs))
        BY <1>1 DEF ManySeqs
  <2>3. Concat(f, i, j) \in Seq(Fact)
        BY <2>1, <2>2, ConcatSteps
  <2>4. j < i => Concat(f, i, j) = <<>>
        BY <2>1, <2>2, ConcatSteps
  <2>5. i <= j => Concat(f, i, j) = Concat(f, i, j - 1) \o f[j]
        BY <2>1, <2>2, ConcatLast
  <2> QED
    BY <2>3, <2>4, <2>5
<1>4. FactsOf(bs, i, j) = Concat(f, i, j) /\ FactsOf(bs, i, j - 1) = Concat(f, i, j - 1)
      BY DEF FactsOf, f
<1> QED
  BY <1>2, <1>3, <1>4

TokensIn(bs, i, j) == Sum([k \in DOMAIN bs |-> TokensOf(bs[k])], i, j)

LEMMA TokensSteps ==
  ASSUME NEW bs \in Seq(Block), NEW i \in Nat \ {0}, NEW j \in 0 .. Len(bs)
  PROVE  /\ TokensIn(bs, i, j) \in Nat
         /\ j < i => TokensIn(bs, i, j) = 0
         /\ i <= j => TokensIn(bs, i, j) = TokensIn(bs, i, j - 1) + TokensOf(bs[j])
<1> DEFINE f == [k \in DOMAIN bs |-> TokensOf(bs[k])]
<1>1. Len(bs) \in Nat /\ f \in [1 .. Len(bs) -> Nat]
  <2>1. \A k \in 1 .. Len(bs) : TokensOf(bs[k]) \in Nat
        BY ElementOfSeq, BlockFields DEF TokensOf, Marked
  <2> QED
    BY <2>1, LenProperties
<1>2. i <= j => f[j] = TokensOf(bs[j])
      BY LenProperties
<1> HIDE DEF f
<1>3. /\ Sum(f, i, j) \in Nat
      /\ j < i => Sum(f, i, j) = 0
      /\ i <= j => Sum(f, i, j) = Sum(f, i, j - 1) + f[j]
      BY <1>1, SumSteps
<1>4. TokensIn(bs, i, j) = Sum(f, i, j) /\ TokensIn(bs, i, j - 1) = Sum(f, i, j - 1)
      BY DEF TokensIn, f
<1> QED
  BY <1>2, <1>3, <1>4

\* What a pass joins are texts that follow one another.
Ends(bs) ==
  {last \in [1 .. Len(bs) -> Nat] :
     \A i \in 1 .. Len(bs) :
       /\ last[i] \in i .. Len(bs)
       /\ last[i] # i => \A k \in i .. last[i] : bs[k].kind # "table"}

JoinedAt(bs, last, i) == IF last[i] = i THEN bs[i] ELSE Join(bs, i, last[i])

LEMMA JoinedAtIs ==
  ASSUME NEW bs \in Seq(Block), NEW last \in Ends(bs), NEW i \in 1 .. Len(bs)
  PROVE  /\ JoinedAt(bs, last, i) \in Block
         /\ JoinedAt(bs, last, i).kind = bs[i].kind
         /\ JoinedAt(bs, last, i).facts = FactsOf(bs, i, last[i])
<1>1. /\ last[i] \in i .. Len(bs) /\ last[i] \in 0 .. Len(bs) /\ i \in Nat \ {0}
      /\ Len(bs) \in Nat /\ i \in 0 .. Len(bs)
      BY LenProperties DEF Ends
<1>2. bs[i] \in Block
      BY ElementOfSeq
<1>3. CASE last[i] = i
  <2>1. FactsOf(bs, i, i) = FactsOf(bs, i, i - 1) \o bs[i].facts
    <3>1. i \in Nat \ {0} /\ i \in 0 .. Len(bs) /\ i <= i
          BY <1>1
    <3> QED
      BY <3>1, FactsSteps
  <2>2. FactsOf(bs, i, i - 1) = <<>>
    <3>1. i - 1 \in 0 .. Len(bs) /\ i - 1 < i
          BY <1>1
    <3> QED
      BY <1>1, <3>1, FactsSteps
  <2>3. FactsOf(bs, i, i) = bs[i].facts
        BY <1>2, <2>1, <2>2, BlockFields, ConcatEmptySeq
  <2> QED
    BY <1>2, <1>3, <2>3 DEF JoinedAt
<1>4. CASE last[i] # i
  <2>1. bs[i].kind # "table"
        BY <1>1, <1>4 DEF Ends
  <2>2. bs[i] \in Text
        BY <1>2, <2>1, TextFields
  <2> DEFINE n == Total(bs, i, last[i])
             f == FactsOf(bs, i, last[i])
  <2>3. n \in Nat /\ f \in Seq(Fact)
        BY <1>1, TotalType, FactsSteps
  <2>4. JoinedAt(bs, last, i) = WithText(bs[i], n, f)
        BY <1>4 DEF JoinedAt, Join, WithText
  <2> HIDE DEF n, f
  <2>5. /\ WithText(bs[i], n, f) \in Text /\ WithText(bs[i], n, f).facts = f
        /\ WithText(bs[i], n, f).kind = bs[i].kind
    <3>1. n \in Nat
          BY <2>3
    <3>2. f \in Seq(Fact)
          BY <2>3
    <3> QED
      BY <2>2, <3>1, <3>2, TextRewritten
  <2>6. Text \subseteq Block
        BY DEF Block
  <2> QED
    BY <2>4, <2>5, <2>6 DEF f
<1> QED
  BY <1>3, <1>4

JoinedWrites(bs, last) == [i \in DOMAIN bs |-> <<JoinedAt(bs, last, i)>>]

LEMMA JoinedIs ==
  ASSUME NEW bs \in Seq(Block), NEW last \in Ends(bs)
  PROVE  /\ JoinedWrites(bs, last) \in Seq(Seq(Block))
         /\ Len(JoinedWrites(bs, last)) = Len(bs)
         /\ Joined(bs, last) = Walk(JoinedWrites(bs, last), last)
         /\ Joined(bs, last) \in Seq(Block)
<1> DEFINE write == JoinedWrites(bs, last)
<1>1. DOMAIN bs = 1 .. Len(bs) /\ Len(bs) \in Nat
      BY LenProperties
<1>2. \A i \in 1 .. Len(bs) : <<JoinedAt(bs, last, i)>> \in Seq(Block)
  <2> TAKE i \in 1 .. Len(bs)
  <2>1. JoinedAt(bs, last, i) \in Block
        BY JoinedAtIs
  <2> QED
    BY <2>1
<1>3. write \in Seq(Seq(Block)) /\ Len(write) = Len(bs)
      BY <1>1, <1>2 DEF JoinedWrites
<1>4. last \in [1 .. Len(write) -> Nat]
      BY <1>3 DEF Ends
<1>5. Joined(bs, last) = Walk(write, last)
      BY DEF Joined, JoinedWrites, JoinedAt
<1> HIDE DEF write
<1>6. Walk(write, last) \in Seq(Block)
      BY <1>3, <1>4, WalkType
<1> QED
  BY <1>3, <1>5, <1>6 DEF write

LEMMA ChainEndIs ==
  ASSUME NEW bs \in Seq(Block), NEW i \in 1 .. Len(bs), bs[i].kind = "heading"
  PROVE  /\ ChainEnd(bs, i) \in i .. Len(bs)
         /\ \A k \in i .. ChainEnd(bs, i) : bs[k].kind = "heading"
<1> DEFINE C == {j \in i .. Len(bs) : \A k \in i .. j :
                   bs[k].kind = "heading" /\ bs[k].level = bs[i].level /\ bs[k].page = bs[i].page}
<1>1. Len(bs) \in Nat
      BY LenProperties
<1>2. C \in SUBSET Nat /\ \A x \in C : x <= Len(bs)
      BY <1>1
<1>3. i \in C
  <2>1. \A k \in i .. i : k = i
        OBVIOUS
  <2> QED
    BY <1>1, <2>1
<1>4. Max(C) \in C
  <2> HIDE DEF C
  <2> QED
    BY <1>1, <1>2, <1>3, MaxIs
<1> QED
  BY <1>4 DEF ChainEnd

TitleEnds(bs) ==
  [i \in DOMAIN bs |->
    IF bs[i].kind = "heading" /\ SplitTitle(bs, i, ChainEnd(bs, i)) THEN ChainEnd(bs, i) ELSE i]
FragmentEnds(bs) == [i \in DOMAIN bs |-> IF Fragment(bs, i) THEN i + 1 ELSE i]

LEMMA EndsAre ==
  ASSUME NEW bs \in Seq(Block)
  PROVE  TitleEnds(bs) \in Ends(bs) /\ FragmentEnds(bs) \in Ends(bs)
<1>1. DOMAIN bs = 1 .. Len(bs) /\ Len(bs) \in Nat
      BY LenProperties
<1>2. ASSUME NEW i \in 1 .. Len(bs)
      PROVE  /\ TitleEnds(bs)[i] \in i .. Len(bs)
             /\ TitleEnds(bs)[i] # i => \A k \in i .. TitleEnds(bs)[i] : bs[k].kind # "table"
  <2>1. CASE bs[i].kind = "heading" /\ SplitTitle(bs, i, ChainEnd(bs, i))
    <3>1. TitleEnds(bs)[i] = ChainEnd(bs, i)
          BY <1>1, <2>1 DEF TitleEnds
    <3>2. /\ ChainEnd(bs, i) \in i .. Len(bs)
          /\ \A k \in i .. ChainEnd(bs, i) : bs[k].kind = "heading"
          BY <2>1, ChainEndIs
    <3> QED
      BY <3>1, <3>2
  <2>2. CASE ~(bs[i].kind = "heading" /\ SplitTitle(bs, i, ChainEnd(bs, i)))
    <3>1. TitleEnds(bs)[i] = i
          BY <1>1, <2>2 DEF TitleEnds
    <3> QED
      BY <1>1, <3>1
  <2> QED
    BY <2>1, <2>2
<1>3. ASSUME NEW i \in 1 .. Len(bs)
      PROVE  /\ FragmentEnds(bs)[i] \in i .. Len(bs)
             /\ FragmentEnds(bs)[i] # i => \A k \in i .. FragmentEnds(bs)[i] : bs[k].kind # "table"
  <2>1. CASE Fragment(bs, i)
    <3>1. FragmentEnds(bs)[i] = i + 1
          BY <1>1, <2>1 DEF FragmentEnds
    <3>2. i < Len(bs) /\ bs[i].kind = "paragraph" /\ bs[i + 1].kind = "paragraph"
          BY <2>1 DEF Fragment
    <3>3. \A k \in i .. i + 1 : k = i \/ k = i + 1
          OBVIOUS
    <3> QED
      BY <1>1, <3>1, <3>2, <3>3
  <2>2. CASE ~Fragment(bs, i)
    <3>1. FragmentEnds(bs)[i] = i
          BY <1>1, <2>2 DEF FragmentEnds
    <3> QED
      BY <1>1, <3>1
  <2> QED
    BY <2>1, <2>2
<1>4. TitleEnds(bs) \in [1 .. Len(bs) -> Nat]
  <2>1. \A i \in 1 .. Len(bs) : TitleEnds(bs)[i] \in Nat
        BY <1>1, <1>2
  <2>2. DOMAIN TitleEnds(bs) = 1 .. Len(bs) /\ TitleEnds(bs) = [i \in 1 .. Len(bs) |-> TitleEnds(bs)[i]]
        BY <1>1 DEF TitleEnds
  <2> QED
    BY <2>1, <2>2
<1>5. FragmentEnds(bs) \in [1 .. Len(bs) -> Nat]
  <2>1. \A i \in 1 .. Len(bs) : FragmentEnds(bs)[i] \in Nat
        BY <1>1, <1>3
  <2>2. FragmentEnds(bs) = [i \in 1 .. Len(bs) |-> FragmentEnds(bs)[i]]
        BY <1>1 DEF FragmentEnds
  <2> QED
    BY <2>1, <2>2
<1> QED
  BY <1>2, <1>3, <1>4, <1>5 DEF Ends

LEMMA OptimizedType ==
  ASSUME NEW bs \in Seq(Block)
  PROVE  /\ TitlesMerged(bs) = Joined(bs, TitleEnds(bs))
         /\ FragmentsMerged(bs) = Joined(bs, FragmentEnds(bs))
         /\ TitlesMerged(bs) \in Seq(Block)
         /\ FragmentsMerged(bs) \in Seq(Block)
<1>1. /\ TitlesMerged(bs) = Joined(bs, TitleEnds(bs))
      /\ FragmentsMerged(bs) = Joined(bs, FragmentEnds(bs))
      BY DEF TitlesMerged, FragmentsMerged, TitleEnds, FragmentEnds
<1> QED
  BY <1>1, EndsAre, JoinedIs

-----------------------------------------------------------------------------
(* The chunker: what holds of each chunk, and of what it has in hand *)

Chunk == [kind : {"text", "group", "rows"}, heading : Nat, first : Nat, fresh : Nat, last : Nat,
          rows : Nat \X Nat, oversize : BOOLEAN, pages : SUBSET Int,
          sources : SUBSET Int]

Plain(b) == b.kind \notin {"heading", "group", "table"}
HeadingAt(bs, n) == Max({i \in 1 .. n : bs[i].kind = "heading"} \cup {0})

Placed(bs, c) == /\ c.first \in 1 .. Len(bs) /\ c.last \in c.first .. Len(bs)
                 /\ c.fresh \in c.first .. c.last
                 /\ c.kind \in {"group", "rows"} => c.first = c.last
InSection(bs, c) == /\ c.heading = HeadingAt(bs, c.last)
                    /\ \A i \in (c.first + 1) .. c.last : Plain(bs[i])
InBudget(bs, lim, c) ==
  /\ c.kind = "text" => \/ TokensIn(bs, c.first, c.last) <= lim.max
                        \/ c.fresh = c.last
                        \/ TokensIn(bs, c.first, c.last - 1) < lim.min
  /\ c.kind = "rows" => LET b == bs[c.first] IN
                        \/ RowTokens(b, c.rows[1], c.rows[2]) <= lim.max
                        \/ c.oversize
                        \/ BodyStart(b, c.rows[1]) > c.rows[2]
\* A range is rows of its table, and names the pages SourcePages gives them.
Ranged(bs, c) ==
  c.kind = "rows" =>
    LET b == bs[c.first] IN /\ b.kind = "table" /\ c.rows[1] \in 1 .. Len(b.rows)
                            /\ c.rows[2] \in c.rows[1] .. Len(b.rows)
                            /\ c.sources = SourcePages(b, c.rows[1], c.rows[2])
\* What c repeats on top is the tail of p.
Carried(bs, lim, c, p) ==
  /\ p.kind = "text" /\ p.heading = c.heading /\ c.fresh = p.last + 1 /\ c.first >= p.first
  /\ TokensIn(bs, c.first, c.fresh - 1) <= lim.overlap

Good(bs, lim, cs) ==
  \A k \in 1 .. Len(cs) :
    /\ Placed(bs, cs[k]) /\ InSection(bs, cs[k]) /\ InBudget(bs, lim, cs[k])
    /\ Ranged(bs, cs[k])
    /\ cs[k].first < cs[k].fresh => k > 1 /\ Carried(bs, lim, cs[k], cs[k - 1])

\* A chunk that may follow some others.
Follows(bs, lim, cs, c) ==
  /\ Placed(bs, c) /\ InSection(bs, c) /\ InBudget(bs, lim, c) /\ Ranged(bs, c)
  /\ c.first < c.fresh => Len(cs) > 0 /\ Carried(bs, lim, c, cs[Len(cs)])

LEMMA GoodAppend ==
  ASSUME NEW bs, NEW lim, NEW cs \in Seq(Chunk), NEW c \in Chunk,
         Good(bs, lim, cs), Follows(bs, lim, cs, c)
  PROVE  Good(bs, lim, Append(cs, c)) /\ Append(cs, c) \in Seq(Chunk)
<1> DEFINE ds == Append(cs, c)
<1>1. /\ ds \in Seq(Chunk) /\ Len(ds) = Len(cs) + 1 /\ Len(cs) \in Nat
      /\ \A k \in 1 .. Len(cs) : ds[k] = cs[k]
      /\ ds[Len(cs) + 1] = c
      BY AppendProperties, LenProperties
<1> HIDE DEF ds
<1>2. ASSUME NEW k \in 1 .. Len(ds)
      PROVE  /\ Placed(bs, ds[k]) /\ InSection(bs, ds[k]) /\ InBudget(bs, lim, ds[k])
             /\ Ranged(bs, ds[k])
             /\ ds[k].first < ds[k].fresh => k > 1 /\ Carried(bs, lim, ds[k], ds[k - 1])
  <2>1. CASE k = Len(cs) + 1
    <3>1. ds[k] = c
          BY <1>1, <2>1
    <3>2. Len(cs) > 0 => k > 1 /\ ds[k - 1] = cs[Len(cs)]
          BY <1>1, <2>1
    <3> QED
      BY <3>1, <3>2 DEF Follows
  <2>2. CASE k \in 1 .. Len(cs)
    <3>1. ds[k] = cs[k]
          BY <1>1, <2>2
    <3>2. k > 1 => ds[k - 1] = cs[k - 1]
          BY <1>1, <2>2
    <3> QED
      BY <2>2, <3>1, <3>2 DEF Good
  <2> QED
    BY <1>1, <2>1, <2>2
<1>3. Good(bs, lim, ds)
      BY <1>2 DEF Good
<1> QED
  BY <1>1, <1>3 DEF ds

LEMMA HeadingSteps ==
  ASSUME NEW bs, NEW n \in Nat
  PROVE  /\ HeadingAt(bs, n) \in 0 .. n
         /\ n = 0 => HeadingAt(bs, n) = 0
         /\ n > 0 => HeadingAt(bs, n) = IF bs[n].kind = "heading" THEN n
                                        ELSE HeadingAt(bs, n - 1)
<1> DEFINE H(m) == {i \in 1 .. m : bs[i].kind = "heading"} \cup {0}
<1>1. ASSUME NEW m \in Nat PROVE Max(H(m)) \in H(m) /\ \A y \in H(m) : y <= Max(H(m))
  <2>1. H(m) \in SUBSET Nat /\ H(m) # {} /\ \A x \in H(m) : x <= m
        OBVIOUS
  <2> HIDE DEF H
  <2> QED
    BY <2>1, MaxIs
<1>2. \A m \in Nat : HeadingAt(bs, m) = Max(H(m))
      BY DEF HeadingAt
<1>3. Max(H(n)) \in 0 .. n
      BY <1>1
<1>4. n = 0 => Max(H(n)) = 0
      BY <1>3
<1>5. ASSUME n > 0, bs[n].kind = "heading" PROVE Max(H(n)) = n
  <2>1. n \in H(n)
        BY <1>5
  <2>2. n <= Max(H(n))
        BY <1>1, <2>1
  <2> QED
    BY <1>3, <2>2
<1>6. ASSUME n > 0, bs[n].kind # "heading" PROVE Max(H(n)) = Max(H(n - 1))
  <2>1. H(n) = H(n - 1)
    <3>1. \A i \in H(n) : i \in H(n - 1)
          BY <1>6
    <3>2. \A i \in H(n - 1) : i \in H(n)
          BY <1>6
    <3> QED
      BY <3>1, <3>2
  <2> QED
    BY <2>1
<1>7. n > 0 => n - 1 \in Nat
      OBVIOUS
<1> HIDE DEF H
<1> QED
  BY <1>2, <1>3, <1>4, <1>5, <1>6, <1>7

LEMMA PagesType == ASSUME NEW is PROVE PagesOf(is) \in SUBSET Int
BY DEF PagesOf

-----------------------------------------------------------------------------
(* The invariant *)

Early ==
  pc \in {"stitch", "clean", "optimize"} =>
    next = 1 /\ first = 1 /\ fresh = 1 /\ tokens = 0 /\ heading = 0 /\ row = 0 /\ chunks = <<>>

AtRow ==
  row > 0 => /\ pc = "chunk" /\ next <= Len(blocks) /\ blocks[next].kind = "table"
             /\ row <= Len(blocks[next].rows) /\ first = next /\ fresh = next
             /\ tokens = 0

Pending ==
  pc = "chunk" =>
    /\ first < next => fresh < next
    /\ \A i \in (first + 1) .. (next - 1) : Plain(blocks[i])
    /\ heading = HeadingAt(blocks, next - 1)
    /\ row = 0 => /\ tokens = TokensIn(blocks, first, next - 1)
                  /\ \/ tokens <= limits.max
                     \/ fresh = next - 1
                     \/ TokensIn(blocks, first, next - 2) < limits.min
    /\ first < fresh => LET c == chunks[Len(chunks)] IN
         /\ Len(chunks) > 0 /\ c.kind = "text" /\ c.heading = heading /\ fresh = c.last + 1
         /\ first >= c.first /\ TokensIn(blocks, first, fresh - 1) <= limits.overlap

IInv == /\ TypeOK /\ chunks \in Seq(Chunk) /\ Early /\ AtRow /\ Pending
        /\ Good(blocks, limits, chunks)

LEMMA LimitsType == limits \in Limits => /\ limits.max \in Nat /\ limits.max > 0
                                         /\ limits.min \in Nat /\ limits.overlap \in Nat
BY LimitsAssumption

LEMMA InitInv == Init => IInv
<1> SUFFICES ASSUME Init PROVE IInv
    OBVIOUS
<1>1. blocks \in Seq(Block) /\ source \in Sources /\ Len(blocks) \in Nat
      BY SourcesAssumption, LenProperties DEF Init
<1>2. TypeOK
      BY <1>1 DEF TypeOK, Init
<1>3. chunks = <<>> /\ chunks \in Seq(Chunk) /\ Len(chunks) = 0
      BY EmptySeq DEF Init
<1>4. Good(blocks, limits, chunks)
      BY <1>3 DEF Good
<1> QED
  BY <1>2, <1>3, <1>4 DEF IInv, Early, AtRow, Pending, Init

\* The steps before the chunker: the blocks are blocks again.
LEMMA EarlyInv ==
  ASSUME IInv, StitchTables \/ Clean \/ Optimize
  PROVE  IInv'
<1>1. /\ pc \in {"stitch", "clean", "optimize"}
      /\ pc' \in {"clean", "optimize", "chunk"}
      /\ UNCHANGED <<source, limits, next, first, fresh, tokens, heading, row, chunks>>
      BY DEF StitchTables, Clean, Optimize
<1>2. next = 1 /\ first = 1 /\ fresh = 1 /\ tokens = 0 /\ heading = 0 /\ row = 0 /\ chunks = <<>>
      BY <1>1 DEF IInv, Early
<1>3. blocks' \in Seq(Block)
  <2>1. blocks \in Seq(Block)
        BY DEF IInv, TypeOK
  <2>2. CASE StitchTables
        BY <2>1, <2>2, StitchedType DEF StitchTables
  <2>3. CASE Clean
        BY <2>1, <2>3, CleanedType DEF Clean
  <2>4. CASE Optimize
        BY <2>1, <2>4, OptimizedType DEF Optimize
  <2> QED
    BY <2>2, <2>3, <2>4
<1>4. Len(blocks') \in Nat
      BY <1>3, LenProperties
<1>5. TypeOK'
      BY <1>1, <1>2, <1>3, <1>4 DEF IInv, TypeOK
<1>6. chunks' \in Seq(Chunk) /\ Len(chunks') = 0
      BY <1>1, <1>2, EmptySeq
<1>7. Good(blocks', limits', chunks')
      BY <1>6 DEF Good
<1>8. Pending'
  <2>1. HeadingAt(blocks', 0) = 0
        BY HeadingSteps
  <2>2. TokensIn(blocks', 1, 0) = 0
        BY <1>3, <1>4, TokensSteps
  <2>3. limits'.max >= 0
        BY <1>1, LimitsType DEF IInv, TypeOK
  <2> QED
    BY <1>1, <1>2, <2>1, <2>2, <2>3 DEF Pending
<1>9. Early' /\ AtRow'
      BY <1>1, <1>2 DEF Early, AtRow
<1> QED
  BY <1>5, <1>6, <1>7, <1>8, <1>9 DEF IInv

\* A flush keeps what is known of the chunks, and ends them with what was in hand.
LEMMA FlushInv ==
  ASSUME IInv, pc = "chunk", row = 0
  PROVE  /\ Flushed \in Seq(Chunk) /\ Good(blocks, limits, Flushed)
         /\ first < next => /\ Len(Flushed) > 0 /\ Flushed[Len(Flushed)] = TextChunk
                            /\ TextChunk \in Chunk
<1>1. /\ blocks \in Seq(Block) /\ Len(blocks) \in Nat /\ next \in 1 .. (Len(blocks) + 1)
      /\ first \in 1 .. next /\ fresh \in first .. next /\ heading \in Nat
      BY LenProperties DEF IInv, TypeOK
<1>2. chunks \in Seq(Chunk) /\ Good(blocks, limits, chunks) /\ Len(chunks) \in Nat
      BY LenProperties DEF IInv
<1>3. CASE ~(first < next)
      BY <1>2, <1>3 DEF Flushed
<1>4. CASE first < next
  <2> DEFINE c == TextChunk
  <2>1. /\ c.kind = "text" /\ c.heading = heading /\ c.first = first /\ c.fresh = fresh
        /\ c.last = next - 1
        BY DEF TextChunk
  <2>2. c \in Chunk
    <3>1. next - 1 \in Nat /\ first \in Nat /\ fresh \in Nat
          BY <1>1
    <3>2. PagesOf(first .. (next - 1)) \in SUBSET Int
          BY PagesType
    <3> QED
      BY <1>1, <3>1, <3>2 DEF TextChunk, Chunk
  <2> HIDE DEF c
  <2>3. fresh < next
        BY <1>4 DEF IInv, Pending
  <2>4. Placed(blocks, c)
        BY <1>1, <1>4, <2>1, <2>3 DEF Placed
  <2>5. InSection(blocks, c)
        BY <2>1 DEF InSection, IInv, Pending
  <2>6. InBudget(blocks, limits, c)
    <3>1. (next - 1) - 1 = next - 2
          BY <1>1
    <3> QED
      BY <1>1, <2>1, <3>1 DEF InBudget, IInv, Pending
  <2>7. c.first < c.fresh => Len(chunks) > 0 /\ Carried(blocks, limits, c, chunks[Len(chunks)])
        BY <2>1 DEF IInv, Pending, Carried
  <2>8. Follows(blocks, limits, chunks, c)
    <3>1. Ranged(blocks, c)
          BY <2>1 DEF Ranged
    <3> QED
      BY <2>4, <2>5, <2>6, <2>7, <3>1 DEF Follows
  <2>9. Flushed = Append(chunks, c)
        BY <1>4 DEF Flushed, c
  <2>10. Flushed \in Seq(Chunk) /\ Good(blocks, limits, Flushed)
        BY <1>2, <2>2, <2>8, <2>9, GoodAppend
  <2>11. Len(Flushed) > 0 /\ Flushed[Len(Flushed)] = c
        BY <1>2, <2>2, <2>9, AppendProperties
  <2> QED
    BY <2>2, <2>10, <2>11 DEF c
<1> QED
  BY <1>3, <1>4

\* A range of rows has a row, and only the least range may pass the budget.
LEMMA RangeEndIs ==
  ASSUME NEW b \in Block, b.kind = "table", NEW r \in 1 .. Len(b.rows),
         limits \in Limits
  PROVE  LET e == RangeEnd(b, r)
         IN /\ e \in r .. Len(b.rows)
            /\ \/ RowTokens(b, r, e) <= limits.max
               \/ Oversize(b, r, e)
               \/ BodyStart(b, r) > e
<1> DEFINE L == LeastEnd(b, r)
           E == {e \in L .. Len(b.rows) : e = L \/ RowTokens(b, r, e) <= limits.max}
           e == RangeEnd(b, r)
<1>1. Len(b.rows) \in Nat /\ b.heads \in 1 .. Len(b.rows)
      BY TableFields, LenProperties
<1>2. BodyStart(b, r) \in Nat /\ BodyStart(b, r) >= r
      BY <1>1 DEF BodyStart
<1>3. /\ L \in r .. Len(b.rows)
      /\ L = IF BodyStart(b, r) <= Len(b.rows) THEN BodyStart(b, r) ELSE Len(b.rows)
      BY <1>1, <1>2 DEF LeastEnd
<1> HIDE DEF L
<1>4. E \in SUBSET Nat /\ L \in E /\ \A x \in E : x <= Len(b.rows)
      BY <1>1, <1>3
<1>5. e = Max(E)
      BY DEF RangeEnd, L
<1>6. e \in E
  <2> HIDE DEF E, e
  <2> QED
    BY <1>1, <1>4, <1>5, MaxIs
<1> HIDE DEF e
<1>7. e \in r .. Len(b.rows) /\ (e = L \/ RowTokens(b, r, e) <= limits.max)
      BY <1>1, <1>3, <1>6
<1>8. CASE RowTokens(b, r, e) <= limits.max
      BY <1>7, <1>8 DEF e
<1>9. CASE ~(RowTokens(b, r, e) <= limits.max) /\ e = L
  <2>1. RowTokens(b, r, e) \in Int
    <3>1. b.rows \in [1 .. Len(b.rows) -> Nat]
          BY TableFields, LenProperties
    <3>2. /\ BodyStart(b, r) \in Nat \ {0} /\ e \in 0 .. Len(b.rows)
          /\ b.heads \in 0 .. Len(b.rows)
          BY <1>1, <1>2, <1>7
    <3>3. Sum(b.rows, 1, b.heads) \in Nat
      <4>1. 1 \in Nat \ {0} /\ Len(b.rows) \in Nat
            BY <1>1
      <4> QED
        BY <3>1, <3>2, <4>1, SumSteps
    <3>4. Sum(b.rows, BodyStart(b, r), e) \in Nat
          BY <1>1, <3>1, <3>2, SumSteps
    <3> QED
      BY <3>3, <3>4 DEF RowTokens
  <2>2. CASE BodyStart(b, r) <= Len(b.rows)
    <3>1. BodyStart(b, r) = e
          BY <1>3, <1>9, <2>2
    <3>2. RowTokens(b, r, e) > limits.max
          BY <1>9, <2>1, LimitsType
    <3> QED
      BY <1>7, <3>1, <3>2 DEF Oversize, e
  <2>3. CASE ~(BodyStart(b, r) <= Len(b.rows))
    <3>1. BodyStart(b, r) > e
          BY <1>1, <1>2, <1>3, <1>9, <2>3
    <3> QED
      BY <1>7, <3>1 DEF e
  <2> QED
    BY <2>2, <2>3
<1> QED
  BY <1>7, <1>8, <1>9

\* A heading begins a chunk and a section.
LEMMA HeadingInv ==
  ASSUME IInv, ChunkHeading
  PROVE  IInv'
<1>1. /\ pc = "chunk" /\ pc' = "chunk" /\ row = 0 /\ row' = 0 /\ next <= Len(blocks)
      /\ blocks[next].kind = "heading"
      /\ chunks' = Flushed /\ first' = next /\ fresh' = next /\ next' = next + 1
      /\ tokens' = TokensOf(blocks[next]) /\ heading' = next
      /\ UNCHANGED <<source, limits, blocks>>
      BY DEF ChunkHeading, Looking, Keeps, IInv, TypeOK
<1>2. /\ blocks \in Seq(Block) /\ Len(blocks) \in Nat /\ next \in 1 .. Len(blocks)
      /\ blocks[next] \in Block
      BY <1>1, LenProperties, ElementOfSeq DEF IInv, TypeOK
<1>3. chunks' \in Seq(Chunk) /\ Good(blocks', limits', chunks')
      BY <1>1, FlushInv
<1>4. TokensIn(blocks, next, next) = TokensOf(blocks[next])
      /\ TokensOf(blocks[next]) \in Nat
  <2>1. next \in Nat \ {0} /\ next \in 0 .. Len(blocks) /\ next - 1 \in 0 .. Len(blocks)
        BY <1>2
  <2>2. TokensIn(blocks, next, next) = TokensIn(blocks, next, next - 1) + TokensOf(blocks[next])
        BY <1>2, <2>1, TokensSteps
  <2>3. TokensIn(blocks, next, next - 1) = 0
        BY <1>2, <2>1, TokensSteps
  <2>4. TokensOf(blocks[next]) \in Nat
        BY <1>2, BlockFields DEF TokensOf, Marked
  <2> QED
    BY <2>2, <2>3, <2>4
<1>5. TypeOK'
      BY <1>1, <1>2, <1>4 DEF IInv, TypeOK
<1>6. Pending'
  <2>1. next' - 1 = next
        BY <1>1, <1>2
  <2>2. HeadingAt(blocks, next) = next
        BY <1>1, <1>2, HeadingSteps
  <2>3. ~(first' < fresh') /\ fresh' < next' /\ fresh' = next' - 1
        BY <1>1, <1>2
  <2>4. \A i \in (first' + 1) .. (next' - 1) : Plain(blocks'[i])
        BY <1>1, <1>2
  <2>5. tokens' = TokensIn(blocks', first', next' - 1)
        BY <1>1, <1>4, <2>1
  <2>6. heading' = HeadingAt(blocks', next' - 1)
        BY <1>1, <2>1, <2>2
  <2> QED
    BY <2>3, <2>4, <2>5, <2>6 DEF Pending
<1>7. Early' /\ AtRow'
      BY <1>1 DEF Early, AtRow
<1> QED
  BY <1>3, <1>5, <1>6, <1>7 DEF IInv

\* A key-value group is a chunk of its own.
LEMMA GroupInv ==
  ASSUME IInv, ChunkGroup
  PROVE  IInv'
<1> DEFINE c == [kind |-> "group", heading |-> heading, first |-> next, fresh |-> next,
                 last |-> next, rows |-> <<0, 0>>, oversize |-> FALSE, pages |-> PagesOf({next}), sources |-> {}]
<1>1. /\ pc = "chunk" /\ pc' = "chunk" /\ row = 0 /\ row' = 0 /\ next <= Len(blocks)
      /\ blocks[next].kind = "group"
      /\ chunks' = Append(Flushed, c) /\ first' = next + 1 /\ fresh' = next + 1
      /\ next' = next + 1 /\ tokens' = 0 /\ heading' = heading
      /\ UNCHANGED <<source, limits, blocks>>
      BY DEF ChunkGroup, Looking, Keeps, IInv, TypeOK
<1>2. /\ blocks \in Seq(Block) /\ Len(blocks) \in Nat /\ next \in 1 .. Len(blocks)
      /\ heading \in 0 .. (next - 1) /\ limits \in Limits
      BY <1>1, LenProperties DEF IInv, TypeOK
<1>3. Flushed \in Seq(Chunk) /\ Good(blocks, limits, Flushed)
      BY <1>1, FlushInv
<1>4. HeadingAt(blocks, next) = heading
  <2>1. heading = HeadingAt(blocks, next - 1)
        BY <1>1 DEF IInv, Pending
  <2> QED
    BY <1>1, <1>2, <2>1, HeadingSteps
<1>5. /\ c.kind = "group" /\ c.heading = heading /\ c.first = next /\ c.fresh = next
      /\ c.last = next
      OBVIOUS
<1>6. c \in Chunk
  <2> DEFINE pages == PagesOf({next})
  <2>1. pages \in SUBSET Int
        BY PagesType
  <2>2. heading \in Nat /\ next \in Nat /\ <<0, 0>> \in Nat \X Nat
        BY <1>2
  <2> HIDE DEF pages
  <2>3. [kind |-> "group", heading |-> heading, first |-> next, fresh |-> next, last |-> next,
         rows |-> <<0, 0>>, oversize |-> FALSE, pages |-> pages, sources |-> {}] \in Chunk
        BY <2>1, <2>2 DEF Chunk
  <2> QED
    BY <2>3 DEF pages
<1> HIDE DEF c
<1>7. Follows(blocks, limits, Flushed, c)
  <2>1. Placed(blocks, c)
        BY <1>2, <1>5 DEF Placed
  <2>2. InSection(blocks, c)
        BY <1>2, <1>4, <1>5 DEF InSection
  <2>3. InBudget(blocks, limits, c) /\ Ranged(blocks, c) /\ ~(c.first < c.fresh)
        BY <1>2, <1>5 DEF InBudget, Ranged
  <2> QED
    BY <2>1, <2>2, <2>3 DEF Follows
<1>8. chunks' \in Seq(Chunk) /\ Good(blocks', limits', chunks')
      BY <1>1, <1>3, <1>6, <1>7, GoodAppend
<1>9. TypeOK'
      BY <1>1, <1>2 DEF IInv, TypeOK
<1>10. Pending'
  <2>1. next' - 1 = next /\ ~(first' < fresh') /\ ~(first' < next')
        BY <1>1, <1>2
  <2>2. TokensIn(blocks, next + 1, next) = 0
    <3>1. next + 1 \in Nat \ {0} /\ next \in 0 .. Len(blocks) /\ next < next + 1
          BY <1>2
    <3> QED
      BY <1>2, <3>1, TokensSteps
  <2>3. tokens' = TokensIn(blocks', first', next' - 1)
        BY <1>1, <2>1, <2>2
  <2>4. tokens' <= limits'.max
        BY <1>1, <1>2, LimitsType
  <2>5. \A i \in (first' + 1) .. (next' - 1) : Plain(blocks'[i])
        BY <1>1, <1>2
  <2>6. heading' = HeadingAt(blocks', next' - 1)
        BY <1>1, <1>4, <2>1
  <2> QED
    BY <2>1, <2>3, <2>4, <2>5, <2>6 DEF Pending
<1>11. Early' /\ AtRow'
       BY <1>1 DEF Early, AtRow
<1> QED
  BY <1>8, <1>9, <1>10, <1>11 DEF IInv

\* A table ends what is in hand; its rows are chunked one range after the other.
LEMMA TableInv ==
  ASSUME IInv, ChunkTable
  PROVE  IInv'
<1>1. /\ pc = "chunk" /\ pc' = "chunk" /\ row = 0 /\ row' = 1 /\ next <= Len(blocks)
      /\ blocks[next].kind = "table"
      /\ chunks' = Flushed /\ first' = next /\ fresh' = next /\ next' = next
      /\ tokens' = 0 /\ heading' = heading
      /\ UNCHANGED <<source, limits, blocks>>
      BY DEF ChunkTable, Looking, Keeps, IInv, TypeOK
<1>2. /\ blocks \in Seq(Block) /\ Len(blocks) \in Nat /\ next \in 1 .. Len(blocks)
      /\ Len(blocks[next].rows) >= 1
  <2>1. next \in 1 .. Len(blocks) /\ blocks \in Seq(Block) /\ Len(blocks) \in Nat
        BY <1>1, LenProperties DEF IInv, TypeOK
  <2>2. blocks[next] \in Block
        BY <2>1, ElementOfSeq
  <2>3. blocks[next].heads \in 1 .. Len(blocks[next].rows) /\ Len(blocks[next].rows) \in Nat
        BY <1>1, <2>2, TableFields, LenProperties
  <2> QED
    BY <2>1, <2>3
<1>3. chunks' \in Seq(Chunk) /\ Good(blocks', limits', chunks')
      BY <1>1, FlushInv
<1>4. TypeOK'
      BY <1>1, <1>2 DEF IInv, TypeOK
<1>5. Pending'
  <2>1. ~(first' < fresh') /\ ~(first' < next') /\ row' # 0
        BY <1>1, <1>2
  <2>2. \A i \in (first' + 1) .. (next' - 1) : Plain(blocks'[i])
        BY <1>1, <1>2
  <2>3. heading' = HeadingAt(blocks', next' - 1)
        BY <1>1 DEF IInv, Pending
  <2> QED
    BY <2>1, <2>2, <2>3 DEF Pending
<1>6. Early' /\ AtRow'
      BY <1>1, <1>2 DEF Early, AtRow
<1> QED
  BY <1>3, <1>4, <1>5, <1>6 DEF IInv

\* A range of rows is a chunk; behind the last one the chunker goes on.
LEMMA RowsInv ==
  ASSUME IInv, ChunkRows
  PROVE  IInv'
<1> DEFINE b == blocks[next]
           e == RangeEnd(b, row)
           c == [kind |-> "rows", heading |-> heading, first |-> next, fresh |-> next,
                 last |-> next, rows |-> <<row, e>>, oversize |-> Oversize(b, row, e),
                 pages |-> PagesOf({next}), sources |-> SourcePages(b, row, e)]
<1>1. /\ pc = "chunk" /\ pc' = "chunk" /\ row > 0
      /\ chunks' = Append(chunks, c)
      /\ \/ e < Len(b.rows) /\ row' = e + 1 /\ UNCHANGED <<next, first, fresh>>
         \/ ~(e < Len(b.rows)) /\ row' = 0 /\ next' = next + 1 /\ first' = next + 1
            /\ fresh' = next + 1
      /\ UNCHANGED <<source, limits, blocks, tokens, heading>>
      BY DEF ChunkRows, Keeps
<1>2. /\ blocks \in Seq(Block) /\ Len(blocks) \in Nat /\ next \in 1 .. Len(blocks)
      /\ heading \in 0 .. (next - 1) /\ limits \in Limits /\ tokens \in Nat
      /\ first = next /\ fresh = next /\ b.kind = "table" /\ row \in Nat /\ tokens = 0
      /\ row <= Len(b.rows)
      BY <1>1, LenProperties DEF IInv, TypeOK, AtRow
<1>3. b \in Block
      BY <1>2, ElementOfSeq
<1>4. Len(b.rows) \in Nat /\ row \in 1 .. Len(b.rows) /\ b.origin \in Seq(Origin)
      /\ b.page \in Nat
      BY <1>1, <1>2, <1>3, TableFields, BlockFields, LenProperties
<1>5. /\ e \in row .. Len(b.rows)
      /\ \/ RowTokens(b, row, e) <= limits.max
         \/ Oversize(b, row, e)
         \/ BodyStart(b, row) > e
      BY <1>2, <1>3, <1>4, RangeEndIs
<1>6. SourcePages(b, row, e) \in SUBSET Int
  <2>1. \A o \in ToSet(b.origin) : o.page \in Nat
    <3>1. \A k \in DOMAIN b.origin : b.origin[k] \in Origin
          BY <1>4, LenProperties, ElementOfSeq
    <3> QED
      BY <3>1 DEF ToSet, Origin
  <2> QED
    BY <1>4, <2>1 DEF SourcePages
<1>7. Oversize(b, row, e) \in BOOLEAN
      BY DEF Oversize
<1> HIDE DEF e, b
<1>8. c \in Chunk
  <2> DEFINE pages == PagesOf({next})
             sources == SourcePages(b, row, e)
             oversize == Oversize(b, row, e)
  <2>1. pages \in SUBSET Int
        BY PagesType
  <2>2. /\ heading \in Nat /\ next \in Nat /\ <<row, e>> \in Nat \X Nat
        /\ sources \in SUBSET Int /\ oversize \in BOOLEAN
        BY <1>2, <1>4, <1>5, <1>6, <1>7
  <2> HIDE DEF pages, sources, oversize
  <2>3. [kind |-> "rows", heading |-> heading, first |-> next, fresh |-> next, last |-> next,
         rows |-> <<row, e>>, oversize |-> oversize, pages |-> pages,
         sources |-> sources] \in Chunk
        BY <2>1, <2>2 DEF Chunk
  <2> QED
    BY <2>3 DEF pages, sources, oversize
<1>9. /\ c.kind = "rows" /\ c.heading = heading /\ c.first = next /\ c.fresh = next
      /\ c.last = next /\ c.rows[1] = row /\ c.rows[2] = e
      /\ c.oversize = Oversize(b, row, e) /\ c.sources = SourcePages(b, row, e)
      OBVIOUS
<1> HIDE DEF c
<1>10. HeadingAt(blocks, next) = heading
  <2>1. heading = HeadingAt(blocks, next - 1)
        BY <1>1 DEF IInv, Pending
  <2> QED
    BY <1>2, <2>1, HeadingSteps DEF b
<1>11. Follows(blocks, limits, chunks, c)
  <2>1. Placed(blocks, c)
        BY <1>2, <1>9 DEF Placed
  <2>2. InSection(blocks, c)
        BY <1>2, <1>9, <1>10 DEF InSection
  <2>3. InBudget(blocks, limits, c)
        BY <1>5, <1>9 DEF InBudget, b
  <2>4. ~(c.first < c.fresh)
        BY <1>2, <1>9
  <2>5. Ranged(blocks, c)
    <3>1. b.kind = "table" /\ row \in 1 .. Len(b.rows) /\ e \in row .. Len(b.rows)
          BY <1>2, <1>4, <1>5
    <3> QED
      BY <1>9, <3>1 DEF Ranged, b
  <2> QED
    BY <2>1, <2>2, <2>3, <2>4, <2>5 DEF Follows
<1>12. chunks' \in Seq(Chunk) /\ Good(blocks', limits', chunks')
       BY <1>1, <1>8, <1>11, GoodAppend DEF IInv
<1>13. CASE e < Len(b.rows) /\ row' = e + 1 /\ UNCHANGED <<next, first, fresh>>
  <2>1. TypeOK'
        BY <1>1, <1>2, <1>4, <1>5, <1>13 DEF IInv, TypeOK
  <2>2. row' > 0 /\ row' <= Len(b.rows) /\ row' # 0
        BY <1>4, <1>5, <1>13
  <2>3. AtRow' /\ Early'
        BY <1>1, <1>2, <1>13, <2>2 DEF Early, AtRow, b
  <2>4. Pending'
        BY <1>1, <1>2, <1>13, <2>2 DEF IInv, Pending
  <2> QED
    BY <1>12, <2>1, <2>3, <2>4 DEF IInv
<1>14. CASE row' = 0 /\ next' = next + 1 /\ first' = next + 1 /\ fresh' = next + 1
  <2>1. TypeOK'
        BY <1>1, <1>2, <1>14 DEF IInv, TypeOK
  <2>2. AtRow' /\ Early'
        BY <1>1, <1>14 DEF Early, AtRow
  <2>3. Pending'
    <3>1. next' - 1 = next /\ ~(first' < fresh') /\ ~(first' < next')
          BY <1>2, <1>14
    <3>2. TokensIn(blocks, next + 1, next) = 0
      <4>1. next + 1 \in Nat \ {0} /\ next \in 0 .. Len(blocks) /\ next < next + 1
            BY <1>2
      <4> QED
        BY <1>2, <4>1, TokensSteps
    <3>3. tokens = 0
          BY <1>1 DEF IInv, AtRow
    <3>4. tokens' = TokensIn(blocks', first', next' - 1)
          BY <1>1, <1>14, <3>1, <3>2, <3>3
    <3>5. tokens' <= limits'.max
          BY <1>1, <1>2, <3>3, LimitsType
    <3>6. \A i \in (first' + 1) .. (next' - 1) : Plain(blocks'[i])
          BY <1>2, <1>14
    <3>7. heading' = HeadingAt(blocks', next' - 1)
          BY <1>1, <1>10, <3>1
    <3> QED
      BY <3>1, <3>4, <3>5, <3>6, <3>7 DEF Pending
  <2> QED
    BY <1>12, <2>1, <2>2, <2>3 DEF IInv
<1> QED
  BY <1>1, <1>13, <1>14

\* The tail is some of the blocks in hand, within the overlap.
LEMMA TailIs ==
  ASSUME blocks \in Seq(Block), limits \in Limits, next \in 1 .. Len(blocks), first \in 1 .. next
  PROVE  TailStart \in first .. next /\ TokensIn(blocks, TailStart, next - 1) <= limits.overlap
<1> DEFINE S == {s \in first .. next : TokensIn(blocks, s, next - 1) <= limits.overlap}
<1>1. Len(blocks) \in Nat /\ limits.overlap \in Nat
      BY LenProperties, LimitsType
<1>2. TokensIn(blocks, next, next - 1) = 0
  <2>1. next \in Nat \ {0} /\ next - 1 \in 0 .. Len(blocks) /\ next - 1 < next
        BY <1>1
  <2> QED
    BY <2>1, TokensSteps
<1>3. S \in SUBSET Nat /\ next \in S
      BY <1>1, <1>2
<1>4. CASE limits.overlap = 0
  <2>1. TailStart = next
        BY <1>4 DEF TailStart
  <2> QED
    BY <1>2, <1>4, <2>1
<1>5. CASE limits.overlap # 0
  <2>1. TailStart = Min(S)
        BY <1>5 DEF TailStart, TotalTokens, TokensIn
  <2>2. Min(S) \in S
    <3> HIDE DEF S
    <3> QED
      BY <1>3, MinIs
  <2> QED
    BY <2>1, <2>2
<1> QED
  BY <1>4, <1>5

\* A block of prose goes with what is in hand, or begins the next chunk.
LEMMA BlockInv ==
  ASSUME IInv, ChunkBlock
  PROVE  IInv'
<1> DEFINE b == blocks[next]
           t == TailStart
<1>1. /\ pc = "chunk" /\ pc' = "chunk" /\ row = 0 /\ row' = 0 /\ next <= Len(blocks)
      /\ Plain(b) /\ next' = next + 1 /\ heading' = heading
      /\ UNCHANGED <<source, limits, blocks>>
      BY DEF ChunkBlock, Looking, Keeps, Plain, IInv, TypeOK
<1>2. /\ blocks \in Seq(Block) /\ Len(blocks) \in Nat /\ next \in 1 .. Len(blocks)
      /\ first \in 1 .. next /\ fresh \in first .. next /\ tokens \in Nat
      /\ heading \in 0 .. (next - 1) /\ limits \in Limits
      BY <1>1, LenProperties DEF IInv, TypeOK
<1>3. TokensOf(b) \in Nat
      BY <1>2, ElementOfSeq, BlockFields DEF TokensOf, Marked
<1>4. /\ next \in Nat \ {0} /\ next \in 0 .. Len(blocks) /\ next - 1 \in 0 .. Len(blocks)
      /\ next' - 1 = next /\ next' - 2 = next - 1
      BY <1>1, <1>2
<1>5. ASSUME NEW s \in 1 .. next
      PROVE  TokensIn(blocks, s, next) = TokensIn(blocks, s, next - 1) + TokensOf(b)
  <2>1. s \in Nat \ {0} /\ s <= next
        BY <1>2
  <2> QED
    BY <1>2, <1>4, <2>1, TokensSteps
<1>6. HeadingAt(blocks, next) = heading
  <2>1. heading = HeadingAt(blocks, next - 1)
        BY <1>1 DEF IInv, Pending
  <2>2. b.kind # "heading"
        BY <1>1 DEF Plain
  <2> QED
    BY <1>2, <2>1, <2>2, HeadingSteps
<1>7. \A i \in (first + 1) .. next : Plain(blocks[i])
  <2>1. \A i \in (first + 1) .. (next - 1) : Plain(blocks[i])
        BY <1>1 DEF IInv, Pending
  <2>2. \A i \in (first + 1) .. next : i \in (first + 1) .. (next - 1) \/ i = next
        BY <1>2
  <2> QED
    BY <1>1, <2>1, <2>2
<1>8. heading' = HeadingAt(blocks', next' - 1)
      BY <1>1, <1>4, <1>6
<1>9. Early' /\ AtRow'
      BY <1>1 DEF Early, AtRow
<1>10. limits.max \in Nat /\ limits.min \in Nat
       BY <1>2, LimitsType
<1>11. CASE OverBudget
  <2>1. /\ chunks' = Flushed /\ first' = t /\ fresh' = next
        /\ tokens' = TotalTokens(t, next - 1) + TokensOf(b)
        BY <1>11 DEF ChunkBlock
  <2>2. t \in first .. next /\ TokensIn(blocks, t, next - 1) <= limits.overlap
        BY <1>2, TailIs
  <2> HIDE DEF t, b
  <2>3. /\ chunks' \in Seq(Chunk) /\ Good(blocks', limits', chunks')
        /\ first < next => /\ Len(chunks') > 0 /\ chunks'[Len(chunks')] = TextChunk
        BY <1>1, <2>1, FlushInv
  <2>4. t \in 1 .. next
        BY <1>2, <2>2
  <2>5. tokens' = TokensIn(blocks, t, next) /\ TokensIn(blocks, t, next - 1) \in Nat
    <3>1. TotalTokens(t, next - 1) = TokensIn(blocks, t, next - 1)
          BY DEF TotalTokens, TokensIn
    <3>2. t \in Nat \ {0}
          BY <1>2, <2>4
    <3>3. TokensIn(blocks, t, next - 1) \in Nat
          BY <1>2, <1>4, <3>2, TokensSteps
    <3> QED
      BY <1>5, <2>1, <2>4, <3>1, <3>3
  <2>6. TypeOK'
    <3>1. tokens' \in Nat
          BY <1>3, <1>5, <2>4, <2>5
    <3> QED
      BY <1>1, <1>2, <2>1, <2>2, <3>1 DEF IInv, TypeOK
  <2>7. Pending'
    <3>1. first' < next' => fresh' < next'
          BY <1>1, <1>2, <2>1
    <3>2. \A i \in (first' + 1) .. (next' - 1) : Plain(blocks'[i])
      <4>1. \A i \in (t + 1) .. next : i \in (first + 1) .. next
            BY <1>2, <2>2
      <4> QED
        BY <1>1, <1>4, <1>7, <2>1, <4>1
    <3>3. tokens' = TokensIn(blocks', first', next' - 1)
          BY <1>1, <1>4, <2>1, <2>5
    <3>4. fresh' = next' - 1
          BY <1>4, <2>1
    <3>5. ASSUME first' < fresh'
          PROVE  LET c == chunks'[Len(chunks')] IN
                 /\ Len(chunks') > 0 /\ c.kind = "text" /\ c.heading = heading'
                 /\ fresh' = c.last + 1 /\ first' >= c.first
                 /\ TokensIn(blocks', first', fresh' - 1) <= limits'.overlap
      <4>1. first < next
            BY <1>2, <2>1, <2>2, <3>5
      <4>2. /\ TextChunk.kind = "text" /\ TextChunk.heading = heading
            /\ TextChunk.first = first /\ TextChunk.last = next - 1
            BY DEF TextChunk
      <4>3. (next - 1) + 1 = next /\ t >= first
            BY <1>2, <2>2
      <4> QED
        BY <1>1, <2>1, <2>2, <2>3, <4>1, <4>2, <4>3
    <3> QED
      BY <1>8, <3>1, <3>2, <3>3, <3>4, <3>5 DEF Pending
  <2> QED
    BY <1>9, <2>3, <2>6, <2>7 DEF IInv
<1>12. CASE ~OverBudget
  <2>1. /\ tokens' = tokens + TokensOf(b)
        /\ chunks' = chunks /\ first' = first /\ fresh' = fresh
        BY <1>12 DEF ChunkBlock
  <2>2. ~(tokens + TokensOf(b) > limits.max) \/ ~(tokens >= limits.min)
        BY <1>12 DEF OverBudget
  <2> HIDE DEF b
  <2>3. tokens = TokensIn(blocks, first, next - 1)
        BY <1>1 DEF IInv, Pending
  <2>4. TypeOK'
        BY <1>1, <1>2, <1>3, <2>1 DEF IInv, TypeOK
  <2>5. Pending'
    <3>1. first' < next' => fresh' < next'
          BY <1>1, <1>2, <2>1
    <3>2. \A i \in (first' + 1) .. (next' - 1) : Plain(blocks'[i])
          BY <1>1, <1>4, <1>7, <2>1
    <3>3. tokens' = TokensIn(blocks', first', next' - 1)
          BY <1>1, <1>2, <1>4, <1>5, <2>1, <2>3
    <3>4. tokens' <= limits'.max \/ TokensIn(blocks', first', next' - 2) < limits'.min
          BY <1>1, <1>2, <1>3, <1>4, <1>10, <2>1, <2>2, <2>3
    <3>5. ASSUME first' < fresh'
          PROVE  LET c == chunks'[Len(chunks')] IN
                 /\ Len(chunks') > 0 /\ c.kind = "text" /\ c.heading = heading'
                 /\ fresh' = c.last + 1 /\ first' >= c.first
                 /\ TokensIn(blocks', first', fresh' - 1) <= limits'.overlap
          BY <1>1, <2>1, <3>5 DEF IInv, Pending
    <3> QED
      BY <1>8, <3>1, <3>2, <3>3, <3>4, <3>5 DEF Pending
  <2>6. chunks' \in Seq(Chunk) /\ Good(blocks', limits', chunks')
        BY <1>1, <2>1 DEF IInv
  <2> QED
    BY <1>9, <2>4, <2>5, <2>6 DEF IInv
<1> QED
  BY <1>11, <1>12

LEMMA FinishInv ==
  ASSUME IInv, Finish
  PROVE  IInv'
<1>1. /\ pc = "chunk" /\ pc' = "done" /\ row = 0 /\ chunks' = Flushed
      /\ UNCHANGED <<source, limits, blocks, next, first, fresh, tokens, heading, row>>
      BY DEF Finish
<1>2. chunks' \in Seq(Chunk) /\ Good(blocks', limits', chunks')
      BY <1>1, FlushInv
<1>3. TypeOK'
      BY <1>1 DEF IInv, TypeOK
<1>4. Early' /\ AtRow' /\ Pending'
      BY <1>1 DEF Early, AtRow, Pending
<1> QED
  BY <1>2, <1>3, <1>4 DEF IInv

LEMMA StutterInv ==
  ASSUME IInv, UNCHANGED vars
  PROVE  IInv'
<1>1. UNCHANGED <<source, limits, pc, blocks, next, first, fresh, tokens, heading, row, chunks>>
      BY DEF vars
<1>2. TypeOK' /\ chunks' \in Seq(Chunk) /\ Good(blocks', limits', chunks')
      BY <1>1 DEF IInv, TypeOK
<1>3. Early' /\ AtRow' /\ Pending'
      BY <1>1 DEF IInv, Early, AtRow, Pending
<1> QED
  BY <1>2, <1>3 DEF IInv

LEMMA Invariance == Spec => []IInv
<1>1. Init => IInv
      BY InitInv
<1>2. IInv /\ [Next]_vars => IInv'
  <2> SUFFICES ASSUME IInv, [Next]_vars PROVE IInv'
      OBVIOUS
  <2>1. CASE StitchTables \/ Clean \/ Optimize
        BY <2>1, EarlyInv
  <2>2. CASE ChunkHeading
        BY <2>2, HeadingInv
  <2>3. CASE ChunkGroup
        BY <2>3, GroupInv
  <2>4. CASE ChunkTable
        BY <2>4, TableInv
  <2>5. CASE ChunkRows
        BY <2>5, RowsInv
  <2>6. CASE ChunkBlock
        BY <2>6, BlockInv
  <2>7. CASE Finish
        BY <2>7, FinishInv
  <2>8. CASE Done \/ UNCHANGED vars
        BY <2>8, StutterInv DEF Done
  <2> QED
    BY <2>1, <2>2, <2>3, <2>4, <2>5, <2>6, <2>7, <2>8 DEF Next
<1> QED
  BY <1>1, <1>2, PTL DEF Spec

(* Blocks stay blocks through stitching, cleaning and merging, and the       *)
(* chunker keeps its place among them.                                       *)
THEOREM TypeCorrect == Spec => []TypeOK
<1>1. IInv => TypeOK
      BY DEF IInv
<1> QED
  BY <1>1, Invariance, PTL

(* Whatever the document and the three parameters, a chunk passes the budget *)
(* only by the blank lines between its blocks, by its last block on top of   *)
(* too little to stand alone, or by one row.                                 *)
THEOREM BudgetIsKept == Spec => []WithinBudget
<1>1. IInv => WithinBudget
  <2> SUFFICES ASSUME IInv, NEW k \in DOMAIN chunks
               PROVE  LET c == chunks[k] b == blocks[c.first] IN
                      CASE c.kind = "group" -> TRUE
                        [] c.kind = "text" ->
                             \/ TokenCount(c) <= limits.max + BlankLine * (c.last - c.first)
                             \/ c.fresh = c.last
                             \/ TotalTokens(c.first, c.last - 1) < limits.min
                        [] c.kind = "rows" -> \/ RowTokens(b, c.rows[1], c.rows[2]) <= limits.max
                                              \/ c.oversize
                                              \/ BodyStart(b, c.rows[1]) > c.rows[2]
      BY DEF WithinBudget
  <2> DEFINE c == chunks[k]
  <2>1. k \in 1 .. Len(chunks) /\ c \in Chunk
        BY LenProperties, ElementOfSeq DEF IInv
  <2>2. InBudget(blocks, limits, c)
        BY <2>1 DEF IInv, Good
  <2>3. c.kind \in {"text", "group", "rows"}
        BY <2>1 DEF Chunk
  <2>4. \A i, j : TotalTokens(i, j) = TokensIn(blocks, i, j)
        BY DEF TotalTokens, TokensIn
  <2> HIDE DEF c
  <2>5. CASE c.kind = "group"
        BY <2>5 DEF c
  <2>6. CASE c.kind = "text"
    <3> DEFINE counted == TotalTokens(c.first, c.last)
               blank == BlankLine * (c.last - c.first)
    <3>1. CASE counted <= limits.max
      <4>1. c.first \in 1 .. Len(blocks) /\ c.last \in c.first .. Len(blocks) /\ Len(blocks) \in Nat
            BY <2>1, LenProperties DEF IInv, TypeOK, Good, Placed, c
      <4>2. counted \in Nat
        <5>1. blocks \in Seq(Block) /\ c.first \in Nat \ {0} /\ c.last \in 0 .. Len(blocks)
              BY <4>1 DEF IInv, TypeOK
        <5> QED
          BY <2>4, <5>1, TokensSteps
      <4>3. blank \in Int /\ limits.max \in Nat
            BY <4>1, LimitsAssumption DEF IInv, TypeOK
      <4>4. TokenCount(c) = counted + blank
            BY DEF TokenCount
      <4> HIDE DEF counted, blank
      <4>5. counted + blank <= limits.max + blank
            BY <3>1, <4>2, <4>3
      <4> QED
        BY <2>6, <4>4, <4>5 DEF blank, c
    <3>2. CASE c.fresh = c.last \/ TotalTokens(c.first, c.last - 1) < limits.min
          BY <2>6, <3>2 DEF c
    <3> QED
      BY <2>2, <2>4, <2>6, <3>1, <3>2 DEF InBudget
  <2>7. CASE c.kind = "rows"
        BY <2>2, <2>7 DEF InBudget, c
  <2> QED
    BY <2>3, <2>5, <2>6, <2>7
<1> QED
  BY <1>1, Invariance, PTL

(* Every chunk is filed under the last heading before its end, holds no      *)
(* other, and repeats on top only the tail of the chunk before it.           *)
THEOREM SectionIsKept == Spec => []InOneSection
<1>1. IInv => InOneSection
  <2> SUFFICES ASSUME IInv, NEW k \in DOMAIN chunks
               PROVE  LET c == chunks[k]
                          Headings == {i \in 1..c.last : blocks[i].kind = "heading"}
                      IN /\ c.heading = Max(Headings \cup {0})
                         /\ \A i \in (c.first + 1)..c.last :
                              blocks[i].kind \notin {"heading", "group", "table"}
                         /\ c.first < c.fresh =>
                              /\ k > 1 /\ chunks[k - 1].kind = "text"
                              /\ chunks[k - 1].heading = c.heading
                              /\ c.fresh = chunks[k - 1].last + 1
                              /\ c.first >= chunks[k - 1].first
                              /\ TotalTokens(c.first, c.fresh - 1) <= limits.overlap
      BY DEF InOneSection
  <2> DEFINE c == chunks[k]
  <2>1. k \in 1 .. Len(chunks)
        BY LenProperties DEF IInv
  <2>2. /\ InSection(blocks, c)
        /\ c.first < c.fresh => k > 1 /\ Carried(blocks, limits, c, chunks[k - 1])
        BY <2>1 DEF IInv, Good
  <2>3. \A i, j : TotalTokens(i, j) = TokensIn(blocks, i, j)
        BY DEF TotalTokens, TokensIn
  <2> QED
    BY <2>2, <2>3 DEF InSection, Carried, HeadingAt, Plain
<1> QED
  BY <1>1, Invariance, PTL

-----------------------------------------------------------------------------
(* Members and order of sequences one after the other *)

\* What stands in a sequence, and in several ones up to the j-th.
In(c, v) == \E x \in 1 .. Len(c) : c[x] = v
InSome(s, j, v) == \E k \in 1 .. j : In(s[k], v)
\* Any two members are related in the order they stand in.
Related(Rel, c) == \A x, y \in 1 .. Len(c) : x < y => <<c[x], c[y]>> \in Rel

LEMMA InToSet ==
  ASSUME NEW S, NEW c \in Seq(S), NEW v
  PROVE  v \in ToSet(c) <=> In(c, v)
BY LenProperties DEF ToSet, In

LEMMA InConcat ==
  ASSUME NEW S, NEW a \in Seq(S), NEW b \in Seq(S), NEW v
  PROVE  In(a \o b, v) <=> In(a, v) \/ In(b, v)
<1>1. /\ Len(a \o b) = Len(a) + Len(b) /\ Len(a) \in Nat /\ Len(b) \in Nat
      /\ \A i \in 1 .. Len(a) + Len(b) :
           (a \o b)[i] = IF i <= Len(a) THEN a[i] ELSE b[i - Len(a)]
      BY ConcatProperties, LenProperties
<1>2. ASSUME In(a \o b, v) PROVE In(a, v) \/ In(b, v)
  <2>1. PICK x \in 1 .. Len(a) + Len(b) : (a \o b)[x] = v
        BY <1>1, <1>2 DEF In
  <2>2. CASE x <= Len(a)
    <3>1. x \in 1 .. Len(a) /\ a[x] = v
          BY <1>1, <2>1, <2>2
    <3> QED
      BY <3>1 DEF In
  <2>3. CASE ~(x <= Len(a))
    <3>1. x - Len(a) \in 1 .. Len(b) /\ b[x - Len(a)] = v
          BY <1>1, <2>1, <2>3
    <3> QED
      BY <3>1 DEF In
  <2> QED
    BY <2>2, <2>3
<1>3. ASSUME In(a, v) PROVE In(a \o b, v)
  <2>1. PICK x \in 1 .. Len(a) : a[x] = v
        BY <1>3 DEF In
  <2>2. x \in 1 .. Len(a \o b) /\ (a \o b)[x] = v
        BY <1>1, <2>1
  <2> QED
    BY <2>2 DEF In
<1>4. ASSUME In(b, v) PROVE In(a \o b, v)
  <2>1. PICK x \in 1 .. Len(b) : b[x] = v
        BY <1>4 DEF In
  <2>2. Len(a) + x \in 1 .. Len(a \o b) /\ (a \o b)[Len(a) + x] = v
    <3>1. Len(a) + x \in 1 .. Len(a) + Len(b) /\ ~(Len(a) + x <= Len(a))
          /\ (Len(a) + x) - Len(a) = x
          BY <1>1, <2>1
    <3> QED
      BY <1>1, <2>1, <3>1
  <2> QED
    BY <2>2 DEF In
<1> QED
  BY <1>2, <1>3, <1>4

LEMMA RelatedConcat ==
  ASSUME NEW S, NEW a \in Seq(S), NEW b \in Seq(S), NEW Rel,
         Related(Rel, a), Related(Rel, b),
         \A v, w : In(a, v) /\ In(b, w) => <<v, w>> \in Rel
  PROVE  Related(Rel, a \o b)
<1>1. /\ Len(a \o b) = Len(a) + Len(b) /\ Len(a) \in Nat /\ Len(b) \in Nat
      /\ \A i \in 1 .. Len(a) + Len(b) :
           (a \o b)[i] = IF i <= Len(a) THEN a[i] ELSE b[i - Len(a)]
      BY ConcatProperties, LenProperties
<1> DEFINE c == a \o b
<1> HIDE DEF c
<1>2. ASSUME NEW x \in 1 .. Len(c), NEW y \in 1 .. Len(c), x < y
      PROVE  <<c[x], c[y]>> \in Rel
  <2>1. x \in 1 .. Len(a) + Len(b) /\ y \in 1 .. Len(a) + Len(b)
        BY <1>1 DEF c
  <2>2. CASE y <= Len(a)
    <3>1. c[x] = a[x] /\ c[y] = a[y] /\ x \in 1 .. Len(a) /\ y \in 1 .. Len(a)
          BY <1>1, <1>2, <2>1, <2>2 DEF c
    <3> QED
      BY <1>2, <3>1 DEF Related
  <2>3. CASE x <= Len(a) /\ ~(y <= Len(a))
    <3>1. c[x] = a[x] /\ c[y] = b[y - Len(a)] /\ x \in 1 .. Len(a) /\ y - Len(a) \in 1 .. Len(b)
          BY <1>1, <2>1, <2>3 DEF c
    <3>2. In(a, c[x]) /\ In(b, c[y])
          BY <3>1 DEF In
    <3> QED
      BY <3>2
  <2>4. CASE ~(x <= Len(a))
    <3>1. /\ c[x] = b[x - Len(a)] /\ c[y] = b[y - Len(a)]
          /\ x - Len(a) \in 1 .. Len(b) /\ y - Len(a) \in 1 .. Len(b)
          /\ x - Len(a) < y - Len(a)
          BY <1>1, <1>2, <2>1, <2>4 DEF c
    <3> QED
      BY <3>1 DEF Related
  <2> QED
    BY <1>1, <2>2, <2>3, <2>4
<1> QED
  BY <1>2 DEF Related, c

\* The members of several sequences one after the other, by induction.
LEMMA ConcatMembers ==
  ASSUME NEW S, NEW n \in Nat, NEW s \in ManySeqs(S, n), NEW j \in 0 .. n, NEW v
  PROVE  In(Concat(s, 1, j), v) <=> InSome(s, j, v)
<1> DEFINE T == {k \in Nat : k <= n => (In(Concat(s, 1, k), v) <=> InSome(s, k, v))}
<1>1. 0 \in T
  <2>1. 0 \in 0 .. n /\ 1 \in Nat \ {0} /\ 0 < 1
        OBVIOUS
  <2>2. Concat(s, 1, 0) = <<>>
        BY <2>1, ConcatSteps
  <2>3. ~In(Concat(s, 1, 0), v)
        BY <2>2 DEF In
  <2>4. ~InSome(s, 0, v)
        BY DEF InSome
  <2> QED
    BY <2>3, <2>4
<1>2. ASSUME NEW k \in T PROVE k + 1 \in T
  <2> SUFFICES ASSUME k + 1 <= n PROVE In(Concat(s, 1, k + 1), v) <=> InSome(s, k + 1, v)
      OBVIOUS
  <2>1. /\ k \in Nat /\ k \in 0 .. n /\ k + 1 \in 0 .. n /\ k + 1 \in 1 .. n /\ (k + 1) - 1 = k
        /\ 1 \in Nat \ {0} /\ 1 <= k + 1
        OBVIOUS
  <2>2. In(Concat(s, 1, k), v) <=> InSome(s, k, v)
        BY <2>1
  <2>3. Concat(s, 1, k + 1) = Concat(s, 1, k) \o s[k + 1]
    <3>1. Concat(s, 1, k + 1) = Concat(s, 1, (k + 1) - 1) \o s[k + 1]
          BY <2>1, ConcatLast
    <3> QED
      BY <2>1, <3>1
  <2>4. Concat(s, 1, k) \in Seq(S)
        BY <2>1, ConcatSteps
  <2>5. s[k + 1] \in Seq(S)
        BY <2>1 DEF ManySeqs
  <2>6. In(Concat(s, 1, k + 1), v) <=> In(Concat(s, 1, k), v) \/ In(s[k + 1], v)
    <3> DEFINE a == Concat(s, 1, k)
               b == s[k + 1]
    <3>1. a \in Seq(S)
          BY <2>4
    <3>2. b \in Seq(S)
          BY <2>5
    <3> HIDE DEF a, b
    <3>3. In(a \o b, v) <=> In(a, v) \/ In(b, v)
          BY <3>1, <3>2, InConcat
    <3> QED
      BY <2>3, <3>3, Zenon DEF a, b
  <2>7. InSome(s, k + 1, v) <=> InSome(s, k, v) \/ In(s[k + 1], v)
    <3>1. \A i \in 1 .. k + 1 : i \in 1 .. k \/ i = k + 1
          BY <2>1
    <3>2. 1 .. k \subseteq 1 .. k + 1 /\ k + 1 \in 1 .. k + 1
          BY <2>1
    <3> QED
      BY <3>1, <3>2, Zenon DEF InSome
  <2> QED
    BY <2>2, <2>6, <2>7
<1>3. T = Nat
  <2>1. T \in SUBSET Nat
        OBVIOUS
  <2> HIDE DEF T
  <2> QED
    BY <1>1, <1>2, <2>1, Induction
<1> QED
  BY <1>3

\* Their order, if what stands in an earlier one is related to what stands in a later one.
LEMMA ConcatRelated ==
  ASSUME NEW S, NEW n \in Nat, NEW s \in ManySeqs(S, n), NEW Rel,
         \A k \in 1 .. n : Related(Rel, s[k]),
         \A k, l \in 1 .. n : k < l =>
           \A v, w : In(s[k], v) /\ In(s[l], w) => <<v, w>> \in Rel
  PROVE  \A j \in 0 .. n : Related(Rel, Concat(s, 1, j))
<1> DEFINE T == {k \in Nat : k <= n => Related(Rel, Concat(s, 1, k))}
<1>1. 0 \in T
  <2>1. 0 \in 0 .. n /\ 1 \in Nat \ {0} /\ 0 < 1
        OBVIOUS
  <2>2. Concat(s, 1, 0) = <<>>
        BY <2>1, ConcatSteps
  <2> QED
    BY <2>2 DEF Related
<1>2. ASSUME NEW k \in T PROVE k + 1 \in T
  <2> SUFFICES ASSUME k + 1 <= n PROVE Related(Rel, Concat(s, 1, k + 1))
      OBVIOUS
  <2>1. /\ k \in Nat /\ k \in 0 .. n /\ k + 1 \in 0 .. n /\ k + 1 \in 1 .. n /\ (k + 1) - 1 = k
        /\ 1 \in Nat \ {0} /\ 1 <= k + 1
        OBVIOUS
  <2>2. Related(Rel, Concat(s, 1, k))
        BY <2>1
  <2>3. Concat(s, 1, k + 1) = Concat(s, 1, k) \o s[k + 1]
    <3>1. Concat(s, 1, k + 1) = Concat(s, 1, (k + 1) - 1) \o s[k + 1]
          BY <2>1, ConcatLast
    <3> QED
      BY <2>1, <3>1
  <2>4. Concat(s, 1, k) \in Seq(S)
        BY <2>1, ConcatSteps
  <2>5. s[k + 1] \in Seq(S) /\ Related(Rel, s[k + 1])
        BY <2>1 DEF ManySeqs
  <2>6. ASSUME NEW v, NEW w, In(Concat(s, 1, k), v), In(s[k + 1], w)
        PROVE  <<v, w>> \in Rel
    <3>1. InSome(s, k, v)
          BY <2>1, <2>6, ConcatMembers
    <3>2. PICK i \in 1 .. k : In(s[i], v)
          BY <3>1 DEF InSome
    <3>3. i \in 1 .. n /\ i < k + 1
          BY <2>1
    <3> QED
      BY <2>1, <2>6, <3>2, <3>3
  <2>7. Related(Rel, Concat(s, 1, k) \o s[k + 1])
        BY <2>2, <2>4, <2>5, <2>6, RelatedConcat
  <2> QED
    BY <2>3, <2>7
<1>3. T = Nat
  <2>1. T \in SUBSET Nat
        OBVIOUS
  <2> HIDE DEF T
  <2> QED
    BY <1>1, <1>2, <2>1, Induction
<1> QED
  BY <1>3

LEMMA FactsAssociate ==
  \A a, b, c \in Seq(Fact) : (a \o b) \o c = a \o (b \o c)
BY ConcatAssociative

\* The facts of some blocks are those of the first ones and then those of the others.
LEMMA FactsSplit ==
  ASSUME NEW bs \in Seq(Block), NEW m \in 0 .. Len(bs), NEW n \in m .. Len(bs)
  PROVE  FactsOf(bs, 1, n) = FactsOf(bs, 1, m) \o FactsOf(bs, m + 1, n)
<1> DEFINE F(i, j) == FactsOf(bs, i, j)
           T == {k \in Nat : m + k <= Len(bs) => F(1, m + k) = F(1, m) \o F(m + 1, m + k)}
<1>0. Len(bs) \in Nat /\ m \in Nat /\ m + 1 \in Nat \ {0} /\ 1 \in Nat \ {0}
      BY LenProperties
<1>1. 0 \in T
  <2>1. F(1, m) \in Seq(Fact)
        BY <1>0, FactsSteps
  <2>2. F(m + 1, m) = <<>>
    <3>1. m < m + 1
          BY <1>0
    <3> QED
      BY <1>0, <3>1, FactsSteps
  <2>3. m + 0 = m
        BY <1>0
  <2> HIDE DEF F
  <2> QED
    BY <2>1, <2>2, <2>3, ConcatEmptySeq
<1>2. ASSUME NEW k \in T PROVE k + 1 \in T
  <2> SUFFICES ASSUME m + (k + 1) <= Len(bs)
               PROVE  F(1, m + (k + 1)) = F(1, m) \o F(m + 1, m + (k + 1))
      OBVIOUS
  <2> DEFINE j == m + (k + 1)
  <2>1. /\ k \in Nat /\ j \in 0 .. Len(bs) /\ j - 1 = m + k /\ j - 1 \in 0 .. Len(bs)
        /\ 1 <= j /\ m + 1 <= j /\ j \in 1 .. Len(bs)
        BY <1>0
  <2>2. F(1, m + k) = F(1, m) \o F(m + 1, m + k)
        BY <1>0, <2>1
  <2> HIDE DEF j
  <2>3. F(1, j) = F(1, j - 1) \o bs[j].facts
        BY <1>0, <2>1, FactsSteps
  <2>4. F(m + 1, j) = F(m + 1, j - 1) \o bs[j].facts
        BY <1>0, <2>1, FactsSteps
  <2>5. bs[j].facts \in Seq(Fact)
        BY <2>1, ElementOfSeq, BlockFields
  <2>6. F(1, m) \in Seq(Fact)
        BY <1>0, FactsSteps
  <2>7. F(m + 1, j - 1) \in Seq(Fact)
        BY <1>0, <2>1, FactsSteps
  <2> HIDE DEF F
  <2>8. (F(1, m) \o F(m + 1, j - 1)) \o bs[j].facts = F(1, m) \o (F(m + 1, j - 1) \o bs[j].facts)
    <3> DEFINE a == F(1, m)
               b == F(m + 1, j - 1)
               c == bs[j].facts
    <3>1. a \in Seq(Fact)
          BY <2>6
    <3>2. b \in Seq(Fact)
          BY <2>7
    <3>3. c \in Seq(Fact)
          BY <2>5
    <3> HIDE DEF a, b, c
    <3>4. (a \o b) \o c = a \o (b \o c)
          BY <3>1, <3>2, <3>3, FactsAssociate
    <3> QED
      BY <3>4 DEF a, b, c
  <2>9. F(1, j) = F(1, m) \o F(m + 1, j)
        BY <2>1, <2>2, <2>3, <2>4, <2>8
  <2> QED
    BY <2>9 DEF j
<1>3. T = Nat
  <2>1. T \in SUBSET Nat
        OBVIOUS
  <2> HIDE DEF T
  <2> QED
    BY <1>1, <1>2, <2>1, Induction
<1>4. n - m \in T /\ m + (n - m) = n /\ m + (n - m) <= Len(bs)
  <2>1. n - m \in Nat
        BY <1>0
  <2> HIDE DEF T
  <2> QED
    BY <1>0, <1>3, <2>1
<1> QED
  BY <1>4

\* What several sequences say does not depend on those behind them.
LEMMA ConcatSame ==
  ASSUME NEW S, NEW n \in Nat, NEW s \in ManySeqs(S, n), NEW m \in Nat, NEW t \in ManySeqs(S, m),
         NEW j \in Nat, j <= n, j <= m, \A k \in 1 .. j : s[k] = t[k]
  PROVE  Concat(s, 1, j) = Concat(t, 1, j)
<1> DEFINE T == {k \in Nat : k <= j => Concat(s, 1, k) = Concat(t, 1, k)}
<1>1. 0 \in T
  <2>1. 0 \in 0 .. n /\ 0 \in 0 .. m /\ 1 \in Nat \ {0} /\ 0 < 1
        OBVIOUS
  <2>2. Concat(s, 1, 0) = <<>>
        BY <2>1, ConcatSteps
  <2>3. Concat(t, 1, 0) = <<>>
        BY <2>1, ConcatSteps
  <2> QED
    BY <2>2, <2>3
<1>2. ASSUME NEW k \in T PROVE k + 1 \in T
  <2> SUFFICES ASSUME k + 1 <= j PROVE Concat(s, 1, k + 1) = Concat(t, 1, k + 1)
      OBVIOUS
  <2>1. /\ k + 1 \in 0 .. n /\ k + 1 \in 0 .. m /\ k + 1 \in 1 .. j /\ (k + 1) - 1 = k
        /\ 1 \in Nat \ {0} /\ 1 <= k + 1 /\ Concat(s, 1, k) = Concat(t, 1, k)
        OBVIOUS
  <2>2. Concat(s, 1, k + 1) = Concat(s, 1, (k + 1) - 1) \o s[k + 1]
        BY <2>1, ConcatLast, ZenonT(60)
  <2>3. Concat(t, 1, k + 1) = Concat(t, 1, (k + 1) - 1) \o t[k + 1]
        BY <2>1, ConcatLast, ZenonT(60)
  <2>4. s[k + 1] = t[k + 1]
        BY <2>1
  <2> QED
    BY <2>1, <2>2, <2>3, <2>4
<1>3. T = Nat
  <2>1. T \in SUBSET Nat
        OBVIOUS
  <2> HIDE DEF T
  <2> QED
    BY <1>1, <1>2, <2>1, Induction
<1> QED
  BY <1>3

-----------------------------------------------------------------------------
(* What the chunks deliver *)

DeliversIn(bs, c) == IF c.kind = "rows" THEN SubSeq(bs[c.first].facts, c.rows[1], c.rows[2])
                     ELSE FactsOf(bs, c.fresh, c.last)
DeliveriesIn(bs, cs) == [k \in DOMAIN cs |-> DeliversIn(bs, cs[k])]
DeliveredIn(bs, cs) == Concat(DeliveriesIn(bs, cs), 1, Len(cs))

LEMMA DeliversType ==
  ASSUME NEW bs \in Seq(Block), NEW c, Placed(bs, c), Ranged(bs, c)
  PROVE  DeliversIn(bs, c) \in Seq(Fact)
<1>1. Len(bs) \in Nat /\ c.first \in 1 .. Len(bs) /\ bs[c.first] \in Block
      BY LenProperties, ElementOfSeq DEF Placed
<1>2. CASE c.kind = "rows"
  <2> DEFINE b == bs[c.first]
  <2>1. b.kind = "table" /\ c.rows[1] \in 1 .. Len(b.rows) /\ c.rows[2] \in c.rows[1] .. Len(b.rows)
        BY <1>2 DEF Ranged
  <2>2. b.facts \in Seq(Fact) /\ Len(b.facts) = Len(b.rows) /\ Len(b.rows) \in Nat
        BY <1>1, <2>1, TableFields, LenProperties
  <2> HIDE DEF b
  <2>3. \A i \in c.rows[1] .. c.rows[2] : b.facts[i] \in Fact
        BY <2>1, <2>2, ElementOfSeq
  <2>4. SubSeq(b.facts, c.rows[1], c.rows[2]) \in Seq(Fact)
        BY <2>1, <2>3, SubSeqProperties
  <2> QED
    BY <1>2, <2>4 DEF DeliversIn, b
<1>3. CASE c.kind # "rows"
  <2>1. c.fresh \in Nat \ {0} /\ c.last \in 0 .. Len(bs)
        BY <1>1 DEF Placed
  <2> QED
    BY <1>3, <2>1, FactsSteps DEF DeliversIn
<1> QED
  BY <1>2, <1>3

LEMMA DeliveriesType ==
  ASSUME NEW bs \in Seq(Block), NEW lim, NEW cs \in Seq(Chunk), Good(bs, lim, cs)
  PROVE  DeliveriesIn(bs, cs) \in ManySeqs(Fact, Len(cs)) /\ Len(cs) \in Nat
<1>1. DOMAIN cs = 1 .. Len(cs) /\ Len(cs) \in Nat
      BY LenProperties
<1>2. \A k \in 1 .. Len(cs) : DeliversIn(bs, cs[k]) \in Seq(Fact)
  <2> TAKE k \in 1 .. Len(cs)
  <2>1. Placed(bs, cs[k]) /\ Ranged(bs, cs[k])
        BY DEF Good
  <2> QED
    BY <2>1, DeliversType
<1> QED
  BY <1>1, <1>2 DEF DeliveriesIn, ManySeqs

LEMMA DeliveredAppend ==
  ASSUME NEW bs \in Seq(Block), NEW lim, NEW cs \in Seq(Chunk), NEW c \in Chunk,
         Good(bs, lim, cs), Good(bs, lim, Append(cs, c))
  PROVE  DeliveredIn(bs, Append(cs, c)) = DeliveredIn(bs, cs) \o DeliversIn(bs, c)
<1> DEFINE ds == Append(cs, c)
           s == DeliveriesIn(bs, cs)
           t == DeliveriesIn(bs, ds)
           n == Len(cs)
<1>1. /\ ds \in Seq(Chunk) /\ Len(ds) = n + 1 /\ n \in Nat
      /\ \A k \in 1 .. n : ds[k] = cs[k]
      /\ ds[n + 1] = c
      BY AppendProperties, LenProperties
<1> HIDE DEF ds
<1>2. s \in ManySeqs(Fact, n) /\ t \in ManySeqs(Fact, n + 1)
      BY <1>1, DeliveriesType DEF ds
<1>3. \A k \in 1 .. n : s[k] = t[k]
      BY <1>1, LenProperties DEF DeliveriesIn
<1>4. t[n + 1] = DeliversIn(bs, c)
      BY <1>1, LenProperties DEF DeliveriesIn
<1> HIDE DEF s, t
<1>5. Concat(s, 1, n) = Concat(t, 1, n)
  <2>1. n \in Nat /\ n + 1 \in Nat /\ n <= n /\ n <= n + 1
        BY <1>1
  <2> QED
    BY <1>2, <1>3, <2>1, ConcatSame
<1>6. Concat(t, 1, n + 1) = Concat(t, 1, n) \o t[n + 1]
  <2>1. n + 1 \in Nat /\ n + 1 \in 0 .. n + 1 /\ 1 \in Nat \ {0} /\ 1 <= n + 1 /\ (n + 1) - 1 = n
        BY <1>1
  <2>2. Concat(t, 1, n + 1) = Concat(t, 1, (n + 1) - 1) \o t[n + 1]
        BY <1>2, <2>1, ConcatLast
  <2> QED
    BY <2>1, <2>2
<1> QED
  BY <1>1, <1>4, <1>5, <1>6 DEF DeliveredIn, s, t, ds

\* The chunks have delivered all facts of the blocks before the ones in hand.
Progress ==
  /\ pc \in {"stitch", "clean", "optimize"} => DeliveredIn(blocks, chunks) = <<>>
  /\ pc = "chunk" => DeliveredIn(blocks, chunks) =
                       IF row = 0 THEN FactsOf(blocks, 1, fresh - 1)
                       ELSE FactsOf(blocks, 1, next - 1) \o SubSeq(blocks[next].facts, 1, row - 1)
  /\ pc = "done" => DeliveredIn(blocks, chunks) = FactsOf(blocks, 1, Len(blocks))

LEMMA NothingDelivered ==
  ASSUME NEW bs \in Seq(Block)
  PROVE  DeliveredIn(bs, <<>>) = <<>> /\ FactsOf(bs, 1, 0) = <<>>
<1>1. DeliveriesIn(bs, <<>>) \in ManySeqs(Fact, 0) /\ Len(<<>>) = 0
  <2>1. DOMAIN <<>> = 1 .. 0
        OBVIOUS
  <2> QED
    BY <2>1 DEF DeliveriesIn, ManySeqs
<1>2. 0 \in Nat /\ 0 \in 0 .. 0 /\ 1 \in Nat \ {0} /\ 0 < 1
      OBVIOUS
<1>3. Concat(DeliveriesIn(bs, <<>>), 1, 0) = <<>>
      BY <1>1, <1>2, ConcatSteps
<1>4. FactsOf(bs, 1, 0) = <<>>
  <2>1. 0 \in 0 .. Len(bs)
        BY LenProperties
  <2> QED
    BY <1>2, <2>1, FactsSteps
<1> QED
  BY <1>1, <1>3, <1>4 DEF DeliveredIn

\* A flush delivers what is in hand and was not carried over.
LEMMA FlushDelivers ==
  ASSUME IInv, Progress, pc = "chunk", row = 0
  PROVE  DeliveredIn(blocks, Flushed) = FactsOf(blocks, 1, next - 1)
<1>1. /\ blocks \in Seq(Block) /\ Len(blocks) \in Nat /\ next \in 1 .. (Len(blocks) + 1)
      /\ first \in 1 .. next /\ fresh \in first .. next
      BY LenProperties DEF IInv, TypeOK
<1>2. DeliveredIn(blocks, chunks) = FactsOf(blocks, 1, fresh - 1)
      BY DEF Progress
<1>3. CASE ~(first < next)
  <2>1. fresh = next
        BY <1>1, <1>3
  <2> QED
    BY <1>2, <1>3, <2>1 DEF Flushed
<1>4. CASE first < next
  <2>1. /\ Good(blocks, limits, chunks) /\ chunks \in Seq(Chunk)
        /\ Good(blocks, limits, Flushed) /\ TextChunk \in Chunk
        /\ Flushed = Append(chunks, TextChunk)
        BY <1>4, FlushInv DEF IInv, Flushed
  <2>2. DeliversIn(blocks, TextChunk) = FactsOf(blocks, fresh, next - 1)
        BY DEF DeliversIn, TextChunk
  <2>3. DeliveredIn(blocks, Flushed) = FactsOf(blocks, 1, fresh - 1) \o FactsOf(blocks, fresh, next - 1)
        BY <1>1, <1>2, <2>1, <2>2, DeliveredAppend
  <2>4. fresh - 1 \in 0 .. Len(blocks) /\ next - 1 \in (fresh - 1) .. Len(blocks)
        /\ (fresh - 1) + 1 = fresh
        BY <1>1
  <2>5. FactsOf(blocks, 1, next - 1)
          = FactsOf(blocks, 1, fresh - 1) \o FactsOf(blocks, (fresh - 1) + 1, next - 1)
        BY <1>1, <2>4, FactsSplit
  <2> QED
    BY <2>3, <2>4, <2>5
<1> QED
  BY <1>3, <1>4

\* One more range of a table's rows: they come behind those already delivered.
LEMMA RowsAdjacent ==
  ASSUME NEW f \in Seq(Fact), NEW g \in Seq(Fact), NEW r \in 1 .. Len(f), NEW e \in r .. Len(f)
  PROVE  /\ (g \o SubSeq(f, 1, r - 1)) \o SubSeq(f, r, e) = g \o SubSeq(f, 1, e)
         /\ e = Len(f) => g \o SubSeq(f, 1, e) = g \o f
         /\ g \o SubSeq(f, 1, 0) = g
<1>1. Len(f) \in Nat /\ \A i \in 1 .. Len(f) : f[i] \in Fact
      BY LenProperties, ElementOfSeq
<1> DEFINE a == SubSeq(f, 1, r - 1)
           b == SubSeq(f, r, e)
<1>2. a \in Seq(Fact)
  <2>1. 1 \in Int /\ r - 1 \in Int /\ \A i \in 1 .. (r - 1) : f[i] \in Fact
        BY <1>1
  <2> QED
    BY <2>1, SubSeqProperties
<1>3. b \in Seq(Fact)
  <2>1. r \in Int /\ e \in Int /\ \A i \in r .. e : f[i] \in Fact
        BY <1>1
  <2> QED
    BY <2>1, SubSeqProperties
<1>4. a \o b = SubSeq(f, 1, e)
  <2>1. 1 \in 1 .. Len(f) + 1 /\ r - 1 \in (1 - 1) .. Len(f) /\ e \in (r - 1) .. Len(f)
        /\ (r - 1) + 1 = r
        BY <1>1
  <2>2. SubSeq(f, 1, r - 1) \o SubSeq(f, (r - 1) + 1, e) = SubSeq(f, 1, e)
        BY <2>1, ConcatAdjacentSubSeq
  <2> QED
    BY <2>1, <2>2
<1> HIDE DEF a, b
<1>5. (g \o a) \o b = g \o (a \o b)
      BY <1>2, <1>3, FactsAssociate, ZenonT(60)
<1>6. e = Len(f) => SubSeq(f, 1, e) = f
      BY SubSeqFull
<1>7. SubSeq(f, 1, 0) = <<>>
      BY SubSeqEmpty
<1>8. g \o <<>> = g
      BY ConcatEmptySeq
<1> QED
  BY <1>4, <1>5, <1>6, <1>7, <1>8 DEF a, b

LEMMA InitProgress == Init => Progress
<1> SUFFICES ASSUME Init PROVE Progress
    OBVIOUS
<1>1. blocks \in Seq(Block) /\ chunks = <<>> /\ pc \in {"stitch", "clean"}
      BY SourcesAssumption DEF Init
<1> QED
  BY <1>1, NothingDelivered DEF Progress

LEMMA EarlyProgress ==
  ASSUME IInv, IInv', StitchTables \/ Clean \/ Optimize
  PROVE  Progress'
<1>1. /\ pc' \in {"clean", "optimize", "chunk"} /\ pc \in {"stitch", "clean", "optimize"}
      /\ chunks' = chunks /\ fresh' = fresh /\ row' = row
      BY DEF StitchTables, Clean, Optimize
<1>2. chunks = <<>> /\ fresh = 1 /\ row = 0 /\ blocks' \in Seq(Block)
      BY <1>1 DEF IInv, Early, TypeOK
<1>3. DeliveredIn(blocks', <<>>) = <<>> /\ FactsOf(blocks', 1, 0) = <<>>
      BY <1>2, NothingDelivered
<1> QED
  BY <1>1, <1>2, <1>3 DEF Progress

\* A heading, a table or the end: what was in hand is delivered.
LEMMA FlushProgress ==
  ASSUME IInv, IInv', Progress, ChunkHeading \/ ChunkTable \/ Finish
  PROVE  Progress'
<1>1. /\ pc = "chunk" /\ row = 0 /\ chunks' = Flushed /\ blocks' = blocks
      BY DEF ChunkHeading, ChunkTable, Finish, Looking, Keeps
<1>2. DeliveredIn(blocks', chunks') = FactsOf(blocks, 1, next - 1)
      BY <1>1, FlushDelivers
<1>3. blocks \in Seq(Block) /\ Len(blocks) \in Nat /\ next \in 1 .. (Len(blocks) + 1)
      BY LenProperties DEF IInv, TypeOK
<1>4. CASE ChunkHeading
  <2>1. pc' = "chunk" /\ row' = 0 /\ fresh' = next
        BY <1>1, <1>4 DEF ChunkHeading, Keeps
  <2> QED
    BY <1>1, <1>2, <2>1 DEF Progress
<1>5. CASE ChunkTable
  <2>1. pc' = "chunk" /\ row' = 1 /\ next' = next /\ next <= Len(blocks)
        BY <1>1, <1>5 DEF ChunkTable, Keeps, Looking
  <2>2. blocks[next].facts \in Seq(Fact)
        BY <1>3, <2>1, ElementOfSeq, BlockFields
  <2>3. FactsOf(blocks, 1, next - 1) \in Seq(Fact)
    <3>1. next - 1 \in 0 .. Len(blocks) /\ 1 \in Nat \ {0}
          BY <1>3
    <3> QED
      BY <1>3, <3>1, FactsSteps
  <2>4. SubSeq(blocks[next].facts, 1, 0) = <<>>
        BY SubSeqEmpty
  <2>5. FactsOf(blocks, 1, next - 1) \o <<>> = FactsOf(blocks, 1, next - 1)
        BY <2>3, ConcatEmptySeq
  <2>6. row' - 1 = 0 /\ row' # 0
        BY <2>1
  <2> QED
    BY <1>1, <1>2, <2>1, <2>4, <2>5, <2>6 DEF Progress
<1>6. CASE Finish
  <2>1. pc' = "done" /\ next > Len(blocks)
        BY <1>6 DEF Finish
  <2>2. next - 1 = Len(blocks)
        BY <1>3, <2>1
  <2> QED
    BY <1>1, <1>2, <2>1, <2>2 DEF Progress
<1> QED
  BY <1>4, <1>5, <1>6

LEMMA GroupProgress ==
  ASSUME IInv, IInv', Progress, ChunkGroup
  PROVE  Progress'
<1> DEFINE c == [kind |-> "group", heading |-> heading, first |-> next, fresh |-> next,
                 last |-> next, rows |-> <<0, 0>>, oversize |-> FALSE, pages |-> PagesOf({next}), sources |-> {}]
<1>1. /\ pc = "chunk" /\ pc' = "chunk" /\ row = 0 /\ row' = 0 /\ next <= Len(blocks)
      /\ chunks' = Append(Flushed, c) /\ fresh' = next + 1 /\ heading' = heading
      /\ blocks' = blocks /\ limits' = limits
      BY DEF ChunkGroup, Looking, Keeps
<1>2. blocks \in Seq(Block) /\ Len(blocks) \in Nat /\ next \in 1 .. Len(blocks)
      /\ heading \in Nat
      BY <1>1, LenProperties DEF IInv, TypeOK
<1>3. Flushed \in Seq(Chunk) /\ Good(blocks, limits, Flushed)
      BY <1>1, FlushInv
<1>4. Good(blocks, limits, Append(Flushed, c))
      BY <1>1 DEF IInv
<1>5. DeliversIn(blocks, c) = FactsOf(blocks, next, next)
      BY DEF DeliversIn
<1>6. c \in Chunk
  <2> DEFINE pages == PagesOf({next})
  <2>1. pages \in SUBSET Int
        BY PagesType
  <2>2. next \in Nat /\ <<0, 0>> \in Nat \X Nat
        BY <1>2
  <2> HIDE DEF pages
  <2>3. [kind |-> "group", heading |-> heading, first |-> next, fresh |-> next, last |-> next,
         rows |-> <<0, 0>>, oversize |-> FALSE, pages |-> pages, sources |-> {}] \in Chunk
        BY <1>2, <2>1, <2>2 DEF Chunk
  <2> QED
    BY <2>3 DEF pages
<1> HIDE DEF c
<1>7. DeliveredIn(blocks, Append(Flushed, c)) = DeliveredIn(blocks, Flushed) \o FactsOf(blocks, next, next)
      BY <1>2, <1>3, <1>4, <1>5, <1>6, DeliveredAppend
<1>8. DeliveredIn(blocks, Flushed) = FactsOf(blocks, 1, next - 1)
      BY <1>1, FlushDelivers
<1>9. FactsOf(blocks, 1, next) = FactsOf(blocks, 1, next - 1) \o FactsOf(blocks, next, next)
  <2>1. next - 1 \in 0 .. Len(blocks) /\ next \in (next - 1) .. Len(blocks) /\ (next - 1) + 1 = next
        BY <1>2
  <2>2. FactsOf(blocks, 1, next) = FactsOf(blocks, 1, next - 1) \o FactsOf(blocks, (next - 1) + 1, next)
        BY <1>2, <2>1, FactsSplit
  <2> QED
    BY <2>1, <2>2
<1>10. fresh' - 1 = next
       BY <1>1, <1>2
<1>11. DeliveredIn(blocks', chunks') = FactsOf(blocks', 1, fresh' - 1)
       BY <1>1, <1>7, <1>8, <1>9, <1>10
<1> QED
  BY <1>1, <1>11 DEF Progress

LEMMA RowsProgress ==
  ASSUME IInv, IInv', Progress, ChunkRows
  PROVE  Progress'
<1> DEFINE b == blocks[next]
           e == RangeEnd(b, row)
           c == [kind |-> "rows", heading |-> heading, first |-> next, fresh |-> next,
                 last |-> next, rows |-> <<row, e>>, oversize |-> Oversize(b, row, e),
                 pages |-> PagesOf({next}), sources |-> SourcePages(b, row, e)]
           g == FactsOf(blocks, 1, next - 1)
<1>1. /\ pc = "chunk" /\ pc' = "chunk" /\ row > 0
      /\ chunks' = Append(chunks, c)
      /\ \/ e < Len(b.rows) /\ row' = e + 1 /\ next' = next
         \/ ~(e < Len(b.rows)) /\ row' = 0 /\ next' = next + 1 /\ fresh' = next + 1
      /\ blocks' = blocks /\ limits' = limits
      BY DEF ChunkRows, Keeps
<1>2. /\ blocks \in Seq(Block) /\ Len(blocks) \in Nat /\ next \in 1 .. Len(blocks)
      /\ limits \in Limits /\ b.kind = "table" /\ row \in Nat /\ row <= Len(b.rows)
      BY <1>1, LenProperties DEF IInv, TypeOK, AtRow
<1>3. b \in Block
      BY <1>2, ElementOfSeq
<1>4. /\ Len(b.rows) \in Nat /\ row \in 1 .. Len(b.rows)
      /\ b.facts \in Seq(Fact) /\ Len(b.facts) = Len(b.rows)
      BY <1>1, <1>2, <1>3, TableFields, LenProperties
<1>5. e \in row .. Len(b.rows)
      BY <1>2, <1>3, <1>4, RangeEndIs
<1>6. c.kind = "rows" /\ c.first = next /\ c.rows[1] = row /\ c.rows[2] = e
      OBVIOUS
<1>7. /\ chunks \in Seq(Chunk) /\ Good(blocks, limits, chunks)
      /\ Append(chunks, c) \in Seq(Chunk) /\ Good(blocks, limits, Append(chunks, c))
      BY <1>1 DEF IInv
<1> HIDE DEF b, e, c
<1>8. c \in Chunk
  <2>1. Len(chunks) \in Nat /\ Append(chunks, c)[Len(chunks) + 1] = c
        /\ Len(Append(chunks, c)) = Len(chunks) + 1
        BY <1>7, LenProperties, AppendProperties
  <2> QED
    BY <1>7, <2>1, ElementOfSeq
<1>9. DeliversIn(blocks, c) = SubSeq(b.facts, row, e)
      BY <1>6 DEF DeliversIn, b
<1>10. DeliveredIn(blocks, Append(chunks, c)) = DeliveredIn(blocks, chunks) \o SubSeq(b.facts, row, e)
       BY <1>2, <1>7, <1>8, <1>9, DeliveredAppend
<1>11. DeliveredIn(blocks, chunks) = g \o SubSeq(b.facts, 1, row - 1)
  <2>1. row # 0
        BY <1>1
  <2> QED
    BY <1>1, <2>1 DEF Progress, b
<1>12. g \in Seq(Fact) /\ FactsOf(blocks, 1, next) = g \o b.facts
  <2>1. next - 1 \in 0 .. Len(blocks) /\ 1 \in Nat \ {0} /\ next \in 0 .. Len(blocks) /\ 1 <= next
        BY <1>2
  <2>2. g \in Seq(Fact)
        BY <1>2, <2>1, FactsSteps
  <2>3. FactsOf(blocks, 1, next) = FactsOf(blocks, 1, next - 1) \o blocks[next].facts
        BY <1>2, <2>1, FactsSteps
  <2> QED
    BY <2>2, <2>3 DEF b
<1> HIDE DEF g
<1>13. /\ DeliveredIn(blocks, Append(chunks, c)) = g \o SubSeq(b.facts, 1, e)
       /\ e = Len(b.rows) => g \o SubSeq(b.facts, 1, e) = g \o b.facts
  <2>1. row \in 1 .. Len(b.facts) /\ e \in row .. Len(b.facts)
        BY <1>4, <1>5
  <2>2. (g \o SubSeq(b.facts, 1, row - 1)) \o SubSeq(b.facts, row, e) = g \o SubSeq(b.facts, 1, e)
        BY <1>4, <1>12, <2>1, RowsAdjacent
  <2>3. e = Len(b.facts) => g \o SubSeq(b.facts, 1, e) = g \o b.facts
        BY <1>4, <1>12, <2>1, RowsAdjacent
  <2> QED
    BY <1>4, <1>10, <1>11, <2>2, <2>3
<1>14. CASE e < Len(b.rows) /\ row' = e + 1 /\ next' = next
  <2>1. row' # 0 /\ row' - 1 = e
        BY <1>4, <1>5, <1>14
  <2>2. DeliveredIn(blocks', chunks') = g \o SubSeq(b.facts, 1, row' - 1)
        BY <1>1, <1>13, <2>1
  <2>3. DeliveredIn(blocks', chunks')
          = FactsOf(blocks', 1, next' - 1) \o SubSeq(blocks'[next'].facts, 1, row' - 1)
        BY <1>1, <1>14, <2>2 DEF b, g
  <2> QED
    BY <1>1, <2>1, <2>3 DEF Progress
<1>15. CASE ~(e < Len(b.rows)) /\ row' = 0 /\ next' = next + 1 /\ fresh' = next + 1
  <2>1. e = Len(b.rows) /\ fresh' - 1 = next
        BY <1>2, <1>4, <1>5, <1>15
  <2>2. DeliveredIn(blocks', chunks') = FactsOf(blocks', 1, fresh' - 1)
        BY <1>1, <1>12, <1>13, <2>1
  <2> QED
    BY <1>1, <1>15, <2>2 DEF Progress
<1> QED
  BY <1>1, <1>14, <1>15

LEMMA BlockProgress ==
  ASSUME IInv, Progress, ChunkBlock
  PROVE  Progress'
<1>1. /\ pc = "chunk" /\ pc' = "chunk" /\ row = 0 /\ row' = 0 /\ blocks' = blocks
      BY DEF ChunkBlock, Looking, Keeps
<1>2. CASE OverBudget
  <2>1. chunks' = Flushed /\ fresh' = next
        BY <1>2 DEF ChunkBlock
  <2>2. DeliveredIn(blocks, Flushed) = FactsOf(blocks, 1, next - 1)
        BY <1>1, FlushDelivers
  <2> QED
    BY <1>1, <2>1, <2>2 DEF Progress
<1>3. CASE ~OverBudget
  <2>1. chunks' = chunks /\ fresh' = fresh
        BY <1>3 DEF ChunkBlock
  <2> QED
    BY <1>1, <2>1 DEF Progress
<1> QED
  BY <1>2, <1>3

LEMMA StutterProgress ==
  ASSUME Progress, Done \/ UNCHANGED vars
  PROVE  Progress'
<1>1. UNCHANGED <<source, limits, pc, blocks, next, first, fresh, tokens, heading, row, chunks>>
      BY DEF Done, vars
<1> QED
  BY <1>1 DEF Progress

LEMMA ProgressHolds == Spec => []Progress
<1>1. Init => Progress
      BY InitProgress
<1>2. IInv /\ IInv' /\ Progress /\ [Next]_vars => Progress'
  <2> SUFFICES ASSUME IInv, IInv', Progress, [Next]_vars PROVE Progress'
      OBVIOUS
  <2>1. CASE StitchTables \/ Clean \/ Optimize
        BY <2>1, EarlyProgress
  <2>2. CASE ChunkHeading \/ ChunkTable \/ Finish
        BY <2>2, FlushProgress
  <2>3. CASE ChunkGroup
        BY <2>3, GroupProgress
  <2>4. CASE ChunkRows
        BY <2>4, RowsProgress
  <2>5. CASE ChunkBlock
        BY <2>5, BlockProgress
  <2>6. CASE Done \/ UNCHANGED vars
        BY <2>6, StutterProgress
  <2> QED
    BY <2>1, <2>2, <2>3, <2>4, <2>5, <2>6 DEF Next
<1> QED
  BY <1>1, <1>2, Invariance, PTL DEF Spec

-----------------------------------------------------------------------------
(* The shape of a round: which blocks it has written, up to the i-th *)

Written(bs, i, out, absorbed) ==
  {K \in [1 .. Len(out) -> 1 .. i] :
     /\ \A m, n \in 1 .. Len(out) : m < n => K[m] < K[n]
     /\ \A m \in 1 .. Len(out) : out[m] = Joins(bs, K[m])
     /\ \A x \in 1 .. i : \E m \in 1 .. Len(out) : K[m] = x \/ Partner(bs, K[m]) = x
     /\ \A m, n \in 1 .. Len(out) : Partner(bs, K[m]) # K[n]
     /\ \A m \in 1 .. Len(out) : Partner(bs, K[m]) > i => Partner(bs, K[m]) = absorbed
     /\ absorbed # 0 => \E m \in 1 .. Len(out) : Partner(bs, K[m]) = absorbed}

\* The table that the i-th block has taken in is not written.
LEMMA WrittenSkips ==
  ASSUME NEW bs \in Seq(Block), NEW i \in 1 .. Len(bs), NEW out \in Seq(Block),
         NEW K \in Written(bs, i - 1, out, i)
  PROVE  K \in Written(bs, i, out, i)
<1> DEFINE N == Len(out)
<1>1. /\ Len(bs) \in Nat /\ N \in Nat
      /\ K \in [1 .. N -> 1 .. (i - 1)]
      /\ \A m, n \in 1 .. N : m < n => K[m] < K[n]
      /\ \A m \in 1 .. N : out[m] = Joins(bs, K[m])
      /\ \A x \in 1 .. (i - 1) : \E m \in 1 .. N : K[m] = x \/ Partner(bs, K[m]) = x
      /\ \A m, n \in 1 .. N : Partner(bs, K[m]) # K[n]
      /\ \A m \in 1 .. N : Partner(bs, K[m]) > i - 1 => Partner(bs, K[m]) = i
      /\ i # 0 => \E m \in 1 .. N : Partner(bs, K[m]) = i
      BY LenProperties DEF Written
<1> HIDE DEF N
<1>2. K \in [1 .. N -> 1 .. i] /\ \A m \in 1 .. N : K[m] \in 1 .. Len(bs)
      BY <1>1
<1>3. \A m \in 1 .. N : Partner(bs, K[m]) \in Nat
      BY <1>2, PartnerIs
<1>4. i # 0 /\ \E m \in 1 .. N : Partner(bs, K[m]) = i
      BY <1>1
<1>5. \A x \in 1 .. i : \E m \in 1 .. N : K[m] = x \/ Partner(bs, K[m]) = x
  <2>1. \A x \in 1 .. i : x \in 1 .. (i - 1) \/ x = i
        BY <1>1
  <2> QED
    BY <1>1, <1>4, <2>1
<1>6. \A m \in 1 .. N : Partner(bs, K[m]) > i => Partner(bs, K[m]) = i
      BY <1>1, <1>3
<1> QED
  BY <1>1, <1>2, <1>4, <1>5, <1>6 DEF Written, N

\* A block that is not taken in is written, with the table it takes in.
LEMMA WrittenGrows ==
  ASSUME NEW bs \in Seq(Block), NEW i \in 1 .. Len(bs), NEW out \in Seq(Block),
         NEW absorbed \in Nat, i # absorbed,
         NEW K \in Written(bs, i - 1, out, absorbed)
  PROVE  Written(bs, i, Append(out, Joins(bs, i)),
                 IF Partner(bs, i) # 0 THEN Partner(bs, i) ELSE absorbed) # {}
<1> DEFINE N == Len(out)
           p == Partner(bs, i)
           a == IF p # 0 THEN p ELSE absorbed
           new == Append(out, Joins(bs, i))
           L == [m \in 1 .. (N + 1) |-> IF m <= N THEN K[m] ELSE i]
<1>1. /\ Len(bs) \in Nat /\ N \in Nat
      /\ K \in [1 .. N -> 1 .. (i - 1)]
      /\ \A m, n \in 1 .. N : m < n => K[m] < K[n]
      /\ \A m \in 1 .. N : out[m] = Joins(bs, K[m])
      /\ \A x \in 1 .. (i - 1) : \E m \in 1 .. N : K[m] = x \/ Partner(bs, K[m]) = x
      /\ \A m, n \in 1 .. N : Partner(bs, K[m]) # K[n]
      /\ \A m \in 1 .. N : Partner(bs, K[m]) > i - 1 => Partner(bs, K[m]) = absorbed
      /\ absorbed # 0 => \E m \in 1 .. N : Partner(bs, K[m]) = absorbed
      BY LenProperties DEF Written
<1>2. /\ Len(new) = N + 1 /\ new[N + 1] = Joins(bs, i)
      /\ \A m \in 1 .. N : new[m] = out[m]
  <2>1. Joins(bs, i) \in Block
        BY JoinsType
  <2> QED
    BY <2>1, AppendProperties
<1>3. /\ p \in Nat
      /\ p # 0 => p > i /\ bs[i].kind = "table"
  <2>1. p \in Nat /\ (p # 0 => p \in i + 1 .. Len(bs) /\ bs[i].kind = "table")
        BY PartnerIs
  <2> QED
    BY <1>1, <2>1
<1>4. ASSUME NEW m \in 1 .. N
      PROVE  /\ Partner(bs, K[m]) \in Nat /\ K[m] \in 1 .. (i - 1)
             /\ Partner(bs, K[m]) # i
             /\ Partner(bs, K[m]) > i => p = 0
  <2>1. K[m] \in 1 .. (i - 1) /\ K[m] \in 1 .. Len(bs)
        BY <1>1
  <2> DEFINE q == Partner(bs, K[m])
  <2>2. /\ q \in Nat
        /\ q # 0 => /\ q \in K[m] + 1 .. Len(bs)
                    /\ \A k \in K[m] + 1 .. q - 1 : bs[k].kind # "table"
        BY <2>1, PartnerIs
  <2>3. q > i - 1 => q = absorbed
        BY <1>1
  <2> HIDE DEF q, p
  <2>4. q # i
        BY <1>1, <2>2, <2>3
  <2>5. q > i => bs[i].kind # "table"
    <3>1. q > i => i \in K[m] + 1 .. q - 1 /\ q # 0
          BY <1>1, <2>1, <2>2
    <3> QED
      BY <2>2, <3>1
  <2> QED
    BY <1>3, <2>1, <2>2, <2>4, <2>5 DEF q
<1> HIDE DEF N, p, new
<1>5. /\ L \in [1 .. (N + 1) -> 1 .. i] /\ L[N + 1] = i
      /\ \A m \in 1 .. N : L[m] = K[m]
      BY <1>1
<1>6. \A m \in 1 .. (N + 1) : m \in 1 .. N \/ m = N + 1
      BY <1>1
<1>7. N + 1 \in 1 .. (N + 1) /\ \A m \in 1 .. N : m \in 1 .. (N + 1)
      BY <1>1
<1> HIDE DEF L
<1>8. \A m, n \in 1 .. (N + 1) : m < n => L[m] < L[n]
  <2> SUFFICES ASSUME NEW m \in 1 .. (N + 1), NEW n \in 1 .. (N + 1), m < n PROVE L[m] < L[n]
      OBVIOUS
  <2>1. m \in 1 .. N
        BY <1>1
  <2>2. CASE n \in 1 .. N
        BY <1>1, <1>5, <2>1, <2>2
  <2>3. CASE n = N + 1
        BY <1>4, <1>5, <2>1, <2>3
  <2> QED
    BY <1>6, <2>2, <2>3
<1>9. \A m \in 1 .. (N + 1) : new[m] = Joins(bs, L[m])
      BY <1>1, <1>2, <1>5, <1>6
<1>10. \A x \in 1 .. i : \E m \in 1 .. (N + 1) : L[m] = x \/ Partner(bs, L[m]) = x
  <2> TAKE x \in 1 .. i
  <2>1. CASE x = i
        BY <1>5, <1>7, <2>1
  <2>2. CASE x # i
    <3>1. x \in 1 .. (i - 1)
          BY <2>2
    <3>2. PICK m \in 1 .. N : K[m] = x \/ Partner(bs, K[m]) = x
          BY <1>1, <3>1
    <3> QED
      BY <1>5, <1>7, <3>2
  <2> QED
    BY <2>1, <2>2
<1>11. \A m, n \in 1 .. (N + 1) : Partner(bs, L[m]) # L[n]
  <2> SUFFICES ASSUME NEW m \in 1 .. (N + 1), NEW n \in 1 .. (N + 1) PROVE Partner(bs, L[m]) # L[n]
      OBVIOUS
  <2>1. CASE m \in 1 .. N
    <3>1. Partner(bs, K[m]) # i
          BY <1>4, <2>1
    <3> QED
      BY <1>1, <1>5, <1>6, <2>1, <3>1
  <2>2. CASE m = N + 1
    <3>1. L[n] \in 1 .. i
          BY <1>5
    <3>2. p # L[n]
          BY <1>3, <3>1
    <3> QED
      BY <1>5, <2>2, <3>2 DEF p
  <2> QED
    BY <1>6, <2>1, <2>2
<1>12. \A m \in 1 .. (N + 1) : Partner(bs, L[m]) > i => Partner(bs, L[m]) = a
  <2> TAKE m \in 1 .. (N + 1)
  <2>1. CASE m \in 1 .. N
    <3>1. Partner(bs, K[m]) \in Nat /\ (Partner(bs, K[m]) > i => p = 0)
          BY <1>4, <2>1
    <3>2. Partner(bs, K[m]) > i => Partner(bs, K[m]) = absorbed
          BY <1>1, <2>1, <3>1
    <3> QED
      BY <1>5, <2>1, <3>1, <3>2
  <2>2. CASE m = N + 1
        BY <1>3, <1>5, <2>2 DEF p
  <2> QED
    BY <1>6, <2>1, <2>2
<1>13. a # 0 => \E m \in 1 .. (N + 1) : Partner(bs, L[m]) = a
  <2>1. CASE p # 0
        BY <1>5, <1>7, <2>1 DEF p
  <2>2. CASE p = 0 /\ absorbed # 0
    <3>1. PICK m \in 1 .. N : Partner(bs, K[m]) = absorbed
          BY <1>1, <2>2
    <3> QED
      BY <1>5, <1>7, <2>2, <3>1
  <2> QED
    BY <2>1, <2>2
<1> HIDE DEF a
<1>14. L \in Written(bs, i, new, a)
      BY <1>2, <1>5, <1>8, <1>9, <1>10, <1>11, <1>12, <1>13 DEF Written
<1> QED
  BY <1>14 DEF new, a, p

LEMMA RoundWrites ==
  ASSUME NEW bs \in Seq(Block)
  PROVE  \E a \in Nat : Written(bs, Len(bs), StitchRound(bs), a) # {}
<1>1. PICK h \in [0 .. Len(bs) -> [out : Seq(Block), absorbed : Nat]] :
        /\ h[0] = [out |-> <<>>, absorbed |-> 0]
        /\ \A i \in 1 .. Len(bs) :
             h[i] = IF i = h[i - 1].absorbed THEN h[i - 1]
                    ELSE [out |-> Append(h[i - 1].out, Joins(bs, i)),
                          absorbed |-> IF Partner(bs, i) # 0 THEN Partner(bs, i)
                                       ELSE h[i - 1].absorbed]
        /\ StitchRound(bs) = h[Len(bs)].out
  <2>1. Rounds(bs) # {}
        BY RoundExists
  <2> QED
    BY <2>1 DEF Rounds
<1> DEFINE T == {i \in Nat : i <= Len(bs) => Written(bs, i, h[i].out, h[i].absorbed) # {}}
<1>2. Len(bs) \in Nat
      BY LenProperties
<1>3. 0 \in T
  <2>1. h[0].out = <<>> /\ h[0].absorbed = 0 /\ Len(<<>>) = 0
        BY <1>1
  <2>2. <<>> \in Written(bs, 0, <<>>, 0)
        BY DEF Written
  <2> QED
    BY <2>1, <2>2
<1>4. ASSUME NEW k \in T PROVE k + 1 \in T
  <2> SUFFICES ASSUME k + 1 <= Len(bs)
               PROVE  Written(bs, k + 1, h[k + 1].out, h[k + 1].absorbed) # {}
      OBVIOUS
  <2> DEFINE i == k + 1
             v == h[k]
  <2>1. /\ i \in 1 .. Len(bs) /\ i - 1 = k /\ k \in 0 .. Len(bs)
        /\ Written(bs, k, v.out, v.absorbed) # {}
        BY <1>2
  <2>2. v.out \in Seq(Block) /\ v.absorbed \in Nat
        BY <1>1, <2>1
  <2> HIDE DEF i, v
  <2>3. PICK K : K \in Written(bs, i - 1, v.out, v.absorbed)
        BY <2>1
  <2>4. CASE i = v.absorbed
    <3>1. h[i] = v
          BY <1>1, <2>1, <2>4 DEF v
    <3>2. K \in Written(bs, i - 1, v.out, i)
          BY <2>3, <2>4
    <3>3. K \in Written(bs, i, v.out, i)
          BY <2>1, <2>2, <3>2, WrittenSkips
    <3> QED
      BY <2>4, <3>1, <3>3 DEF i
  <2>5. CASE i # v.absorbed
    <3>1. h[i] = [out |-> Append(v.out, Joins(bs, i)),
                  absorbed |-> IF Partner(bs, i) # 0 THEN Partner(bs, i) ELSE v.absorbed]
          BY <1>1, <2>1, <2>5 DEF v
    <3>2. Written(bs, i, Append(v.out, Joins(bs, i)),
                  IF Partner(bs, i) # 0 THEN Partner(bs, i) ELSE v.absorbed) # {}
          BY <2>1, <2>2, <2>3, <2>5, WrittenGrows
    <3> DEFINE o == Append(v.out, Joins(bs, i))
               a == IF Partner(bs, i) # 0 THEN Partner(bs, i) ELSE v.absorbed
    <3>3. h[i].out = o /\ h[i].absorbed = a
          BY <3>1
    <3>4. Written(bs, i, o, a) # {}
          BY <3>2
    <3> HIDE DEF o, a
    <3> QED
      BY <3>3, <3>4 DEF i
  <2> QED
    BY <2>4, <2>5
<1>5. T = Nat
  <2>1. T \in SUBSET Nat
        OBVIOUS
  <2> HIDE DEF T
  <2> QED
    BY <1>3, <1>4, <2>1, Induction
<1>6. Written(bs, Len(bs), h[Len(bs)].out, h[Len(bs)].absorbed) # {}
  <2>1. Len(bs) \in T
        BY <1>2, <1>5
  <2> QED
    BY <1>2, <2>1
<1>7. h[Len(bs)].absorbed \in Nat
  <2>1. Len(bs) \in 0 .. Len(bs)
        BY <1>2
  <2> QED
    BY <1>1, <2>1
<1> QED
  BY <1>1, <1>6, <1>7

-----------------------------------------------------------------------------
(* Where the blocks come from: the block i of bs begins at the position H[i] *)
(* of the source, and G[i] are the positions that it is made of.             *)

Alike(a, b) == /\ a.page = b.page /\ a.cols = b.cols /\ a.head = b.head
               /\ a.foot = b.foot /\ a.top = b.top
\* A block that begins at h and is made of g: of one block, or of tables that h leads.
Stands(b, h, g) ==
  /\ h \in 1 .. Len(source) /\ h \in g /\ g \subseteq 1 .. Len(source)
  /\ b.kind # "table" => g = {h} /\ b = source[h]
  /\ b.kind = "table" => /\ Alike(b, source[h])
                         /\ \A t \in g : source[t].kind = "table" /\ h <= t /\ Leads(h, t)
Frame(bs, H, G) ==
  /\ \A i, j \in 1 .. Len(bs) : i < j => H[i] < H[j]
  /\ \A i \in 1 .. Len(bs) : Stands(bs[i], H[i], G[i])
  /\ \A i, j \in 1 .. Len(bs) : i < j /\ bs[i].kind = "table" /\ bs[j].kind = "table" =>
       \A s \in G[i], t \in G[j] : s < t
  /\ \A p \in 1 .. Len(source) : \E i \in 1 .. Len(bs) : p \in G[i]

LEMMA TablesAre == source \in Seq(Block) => Tables = {i \in 1 .. Len(source) : source[i].kind = "table"}
BY LenProperties DEF Tables

LEMMA LeadsItself == \A k : Leads(k, k)
BY DEF Leads

LEMMA LeadsNext ==
  ASSUME NEW k \in Tables, NEW i \in Tables, ContinuedBy(k, i)
  PROVE  Leads(k, i)
BY DEF Leads

LEMMA LeadsOn ==
  ASSUME NEW k, NEW i, NEW j, Leads(k, i), Leads(i, j)
  PROVE  Leads(k, j)
BY DEF Leads

LEMMA JoinsAlike ==
  ASSUME NEW bs \in Seq(Block), NEW i \in 1 .. Len(bs)
  PROVE  /\ Joins(bs, i).kind = bs[i].kind
         /\ bs[i].kind # "table" => Joins(bs, i) = bs[i] /\ Partner(bs, i) = 0
         /\ bs[i].kind = "table" => Alike(Joins(bs, i), bs[i])
<1>1. CASE Partner(bs, i) = 0
      BY <1>1 DEF Joins, Alike
<1>2. CASE Partner(bs, i) # 0
  <2> DEFINE j == Partner(bs, i)
  <2> HIDE DEF j
  <2>1. j \in i + 1 .. Len(bs) /\ bs[i].kind = "table" /\ bs[j].kind = "table"
        BY <1>2, PartnerIs DEF j
  <2>2. bs[i] \in Block /\ bs[j] \in Block
    <3>1. j \in 1 .. Len(bs)
          BY <2>1
    <3> QED
      BY <3>1, ElementOfSeq
  <2> DEFINE s == Stitch(bs[i], bs[j])
  <2>3. /\ s.kind = "table" /\ s.page = bs[i].page /\ s.head = bs[i].head
        /\ s.cols = bs[i].cols /\ s.foot = bs[i].foot /\ s.top = bs[i].top
        BY <2>1, <2>2, StitchIs
  <2>4. Joins(bs, i) = s
        BY <1>2 DEF Joins, j
  <2> HIDE DEF s
  <2> QED
    BY <2>1, <2>3, <2>4 DEF Alike
<1> QED
  BY <1>1, <1>2

\* What the m-th block of a round is made of.
MadeOf(bs, G, i) == G[i] \cup (IF Partner(bs, i) # 0 THEN G[Partner(bs, i)] ELSE {})

LEMMA StandsJoined ==
  ASSUME source \in Seq(Block), NEW bs \in Seq(Block), NEW H, NEW G, Frame(bs, H, G),
         NEW i \in 1 .. Len(bs)
  PROVE  Stands(Joins(bs, i), H[i], MadeOf(bs, G, i))
<1>1. Stands(bs[i], H[i], G[i])
      BY DEF Frame
<1>2. CASE Partner(bs, i) = 0
  <2>1. Joins(bs, i) = bs[i] /\ MadeOf(bs, G, i) = G[i]
        BY <1>2 DEF Joins, MadeOf
  <2> QED
    BY <1>1, <2>1
<1>3. CASE Partner(bs, i) # 0
  <2> DEFINE j == Partner(bs, i)
  <2> HIDE DEF j
  <2>1. /\ j \in i + 1 .. Len(bs) /\ bs[i].kind = "table" /\ bs[j].kind = "table"
        /\ Continues(bs[i], bs[j])
        BY <1>3, PartnerIs DEF j
  <2>2. j \in 1 .. Len(bs) /\ i < j
        BY <2>1
  <2>3. Stands(bs[j], H[j], G[j]) /\ H[i] < H[j]
        BY <2>2 DEF Frame
  <2>4. MadeOf(bs, G, i) = G[i] \cup G[j]
        BY <1>3 DEF MadeOf, j
  <2>5. /\ Alike(bs[i], source[H[i]]) /\ Alike(bs[j], source[H[j]])
        /\ H[i] \in Tables /\ H[j] \in Tables
        /\ H[i] \in 1 .. Len(source) /\ H[j] \in 1 .. Len(source)
    <3>1. /\ H[i] \in 1 .. Len(source) /\ H[j] \in 1 .. Len(source)
          /\ H[i] \in G[i] /\ H[j] \in G[j]
          BY <1>1, <2>3 DEF Stands
    <3>2. source[H[i]].kind = "table" /\ source[H[j]].kind = "table"
          BY <1>1, <2>1, <2>3, <3>1 DEF Stands
    <3>3. Alike(bs[i], source[H[i]]) /\ Alike(bs[j], source[H[j]])
          BY <1>1, <2>1, <2>3 DEF Stands
    <3> QED
      BY <3>1, <3>2, <3>3, TablesAre
  <2>6. Leads(H[i], H[j])
    <3>1. Continues(source[H[i]], source[H[j]])
          BY <2>1, <2>5 DEF Alike, Continues
    <3>2. ContinuedBy(H[i], H[j])
          BY <2>3, <3>1 DEF ContinuedBy
    <3> QED
      BY <2>5, <3>2, LeadsNext
  <2>7. ASSUME NEW t \in G[i] \cup G[j]
        PROVE  source[t].kind = "table" /\ H[i] <= t /\ Leads(H[i], t) /\ t \in 1 .. Len(source)
    <3>1. CASE t \in G[i]
          BY <1>1, <2>1, <3>1 DEF Stands
    <3>2. CASE t \in G[j]
      <4>1. source[t].kind = "table" /\ H[j] <= t /\ Leads(H[j], t) /\ t \in 1 .. Len(source)
            BY <2>1, <2>3, <3>2 DEF Stands
      <4>2. Leads(H[i], t)
            BY <2>6, <4>1, LeadsOn
      <4>3. H[i] <= t
            BY <2>3, <2>5, <4>1
      <4> QED
        BY <4>1, <4>2, <4>3
    <3> QED
      BY <2>7, <3>1, <3>2
  <2>8. Joins(bs, i).kind = "table" /\ Alike(Joins(bs, i), source[H[i]])
    <3>1. Joins(bs, i).kind = bs[i].kind /\ Alike(Joins(bs, i), bs[i])
          BY <2>1, JoinsAlike
    <3> QED
      BY <2>1, <2>5, <3>1 DEF Alike
  <2>9. H[i] \in G[i] \cup G[j] /\ G[i] \cup G[j] \subseteq 1 .. Len(source)
        BY <1>1, <2>7 DEF Stands
  <2> QED
    BY <2>4, <2>5, <2>7, <2>8, <2>9 DEF Stands
<1> QED
  BY <1>2, <1>3

\* A round keeps the frame: each block it has written stands where its first part stood.
LEMMA FrameRound ==
  ASSUME source \in Seq(Block), NEW bs \in Seq(Block), NEW H, NEW G, Frame(bs, H, G),
         NEW a, NEW K \in Written(bs, Len(bs), StitchRound(bs), a)
  PROVE  Frame(StitchRound(bs), [m \in 1 .. Len(StitchRound(bs)) |-> H[K[m]]],
               [m \in 1 .. Len(StitchRound(bs)) |-> MadeOf(bs, G, K[m])])
<1> DEFINE out == StitchRound(bs)
           N == Len(out)
           U == [m \in 1 .. N |-> H[K[m]]]
           V == [m \in 1 .. N |-> MadeOf(bs, G, K[m])]
           P(m) == Partner(bs, K[m])
<1>1. /\ Len(bs) \in Nat /\ N \in Nat
      /\ K \in [1 .. N -> 1 .. Len(bs)]
      /\ \A m, n \in 1 .. N : m < n => K[m] < K[n]
      /\ \A m \in 1 .. N : out[m] = Joins(bs, K[m])
      /\ \A x \in 1 .. Len(bs) : \E m \in 1 .. N : K[m] = x \/ P(m) = x
      /\ \A m, n \in 1 .. N : P(m) # K[n]
      BY LenProperties, StitchRoundType DEF Written
<1>2. /\ \A m \in 1 .. N : U[m] = H[K[m]] /\ V[m] = MadeOf(bs, G, K[m])
      BY <1>1
<1> HIDE DEF out, N, U, V
<1>3. \A m, n \in 1 .. N : m < n => U[m] < U[n]
  <2> SUFFICES ASSUME NEW m \in 1 .. N, NEW n \in 1 .. N, m < n PROVE U[m] < U[n]
      OBVIOUS
  <2>1. K[m] \in 1 .. Len(bs) /\ K[n] \in 1 .. Len(bs) /\ K[m] < K[n]
        BY <1>1
  <2>2. H[K[m]] < H[K[n]]
        BY <2>1 DEF Frame
  <2> QED
    BY <1>2, <2>2
<1>4. \A m \in 1 .. N : Stands(out[m], U[m], V[m])
      BY <1>1, <1>2, StandsJoined
<1>5. \A m \in 1 .. N : out[m].kind = bs[K[m]].kind
      BY <1>1, JoinsAlike
<1>6. ASSUME NEW m \in 1 .. N, NEW n \in 1 .. N, m < n,
             out[m].kind = "table", out[n].kind = "table",
             NEW s \in V[m], NEW t \in V[n]
      PROVE  s < t
  <2>1. K[m] \in 1 .. Len(bs) /\ K[n] \in 1 .. Len(bs) /\ K[m] < K[n]
        /\ bs[K[m]].kind = "table" /\ bs[K[n]].kind = "table"
        BY <1>1, <1>5, <1>6
  <2>2. PICK x \in 1 .. Len(bs) : s \in G[x] /\ bs[x].kind = "table" /\ x < K[n]
    <3>1. CASE s \in G[K[m]]
          BY <2>1, <3>1
    <3>2. CASE s \notin G[K[m]]
      <4>1. P(m) # 0 /\ s \in G[P(m)]
            BY <1>2, <3>2 DEF MadeOf
      <4>2. /\ P(m) \in K[m] + 1 .. Len(bs) /\ bs[P(m)].kind = "table"
            /\ \A k \in K[m] + 1 .. P(m) - 1 : bs[k].kind # "table"
            BY <2>1, <4>1, PartnerIs
      <4>3. P(m) # K[n]
            BY <1>1
      <4> HIDE DEF P
      <4>4. P(m) < K[n] /\ P(m) \in 1 .. Len(bs)
        <5>1. ~(K[n] \in K[m] + 1 .. P(m) - 1)
              BY <2>1, <4>2
        <5> QED
          BY <2>1, <4>2, <4>3, <5>1
      <4> QED
        BY <4>1, <4>2, <4>4
    <3> QED
      BY <3>1, <3>2
  <2>3. PICK y \in 1 .. Len(bs) : t \in G[y] /\ bs[y].kind = "table" /\ K[n] <= y
    <3>1. CASE t \in G[K[n]]
          BY <2>1, <3>1
    <3>2. CASE t \notin G[K[n]]
      <4>1. P(n) # 0 /\ t \in G[P(n)]
            BY <1>2, <3>2 DEF MadeOf
      <4>2. P(n) \in K[n] + 1 .. Len(bs) /\ bs[P(n)].kind = "table"
            BY <2>1, <4>1, PartnerIs
      <4> HIDE DEF P
      <4>3. K[n] <= P(n) /\ P(n) \in 1 .. Len(bs)
            BY <2>1, <4>2
      <4> QED
        BY <4>1, <4>2, <4>3
    <3> QED
      BY <3>1, <3>2
  <2>4. x < y
        BY <2>1, <2>2, <2>3
  <2> QED
    BY <2>2, <2>3, <2>4 DEF Frame
<1>7. \A p \in 1 .. Len(source) : \E m \in 1 .. N : p \in V[m]
  <2> TAKE p \in 1 .. Len(source)
  <2>1. PICK i \in 1 .. Len(bs) : p \in G[i]
        BY DEF Frame
  <2>2. PICK m \in 1 .. N : K[m] = i \/ P(m) = i
        BY <1>1
  <2>3. i # 0
        BY <1>1
  <2>4. p \in V[m]
        BY <1>2, <2>1, <2>2, <2>3 DEF MadeOf
  <2> QED
    BY <2>4
<1>8. Frame(out, U, V)
      BY <1>3, <1>4, <1>6, <1>7 DEF Frame, N
<1> QED
  BY <1>8 DEF out, N, U, V

\* Every table between the first part of a table and another one is a part of it too.
LEMMA FrameLeads ==
  ASSUME source \in Seq(Block), NEW bs \in Seq(Block), NEW H, NEW G, Frame(bs, H, G),
         NEW i \in 1 .. Len(bs), bs[i].kind = "table", NEW t \in G[i], t # H[i]
  PROVE  LeadsUpTo(H[i], t)
<1>1. /\ H[i] \in 1 .. Len(source) /\ H[i] \in G[i] /\ G[i] \subseteq 1 .. Len(source)
      /\ \A s \in G[i] : source[s].kind = "table" /\ H[i] <= s /\ Leads(H[i], s)
      BY DEF Frame, Stands
<1>2. H[i] < t /\ H[i] \in Tables /\ t \in Tables
      BY <1>1, TablesAre
<1>3. ASSUME NEW j \in Tables, j \in H[i] .. t
      PROVE  Leads(H[i], j)
  <2>1. j \in 1 .. Len(source) /\ source[j].kind = "table"
        BY TablesAre
  <2>2. PICK m \in 1 .. Len(bs) : j \in G[m]
        BY <2>1 DEF Frame
  <2>3. bs[m].kind = "table"
    <3>1. Stands(bs[m], H[m], G[m])
          BY DEF Frame
    <3>2. bs[m].kind # "table" => H[m] = j /\ bs[m] = source[j]
          BY <2>2, <3>1 DEF Stands
    <3> QED
      BY <2>1, <3>2
  <2>4. m \in Nat /\ i \in Nat
        OBVIOUS
  <2>5. ~(m < i)
    <3>1. m < i => j < H[i]
          BY <1>1, <2>2, <2>3 DEF Frame
    <3> QED
      BY <1>1, <1>3, <2>1, <3>1
  <2>6. ~(i < m)
    <3>1. i < m => t < j
          BY <1>1, <2>2, <2>3 DEF Frame
    <3> QED
      BY <1>1, <1>3, <2>1, <3>1
  <2>7. m = i
        BY <2>4, <2>5, <2>6
  <2> QED
    BY <1>1, <2>2, <2>7
<1> QED
  BY <1>2, <1>3 DEF LeadsUpTo

\* What a table says that begins at h and is made of g: the rows of its parts in their
\* order, without some headers that repeat; one that was not stitched is as it was.
Says(b, h, g) ==
  b.kind = "table" =>
    /\ Len(b.facts) >= 1 /\ b.facts[1] = <<h, 1>>
    /\ \A x \in 1 .. Len(b.facts) :
         \E t \in g : \E r \in 1 .. Len(source[t].facts) : b.facts[x] = <<t, r>>
    /\ \A x, y \in 1 .. Len(b.facts) : x < y => Precedes(b.facts[x], b.facts[y])
    /\ \A t \in g : \A r \in 1 .. Len(source[t].facts) :
         In(b.facts, <<t, r>>) \/ RepeatedHeader(<<t, r>>)
    /\ b.origin = <<>> => b = source[h]
Content(bs, H, G) == \A i \in 1 .. Len(bs) : Says(bs[i], H[i], G[i])

\* The rows that a continuation gives.
LEMMA GivenRows ==
  ASSUME NEW a \in Block, NEW b \in Block, a.kind = "table", b.kind = "table",
         NEW B, B = SubSeq(b.facts, IF a.head = b.head THEN 2 ELSE 1, Len(b.facts))
  PROVE  /\ B \in Seq(Fact)
         /\ \A x \in 1 .. Len(B) : LET z == IF a.head = b.head THEN x + 1 ELSE x
                                   IN z \in 1 .. Len(b.facts) /\ B[x] = b.facts[z]
         /\ a.head = b.head => \A x \in 1 .. Len(b.facts) : x = 1 \/ In(B, b.facts[x])
         /\ a.head # b.head => \A x \in 1 .. Len(b.facts) : In(B, b.facts[x])
<1> DEFINE f == b.facts
           from == IF a.head = b.head THEN 2 ELSE 1
<1>1. f \in Seq(Fact) /\ Len(f) \in Nat /\ Len(f) >= 1
      BY TableFields, BlockFields, LenProperties
<1>2. from = IF a.head = b.head THEN 2 ELSE 1
      OBVIOUS
<1>3. B = SubSeq(f, from, Len(f))
      OBVIOUS
<1> HIDE DEF f, from
<1>4. from \in 1 .. 2 /\ from \in Int /\ Len(f) \in Int
      BY <1>1, <1>2
<1>5. \A i \in from .. Len(f) : f[i] \in Fact
      BY <1>1, <1>4, ElementOfSeq
<1>6. /\ B \in Seq(Fact)
      /\ Len(B) = IF from <= Len(f) THEN Len(f) - from + 1 ELSE 0
      /\ \A i \in 1 .. Len(f) - from + 1 : B[i] = f[from + i - 1]
  <2>1. SubSeq(f, from, Len(f)) \in Seq(Fact)
        BY <1>4, <1>5, SubSeqProperties
  <2>2. Len(SubSeq(f, from, Len(f))) = IF from <= Len(f) THEN Len(f) - from + 1 ELSE 0
        BY <1>4, <1>5, SubSeqProperties
  <2>3. \A i \in 1 .. Len(f) - from + 1 : SubSeq(f, from, Len(f))[i] = f[from + i - 1]
        BY <1>4, <1>5, SubSeqProperties
  <2> QED
    BY <1>3, <2>1, <2>2, <2>3
<1>7. Len(B) = Len(f) - from + 1 /\ Len(B) \in Nat
  <2>1. Len(B) = IF from <= Len(f) THEN Len(f) - from + 1 ELSE 0
        BY <1>6
  <2>2. from \in 1 .. 2 /\ Len(f) \in Nat /\ Len(f) >= 1
        BY <1>1, <1>4
  <2> DEFINE n == Len(f)
             k == Len(B)
  <2>3. k = IF from <= n THEN n - from + 1 ELSE 0
        BY <2>1
  <2>4. from \in 1 .. 2 /\ n \in Nat /\ n >= 1
        BY <2>2
  <2> HIDE DEF n, k
  <2>5. k = n - from + 1 /\ k \in Nat
        BY <2>3, <2>4
  <2> QED
    BY <2>5 DEF n, k
<1>8. ASSUME NEW x \in 1 .. Len(B)
      PROVE  LET z == IF a.head = b.head THEN x + 1 ELSE x IN z \in 1 .. Len(f) /\ B[x] = f[z]
  <2> DEFINE n == Len(f)
             k == Len(B)
  <2>1. from \in 1 .. 2 /\ n \in Nat /\ k \in Nat /\ k = n - from + 1 /\ x \in 1 .. k
        BY <1>1, <1>4, <1>7
  <2> HIDE DEF n, k
  <2>2. from + x - 1 \in 1 .. n /\ x \in 1 .. n - from + 1
        BY <2>1
  <2>3. B[x] = f[from + x - 1]
        BY <1>6, <2>2 DEF n
  <2>4. from + x - 1 = IF a.head = b.head THEN x + 1 ELSE x
        BY <1>2, <2>1
  <2> QED
    BY <2>2, <2>3, <2>4 DEF n
<1>9. ASSUME NEW y \in 1 .. Len(f)
      PROVE  In(B, f[y]) \/ (a.head = b.head /\ y = 1)
  <2> DEFINE n == Len(f)
             k == Len(B)
  <2>1. from \in 1 .. 2 /\ n \in Nat /\ k \in Nat /\ k = n - from + 1 /\ y \in 1 .. n
        BY <1>1, <1>4, <1>7
  <2> HIDE DEF n, k
  <2>2. CASE y < from
        BY <1>2, <2>1, <2>2
  <2>3. CASE ~(y < from)
    <3>1. y - from + 1 \in 1 .. k /\ from + (y - from + 1) - 1 = y
          BY <2>1, <2>3
    <3>2. y - from + 1 \in 1 .. Len(f) - from + 1
          BY <2>1, <3>1 DEF n
    <3>3. B[y - from + 1] = f[y]
          BY <1>6, <3>1, <3>2
    <3> QED
      BY <3>1, <3>3 DEF In, k
  <2> QED
    BY <2>2, <2>3
<1> QED
  BY <1>6, <1>8, <1>9 DEF f

LEMMA SaysStitched ==
  ASSUME NEW a \in Block, NEW b \in Block, a.kind = "table", b.kind = "table",
         NEW h, NEW g, NEW h2, NEW g2, Says(a, h, g), Says(b, h2, g2),
         g \subseteq Nat, g2 \subseteq Nat, \A s \in g, t \in g2 : s < t,
         a.head = b.head => RepeatedHeader(<<h2, 1>>)
  PROVE  Says(Stitch(a, b), h, g \cup g2)
<1> DEFINE s == Stitch(a, b)
           A == a.facts
           B == SubSeq(b.facts, IF a.head = b.head THEN 2 ELSE 1, Len(b.facts))
           C == A \o B
<1>1. /\ s.facts = C
      /\ s.origin = <<[page |-> a.page, first |-> 1, last |-> Len(a.rows)],
                      [page |-> b.page, first |-> Len(a.rows) + 1, last |-> Len(s.rows)]>>
      BY StitchIs
<1>2. s.origin # <<>>
      BY <1>1
<1>3. A \in Seq(Fact) /\ Len(A) \in Nat
      BY BlockFields, LenProperties
<1>4. /\ B \in Seq(Fact)
      /\ \A x \in 1 .. Len(B) : LET z == IF a.head = b.head THEN x + 1 ELSE x
                                IN z \in 1 .. Len(b.facts) /\ B[x] = b.facts[z]
      /\ a.head = b.head => \A x \in 1 .. Len(b.facts) : x = 1 \/ In(B, b.facts[x])
      /\ a.head # b.head => \A x \in 1 .. Len(b.facts) : In(B, b.facts[x])
  <2> HIDE DEF B
  <2>1. B = SubSeq(b.facts, IF a.head = b.head THEN 2 ELSE 1, Len(b.facts))
        BY DEF B
  <2>2. B \in Seq(Fact)
        BY <2>1, GivenRows
  <2>3. a.head = b.head => \A x \in 1 .. Len(b.facts) : x = 1 \/ In(B, b.facts[x])
        BY <2>1, GivenRows
  <2>4. a.head # b.head => \A x \in 1 .. Len(b.facts) : In(B, b.facts[x])
        BY <2>1, GivenRows
  <2>5. \A x \in 1 .. Len(B) : LET z == IF a.head = b.head THEN x + 1 ELSE x
                               IN z \in 1 .. Len(b.facts) /\ B[x] = b.facts[z]
        BY <2>1, GivenRows
  <2> QED
    BY <2>2, <2>3, <2>4, <2>5
<1>5. /\ Len(A) >= 1 /\ A[1] = <<h, 1>>
      /\ \A x \in 1 .. Len(A) :
           \E t \in g : \E r \in 1 .. Len(source[t].facts) : A[x] = <<t, r>>
      /\ \A x, y \in 1 .. Len(A) : x < y => Precedes(A[x], A[y])
      /\ \A t \in g : \A r \in 1 .. Len(source[t].facts) :
           In(A, <<t, r>>) \/ RepeatedHeader(<<t, r>>)
      BY DEF Says
<1>6. /\ b.facts[1] = <<h2, 1>>
      /\ \A x \in 1 .. Len(b.facts) :
           \E t \in g2 : \E r \in 1 .. Len(source[t].facts) : b.facts[x] = <<t, r>>
      /\ \A x, y \in 1 .. Len(b.facts) : x < y => Precedes(b.facts[x], b.facts[y])
      /\ \A t \in g2 : \A r \in 1 .. Len(source[t].facts) :
           In(b.facts, <<t, r>>) \/ RepeatedHeader(<<t, r>>)
      BY DEF Says
<1> HIDE DEF s, A, B
<1>7. Len(B) \in Nat
      BY <1>4, LenProperties
<1>8. /\ Len(C) = Len(A) + Len(B)
      /\ \A x \in 1 .. Len(A) + Len(B) : C[x] = IF x <= Len(A) THEN A[x] ELSE B[x - Len(A)]
      BY <1>3, <1>4, ConcatProperties
<1>9. \A v : In(C, v) <=> In(A, v) \/ In(B, v)
      BY <1>3, <1>4, InConcat
<1> HIDE DEF C
<1>10. \A x \in 1 .. Len(B) :
         \E t \in g2 : \E r \in 1 .. Len(source[t].facts) : B[x] = <<t, r>>
  <2> TAKE x \in 1 .. Len(B)
  <2>1. PICK z \in 1 .. Len(b.facts) : B[x] = b.facts[z]
        BY <1>4
  <2> QED
    BY <1>6, <2>1
<1>11. ASSUME NEW x \in 1 .. Len(B), NEW y \in 1 .. Len(B), x < y
       PROVE  Precedes(B[x], B[y])
  <2>1. CASE a.head = b.head
    <3>1. /\ x + 1 \in 1 .. Len(b.facts) /\ B[x] = b.facts[x + 1]
          /\ y + 1 \in 1 .. Len(b.facts) /\ B[y] = b.facts[y + 1]
          BY <1>4, <2>1
    <3>2. x + 1 < y + 1
          BY <1>7, <1>11
    <3> QED
      BY <1>6, <3>1, <3>2
  <2>2. CASE a.head # b.head
    <3>1. /\ x \in 1 .. Len(b.facts) /\ B[x] = b.facts[x]
          /\ y \in 1 .. Len(b.facts) /\ B[y] = b.facts[y]
          BY <1>4, <2>2
    <3> QED
      BY <1>6, <1>11, <3>1
  <2> QED
    BY <2>1, <2>2
<1>12. ASSUME NEW x \in 1 .. Len(A), NEW y \in 1 .. Len(B)
       PROVE  Precedes(A[x], B[y])
  <2>1. PICK t \in g : \E r \in 1 .. Len(source[t].facts) : A[x] = <<t, r>>
        BY <1>5
  <2>2. PICK r : A[x] = <<t, r>>
        BY <2>1
  <2>3. PICK t2 \in g2 : \E r2 \in 1 .. Len(source[t2].facts) : B[y] = <<t2, r2>>
        BY <1>10
  <2>4. PICK r2 : B[y] = <<t2, r2>>
        BY <2>3
  <2>5. t < t2 /\ A[x][1] = t /\ B[y][1] = t2
        BY <2>2, <2>4
  <2> QED
    BY <2>5 DEF Precedes
<1>13. Len(C) >= 1 /\ C[1] = <<h, 1>>
       BY <1>3, <1>5, <1>7, <1>8
<1>14. ASSUME NEW x \in 1 .. Len(C)
       PROVE  \E t \in g \cup g2 : \E r \in 1 .. Len(source[t].facts) : C[x] = <<t, r>>
  <2>1. CASE x <= Len(A)
    <3>1. x \in 1 .. Len(A) /\ C[x] = A[x]
          BY <1>3, <1>7, <1>8, <2>1
    <3> QED
      BY <1>5, <3>1
  <2>2. CASE ~(x <= Len(A))
    <3>1. x - Len(A) \in 1 .. Len(B) /\ C[x] = B[x - Len(A)]
          BY <1>3, <1>7, <1>8, <2>2
    <3> QED
      BY <1>10, <3>1
  <2> QED
    BY <2>1, <2>2
<1>15. ASSUME NEW x \in 1 .. Len(C), NEW y \in 1 .. Len(C), x < y
       PROVE  Precedes(C[x], C[y])
  <2>1. CASE y <= Len(A)
    <3>1. x \in 1 .. Len(A) /\ C[x] = A[x] /\ y \in 1 .. Len(A) /\ C[y] = A[y]
          BY <1>3, <1>7, <1>8, <1>15, <2>1
    <3> QED
      BY <1>5, <1>15, <3>1
  <2>2. CASE x <= Len(A) /\ ~(y <= Len(A))
    <3>1. x \in 1 .. Len(A) /\ C[x] = A[x] /\ y - Len(A) \in 1 .. Len(B) /\ C[y] = B[y - Len(A)]
          BY <1>3, <1>7, <1>8, <2>2
    <3> QED
      BY <1>12, <3>1
  <2>3. CASE ~(x <= Len(A))
    <3>1. /\ x - Len(A) \in 1 .. Len(B) /\ C[x] = B[x - Len(A)]
          /\ y - Len(A) \in 1 .. Len(B) /\ C[y] = B[y - Len(A)]
          /\ x - Len(A) < y - Len(A)
          BY <1>3, <1>7, <1>8, <1>15, <2>3
    <3> QED
      BY <1>11, <3>1
  <2> QED
    BY <1>3, <1>8, <1>15, <2>1, <2>2, <2>3
<1>16. ASSUME NEW t \in g \cup g2, NEW r \in 1 .. Len(source[t].facts)
       PROVE  In(C, <<t, r>>) \/ RepeatedHeader(<<t, r>>)
  <2>1. CASE t \in g
        BY <1>5, <1>9, <2>1
  <2>2. CASE t \in g2
    <3>1. In(b.facts, <<t, r>>) \/ RepeatedHeader(<<t, r>>)
          BY <1>6, <2>2
    <3>2. ASSUME In(b.facts, <<t, r>>)
          PROVE  In(B, <<t, r>>) \/ (a.head = b.head /\ <<t, r>> = <<h2, 1>>)
      <4>1. PICK x \in 1 .. Len(b.facts) : b.facts[x] = <<t, r>>
            BY <3>2 DEF In
      <4> QED
        BY <1>4, <1>6, <4>1
    <3> QED
      BY <1>9, <3>1, <3>2
  <2> QED
    BY <1>16, <2>1, <2>2
<1> QED
  BY <1>1, <1>2, <1>13, <1>14, <1>15, <1>16 DEF Says, s

\* A round keeps what the tables say.
LEMMA ContentRound ==
  ASSUME source \in Seq(Block), NEW bs \in Seq(Block), NEW H, NEW G, Frame(bs, H, G),
         Content(bs, H, G), NEW a, NEW K \in Written(bs, Len(bs), StitchRound(bs), a)
  PROVE  Content(StitchRound(bs), [m \in 1 .. Len(StitchRound(bs)) |-> H[K[m]]],
                 [m \in 1 .. Len(StitchRound(bs)) |-> MadeOf(bs, G, K[m])])
<1> DEFINE out == StitchRound(bs)
           N == Len(out)
           U == [m \in 1 .. N |-> H[K[m]]]
           V == [m \in 1 .. N |-> MadeOf(bs, G, K[m])]
<1>1. /\ Len(bs) \in Nat /\ N \in Nat /\ out \in Seq(Block)
      /\ K \in [1 .. N -> 1 .. Len(bs)]
      /\ \A m \in 1 .. N : out[m] = Joins(bs, K[m])
      BY LenProperties, StitchRoundType DEF Written
<1>2. /\ \A m \in 1 .. N : U[m] = H[K[m]] /\ V[m] = MadeOf(bs, G, K[m])
      BY <1>1
<1>3. Frame(out, U, V)
      BY FrameRound
<1> HIDE DEF out, U, V
<1>4. ASSUME NEW m \in 1 .. N PROVE Says(out[m], U[m], V[m])
  <2> DEFINE i == K[m]
             j == Partner(bs, i)
  <2>1. i \in 1 .. Len(bs) /\ out[m] = Joins(bs, i) /\ U[m] = H[i] /\ V[m] = MadeOf(bs, G, i)
        BY <1>1, <1>2
  <2> HIDE DEF i, j
  <2>2. Says(bs[i], H[i], G[i])
        BY <2>1 DEF Content
  <2>3. CASE j = 0
    <3>1. Joins(bs, i) = bs[i] /\ MadeOf(bs, G, i) = G[i]
          BY <2>3 DEF Joins, MadeOf, j
    <3> QED
      BY <2>1, <2>2, <3>1
  <2>4. CASE j # 0
    <3>1. j \in i + 1 .. Len(bs) /\ bs[i].kind = "table" /\ bs[j].kind = "table"
          BY <2>1, <2>4, PartnerIs DEF j
    <3>2. j \in 1 .. Len(bs) /\ i < j
          BY <2>1, <3>1
    <3>3. bs[i] \in Block /\ bs[j] \in Block /\ Says(bs[j], H[j], G[j])
          BY <2>1, <3>2, ElementOfSeq DEF Content
    <3>4. Joins(bs, i) = Stitch(bs[i], bs[j]) /\ MadeOf(bs, G, i) = G[i] \cup G[j]
          BY <2>4 DEF Joins, MadeOf, j
    <3>5. /\ G[i] \subseteq 1 .. Len(source) /\ G[j] \subseteq 1 .. Len(source)
          /\ H[i] \in G[i] /\ H[j] \in G[j]
          /\ bs[i].head = source[H[i]].head /\ bs[j].head = source[H[j]].head
      <4>1. Stands(bs[i], H[i], G[i]) /\ Stands(bs[j], H[j], G[j])
            BY <2>1, <3>2 DEF Frame
      <4> QED
        BY <3>1, <4>1 DEF Stands, Alike
    <3>6. \A s \in G[i], t \in G[j] : s < t
          BY <2>1, <3>1, <3>2 DEF Frame
    <3>7. G[i] \subseteq Nat /\ G[j] \subseteq Nat
          BY <3>5
    <3>8. bs[i].head = bs[j].head => RepeatedHeader(<<H[j], 1>>)
      <4>1. out[m].kind = "table"
            BY <2>1, <3>1, JoinsAlike
      <4>2. H[j] \in V[m] /\ H[j] # U[m]
        <5>1. H[i] < H[j] /\ H[i] \in Nat /\ H[j] \in Nat
              BY <3>5, <3>6, <3>7
        <5>2. H[j] # H[i]
              BY <5>1
        <5> QED
          BY <2>1, <3>4, <3>5, <5>2
      <4>3. LeadsUpTo(U[m], H[j])
            BY <1>1, <1>3, <4>1, <4>2, FrameLeads
      <4>4. H[i] \in Tables /\ LeadsUpTo(H[i], H[j])
            BY <2>1, <4>3 DEF LeadsUpTo
      <4>5. <<H[j], 1>>[2] = 1 /\ <<H[j], 1>>[1] = H[j]
            OBVIOUS
      <4> QED
        BY <3>5, <4>4, <4>5 DEF RepeatedHeader
    <3>9. Says(Stitch(bs[i], bs[j]), H[i], G[i] \cup G[j])
          BY <2>2, <3>1, <3>3, <3>6, <3>7, <3>8, SaysStitched
    <3> QED
      BY <2>1, <3>4, <3>9
  <2> QED
    BY <2>3, <2>4
<1>5. Content(out, U, V)
      BY <1>4 DEF Content, N
<1> QED
  BY <1>5 DEF out, U, V

(* Blocks that come from the source like this.                               *)
Cut(bs) == \E H, G : Frame(bs, H, G) /\ Content(bs, H, G)

LEMMA CutRound ==
  ASSUME source \in Seq(Block), NEW bs \in Seq(Block), Cut(bs)
  PROVE  Cut(StitchRound(bs))
<1>1. PICK H, G : Frame(bs, H, G) /\ Content(bs, H, G)
      BY DEF Cut
<1>2. PICK a \in Nat : Written(bs, Len(bs), StitchRound(bs), a) # {}
      BY RoundWrites
<1>3. PICK K : K \in Written(bs, Len(bs), StitchRound(bs), a)
      BY <1>2
<1> DEFINE U == [m \in 1 .. Len(StitchRound(bs)) |-> H[K[m]]]
           V == [m \in 1 .. Len(StitchRound(bs)) |-> MadeOf(bs, G, K[m])]
<1>4. Frame(StitchRound(bs), U, V)
      BY <1>1, <1>3, FrameRound
<1>5. Content(StitchRound(bs), U, V)
      BY <1>1, <1>3, ContentRound
<1> HIDE DEF U, V
<1> QED
  BY <1>4, <1>5 DEF Cut

\* The source itself.
LEMMA CutSource ==
  ASSUME source \in Seq(Block), Stated(source)
  PROVE  Cut(source)
<1> DEFINE N == Len(source)
           H == [i \in 1 .. N |-> i]
           G == [i \in 1 .. N |-> {i}]
<1>1. N \in Nat /\ DOMAIN source = 1 .. N
      BY LenProperties
<1>2. \A i \in 1 .. N : H[i] = i /\ G[i] = {i}
      OBVIOUS
<1> HIDE DEF H, G
<1>3. Frame(source, H, G)
  <2>1. \A i \in 1 .. N : Stands(source[i], H[i], G[i])
    <3> TAKE i \in 1 .. N
    <3>1. Alike(source[i], source[i]) /\ Leads(i, i) /\ i <= i
          BY LeadsItself DEF Alike
    <3> QED
      BY <1>2, <3>1 DEF Stands
  <2>2. \A i, j \in 1 .. N : i < j => H[i] < H[j]
        BY <1>2
  <2>3. \A i, j \in 1 .. N : i < j => \A s \in G[i], t \in G[j] : s < t
        BY <1>2
  <2>4. \A p \in 1 .. N : \E i \in 1 .. N : p \in G[i]
        BY <1>2
  <2> QED
    BY <2>1, <2>2, <2>3, <2>4 DEF Frame
<1>4. Content(source, H, G)
  <2> SUFFICES ASSUME NEW i \in 1 .. N PROVE Says(source[i], i, {i})
      BY <1>2 DEF Content
  <2> DEFINE b == source[i]
             f == b.facts
  <2> SUFFICES ASSUME b.kind = "table" PROVE Says(b, i, {i})
      BY DEF Says
  <2>1. f = [r \in DOMAIN b.rows |-> <<i, r>>]
        BY <1>1 DEF Stated
  <2>2. /\ b \in Block /\ Len(f) = Len(b.rows) /\ Len(f) >= 1 /\ Len(f) \in Nat
        /\ DOMAIN b.rows = 1 .. Len(f)
        BY ElementOfSeq, TableFields, LenProperties, SMTT(20)
  <2>3. \A r \in 1 .. Len(f) : f[r] = <<i, r>>
        BY <2>1, <2>2
  <2> HIDE DEF f
  <2>4. \A x, y \in 1 .. Len(f) : x < y => Precedes(f[x], f[y])
    <3> SUFFICES ASSUME NEW x \in 1 .. Len(f), NEW y \in 1 .. Len(f), x < y
                 PROVE  Precedes(f[x], f[y])
        OBVIOUS
    <3>1. f[x] = <<i, x>> /\ f[y] = <<i, y>>
          BY <2>3
    <3>2. f[x][1] = i /\ f[y][1] = i /\ f[x][2] = x /\ f[y][2] = y
          BY <3>1
    <3> QED
      BY <3>2 DEF Precedes
  <2>5. \A x \in 1 .. Len(f) : \E t \in {i} : \E r \in 1 .. Len(source[t].facts) : f[x] = <<t, r>>
    <3> TAKE x \in 1 .. Len(f)
    <3>1. i \in {i} /\ x \in 1 .. Len(source[i].facts) /\ f[x] = <<i, x>>
          BY <2>3 DEF f
    <3> QED
      BY <3>1
  <2>6. \A t \in {i} : \A r \in 1 .. Len(source[t].facts) : In(f, <<t, r>>)
    <3> TAKE t \in {i}
    <3> TAKE r \in 1 .. Len(source[t].facts)
    <3>1. t = i /\ r \in 1 .. Len(f)
          BY DEF f
    <3> QED
      BY <2>3, <3>1 DEF In
  <2>7. 1 \in 1 .. Len(f) /\ f[1] = <<i, 1>>
        BY <2>2, <2>3
  <2> QED
    BY <2>2, <2>4, <2>5, <2>6, <2>7 DEF Says, f
<1> QED
  BY <1>3, <1>4 DEF Cut

LEMMA CutStitched ==
  ASSUME source \in Seq(Block), Stated(source)
  PROVE  Cut(Stitched(source))
<1>1. PICK h \in [0 .. Len(source) -> Seq(Block)] :
        /\ h[0] = source
        /\ \A n \in 1 .. Len(source) : h[n] = StitchRound(h[n - 1])
        /\ Stitched(source) = h[Len(source)]
  <2>1. RoundsOf(source) # {}
        BY RoundsExist
  <2> QED
    BY <2>1 DEF RoundsOf
<1>2. Len(source) \in Nat
      BY LenProperties
<1> DEFINE T == {n \in Nat : n <= Len(source) => Cut(h[n])}
<1>3. 0 \in T
      BY <1>1, CutSource
<1>4. ASSUME NEW k \in T PROVE k + 1 \in T
  <2> SUFFICES ASSUME k + 1 <= Len(source) PROVE Cut(h[k + 1])
      OBVIOUS
  <2>1. k + 1 \in 1 .. Len(source) /\ (k + 1) - 1 = k /\ k \in 0 .. Len(source) /\ Cut(h[k])
        BY <1>2
  <2>2. h[k + 1] = StitchRound(h[k]) /\ h[k] \in Seq(Block)
        BY <1>1, <2>1
  <2> QED
    BY <2>1, <2>2, CutRound
<1>5. T = Nat
  <2>1. T \in SUBSET Nat
        OBVIOUS
  <2> HIDE DEF T
  <2> QED
    BY <1>3, <1>4, <2>1, Induction
<1>6. Cut(h[Len(source)])
  <2>1. Len(source) \in T
        BY <1>2, <1>5
  <2> QED
    BY <1>2, <2>1
<1> QED
  BY <1>1, <1>6

-----------------------------------------------------------------------------
(* What the passes keep *)

\* Every block that a pass has written is one of those it writes somewhere.
LEMMA WalkMembers ==
  ASSUME NEW S, NEW write \in Seq(Seq(S)), NEW reach \in [1 .. Len(write) -> Nat], NEW v,
         In(Walk(write, reach), v)
  PROVE  InSome(write, Len(write), v)
<1> DEFINE N == Len(write)
<1>1. PICK h \in [0 .. N -> [out : Seq(S), done : Nat]] :
        /\ h[0] = [out |-> <<>>, done |-> 0]
        /\ \A k \in 1 .. N :
             h[k] = IF k <= h[k - 1].done THEN h[k - 1]
                    ELSE [out |-> h[k - 1].out \o write[k], done |-> reach[k]]
        /\ Walk(write, reach) = h[N].out
  <2>1. Passes(S, write, reach) # {}
        BY WalkExists
  <2> QED
    BY <2>1 DEF Passes
<1>2. N \in Nat /\ \A k \in 1 .. N : write[k] \in Seq(S)
      BY LenProperties
<1> HIDE DEF N
<1> DEFINE T == {k \in Nat : k <= N => (In(h[k].out, v) => InSome(write, k, v))}
<1>3. 0 \in T
  <2>1. h[0].out = <<>> /\ Len(<<>>) = 0
        BY <1>1
  <2>2. ~In(h[0].out, v)
        BY <2>1 DEF In
  <2> QED
    BY <2>2
<1>4. ASSUME NEW k \in T PROVE k + 1 \in T
  <2> SUFFICES ASSUME k + 1 <= N, In(h[k + 1].out, v) PROVE InSome(write, k + 1, v)
      OBVIOUS
  <2>1. /\ k + 1 \in 1 .. N /\ (k + 1) - 1 = k /\ k \in 0 .. N /\ k \in Nat
        /\ In(h[k].out, v) => InSome(write, k, v)
        BY <1>2
  <2>2. h[k].out \in Seq(S) /\ write[k + 1] \in Seq(S)
        BY <1>1, <1>2, <2>1
  <2>3. InSome(write, k, v) => InSome(write, k + 1, v)
    <3>1. \A j \in 1 .. k : j \in 1 .. k + 1
          BY <2>1
    <3> QED
      BY <3>1 DEF InSome
  <2>4. CASE k + 1 <= h[k].done
    <3>1. h[k + 1] = h[k]
          BY <1>1, <2>1, <2>4
    <3> QED
      BY <2>1, <2>3, <3>1
  <2>5. CASE ~(k + 1 <= h[k].done)
    <3>1. h[k + 1].out = h[k].out \o write[k + 1]
      <4> DEFINE o == h[k].out \o write[k + 1]
      <4>1. h[k + 1] = [out |-> o, done |-> reach[k + 1]]
            BY <1>1, <2>1, <2>5
      <4> HIDE DEF o
      <4>2. h[k + 1].out = o
            BY <4>1
      <4> QED
        BY <4>2 DEF o
    <3>2. In(h[k].out \o write[k + 1], v)
          BY <3>1
    <3>3. In(h[k].out, v) \/ In(write[k + 1], v)
          BY <2>2, <3>2, InConcat
    <3>4. In(write[k + 1], v) => InSome(write, k + 1, v)
      <4>1. k + 1 \in 1 .. k + 1
            BY <2>1
      <4> QED
        BY <4>1 DEF InSome
    <3> QED
      BY <2>1, <2>3, <3>3, <3>4
  <2> QED
    BY <2>4, <2>5
<1>5. T = Nat
  <2>1. T \in SUBSET Nat
        OBVIOUS
  <2> HIDE DEF T
  <2> QED
    BY <1>3, <1>4, <2>1, Induction
<1>6. N \in T
      BY <1>2, <1>5
<1> QED
  BY <1>1, <1>2, <1>6 DEF N

AllFacts(bs) == FactsOf(bs, 1, Len(bs))

LEMMA AllFactsType ==
  ASSUME NEW bs \in Seq(Block)
  PROVE  AllFacts(bs) \in Seq(Fact)
<1>1. 1 \in Nat \ {0} /\ Len(bs) \in 0 .. Len(bs)
      BY LenProperties
<1> QED
  BY <1>1, FactsSteps DEF AllFacts

LEMMA AllFactsNone == AllFacts(<<>>) = <<>>
<1>1. <<>> \in Seq(Block) /\ Len(<<>>) = 0
      BY EmptySeq
<1> QED
  BY <1>1, NothingDelivered DEF AllFacts

\* The facts of one more block come last.
LEMMA AllFactsAppend ==
  ASSUME NEW bs \in Seq(Block), NEW b \in Block
  PROVE  AllFacts(bs \o <<b>>) = AllFacts(bs) \o b.facts
<1> DEFINE cs == Append(bs, b)
           n == Len(bs)
           s == [k \in DOMAIN bs |-> bs[k].facts]
           t == [k \in DOMAIN cs |-> cs[k].facts]
<1>1. bs \o <<b>> = cs
      BY AppendIsConcat
<1>2. /\ cs \in Seq(Block) /\ Len(cs) = n + 1 /\ n \in Nat /\ cs[n + 1] = b
      /\ \A k \in 1 .. n : cs[k] = bs[k]
      BY AppendProperties, LenProperties
<1> HIDE DEF cs
<1>3. /\ DOMAIN bs = 1 .. n /\ DOMAIN cs = 1 .. n + 1
      BY <1>2, LenProperties
<1>4. s \in ManySeqs(Fact, n)
  <2>1. \A k \in 1 .. n : bs[k].facts \in Seq(Fact)
        BY ElementOfSeq, BlockFields
  <2> QED
    BY <1>3, <2>1 DEF ManySeqs
<1>5. t \in ManySeqs(Fact, n + 1)
  <2>1. \A k \in 1 .. n + 1 : cs[k].facts \in Seq(Fact)
        BY <1>2, ElementOfSeq, BlockFields
  <2> QED
    BY <1>3, <2>1 DEF ManySeqs
<1>6. \A k \in 1 .. n : s[k] = t[k]
      BY <1>2, <1>3
<1>7. FactsOf(bs, 1, n) = Concat(s, 1, n) /\ FactsOf(cs, 1, n) = Concat(t, 1, n)
      BY DEF FactsOf
<1> HIDE DEF s, t
<1>8. Concat(s, 1, n) = Concat(t, 1, n)
  <2>1. n \in Nat /\ n + 1 \in Nat /\ n <= n /\ n <= n + 1
        BY <1>2
  <2> QED
    BY <1>4, <1>5, <1>6, <2>1, ConcatSame
<1>9. FactsOf(cs, 1, n + 1) = FactsOf(cs, 1, n) \o b.facts
  <2>1. n + 1 \in 0 .. Len(cs) /\ 1 \in Nat \ {0} /\ 1 <= n + 1 /\ (n + 1) - 1 = n
        BY <1>2
  <2>2. FactsOf(cs, 1, n + 1) = FactsOf(cs, 1, (n + 1) - 1) \o cs[n + 1].facts
        BY <1>2, <2>1, FactsSteps
  <2> QED
    BY <1>2, <2>1, <2>2
<1> QED
  BY <1>1, <1>2, <1>7, <1>8, <1>9 DEF AllFacts

\* The cleaner keeps the facts of the blocks it keeps.
KeptFacts(bs) == [i \in DOMAIN bs |-> IF Kept(bs[i]) THEN bs[i].facts ELSE <<>>]

LEMMA KeptFactsType ==
  ASSUME NEW bs \in Seq(Block)
  PROVE  /\ KeptFacts(bs) \in ManySeqs(Fact, Len(bs)) /\ Len(bs) \in Nat
         /\ \A i \in 1 .. Len(bs) : KeptFacts(bs)[i] = IF Kept(bs[i]) THEN bs[i].facts ELSE <<>>
<1>1. DOMAIN bs = 1 .. Len(bs) /\ Len(bs) \in Nat
      BY LenProperties
<1>2. \A i \in 1 .. Len(bs) : (IF Kept(bs[i]) THEN bs[i].facts ELSE <<>>) \in Seq(Fact)
      BY ElementOfSeq, BlockFields, EmptySeq
<1> QED
  BY <1>1, <1>2 DEF KeptFacts, ManySeqs

LEMMA CleanedFacts ==
  ASSUME NEW bs \in Seq(Block)
  PROVE  AllFacts(Cleaned(bs)) = Concat(KeptFacts(bs), 1, Len(bs))
<1> DEFINE N == Len(bs)
           write == CleanWrites(bs)
           reach == Positions(bs)
           s == KeptFacts(bs)
<1>1. /\ N \in Nat /\ DOMAIN bs = 1 .. N /\ Cleaned(bs) = Walk(write, reach)
      /\ write \in Seq(Seq(Block)) /\ Len(write) = N /\ reach \in [1 .. Len(write) -> Nat]
      BY CleanedIs, LenProperties
<1>2. \A k \in 1 .. N : /\ write[k] = IF Kept(bs[k]) THEN <<Normalised(bs[k])>> ELSE <<>>
                        /\ reach[k] = k
      BY <1>1 DEF CleanWrites, Positions
<1>3. /\ s \in ManySeqs(Fact, N)
      /\ \A i \in 1 .. N : s[i] = IF Kept(bs[i]) THEN bs[i].facts ELSE <<>>
      BY KeptFactsType
<1>a. s \in ManySeqs(Fact, N)
      BY <1>3
<1>b. N \in Nat /\ 1 \in Nat \ {0}
      BY <1>1
<1>c. ASSUME NEW i \in 1 .. N PROVE Concat(s, 1, i) = Concat(s, 1, i - 1) \o s[i]
  <2>1. N \in Nat /\ 1 \in Nat \ {0} /\ i \in 0 .. N /\ 1 <= i
        BY <1>1
  <2>2. s \in ManySeqs(Fact, N)
        BY <1>3
  <2> HIDE DEF N, s
  <2> QED
    BY <2>1, <2>2, ConcatLast
<1> HIDE DEF write, reach, s
<1>4. PICK h \in [0 .. N -> [out : Seq(Block), done : Nat]] :
        /\ h[0] = [out |-> <<>>, done |-> 0]
        /\ \A k \in 1 .. N :
             h[k] = IF k <= h[k - 1].done THEN h[k - 1]
                    ELSE [out |-> h[k - 1].out \o write[k], done |-> reach[k]]
        /\ Walk(write, reach) = h[N].out
  <2>1. Passes(Block, write, reach) # {}
        BY <1>1, WalkExists
  <2> QED
    BY <1>1, <2>1 DEF Passes
<1> HIDE DEF N
<1> DEFINE T == {k \in Nat : k <= N => /\ h[k].done = k
                                       /\ AllFacts(h[k].out) = Concat(s, 1, k)}
<1>5. 0 \in T
  <2>1. 0 \in 0 .. N /\ 1 \in Nat \ {0} /\ 0 < 1
        BY <1>1
  <2>2. Concat(s, 1, 0) = <<>>
        BY <1>a, <1>b, <2>1, ConcatSteps
  <2>3. h[0].out = <<>> /\ h[0].done = 0
        BY <1>4
  <2> QED
    BY <2>2, <2>3, AllFactsNone
<1>6. ASSUME NEW k \in T PROVE k + 1 \in T
  <2> SUFFICES ASSUME k + 1 <= N
               PROVE  h[k + 1].done = k + 1 /\ AllFacts(h[k + 1].out) = Concat(s, 1, k + 1)
      OBVIOUS
  <2> DEFINE j == k + 1
             o == h[k].out
  <2>1. /\ j \in 1 .. N /\ j - 1 = k /\ k \in 0 .. N /\ h[k].done = k
        /\ AllFacts(o) = Concat(s, 1, k) /\ ~(j <= k) /\ j \in 0 .. N /\ 1 <= j
        BY <1>1
  <2> HIDE DEF j
  <2>2. o \in Seq(Block)
        BY <1>4, <2>1
  <2>3. h[j] = [out |-> o \o write[j], done |-> j]
        BY <1>2, <1>4, <2>1
  <2> HIDE DEF o
  <2>4. Concat(s, 1, j) = Concat(s, 1, j - 1) \o s[j]
        BY <1>c, <2>1
  <2>5. AllFacts(o \o write[j]) = AllFacts(o) \o s[j]
    <3>1. CASE Kept(bs[j])
      <4>1. bs[j] \in Block
            BY <2>1, ElementOfSeq DEF N
      <4>2. Normalised(bs[j]) \in Block /\ Normalised(bs[j]).facts = bs[j].facts
            BY <4>1, NormalisedIs
      <4>3. AllFacts(o \o <<Normalised(bs[j])>>) = AllFacts(o) \o bs[j].facts
            BY <2>2, <4>2, AllFactsAppend
      <4> QED
        BY <1>2, <1>3, <2>1, <3>1, <4>3
    <3>2. CASE ~Kept(bs[j])
      <4>1. write[j] = <<>> /\ s[j] = <<>>
            BY <1>2, <1>3, <2>1, <3>2
      <4>2. AllFacts(o) \in Seq(Fact)
            BY <2>2, AllFactsType
      <4>3. o \o <<>> = o /\ AllFacts(o) \o <<>> = AllFacts(o)
            BY <2>2, <4>2, ConcatEmptySeq
      <4> QED
        BY <4>1, <4>3
    <3> QED
      BY <3>1, <3>2
  <2>6. h[j].done = j /\ h[j].out = o \o write[j]
        BY <2>3
  <2>7. AllFacts(h[j].out) = Concat(s, 1, j)
        BY <2>1, <2>4, <2>5, <2>6
  <2> QED
    BY <2>6, <2>7 DEF j
<1>7. T = Nat
  <2>1. T \in SUBSET Nat
        OBVIOUS
  <2> HIDE DEF T
  <2> QED
    BY <1>5, <1>6, <2>1, Induction
<1>8. AllFacts(h[N].out) = Concat(s, 1, N)
  <2>1. N \in T
        BY <1>1, <1>7
  <2> QED
    BY <1>1, <2>1
<1> QED
  BY <1>1, <1>4, <1>8 DEF N, s

\* Joining blocks keeps all facts, in their order.
LEMMA JoinedFacts ==
  ASSUME NEW bs \in Seq(Block), NEW last \in Ends(bs)
  PROVE  AllFacts(Joined(bs, last)) = AllFacts(bs)
<1> DEFINE N == Len(bs)
           write == JoinedWrites(bs, last)
<1>1. /\ N \in Nat /\ DOMAIN bs = 1 .. N /\ Joined(bs, last) = Walk(write, last)
      /\ write \in Seq(Seq(Block)) /\ Len(write) = N
      BY JoinedIs, LenProperties
<1>2. /\ last \in [1 .. N -> Nat] /\ \A i \in 1 .. N : last[i] \in i .. N
      BY DEF Ends
<1>3. \A k \in 1 .. N : write[k] = <<JoinedAt(bs, last, k)>>
      BY <1>1 DEF JoinedWrites
<1> HIDE DEF write
<1>4. PICK h \in [0 .. N -> [out : Seq(Block), done : Nat]] :
        /\ h[0] = [out |-> <<>>, done |-> 0]
        /\ \A k \in 1 .. N :
             h[k] = IF k <= h[k - 1].done THEN h[k - 1]
                    ELSE [out |-> h[k - 1].out \o write[k], done |-> last[k]]
        /\ Walk(write, last) = h[N].out
  <2>1. last \in [1 .. Len(write) -> Nat]
        BY <1>1, <1>2
  <2>2. Passes(Block, write, last) # {}
        BY <1>1, <2>1, WalkExists
  <2> QED
    BY <1>1, <2>2 DEF Passes
<1> HIDE DEF N
<1> DEFINE T == {k \in Nat : k <= N => /\ h[k].done \in k .. N
                                       /\ AllFacts(h[k].out) = FactsOf(bs, 1, h[k].done)}
<1>5. 0 \in T
  <2>1. h[0].out = <<>> /\ h[0].done = 0 /\ 0 \in 0 .. N
        BY <1>1, <1>4
  <2>2. FactsOf(bs, 1, 0) = <<>>
        BY NothingDelivered
  <2> QED
    BY <2>1, <2>2, AllFactsNone
<1>6. ASSUME NEW k \in T PROVE k + 1 \in T
  <2> SUFFICES ASSUME k + 1 <= N
               PROVE  /\ h[k + 1].done \in k + 1 .. N
                      /\ AllFacts(h[k + 1].out) = FactsOf(bs, 1, h[k + 1].done)
      OBVIOUS
  <2> DEFINE j == k + 1
             o == h[k].out
             d == h[k].done
  <2>1. /\ j \in 1 .. N /\ j - 1 = k /\ k \in 0 .. N /\ d \in k .. N
        /\ AllFacts(o) = FactsOf(bs, 1, d)
        BY <1>1
  <2> HIDE DEF j
  <2>2. o \in Seq(Block)
        BY <1>4, <2>1
  <2> HIDE DEF o, d
  <2>3. CASE j <= d
    <3>1. h[j] = h[k]
          BY <1>4, <2>1, <2>3 DEF d
    <3>2. d \in j .. N
          BY <2>1, <2>3
    <3> QED
      BY <2>1, <3>1, <3>2 DEF o, d, j
  <2>4. CASE ~(j <= d)
    <3>1. d = j - 1
          BY <1>1, <2>1, <2>4
    <3>2. h[j] = [out |-> o \o write[j], done |-> last[j]]
          BY <1>4, <2>1, <2>4 DEF o, d
    <3>3. /\ JoinedAt(bs, last, j) \in Block
          /\ JoinedAt(bs, last, j).facts = FactsOf(bs, j, last[j])
          BY <2>1, JoinedAtIs DEF N
    <3>4. AllFacts(o \o write[j]) = AllFacts(o) \o FactsOf(bs, j, last[j])
      <4>1. AllFacts(o \o <<JoinedAt(bs, last, j)>>) = AllFacts(o) \o JoinedAt(bs, last, j).facts
            BY <2>2, <3>3, AllFactsAppend
      <4> QED
        BY <1>3, <2>1, <3>3, <4>1
    <3>5. FactsOf(bs, 1, last[j]) = FactsOf(bs, 1, j - 1) \o FactsOf(bs, j, last[j])
      <4>1. /\ j - 1 \in 0 .. Len(bs) /\ last[j] \in (j - 1) .. Len(bs) /\ (j - 1) + 1 = j
            BY <1>1, <1>2, <2>1 DEF N
      <4>2. FactsOf(bs, 1, last[j]) = FactsOf(bs, 1, j - 1) \o FactsOf(bs, (j - 1) + 1, last[j])
            BY <4>1, FactsSplit
      <4> QED
        BY <4>1, <4>2
    <3>6. h[j].done = last[j] /\ h[j].out = o \o write[j] /\ last[j] \in j .. N
      <4>1. last[j] \in j .. N
            BY <1>2, <2>1 DEF N
      <4> QED
        BY <3>2, <4>1, SMTT(20)
    <3>7. AllFacts(h[j].out) = FactsOf(bs, 1, h[j].done)
          BY <2>1, <3>1, <3>4, <3>5, <3>6
    <3> QED
      BY <3>6, <3>7 DEF j
  <2> QED
    BY <2>3, <2>4
<1>7. T = Nat
  <2>1. T \in SUBSET Nat
        OBVIOUS
  <2> HIDE DEF T
  <2> QED
    BY <1>5, <1>6, <2>1, Induction
<1>8. h[N].done \in N .. N /\ AllFacts(h[N].out) = FactsOf(bs, 1, h[N].done)
  <2>1. N \in T
        BY <1>1, <1>7
  <2> QED
    BY <1>1, <2>1
<1>9. h[N].done = N
      BY <1>1, <1>8
<1> QED
  BY <1>1, <1>4, <1>8, <1>9 DEF N, AllFacts

\* Every table of cs is one of bs.
SameTable(a, b) == a.facts = b.facts /\ a.origin = b.origin /\ a.page = b.page
TablesFrom(cs, bs) ==
  \A k \in 1 .. Len(cs) : cs[k].kind = "table" =>
    \E j \in 1 .. Len(bs) : bs[j].kind = "table" /\ SameTable(cs[k], bs[j])

LEMMA TablesFromOthers ==
  ASSUME NEW as, NEW bs, NEW cs, TablesFrom(cs, bs), TablesFrom(bs, as)
  PROVE  TablesFrom(cs, as)
<1> SUFFICES ASSUME NEW k \in 1 .. Len(cs), cs[k].kind = "table"
             PROVE  \E i \in 1 .. Len(as) : as[i].kind = "table" /\ SameTable(cs[k], as[i])
    BY DEF TablesFrom
<1>1. PICK j \in 1 .. Len(bs) : bs[j].kind = "table" /\ SameTable(cs[k], bs[j])
      BY DEF TablesFrom
<1>2. PICK i \in 1 .. Len(as) : as[i].kind = "table" /\ SameTable(bs[j], as[i])
      BY <1>1 DEF TablesFrom
<1>3. SameTable(cs[k], as[i])
      BY <1>1, <1>2 DEF SameTable
<1> QED
  BY <1>2, <1>3

LEMMA CleanedTables ==
  ASSUME NEW bs \in Seq(Block)
  PROVE  TablesFrom(Cleaned(bs), bs)
<1> DEFINE write == CleanWrites(bs)
           reach == Positions(bs)
           cs == Cleaned(bs)
<1>1. /\ Len(bs) \in Nat /\ DOMAIN bs = 1 .. Len(bs) /\ cs = Walk(write, reach)
      /\ write \in Seq(Seq(Block)) /\ Len(write) = Len(bs) /\ reach \in [1 .. Len(write) -> Nat]
      BY CleanedIs, LenProperties
<1>2. \A j \in 1 .. Len(bs) : write[j] = IF Kept(bs[j]) THEN <<Normalised(bs[j])>> ELSE <<>>
      BY <1>1 DEF CleanWrites
<1> HIDE DEF write, reach, cs
<1>3. ASSUME NEW k \in 1 .. Len(cs), cs[k].kind = "table"
      PROVE  \E j \in 1 .. Len(bs) : bs[j].kind = "table" /\ SameTable(cs[k], bs[j])
  <2>1. In(Walk(write, reach), cs[k])
        BY <1>1 DEF In
  <2>2. InSome(write, Len(write), cs[k])
        BY <1>1, <2>1, WalkMembers
  <2>3. PICK j \in 1 .. Len(bs) : In(write[j], cs[k])
        BY <1>1, <2>2 DEF InSome
  <2>4. cs[k] = Normalised(bs[j])
    <3>1. \A b : In(<<b>>, cs[k]) => cs[k] = b
          BY DEF In
    <3>2. ~In(<<>>, cs[k])
      <4>1. Len(<<>>) = 0
            OBVIOUS
      <4> QED
        BY <4>1 DEF In
    <3> QED
      BY <1>2, <2>3, <3>1, <3>2
  <2>5. bs[j] \in Block
        BY ElementOfSeq
  <2>6. /\ bs[j].kind = "table" /\ Normalised(bs[j]).facts = bs[j].facts
        /\ Normalised(bs[j]).page = bs[j].page
        BY <1>3, <2>4, <2>5, NormalisedIs
  <2>7. Normalised(bs[j]).origin = bs[j].origin
        BY <2>5, <2>6, NormalisedIs
  <2> QED
    BY <2>4, <2>6, <2>7 DEF SameTable
<1> QED
  BY <1>3 DEF TablesFrom, cs

LEMMA JoinedTables ==
  ASSUME NEW bs \in Seq(Block), NEW last \in Ends(bs)
  PROVE  TablesFrom(Joined(bs, last), bs)
<1> DEFINE write == JoinedWrites(bs, last)
           cs == Joined(bs, last)
<1>1. /\ Len(bs) \in Nat /\ DOMAIN bs = 1 .. Len(bs) /\ cs = Walk(write, last)
      /\ write \in Seq(Seq(Block)) /\ Len(write) = Len(bs)
      BY JoinedIs, LenProperties
<1>2. last \in [1 .. Len(write) -> Nat]
      BY <1>1 DEF Ends
<1>3. \A j \in 1 .. Len(bs) : write[j] = <<JoinedAt(bs, last, j)>>
      BY <1>1 DEF JoinedWrites
<1> HIDE DEF write, cs
<1>4. ASSUME NEW k \in 1 .. Len(cs), cs[k].kind = "table"
      PROVE  \E j \in 1 .. Len(bs) : bs[j].kind = "table" /\ SameTable(cs[k], bs[j])
  <2>1. In(Walk(write, last), cs[k])
        BY <1>1 DEF In
  <2>2. InSome(write, Len(write), cs[k])
        BY <1>1, <1>2, <2>1, WalkMembers
  <2>3. PICK j \in 1 .. Len(bs) : In(write[j], cs[k])
        BY <1>1, <2>2 DEF InSome
  <2>4. cs[k] = JoinedAt(bs, last, j)
    <3>1. \A b : In(<<b>>, cs[k]) => cs[k] = b
          BY DEF In
    <3> QED
      BY <1>3, <2>3, <3>1
  <2>5. bs[j].kind = "table"
        BY <1>4, <2>4, JoinedAtIs
  <2>6. last[j] = j
    <3>1. /\ last[j] \in j .. Len(bs)
          /\ last[j] # j => \A i \in j .. last[j] : bs[i].kind # "table"
          BY DEF Ends
    <3>2. j \in j .. last[j]
          BY <3>1
    <3> QED
      BY <2>5, <3>1, <3>2
  <2>7. cs[k] = bs[j]
        BY <2>4, <2>6 DEF JoinedAt
  <2> QED
    BY <2>5, <2>7 DEF SameTable
<1> QED
  BY <1>4 DEF TablesFrom, cs

-----------------------------------------------------------------------------
(* From the source to the chunks *)

\* What comes out of an extraction: as it is, or stitched.
Extracted == {source, Stitched(source)}
\* The blocks say what the cleaner keeps, and their tables are extracted ones.
Follow(bs) == AllFacts(blocks) = Concat(KeptFacts(bs), 1, Len(bs)) /\ TablesFrom(blocks, bs)
Traced ==
  /\ pc = "stitch" => blocks = source
  /\ pc = "clean" => blocks \in Extracted
  /\ pc \in {"optimize", "chunk", "done"} => \E bs \in Extracted : Follow(bs)

LEMMA ExtractedAre ==
  ASSUME source \in Sources, NEW bs \in Extracted
  PROVE  bs \in Seq(Block) /\ Cut(bs)
<1>1. source \in Seq(Block) /\ Stated(source)
      BY SourcesAssumption
<1>2. Stitched(source) \in Seq(Block)
      BY <1>1, StitchedType
<1>3. Cut(source)
      BY <1>1, CutSource
<1>4. Cut(Stitched(source))
      BY <1>1, CutStitched
<1> QED
  BY <1>1, <1>2, <1>3, <1>4 DEF Extracted

LEMMA StitchTraced ==
  ASSUME Traced, StitchTables
  PROVE  Traced'
BY DEF Traced, StitchTables, Extracted

LEMMA CleanTraced ==
  ASSUME IInv, Traced, Clean
  PROVE  Traced'
<1>1. /\ blocks \in Extracted /\ blocks \in Seq(Block) /\ pc' = "optimize"
      /\ blocks' = Cleaned(blocks) /\ source' = source
      BY DEF Traced, Clean, IInv, TypeOK
<1>2. /\ AllFacts(blocks') = Concat(KeptFacts(blocks), 1, Len(blocks))
      /\ TablesFrom(blocks', blocks)
      BY <1>1, CleanedFacts, CleanedTables
<1>3. Extracted' = Extracted
      BY <1>1 DEF Extracted
<1>4. \E bs \in Extracted : AllFacts(blocks') = Concat(KeptFacts(bs), 1, Len(bs))
                            /\ TablesFrom(blocks', bs)
      BY <1>1, <1>2
<1> QED
  BY <1>1, <1>3, <1>4 DEF Traced, Follow

LEMMA OptimizeTraced ==
  ASSUME IInv, Traced, Optimize
  PROVE  Traced'
<1> DEFINE cs == TitlesMerged(blocks)
           ds == FragmentsMerged(cs)
<1>1. /\ blocks \in Seq(Block) /\ pc' = "chunk" /\ source' = source /\ blocks' = ds
      BY DEF Optimize, IInv, TypeOK
<1>2. PICK bs \in Extracted : Follow(bs)
      BY DEF Traced, Optimize
<1>3. /\ cs = Joined(blocks, TitleEnds(blocks)) /\ cs \in Seq(Block)
      /\ TitleEnds(blocks) \in Ends(blocks)
      BY <1>1, OptimizedType, EndsAre
<1>4. AllFacts(cs) = AllFacts(blocks) /\ TablesFrom(cs, blocks)
      BY <1>1, <1>3, JoinedFacts, JoinedTables
<1> HIDE DEF cs
<1>5. /\ ds = Joined(cs, FragmentEnds(cs)) /\ FragmentEnds(cs) \in Ends(cs)
      BY <1>3, OptimizedType, EndsAre
<1>6. AllFacts(ds) = AllFacts(cs) /\ TablesFrom(ds, cs)
      BY <1>3, <1>5, JoinedFacts, JoinedTables
<1> HIDE DEF ds
<1>7. TablesFrom(ds, bs)
  <2>1. TablesFrom(ds, blocks)
        BY <1>4, <1>6, TablesFromOthers
  <2>2. TablesFrom(blocks, bs)
        BY <1>2 DEF Follow
  <2> QED
    BY <2>1, <2>2, TablesFromOthers
<1>8. AllFacts(ds) = Concat(KeptFacts(bs), 1, Len(bs))
      BY <1>2, <1>4, <1>6 DEF Follow
<1>9. Extracted' = Extracted
      BY <1>1 DEF Extracted
<1>10. \E as \in Extracted : AllFacts(ds) = Concat(KeptFacts(as), 1, Len(as)) /\ TablesFrom(ds, as)
       BY <1>7, <1>8
<1> QED
  BY <1>1, <1>9, <1>10 DEF Traced, Follow

LEMMA ChunkTraced ==
  ASSUME Traced, source' = source, blocks' = blocks, pc \in {"chunk", "done"},
         pc' \in {"chunk", "done"}
  PROVE  Traced'
BY DEF Traced, Follow, Extracted

LEMMA TracedHolds == Spec => []Traced
<1>1. Init => Traced
      BY DEF Init, Traced, Extracted
<1>2. IInv /\ Traced /\ [Next]_vars => Traced'
  <2> SUFFICES ASSUME IInv, Traced, [Next]_vars PROVE Traced'
      OBVIOUS
  <2>1. CASE StitchTables
        BY <2>1, StitchTraced
  <2>2. CASE Clean
        BY <2>2, CleanTraced
  <2>3. CASE Optimize
        BY <2>3, OptimizeTraced
  <2>4. CASE ChunkHeading \/ ChunkGroup \/ ChunkTable \/ ChunkRows \/ ChunkBlock \/ Finish
    <3>1. source' = source /\ blocks' = blocks /\ pc = "chunk" /\ pc' \in {"chunk", "done"}
          BY <2>4 DEF ChunkHeading, ChunkGroup, ChunkTable, ChunkRows, ChunkBlock, Finish,
                      Looking, Keeps
    <3> QED
      BY <3>1, ChunkTraced
  <2>5. CASE Done \/ UNCHANGED vars
    <3>1. source' = source /\ blocks' = blocks /\ pc' = pc
          BY <2>5 DEF Done, vars
    <3> QED
      BY <3>1 DEF Traced, Follow, Extracted
  <2> QED
    BY <2>1, <2>2, <2>3, <2>4, <2>5 DEF Next
<1> QED
  BY <1>1, <1>2, Invariance, PTL DEF Spec

-----------------------------------------------------------------------------
(* The pages that ranges name *)

LEMMA RangeFacts ==
  ASSUME NEW f \in Seq(Fact), NEW r \in 1 .. Len(f), NEW e \in r .. Len(f)
  PROVE  ToSet(SubSeq(f, r, e)) = {f[x] : x \in r .. e}
<1> DEFINE s == SubSeq(f, r, e)
<1>1. Len(f) \in Nat /\ r \in Int /\ e \in Int
      BY LenProperties
<1>2. \A i \in r .. e : f[i] \in Fact
      BY <1>1, ElementOfSeq
<1>3. s \in Seq(Fact)
      BY <1>1, <1>2, SubSeqProperties
<1>4. Len(s) = e - r + 1
  <2>1. Len(s) = IF r <= e THEN e - r + 1 ELSE 0
        BY <1>1, <1>2, SubSeqProperties
  <2> QED
    BY <1>1, <2>1
<1>5. \A i \in 1 .. e - r + 1 : s[i] = f[r + i - 1]
      BY <1>1, <1>2, SubSeqProperties
<1> HIDE DEF s
<1>6. DOMAIN s = 1 .. e - r + 1
      BY <1>3, <1>4, LenProperties
<1>7. \A i \in 1 .. e - r + 1 : r + i - 1 \in r .. e
      BY <1>1
<1>8. \A x \in r .. e : x - r + 1 \in 1 .. e - r + 1 /\ r + (x - r + 1) - 1 = x
      BY <1>1
<1>9. \A x \in r .. e : s[x - r + 1] = f[x]
      BY <1>5, <1>8
<1>10. ToSet(s) = {s[i] : i \in 1 .. e - r + 1}
       BY <1>6 DEF ToSet
<1>11. \A v \in ToSet(s) : v \in {f[x] : x \in r .. e}
  <2>1. \A i \in 1 .. e - r + 1 : s[i] \in {f[x] : x \in r .. e}
        BY <1>5, <1>7
  <2> QED
    BY <1>10, <2>1
<1>12. \A x \in r .. e : f[x] \in ToSet(s)
      BY <1>8, <1>9, <1>10
<1>13. ToSet(s) = {f[x] : x \in r .. e}
  <2> DEFINE X == {f[x] : x \in r .. e}
  <2>1. \A v \in X : v \in ToSet(s)
        BY <1>12
  <2>2. \A v \in ToSet(s) : v \in X
        BY <1>11
  <2> HIDE DEF X
  <2>3. ToSet(s) = X
        BY <2>1, <2>2
  <2> QED
    BY <2>3 DEF X
<1> QED
  BY <1>13 DEF s

\* The pages that the rows r..e of a table stood on in the source.
StoodOn(b, r, e) == {source[b.facts[x][1]].page : x \in r .. e} \ {0}

\* A table that was not stitched is one of the source.
LEMMA UnstitchedPages ==
  ASSUME source \in Seq(Block), Stated(source), NEW bs \in Seq(Block), Cut(bs),
         NEW i \in 1 .. Len(bs), bs[i].kind = "table", bs[i].origin = <<>>,
         NEW b, SameTable(b, bs[i]), NEW r \in 1 .. Len(b.facts), NEW e \in r .. Len(b.facts)
  PROVE  StoodOn(b, r, e) = SourcePages(b, r, e)
<1>1. PICK H, G : Frame(bs, H, G) /\ Content(bs, H, G)
      BY DEF Cut
<1> DEFINE h == H[i]
<1>2. h \in 1 .. Len(source) /\ bs[i] = source[h]
  <2>1. Stands(bs[i], H[i], G[i]) /\ Says(bs[i], H[i], G[i])
        BY <1>1 DEF Frame, Content
  <2> QED
    BY <2>1 DEF Stands, Says
<1> HIDE DEF h
<1>3. source[h].kind = "table" /\ h \in DOMAIN source /\ source[h] \in Block
      BY <1>2, LenProperties, ElementOfSeq
<1>4. source[h].facts = [x \in DOMAIN source[h].rows |-> <<h, x>>]
      BY <1>3 DEF Stated
<1>5. b.facts = source[h].facts /\ b.page = source[h].page /\ b.origin = <<>>
      BY <1>2 DEF SameTable
<1>6. /\ Len(b.facts) \in Nat /\ DOMAIN source[h].rows = 1 .. Len(b.facts)
      BY <1>3, <1>5, TableFields, LenProperties
<1>7. \A x \in r .. e : b.facts[x] = <<h, x>>
  <2>1. \A x \in r .. e : x \in 1 .. Len(b.facts)
        BY <1>6
  <2> QED
    BY <1>4, <1>5, <1>6, <2>1
<1>8. \A x \in r .. e : source[b.facts[x][1]].page = b.page
      BY <1>5, <1>7
<1>9. r \in r .. e
      BY <1>6
<1>10. {source[b.facts[x][1]].page : x \in r .. e} = {b.page}
       BY <1>8, <1>9
<1> QED
  BY <1>5, <1>10 DEF StoodOn, SourcePages

\* A table that was stitched once is two of the source.
LEMMA StitchedPages ==
  ASSUME source \in Seq(Block), Stated(source), NEW c \in ToSet(StitchRound(source)),
         c.kind = "table", c.origin # <<>>,
         NEW b, c.facts = b.facts, c.origin = b.origin,
         NEW r \in 1 .. Len(b.facts), NEW e \in r .. Len(b.facts)
  PROVE  StoodOn(b, r, e) = SourcePages(b, r, e)
<1>1. PICK i \in 1 .. Len(source) : c = Joins(source, i)
  <2>1. PICK a \in Nat : Written(source, Len(source), StitchRound(source), a) # {}
        BY RoundWrites
  <2>2. PICK K : K \in Written(source, Len(source), StitchRound(source), a)
        BY <2>1
  <2>3. DOMAIN StitchRound(source) = 1 .. Len(StitchRound(source))
        BY StitchRoundType, LenProperties
  <2>4. PICK m \in 1 .. Len(StitchRound(source)) : c = StitchRound(source)[m]
        BY <2>3 DEF ToSet
  <2>5. K[m] \in 1 .. Len(source) /\ StitchRound(source)[m] = Joins(source, K[m])
        BY <2>2 DEF Written
  <2> QED
    BY <2>4, <2>5
<1>2. DOMAIN source = 1 .. Len(source) /\ Len(source) \in Nat
      BY LenProperties
<1> DEFINE j == Partner(source, i)
           p == source[i]
           q == source[j]
<1>3. j # 0
  <2>1. j = 0 => c = source[i]
        BY <1>1 DEF Joins
  <2>2. source[i].kind = "table" => source[i].origin = <<>>
        BY <1>2 DEF Stated
  <2> HIDE DEF j
  <2> QED
    BY <2>1, <2>2
<1>4. /\ j \in i + 1 .. Len(source) /\ p.kind = "table" /\ q.kind = "table" /\ Continues(p, q)
      BY <1>3, PartnerIs
<1>5. c = Stitch(p, q)
      BY <1>1, <1>3 DEF Joins
<1>6. i \in 1 .. Len(source) /\ j \in 1 .. Len(source)
      BY <1>2, <1>4
<1> HIDE DEF j
<1>7. /\ p \in Block /\ q \in Block
      /\ p.facts = [x \in DOMAIN p.rows |-> <<i, x>>]
      /\ q.facts = [x \in DOMAIN q.rows |-> <<j, x>>]
      BY <1>2, <1>4, <1>6, ElementOfSeq DEF Stated
<1>8. /\ p.page # 0 /\ q.page = p.page + 1 /\ q.page # 0
  <2>1. p.page \in Nat /\ p.page # 0 /\ q.page = p.page + 1
        BY <1>4, <1>7, BlockFields DEF Continues
  <2> QED
    BY <2>1
<1> HIDE DEF p, q
<1> DEFINE A == p.facts
           B == SubSeq(q.facts, IF p.head = q.head THEN 2 ELSE 1, Len(q.facts))
           L == Len(p.rows)
           o1 == [page |-> p.page, first |-> 1, last |-> L]
           o2 == [page |-> q.page, first |-> L + 1, last |-> Len(c.rows)]
<1>9. /\ b.facts = A \o B /\ b.origin = <<o1, o2>> /\ Len(c.rows) = Len(b.facts)
  <2>1. /\ c.facts = A \o B
        BY <1>4, <1>5, <1>7, StitchIs
  <2>2. c.origin = <<o1, o2>>
        BY <1>4, <1>5, <1>7, StitchIs
  <2>3. c \in Block /\ c.kind = "table"
        BY <1>4, <1>5, <1>7, StitchIs
  <2>4. Len(c.facts) = Len(c.rows)
        BY <2>3, TableFields
  <2> QED
    BY <2>1, <2>2, <2>4
<1>10. /\ A \in Seq(Fact) /\ Len(A) = L /\ L \in Nat /\ Len(q.facts) \in Nat
       /\ DOMAIN p.rows = 1 .. L /\ DOMAIN q.rows = 1 .. Len(q.facts)
       BY <1>4, <1>7, TableFields, LenProperties
<1>11. /\ B \in Seq(Fact)
       /\ \A x \in 1 .. Len(B) : \E z \in 1 .. Len(q.facts) : B[x] = q.facts[z]
  <2> HIDE DEF B
  <2>1. B = SubSeq(q.facts, IF p.head = q.head THEN 2 ELSE 1, Len(q.facts))
        BY DEF B
  <2>2. B \in Seq(Fact)
        BY <1>4, <1>7, <2>1, GivenRows
  <2>3. \A x \in 1 .. Len(B) : LET z == IF p.head = q.head THEN x + 1 ELSE x
                               IN z \in 1 .. Len(q.facts) /\ B[x] = q.facts[z]
        BY <1>4, <1>7, <2>1, GivenRows
  <2> QED
    BY <2>2, <2>3
<1> HIDE DEF A, B, L
<1>12. /\ Len(A \o B) = L + Len(B) /\ Len(B) \in Nat
       /\ \A x \in 1 .. L + Len(B) : (A \o B)[x] = IF x <= L THEN A[x] ELSE B[x - L]
  <2>1. Len(B) \in Nat
        BY <1>11, LenProperties
  <2>2. Len(A \o B) = Len(A) + Len(B)
        BY <1>10, <1>11, ConcatProperties
  <2>3. \A x \in 1 .. Len(A) + Len(B) : (A \o B)[x] = IF x <= Len(A) THEN A[x] ELSE B[x - Len(A)]
        BY <1>10, <1>11, ConcatProperties
  <2> QED
    BY <1>10, <2>1, <2>2, <2>3
<1> DEFINE n == Len(b.facts)
<1>13. n = L + Len(B) /\ n \in Nat /\ r \in 1 .. n /\ e \in r .. n
       BY <1>9, <1>10, <1>12
<1>14. \A x \in r .. e : source[b.facts[x][1]].page = IF x <= L THEN p.page ELSE q.page
  <2> TAKE x \in r .. e
  <2>1. x \in 1 .. L + Len(B)
        BY <1>10, <1>12, <1>13
  <2>2. b.facts[x] = IF x <= L THEN A[x] ELSE B[x - L]
        BY <1>9, <1>12, <2>1
  <2>3. CASE x <= L
    <3>1. x \in 1 .. L
          BY <1>10, <2>1, <2>3
    <3>2. A[x] = <<i, x>>
          BY <1>7, <1>10, <3>1 DEF A
    <3>3. b.facts[x][1] = i
          BY <2>2, <2>3, <3>2
    <3> QED
      BY <2>3, <3>3 DEF p
  <2>4. CASE ~(x <= L)
    <3>1. x - L \in 1 .. Len(B)
          BY <1>10, <1>12, <2>1, <2>4
    <3>2. PICK z \in 1 .. Len(q.facts) : B[x - L] = q.facts[z]
          BY <1>11, <3>1
    <3>3. q.facts[z] = <<j, z>>
          BY <1>7, <1>10, <3>2
    <3>4. b.facts[x][1] = j
          BY <2>2, <2>4, <3>2, <3>3
    <3> QED
      BY <2>4, <3>4 DEF q
  <2> QED
    BY <2>3, <2>4
<1> HIDE DEF n
<1>15. /\ (\E x \in r .. e : x <= L) <=> r <= L
       /\ (\E x \in r .. e : ~(x <= L)) <=> L + 1 <= e
  <2>1. r \in r .. e /\ e \in r .. e /\ r \in Nat /\ e \in Nat /\ L \in Nat
        BY <1>10, <1>13
  <2>2. \A x \in r .. e : (x <= L => r <= L) /\ (~(x <= L) => L + 1 <= e)
        BY <2>1
  <2>3. L + 1 <= e => ~(e <= L)
        BY <2>1
  <2> QED
    BY <2>1, <2>2, <2>3
<1>16. StoodOn(b, r, e) = (IF r <= L THEN {p.page} ELSE {}) \cup (IF L + 1 <= e THEN {q.page} ELSE {})
       BY <1>8, <1>14, <1>15 DEF StoodOn
<1>17. SourcePages(b, r, e)
         = (IF r <= L THEN {p.page} ELSE {}) \cup (IF L + 1 <= e THEN {q.page} ELSE {})
  <2>1. b.origin # <<>> /\ ToSet(b.origin) = {o1, o2}
        BY <1>9 DEF ToSet
  <2>2. SourcePages(b, r, e) = {o.page : o \in {x \in {o1, o2} : x.first <= e /\ x.last >= r}}
        BY <2>1 DEF SourcePages
  <2>3. 1 <= e /\ n >= r /\ (L >= r <=> r <= L)
        BY <1>10, <1>13
  <2>4. /\ o1.page = p.page /\ o1.first = 1 /\ o1.last = L
        /\ o2.page = q.page /\ o2.first = L + 1 /\ o2.last = n
        BY <1>9 DEF n
  <2> HIDE DEF o1, o2
  <2> QED
    BY <2>2, <2>3, <2>4
<1> QED
  BY <1>16, <1>17

(* A range of rows of a table that was stitched once or never names the      *)
(* pages that its rows stood on in the source.                               *)
THEOREM PagesAreNamed == Spec => []RangesNamePages
<1>1. IInv /\ Traced => RangesNamePages
  <2> SUFFICES ASSUME IInv, Traced, NEW k \in DOMAIN chunks, chunks[k].kind = "rows",
                      StitchedOnce(blocks[chunks[k].first])
               PROVE  chunks[k].sources
                        = {source[f[1]].page : f \in ToSet(Delivers(chunks[k]))} \ {0}
      BY DEF RangesNamePages
  <2> DEFINE c == chunks[k]
             b == blocks[c.first]
             r == c.rows[1]
             e == c.rows[2]
  <2>1. /\ source \in Sources /\ source \in Seq(Block) /\ Stated(source)
        /\ blocks \in Seq(Block) /\ chunks \in Seq(Chunk) /\ k \in 1 .. Len(chunks)
        BY SourcesAssumption, LenProperties DEF IInv, TypeOK
  <2>2. Placed(blocks, c) /\ Ranged(blocks, c)
        BY <2>1 DEF IInv, Good
  <2>3. /\ b.kind = "table" /\ r \in 1 .. Len(b.rows) /\ e \in r .. Len(b.rows)
        /\ c.sources = SourcePages(b, r, e) /\ c.first \in 1 .. Len(blocks)
        BY <2>2 DEF Ranged, Placed
  <2>4. /\ b \in Block /\ b.facts \in Seq(Fact) /\ Len(b.facts) = Len(b.rows)
        BY <2>1, <2>3, ElementOfSeq, TableFields
  <2>5. pc \in {"chunk", "done"}
    <3>1. chunks # <<>>
          BY <2>1
    <3> QED
      BY <3>1 DEF IInv, Early, TypeOK
  <2>6. PICK bs \in Extracted : Follow(bs)
        BY <2>5 DEF Traced
  <2>7. bs \in Seq(Block) /\ Cut(bs)
        BY <2>1, ExtractedAre
  <2>8. Delivers(c) = SubSeq(b.facts, r, e)
        BY DEF Delivers
  <2> HIDE DEF c, b, r, e
  <2>9. r \in 1 .. Len(b.facts) /\ e \in r .. Len(b.facts)
        BY <2>3, <2>4
  <2>10. {source[f[1]].page : f \in ToSet(Delivers(c))} \ {0} = StoodOn(b, r, e)
    <3>1. ToSet(Delivers(c)) = {b.facts[x] : x \in r .. e}
          BY <2>4, <2>8, <2>9, RangeFacts
    <3> QED
      BY <3>1 DEF StoodOn
  <2>11. StoodOn(b, r, e) = SourcePages(b, r, e)
    <3>1. CASE b.origin = <<>>
      <4>1. PICK i \in 1 .. Len(bs) : bs[i].kind = "table" /\ SameTable(b, bs[i])
            BY <2>3, <2>6 DEF Follow, TablesFrom, b
      <4>2. bs[i].origin = <<>>
            BY <3>1, <4>1 DEF SameTable
      <4> QED
        BY <2>1, <2>7, <2>9, <4>1, <4>2, UnstitchedPages
    <3>2. CASE b.origin # <<>>
      <4>1. StitchedOnce(b)
            BY DEF b, c
      <4>2. PICK d \in ToSet(StitchRound(source)) :
              d.kind = "table" /\ d.facts = b.facts /\ d.origin = b.origin
            BY <3>2, <4>1 DEF StitchedOnce
      <4> QED
        BY <2>1, <2>9, <3>2, <4>2, StitchedPages
    <3> QED
      BY <3>1, <3>2
  <2> QED
    BY <2>3, <2>10, <2>11 DEF c
<1> QED
  BY <1>1, Invariance, TracedHolds, PTL

-----------------------------------------------------------------------------
(* Every fact once *)

Begins(d, w) == Len(d) <= Len(w) /\ \A x \in 1 .. Len(d) : d[x] = w[x]

LEMMA BeginsConcat ==
  ASSUME NEW a \in Seq(Fact), NEW b \in Seq(Fact)
  PROVE  Begins(a, a \o b)
<1>1. /\ Len(a \o b) = Len(a) + Len(b) /\ Len(a) \in Nat /\ Len(b) \in Nat
      /\ \A i \in 1 .. Len(a) + Len(b) :
           (a \o b)[i] = IF i <= Len(a) THEN a[i] ELSE b[i - Len(a)]
      BY ConcatProperties, LenProperties
<1> DEFINE c == a \o b
<1> HIDE DEF c
<1>2. /\ Len(c) = Len(a) + Len(b)
      /\ \A i \in 1 .. Len(a) + Len(b) : c[i] = IF i <= Len(a) THEN a[i] ELSE b[i - Len(a)]
      BY <1>1 DEF c
<1>3. \A x \in 1 .. Len(a) : x \in 1 .. Len(a) + Len(b) /\ x <= Len(a)
      BY <1>1
<1>4. Len(a) <= Len(a) + Len(b)
      BY <1>1
<1>5. Begins(a, c)
      BY <1>2, <1>3, <1>4 DEF Begins
<1> QED
  BY <1>5 DEF c

LEMMA BeginsOn ==
  ASSUME NEW a \in Seq(Fact), NEW b \in Seq(Fact), NEW c \in Seq(Fact), Begins(a, b), Begins(b, c)
  PROVE  Begins(a, c)
<1>1. Len(a) \in Nat /\ Len(b) \in Nat /\ Len(c) \in Nat
      BY LenProperties
<1> QED
  BY <1>1 DEF Begins

\* What the chunks have delivered is the beginning of what the blocks say.
LEMMA DeliveredBegins ==
  ASSUME IInv, Progress, pc \in {"chunk", "done"}
  PROVE  /\ DeliveredIn(blocks, chunks) \in Seq(Fact)
         /\ Begins(DeliveredIn(blocks, chunks), AllFacts(blocks))
<1> DEFINE d == DeliveredIn(blocks, chunks)
           w == AllFacts(blocks)
           n == Len(blocks)
<1>1. /\ blocks \in Seq(Block) /\ n \in Nat /\ next \in 1 .. (n + 1) /\ fresh \in 1 .. (n + 1)
      /\ row \in Nat /\ 1 \in Nat \ {0}
      BY LenProperties DEF IInv, TypeOK
<1>2. w \in Seq(Fact) /\ w = FactsOf(blocks, 1, n)
      BY <1>1, AllFactsType DEF AllFacts
<1>3. ASSUME NEW m \in 0 .. n
      PROVE  FactsOf(blocks, 1, m) \in Seq(Fact) /\ Begins(FactsOf(blocks, 1, m), w)
  <2> DEFINE a == FactsOf(blocks, 1, m)
             b == FactsOf(blocks, m + 1, n)
  <2>1. a \in Seq(Fact)
        BY <1>1, FactsSteps
  <2>2. b \in Seq(Fact)
    <3>1. m + 1 \in Nat \ {0} /\ n \in 0 .. n
          BY <1>1
    <3> QED
      BY <1>1, <3>1, FactsSteps
  <2>3. w = a \o b
    <3>1. n \in m .. n
          BY <1>1
    <3> QED
      BY <1>1, <1>2, <3>1, FactsSplit
  <2> HIDE DEF a, b
  <2>4. Begins(a, a \o b)
        BY <2>1, <2>2, BeginsConcat
  <2> QED
    BY <2>1, <2>3, <2>4 DEF a
<1> HIDE DEF d, w
<1>4. CASE pc = "done"
  <2>1. d = FactsOf(blocks, 1, n) /\ n \in 0 .. n
        BY <1>1, <1>4 DEF Progress, d
  <2> QED
    BY <1>3, <2>1 DEF d, w
<1>5. CASE pc = "chunk" /\ row = 0
  <2>1. d = FactsOf(blocks, 1, fresh - 1) /\ fresh - 1 \in 0 .. n
        BY <1>1, <1>5 DEF Progress, d
  <2> QED
    BY <1>3, <2>1 DEF d, w
<1>6. CASE pc = "chunk" /\ row # 0
  <2> DEFINE f == blocks[next].facts
             g == FactsOf(blocks, 1, next - 1)
             a == g \o SubSeq(f, 1, row - 1)
             b == SubSeq(f, row, Len(f))
  <2>1. d = a
        BY <1>6 DEF Progress, d
  <2>2. /\ next \in 1 .. n /\ blocks[next].kind = "table" /\ row \in 1 .. Len(blocks[next].rows)
        BY <1>1, <1>6 DEF IInv, AtRow
  <2>3. f \in Seq(Fact) /\ Len(f) \in Nat /\ row \in 1 .. Len(f)
        BY <1>1, <2>2, ElementOfSeq, TableFields, LenProperties
  <2>4. g \in Seq(Fact)
    <3>1. next - 1 \in 0 .. n
          BY <2>2
    <3> QED
      BY <1>3, <3>1
  <2>5. FactsOf(blocks, 1, next) = g \o f
    <3>1. next \in 0 .. n /\ 1 <= next
          BY <2>2
    <3> QED
      BY <1>1, <3>1, FactsSteps
  <2> HIDE DEF f, g
  <2>6. a \o b = g \o f
    <3>1. Len(f) \in row .. Len(f)
          BY <2>3
    <3>2. (g \o SubSeq(f, 1, row - 1)) \o SubSeq(f, row, Len(f)) = g \o SubSeq(f, 1, Len(f))
          BY <2>3, <2>4, <3>1, RowsAdjacent
    <3>3. g \o SubSeq(f, 1, Len(f)) = g \o f
          BY <2>3, <2>4, <3>1, RowsAdjacent
    <3> QED
      BY <3>2, <3>3
  <2>7. SubSeq(f, 1, row - 1) \in Seq(Fact)
    <3>1. 1 \in Int /\ row - 1 \in Int /\ \A i \in 1 .. row - 1 : f[i] \in Fact
          BY <2>3, ElementOfSeq
    <3> QED
      BY <3>1, SubSeqProperties
  <2>8. b \in Seq(Fact)
    <3>1. row \in Int /\ Len(f) \in Int /\ \A i \in row .. Len(f) : f[i] \in Fact
          BY <2>3, ElementOfSeq
    <3> QED
      BY <3>1, SubSeqProperties
  <2>9. a \in Seq(Fact)
        BY <2>4, <2>7, ConcatProperties
  <2> HIDE DEF a, b
  <2>10. Begins(a, FactsOf(blocks, 1, next))
    <3>1. Begins(a, a \o b)
          BY <2>8, <2>9, BeginsConcat
    <3> QED
      BY <2>5, <2>6, <3>1
  <2>11. FactsOf(blocks, 1, next) \in Seq(Fact) /\ Begins(FactsOf(blocks, 1, next), w)
    <3>1. next \in 0 .. n
          BY <2>2
    <3> QED
      BY <1>3, <3>1
  <2>12. Begins(a, w)
        BY <1>2, <2>9, <2>10, <2>11, BeginsOn
  <2> QED
    BY <2>1, <2>9, <2>12 DEF d, w
<1> QED
  BY <1>4, <1>5, <1>6

\* The order that the property allows.
InOrder ==
  {x \in Fact \X Fact : x[1] # x[2] /\ (Precedes(x[1], x[2]) \/ Moved(x[1], x[2]))}

LEMMA InOrderIs ==
  ASSUME NEW f \in Fact, NEW g \in Fact, f # g, Precedes(f, g) \/ Moved(f, g)
  PROVE  <<f, g>> \in InOrder
BY DEF InOrder

LEMMA PrecedesDiffer ==
  ASSUME NEW f \in Fact, NEW g \in Fact, Precedes(f, g)
  PROVE  f # g
BY DEF Precedes, Fact

\* What a block says is of the positions it is made of.
LEMMA FactsAt ==
  ASSUME source \in Seq(Block), Stated(source), NEW bs \in Seq(Block), NEW H, NEW G,
         Frame(bs, H, G), Content(bs, H, G), NEW i \in 1 .. Len(bs), NEW v,
         In(bs[i].facts, v)
  PROVE  v \in Fact /\ v[1] \in G[i]
<1>1. Stands(bs[i], H[i], G[i]) /\ Says(bs[i], H[i], G[i])
      BY DEF Frame, Content
<1>2. bs[i] \in Block /\ bs[i].facts \in Seq(Fact)
      BY ElementOfSeq, BlockFields
<1>3. PICK x \in 1 .. Len(bs[i].facts) : bs[i].facts[x] = v
      BY DEF In
<1>4. v \in Fact
      BY <1>2, <1>3, ElementOfSeq
<1>5. CASE bs[i].kind = "table"
  <2>1. PICK t \in G[i] : \E r \in 1 .. Len(source[t].facts) : bs[i].facts[x] = <<t, r>>
        BY <1>1, <1>5 DEF Says
  <2>2. PICK r : v = <<t, r>>
        BY <1>3, <2>1
  <2>3. v[1] = t
        BY <2>2
  <2> QED
    BY <1>4, <2>3
<1>6. CASE bs[i].kind # "table"
  <2>1. bs[i] = source[H[i]] /\ H[i] \in G[i] /\ H[i] \in DOMAIN source
        BY <1>1, <1>6, LenProperties DEF Stands
  <2>2. bs[i].facts = <<<<H[i], 0>>>>
        BY <1>6, <2>1 DEF Stated
  <2>3. v = <<H[i], 0>>
        BY <1>3, <2>2
  <2>4. v[1] = H[i]
        BY <2>3
  <2> QED
    BY <1>4, <2>1, <2>4
<1> QED
  BY <1>5, <1>6

LEMMA CutRelated ==
  ASSUME source \in Seq(Block), Stated(source), NEW bs \in Seq(Block), Cut(bs)
  PROVE  Related(InOrder, Concat(KeptFacts(bs), 1, Len(bs)))
<1>1. PICK H, G : Frame(bs, H, G) /\ Content(bs, H, G)
      BY DEF Cut
<1> DEFINE n == Len(bs)
           s == KeptFacts(bs)
<1>2. /\ s \in ManySeqs(Fact, n) /\ n \in Nat
      /\ \A i \in 1 .. n : s[i] = IF Kept(bs[i]) THEN bs[i].facts ELSE <<>>
      BY KeptFactsType
<1> HIDE DEF s
<1>3. \A v : ~In(<<>>, v)
  <2>1. Len(<<>>) = 0
        OBVIOUS
  <2> QED
    BY <2>1 DEF In
<1>4. ASSUME NEW i \in 1 .. n PROVE Related(InOrder, s[i])
  <2> DEFINE f == bs[i].facts
  <2>1. bs[i] \in Block /\ f \in Seq(Fact) /\ Len(f) \in Nat
        BY ElementOfSeq, BlockFields, LenProperties
  <2>2. CASE ~Kept(bs[i])
    <3>1. s[i] = <<>> /\ Len(<<>>) = 0
          BY <1>2, <2>2
    <3> QED
      BY <3>1 DEF Related
  <2>3. CASE Kept(bs[i]) /\ bs[i].kind # "table"
    <3>1. Stands(bs[i], H[i], G[i])
          BY <1>1 DEF Frame
    <3>2. bs[i] = source[H[i]] /\ H[i] \in DOMAIN source
          BY <2>3, <3>1, LenProperties DEF Stands
    <3>3. f = <<<<H[i], 0>>>>
          BY <2>3, <3>2 DEF Stated
    <3>4. s[i] = <<<<H[i], 0>>>>
          BY <1>2, <2>3, <3>3
    <3>5. \A x, y \in 1 .. 1 : ~(x < y)
          OBVIOUS
    <3>6. Len(s[i]) = 1
          BY <3>4
    <3> QED
      BY <3>5, <3>6 DEF Related
  <2>4. CASE Kept(bs[i]) /\ bs[i].kind = "table"
    <3>1. Says(bs[i], H[i], G[i])
          BY <1>1 DEF Content
    <3>2. \A x, y \in 1 .. Len(f) : x < y => Precedes(f[x], f[y])
          BY <2>4, <3>1 DEF Says
    <3> HIDE DEF f
    <3>3. \A x \in 1 .. Len(f) : f[x] \in Fact
          BY <2>1, ElementOfSeq
    <3>4. ASSUME NEW x \in 1 .. Len(f), NEW y \in 1 .. Len(f), x < y
          PROVE  <<f[x], f[y]>> \in InOrder
          BY <3>2, <3>3, <3>4, PrecedesDiffer, InOrderIs
    <3>5. s[i] = f
          BY <1>2, <2>4 DEF f
    <3> QED
      BY <3>4, <3>5 DEF Related
  <2> QED
    BY <2>2, <2>3, <2>4
<1>5. ASSUME NEW i \in 1 .. n, NEW j \in 1 .. n, i < j, NEW f, NEW g, In(s[i], f), In(s[j], g)
      PROVE  <<f, g>> \in InOrder
  <2>1. In(bs[i].facts, f) /\ In(bs[j].facts, g)
        BY <1>2, <1>3, <1>5
  <2>2. f \in Fact /\ f[1] \in G[i] /\ g \in Fact /\ g[1] \in G[j]
        BY <1>1, <2>1, FactsAt
  <2>3. /\ Stands(bs[i], H[i], G[i]) /\ Stands(bs[j], H[j], G[j]) /\ H[i] < H[j]
        BY <1>1, <1>5 DEF Frame
  <2>4. /\ H[i] \in 1 .. Len(source) /\ H[j] \in 1 .. Len(source)
        /\ f[1] \in 1 .. Len(source) /\ g[1] \in 1 .. Len(source)
        BY <2>2, <2>3 DEF Stands
  <2>5. H[i] <= f[1] /\ H[j] <= g[1]
    <3>1. \A b, h, t : h \in Nat /\ Stands(b, h, t) => \A x \in t : h <= x
          BY DEF Stands
    <3> QED
      BY <2>2, <2>3, <2>4, <3>1
  <2>6. CASE f[1] < g[1]
    <3>1. Precedes(f, g) /\ f # g
          BY <2>4, <2>6 DEF Precedes
    <3> QED
      BY <2>2, <3>1, InOrderIs
  <2>7. CASE bs[i].kind # "table"
    <3>1. f[1] = H[i]
          BY <2>2, <2>3, <2>7 DEF Stands
    <3>2. f[1] < g[1]
          BY <2>3, <2>4, <2>5, <3>1
    <3> QED
      BY <2>6, <3>2
  <2>8. CASE bs[i].kind = "table" /\ bs[j].kind = "table"
    <3>1. f[1] < g[1]
          BY <1>1, <1>5, <2>2, <2>8 DEF Frame
    <3> QED
      BY <2>6, <3>1
  <2>9. CASE bs[i].kind = "table" /\ bs[j].kind # "table" /\ ~(f[1] < g[1])
    <3>1. g[1] = H[j] /\ source[H[j]].kind # "table" /\ source[f[1]].kind = "table"
          BY <2>2, <2>3, <2>9 DEF Stands
    <3>2. f[1] # g[1] /\ H[i] < g[1] /\ f[1] # H[i]
          BY <2>3, <2>4, <2>9, <3>1
    <3>3. LeadsUpTo(H[i], f[1])
          BY <1>1, <2>2, <2>9, <3>2, FrameLeads
    <3>4. H[i] \in 1 .. (g[1] - 1)
          BY <2>4, <3>2
    <3>5. Moved(f, g) /\ f # g
          BY <3>2, <3>3, <3>4 DEF Moved
    <3> QED
      BY <2>2, <3>5, InOrderIs
  <2> QED
    BY <2>6, <2>7, <2>8, <2>9
<1>6. n \in 0 .. n
      BY <1>2
<1>7. \A j \in 0 .. n : Related(InOrder, Concat(s, 1, j))
  <2>1. s \in ManySeqs(Fact, n) /\ n \in Nat
        BY <1>2
  <2> HIDE DEF n
  <2> QED
    BY <1>4, <1>5, <2>1, ConcatRelated
<1> QED
  BY <1>6, <1>7 DEF s

\* Tables have a text, so that the cleaner keeps them.
LEMMA TablesKept ==
  ASSUME NEW b \in Block, b.kind = "table"
  PROVE  Kept(b)
<1>1. b.size > 0 /\ Normalised(b).size = b.size
      BY TableFields, NormalisedIs
<1> QED
  BY <1>1 DEF Kept, HasText

\* What is kept of the extracted blocks is kept of the source.
LEMMA NothingNew ==
  ASSUME source \in Seq(Block), Stated(source), NEW bs \in Seq(Block), Cut(bs), NEW v,
         InSome(KeptFacts(bs), Len(bs), v)
  PROVE  InSome(KeptFacts(source), Len(source), v)
<1>1. PICK H, G : Frame(bs, H, G) /\ Content(bs, H, G)
      BY DEF Cut
<1>2. PICK i \in 1 .. Len(bs) : In(KeptFacts(bs)[i], v)
      BY DEF InSome
<1>3. Kept(bs[i]) /\ In(bs[i].facts, v)
  <2>1. KeptFacts(bs)[i] = IF Kept(bs[i]) THEN bs[i].facts ELSE <<>>
        BY KeptFactsType
  <2>2. ~In(<<>>, v)
    <3>1. Len(<<>>) = 0
          OBVIOUS
    <3> QED
      BY <3>1 DEF In
  <2> QED
    BY <1>2, <2>1, <2>2
<1>4. Stands(bs[i], H[i], G[i]) /\ Says(bs[i], H[i], G[i])
      BY <1>1 DEF Frame, Content
<1>5. PICK p \in 1 .. Len(source) : Kept(source[p]) /\ In(source[p].facts, v)
  <2>1. CASE bs[i].kind # "table"
    <3>1. H[i] \in 1 .. Len(source) /\ bs[i] = source[H[i]]
          BY <1>4, <2>1 DEF Stands
    <3> QED
      BY <1>3, <3>1
  <2>2. CASE bs[i].kind = "table"
    <3>1. PICK x \in 1 .. Len(bs[i].facts) : bs[i].facts[x] = v
          BY <1>3 DEF In
    <3>2. PICK t \in G[i] : \E r \in 1 .. Len(source[t].facts) : bs[i].facts[x] = <<t, r>>
          BY <1>4, <2>2, <3>1 DEF Says
    <3>3. PICK r \in 1 .. Len(source[t].facts) : v = <<t, r>>
          BY <3>1, <3>2
    <3>4. t \in 1 .. Len(source) /\ source[t].kind = "table"
          BY <1>4, <2>2 DEF Stands
    <3>5. source[t] \in Block
          BY <3>4, ElementOfSeq
    <3>6. Kept(source[t])
          BY <3>4, <3>5, TablesKept
    <3>7. source[t].facts[r] = v
      <4>1. source[t].facts = [z \in DOMAIN source[t].rows |-> <<t, z>>]
        <5>1. t \in DOMAIN source
              BY <3>4, LenProperties
        <5> QED
          BY <3>4, <5>1 DEF Stated
      <4>2. r \in DOMAIN source[t].rows
        <5>1. Len(source[t].facts) = Len(source[t].rows)
              BY <3>4, <3>5, TableFields
        <5>2. DOMAIN source[t].rows = 1 .. Len(source[t].rows)
              BY <3>4, <3>5, TableFields, LenProperties
        <5> QED
          BY <5>1, <5>2
      <4> QED
        BY <3>3, <4>1, <4>2
    <3>8. In(source[t].facts, v)
          BY <3>7 DEF In
    <3> QED
      BY <3>4, <3>6, <3>8
  <2> QED
    BY <2>1, <2>2
<1>6. KeptFacts(source)[p] = source[p].facts
      BY <1>5, KeptFactsType
<1> QED
  BY <1>5, <1>6 DEF InSome

\* And what is kept of the source is kept of the extracted blocks, headers apart that repeat.
LEMMA NothingLost ==
  ASSUME source \in Seq(Block), Stated(source), NEW bs \in Seq(Block), Cut(bs), NEW v,
         InSome(KeptFacts(source), Len(source), v), ~InSome(KeptFacts(bs), Len(bs), v)
  PROVE  RepeatedHeader(v)
<1>1. PICK H, G : Frame(bs, H, G) /\ Content(bs, H, G)
      BY DEF Cut
<1>2. PICK p \in 1 .. Len(source) : In(KeptFacts(source)[p], v)
      BY DEF InSome
<1>3. Kept(source[p]) /\ In(source[p].facts, v)
  <2>1. KeptFacts(source)[p] = IF Kept(source[p]) THEN source[p].facts ELSE <<>>
        BY KeptFactsType
  <2>2. ~In(<<>>, v)
    <3>1. Len(<<>>) = 0
          OBVIOUS
    <3> QED
      BY <3>1 DEF In
  <2> QED
    BY <1>2, <2>1, <2>2
<1>4. PICK i \in 1 .. Len(bs) : p \in G[i]
      BY <1>1 DEF Frame
<1>5. Stands(bs[i], H[i], G[i]) /\ Says(bs[i], H[i], G[i])
      BY <1>1 DEF Frame, Content
<1>6. ASSUME Kept(bs[i]), In(bs[i].facts, v) PROVE FALSE
  <2>1. KeptFacts(bs)[i] = bs[i].facts
        BY <1>6, KeptFactsType
  <2>2. InSome(KeptFacts(bs), Len(bs), v)
        BY <1>6, <2>1 DEF InSome
  <2> QED
    BY <2>2
<1>7. CASE bs[i].kind # "table"
  <2>1. bs[i] = source[p]
        BY <1>4, <1>5, <1>7 DEF Stands
  <2> QED
    BY <1>3, <1>6, <2>1
<1>8. CASE bs[i].kind = "table"
  <2>1. bs[i] \in Block /\ Kept(bs[i])
        BY <1>8, ElementOfSeq, TablesKept
  <2>2. source[p].kind = "table" /\ source[p] \in Block /\ p \in DOMAIN source
        BY <1>4, <1>5, <1>8, ElementOfSeq, LenProperties DEF Stands
  <2>3. PICK r \in 1 .. Len(source[p].facts) : source[p].facts[r] = v
        BY <1>3 DEF In
  <2>4. v = <<p, r>>
    <3>1. source[p].facts = [z \in DOMAIN source[p].rows |-> <<p, z>>]
          BY <2>2 DEF Stated
    <3>2. r \in DOMAIN source[p].rows
      <4>1. Len(source[p].facts) = Len(source[p].rows)
            BY <2>2, TableFields
      <4>2. DOMAIN source[p].rows = 1 .. Len(source[p].rows)
            BY <2>2, TableFields, LenProperties
      <4> QED
        BY <4>1, <4>2
    <3> QED
      BY <2>3, <3>1, <3>2
  <2>5. In(bs[i].facts, <<p, r>>) \/ RepeatedHeader(<<p, r>>)
        BY <1>4, <1>5, <1>8 DEF Says
  <2> QED
    BY <1>6, <2>1, <2>4, <2>5
<1> QED
  BY <1>7, <1>8

(* Every fact of the source that the cleaner keeps is in the chunks exactly  *)
(* once and in the order of the source, but for the headers that continued   *)
(* tables repeat and for the rows that stitching moves forward.              *)
THEOREM FactsOnce == Spec => []EveryFactOnce
<1>1. IInv /\ Progress /\ Traced => EveryFactOnce
  <2> SUFFICES ASSUME IInv, Progress, Traced PROVE EveryFactOnce
      OBVIOUS
  <2> DEFINE d == DeliveredIn(blocks, chunks)
             w == AllFacts(blocks)
             c == AllFacts(Cleaned(source))
             kept == ToSet(c)
  <2>1. source \in Sources /\ source \in Seq(Block) /\ Stated(source) /\ blocks \in Seq(Block)
        BY SourcesAssumption DEF IInv, TypeOK
  <2>2. Delivered = d
    <3>1. [k \in DOMAIN chunks |-> Delivers(chunks[k])] = DeliveriesIn(blocks, chunks)
          BY DEF DeliveriesIn, Delivers, DeliversIn
    <3> QED
      BY <3>1 DEF Delivered, DeliveredIn
  <2>3. kept = ToSet(FactsOf(Cleaned(source), 1, Len(Cleaned(source))))
        BY DEF AllFacts
  <2>4. \A v : v \in kept <=> InSome(KeptFacts(source), Len(source), v)
    <3>1. c = Concat(KeptFacts(source), 1, Len(source)) /\ c \in Seq(Fact)
          BY <2>1, CleanedFacts, CleanedType, AllFactsType
    <3>2. KeptFacts(source) \in ManySeqs(Fact, Len(source)) /\ Len(source) \in Nat
          /\ Len(source) \in 0 .. Len(source)
          BY <2>1, KeptFactsType
    <3> TAKE v
    <3>3. In(Concat(KeptFacts(source), 1, Len(source)), v)
            <=> InSome(KeptFacts(source), Len(source), v)
          BY <3>2, ConcatMembers
    <3>4. v \in kept <=> In(c, v)
          BY <3>1, InToSet
    <3> QED
      BY <3>1, <3>3, <3>4
  <2> HIDE DEF d, w, kept
  <2>5. CASE pc \in {"stitch", "clean", "optimize"}
    <3>1. d = <<>> /\ pc # "done"
          BY <2>5 DEF Progress, d
    <3>2. \A m, n \in DOMAIN d : m < n =>
            d[m] # d[n] /\ (Precedes(d[m], d[n]) \/ Moved(d[m], d[n]))
          BY <3>1
    <3> QED
      BY <2>2, <2>3, <3>1, <3>2 DEF EveryFactOnce
  <2>6. CASE pc \in {"chunk", "done"}
    <3>1. PICK bs \in Extracted : Follow(bs)
          BY <2>6 DEF Traced
    <3>2. bs \in Seq(Block) /\ Cut(bs)
          BY <2>1, ExtractedAre
    <3>3. w = Concat(KeptFacts(bs), 1, Len(bs))
          BY <3>1 DEF Follow, w
    <3>4. Related(InOrder, w)
          BY <2>1, <3>2, <3>3, CutRelated
    <3>5. d \in Seq(Fact) /\ Begins(d, w) /\ DOMAIN d = 1 .. Len(d) /\ Len(d) \in Nat
          BY <2>6, DeliveredBegins, LenProperties DEF d, w
    <3>6. w \in Seq(Fact) /\ Len(w) \in Nat
          BY <2>1, AllFactsType, LenProperties DEF w
    <3>7. ASSUME NEW m \in DOMAIN d, NEW n \in DOMAIN d, m < n
          PROVE  d[m] # d[n] /\ (Precedes(d[m], d[n]) \/ Moved(d[m], d[n]))
      <4>1. /\ m \in 1 .. Len(w) /\ n \in 1 .. Len(w) /\ d[m] = w[m] /\ d[n] = w[n]
            BY <3>5, <3>6 DEF Begins
      <4>2. <<w[m], w[n]>> \in InOrder
            BY <3>4, <3>7, <4>1 DEF Related
      <4> QED
        BY <4>1, <4>2 DEF InOrder
    <3>8. ASSUME pc = "done"
          PROVE  ToSet(d) \subseteq kept /\ \A f \in kept \ ToSet(d) : RepeatedHeader(f)
      <4>1. d = w
            BY <3>8 DEF Progress, d, w, AllFacts
      <4>2. \A v : v \in ToSet(d) <=> InSome(KeptFacts(bs), Len(bs), v)
        <5>1. KeptFacts(bs) \in ManySeqs(Fact, Len(bs)) /\ Len(bs) \in Nat
              /\ Len(bs) \in 0 .. Len(bs)
              BY <3>2, KeptFactsType
        <5> TAKE v
        <5>2. In(Concat(KeptFacts(bs), 1, Len(bs)), v) <=> InSome(KeptFacts(bs), Len(bs), v)
              BY <5>1, ConcatMembers
        <5>3. v \in ToSet(d) <=> In(d, v)
              BY <3>5, InToSet
        <5> QED
          BY <3>3, <4>1, <5>2, <5>3
      <4>3. \A v : InSome(KeptFacts(bs), Len(bs), v) => InSome(KeptFacts(source), Len(source), v)
            BY <2>1, <3>2, NothingNew
      <4>4. \A v : InSome(KeptFacts(source), Len(source), v) /\ ~InSome(KeptFacts(bs), Len(bs), v)
                     => RepeatedHeader(v)
            BY <2>1, <3>2, NothingLost
      <4> QED
        BY <2>4, <4>2, <4>3, <4>4
    <3> QED
      BY <2>2, <2>3, <3>7, <3>8 DEF EveryFactOnce
  <2> QED
    BY <2>5, <2>6 DEF IInv, TypeOK
<1> QED
  BY <1>1, Invariance, ProgressHolds, TracedHolds, PTL

=============================================================================
