-------------------------- MODULE SharedFiles_proofs --------------------------
(***************************************************************************)
(* Proofs about the two files that processes rewrite without a lock: the      *)
(* safe-size cache (SafeSizeCache), for every mixture of fingerprints and any  *)
(* number of runs, and the savings ledger (SavingsLedger), for every length    *)
(* of the ledger and any number of appends and resets; both for every number  *)
(* of processes, kills and failing writes.                                   *)
(***************************************************************************)
EXTENDS SafeSizeCache, SavingsLedger, FiniteSetTheorems, SequenceTheorems, TLAPS

(***************************************************************************)
(* The safe-size cache                                                       *)
(***************************************************************************)

-----------------------------------------------------------------------------
(* Types *)

Labels == {"idle", "run", "record", "save"}

Records == [Keys -> Record]

TypeOK ==
  /\ file \in Records
  /\ loaded \in [Procs -> Records]
  /\ pc \in [Procs -> Labels]
  /\ size \in [Procs -> Sizes]
  /\ left \in [Procs -> Nat]
  /\ passed \in [Procs -> BOOLEAN]
  /\ succeeded \subseteq Keys \X Sizes
  /\ failed \subseteq Keys \X Sizes
  /\ lost \in BOOLEAN

\* The two extrema the module uses are those of two numbers.
LEMMA MinOfTwo ==
  ASSUME NEW a \in Int, NEW b \in Int
  PROVE  Min({a, b}) = IF a <= b THEN a ELSE b
<1> DEFINE m == IF a <= b THEN a ELSE b
<1>1. m \in {a, b} /\ \A y \in {a, b} : m <= y
      OBVIOUS
<1>2. \A x \in {a, b} : (\A y \in {a, b} : x <= y) => x = m
      OBVIOUS
<1> QED
  BY <1>1, <1>2 DEF Min

LEMMA MaxOfTwo ==
  ASSUME NEW a \in Int, NEW b \in Int
  PROVE  Max({a, b}) = IF a >= b THEN a ELSE b
<1> DEFINE m == IF a >= b THEN a ELSE b
<1>1. m \in {a, b} /\ \A y \in {a, b} : m >= y
      OBVIOUS
<1>2. \A x \in {a, b} : (\A y \in {a, b} : x >= y) => x = m
      OBVIOUS
<1> QED
  BY <1>1, <1>2 DEF Max

LEMMA KeyType == \A p \in Procs : KeyOf[p] \in Keys
BY DEF Keys

LEMMA SizesAre == Sizes = 1 .. MaxSize /\ 1 \in Sizes /\ MaxSize \in Nat \ {0}
BY CacheAssumption DEF CacheAssumption, Sizes

LEMMA ClampType ==
  ASSUME NEW n \in Int
  PROVE  Clamp(n) \in Sizes
<1>1. Min({MaxSize, n}) \in Int /\ Min({MaxSize, n}) <= MaxSize
      BY SizesAre, MinOfTwo
<1>2. Clamp(n) = IF 1 >= Min({MaxSize, n}) THEN 1 ELSE Min({MaxSize, n})
      BY <1>1, MaxOfTwo DEF Clamp
<1> QED
  BY <1>1, <1>2, SizesAre

\* Whatever the record and the reading of the memory are, a run starts with a size
\* between the least and the largest.
LEMMA ChooseType ==
  ASSUME NEW rec \in Record, NEW free \in Free
  PROVE  Choose(rec, free) \in Sizes
<1>1. free \in Nat /\ Footprint \in Nat
      BY CacheAssumption DEF CacheAssumption
<1>2. rec.ok \in 0 .. MaxSize /\ rec.bad \in 0 .. MaxSize
      BY DEF Record
<1>3. Formula(free) \in Sizes
      BY <1>1, ClampType, SizesAre DEF Formula
<1>4. LiveGuard(free) \in Sizes
      BY <1>1, ClampType, SizesAre DEF LiveGuard
<1>5. rec.bad > 0 => Max({1, rec.bad \div 2}) \in Sizes
  <2> SUFFICES ASSUME rec.bad > 0 PROVE Max({1, rec.bad \div 2}) \in Sizes
      OBVIOUS
  <2>1. rec.bad \div 2 \in Int /\ rec.bad \div 2 <= MaxSize
        BY <1>2, SizesAre
  <2>2. Max({1, rec.bad \div 2}) = IF 1 >= rec.bad \div 2 THEN 1 ELSE rec.bad \div 2
        BY <2>1, MaxOfTwo
  <2> QED
    BY <2>1, <2>2, SizesAre
<1>6. Trusted(rec) \in Sizes
  <2>1. rec.ok \in Int
        BY <1>2, SizesAre
  <2>2. Clamp(rec.ok) \in Sizes
        BY <2>1, ClampType
  <2> QED
    BY <1>2, <1>5, <2>2 DEF Trusted
<1>7. \A m, n \in Sizes : Min({m, n}) \in Sizes
      BY MinOfTwo, SizesAre
<1>8. CASE rec.ok > 0
      BY <1>4, <1>6, <1>7, <1>8 DEF Choose
<1>9. CASE ~(rec.ok > 0) /\ rec.bad > 0
  <2>1. Min({Formula(free), Max({1, rec.bad \div 2})}) \in Int
    <3>1. Min({Formula(free), Max({1, rec.bad \div 2})}) \in Sizes
          BY <1>3, <1>5, <1>7, <1>9
    <3> QED
      BY <3>1, SizesAre
  <2> QED
    BY <1>9, <2>1, ClampType DEF Choose
<1> QED
  BY <1>2, <1>3, <1>8, <1>9 DEF Choose

LEMMA EmptyType == Empty \in Records
BY SizesAre DEF Empty, Records, Record, NoRecord

\* A record keeps its type with a success or a failure of a size.
LEMMA RecordType ==
  ASSUME NEW rec \in Record, NEW n \in Sizes
  PROVE  /\ WithSuccess(rec, n) \in Record
         /\ WithFailure(rec, n) \in Record
<1>1. rec.high \in 0 .. MaxSize /\ rec.bad \in 0 .. MaxSize
      BY DEF Record
<1>2. Max({rec.high, n}) \in 0 .. MaxSize /\ n \in 0 .. MaxSize
      BY <1>1, MaxOfTwo, SizesAre
<1>3. (IF rec.bad = 0 THEN n ELSE Min({rec.bad, n})) \in 0 .. MaxSize
      BY <1>1, MinOfTwo, SizesAre
<1>4. WithSuccess(rec, n) \in Record
  <2> DEFINE high == Max({rec.high, n})
  <2>1. WithSuccess(rec, n) = [rec EXCEPT !.ok = n, !.high = high]
        BY DEF WithSuccess
  <2> HIDE DEF high
  <2> QED
    BY <1>2, <2>1 DEF Record, high
<1>5. WithFailure(rec, n) \in Record
  <2> DEFINE bad == IF rec.bad = 0 THEN n ELSE Min({rec.bad, n})
  <2>1. WithFailure(rec, n) = [rec EXCEPT !.bad = bad]
        BY DEF WithFailure
  <2>2. bad \in 0 .. MaxSize
        BY <1>3
  <2> HIDE DEF bad
  <2> QED
    BY <2>1, <2>2 DEF Record
<1> QED
  BY <1>4, <1>5

LEMMA UpdatedType ==
  ASSUME TypeOK, NEW p \in Procs
  PROVE  Updated(p) \in Records
<1> DEFINE rec == loaded[p][KeyOf[p]]
           new == IF passed[p] THEN WithSuccess(rec, size[p]) ELSE WithFailure(rec, size[p])
<1>1. loaded[p] \in Records /\ size[p] \in Sizes
      BY DEF TypeOK
<1>2. rec \in Record
      BY <1>1, KeyType DEF Records
<1>3. new \in Record
      BY <1>1, <1>2, RecordType
<1>4. Updated(p) = [loaded[p] EXCEPT ![KeyOf[p]] = new]
      BY DEF Updated
<1> HIDE DEF new
<1> QED
  BY <1>1, <1>3, <1>4 DEF Records

LEMMA IdleType ==
  ASSUME TypeOK, NEW p \in Procs, Idle(p), file' \in Records, lost' \in BOOLEAN
  PROVE  TypeOK'
BY EmptyType, SizesAre DEF TypeOK, Idle, Labels

LEMMA BeginType ==
  ASSUME TypeOK, NEW p \in Procs, NEW first \in Sizes, Begin(p, first)
  PROVE  TypeOK'
BY CacheAssumption DEF CacheAssumption, TypeOK, Begin, Labels

LEMMA EndsType ==
  ASSUME TypeOK, NEW p \in Procs, NEW ok \in BOOLEAN, Ends(p, ok)
  PROVE  TypeOK'
<1>1. <<KeyOf[p], size[p]>> \in Keys \X Sizes
      BY KeyType DEF TypeOK
<1>2. succeeded' \subseteq Keys \X Sizes /\ failed' \subseteq Keys \X Sizes
      BY <1>1 DEF TypeOK, Ends
<1> QED
  BY <1>2 DEF TypeOK, Ends, Labels

LEMMA StepType ==
  ASSUME TypeOK, NEW p \in Procs, Step(p)
  PROVE  TypeOK'
<1>1. CASE Start(p)
  <2>1. file[KeyOf[p]] \in Record
        BY KeyType DEF TypeOK, Records
  <2> QED
    BY <1>1, <2>1, ChooseType, BeginType DEF Start
<1>2. CASE StartOverridden(p)
      BY <1>2, BeginType DEF StartOverridden
<1>3. CASE Completes(p) \/ RunsOut(p) \/ Breaks(p)
      BY <1>3, EndsType DEF Completes, RunsOut, Breaks
<1>4. CASE Restarts(p)
  <2>1. size[p] \div 2 \in Sizes /\ left[p] - 1 \in Nat
        BY <1>4, SizesAre DEF Restarts, TypeOK
  <2> QED
    BY <1>4, <2>1 DEF Restarts, TypeOK
<1>5. CASE LoadRecords(p)
      BY <1>5 DEF LoadRecords, TypeOK, Labels
<1>6. CASE Save(p)
      BY <1>6, UpdatedType, IdleType DEF Save, TypeOK
<1>7. CASE Dies(p)
      BY <1>7, IdleType DEF Dies, TypeOK
<1> QED
  BY <1>1, <1>2, <1>3, <1>4, <1>5, <1>6, <1>7 DEF Step

LEMMA DamageType == TypeOK /\ Damage => TypeOK'
BY EmptyType DEF TypeOK, Damage

-----------------------------------------------------------------------------
(* The inductive invariant *)

\* What a record claims has happened, for its own fingerprint.
Earned(k, rec) ==
  /\ rec.ok # 0 => <<k, rec.ok>> \in succeeded
  /\ rec.high # 0 => <<k, rec.high>> \in succeeded
  /\ rec.bad # 0 => <<k, rec.bad>> \in failed
  /\ rec.ok <= rec.high

\* So do the records a process has loaded, and the size it is about to record.
AllEarned ==
  /\ \A k \in Keys : Earned(k, file[k])
  /\ \A p \in Procs, k \in Keys : Earned(k, loaded[p][k])
  /\ \A p \in Procs :
       pc[p] \in {"record", "save"} =>
         <<KeyOf[p], size[p]>> \in IF passed[p] THEN succeeded ELSE failed

\* A failure that is not in the file is on its way there, unless records were lost.
OnItsWay(k, n) ==
  \E q \in Procs : /\ KeyOf[q] = k /\ pc[q] \in {"record", "save"}
                   /\ ~passed[q] /\ size[q] = n

FailuresKept ==
  ~lost => \A k \in Keys, n \in Sizes :
             <<k, n>> \in failed => file[k].bad \in 1 .. n \/ OnItsWay(k, n)

IInv == TypeOK /\ AllEarned /\ FailuresKept

\* What was earned stays earned when the histories grow.
LEMMA EarnedStays ==
  ASSUME NEW k, NEW rec, Earned(k, rec),
         succeeded \subseteq succeeded', failed \subseteq failed'
  PROVE  /\ rec.ok # 0 => <<k, rec.ok>> \in succeeded'
         /\ rec.high # 0 => <<k, rec.high>> \in succeeded'
         /\ rec.bad # 0 => <<k, rec.bad>> \in failed'
         /\ rec.ok <= rec.high
BY DEF Earned

LEMMA EmptyEarned == \A k \in Keys : Earned(k, Empty[k])
BY DEF Empty, NoRecord, Earned

\* A record with the size that was just earned claims nothing else.
LEMMA UpdateEarned ==
  ASSUME NEW k, NEW rec \in Record, NEW n \in Sizes, Earned(k, rec)
  PROVE  /\ <<k, n>> \in succeeded => Earned(k, WithSuccess(rec, n))
         /\ <<k, n>> \in failed => Earned(k, WithFailure(rec, n))
<1>1. /\ rec.ok \in 0 .. MaxSize /\ rec.high \in 0 .. MaxSize /\ rec.bad \in 0 .. MaxSize
      /\ n \in Int
      BY SizesAre DEF Record
<1>2. ASSUME <<k, n>> \in succeeded PROVE Earned(k, WithSuccess(rec, n))
  <2> DEFINE high == Max({rec.high, n})
             new == WithSuccess(rec, n)
  <2>1. high \in {rec.high, n} /\ n <= high
        BY <1>1, MaxOfTwo
  <2>2. /\ new.ok = n /\ new.high = high /\ new.bad = rec.bad
    <3> HIDE DEF high
    <3> QED
      BY DEF WithSuccess, Record, high
  <2> HIDE DEF high, new
  <2>3. Earned(k, new)
        BY <1>2, <2>1, <2>2 DEF Earned
  <2> QED
    BY <2>3 DEF new
<1>3. ASSUME <<k, n>> \in failed PROVE Earned(k, WithFailure(rec, n))
  <2> DEFINE bad == IF rec.bad = 0 THEN n ELSE Min({rec.bad, n})
             new == WithFailure(rec, n)
  <2>1. bad \in {rec.bad, n} /\ (rec.bad = 0 => bad = n)
        BY <1>1, MinOfTwo
  <2>2. /\ new.ok = rec.ok /\ new.high = rec.high /\ new.bad = bad
    <3> HIDE DEF bad
    <3> QED
      BY DEF WithFailure, Record, bad
  <2> HIDE DEF bad, new
  <2>3. Earned(k, new)
        BY <1>3, <2>1, <2>2 DEF Earned
  <2> QED
    BY <2>3 DEF new
<1> QED
  BY <1>2, <1>3

\* The record of the smallest failure after one more of size n.
LEMMA FailureBounds ==
  ASSUME NEW rec \in Record, NEW n \in Sizes
  PROVE  /\ WithFailure(rec, n).bad \in 1 .. n
         /\ \A m \in Sizes : rec.bad \in 1 .. m => WithFailure(rec, n).bad \in 1 .. m
         /\ WithSuccess(rec, n).bad = rec.bad
<1>1. rec.bad \in 0 .. MaxSize /\ n \in Int
      BY SizesAre DEF Record
<1>2. WithSuccess(rec, n).bad = rec.bad
      BY DEF WithSuccess, Record
<1> DEFINE bad == IF rec.bad = 0 THEN n ELSE Min({rec.bad, n})
<1>3. WithFailure(rec, n).bad = bad
  <2> HIDE DEF bad
  <2> QED
    BY DEF WithFailure, Record, bad
<1>4. Min({rec.bad, n}) = IF rec.bad <= n THEN rec.bad ELSE n
      BY <1>1, MinOfTwo
<1>5. bad \in 1 .. n
      BY <1>1, <1>4, SizesAre
<1>6. \A m \in Sizes : rec.bad \in 1 .. m => bad \in 1 .. m
      BY <1>1, <1>4, SizesAre
<1> QED
  BY <1>2, <1>3, <1>5, <1>6

-----------------------------------------------------------------------------
(* Claims are earned *)

LEMMA UpdatedEarned ==
  ASSUME TypeOK, AllEarned, NEW p \in Procs, pc[p] = "save", NEW k \in Keys
  PROVE  Earned(k, Updated(p)[k])
<1> DEFINE rec == loaded[p][KeyOf[p]]
           new == IF passed[p] THEN WithSuccess(rec, size[p]) ELSE WithFailure(rec, size[p])
<1>1. loaded[p] \in Records /\ size[p] \in Sizes /\ passed[p] \in BOOLEAN
      BY DEF TypeOK
<1>2. rec \in Record /\ Earned(KeyOf[p], rec)
      BY <1>1, KeyType DEF Records, AllEarned
<1>3. <<KeyOf[p], size[p]>> \in IF passed[p] THEN succeeded ELSE failed
      BY DEF AllEarned
<1>4. Earned(KeyOf[p], new)
      BY <1>1, <1>2, <1>3, UpdateEarned
<1>5. Updated(p) = [loaded[p] EXCEPT ![KeyOf[p]] = new]
      BY DEF Updated
<1>6. Earned(k, loaded[p][k])
      BY DEF AllEarned
<1>7. Updated(p)[k] = IF k = KeyOf[p] THEN new ELSE loaded[p][k]
  <2> HIDE DEF new
  <2> QED
    BY <1>1, <1>5 DEF Records
<1> QED
  BY <1>4, <1>6, <1>7

\* A process that comes to rest.
LEMMA IdleEarned ==
  ASSUME TypeOK, AllEarned, NEW p \in Procs, Idle(p),
         \A k \in Keys : Earned(k, file'[k])
  PROVE  AllEarned'
<1>1. succeeded' = succeeded /\ failed' = failed
      BY DEF Idle
<1>2. \A k \in Keys : Earned(k, file[k])'
      BY <1>1 DEF Earned
<1>3. \A q \in Procs, k \in Keys : Earned(k, loaded'[q][k])
      BY EmptyEarned DEF Idle, TypeOK, AllEarned
<1>4. \A q \in Procs, k \in Keys : Earned(k, loaded[q][k])'
      BY <1>1, <1>3 DEF Earned
<1>5. \A q \in Procs :
        q # p => pc'[q] = pc[q] /\ size'[q] = size[q] /\ passed'[q] = passed[q]
      BY DEF Idle, TypeOK
<1>6. pc'[p] = "idle"
      BY DEF Idle, TypeOK
<1> QED
  BY <1>1, <1>2, <1>4, <1>5, <1>6 DEF AllEarned

LEMMA StepEarned ==
  ASSUME TypeOK, AllEarned, NEW p \in Procs, Step(p)
  PROVE  AllEarned'
<1>1. ASSUME NEW first \in Sizes, Begin(p, first) PROVE AllEarned'
      BY <1>1 DEF Begin, AllEarned, Earned, TypeOK
<1>2. ASSUME NEW ok \in BOOLEAN, Ends(p, ok) PROVE AllEarned'
  <2>1. /\ succeeded \subseteq succeeded' /\ failed \subseteq failed'
        /\ file' = file /\ loaded' = loaded /\ size' = size
        BY <1>2 DEF Ends
  <2>2. \A k \in Keys : Earned(k, file[k])'
        BY <2>1 DEF AllEarned, Earned
  <2>3. \A q \in Procs, k \in Keys : Earned(k, loaded[q][k])'
        BY <2>1 DEF AllEarned, Earned
  <2>4. <<KeyOf[p], size[p]>> \in IF ok THEN succeeded' ELSE failed'
        BY <1>2 DEF Ends
  <2>5. passed'[p] = ok /\ \A q \in Procs : q # p => passed'[q] = passed[q] /\ pc'[q] = pc[q]
        BY <1>2 DEF Ends, TypeOK
  <2>6. \A q \in Procs :
          pc'[q] \in {"record", "save"} =>
            <<KeyOf[q], size[q]>> \in IF passed'[q] THEN succeeded' ELSE failed'
        BY <2>1, <2>4, <2>5 DEF AllEarned
  <2> QED
    BY <2>1, <2>2, <2>3, <2>6 DEF AllEarned
<1>3. CASE Start(p)
  <2>1. file[KeyOf[p]] \in Record
        BY KeyType DEF TypeOK, Records
  <2> QED
    BY <1>1, <1>3, <2>1, ChooseType DEF Start
<1>4. CASE StartOverridden(p)
      BY <1>1, <1>4 DEF StartOverridden
<1>5. CASE Completes(p) \/ RunsOut(p) \/ Breaks(p)
      BY <1>2, <1>5 DEF Completes, RunsOut, Breaks
<1>6. CASE Restarts(p)
      BY <1>6 DEF Restarts, AllEarned, Earned, TypeOK
<1>7. CASE LoadRecords(p)
      BY <1>7 DEF LoadRecords, AllEarned, Earned, TypeOK
<1>8. CASE Save(p)
      BY <1>8, UpdatedEarned, IdleEarned DEF Save
<1>9. CASE Dies(p)
      BY <1>9, IdleEarned DEF Dies, AllEarned
<1> QED
  BY <1>3, <1>4, <1>5, <1>6, <1>7, <1>8, <1>9 DEF Step

LEMMA DamageEarned == TypeOK /\ AllEarned /\ Damage => AllEarned'
BY EmptyEarned DEF Damage, AllEarned, Earned

-----------------------------------------------------------------------------
(* The smallest failure is kept *)

LEMMA StepKeepsFailures ==
  ASSUME TypeOK, FailuresKept, NEW p \in Procs, Step(p)
  PROVE  FailuresKept'
<1> SUFFICES ASSUME ~lost', NEW k \in Keys, NEW n \in Sizes, <<k, n>> \in failed'
             PROVE  file'[k].bad \in 1 .. n \/ OnItsWay(k, n)'
    BY DEF FailuresKept
<1>1. ASSUME ~lost, failed' = failed, file' = file,
             \A q \in Procs : pc[q] \in {"record", "save"} =>
                /\ pc'[q] \in {"record", "save"} /\ size'[q] = size[q]
                /\ passed'[q] = passed[q]
      PROVE  file'[k].bad \in 1 .. n \/ OnItsWay(k, n)'
      BY <1>1 DEF FailuresKept, OnItsWay
<1>2. CASE Start(p) \/ StartOverridden(p)
  <2>1. PICK first : Begin(p, first)
        BY <1>2 DEF Start, StartOverridden
  <2> QED
    BY <1>1, <2>1 DEF Begin, TypeOK
<1>3. ASSUME NEW ok \in BOOLEAN, Ends(p, ok), pc[p] = "run"
      PROVE  file'[k].bad \in 1 .. n \/ OnItsWay(k, n)'
  <2>1. /\ pc'[p] = "record" /\ passed'[p] = ok /\ file' = file /\ lost' = lost /\ size' = size
        /\ \A q \in Procs : q # p => pc'[q] = pc[q] /\ passed'[q] = passed[q]
        /\ failed' = failed \/ (~ok /\ failed' = failed \cup {<<KeyOf[p], size[p]>>})
        BY <1>3 DEF Ends, TypeOK
  <2>2. CASE <<k, n>> \in failed
        BY <1>3, <2>1, <2>2 DEF FailuresKept, OnItsWay
  <2>3. CASE <<k, n>> \notin failed
    <3>1. ~ok /\ k = KeyOf[p] /\ n = size[p]
          BY <2>1, <2>3
    <3> QED
      BY <2>1, <3>1 DEF OnItsWay
  <2> QED
    BY <2>2, <2>3
<1>4. CASE Completes(p) \/ RunsOut(p) \/ Breaks(p)
      BY <1>3, <1>4 DEF Completes, RunsOut, Breaks
<1>5. CASE Restarts(p)
      BY <1>1, <1>5 DEF Restarts, TypeOK
<1>6. CASE LoadRecords(p)
      BY <1>1, <1>6 DEF LoadRecords, TypeOK
<1>7. CASE Save(p)
  <2> DEFINE rec == file[KeyOf[p]]
             new == IF passed[p] THEN WithSuccess(rec, size[p]) ELSE WithFailure(rec, size[p])
  <2>1. /\ ~lost /\ file = loaded[p] /\ failed' = failed /\ file' = Updated(p)
        /\ \A q \in Procs : q # p => pc'[q] = pc[q] /\ passed'[q] = passed[q] /\ size'[q] = size[q]
        BY <1>7 DEF Save, Idle, TypeOK
  <2>2. file \in Records /\ rec \in Record /\ size[p] \in Sizes
        BY KeyType DEF TypeOK, Records
  <2>3. file'[k] = IF k = KeyOf[p] THEN new ELSE file[k]
    <3>1. file' = [file EXCEPT ![KeyOf[p]] = new]
          BY <2>1 DEF Updated
    <3> HIDE DEF new
    <3> QED
      BY <2>2, <3>1 DEF Records
  <2>4. CASE file[k].bad \in 1 .. n
        BY <2>2, <2>3, <2>4, FailureBounds
  <2>5. CASE OnItsWay(k, n)
    <3>1. PICK q \in Procs : /\ KeyOf[q] = k /\ pc[q] \in {"record", "save"}
                             /\ ~passed[q] /\ size[q] = n
          BY <2>5 DEF OnItsWay
    <3>2. CASE q = p
          BY <2>2, <2>3, <3>1, <3>2, FailureBounds
    <3>3. CASE q # p
          BY <2>1, <3>1, <3>3 DEF OnItsWay
    <3> QED
      BY <3>2, <3>3
  <2> QED
    BY <2>1, <2>4, <2>5 DEF FailuresKept
<1>8. CASE Dies(p)
  <2>1. ~lost /\ pc[p] \notin {"record", "save"}
        BY <1>8 DEF Dies
  <2> QED
    BY <1>1, <1>8, <2>1 DEF Dies, Idle, TypeOK
<1> QED
  BY <1>2, <1>4, <1>5, <1>6, <1>7, <1>8 DEF Step

-----------------------------------------------------------------------------
(* The invariant is inductive *)

LEMMA InitIInv == Init => IInv
<1> SUFFICES ASSUME Init PROVE IInv
    OBVIOUS
<1>1. TypeOK
      BY EmptyType, SizesAre DEF Init, TypeOK, Labels
<1>2. AllEarned
      BY EmptyEarned DEF Init, AllEarned
<1>3. FailuresKept
      BY DEF Init, FailuresKept
<1> QED
  BY <1>1, <1>2, <1>3 DEF IInv

LEMMA NextIInv == IInv /\ [Next]_vars => IInv'
<1> SUFFICES ASSUME IInv, [Next]_vars PROVE IInv'
    OBVIOUS
<1> USE DEF IInv
<1>1. ASSUME NEW p \in Procs, Step(p) PROVE IInv'
      BY <1>1, StepType, StepEarned, StepKeepsFailures
<1>2. CASE Damage
      BY <1>2, DamageType, DamageEarned DEF Damage, FailuresKept
<1>3. CASE UNCHANGED vars
      BY <1>3 DEF vars, TypeOK, AllEarned, Earned, FailuresKept, OnItsWay
<1> QED
  BY <1>1, <1>2, <1>3 DEF Next

LEMMA Inductive == Init /\ [][Next]_vars => []IInv
BY InitIInv, NextIInv, PTL

-----------------------------------------------------------------------------
(* The theorems *)

\* Sizes stay between the least and the largest, whatever the cache file, the
\* override and the memory reading say.
THEOREM TypeCorrect == Spec => []TypeOK
<1>1. IInv => TypeOK
      BY DEF IInv
<1> QED
  BY <1>1, Inductive, PTL DEF Spec

\* A run that is sized by the cache does not repeat a size that is known to fail.
LEMMA ChooseBelow ==
  ASSUME NEW rec \in Record, NEW free \in Free, rec.bad > 0
  PROVE  Choose(rec, free) = 1 \/ Choose(rec, free) < rec.bad
<1> DEFINE half == Max({1, rec.bad \div 2})
<1>1. free \in Nat /\ Footprint \in Nat
      BY CacheAssumption DEF CacheAssumption
<1>2. rec.ok \in 0 .. MaxSize /\ rec.bad \in 1 .. MaxSize
      BY SizesAre DEF Record
<1>3. Formula(free) \in Sizes /\ LiveGuard(free) \in Sizes
      BY <1>1, ClampType, SizesAre DEF Formula, LiveGuard
<1>4. half \in Sizes /\ (half = 1 \/ half < rec.bad)
  <2>1. rec.bad \div 2 \in Int /\ rec.bad \div 2 < rec.bad /\ rec.bad \div 2 <= MaxSize
        BY <1>2, SizesAre
  <2>2. half = IF 1 >= rec.bad \div 2 THEN 1 ELSE rec.bad \div 2
        BY <2>1, MaxOfTwo
  <2> HIDE DEF half
  <2> QED
    BY <2>1, <2>2, SizesAre
<1>5. Clamp(rec.ok) \in Sizes
  <2>1. rec.ok \in Int
        BY <1>2, SizesAre
  <2> QED
    BY <2>1, ClampType
<1>6. \A m, n \in Sizes : Min({m, n}) \in Sizes /\ Min({m, n}) <= m /\ Min({m, n}) <= n
      BY MinOfTwo, SizesAre
<1>7. Trusted(rec) \in Sizes /\ (Trusted(rec) = 1 \/ Trusted(rec) < rec.bad)
  <2>1. Trusted(rec) = IF rec.bad <= Clamp(rec.ok) THEN half ELSE Clamp(rec.ok)
        BY DEF Trusted
  <2> HIDE DEF half
  <2> QED
    BY <1>2, <1>4, <1>5, <2>1, SizesAre
<1> HIDE DEF half
<1>8. \A n \in Sizes : Clamp(n) = n
  <2> SUFFICES ASSUME NEW n \in Sizes PROVE Clamp(n) = n
      OBVIOUS
  <2>1. Min({MaxSize, n}) = n
        BY MinOfTwo, SizesAre
  <2>2. Max({1, n}) = n
        BY MaxOfTwo, SizesAre
  <2> QED
    BY <2>1, <2>2 DEF Clamp
<1>9. CASE rec.ok > 0
  <2>1. Choose(rec, free) = Min({Trusted(rec), LiveGuard(free)})
        BY <1>9 DEF Choose
  <2>2. Choose(rec, free) \in Sizes /\ Choose(rec, free) <= Trusted(rec)
        BY <1>3, <1>6, <1>7, <2>1
  <2> QED
    BY <1>2, <1>7, <2>2, SizesAre
<1>10. CASE ~(rec.ok > 0)
  <2>1. Choose(rec, free) = Clamp(Min({Formula(free), half}))
        BY <1>10 DEF Choose, half
  <2>2. Choose(rec, free) \in Sizes /\ Choose(rec, free) <= half
        BY <1>3, <1>4, <1>6, <1>8, <2>1
  <2> QED
    BY <1>2, <1>4, <2>2, SizesAre
<1> QED
  BY <1>9, <1>10

\* Every size in the cache file is that of a completed, or of a failed, document of
\* the same fingerprint (cache.py:13, 302), although concurrent saves overwrite each
\* other's records.
THEOREM ClaimsSound == Spec => []ClaimsEarned
<1>1. IInv => ClaimsEarned
      BY DEF IInv, AllEarned, Earned, ClaimsEarned
<1> QED
  BY <1>1, Inductive, PTL DEF Spec

\* As long as no save crosses another or fails, the record has the smallest size
\* that failed, in whatever order the documents fail (cache.py:298).
THEOREM SmallestFailure == Spec => []SmallestFailureKept
<1>1. IInv => SmallestFailureKept
  <2> SUFFICES ASSUME IInv, ~lost, NEW p \in Procs, NEW n \in Sizes,
                      <<KeyOf[p], n>> \in failed,
                      \A q \in Procs : KeyOf[q] = KeyOf[p] => pc[q] \in {"idle", "run"}
               PROVE  file[KeyOf[p]].bad \in 1 .. n
      BY DEF SmallestFailureKept
  <2>1. file[KeyOf[p]].bad \in 1 .. n \/ OnItsWay(KeyOf[p], n)
        BY KeyType DEF IInv, FailuresKept
  <2> QED
    BY <2>1 DEF OnItsWay
<1> QED
  BY <1>1, Inductive, PTL DEF Spec

\* As long as no save crosses another or fails, a run that is sized by the cache
\* starts below every size that has failed, whatever memory is free, however small
\* or large the record's success is (cache.py:231, portable.py:189-204).
THEOREM RetryBelow == Spec => StartsBelowFailure
<1> DEFINE Below ==
      \A p \in Procs :
        /\ Start(p) /\ ~lost
        /\ \A q \in Procs : KeyOf[q] = KeyOf[p] => pc[q] \in {"idle", "run"}
        => size'[p] = 1 \/ \A n \in Sizes : <<KeyOf[p], n>> \in failed => size'[p] < n
<1>1. IInv => Below
  <2> SUFFICES ASSUME IInv, NEW p \in Procs, Start(p), ~lost,
                      \A q \in Procs : KeyOf[q] = KeyOf[p] => pc[q] \in {"idle", "run"},
                      NEW n \in Sizes, <<KeyOf[p], n>> \in failed
               PROVE  size'[p] = 1 \/ size'[p] < n
      OBVIOUS
  <2>1. file[KeyOf[p]].bad \in 1 .. n \/ OnItsWay(KeyOf[p], n)
        BY KeyType DEF IInv, FailuresKept
  <2>2. file[KeyOf[p]].bad \in 1 .. n
        BY <2>1 DEF OnItsWay
  <2>3. PICK free \in Free : size'[p] = Choose(file[KeyOf[p]], free)
        BY DEF Start, Begin, IInv, TypeOK
  <2>4. file[KeyOf[p]] \in Record
        BY KeyType DEF IInv, TypeOK, Records
  <2>5. file[KeyOf[p]].bad > 0 /\ file[KeyOf[p]].bad <= n
        BY <2>2
  <2>6. size'[p] = 1 \/ size'[p] < file[KeyOf[p]].bad
        BY <2>3, <2>4, <2>5, ChooseBelow
  <2>7. size'[p] \in Sizes
        BY <2>3, <2>4, ChooseType
  <2> QED
    BY <2>2, <2>6, <2>7, SizesAre
<1>2. IInv /\ [Next]_vars => [Below]_vars
      BY <1>1
<1> HIDE DEF Below
<1>3. Init /\ [][Next]_vars => [][Below]_vars
      BY <1>2, Inductive, PTL
<1>4. Init /\ [][Next]_vars => StartsBelowFailure
      BY <1>3 DEF Below, StartsBelowFailure
<1> QED
  BY <1>4, PTL DEF Spec

(***************************************************************************)
(* The savings ledger                                                        *)
(***************************************************************************)

-----------------------------------------------------------------------------
(* The inductive invariant *)

LedgerLabels == {"idle", "append", "read", "open tmp", "fill", "replace"}

Hurt == {Torn, Part}

Values == Nat \cup Hurt

LedgerTypeOK ==
  /\ data \in [Inodes -> Seq(Values)]
  /\ path \in Inodes \cup {NoFile}
  /\ tmp \in Inodes \cup {NoFile}
  /\ at \in [Recorders -> LedgerLabels]
  /\ handle \in [Recorders -> Inodes \cup {NoFile}]
  /\ trimmed \in [Recorders -> Seq(Values)]
  /\ clock \in Nat /\ stops \in Nat
  /\ written \in Seq(Values) /\ cuts \in Nat /\ joined \in Nat
  /\ overlap \in {"none", "append", "compaction"}
  /\ \A p \in Recorders : at[p] \in {"append", "fill"} => handle[p] # NoFile

\* The inode of ledger.tmp is neither the ledger's nor one that somebody appends to.
TmpApart ==
  tmp # NoFile =>
    /\ tmp # path
    /\ \A p \in Appending : handle[p] # tmp

\* What a process keeps of a ledger that was too long is MaxEntries lines.
TrimmedToSize == \A p \in Compacting : Len(trimmed[p]) = MaxEntries

\* A compaction that meets no other owns ledger.tmp from its opening on: the file
\* is empty until the lines are in it, and then holds nothing else.
TmpOwned ==
  overlap # "compaction" =>
    \A p \in Compacting :
      /\ \A q \in Compacting : q = p
      /\ at[p] \in {"fill", "replace"} => tmp # NoFile
      /\ at[p] = "fill" => handle[p] = tmp /\ data[tmp] = <<>>
      /\ at[p] = "replace" => data[tmp] = trimmed[p]

\* Of the whole lines, each was written later than those before it, none after
\* now; and some line is not whole only if an append was cut short.
InOrder(lines, now, cut) ==
  \A j \in 1 .. Len(lines) :
    \/ lines[j] \in Hurt /\ cut > 0
    \/ /\ lines[j] \in 1 .. now
       /\ \A i \in 1 .. Len(lines) : i < j => lines[i] \in Hurt \/ lines[i] < lines[j]

OrderKept ==
  overlap # "compaction" =>
    /\ path # NoFile => InOrder(data[path], clock, cuts)
    /\ \A p \in Compacting : InOrder(trimmed[p], clock, cuts)

\* A ledger that is too long has a process that has not read it yet or is already
\* at work on it.
TooLongIsSeen ==
  stops = 0 /\ overlap # "compaction" /\ path # NoFile =>
    \/ Len(data[path]) <= CompactAt
    \/ Compacting # {}
    \/ \E p \in Recorders : at[p] = "read"

\* s is the end of t, element by element.
EndOf(s, t) ==
  /\ Len(s) <= Len(t)
  /\ \A i \in 1 .. Len(s) : s[i] = t[Len(t) - Len(s) + i]

\* A part at the end of the ledger is still to have a line joined to it.
Owed == IF Open(Lines) THEN 1 ELSE 0

Complete ==
  /\ EndOf(Closed(Lines), written)
  /\ Len(Lines) >= MaxEntries \/ Closed(Lines) = written
  /\ joined + Owed <= cuts

\* While nothing has overlapped, appends go to the ledger itself and a compaction
\* holds the newest lines of what the ledger still is.
AloneSoFar ==
  overlap = "none" =>
    /\ Complete
    /\ \A p \in Appending : path # NoFile /\ handle[p] = path
    /\ \A p \in Compacting : /\ path # NoFile
                             /\ Len(data[path]) > CompactAt
                             /\ trimmed[p] = Closed(Newest(data[path]))

LedgerIInv == /\ LedgerTypeOK /\ TmpApart /\ TrimmedToSize /\ TmpOwned
        /\ OrderKept /\ TooLongIsSeen /\ AloneSoFar

-----------------------------------------------------------------------------
(* Lemmas about inodes and sequences *)

LEMMA Constants ==
  /\ MaxEntries \in Nat \ {0} /\ CompactAt \in Nat /\ CompactAt >= MaxEntries
  /\ NoFile \notin Inodes /\ Torn \notin Nat /\ Part \notin Nat /\ Torn # Part
<1>1. Cardinality(Recorders) \in Nat
      BY LedgerAssumption, FS_CardinalityType DEF LedgerAssumption
<1>2. Inodes \subseteq Nat
      BY <1>1 DEF Inodes
<1> QED
  BY <1>2, LedgerAssumption DEF LedgerAssumption

\* There are more inodes than names and open files, so a new file always gets one
\* that nothing refers to.
LEMMA UnusedIsFree ==
  /\ Unused \in Inodes /\ Unused # path /\ Unused # tmp
  /\ \A p \in Recorders : Unused # handle[p]
<1> DEFINE Held == {handle[p] : p \in Recorders}
           Named == {path, tmp}
<1>1. IsFiniteSet(Recorders) /\ Cardinality(Recorders) \in Nat
      BY LedgerAssumption, FS_CardinalityType DEF LedgerAssumption
<1>2. IsFiniteSet(Held) /\ Cardinality(Held) <= Cardinality(Recorders)
  <2> DEFINE f == [p \in Recorders |-> handle[p]]
  <2>1. f \in Surjection(Recorders, Held)
        BY DEF Surjection
  <2> HIDE DEF f, Held
  <2> QED
    BY <1>1, <2>1, FS_Surjection
<1>3. IsFiniteSet(Named) /\ Cardinality(Named) <= 2
  <2>1. IsFiniteSet({path}) /\ Cardinality({path}) = 1
        BY FS_Singleton
  <2>2. IsFiniteSet({path} \cup {tmp}) /\ Cardinality({path} \cup {tmp}) <= 2
        BY <2>1, FS_AddElement, 1 + 1 = 2
  <2>3. Named = {path} \cup {tmp}
        OBVIOUS
  <2> QED
    BY <2>2, <2>3
<1>4. IsFiniteSet(Named \cup Held) /\ Cardinality(Named \cup Held) <= Cardinality(Recorders) + 2
  <2> HIDE DEF Named, Held
  <2>1. Cardinality(Named) \in Nat /\ Cardinality(Held) \in Nat
        BY <1>2, <1>3, FS_CardinalityType
  <2>2. IsFiniteSet(Named \cap Held) /\ Cardinality(Named \cap Held) \in Nat
    <3>1. Named \cap Held \in SUBSET Named
          OBVIOUS
    <3> QED
      BY <3>1, <1>3, FS_Subset, FS_CardinalityType
  <2>3. /\ IsFiniteSet(Named \cup Held)
        /\ Cardinality(Named \cup Held)
             = Cardinality(Named) + Cardinality(Held) - Cardinality(Named \cap Held)
        BY <1>2, <1>3, FS_Union
  <2> QED
    BY <2>1, <2>2, <2>3, <1>1, <1>2, <1>3
<1>5. IsFiniteSet(Inodes) /\ Cardinality(Inodes) = Cardinality(Recorders) + 3
  <2>1. Cardinality(Recorders) + 3 \in Int /\ 1 \in Int /\ ~(1 > Cardinality(Recorders) + 3)
        BY <1>1
  <2> QED
    BY <2>1, <1>1, FS_Interval DEF Inodes
<1>6. ~(Inodes \subseteq Named \cup Held)
  <2> HIDE DEF Named, Held
  <2> SUFFICES ASSUME Inodes \subseteq Named \cup Held PROVE FALSE
      OBVIOUS
  <2>1. Cardinality(Inodes) <= Cardinality(Named \cup Held)
        BY <1>4, FS_Subset
  <2>2. Cardinality(Named \cup Held) \in Nat
        BY <1>4, FS_CardinalityType
  <2> QED
    BY <2>1, <2>2, <1>1, <1>4, <1>5
<1>7. PICK i \in Inodes : i \notin Named \cup Held
      BY <1>6
<1>8. Unused \in Inodes /\ Unused \notin Named \cup Held
      BY <1>7 DEF Unused
<1> QED
  BY <1>8

\* Elements of a set of sequences, by position.
LEMMA Newest_Type ==
  ASSUME NEW lines \in Seq(Values), Len(lines) > CompactAt
  PROVE  /\ Newest(lines) \in Seq(Values)
         /\ Len(Newest(lines)) = MaxEntries
         /\ \A i \in 1 .. MaxEntries :
              /\ Len(lines) - MaxEntries + i \in 1 .. Len(lines)
              /\ Newest(lines)[i] = lines[Len(lines) - MaxEntries + i]
<1> DEFINE m == Len(lines) - MaxEntries + 1
           n == Len(lines)
<1>1. m \in Int /\ n \in Nat /\ m >= 1 /\ m <= n /\ n - m + 1 = MaxEntries
      BY Constants, LenProperties
<1>2. \A i \in m .. n : lines[i] \in Values
  <2>1. \A i \in m .. n : i \in 1 .. Len(lines)
        BY <1>1
  <2> QED
    BY <2>1, ElementOfSeq
<1>3. /\ SubSeq(lines, m, n) \in Seq(Values)
      /\ Len(SubSeq(lines, m, n)) = n - m + 1
      /\ \A i \in 1 .. n - m + 1 : SubSeq(lines, m, n)[i] = lines[m + i - 1]
      BY <1>1, <1>2, SubSeqProperties
<1>4. \A i \in 1 .. MaxEntries : /\ m + i - 1 = Len(lines) - MaxEntries + i
                                 /\ Len(lines) - MaxEntries + i \in 1 .. Len(lines)
      BY <1>1, Constants
<1>5. Newest(lines) = SubSeq(lines, m, n)
      BY DEF Newest
<1> HIDE DEF m, n
<1> QED
  BY <1>1, <1>3, <1>4, <1>5

\* The whole of Put: behind a part the last line changes, otherwise there is one more.
LEMMA Put_Type ==
  ASSUME NEW lines \in Seq(Values), NEW line \in Values
  PROVE  /\ Put(lines, line) \in Seq(Values)
         /\ Open(lines) =>
              /\ Len(Put(lines, line)) = Len(lines)
              /\ Len(lines) \in 1 .. Len(lines)
              /\ lines[Len(lines)] = Part
              /\ Put(lines, line)[Len(lines)] = IF line = Part THEN Part ELSE Torn
              /\ \A i \in 1 .. Len(lines) : i # Len(lines) => Put(lines, line)[i] = lines[i]
         /\ ~Open(lines) =>
              /\ Len(Put(lines, line)) = Len(lines) + 1
              /\ Put(lines, line)[Len(lines) + 1] = line
              /\ \A i \in 1 .. Len(lines) : Put(lines, line)[i] = lines[i]
<1>1. Len(lines) \in Nat /\ Torn \in Values /\ Part \in Values
      BY LenProperties DEF Values, Hurt
<1>2. CASE Open(lines)
  <2> DEFINE last == IF line = Part THEN Part ELSE Torn
             n == Len(lines)
  <2>1. Put(lines, line) = [lines EXCEPT ![n] = last] /\ last \in Values
        BY <1>1, <1>2 DEF Put
  <2>2. n \in 1 .. n /\ lines[n] = Part
        BY <1>1, <1>2, EmptySeq DEF Open
  <2> HIDE DEF last
  <2>3. /\ [lines EXCEPT ![n] = last] \in Seq(Values)
        /\ Len([lines EXCEPT ![n] = last]) = n
        /\ \A i \in 1 .. n : [lines EXCEPT ![n] = last][i] = IF i = n THEN last ELSE lines[i]
        BY <2>1, <2>2, ExceptSeq
  <2> QED
    BY <1>2, <2>1, <2>2, <2>3 DEF last
<1>3. CASE ~Open(lines)
  <2>1. Put(lines, line) = Append(lines, line)
        BY <1>3 DEF Put
  <2> QED
    BY <1>3, <2>1, AppendProperties
<1> QED
  BY <1>2, <1>3

LEMMA Closed_Type ==
  ASSUME NEW lines \in Seq(Values)
  PROVE  /\ Closed(lines) \in Seq(Values)
         /\ Len(Closed(lines)) = Len(lines)
         /\ \A i \in 1 .. Len(lines) :
              Closed(lines)[i] = IF lines[i] = Part THEN Torn ELSE lines[i]
<1>1. Len(lines) \in Nat /\ DOMAIN lines = 1 .. Len(lines)
      BY LenProperties
<1>2. \A i \in 1 .. Len(lines) : (IF lines[i] = Part THEN Torn ELSE lines[i]) \in Values
      BY ElementOfSeq DEF Values, Hurt
<1>3. Closed(lines) = [i \in 1 .. Len(lines) |-> IF lines[i] = Part THEN Torn ELSE lines[i]]
      BY <1>1 DEF Closed
<1>4. Closed(lines) \in [1 .. Len(lines) -> Values]
      BY <1>2, <1>3
<1> QED
  BY <1>1, <1>3, <1>4

\* What is read from a file has no part at its end and is read the same again.
LEMMA Closed_Twice ==
  ASSUME NEW lines \in Seq(Values)
  PROVE  Closed(Closed(lines)) = Closed(lines) /\ ~Open(Closed(lines))
<1> DEFINE once == Closed(lines)
           n == Len(lines)
<1>1. /\ once \in Seq(Values) /\ Len(once) = n /\ n \in Nat
      /\ \A i \in 1 .. n : once[i] = IF lines[i] = Part THEN Torn ELSE lines[i]
      BY Closed_Type, LenProperties
<1>2. \A i \in 1 .. n : once[i] # Part
      BY <1>1, Constants
<1> HIDE DEF once
<1>3. /\ Closed(once) \in Seq(Values) /\ Len(Closed(once)) = n
      /\ \A i \in 1 .. n : Closed(once)[i] = once[i]
      BY <1>1, <1>2, Closed_Type
<1>4. Closed(once) = once
      BY <1>1, <1>3, SeqEqual
<1>5. ~Open(once)
  <2> SUFFICES ASSUME once # <<>>, once[Len(once)] = Part PROVE FALSE
      BY DEF Open
  <2>1. n \in 1 .. n
        BY <1>1, EmptySeq
  <2> QED
    BY <1>1, <1>2, <2>1
<1> QED
  BY <1>4, <1>5 DEF once

\* A line that is joined to a part changes nothing for who reads the file.
LEMMA Closed_Put ==
  ASSUME NEW lines \in Seq(Values), NEW line \in Values, line # Torn
  PROVE  Closed(Put(lines, line)) =
           IF Open(lines) THEN Closed(lines)
           ELSE Append(Closed(lines), IF line = Part THEN Torn ELSE line)
<1> DEFINE more == Put(lines, line)
           n == Len(lines)
<1>1. n \in Nat /\ Torn \in Values
      BY LenProperties DEF Values, Hurt
<1>2. /\ Closed(lines) \in Seq(Values) /\ Len(Closed(lines)) = n
      /\ \A i \in 1 .. n : Closed(lines)[i] = IF lines[i] = Part THEN Torn ELSE lines[i]
      BY Closed_Type
<1>3. more \in Seq(Values)
      BY Put_Type
<1>4. /\ Closed(more) \in Seq(Values) /\ Len(Closed(more)) = Len(more)
      /\ \A i \in 1 .. Len(more) : Closed(more)[i] = IF more[i] = Part THEN Torn ELSE more[i]
      BY <1>3, Closed_Type
<1>5. CASE Open(lines)
  <2>1. /\ Len(more) = n /\ n \in 1 .. n /\ lines[n] = Part
        /\ more[n] = IF line = Part THEN Part ELSE Torn
        /\ \A i \in 1 .. n : i # n => more[i] = lines[i]
        BY <1>5, Put_Type
  <2> HIDE DEF more
  <2>2. \A i \in 1 .. n : Closed(more)[i] = Closed(lines)[i]
        BY <1>2, <1>4, <2>1, Constants
  <2>3. Closed(more) = Closed(lines)
        BY <1>2, <1>4, <2>1, <2>2, SeqEqual
  <2> QED
    BY <1>5, <2>3 DEF more
<1>6. CASE ~Open(lines)
  <2> DEFINE last == IF line = Part THEN Torn ELSE line
             longer == Append(Closed(lines), last)
  <2>1. /\ Len(more) = n + 1 /\ more[n + 1] = line
        /\ \A i \in 1 .. n : more[i] = lines[i]
        BY <1>6, Put_Type
  <2>2. last \in Values
        BY <1>1
  <2>3. /\ longer \in Seq(Values) /\ Len(longer) = n + 1 /\ longer[n + 1] = last
        /\ \A i \in 1 .. n : longer[i] = Closed(lines)[i]
    <3> HIDE DEF last
    <3> QED
      BY <1>2, <2>2, AppendProperties
  <2> HIDE DEF more, longer
  <2>4. \A i \in 1 .. n : i \in 1 .. n + 1
        BY <1>1
  <2>5. \A i \in 1 .. n : Closed(more)[i] = longer[i]
        BY <1>2, <1>4, <2>1, <2>3, <2>4
  <2>6. Closed(more)[n + 1] = longer[n + 1]
    <3>1. n + 1 \in 1 .. n + 1
          BY <1>1
    <3> QED
      BY <1>4, <2>1, <2>3, <3>1
  <2>7. \A i \in 1 .. n + 1 : i \in 1 .. n \/ i = n + 1
        BY <1>1
  <2>8. \A i \in 1 .. n + 1 : Closed(more)[i] = longer[i]
        BY <2>5, <2>6, <2>7
  <2>9. Closed(more) = longer
        BY <1>4, <2>1, <2>3, <2>8, SeqEqual
  <2> QED
    BY <1>6, <2>9 DEF more, longer
<1> QED
  BY <1>5, <1>6

\* EndOf says of two sequences what IsSuffix does.
LEMMA EndOf_IsSuffix ==
  ASSUME NEW S, NEW s \in Seq(S), NEW t \in Seq(S), EndOf(s, t)
  PROVE  IsSuffix(s, t)
<1> DEFINE r == Reverse(s)
           q == Reverse(t)
<1>1. Len(s) \in Nat /\ Len(t) \in Nat /\ Len(s) <= Len(t)
      BY LenProperties DEF EndOf
<1>2. \A i \in 1 .. Len(s) : Len(s) - i + 1 \in 1 .. Len(s)
      BY <1>1
<1>3. \A i \in 1 .. Len(t) : Len(t) - i + 1 \in 1 .. Len(t)
      BY <1>1
<1>4. r \in [1 .. Len(s) -> S] /\ r \in Seq(S) /\ Len(r) = Len(s)
  <2>1. r \in [1 .. Len(s) -> S]
        BY <1>2, ElementOfSeq DEF Reverse
  <2> QED
    BY <1>1, <2>1
<1>5. q \in [1 .. Len(t) -> S] /\ q \in Seq(S) /\ Len(q) = Len(t)
  <2>1. q \in [1 .. Len(t) -> S]
        BY <1>3, ElementOfSeq DEF Reverse
  <2> QED
    BY <1>1, <2>1
<1>6. \A i \in 1 .. Len(s) : r[i] = q[i]
  <2> SUFFICES ASSUME NEW i \in 1 .. Len(s) PROVE r[i] = q[i]
      OBVIOUS
  <2>1. r[i] = s[Len(s) - i + 1] /\ q[i] = t[Len(t) - i + 1]
        BY <1>1 DEF Reverse
  <2>2. s[Len(s) - i + 1] = t[Len(t) - Len(s) + (Len(s) - i + 1)]
        BY <1>2 DEF EndOf
  <2>3. Len(t) - Len(s) + (Len(s) - i + 1) = Len(t) - i + 1
        BY <1>1
  <2> QED
    BY <2>1, <2>2, <2>3
<1> HIDE DEF r, q
<1>7. SubSeq(r, 1, Len(r)) = r
      BY <1>4, SubSeqFull
<1>8. SubSeq(q, 1, Len(r)) = r
  <2>1. \A i \in 1 .. Len(r) : q[i] \in S
        BY <1>1, <1>4, <1>5
  <2>2. /\ SubSeq(q, 1, Len(r)) \in Seq(S)
        /\ Len(SubSeq(q, 1, Len(r))) = (IF 1 <= Len(r) THEN Len(r) - 1 + 1 ELSE 0)
        /\ \A i \in 1 .. Len(r) - 1 + 1 : SubSeq(q, 1, Len(r))[i] = q[1 + i - 1]
    <3> DEFINE z == Len(r)
    <3>1. 1 \in Int /\ z \in Int /\ \A i \in 1 .. z : q[i] \in S
          BY <1>1, <1>4, <2>1
    <3> HIDE DEF z
    <3>2. /\ SubSeq(q, 1, z) \in Seq(S)
          /\ Len(SubSeq(q, 1, z)) = (IF 1 <= z THEN z - 1 + 1 ELSE 0)
          /\ \A i \in 1 .. z - 1 + 1 : SubSeq(q, 1, z)[i] = q[1 + i - 1]
          BY <3>1, SubSeqProperties
    <3> QED
      BY <3>2 DEF z
  <2>3. Len(SubSeq(q, 1, Len(r))) = Len(r)
        BY <2>2, <1>1, <1>4
  <2>4. \A i \in 1 .. Len(r) : SubSeq(q, 1, Len(r))[i] = r[i]
    <3>1. \A i \in 1 .. Len(r) : i \in 1 .. Len(r) - 1 + 1 /\ 1 + i - 1 = i
          BY <1>1, <1>4
    <3> QED
      BY <3>1, <2>2, <1>4, <1>6
  <2> QED
    BY <2>2, <2>3, <2>4, <1>4, SeqEqual
<1>9. IsPrefix(r, q)
      BY <1>1, <1>4, <1>5, <1>7, <1>8 DEF IsPrefix
<1> QED
  BY <1>9 DEF IsSuffix, r, q

-----------------------------------------------------------------------------
(* Types *)

LEMMA InodeIsNoFile == LedgerTypeOK => \A p \in Recorders : at[p] \in {"append", "fill"} => handle[p] \in Inodes
BY DEF LedgerTypeOK

\* What FillTmp leaves in the file is made of lines.
LEMMA Filled_Type ==
  ASSUME NEW lines \in Seq(Values), NEW old \in Seq(Values),
         NEW k \in 1 .. Len(old) + 1, NEW part \in {<<>>, <<Torn>>, <<Part>>}
  PROVE  lines \o part \o SubSeq(old, k, Len(old)) \in Seq(Values)
<1>1. part \in Seq(Values)
  <2>1. Torn \in Values /\ Part \in Values
        BY DEF Values, Hurt
  <2>2. <<>> \in Seq(Values) /\ <<Torn>> \in Seq(Values) /\ <<Part>> \in Seq(Values)
        BY <2>1
  <2> QED
    BY <2>2
<1>2. Len(old) \in Nat /\ k \in Int
      BY LenProperties
<1>3. \A i \in k .. Len(old) : old[i] \in Values
  <2>1. \A i \in k .. Len(old) : i \in 1 .. Len(old)
        BY <1>2
  <2> QED
    BY <2>1, ElementOfSeq
<1>4. SubSeq(old, k, Len(old)) \in Seq(Values)
      BY <1>2, <1>3, SubSeqProperties
<1>5. lines \o part \in Seq(Values)
      BY <1>1, ConcatProperties
<1> QED
  BY <1>4, <1>5, ConcatProperties

LEMMA CutFill_Type ==
  ASSUME LedgerTypeOK, NEW p \in Recorders, CutFill(p)
  PROVE  data' \in [Inodes -> Seq(Values)] /\ \A i \in Inodes : i # handle[p] => data'[i] = data[i]
<1>1. handle[p] \in Inodes
      BY DEF LedgerTypeOK, CutFill
<1>2. data[handle[p]] \in Seq(Values) /\ trimmed[p] \in Seq(Values)
      BY <1>1 DEF LedgerTypeOK
<1>3. PICK n \in 0 .. Len(trimmed[p]) - 1, k \in 1 .. Len(data[handle[p]]) + 1 :
        data' = [data EXCEPT ![handle[p]] =
                   SubSeq(trimmed[p], 1, n)
                     \o <<IF k > Len(data[handle[p]]) THEN Part ELSE Torn>>
                     \o SubSeq(data[handle[p]], k, Len(data[handle[p]]))]
      BY DEF CutFill
<1>4. SubSeq(trimmed[p], 1, n) \in Seq(Values)
  <2>1. n \in Int /\ Len(trimmed[p]) \in Nat /\ n <= Len(trimmed[p])
        BY <1>2, LenProperties
  <2>2. \A i \in 1 .. n : i \in 1 .. Len(trimmed[p])
        BY <2>1
  <2>3. \A i \in 1 .. n : trimmed[p][i] \in Values
        BY <1>2, <2>2, ElementOfSeq
  <2> QED
    BY <2>1, <2>3, SubSeqProperties
<1> DEFINE bit == <<IF k > Len(data[handle[p]]) THEN Part ELSE Torn>>
<1>5. bit \in {<<>>, <<Torn>>, <<Part>>}
      OBVIOUS
<1> HIDE DEF bit
<1>6. SubSeq(trimmed[p], 1, n) \o bit \o SubSeq(data[handle[p]], k, Len(data[handle[p]])) \in Seq(Values)
      BY <1>2, <1>4, <1>5, Filled_Type
<1> QED
  BY <1>1, <1>3, <1>6 DEF LedgerTypeOK, bit

LEMMA Init_Type == LedgerInit => LedgerTypeOK
<1> SUFFICES ASSUME LedgerInit PROVE LedgerTypeOK
    OBVIOUS
<1>1. <<>> \in Seq(Values)
      OBVIOUS
<1> QED
  BY <1>1 DEF LedgerInit, LedgerTypeOK, LedgerLabels

\* The fields a process resets when it is back.
LEMMA Return_Type ==
  ASSUME LedgerTypeOK, NEW p \in Recorders, Return(p)
  PROVE  /\ at' \in [Recorders -> LedgerLabels]
         /\ handle' \in [Recorders -> Inodes \cup {NoFile}]
         /\ trimmed' \in [Recorders -> Seq(Values)]
         /\ \A q \in Recorders : at'[q] \in {"append", "fill"} => handle'[q] # NoFile
<1>1. <<>> \in Seq(Values)
      OBVIOUS
<1>2. trimmed' \in [Recorders -> Seq(Values)]
      BY <1>1 DEF LedgerTypeOK, Return
<1>3. /\ at' \in [Recorders -> LedgerLabels]
      /\ handle' \in [Recorders -> Inodes \cup {NoFile}]
      BY DEF LedgerTypeOK, Return, Goto, LedgerLabels
<1>4. \A q \in Recorders : at'[q] \in {"append", "fill"} => handle'[q] # NoFile
      BY DEF LedgerTypeOK, Return, Goto
<1> QED
  BY <1>2, <1>3, <1>4

LEMMA Next_Type == LedgerTypeOK /\ [LedgerNext]_ledgerVars => LedgerTypeOK'
<1> SUFFICES ASSUME LedgerTypeOK, [LedgerNext]_ledgerVars PROVE LedgerTypeOK'
    OBVIOUS
<1> USE Constants, UnusedIsFree
<1>e. <<>> \in Seq(Values) /\ Torn \in Values /\ Part \in Values
      BY DEF Values, Hurt
<1>1. CASE UNCHANGED ledgerVars
      BY <1>1 DEF LedgerTypeOK, ledgerVars, histories
<1>2. ASSUME NEW p \in Recorders, OpenAppend(p) PROVE LedgerTypeOK'
      BY <1>2, <1>e, ZenonT(60) DEF LedgerTypeOK, OpenAppend, Goto, LedgerLabels, histories
<1>3. ASSUME NEW p \in Recorders, AppendLine(p) PROVE LedgerTypeOK'
  <2>1. handle[p] \in Inodes
        BY <1>3 DEF LedgerTypeOK, AppendLine
  <2>2. clock' \in Nat /\ clock' \in Values
        BY <1>3 DEF LedgerTypeOK, AppendLine, Values
  <2>3. Put(data[handle[p]], clock') \in Seq(Values) /\ Append(written, clock') \in Seq(Values)
        BY <2>1, <2>2, Put_Type, AppendProperties DEF LedgerTypeOK
  <2>4. data' \in [Inodes -> Seq(Values)]
        BY <1>3, <2>1, <2>3 DEF LedgerTypeOK, AppendLine
  <2>7. written' \in Seq(Values) /\ joined' \in Nat /\ cuts' \in Nat
    <3>1. /\ written' = written \/ written' = Append(written, clock')
          /\ joined' = joined \/ joined' = joined + 1
          /\ cuts' = cuts
          BY <1>3 DEF AppendLine
    <3>2. joined \in Nat /\ cuts \in Nat /\ written \in Seq(Values)
          BY DEF LedgerTypeOK
    <3>3. joined' \in Nat /\ cuts' \in Nat
          BY <3>1, <3>2
    <3>4. written' \in Seq(Values)
          BY <2>3, <3>1, <3>2
    <3> QED
      BY <3>3, <3>4
  <2>5. overlap' \in {"none", "append", "compaction"}
        BY <1>3 DEF LedgerTypeOK, AppendLine, Meets
  <2>6. /\ at' \in [Recorders -> LedgerLabels] /\ handle' \in [Recorders -> Inodes \cup {NoFile}]
        /\ \A q \in Recorders : at'[q] \in {"append", "fill"} => handle'[q] # NoFile
        BY <1>3 DEF LedgerTypeOK, AppendLine, Goto, LedgerLabels
  <2> QED
    BY <1>3, <2>2, <2>4, <2>5, <2>6, <2>7 DEF LedgerTypeOK, AppendLine
<1>4. ASSUME NEW p \in Recorders, ReadLines(p) PROVE LedgerTypeOK'
  <2>1. CASE path # NoFile /\ TooLong(data[path])
    <3>1. Closed(Newest(data[path])) \in Seq(Values)
          BY <2>1, Newest_Type, Closed_Type DEF LedgerTypeOK, TooLong
    <3> QED
      BY <1>4, <2>1, <3>1 DEF LedgerTypeOK, ReadLines, Goto, LedgerLabels, histories
  <2>2. CASE ~(path # NoFile /\ TooLong(data[path]))
    <3>1. Return(p) /\ UNCHANGED <<data, path, tmp, clock, stops, histories, overlap>>
          BY <1>4, <2>2 DEF ReadLines
    <3> QED
      BY <3>1, Return_Type DEF LedgerTypeOK, histories
  <2> QED
    BY <2>1, <2>2
<1>5. ASSUME NEW p \in Recorders, OpenTmp(p) PROVE LedgerTypeOK'
      BY <1>5, <1>e DEF LedgerTypeOK, OpenTmp, Goto, LedgerLabels, histories
<1>6. ASSUME NEW p \in Recorders, FillTmp(p) PROVE LedgerTypeOK'
  <2>1. handle[p] \in Inodes
        BY <1>6 DEF LedgerTypeOK, FillTmp
  <2>2. data[handle[p]] \in Seq(Values) /\ trimmed[p] \in Seq(Values)
        BY <2>1 DEF LedgerTypeOK
  <2>3. data' \in [Inodes -> Seq(Values)]
    <3>1. PICK k \in 1 .. Len(data[handle[p]]) + 1, part \in {<<>>, <<Torn>>} :
            data' = [data EXCEPT ![handle[p]] =
                       trimmed[p] \o part \o SubSeq(data[handle[p]], k, Len(data[handle[p]]))]
          BY <1>6 DEF FillTmp
    <3>2. trimmed[p] \o part \o SubSeq(data[handle[p]], k, Len(data[handle[p]])) \in Seq(Values)
          BY <2>2, Filled_Type
    <3> QED
      BY <3>1, <3>2, <2>1 DEF LedgerTypeOK
  <2> QED
    BY <1>6, <2>3 DEF LedgerTypeOK, FillTmp, Goto, LedgerLabels, histories
<1>7. ASSUME NEW p \in Recorders, Replace(p) PROVE LedgerTypeOK'
  <2>1. overlap' \in {"none", "append", "compaction"}
        BY <1>7 DEF LedgerTypeOK, Replace, Meets
  <2> QED
    BY <1>7, <2>1, Return_Type DEF LedgerTypeOK, Replace, histories
<1>8. ASSUME NEW p \in Recorders, GiveUp(p) PROVE LedgerTypeOK'
  <2>1. stops' \in Nat
        BY <1>8 DEF LedgerTypeOK, GiveUp, Stop
  <2> QED
    BY <1>8, <2>1, Return_Type DEF LedgerTypeOK, GiveUp, histories
<1>10. ASSUME NEW p \in Recorders, CutAppend(p) PROVE LedgerTypeOK'
  <2>1. stops' \in Nat /\ cuts' \in Nat /\ overlap' \in {"none", "append", "compaction"}
        BY <1>10 DEF LedgerTypeOK, CutAppend, Stop, Meets
  <2>2. handle[p] \in Inodes
        BY <1>10 DEF LedgerTypeOK, CutAppend
  <2>3. Put(data[handle[p]], Part) \in Seq(Values) /\ Append(written, Torn) \in Seq(Values)
        BY <1>e, <2>2, Put_Type, AppendProperties DEF LedgerTypeOK
  <2>4. data' \in [Inodes -> Seq(Values)] /\ written' \in Seq(Values)
        BY <1>10, <2>2, <2>3 DEF LedgerTypeOK, CutAppend
  <2>5. Return(p) /\ UNCHANGED <<path, tmp, clock, joined>>
        BY <1>10 DEF CutAppend
  <2> QED
    BY <2>1, <2>4, <2>5, Return_Type DEF LedgerTypeOK
<1>11. ASSUME NEW p \in Recorders, CutFill(p) PROVE LedgerTypeOK'
  <2>1. stops' \in Nat /\ Return(p) /\ UNCHANGED <<path, tmp, clock, histories, overlap>>
        BY <1>11 DEF LedgerTypeOK, CutFill, Stop
  <2>2. data' \in [Inodes -> Seq(Values)]
        BY <1>11, CutFill_Type
  <2> QED
    BY <2>1, <2>2, Return_Type DEF LedgerTypeOK, histories
<1>9. CASE Reset
  <2>1. stops' \in Nat /\ overlap' \in {"none", "append", "compaction"}
        BY <1>9 DEF LedgerTypeOK, Reset, Stop, Meets
  <2> QED
    BY <1>9, <2>1, <1>e DEF LedgerTypeOK, Reset
<1> QED
  BY <1>1, <1>2, <1>3, <1>4, <1>5, <1>6, <1>7, <1>8, <1>9, <1>10, <1>11 DEF LedgerNext

\* Every variable of the ledger keeps its type.
THEOREM LedgerTypeCorrect == LedgerSpec => []LedgerTypeOK
BY Init_Type, Next_Type, PTL DEF LedgerSpec

-----------------------------------------------------------------------------
(* The two names and the files behind them *)

LEMMA Next_Apart == LedgerTypeOK /\ TmpApart /\ [LedgerNext]_ledgerVars => TmpApart'
<1> SUFFICES ASSUME LedgerTypeOK, TmpApart, [LedgerNext]_ledgerVars PROVE TmpApart'
    OBVIOUS
<1> USE Constants, UnusedIsFree DEF TmpApart, Appending
<1>1. CASE UNCHANGED ledgerVars
      BY <1>1 DEF ledgerVars
<1>2. ASSUME NEW p \in Recorders, OpenAppend(p) PROVE TmpApart'
      BY <1>2 DEF LedgerTypeOK, OpenAppend, Goto
<1>3. ASSUME NEW p \in Recorders, AppendLine(p) PROVE TmpApart'
      BY <1>3 DEF LedgerTypeOK, AppendLine, Goto
<1>4. ASSUME NEW p \in Recorders, ReadLines(p) PROVE TmpApart'
      BY <1>4 DEF LedgerTypeOK, ReadLines, Goto, Return
<1>5. ASSUME NEW p \in Recorders, OpenTmp(p) PROVE TmpApart'
      BY <1>5 DEF LedgerTypeOK, OpenTmp, Goto
<1>6. ASSUME NEW p \in Recorders, FillTmp(p) PROVE TmpApart'
      BY <1>6 DEF LedgerTypeOK, FillTmp, Goto
<1>7. ASSUME NEW p \in Recorders, Replace(p) PROVE TmpApart'
      BY <1>7 DEF Replace
<1>8. ASSUME NEW p \in Recorders, GiveUp(p) PROVE TmpApart'
      BY <1>8 DEF LedgerTypeOK, GiveUp, Return, Goto
<1>9. CASE Reset
      BY <1>9 DEF LedgerTypeOK, Reset
<1>10. ASSUME NEW p \in Recorders, CutAppend(p) PROVE TmpApart'
      BY <1>10 DEF LedgerTypeOK, CutAppend, Return, Goto
<1>11. ASSUME NEW p \in Recorders, CutFill(p) PROVE TmpApart'
      BY <1>11 DEF LedgerTypeOK, CutFill, Return, Goto
<1> QED
  BY <1>1, <1>2, <1>3, <1>4, <1>5, <1>6, <1>7, <1>8, <1>9, <1>10, <1>11 DEF LedgerNext

LEMMA Next_Trimmed == LedgerTypeOK /\ TrimmedToSize /\ [LedgerNext]_ledgerVars => TrimmedToSize'
<1> SUFFICES ASSUME LedgerTypeOK, TrimmedToSize, [LedgerNext]_ledgerVars PROVE TrimmedToSize'
    OBVIOUS
<1> USE Constants DEF TrimmedToSize, Compacting
<1>1. CASE UNCHANGED ledgerVars
      BY <1>1 DEF ledgerVars
<1>2. ASSUME NEW p \in Recorders, OpenAppend(p) PROVE TrimmedToSize'
      BY <1>2 DEF LedgerTypeOK, OpenAppend, Goto
<1>3. ASSUME NEW p \in Recorders, AppendLine(p) PROVE TrimmedToSize'
      BY <1>3 DEF LedgerTypeOK, AppendLine, Goto
<1>4. ASSUME NEW p \in Recorders, ReadLines(p) PROVE TrimmedToSize'
  <2>1. CASE path # NoFile /\ TooLong(data[path])
    <3>1. Len(Closed(Newest(data[path]))) = MaxEntries
          BY <2>1, Newest_Type, Closed_Type DEF LedgerTypeOK, TooLong
    <3> QED
      BY <1>4, <2>1, <3>1 DEF LedgerTypeOK, ReadLines, Goto
  <2>2. CASE ~(path # NoFile /\ TooLong(data[path]))
        BY <1>4, <2>2 DEF LedgerTypeOK, ReadLines, Return, Goto
  <2> QED
    BY <2>1, <2>2
<1>5. ASSUME NEW p \in Recorders, OpenTmp(p) PROVE TrimmedToSize'
      BY <1>5 DEF LedgerTypeOK, OpenTmp, Goto
<1>6. ASSUME NEW p \in Recorders, FillTmp(p) PROVE TrimmedToSize'
      BY <1>6 DEF LedgerTypeOK, FillTmp, Goto
<1>7. ASSUME NEW p \in Recorders, Replace(p) PROVE TrimmedToSize'
      BY <1>7 DEF LedgerTypeOK, Replace, Return, Goto
<1>8. ASSUME NEW p \in Recorders, GiveUp(p) PROVE TrimmedToSize'
      BY <1>8 DEF LedgerTypeOK, GiveUp, Return, Goto
<1>9. CASE Reset
      BY <1>9 DEF Reset
<1>10. ASSUME NEW p \in Recorders, CutAppend(p) PROVE TrimmedToSize'
      BY <1>10 DEF LedgerTypeOK, CutAppend, Return, Goto
<1>11. ASSUME NEW p \in Recorders, CutFill(p) PROVE TrimmedToSize'
      BY <1>11 DEF LedgerTypeOK, CutFill, Return, Goto
<1> QED
  BY <1>1, <1>2, <1>3, <1>4, <1>5, <1>6, <1>7, <1>8, <1>9, <1>10, <1>11 DEF LedgerNext

\* Into an empty file the lines go as they are.
LEMMA FilledWhenEmpty ==
  ASSUME LedgerTypeOK, NEW p \in Recorders, FillTmp(p), data[handle[p]] = <<>>
  PROVE  data' = [data EXCEPT ![handle[p]] = trimmed[p]]
<1>1. PICK k \in 1 .. Len(data[handle[p]]) + 1, part \in {<<>>, <<Torn>>} :
        /\ k = 1 => part = <<>>
        /\ data' = [data EXCEPT ![handle[p]] =
                     trimmed[p] \o part \o SubSeq(data[handle[p]], k, Len(data[handle[p]]))]
      BY DEF FillTmp
<1>2. k = 1 /\ part = <<>>
      BY <1>1
<1>3. SubSeq(data[handle[p]], k, Len(data[handle[p]])) = <<>>
      BY <1>2, SubSeqEmpty
<1>4. trimmed[p] \in Seq(Values)
      BY DEF LedgerTypeOK
<1>5. trimmed[p] \o <<>> \o <<>> = trimmed[p]
      BY <1>4, ConcatEmptySeq
<1> QED
  BY <1>1, <1>2, <1>3, <1>5

LEMMA Next_Owned ==
  LedgerTypeOK /\ TmpApart /\ TmpOwned /\ [LedgerNext]_ledgerVars => TmpOwned'
<1> SUFFICES ASSUME LedgerTypeOK, TmpApart, TmpOwned, [LedgerNext]_ledgerVars, overlap' # "compaction"
             PROVE  TmpOwned'
    BY DEF TmpOwned
<1> USE Constants, UnusedIsFree DEF TmpOwned, Compacting
<1>1. CASE UNCHANGED ledgerVars
      BY <1>1 DEF ledgerVars
<1>2. ASSUME NEW p \in Recorders, OpenAppend(p) PROVE TmpOwned'
      BY <1>2, ZenonT(60) DEF LedgerTypeOK, OpenAppend, Goto
<1>3. ASSUME NEW p \in Recorders, AppendLine(p) PROVE TmpOwned'
  <2>1. overlap # "compaction" /\ (tmp # NoFile => handle[p] # tmp)
        BY <1>3 DEF AppendLine, Meets, TmpApart, Appending
  <2>2. tmp # NoFile => data'[tmp] = data[tmp]
        BY <1>3, <2>1 DEF LedgerTypeOK, AppendLine
  <2> QED
    BY <1>3, <2>1, <2>2 DEF LedgerTypeOK, AppendLine, Goto
<1>4. ASSUME NEW p \in Recorders, ReadLines(p) PROVE TmpOwned'
  <2>1. CASE path # NoFile /\ TooLong(data[path])
    <3>1. Compacting = {} /\ at' = [at EXCEPT ![p] = "open tmp"]
          BY <1>4, <2>1 DEF ReadLines, Goto
    <3>2. \A q \in Recorders : at'[q] \in {"open tmp", "fill", "replace"} => q = p
          BY <3>1 DEF LedgerTypeOK
    <3> QED
      BY <3>1, <3>2 DEF LedgerTypeOK
  <2>2. CASE ~(path # NoFile /\ TooLong(data[path]))
        BY <1>4, <2>2, ZenonT(60) DEF LedgerTypeOK, ReadLines, Return, Goto
  <2> QED
    BY <2>1, <2>2
<1>5. ASSUME NEW p \in Recorders, OpenTmp(p) PROVE TmpOwned'
      BY <1>5 DEF LedgerTypeOK, OpenTmp, Goto
<1>6. ASSUME NEW p \in Recorders, FillTmp(p) PROVE TmpOwned'
  <2>1. overlap # "compaction" /\ tmp # NoFile /\ handle[p] = tmp /\ data[tmp] = <<>>
        BY <1>6 DEF FillTmp
  <2>2. data' = [data EXCEPT ![tmp] = trimmed[p]]
        BY <1>6, <2>1, FilledWhenEmpty
  <2> QED
    BY <1>6, <2>1, <2>2, ZenonT(60) DEF LedgerTypeOK, FillTmp, Goto
<1>7. ASSUME NEW p \in Recorders, Replace(p) PROVE TmpOwned'
      BY <1>7 DEF LedgerTypeOK, Replace, Return, Goto, Meets
<1>8. ASSUME NEW p \in Recorders, GiveUp(p) PROVE TmpOwned'
      BY <1>8 DEF LedgerTypeOK, GiveUp, Return, Goto
<1>9. CASE Reset
      BY <1>9 DEF Reset, Meets
<1>10. ASSUME NEW p \in Recorders, CutAppend(p) PROVE TmpOwned'
  <2>1. overlap # "compaction" /\ (tmp # NoFile => handle[p] # tmp)
        BY <1>10 DEF CutAppend, Meets, TmpApart, Appending
  <2>2. tmp # NoFile => data'[tmp] = data[tmp]
        BY <1>10, <2>1 DEF LedgerTypeOK, CutAppend
  <2> QED
    BY <1>10, <2>1, <2>2 DEF LedgerTypeOK, CutAppend, Return, Goto
<1>11. ASSUME NEW p \in Recorders, CutFill(p) PROVE TmpOwned'
  <2>1. \A q \in Recorders : at[q] \in {"open tmp", "fill", "replace"} => q = p
        BY <1>11 DEF CutFill
  <2>2. \A q \in Recorders : at'[q] \notin {"open tmp", "fill", "replace"}
        BY <1>11, <2>1 DEF LedgerTypeOK, CutFill, Return, Goto
  <2> QED
    BY <2>2
<1> QED
  BY <1>1, <1>2, <1>3, <1>4, <1>5, <1>6, <1>7, <1>8, <1>9, <1>10, <1>11 DEF LedgerNext

-----------------------------------------------------------------------------
(* The order of the lines *)

LEMMA InOrder_Later ==
  ASSUME NEW lines, NEW now \in Nat, NEW later \in Nat, now <= later,
         NEW cut \in Nat, NEW more \in Nat, cut <= more, InOrder(lines, now, cut)
  PROVE  InOrder(lines, later, more)
<1>1. \A x \in 1 .. now : x \in 1 .. later
      OBVIOUS
<1>2. cut > 0 => more > 0
      OBVIOUS
<1> QED
  BY <1>1, <1>2, ZenonT(30) DEF InOrder

\* A line that is later than all others, or the part of one.
LEMMA InOrder_Put ==
  ASSUME NEW lines \in Seq(Values), NEW now \in Nat, NEW later \in Nat, now <= later,
         NEW cut \in Nat, NEW more \in Nat, cut <= more, InOrder(lines, now, cut),
         NEW line \in Values, (line = Part /\ more > 0) \/ (line = later /\ later > now)
  PROVE  InOrder(Put(lines, line), later, more)
<1> DEFINE all == Put(lines, line)
           n == Len(lines)
<1>1. n \in Nat /\ InOrder(lines, later, more)
      BY LenProperties, InOrder_Later
<1>2. \A x \in 1 .. later : x \notin Hurt
      BY Constants DEF Hurt
<1>3. \A j \in 1 .. n : \/ lines[j] \in Hurt /\ more > 0
                        \/ /\ lines[j] \in 1 .. now
                           /\ \A i \in 1 .. n : i < j => lines[i] \in Hurt \/ lines[i] < lines[j]
  <2>1. cut > 0 => more > 0
        OBVIOUS
  <2> QED
    BY <2>1 DEF InOrder
<1>4. CASE Open(lines)
  <2>1. /\ Len(all) = n /\ n \in 1 .. n /\ lines[n] = Part
        /\ all[n] = IF line = Part THEN Part ELSE Torn
        /\ \A i \in 1 .. n : i # n => all[i] = lines[i]
        BY <1>4, Put_Type
  <2> HIDE DEF all
  <2>2. all[n] \in Hurt /\ more > 0
        BY <1>2, <1>3, <2>1, Constants DEF Hurt
  <2>3. ASSUME NEW j \in 1 .. n
        PROVE  \/ all[j] \in Hurt /\ more > 0
               \/ /\ all[j] \in 1 .. later
                  /\ \A i \in 1 .. n : i < j => all[i] \in Hurt \/ all[i] < all[j]
    <3>1. CASE j = n \/ lines[j] \in Hurt
          BY <2>1, <2>2, <3>1
    <3>2. CASE j # n /\ lines[j] \notin Hurt
      <4>1. all[j] = lines[j] /\ lines[j] \in 1 .. now
            BY <1>3, <2>1, <3>2
      <4>2. \A i \in 1 .. n : i < j => i # n
            BY <1>1
      <4>3. \A i \in 1 .. n : i < j => all[i] \in Hurt \/ all[i] < all[j]
            BY <1>3, <2>1, <3>2, <4>1, <4>2
      <4>4. all[j] \in 1 .. later
            BY <4>1
      <4> QED
        BY <4>3, <4>4
    <3> QED
      BY <3>1, <3>2
  <2>4. InOrder(all, later, more)
        BY <2>1, <2>3 DEF InOrder
  <2> QED
    BY <2>4 DEF all
<1>5. CASE ~Open(lines)
  <2>1. /\ Len(all) = n + 1 /\ all[n + 1] = line
        /\ \A i \in 1 .. n : all[i] = lines[i]
        BY <1>5, Put_Type
  <2> HIDE DEF all
  <2>2. \A i \in 1 .. n : all[i] \in Hurt \/ all[i] \in 1 .. now
        BY <1>3, <2>1
  <2>3. ASSUME NEW j \in 1 .. n + 1
        PROVE  \/ all[j] \in Hurt /\ more > 0
               \/ /\ all[j] \in 1 .. later
                  /\ \A i \in 1 .. n + 1 : i < j => all[i] \in Hurt \/ all[i] < all[j]
    <3>1. \A i \in 1 .. n + 1 : i < j => i \in 1 .. n
          BY <1>1
    <3>2. CASE j = n + 1 /\ line = Part
          BY <2>1, <3>2, Constants DEF Hurt
    <3>3. CASE j = n + 1 /\ line # Part
      <4>1. all[j] = later /\ later \in 1 .. later
            BY <2>1, <3>3
      <4>2. \A x \in 1 .. now : x < later
            BY <3>3
      <4> QED
        BY <2>2, <3>1, <4>1, <4>2
    <3>4. CASE j # n + 1
      <4>1. j \in 1 .. n /\ all[j] = lines[j]
            BY <1>1, <2>1, <3>4
      <4>2. \A x \in 1 .. now : x \in 1 .. later
            OBVIOUS
      <4> QED
        BY <1>3, <2>1, <3>1, <4>1, <4>2
    <3> QED
      BY <3>2, <3>3, <3>4
  <2>4. InOrder(all, later, more)
        BY <2>1, <2>3 DEF InOrder
  <2> QED
    BY <2>4 DEF all
<1> QED
  BY <1>4, <1>5

LEMMA InOrder_Newest ==
  ASSUME NEW lines \in Seq(Values), NEW now \in Nat, NEW cut \in Nat, InOrder(lines, now, cut),
         Len(lines) > CompactAt
  PROVE  InOrder(Closed(Newest(lines)), now, cut)
<1> DEFINE last == Newest(lines)
           read == Closed(last)
<1>1. /\ last \in Seq(Values) /\ Len(last) = MaxEntries
      /\ \A i \in 1 .. MaxEntries :
           /\ Len(lines) - MaxEntries + i \in 1 .. Len(lines)
           /\ last[i] = lines[Len(lines) - MaxEntries + i]
      BY Newest_Type
<1> HIDE DEF last
<1>2. /\ Len(read) = MaxEntries
      /\ \A i \in 1 .. MaxEntries : read[i] = IF last[i] = Part THEN Torn ELSE last[i]
      BY <1>1, Closed_Type
<1> HIDE DEF read
<1>3. Len(lines) \in Nat /\ MaxEntries \in Nat
      BY Constants, LenProperties
<1>4. \A i \in 1 .. MaxEntries : /\ last[i] \in Hurt => read[i] \in Hurt
                                 /\ last[i] \notin Hurt => read[i] = last[i]
      BY <1>2 DEF Hurt
<1>5. ASSUME NEW j \in 1 .. MaxEntries
      PROVE  \/ read[j] \in Hurt /\ cut > 0
             \/ /\ read[j] \in 1 .. now
                /\ \A i \in 1 .. MaxEntries : i < j => read[i] \in Hurt \/ read[i] < read[j]
  <2> DEFINE at_(i) == Len(lines) - MaxEntries + i
  <2>1. \A i \in 1 .. MaxEntries : at_(i) \in 1 .. Len(lines) /\ last[i] = lines[at_(i)]
        BY <1>1
  <2>2. \A i \in 1 .. MaxEntries : i < j => at_(i) < at_(j)
        BY <1>3
  <2> HIDE DEF at_
  <2>3. \/ lines[at_(j)] \in Hurt /\ cut > 0
        \/ /\ lines[at_(j)] \in 1 .. now
           /\ \A k \in 1 .. Len(lines) : k < at_(j) => lines[k] \in Hurt \/ lines[k] < lines[at_(j)]
        BY <2>1 DEF InOrder
  <2>4. CASE last[j] \in Hurt
    <3>1. \A x \in 1 .. now : x \notin Hurt
          BY Constants DEF Hurt
    <3> QED
      BY <1>4, <2>1, <2>3, <2>4, <3>1
  <2>5. CASE last[j] \notin Hurt
    <3>1. read[j] \in 1 .. now /\ read[j] = lines[at_(j)]
          BY <1>4, <2>1, <2>3, <2>5
    <3>2. \A i \in 1 .. MaxEntries : i < j => last[i] \in Hurt \/ last[i] < read[j]
          BY <2>1, <2>2, <2>3, <2>5, <3>1
    <3>3. \A i \in 1 .. MaxEntries : i < j => read[i] \in Hurt \/ read[i] < read[j]
          BY <1>4, <3>2
    <3> QED
      BY <3>1, <3>3
  <2> QED
    BY <2>4, <2>5
<1>6. InOrder(read, now, cut)
      BY <1>2, <1>5 DEF InOrder
<1> QED
  BY <1>6 DEF read, last

LEMMA Next_Order ==
  LedgerTypeOK /\ TmpApart /\ TmpOwned /\ OrderKept /\ [LedgerNext]_ledgerVars => OrderKept'
<1> SUFFICES ASSUME LedgerTypeOK, TmpApart, TmpOwned, OrderKept, [LedgerNext]_ledgerVars,
                    overlap' # "compaction"
             PROVE  /\ path' # NoFile => InOrder(data'[path'], clock', cuts')
                    /\ \A q \in Compacting' : InOrder(trimmed'[q], clock', cuts')
    BY DEF OrderKept
<1> USE Constants, UnusedIsFree
<1> DEFINE Goal == /\ path' # NoFile => InOrder(data'[path'], clock', cuts')
                   /\ \A q \in Compacting' : InOrder(trimmed'[q], clock', cuts')
<1>e. \A now, cut : InOrder(<<>>, now, cut)
      BY DEF InOrder
<1>0. overlap # "compaction"
      BY DEF LedgerNext, OpenAppend, AppendLine, ReadLines, OpenTmp, FillTmp, Replace,
             GiveUp, CutAppend, CutFill, Reset, Meets, ledgerVars
<1>1. CASE UNCHANGED ledgerVars
      BY <1>0, <1>1 DEF ledgerVars, histories, OrderKept, Compacting
<1>2. ASSUME NEW p \in Recorders, OpenAppend(p) PROVE Goal
  <2>1. clock' = clock /\ cuts' = cuts /\ trimmed' = trimmed /\ Compacting' = Compacting
        BY <1>2 DEF LedgerTypeOK, OpenAppend, Goto, Compacting, histories
  <2>2. CASE path = NoFile
    <3>1. data'[path'] = <<>>
          BY <1>2, <2>2 DEF LedgerTypeOK, OpenAppend
    <3> QED
      BY <1>0, <1>e, <2>1, <3>1 DEF OrderKept
  <2>3. CASE path # NoFile
        BY <1>0, <1>2, <2>1, <2>3 DEF OpenAppend, OrderKept
  <2> QED
    BY <2>2, <2>3
<1>3. ASSUME NEW p \in Recorders, AppendLine(p) PROVE Goal
  <2>1. /\ path' = path /\ clock' = clock + 1 /\ cuts' = cuts
        /\ clock \in Nat /\ clock + 1 \in Nat /\ cuts \in Nat /\ cuts \in Nat /\ clock + 1 \in Values
        BY <1>3 DEF LedgerTypeOK, AppendLine, Values, Hurt
  <2>2. data' = [data EXCEPT ![handle[p]] = Put(data[handle[p]], clock + 1)]
        BY <1>3 DEF AppendLine
  <2>3. path # NoFile => InOrder(data'[path], clock + 1, cuts)
    <3> SUFFICES ASSUME path # NoFile PROVE InOrder(data'[path], clock + 1, cuts)
        OBVIOUS
    <3>1. path \in Inodes /\ data[path] \in Seq(Values) /\ InOrder(data[path], clock, cuts)
          BY <1>0 DEF LedgerTypeOK, OrderKept
    <3>2. InOrder(Put(data[path], clock + 1), clock + 1, cuts)
          BY <2>1, <3>1, InOrder_Put
    <3>3. InOrder(data[path], clock + 1, cuts)
          BY <2>1, <3>1, InOrder_Later
    <3>4. CASE handle[p] = path
          BY <2>2, <3>1, <3>2, <3>4 DEF LedgerTypeOK
    <3>5. CASE handle[p] # path
          BY <2>2, <3>1, <3>3, <3>5 DEF LedgerTypeOK
    <3> QED
      BY <3>4, <3>5
  <2>4. ASSUME NEW q \in Compacting' PROVE InOrder(trimmed'[q], clock + 1, cuts)
    <3>1. q \in Compacting /\ trimmed'[q] = trimmed[q]
          BY <1>3 DEF LedgerTypeOK, AppendLine, Return, Goto, Compacting
    <3>2. InOrder(trimmed[q], clock, cuts)
          BY <1>0, <3>1 DEF OrderKept
    <3> QED
      BY <2>1, <3>1, <3>2, InOrder_Later
  <2> QED
    BY <2>1, <2>3, <2>4
<1>4. ASSUME NEW p \in Recorders, ReadLines(p) PROVE Goal
  <2>1. UNCHANGED <<data, path, clock, cuts>>
        BY <1>4 DEF ReadLines, histories
  <2>2. CASE path # NoFile /\ TooLong(data[path])
    <3>1. /\ data[path] \in Seq(Values) /\ Len(data[path]) > CompactAt
          /\ clock \in Nat /\ cuts \in Nat
          BY <2>2 DEF LedgerTypeOK, TooLong
    <3>2. InOrder(Closed(Newest(data[path])), clock, cuts)
          BY <1>0, <2>2, <3>1, InOrder_Newest DEF OrderKept
    <3>3. \A q \in Compacting' : q = p \/ q \in Compacting
          BY <1>4, <2>2 DEF LedgerTypeOK, ReadLines, Goto, Compacting
    <3>4. /\ trimmed'[p] = Closed(Newest(data[path]))
          /\ \A q \in Recorders : q # p => trimmed'[q] = trimmed[q]
          BY <1>4, <2>2 DEF LedgerTypeOK, ReadLines
    <3> QED
      BY <1>0, <2>1, <3>2, <3>3, <3>4 DEF OrderKept, Compacting
  <2>3. CASE ~(path # NoFile /\ TooLong(data[path]))
    <3>1. \A q \in Compacting' : q \in Compacting /\ trimmed'[q] = trimmed[q]
          BY <1>4, <2>3 DEF LedgerTypeOK, ReadLines, Return, Goto, Compacting
    <3> QED
      BY <1>0, <2>1, <3>1 DEF OrderKept
  <2> QED
    BY <2>2, <2>3
<1>5. ASSUME NEW p \in Recorders, OpenTmp(p) PROVE Goal
      BY <1>0, <1>5 DEF LedgerTypeOK, OpenTmp, Goto, OrderKept, Compacting, TmpApart, histories
<1>6. ASSUME NEW p \in Recorders, FillTmp(p) PROVE Goal
  <2>1. handle[p] # path
        BY <1>0, <1>6 DEF FillTmp, TmpOwned, TmpApart, Compacting
  <2>2. path # NoFile => data'[path] = data[path]
        BY <1>6, <2>1 DEF LedgerTypeOK, FillTmp
  <2> QED
    BY <1>0, <1>6, <2>2 DEF LedgerTypeOK, FillTmp, Goto, OrderKept, Compacting, histories
<1>7. ASSUME NEW p \in Recorders, Replace(p) PROVE Goal
  <2>1. p \in Compacting /\ tmp # NoFile /\ data[tmp] = trimmed[p]
        BY <1>0, <1>7 DEF Replace, TmpOwned, Compacting
  <2>2. path' = tmp /\ data' = data /\ clock' = clock /\ cuts' = cuts
        BY <1>7, <2>1 DEF Replace, histories
  <2>3. \A q \in Compacting' : q \in Compacting /\ q # p
        BY <1>7 DEF LedgerTypeOK, Replace, Return, Goto, Compacting
  <2> QED
    BY <1>0, <2>1, <2>2, <2>3 DEF OrderKept, TmpOwned
<1>8. ASSUME NEW p \in Recorders, GiveUp(p) PROVE Goal
      BY <1>0, <1>8 DEF LedgerTypeOK, GiveUp, Return, Goto, OrderKept, Compacting, histories
<1>9. CASE Reset
      BY <1>0, <1>9 DEF Reset, OrderKept, Compacting
<1>10. ASSUME NEW p \in Recorders, CutAppend(p) PROVE Goal
  <2>1. /\ path' = path /\ clock' = clock /\ cuts' = cuts + 1
        /\ clock \in Nat /\ clock \in Nat /\ cuts \in Nat /\ cuts + 1 \in Nat /\ Part \in Values
        BY <1>10 DEF LedgerTypeOK, CutAppend, Values, Hurt
  <2>2. data' = [data EXCEPT ![handle[p]] = Put(data[handle[p]], Part)]
        BY <1>10 DEF CutAppend
  <2>3. path # NoFile => InOrder(data'[path], clock, cuts + 1)
    <3> SUFFICES ASSUME path # NoFile PROVE InOrder(data'[path], clock, cuts + 1)
        OBVIOUS
    <3>1. path \in Inodes /\ data[path] \in Seq(Values) /\ InOrder(data[path], clock, cuts)
          BY <1>0 DEF LedgerTypeOK, OrderKept
    <3>2. InOrder(Put(data[path], Part), clock, cuts + 1)
      <4>1. clock <= clock /\ cuts <= cuts + 1 /\ cuts + 1 > 0
            BY <2>1
      <4> QED
        BY <2>1, <3>1, <4>1, InOrder_Put
    <3>3. InOrder(data[path], clock, cuts + 1)
          BY <2>1, <3>1, InOrder_Later
    <3>4. CASE handle[p] = path
          BY <2>2, <3>1, <3>2, <3>4 DEF LedgerTypeOK
    <3>5. CASE handle[p] # path
          BY <2>2, <3>1, <3>3, <3>5 DEF LedgerTypeOK
    <3> QED
      BY <3>4, <3>5
  <2>4. ASSUME NEW q \in Compacting' PROVE InOrder(trimmed'[q], clock, cuts + 1)
    <3>1. q \in Compacting /\ trimmed'[q] = trimmed[q]
          BY <1>10 DEF LedgerTypeOK, CutAppend, Return, Goto, Compacting
    <3>2. InOrder(trimmed[q], clock, cuts)
          BY <1>0, <3>1 DEF OrderKept
    <3> QED
      BY <2>1, <3>1, <3>2, InOrder_Later
  <2> QED
    BY <2>1, <2>3, <2>4
<1>11. ASSUME NEW p \in Recorders, CutFill(p) PROVE Goal
  <2>1. handle[p] # path
        BY <1>0, <1>11 DEF CutFill, TmpOwned, TmpApart, Compacting
  <2>2. path # NoFile => data'[path] = data[path]
        BY <1>11, <2>1, CutFill_Type DEF LedgerTypeOK
  <2>3. path' = path /\ clock' = clock /\ cuts' = cuts
        BY <1>11 DEF CutFill, histories
  <2>4. \A q \in Compacting' : q \in Compacting /\ trimmed'[q] = trimmed[q]
        BY <1>11 DEF LedgerTypeOK, CutFill, Return, Goto, Compacting
  <2> QED
    BY <1>0, <2>2, <2>3, <2>4 DEF OrderKept
<1> QED
  BY <1>1, <1>2, <1>3, <1>4, <1>5, <1>6, <1>7, <1>8, <1>9, <1>10, <1>11 DEF LedgerNext

-----------------------------------------------------------------------------
(* The length of the ledger *)

LEMMA Next_Seen ==
  LedgerTypeOK /\ TmpApart /\ TrimmedToSize /\ TmpOwned /\ TooLongIsSeen /\ [LedgerNext]_ledgerVars
    => TooLongIsSeen'
<1> DEFINE Seen == \/ Len(data'[path']) <= CompactAt
                   \/ \E q \in Recorders : at'[q] \in {"read", "open tmp", "fill", "replace"}
<1> SUFFICES ASSUME LedgerTypeOK, TmpApart, TrimmedToSize, TmpOwned, TooLongIsSeen, [LedgerNext]_ledgerVars,
                    stops' = 0, overlap' # "compaction", path' # NoFile
             PROVE  Seen
    BY DEF TooLongIsSeen, Compacting
<1> USE Constants, UnusedIsFree
<1>0. overlap # "compaction" /\ stops = 0
  <2>1. overlap # "compaction"
        BY DEF LedgerNext, OpenAppend, AppendLine, ReadLines, OpenTmp, FillTmp, Replace,
               GiveUp, CutAppend, CutFill, Reset, Meets, ledgerVars
  <2>2. stops' = stops \/ stops' = stops + 1
        BY DEF LedgerNext, OpenAppend, AppendLine, ReadLines, OpenTmp, FillTmp,
               Replace, GiveUp, CutAppend, CutFill, Reset, Stop, ledgerVars
  <2>3. stops \in Nat
        BY DEF LedgerTypeOK
  <2> QED
    BY <2>1, <2>2, <2>3
<1>h. path # NoFile =>
        \/ Len(data[path]) <= CompactAt
        \/ \E q \in Recorders : at[q] \in {"read", "open tmp", "fill", "replace"}
      BY <1>0 DEF TooLongIsSeen, Compacting
<1>1. CASE UNCHANGED ledgerVars
      BY <1>1, <1>h DEF ledgerVars
<1>2. ASSUME NEW p \in Recorders, OpenAppend(p) PROVE Seen
  <2>1. CASE path = NoFile
    <3>1. data'[path'] = <<>>
          BY <1>2, <2>1 DEF LedgerTypeOK, OpenAppend
    <3>2. Len(data'[path']) <= CompactAt
          BY ONLY <3>1, Constants
    <3> QED
      BY <3>2
  <2>2. CASE path # NoFile
        BY <1>2, <1>h, <2>2 DEF LedgerTypeOK, OpenAppend, Goto
  <2> QED
    BY <2>1, <2>2
<1>3. ASSUME NEW p \in Recorders, AppendLine(p) PROVE Seen
      BY <1>3 DEF LedgerTypeOK, AppendLine, Goto
<1>4. ASSUME NEW p \in Recorders, ReadLines(p) PROVE Seen
  <2>1. CASE TooLong(data[path])
        BY <1>4, <2>1 DEF LedgerTypeOK, ReadLines, Goto
  <2>2. CASE ~TooLong(data[path])
    <3>1. path \in Inodes /\ Len(data[path]) \in Nat
          BY <1>4, LenProperties DEF LedgerTypeOK, ReadLines
    <3>2. Len(data[path]) <= CompactAt
          BY <2>2, <3>1 DEF TooLong
    <3>3. data'[path'] = data[path]
          BY <1>4 DEF ReadLines
    <3> QED
      BY <3>2, <3>3
  <2> QED
    BY <2>1, <2>2
<1>5. ASSUME NEW p \in Recorders, OpenTmp(p) PROVE Seen
      BY <1>5 DEF LedgerTypeOK, OpenTmp, Goto
<1>6. ASSUME NEW p \in Recorders, FillTmp(p) PROVE Seen
      BY <1>6 DEF LedgerTypeOK, FillTmp, Goto
<1>7. ASSUME NEW p \in Recorders, Replace(p) PROVE Seen
  <2>1. path' = tmp /\ data'[tmp] = trimmed[p] /\ Len(trimmed[p]) = MaxEntries
        BY <1>0, <1>7 DEF Replace, TmpOwned, Compacting, TrimmedToSize
  <2> QED
    BY <2>1
<1>8. ASSUME NEW p \in Recorders, GiveUp(p) PROVE FALSE
      BY <1>0, <1>8 DEF GiveUp, Stop
<1>9. CASE Reset
      BY <1>9 DEF Reset
<1>10. ASSUME NEW p \in Recorders, CutAppend(p) PROVE FALSE
      BY <1>0, <1>10 DEF CutAppend, Stop
<1>11. ASSUME NEW p \in Recorders, CutFill(p) PROVE FALSE
      BY <1>0, <1>11 DEF CutFill, Stop
<1> QED
  BY <1>1, <1>2, <1>3, <1>4, <1>5, <1>6, <1>7, <1>8, <1>9, <1>10, <1>11 DEF LedgerNext

-----------------------------------------------------------------------------
(* A ledger that no overlap has touched *)

LEMMA EndOf_Append ==
  ASSUME NEW s \in Seq(Values), NEW t \in Seq(Values), NEW x \in Values, EndOf(s, t)
  PROVE  EndOf(Append(s, x), Append(t, x))
<1>1. Len(s) \in Nat /\ Len(t) \in Nat /\ Len(s) <= Len(t)
      BY LenProperties DEF EndOf
<1>2. /\ Len(Append(s, x)) = Len(s) + 1 /\ Append(s, x)[Len(s) + 1] = x
      /\ \A i \in 1 .. Len(s) : Append(s, x)[i] = s[i]
      BY <1>1, AppendProperties
<1>3. /\ Len(Append(t, x)) = Len(t) + 1 /\ Append(t, x)[Len(t) + 1] = x
      /\ \A i \in 1 .. Len(t) : Append(t, x)[i] = t[i]
      BY <1>1, AppendProperties
<1>4. ASSUME NEW i \in 1 .. Len(s) + 1
      PROVE  Append(s, x)[i] = Append(t, x)[Len(t) + 1 - (Len(s) + 1) + i]
  <2>1. CASE i = Len(s) + 1
    <3>1. Len(t) + 1 - (Len(s) + 1) + i = Len(t) + 1
          BY <1>1, <2>1
    <3> QED
      BY <1>2, <1>3, <2>1, <3>1
  <2>2. CASE i \in 1 .. Len(s)
    <3>1. /\ Len(t) + 1 - (Len(s) + 1) + i = Len(t) - Len(s) + i
          /\ Len(t) - Len(s) + i \in 1 .. Len(t)
          BY <1>1, <2>2
    <3>2. s[i] = t[Len(t) - Len(s) + i]
          BY <2>2 DEF EndOf
    <3> QED
      BY <1>2, <1>3, <2>2, <3>1, <3>2
  <2> QED
    BY <1>1, <2>1, <2>2, SMTT(40)
<1> DEFINE s1 == Append(s, x)
           t1 == Append(t, x)
<1>5. \A i \in 1 .. Len(s1) : s1[i] = t1[Len(t1) - Len(s1) + i]
  <2>1. Len(s1) = Len(s) + 1 /\ Len(t1) = Len(t) + 1
        BY <1>2, <1>3
  <2>2. \A i \in 1 .. Len(s) + 1 : s1[i] = t1[Len(t) + 1 - (Len(s) + 1) + i]
        BY <1>4
  <2> HIDE DEF s1, t1
  <2> QED
    BY <2>1, <2>2
<1>6. Len(s1) <= Len(t1)
      BY <1>1, <1>2, <1>3
<1> HIDE DEF s1, t1
<1>7. EndOf(s1, t1)
      BY <1>5, <1>6 DEF EndOf
<1> QED
  BY <1>7 DEF s1, t1

LEMMA EndOf_Newest ==
  ASSUME NEW s \in Seq(Values), NEW t \in Seq(Values), EndOf(Closed(s), t), Len(s) > CompactAt
  PROVE  EndOf(Closed(Newest(s)), t)
<1>1. /\ Newest(s) \in Seq(Values) /\ Len(Newest(s)) = MaxEntries
      /\ \A i \in 1 .. MaxEntries :
           /\ Len(s) - MaxEntries + i \in 1 .. Len(s)
           /\ Newest(s)[i] = s[Len(s) - MaxEntries + i]
      BY Newest_Type
<1>2. /\ Len(Closed(s)) = Len(s)
      /\ \A i \in 1 .. Len(s) : Closed(s)[i] = IF s[i] = Part THEN Torn ELSE s[i]
      BY Closed_Type
<1>3. /\ Len(Closed(Newest(s))) = MaxEntries
      /\ \A i \in 1 .. MaxEntries :
           Closed(Newest(s))[i] = IF Newest(s)[i] = Part THEN Torn ELSE Newest(s)[i]
      BY <1>1, Closed_Type
<1>4. Len(s) \in Nat /\ Len(t) \in Nat /\ Len(s) <= Len(t) /\ MaxEntries <= Len(s)
      /\ MaxEntries \in Nat
      BY <1>2, Constants, LenProperties DEF EndOf
<1>5. ASSUME NEW i \in 1 .. MaxEntries
      PROVE  Closed(Newest(s))[i] = t[Len(t) - MaxEntries + i]
  <2>1. Closed(s)[Len(s) - MaxEntries + i] = t[Len(t) - Len(s) + (Len(s) - MaxEntries + i)]
        BY <1>1, <1>2 DEF EndOf
  <2>2. Len(t) - Len(s) + (Len(s) - MaxEntries + i) = Len(t) - MaxEntries + i
        BY <1>4
  <2>3. Closed(Newest(s))[i] = Closed(s)[Len(s) - MaxEntries + i]
        BY <1>1, <1>2, <1>3
  <2> QED
    BY <2>1, <2>2, <2>3
<1> QED
  BY <1>3, <1>4, <1>5 DEF EndOf

LEMMA Lines_Type == LedgerTypeOK => Lines \in Seq(Values)
<1>1. <<>> \in Seq(Values)
      OBVIOUS
<1> QED
  BY <1>1 DEF LedgerTypeOK, Lines

\* A line that is written to the ledger: behind a part it is lost, and owed by it.
LEMMA Complete_Put ==
  ASSUME LedgerTypeOK, Complete, NEW line \in Values, line # Torn, line # Part,
         Lines' = Put(Lines, line), cuts' = cuts,
         Open(Lines) => written' = written /\ joined' = joined + 1,
         ~Open(Lines) => written' = Append(written, line) /\ joined' = joined
  PROVE  Complete'
<1>1. /\ Lines \in Seq(Values) /\ Len(Lines) \in Nat /\ written \in Seq(Values)
      /\ joined \in Nat /\ cuts \in Nat
      BY Lines_Type, LenProperties DEF LedgerTypeOK
<1>2. Closed(Lines') = IF Open(Lines) THEN Closed(Lines) ELSE Append(Closed(Lines), line)
      BY <1>1, Closed_Put
<1>3. Lines' \in Seq(Values) /\ Len(Lines') = IF Open(Lines) THEN Len(Lines) ELSE Len(Lines) + 1
      BY <1>1, Put_Type
<1>4. ~Open(Lines')
  <2>1. Lines'[Len(Lines')] # Part
    <3>1. CASE Open(Lines)
      <4>1. Put(Lines, line)[Len(Lines)] = Torn /\ Len(Put(Lines, line)) = Len(Lines)
            BY <1>1, <3>1, Put_Type
      <4> QED
        BY <4>1, Constants
    <3>2. CASE ~Open(Lines)
      <4>1. Put(Lines, line)[Len(Lines) + 1] = line /\ Len(Put(Lines, line)) = Len(Lines) + 1
            BY <1>1, <3>2, Put_Type
      <4> QED
        BY <4>1
    <3> QED
      BY <3>1, <3>2
  <2> QED
    BY <2>1 DEF Open
<1>5. EndOf(Closed(Lines'), written')
  <2>1. CASE Open(Lines)
        BY <1>2, <2>1 DEF Complete
  <2>2. CASE ~Open(Lines)
        BY <1>1, <1>2, <2>2, Closed_Type, EndOf_Append DEF Complete
  <2> QED
    BY <2>1, <2>2
<1>6. Len(Lines') >= MaxEntries \/ Closed(Lines') = written'
      BY <1>1, <1>2, <1>3, Constants DEF Complete
<1>7. joined' + 0 <= cuts' /\ Owed' = 0
      BY <1>1, <1>4 DEF Complete, Owed
<1> QED
  BY <1>5, <1>6, <1>7 DEF Complete

LEMMA Complete_Cut ==
  ASSUME LedgerTypeOK, Complete,
         Lines' = Put(Lines, Part), cuts' = cuts + 1, joined' = joined,
         Open(Lines) => written' = written,
         ~Open(Lines) => written' = Append(written, Torn)
  PROVE  Complete'
<1>1. /\ Lines \in Seq(Values) /\ Len(Lines) \in Nat /\ written \in Seq(Values)
      /\ joined \in Nat /\ cuts \in Nat /\ Part \in Values /\ Torn \in Values
      BY Lines_Type, LenProperties DEF LedgerTypeOK, Values, Hurt
<1>2. Closed(Lines') = IF Open(Lines) THEN Closed(Lines) ELSE Append(Closed(Lines), Torn)
      BY <1>1, Closed_Put, Constants
<1>3. Lines' \in Seq(Values) /\ Len(Lines') = IF Open(Lines) THEN Len(Lines) ELSE Len(Lines) + 1
      BY <1>1, Put_Type
<1>4. EndOf(Closed(Lines'), written')
  <2>1. CASE Open(Lines)
        BY <1>2, <2>1 DEF Complete
  <2>2. CASE ~Open(Lines)
        BY <1>1, <1>2, <2>2, Closed_Type, EndOf_Append DEF Complete
  <2> QED
    BY <2>1, <2>2
<1>5. Len(Lines') >= MaxEntries \/ Closed(Lines') = written'
      BY <1>1, <1>2, <1>3, Constants DEF Complete
<1>6. joined' + Owed' <= cuts'
  <2>1. (Owed = 0 \/ Owed = 1) /\ (Owed' = 0 \/ Owed' = 1)
        BY DEF Owed
  <2>2. joined + Owed <= cuts
        BY DEF Complete
  <2>3. joined <= cuts
        BY <1>1, <2>1, <2>2
  <2> QED
    BY <1>1, <2>1, <2>3
<1> QED
  BY <1>4, <1>5, <1>6 DEF Complete

LEMMA Next_Alone ==
  LedgerTypeOK /\ TmpApart /\ TmpOwned /\ AloneSoFar /\ [LedgerNext]_ledgerVars => AloneSoFar'
<1> DEFINE Users == /\ \A q \in Appending' : path' # NoFile /\ handle'[q] = path'
                    /\ \A q \in Compacting' : /\ path' # NoFile
                                              /\ Len(data'[path']) > CompactAt
                                              /\ trimmed'[q] = Closed(Newest(data'[path']))
           Goal == Complete' /\ Users
<1> SUFFICES ASSUME LedgerTypeOK, TmpApart, TmpOwned, AloneSoFar, [LedgerNext]_ledgerVars,
                    overlap' = "none"
             PROVE  Goal
    BY DEF AloneSoFar
<1> USE Constants, UnusedIsFree
<1>0. overlap = "none"
      BY DEF LedgerTypeOK, LedgerNext, OpenAppend, AppendLine, ReadLines, OpenTmp, FillTmp, Replace,
             GiveUp, CutAppend, CutFill, Reset, Meets, ledgerVars
<1>h. /\ Complete
      /\ \A q \in Appending : path # NoFile /\ handle[q] = path
      /\ \A q \in Compacting : /\ path # NoFile
                               /\ Len(data[path]) > CompactAt
                               /\ trimmed[q] = Closed(Newest(data[path]))
      BY <1>0 DEF AloneSoFar
\* While the ledger stays what it is, a step has to care for the process it moves.
<1>s. ASSUME path' = path, path # NoFile => data'[path] = data[path], UNCHANGED histories
      PROVE  Complete' /\ Lines' = Lines
  <2>1. Lines' = Lines
        BY <1>s DEF Lines
  <2> QED
    BY <1>h, <1>s, <2>1 DEF Complete, Owed, histories
<1>1. CASE UNCHANGED ledgerVars
      BY <1>1, <1>h, <1>s DEF ledgerVars, Appending, Compacting
<1>2. ASSUME NEW p \in Recorders, OpenAppend(p) PROVE Goal
  <2>1. CASE path = NoFile
    <3>1. Lines = <<>> /\ Lines' = <<>>
          BY <1>2, <2>1 DEF LedgerTypeOK, OpenAppend, Lines
    <3>2. Complete'
          BY <1>2, <1>h, <3>1 DEF OpenAppend, Complete, Owed, histories
    <3>3. Appending = {} /\ Compacting = {}
          BY <1>h, <2>1
    <3>4. Compacting' = {} /\ \A q \in Appending' : q = p
          BY <1>2, <3>3 DEF LedgerTypeOK, OpenAppend, Goto, Appending, Compacting
    <3>5. handle'[p] = path' /\ path' # NoFile
          BY <1>2, <2>1 DEF LedgerTypeOK, OpenAppend
    <3> QED
      BY <3>2, <3>4, <3>5
  <2>2. CASE path # NoFile
    <3>1. path' = path /\ data' = data /\ trimmed' = trimmed /\ UNCHANGED histories
          BY <1>2, <2>2 DEF OpenAppend
    <3>2. Compacting' = Compacting /\ \A q \in Appending' : q = p \/ q \in Appending
          BY <1>2 DEF LedgerTypeOK, OpenAppend, Goto, Appending, Compacting
    <3>3. handle'[p] = path /\ \A q \in Recorders : q # p => handle'[q] = handle[q]
          BY <1>2, <2>2 DEF LedgerTypeOK, OpenAppend
    <3> QED
      BY <1>h, <1>s, <2>2, <3>1, <3>2, <3>3 DEF Appending
  <2> QED
    BY <2>1, <2>2
<1>3. ASSUME NEW p \in Recorders, AppendLine(p) PROVE Goal
  <2>1. path # NoFile /\ handle[p] = path /\ path \in Inodes
        BY <1>3, <1>h DEF LedgerTypeOK, AppendLine, Appending
  <2>2. Compacting = {}
        BY <1>3, <1>0 DEF AppendLine, Meets
  <2>3. clock' \in Nat /\ path' = path
        BY <1>3 DEF LedgerTypeOK, AppendLine
  <2>4. Lines = data[path] /\ Lines' = Put(Lines, clock') /\ cuts' = cuts
        BY <1>3, <2>1, <2>3 DEF LedgerTypeOK, AppendLine, Lines
  <2>5. /\ Open(Lines) => written' = written /\ joined' = joined + 1
        /\ ~Open(Lines) => written' = Append(written, clock') /\ joined' = joined
        BY <1>3, <2>1, <2>4 DEF AppendLine
  <2>6. clock' \in Values /\ clock' # Torn /\ clock' # Part
        BY <2>3, Constants DEF Values
  <2>7. Complete'
        BY <1>h, <2>4, <2>5, <2>6, Complete_Put
  <2>8. Compacting' = {} /\ \A q \in Appending' : q \in Appending /\ q # p
        BY <1>3, <2>2 DEF LedgerTypeOK, AppendLine, Goto, Appending, Compacting
  <2>9. \A q \in Recorders : q # p => handle'[q] = handle[q]
        BY <1>3 DEF LedgerTypeOK, AppendLine
  <2> QED
    BY <1>h, <2>1, <2>3, <2>7, <2>8, <2>9 DEF Appending
<1>4. ASSUME NEW p \in Recorders, ReadLines(p) PROVE Goal
  <2>1. path' = path /\ data' = data /\ UNCHANGED histories
        BY <1>4 DEF ReadLines
  <2>2. CASE path # NoFile /\ TooLong(data[path])
    <3>1. handle' = handle /\ at' = [at EXCEPT ![p] = "open tmp"]
          /\ trimmed' = [trimmed EXCEPT ![p] = Closed(Newest(data[path]))]
          BY <1>4, <2>2 DEF ReadLines, Goto
    <3>2. \A q \in Compacting' : q = p \/ (q # p /\ q \in Compacting)
          BY <3>1 DEF LedgerTypeOK, Compacting
    <3>3. \A q \in Appending' : q \in Appending
          BY <3>1 DEF LedgerTypeOK, Appending
    <3>4. Len(data[path]) > CompactAt /\ trimmed'[p] = Closed(Newest(data[path]))
          /\ \A q \in Recorders : q # p => trimmed'[q] = trimmed[q]
          BY <2>2, <3>1 DEF LedgerTypeOK, TooLong
    <3> QED
      BY <1>h, <1>s, <2>1, <2>2, <3>1, <3>2, <3>3, <3>4 DEF Compacting
  <2>3. CASE ~(path # NoFile /\ TooLong(data[path]))
    <3>1. \A q \in Compacting' : q \in Compacting /\ trimmed'[q] = trimmed[q]
          BY <1>4, <2>3 DEF LedgerTypeOK, ReadLines, Return, Goto, Compacting
    <3>2. \A q \in Appending' : q \in Appending /\ handle'[q] = handle[q]
          BY <1>4, <2>3 DEF LedgerTypeOK, ReadLines, Return, Goto, Appending
    <3> QED
      BY <1>h, <1>s, <2>1, <3>1, <3>2
  <2> QED
    BY <2>2, <2>3
<1>5. ASSUME NEW p \in Recorders, OpenTmp(p) PROVE Goal
  <2>1. path' = path /\ UNCHANGED histories /\ trimmed' = trimmed
        BY <1>5 DEF OpenTmp
  <2>2. path # NoFile => data'[path] = data[path]
        BY <1>5 DEF LedgerTypeOK, OpenTmp, TmpApart
  <2>3. Compacting' = Compacting
        BY <1>5 DEF LedgerTypeOK, OpenTmp, Goto, Compacting
  <2>4. \A q \in Appending' : q \in Appending /\ handle'[q] = handle[q]
        BY <1>5 DEF LedgerTypeOK, OpenTmp, Goto, Appending
  <2> QED
    BY <1>h, <1>s, <2>1, <2>2, <2>3, <2>4
<1>6. ASSUME NEW p \in Recorders, FillTmp(p) PROVE Goal
  <2>1. path' = path /\ UNCHANGED histories /\ trimmed' = trimmed
        BY <1>6 DEF FillTmp
  <2>2. handle[p] # path
        BY <1>0, <1>6 DEF FillTmp, TmpOwned, TmpApart, Compacting
  <2>3. path # NoFile => data'[path] = data[path]
        BY <1>6, <2>2 DEF LedgerTypeOK, FillTmp
  <2>4. Compacting' = Compacting
        BY <1>6 DEF LedgerTypeOK, FillTmp, Goto, Compacting
  <2>5. \A q \in Appending' : q \in Appending /\ handle'[q] = handle[q]
        BY <1>6 DEF LedgerTypeOK, FillTmp, Goto, Appending
  <2> QED
    BY <1>h, <1>s, <2>1, <2>3, <2>4, <2>5
<1>7. ASSUME NEW p \in Recorders, Replace(p) PROVE Goal
  <2>1. p \in Compacting /\ tmp # NoFile /\ data[tmp] = trimmed[p]
        /\ \A q \in Compacting : q = p
        BY <1>0, <1>7 DEF Replace, TmpOwned, Compacting
  <2>2. path # NoFile /\ Len(data[path]) > CompactAt /\ trimmed[p] = Closed(Newest(data[path]))
        BY <1>h, <2>1
  <2>3. Lines = data[path] /\ Lines' = Closed(Newest(Lines)) /\ UNCHANGED histories
        BY <1>7, <2>1, <2>2 DEF Replace, Lines
  <2>4. Lines \in Seq(Values) /\ Len(Lines) > CompactAt /\ written \in Seq(Values)
        /\ joined \in Nat /\ cuts \in Nat
        BY <2>2, <2>3, Lines_Type DEF LedgerTypeOK
  <2>5. Newest(Lines) \in Seq(Values) /\ Len(Newest(Lines)) = MaxEntries
        BY <2>4, Newest_Type
  <2>8. /\ Closed(Lines') = Lines' /\ ~Open(Lines') /\ Len(Lines') = MaxEntries
        BY <2>3, <2>5, Closed_Twice, Closed_Type
  <2>9. EndOf(Closed(Lines'), written')
        BY <1>h, <2>3, <2>4, <2>8, EndOf_Newest DEF Complete, histories
  <2>10. joined' + 0 <= cuts'
    <3>1. Owed \in {0, 1}
          BY DEF Owed
    <3> QED
      BY <1>h, <2>3, <2>4, <3>1 DEF Complete, histories
  <2>11. Complete'
    <3>1. Owed' = 0
          BY <2>8 DEF Owed
    <3>2. Len(Lines') >= MaxEntries
          BY <2>8, Constants
    <3> QED
      BY <2>9, <2>10, <3>1, <3>2 DEF Complete
  <2>6. Appending = {}
        BY <1>0, <1>7 DEF Replace, Meets
  <2>7. Appending' = {} /\ Compacting' = {}
        BY <1>7, <2>1, <2>6 DEF LedgerTypeOK, Replace, Return, Goto, Appending, Compacting
  <2> QED
    BY <2>7, <2>11
<1>8. ASSUME NEW p \in Recorders, GiveUp(p) PROVE Goal
  <2>1. path' = path /\ data' = data /\ UNCHANGED histories
        BY <1>8 DEF GiveUp
  <2>2. \A q \in Compacting' : q \in Compacting /\ trimmed'[q] = trimmed[q]
        BY <1>8 DEF LedgerTypeOK, GiveUp, Return, Goto, Compacting
  <2>3. \A q \in Appending' : q \in Appending /\ handle'[q] = handle[q]
        BY <1>8 DEF LedgerTypeOK, GiveUp, Return, Goto, Appending
  <2> QED
    BY <1>h, <1>s, <2>1, <2>2, <2>3
<1>9. CASE Reset
  <2>1. Compacting \cup Appending = {}
        BY <1>0, <1>9 DEF Reset, Meets
  <2>2. Compacting' = {} /\ Appending' = {}
        BY <1>9, <2>1 DEF Reset, Compacting, Appending
  <2>3. Lines' = <<>> /\ written' = <<>> /\ UNCHANGED <<cuts, joined>>
        BY <1>9 DEF Reset, Lines
  <2>4. Closed(<<>>) = <<>> /\ ~Open(<<>>)
        BY DEF Closed, Open
  <2>5. joined' + 0 <= cuts'
    <3>1. Owed \in {0, 1} /\ joined \in Nat /\ cuts \in Nat
          BY DEF Owed, LedgerTypeOK
    <3> QED
      BY <1>h, <2>3, <3>1 DEF Complete
  <2>6. EndOf(<<>>, <<>>)
        BY DEF EndOf
  <2>7. Complete'
    <3>1. Owed' = 0
          BY <2>3, <2>4 DEF Owed
    <3> QED
      BY <2>3, <2>4, <2>5, <2>6, <3>1 DEF Complete
  <2> QED
    BY <2>2, <2>7
<1>10. ASSUME NEW p \in Recorders, CutAppend(p) PROVE Goal
  <2>1. path # NoFile /\ handle[p] = path /\ path \in Inodes /\ path' = path
        BY <1>10, <1>h DEF LedgerTypeOK, CutAppend, Appending
  <2>2. Compacting = {}
        BY <1>10, <1>0 DEF CutAppend, Meets
  <2>3. /\ Lines = data[path] /\ Lines' = Put(Lines, Part)
        /\ cuts' = cuts + 1 /\ joined' = joined
        BY <1>10, <2>1 DEF LedgerTypeOK, CutAppend, Lines
  <2>4. /\ Open(Lines) => written' = written
        /\ ~Open(Lines) => written' = Append(written, Torn)
        BY <1>10, <2>1, <2>3 DEF CutAppend
  <2>5. Complete'
        BY <1>h, <2>3, <2>4, Complete_Cut
  <2>6. Compacting' = {} /\ \A q \in Appending' : q \in Appending /\ q # p
        BY <1>10, <2>2 DEF LedgerTypeOK, CutAppend, Return, Goto, Appending, Compacting
  <2>7. \A q \in Recorders : q # p => handle'[q] = handle[q]
        BY <1>10 DEF LedgerTypeOK, CutAppend, Return
  <2> QED
    BY <1>h, <2>1, <2>5, <2>6, <2>7 DEF Appending
<1>11. ASSUME NEW p \in Recorders, CutFill(p) PROVE Goal
  <2>1. path' = path /\ UNCHANGED histories
        BY <1>11 DEF CutFill
  <2>2. handle[p] # path
        BY <1>0, <1>11 DEF CutFill, TmpOwned, TmpApart, Compacting
  <2>3. path # NoFile => data'[path] = data[path]
        BY <1>11, <2>2, CutFill_Type DEF LedgerTypeOK
  <2>4. \A q \in Compacting' : q \in Compacting /\ trimmed'[q] = trimmed[q]
        BY <1>11 DEF LedgerTypeOK, CutFill, Return, Goto, Compacting
  <2>5. \A q \in Appending' : q \in Appending /\ handle'[q] = handle[q]
        BY <1>11 DEF LedgerTypeOK, CutFill, Return, Goto, Appending
  <2> QED
    BY <1>h, <1>s, <2>1, <2>3, <2>4, <2>5
<1> QED
  BY <1>1, <1>2, <1>3, <1>4, <1>5, <1>6, <1>7, <1>8, <1>9, <1>10, <1>11 DEF LedgerNext

-----------------------------------------------------------------------------
(* The theorems *)

LEMMA Init_IInv == LedgerInit => LedgerIInv
<1> SUFFICES ASSUME LedgerInit PROVE LedgerIInv
    OBVIOUS
<1>1. Compacting = {} /\ Appending = {} /\ Lines = <<>> /\ written = <<>>
      BY DEF LedgerInit, Compacting, Appending, Lines
<1>2. TmpApart /\ TrimmedToSize /\ TmpOwned /\ OrderKept /\ TooLongIsSeen
      BY <1>1 DEF LedgerInit, TmpApart, TrimmedToSize, TmpOwned, OrderKept, TooLongIsSeen
<1>3. Closed(<<>>) = <<>> /\ ~Open(<<>>) /\ EndOf(<<>>, <<>>)
      BY DEF Closed, Open, EndOf
<1>4. Complete
  <2>1. Owed = 0 /\ joined = 0 /\ cuts = 0
        BY <1>1, <1>3 DEF Owed, LedgerInit
  <2> QED
    BY <1>1, <1>3, <2>1 DEF Complete
<1>5. AloneSoFar
      BY <1>1, <1>4 DEF AloneSoFar
<1> QED
  BY <1>2, <1>5, Init_Type DEF LedgerIInv

LEMMA Next_IInv == LedgerIInv /\ [LedgerNext]_ledgerVars => LedgerIInv'
BY Next_Type, Next_Apart, Next_Trimmed, Next_Owned, Next_Order, Next_Seen, Next_Alone
   DEF LedgerIInv

LEMMA IInv_NothingLostAlone == LedgerIInv => NothingLostAlone
<1> SUFFICES ASSUME LedgerIInv, overlap = "none"
             PROVE  /\ IsSuffix(Closed(Lines), written)
                    /\ Len(Lines) >= MaxEntries \/ Closed(Lines) = written
                    /\ joined <= cuts
    BY DEF NothingLostAlone
<1>1. Complete /\ LedgerTypeOK
      BY DEF LedgerIInv, AloneSoFar
<1>2. /\ Closed(Lines) \in Seq(Values) /\ written \in Seq(Values)
      /\ joined \in Nat /\ cuts \in Nat
      BY <1>1, Lines_Type, Closed_Type DEF LedgerTypeOK
<1>3. joined <= cuts
  <2>1. Owed \in {0, 1}
        BY DEF Owed
  <2> QED
    BY <1>1, <1>2, <2>1 DEF Complete
<1> QED
  BY <1>1, <1>2, <1>3, EndOf_IsSuffix DEF Complete

LEMMA IInv_NeverTwice == LedgerIInv => NeverTwice
<1> SUFFICES ASSUME LedgerIInv, overlap # "compaction", NEW j \in 1 .. Len(Lines)
             PROVE  IF Lines[j] \in {Torn, Part} THEN cuts > 0
                    ELSE \A i \in 1 .. j - 1 : Lines[i] \in {Torn, Part} \/ Lines[i] < Lines[j]
    BY DEF NeverTwice
<1>1. path # NoFile
      BY DEF Lines
<1>2. /\ Lines = data[path] /\ InOrder(data[path], clock, cuts)
      /\ clock \in Nat /\ Len(Lines) \in Nat
  <2>1. Len(Lines) \in Nat
        BY Lines_Type, LenProperties DEF LedgerIInv
  <2> QED
    BY <1>1, <2>1 DEF Lines, LedgerIInv, OrderKept, LedgerTypeOK
<1>3. \A x \in 1 .. clock : x \notin Hurt
      BY <1>2, Constants DEF Hurt
<1>4. \A i \in 1 .. j - 1 : i \in 1 .. Len(Lines) /\ i < j
      BY <1>2
<1>5. \/ Lines[j] \in Hurt /\ cuts > 0
      \/ /\ Lines[j] \in 1 .. clock
         /\ \A i \in 1 .. Len(Lines) : i < j => Lines[i] \in Hurt \/ Lines[i] < Lines[j]
      BY <1>2 DEF InOrder
<1> QED
  BY <1>3, <1>4, <1>5 DEF Hurt

LEMMA IInv_BoundedAtRest == LedgerIInv => BoundedAtRest
<1> SUFFICES ASSUME LedgerIInv, stops = 0, overlap # "compaction", \A p \in Recorders : at[p] = "idle"
             PROVE  Len(Lines) <= CompactAt
    BY DEF BoundedAtRest
<1>1. CASE path = NoFile
  <2>1. Lines = <<>>
        BY <1>1 DEF Lines
  <2> QED
    BY ONLY <2>1, Constants
<1>2. CASE path # NoFile
  <2>1. Compacting = {} /\ ~\E p \in Recorders : at[p] = "read"
        BY DEF Compacting
  <2> QED
    BY <1>2, <2>1 DEF LedgerIInv, TooLongIsSeen, Lines
<1> QED
  BY <1>1, <1>2

\* The inductive invariant.
THEOREM Ledger_IInv == LedgerSpec => []LedgerIInv
BY Init_IInv, Next_IInv, PTL DEF LedgerSpec

\* Whatever was killed or failed between two steps of append_entry and
\* _compact_if_needed, a ledger that no overlap has touched ends with what was
\* begun, and has all of it or the last MaxEntries lines; no more lines were joined
\* to a part than appends were cut short.
THEOREM Ledger_NothingLostAlone == LedgerSpec => []NothingLostAlone
BY Ledger_IInv, IInv_NothingLostAlone, PTL

\* No whole line twice and none out of order as long as no compaction has met
\* another, and only whole lines as long as no append was cut short.
THEOREM Ledger_NeverTwice == LedgerSpec => []NeverTwice
BY Ledger_IInv, IInv_NeverTwice, PTL

\* With nobody at work and nobody stopped half way, the ledger is not longer than
\* the threshold.
THEOREM Ledger_BoundedAtRest == LedgerSpec => []BoundedAtRest
BY Ledger_IInv, IInv_BoundedAtRest, PTL
===============================================================================
