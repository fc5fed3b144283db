---------------------------- MODULE MbStat264Proofs ----------------------------
(***************************************************************************)
(* Proofs about MbStat264, for pictures of any number of macroblocks and   *)
(* slices, and for every macroblock the decoder may produce.               *)
(***************************************************************************)
EXTENDS MbStat264, SequenceTheorems, FiniteSetTheorems, OperatorProofs

-----------------------------------------------------------------------------
(* Counting and adding up.                                                 *)

One(b) == IF b THEN 1 ELSE 0

Below(T, n) == {q \in T : q < n}

LEMMA NextQuarter ==
  ASSUME NEW T \in SUBSET Quarters, NEW n \in 0 .. 3, IsFiniteSet(Below(T, n))
  PROVE  /\ IsFiniteSet(Below(T, n + 1))
         /\ Cardinality(Below(T, n)) \in Nat
         /\ Cardinality(Below(T, n + 1)) = Cardinality(Below(T, n)) + One(n \in T)
<1>0. T \subseteq Int /\ \A q \in T : q < n + 1 <=> q < n \/ q = n
  BY DEF Quarters
<1>1. CASE n \in T
  <2>0. ~(n < n)
    OBVIOUS
  <2>1. Below(T, n + 1) = Below(T, n) \cup {n} /\ n \notin Below(T, n)
    BY <1>0, <1>1, <2>0, Zenon DEF Below
  <2>2. IsFiniteSet(Below(T, n) \cup {n})
        /\ Cardinality(Below(T, n) \cup {n}) = Cardinality(Below(T, n)) + 1
    BY <2>1, FS_AddElement
  <2>3. QED
    BY <1>1, <2>1, <2>2, FS_CardinalityType DEF One
<1>2. CASE n \notin T
  <2>1. Below(T, n + 1) = Below(T, n)
    BY <1>0, <1>2 DEF Below
  <2>2. QED
    BY <1>2, <2>1, FS_CardinalityType DEF One
<1>3. QED
  BY <1>1, <1>2

(* The number of quarters is the sum over the quarters. *)
LEMMA QuarterCount ==
  ASSUME NEW T \in SUBSET Quarters
  PROVE  /\ IsFiniteSet(T) /\ Cardinality(T) \in 0 .. 4
         /\ Cardinality(T) = One(0 \in T) + One(1 \in T) + One(2 \in T) + One(3 \in T)
<1>0. \A q \in T : q \in Int /\ 0 <= q /\ q < 4
  BY DEF Quarters
<1>1. Below(T, 0) = {}
  BY <1>0 DEF Below
<1>2. IsFiniteSet(Below(T, 0)) /\ Cardinality(Below(T, 0)) = 0
  BY <1>1, FS_EmptySet
<1>3. Below(T, 4) = T
  BY <1>0 DEF Below
<1>o. \A n \in 0 .. 3 : One(n \in T) \in 0 .. 1
  BY DEF One
<1>4. IsFiniteSet(Below(T, 1)) /\ Cardinality(Below(T, 1)) = One(0 \in T)
  <2>1. Cardinality(Below(T, 0 + 1)) = Cardinality(Below(T, 0)) + One(0 \in T) /\ IsFiniteSet(Below(T, 0 + 1))
    BY <1>2, NextQuarter
  <2>2. QED
    BY <1>2, <1>o, <2>1
<1>5. IsFiniteSet(Below(T, 2)) /\ Cardinality(Below(T, 2)) = One(0 \in T) + One(1 \in T)
  <2>1. Cardinality(Below(T, 1 + 1)) = Cardinality(Below(T, 1)) + One(1 \in T) /\ IsFiniteSet(Below(T, 1 + 1))
    BY <1>4, NextQuarter
  <2>2. QED
    BY <1>4, <2>1
<1>6. IsFiniteSet(Below(T, 3)) /\ Cardinality(Below(T, 3)) = One(0 \in T) + One(1 \in T) + One(2 \in T)
  <2>1. Cardinality(Below(T, 2 + 1)) = Cardinality(Below(T, 2)) + One(2 \in T) /\ IsFiniteSet(Below(T, 2 + 1))
    BY <1>5, NextQuarter
  <2>2. QED
    BY <1>5, <2>1
<1>7. IsFiniteSet(Below(T, 4))
      /\ Cardinality(Below(T, 4)) = One(0 \in T) + One(1 \in T) + One(2 \in T) + One(3 \in T)
  <2>1. Cardinality(Below(T, 3 + 1)) = Cardinality(Below(T, 3)) + One(3 \in T) /\ IsFiniteSet(Below(T, 3 + 1))
    BY <1>6, NextQuarter
  <2>2. QED
    BY <1>6, <2>1
<1>8. QED
  BY <1>3, <1>7, <1>o

(* SumOf is the total of the values of a function. *)
LEMMA SumOfTotal ==
  ASSUME NEW f, IsFiniteSet(DOMAIN f), Integral(f, DOMAIN f)
  PROVE  SumOf(f) = Total(f, DOMAIN f)
<1> DEFINE I     == DOMAIN f
           P(it) == it = [s \in SUBSET I |->
                           IF s = {} THEN 0
                           ELSE f[CHOOSE x \in s : TRUE] + it[s \ {CHOOSE x \in s : TRUE}]]
           fold == CHOOSE it : P(it)
<1>1. SumOf(f) = fold[I]
  BY DEF SumOf, FoldFunction, FoldFunctionOnSet, MapThenFoldSet
<1>2. PICK c : Chooses(c, I) /\ \A s \in SUBSET I : c[s] = CHOOSE x \in s : TRUE
  <2> DEFINE d == [s \in SUBSET I |-> CHOOSE x \in s : TRUE]
  <2>1. Chooses(d, I) /\ \A s \in SUBSET I : d[s] = CHOOSE x \in s : TRUE
    BY DEF Chooses
  <2> HIDE DEF d
  <2>2. QED
    BY <2>1
<1>3. ASSUME NEW g PROVE IsFold(g, f, c, I) <=> P(g)
  <2>1. ASSUME NEW s \in SUBSET I
        PROVE  FoldStep(f, c, g, s) =
                 IF s = {} THEN 0
                 ELSE f[CHOOSE x \in s : TRUE] + g[s \ {CHOOSE x \in s : TRUE}]
    BY <1>2 DEF FoldStep
  <2>2. QED
    BY <2>1 DEF IsFold
<1> HIDE DEF P
<1>4. P(fold)
  <2>1. \E g : P(g)
    BY <1>2, <1>3, FoldExists
  <2>2. QED
    BY <2>1
<1> HIDE DEF fold
<1>5. IsFold(fold, f, c, I)
  BY <1>3, <1>4
<1>6. fold[I] = Total(f, I)
  BY <1>2, <1>5, FoldIsTotal
<1>7. QED
  BY <1>1, <1>6

LEMMA TotalUpto ==
  ASSUME NEW f, NEW k \in Nat, \A i \in 0 .. k : f[i] \in Int
  PROVE  /\ Total(f, 0 .. k - 1) \in Int
         /\ Total(f, 0 .. k) = f[k] + Total(f, 0 .. k - 1)
<1>1. IsFiniteSet(0 .. k - 1) /\ k \notin 0 .. k - 1
  BY FS_Interval
<1>2. 0 .. k = (0 .. k - 1) \cup {k}
  OBVIOUS
<1>3. Integral(f, (0 .. k - 1) \cup {k})
  BY <1>2 DEF Integral
<1>4. QED
  BY <1>1, <1>2, <1>3, TotalAdd

LEMMA TotalFirst ==
  ASSUME NEW f, f[0] \in Int
  PROVE  Total(f, 0 .. 0) = f[0]
<1>1. Total(f, 0 .. 0) = f[0] + Total(f, 0 .. 0 - 1)
  <2>1. \A i \in 0 .. 0 : f[i] \in Int
    OBVIOUS
  <2>2. QED
    BY <2>1, TotalUpto
<1>2. 0 .. 0 - 1 = {}
  OBVIOUS
<1>3. QED
  BY <1>1, <1>2, TotalEmpty

LEMMA TotalNext ==
  ASSUME NEW f, NEW n \in Nat, NEW k, k = n + 1, \A i \in 0 .. k : f[i] \in Int
  PROVE  /\ Total(f, 0 .. n) \in Int
         /\ Total(f, 0 .. k) = Total(f, 0 .. n) + f[k]
<1>1. k \in Nat /\ k - 1 = n /\ f[k] \in Int
  OBVIOUS
<1>2. Total(f, 0 .. k - 1) \in Int /\ Total(f, 0 .. k) = f[k] + Total(f, 0 .. k - 1)
  BY <1>1, TotalUpto
<1>3. QED
  BY <1>1, <1>2

LEMMA SumOfUpto ==
  ASSUME NEW f, NEW n \in Nat, DOMAIN f = 0 .. n, \A i \in 0 .. n : f[i] \in Int
  PROVE  SumOf(f) = Total(f, 0 .. n)
<1>1. IsFiniteSet(DOMAIN f)
  BY FS_Interval
<1>2. Integral(f, DOMAIN f)
  BY DEF Integral
<1>3. QED
  BY <1>1, <1>2, SumOfTotal

LEMMA SumOfFive ==
  ASSUME NEW f, \A i \in 0 .. 4 : f[i] \in Int
  PROVE  /\ f[0] \in Int /\ f[1] \in Int /\ f[2] \in Int /\ f[3] \in Int /\ f[4] \in Int
         /\ Total(f, 0 .. 4) = f[0] + f[1] + f[2] + f[3] + f[4]
<1>1. f[0] \in Int /\ f[1] \in Int /\ f[2] \in Int /\ f[3] \in Int /\ f[4] \in Int
  OBVIOUS
<1>2. Total(f, 0 .. 0) = f[0]
  BY <1>1, TotalFirst
<1>3. Total(f, 0 .. 1) = Total(f, 0 .. 0) + f[1]
  <2>1. 1 = 0 + 1 /\ \A i \in 0 .. 1 : f[i] \in Int
    OBVIOUS
  <2>2. QED
    BY <2>1, TotalNext
<1>4. Total(f, 0 .. 2) = Total(f, 0 .. 1) + f[2]
  <2>1. 2 = 1 + 1 /\ \A i \in 0 .. 2 : f[i] \in Int
    OBVIOUS
  <2>2. QED
    BY <2>1, TotalNext
<1>5. Total(f, 0 .. 3) = Total(f, 0 .. 2) + f[3]
  <2>1. 3 = 2 + 1 /\ \A i \in 0 .. 3 : f[i] \in Int
    OBVIOUS
  <2>2. QED
    BY <2>1, TotalNext
<1>6. Total(f, 0 .. 4) = Total(f, 0 .. 3) + f[4]
  <2>1. 4 = 3 + 1 /\ \A i \in 0 .. 4 : f[i] \in Int
    OBVIOUS
  <2>2. QED
    BY <2>1, TotalNext
<1>7. QED
  BY <1>1, <1>2, <1>3, <1>4, <1>5, <1>6

LEMMA SumOfMbTypes ==
  ASSUME NEW f, DOMAIN f = MbTypeIdx, \A i \in MbTypeIdx : f[i] \in Int
  PROVE  SumOf(f) = f[0] + f[1] + f[2] + f[3] + f[4] + f[5] + f[6]
<1>1. SumOf(f) = Total(f, 0 .. 6)
  BY SumOfUpto DEF MbTypeIdx
<1>2. \A i \in 0 .. 6 : f[i] \in Int
  BY DEF MbTypeIdx
<1>3. /\ f[0] \in Int /\ f[1] \in Int /\ f[2] \in Int /\ f[3] \in Int /\ f[4] \in Int
      /\ Total(f, 0 .. 4) = f[0] + f[1] + f[2] + f[3] + f[4]
  BY <1>2, SumOfFive
<1>4. Total(f, 0 .. 5) = Total(f, 0 .. 4) + f[5]
  <2>1. 5 = 4 + 1 /\ \A i \in 0 .. 5 : f[i] \in Int
    BY <1>2
  <2>2. QED
    BY <2>1, TotalNext
<1>5. Total(f, 0 .. 6) = Total(f, 0 .. 5) + f[6]
  <2>1. 6 = 5 + 1 /\ \A i \in 0 .. 6 : f[i] \in Int
    BY <1>2
  <2>2. QED
    BY <2>1, TotalNext
<1>6. f[5] \in Int /\ f[6] \in Int
  BY <1>2
<1>7. QED
  BY <1>1, <1>3, <1>4, <1>5, <1>6

LEMMA SumOfShapes ==
  ASSUME NEW f, DOMAIN f = Shapes, \A i \in Shapes : f[i] \in Int
  PROVE  SumOf(f) = f[0] + f[1] + f[2] + f[3] + f[4]
<1>1. SumOf(f) = Total(f, 0 .. 4)
  BY SumOfUpto DEF Shapes
<1>2. \A i \in 0 .. 4 : f[i] \in Int
  BY DEF Shapes
<1>3. QED
  BY <1>1, <1>2, SumOfFive

-----------------------------------------------------------------------------
(* The macroblocks of the slices.                                          *)

MbsOf  == UNION {Macroblocks(type) : type \in SliceTypes}
Mbs    == [mb : MbsOf, QP : QPs]
Slices == [QP : QPs, mbs : Seq(Mbs)]

(* NumDecoded of any sequence of slices. *)
NumIn(ss) == FoldLeft(LAMBDA n, s : Len(s.mbs) + n, 0, ss)

Lengths(ss) == [i \in DOMAIN ss |-> Len(ss[i].mbs)]

LEMMA SliceFields ==
  ASSUME NEW ss \in Seq(Slices), NEW i \in 1 .. Len(ss)
  PROVE  /\ ss[i] \in Slices /\ ss[i].QP \in QPs /\ ss[i].mbs \in Seq(Mbs)
         /\ Len(ss[i].mbs) \in Nat
<1>1. ss[i] \in Slices
  BY ElementOfSeq
<1>2. ss[i].QP \in QPs /\ ss[i].mbs \in Seq(Mbs)
  BY <1>1 DEF Slices
<1>3. QED
  BY <1>1, <1>2, LenProperties

LEMMA NumbersUpto ==
  ASSUME NEW n \in Nat, NEW k, k = n + 1
  PROVE  /\ 1 .. k = (1 .. n) \cup {k} /\ k \notin 1 .. n
         /\ IsFiniteSet(1 .. n) /\ IsFiniteSet(1 .. k)
<1>1. 1 .. k = (1 .. n) \cup {k} /\ k \notin 1 .. n /\ k \in Int
  OBVIOUS
<1>2. QED
  BY <1>1, FS_Interval

LEMMA LastIndex ==
  ASSUME NEW n \in Nat \ {0}
  PROVE  n \in 1 .. n /\ \A i \in 1 .. n - 1 : i \in 1 .. n /\ i # n
  OBVIOUS

(* A set of numbers up to n that is not empty has a greatest element. *)
LEMMA GreatestElement ==
  ASSUME NEW n \in Nat, NEW T \in SUBSET (1 .. n), T # {}
  PROVE  Max(T) \in T
<1> DEFINE D == {n - x : x \in T}
<1>0. \A x \in T : x \in Int /\ n - x \in Nat
  OBVIOUS
<1>1. D \in SUBSET Nat /\ D # {}
  BY <1>0
<1>2. PICK d \in D : \A e \in D : d <= e
  BY <1>1, LeastElement
<1>3. PICK x \in T : d = n - x
  BY <1>2
<1>4. \A y \in T : x >= y
  <2>1. ASSUME NEW y \in T PROVE n - x <= n - y
    BY <1>2, <1>3
  <2>2. QED
    BY <1>0, <2>1
<1>5. QED
  BY <1>4 DEF Max

LEMMA NumInTotal ==
  ASSUME NEW ss \in Seq(Slices)
  PROVE  NumIn(ss) = Total(Lengths(ss), 1 .. Len(ss))
<1> DEFINE I     == 1 .. Len(ss)
           h     == Lengths(ss)
           P(it) == it = [s \in SUBSET I |->
                           IF s = {} THEN 0
                           ELSE Len(ss[Max(s)].mbs) + it[s \ {Max(s)}]]
           fold  == CHOOSE it : P(it)
<1>0. DOMAIN ss = I /\ Len(ss) \in Nat
  BY LenProperties
<1>1. NumIn(ss) = fold[I]
  BY <1>0 DEF NumIn, FoldLeft, MapThenFoldSet
<1>2. PICK c : Chooses(c, I) /\ \A s \in SUBSET I : c[s] = Max(s)
  <2> DEFINE d == [s \in SUBSET I |-> Max(s)]
  <2>1. \A s \in SUBSET I : s # {} => Max(s) \in s
    BY <1>0, GreatestElement
  <2>2. Chooses(d, I) /\ \A s \in SUBSET I : d[s] = Max(s)
    BY <2>1 DEF Chooses
  <2> HIDE DEF d
  <2>3. QED
    BY <2>2
<1>3. \A i \in I : h[i] = Len(ss[i].mbs) /\ h[i] \in Nat
  BY <1>0, SliceFields DEF Lengths
<1>4. IsFiniteSet(I) /\ Integral(h, I)
  <2>1. IsFiniteSet(1 .. Len(ss))
    BY <1>0, FS_Interval
  <2> HIDE DEF h
  <2>2. Integral(h, I)
    BY <1>3 DEF Integral
  <2>3. QED
    BY <2>1, <2>2
<1> HIDE DEF h
<1>5. ASSUME NEW g PROVE IsFold(g, h, c, I) <=> P(g)
  <2>1. ASSUME NEW s \in SUBSET I
        PROVE  FoldStep(h, c, g, s) =
                 IF s = {} THEN 0 ELSE Len(ss[Max(s)].mbs) + g[s \ {Max(s)}]
    <3>1. CASE s = {}
      BY <3>1 DEF FoldStep
    <3>2. CASE s # {}
      <4>1. c[s] = Max(s) /\ Max(s) \in I
        BY <1>2, <3>2 DEF Chooses
      <4>2. h[Max(s)] = Len(ss[Max(s)].mbs)
        BY <1>3, <4>1
      <4>3. QED
        BY <3>2, <4>1, <4>2 DEF FoldStep
    <3>3. QED
      BY <3>1, <3>2
  <2>2. QED
    BY <2>1 DEF IsFold
<1> HIDE DEF P
<1>6. P(fold)
  <2>1. \E g : P(g)
    BY <1>2, <1>4, <1>5, FoldExists
  <2>2. QED
    BY <2>1
<1> HIDE DEF fold
<1>7. fold[I] = Total(h, I)
  BY <1>2, <1>4, <1>5, <1>6, FoldIsTotal
<1>8. QED
  BY <1>1, <1>7 DEF h

(* The slices so far hold so many macroblocks; one more slice or           *)
(* macroblock adds what it should.                                         *)
LEMMA NumInEmpty ==
  NumIn(<<>>) = 0
<1>1. <<>> \in Seq(Slices) /\ Len(<<>>) = 0 /\ 1 .. 0 = {}
  BY EmptySeq
<1>2. QED
  BY <1>1, NumInTotal, TotalEmpty

LEMMA TotalUptoLength ==
  ASSUME NEW n \in Nat, NEW h, NEW k, NEW d \in Int, n # 0,
         \A i \in 1 .. n : h[i] \in Int, \A i \in 1 .. n - 1 : k[i] = h[i], k[n] = h[n] + d
  PROVE  Total(h, 1 .. n) \in Int /\ Total(k, 1 .. n) = Total(h, 1 .. n) + d
<1>1. /\ 1 .. n = (1 .. n - 1) \cup {n} /\ n \notin 1 .. n - 1 /\ IsFiniteSet(1 .. n - 1)
      /\ h[n] \in Int
  <2>1. n - 1 \in Nat /\ n = (n - 1) + 1 /\ h[n] \in Int
    OBVIOUS
  <2>2. QED
    BY <2>1, NumbersUpto
<1>2. Integral(h, (1 .. n - 1) \cup {n}) /\ Integral(h, 1 .. n - 1)
  BY <1>1 DEF Integral
<1>3. \A i \in 1 .. n - 1 : k[i] \in Int
  BY <1>2 DEF Integral
<1>4. Integral(k, (1 .. n - 1) \cup {n})
  BY <1>1, <1>3 DEF Integral
<1>5. Total(h, 1 .. n - 1) \in Int /\ Total(h, (1 .. n - 1) \cup {n}) = h[n] + Total(h, 1 .. n - 1)
  BY <1>1, <1>2, TotalAdd
<1>6. Total(k, (1 .. n - 1) \cup {n}) = k[n] + Total(k, 1 .. n - 1)
  BY <1>1, <1>4, TotalAdd
<1>7. Total(k, 1 .. n - 1) = Total(h, 1 .. n - 1)
  BY <1>1, <1>2, TotalSame
<1>8. QED
  <2>1. Total(k, 1 .. n) = (h[n] + d) + Total(h, 1 .. n - 1)
    BY <1>1, <1>6, <1>7
  <2>2. Total(h, 1 .. n) = h[n] + Total(h, 1 .. n - 1)
    BY <1>1, <1>5
  <2>3. QED
    BY <1>1, <1>5, <2>1, <2>2

LEMMA NumInNat ==
  ASSUME NEW ss \in Seq(Slices)
  PROVE  NumIn(ss) \in Int
<1> DEFINE h == Lengths(ss)
           n == Len(ss)
<1>1. /\ n \in Nat /\ DOMAIN ss = 1 .. n /\ IsFiniteSet(1 .. n + 1)
      /\ 1 .. n + 1 = (1 .. n) \cup {n + 1} /\ n + 1 \notin 1 .. n /\ IsFiniteSet(1 .. n)
  BY LenProperties, NumbersUpto
<1>2. \A i \in 1 .. n : h[i] \in Int
  BY <1>1, SliceFields DEF Lengths
<1> DEFINE k == [i \in 1 .. n + 1 |-> IF i = n + 1 THEN 0 ELSE h[i]]
<1>3. Integral(k, (1 .. n) \cup {n + 1}) /\ (\A i \in 1 .. n : k[i] = h[i]) /\ Integral(h, 1 .. n)
  BY <1>1, <1>2 DEF Integral
<1> HIDE DEF h, k
<1>4. Total(k, 1 .. n) \in Int /\ Total(k, 1 .. n) = Total(h, 1 .. n)
  BY <1>1, <1>3, TotalAdd, TotalSame
<1>5. QED
  BY <1>4, NumInTotal DEF h

LEMMA NumInAppend ==
  ASSUME NEW ss \in Seq(Slices), NEW s \in Slices
  PROVE  NumIn(Append(ss, s)) = NumIn(ss) + Len(s.mbs)
<1> DEFINE n  == Len(ss)
           tt == Append(ss, s)
           h  == Lengths(tt)
<1>1. /\ tt \in Seq(Slices) /\ Len(tt) = n + 1 /\ n \in Nat
      /\ (\A i \in 1 .. n : tt[i] = ss[i]) /\ tt[n + 1] = s
  BY AppendProperties, LenProperties
<1>2. DOMAIN tt = 1 .. n + 1 /\ DOMAIN ss = 1 .. n
  BY <1>1, LenProperties
<1> HIDE DEF tt
<1>3. \A i \in 1 .. n + 1 : h[i] = Len(tt[i].mbs) /\ h[i] \in Int
  BY <1>1, <1>2, SliceFields DEF Lengths
<1>4. \A i \in 1 .. n : Lengths(ss)[i] = h[i]
  BY <1>1, <1>2, <1>3 DEF Lengths
<1> HIDE DEF h
<1>5. /\ IsFiniteSet(1 .. n) /\ 1 .. n + 1 = (1 .. n) \cup {n + 1} /\ n + 1 \notin 1 .. n
  BY <1>1, NumbersUpto
<1>6. Integral(h, (1 .. n) \cup {n + 1}) /\ Integral(h, 1 .. n) /\ h[n + 1] = Len(s.mbs)
  BY <1>1, <1>3, <1>5 DEF Integral
<1>7. Total(h, 1 .. n + 1) = Len(s.mbs) + Total(h, 1 .. n) /\ Total(h, 1 .. n) \in Int
  BY <1>5, <1>6, TotalAdd
<1>8. Total(Lengths(ss), 1 .. n) = Total(h, 1 .. n)
  BY <1>4, <1>5, <1>6, TotalSame
<1>9. NumIn(tt) = Total(h, 1 .. n + 1) /\ NumIn(ss) = Total(Lengths(ss), 1 .. n)
  BY <1>1, NumInTotal DEF h
<1>10. h[n + 1] \in Int
  BY <1>1, <1>3
<1>11. QED
  BY <1>6, <1>7, <1>8, <1>9, <1>10 DEF tt

(* One more macroblock in the last slice. *)
WithMb(ss, x) == [ss EXCEPT ![Len(ss)].mbs = Append(@, x)]

LEMMA WithMbFields ==
  ASSUME NEW ss \in Seq(Slices), ss # <<>>, NEW x \in Mbs
  PROVE  /\ WithMb(ss, x) \in Seq(Slices) /\ Len(WithMb(ss, x)) = Len(ss)
         /\ Len(ss) \in Nat \ {0} /\ WithMb(ss, x) # <<>>
         /\ \A i \in 1 .. Len(ss) - 1 : WithMb(ss, x)[i] = ss[i]
         /\ Last(WithMb(ss, x)).QP = Last(ss).QP
         /\ Last(WithMb(ss, x)).mbs = Append(Last(ss).mbs, x)
<1> DEFINE n == Len(ss)
           s == [ss[n] EXCEPT !.mbs = Append(@, x)]
<1>1. n \in Nat \ {0} /\ DOMAIN ss = 1 .. n
  BY EmptySeq, LenProperties
<1>2. ss[n] \in Slices /\ ss[n].mbs \in Seq(Mbs)
  BY <1>1, SliceFields
<1>3. Append(ss[n].mbs, x) \in Seq(Mbs)
  BY <1>2, AppendProperties
<1>4. s \in Slices /\ s.QP = ss[n].QP /\ s.mbs = Append(ss[n].mbs, x)
  BY <1>2, <1>3 DEF Slices
<1>5. WithMb(ss, x) = [ss EXCEPT ![n] = s]
  BY <1>1 DEF WithMb
<1> HIDE DEF s
<1>6. /\ [ss EXCEPT ![n] = s] \in Seq(Slices) /\ Len([ss EXCEPT ![n] = s]) = n
      /\ \A j \in 1 .. n : [ss EXCEPT ![n] = s][j] = IF j = n THEN s ELSE ss[j]
  BY <1>1, <1>4, ExceptSeq
<1>7. WithMb(ss, x)[n] = s /\ \A i \in 1 .. n - 1 : WithMb(ss, x)[i] = ss[i]
  <2>1. n \in 1 .. n /\ \A i \in 1 .. n - 1 : i \in 1 .. n /\ i # n
    BY <1>1, LastIndex
  <2>2. WithMb(ss, x)[n] = s
    BY <1>5, <1>6, <2>1
  <2>3. ASSUME NEW i \in 1 .. n - 1 PROVE WithMb(ss, x)[i] = ss[i]
    BY <1>5, <1>6, <2>1
  <2>4. QED
    BY <2>2, <2>3
<1>8. WithMb(ss, x) # <<>>
  BY <1>1, <1>5, <1>6, EmptySeq
<1>9. QED
  BY <1>1, <1>4, <1>5, <1>6, <1>7, <1>8 DEF Last

LEMMA NumInWithMb ==
  ASSUME NEW ss \in Seq(Slices), ss # <<>>, NEW x \in Mbs
  PROVE  NumIn(WithMb(ss, x)) = NumIn(ss) + 1
<1> DEFINE n  == Len(ss)
           tt == WithMb(ss, x)
<1>1. /\ tt \in Seq(Slices) /\ Len(tt) = n /\ n \in Nat \ {0}
      /\ \A i \in 1 .. n - 1 : tt[i] = ss[i]
      /\ tt[n].mbs = Append(ss[n].mbs, x)
  BY WithMbFields DEF Last
<1> HIDE DEF tt
<1>2. DOMAIN tt = 1 .. n /\ DOMAIN ss = 1 .. n
  BY <1>1, LenProperties
<1>3. \A i \in 1 .. n : Lengths(ss)[i] = Len(ss[i].mbs) /\ Lengths(ss)[i] \in Int
  BY <1>2, SliceFields DEF Lengths
<1>4. \A i \in 1 .. n : Lengths(tt)[i] = Len(tt[i].mbs)
  BY <1>2 DEF Lengths
<1>5. ss[n].mbs \in Seq(Mbs)
  BY <1>1, SliceFields
<1>6. Len(tt[n].mbs) = Len(ss[n].mbs) + 1
  BY <1>1, <1>5, AppendProperties
<1>7. Lengths(tt)[n] = Lengths(ss)[n] + 1 /\ \A i \in 1 .. n - 1 : Lengths(tt)[i] = Lengths(ss)[i]
  <2>1. n \in 1 .. n /\ \A i \in 1 .. n - 1 : i \in 1 .. n
    BY <1>1, LastIndex
  <2>2. QED
    BY <1>1, <1>3, <1>4, <1>6, <2>1
<1>8. Total(Lengths(tt), 1 .. n) = Total(Lengths(ss), 1 .. n) + 1
  <2> DEFINE h == Lengths(ss)
             k == Lengths(tt)
  <2>1. /\ n \in Nat /\ n # 0 /\ 1 \in Int /\ (\A i \in 1 .. n : h[i] \in Int)
        /\ (\A i \in 1 .. n - 1 : k[i] = h[i]) /\ k[n] = h[n] + 1
    BY <1>1, <1>3, <1>7
  <2> HIDE DEF h, k
  <2>2. Total(k, 1 .. n) = Total(h, 1 .. n) + 1
    BY <2>1, TotalUptoLength
  <2>3. QED
    BY <2>2 DEF h, k
<1>9. QED
  BY <1>1, <1>8, NumInTotal DEF tt

-----------------------------------------------------------------------------
(* What one macroblock adds: the three ways of counting it agree.          *)

TypeCount(mb, t) == Cardinality({q \in Quarters : GetMbTypeIdx264(mb)[q] = t})

LEMMA TypeCountIs ==
  ASSUME NEW mb, NEW t
  PROVE  /\ TypeCount(mb, t) \in 0 .. 4
         /\ TypeCount(mb, t) = One(GetMbTypeIdx264(mb)[0] = t) + One(GetMbTypeIdx264(mb)[1] = t)
                               + One(GetMbTypeIdx264(mb)[2] = t) + One(GetMbTypeIdx264(mb)[3] = t)
<1> DEFINE T == {q \in Quarters : GetMbTypeIdx264(mb)[q] = t}
<1>1. T \in SUBSET Quarters
  OBVIOUS
<1>2. \A q \in 0 .. 3 : q \in T <=> GetMbTypeIdx264(mb)[q] = t
  BY DEF Quarters
<1>3. TypeCount(mb, t) = Cardinality(T)
  BY DEF TypeCount
<1> HIDE DEF T
<1>4. /\ Cardinality(T) \in 0 .. 4
      /\ Cardinality(T) = One(0 \in T) + One(1 \in T) + One(2 \in T) + One(3 \in T)
  BY <1>1, QuarterCount
<1>5. /\ (0 \in T) = (GetMbTypeIdx264(mb)[0] = t) /\ (1 \in T) = (GetMbTypeIdx264(mb)[1] = t)
      /\ (2 \in T) = (GetMbTypeIdx264(mb)[2] = t) /\ (3 \in T) = (GetMbTypeIdx264(mb)[3] = t)
  BY <1>2
<1>6. QED
  BY <1>3, <1>4, <1>5

LEMMA PredictedIsCounted ==
  ASSUME NEW flags, IsPredicted(flags)
  PROVE  CountMbType(flags) \in MbTypeIdx
  BY DEF IsPredicted, CountMbType, MbTypeIdx, SKIPPED, FORWARD, BACKWARD, BIDIRECT, DIRECT,
         INTRA_BLK, INTRA_PLN

(* The index of a type may leave the array only at its front. *)
LEMMA TypeIndex ==
  ASSUME NEW mb, NEW q \in Quarters
  PROVE  GetMbTypeIdx264(mb)[q] \in MbQPIdx
<1>1. \A flags : CountMbType(flags) \in MbQPIdx
  BY DEF CountMbType, MbQPIdx, SKIPPED, FORWARD, BACKWARD, BIDIRECT, DIRECT, INTRA_BLK, INTRA_PLN
<1>2. \A flags, p : PartitionType(flags, p) \in MbQPIdx
  BY DEF PartitionType, MbQPIdx, FORWARD, BACKWARD, BIDIRECT
<1>3. QED
  BY <1>1, <1>2 DEF GetMbTypeIdx264

(* Of an intra macroblock, or of one partitioning, with quarters of one. *)
LEMMA MacroblockIs ==
  ASSUME NEW type, NEW mb, IsMacroblock(type, mb), "INTRA_PCM" \notin mb.type
  PROVE  \/ mb.type \ {"8x8DCT"} = {"INTRA4x4"}
         \/ mb.type \ {"8x8DCT"} = {"INTRA16x16"}
         \/ /\ ~IsIntra(mb) /\ IsPredicted(mb.type)
            /\ "16x16" \notin mb.type /\ mb.type \cap {"DIRECT2", "8x8"} # {} =>
                 \A q \in Quarters : IsPredicted(mb.sub[q])
<1>1. mb.type \ {"8x8DCT"} # {"INTRA_PCM"}
  OBVIOUS
<1>2. QED
  BY <1>1 DEF IsMacroblock

LEMMA OnePartitioning ==
  ASSUME NEW flags, IsPredicted(flags)
  PROVE  \/ "16x16" \in flags /\ "16x8" \notin flags /\ "8x16" \notin flags /\ "8x8" \notin flags
         \/ "16x16" \notin flags /\ "16x8" \in flags /\ "8x16" \notin flags /\ "8x8" \notin flags
         \/ "16x16" \notin flags /\ "16x8" \notin flags /\ "8x16" \in flags /\ "8x8" \notin flags
         \/ "16x16" \notin flags /\ "16x8" \notin flags /\ "8x16" \notin flags /\ "8x8" \in flags
<1>1. PICK s \in Partitionings : flags \cap Partitionings = {s}
  BY DEF IsPredicted
<1>2. \A x \in Partitionings : x \in flags <=> x = s
  BY <1>1
<1>3. QED
  BY <1>2 DEF Partitionings

LEMMA QuartersHaveTypes ==
  ASSUME NEW type, NEW mb, IsMacroblock(type, mb), "INTRA_PCM" \notin mb.type, NEW q \in Quarters
  PROVE  GetMbTypeIdx264(mb)[q] \in MbTypeIdx
<1> DEFINE i == GetMbTypeIdx264(mb)[q]
<1>1. CASE mb.type \ {"8x8DCT"} = {"INTRA4x4"} \/ mb.type \ {"8x8DCT"} = {"INTRA16x16"}
  <2>1. /\ "16x16" \notin mb.type /\ mb.type \cap {"DIRECT2", "8x8"} = {}
        /\ mb.type \cap {"16x8", "8x16"} = {}
    BY <1>1
  <2>2. i = CountMbType(mb.type)
    BY <2>1 DEF GetMbTypeIdx264
  <2>3. "INTRA4x4" \in mb.type \/ "INTRA16x16" \in mb.type
    BY <1>1
  <2>4. CountMbType(mb.type) \in MbTypeIdx
    BY <2>3 DEF CountMbType, MbTypeIdx, SKIPPED, FORWARD, BACKWARD, BIDIRECT, DIRECT,
                INTRA_BLK, INTRA_PLN
  <2>5. QED
    BY <2>2, <2>4
<1>2. CASE /\ IsPredicted(mb.type)
           /\ "16x16" \notin mb.type /\ mb.type \cap {"DIRECT2", "8x8"} # {} =>
                \A p \in Quarters : IsPredicted(mb.sub[p])
  <2>1. \A p : PartitionType(mb.type, p) \in MbTypeIdx
    BY DEF PartitionType, MbTypeIdx, FORWARD, BACKWARD, BIDIRECT
  <2>2. CASE "16x16" \in mb.type
    BY <1>2, <2>2, PredictedIsCounted DEF GetMbTypeIdx264
  <2>3. CASE "16x16" \notin mb.type /\ mb.type \cap {"DIRECT2", "8x8"} # {}
    <3>1. i = CountMbType(mb.sub[q])
      BY <2>3 DEF GetMbTypeIdx264
    <3>2. QED
      BY <1>2, <2>3, <3>1, PredictedIsCounted
  <2>4. CASE "16x16" \notin mb.type /\ mb.type \cap {"DIRECT2", "8x8"} = {}
    <3>1. mb.type \cap {"16x8", "8x16"} # {}
      BY <1>2, <2>4, OnePartitioning
    <3>2. i = PartitionType(mb.type, q \div 2)
      BY <2>4, <3>1 DEF GetMbTypeIdx264
    <3>3. QED
      BY <2>1, <3>2
  <2>5. QED
    BY <2>2, <2>3, <2>4
<1>3. QED
  BY <1>1, <1>2, MacroblockIs

(* Every quarter is counted with one of the seven types. *)
LEMMA TypesCover ==
  ASSUME NEW type, NEW mb, IsMacroblock(type, mb), "INTRA_PCM" \notin mb.type
  PROVE  TypeCount(mb, 0) + TypeCount(mb, 1) + TypeCount(mb, 2) + TypeCount(mb, 3)
         + TypeCount(mb, 4) + TypeCount(mb, 5) + TypeCount(mb, 6) = 4
<1> DEFINE i(q)    == GetMbTypeIdx264(mb)[q]
           e(q, t) == One(i(q) = t)
           O(q)    == e(q, 0) + e(q, 1) + e(q, 2) + e(q, 3) + e(q, 4) + e(q, 5) + e(q, 6)
<1>1. ASSUME NEW q \in Quarters PROVE O(q) = 1
  <2>1. i(q) \in 0 .. 6
    BY QuartersHaveTypes DEF MbTypeIdx
  <2> HIDE DEF i
  <2>2. QED
    BY <2>1 DEF One
<1>2. O(0) = 1 /\ O(1) = 1 /\ O(2) = 1 /\ O(3) = 1
  BY <1>1 DEF Quarters
<1>3. \A t : TypeCount(mb, t) = e(0, t) + e(1, t) + e(2, t) + e(3, t)
  BY TypeCountIs
<1>4. \A q, t : e(q, t) \in Int
  BY DEF One
<1> HIDE DEF e
<1>5. QED
  BY <1>2, <1>3, <1>4

(* The blocks cover the macroblock: 16 blocks of 4x4 pixels. *)
ShapeArea(mb) ==
  LET b == GetShapeIdx264(mb) IN b[0] + 2 * b[1] + 4 * b[2] + 8 * b[3] + 16 * b[4]

LEMMA ShapesAre ==
  ASSUME NEW mb
  PROVE  GetShapeIdx264(mb) \in [Shapes -> Nat]
<1>1. \A T \in SUBSET Quarters : Cardinality(T) \in Nat
  BY QuarterCount
<1> DEFINE A == {q \in Quarters : "16x16" \in mb.sub[q]}
           B == {q \in Quarters : mb.sub[q] \cap {"16x8", "8x16"} # {}}
           C == {q \in Quarters : "8x8" \in mb.sub[q]}
<1>2. Cardinality(A) \in Nat /\ Cardinality(B) \in Nat /\ Cardinality(C) \in Nat
  BY <1>1
<1>3. CASE mb.type \cap {"16x16", "INTRA16x16"} # {}
  BY <1>3 DEF GetShapeIdx264
<1>4. CASE mb.type \cap {"16x16", "INTRA16x16"} = {} /\ mb.type \cap {"16x8", "8x16"} # {}
  BY <1>4 DEF GetShapeIdx264
<1>5. CASE /\ mb.type \cap {"16x16", "INTRA16x16"} = {} /\ mb.type \cap {"16x8", "8x16"} = {}
           /\ "8x8" \in mb.type
  <2> DEFINE f == [s \in Shapes |->
                     CASE s = 2 -> Cardinality(A) [] s = 1 -> 2 * Cardinality(B)
                       [] s = 0 -> 4 * Cardinality(C) [] OTHER -> 0]
  <2>1. GetShapeIdx264(mb) = f
    BY <1>5 DEF GetShapeIdx264, NumQuarters
  <2> HIDE DEF A, B, C
  <2>2. f \in [Shapes -> Nat]
    BY <1>2 DEF Shapes
  <2>3. QED
    BY <2>1, <2>2
<1>6. CASE /\ mb.type \cap {"16x16", "INTRA16x16"} = {} /\ mb.type \cap {"16x8", "8x16"} = {}
           /\ "8x8" \notin mb.type
  BY <1>6 DEF GetShapeIdx264
<1>7. QED
  BY <1>3, <1>4, <1>5, <1>6

LEMMA ShapesCover ==
  ASSUME NEW type, NEW mb, IsMacroblock(type, mb), "INTRA_PCM" \notin mb.type
  PROVE  ShapeArea(mb) = 16
<1> DEFINE b == GetShapeIdx264(mb)
<1>0. 0 \in Shapes /\ 1 \in Shapes /\ 2 \in Shapes /\ 3 \in Shapes /\ 4 \in Shapes
  BY DEF Shapes
<1>1. CASE mb.type \cap {"16x16", "INTRA16x16"} # {}
  <2>1. b[0] = 0 /\ b[1] = 0 /\ b[2] = 0 /\ b[3] = 0 /\ b[4] = 1
    BY <1>0, <1>1 DEF GetShapeIdx264
  <2>2. QED
    BY <2>1 DEF ShapeArea
<1>2. CASE mb.type \ {"8x8DCT"} = {"INTRA4x4"}
  <2>1. /\ mb.type \cap {"16x16", "INTRA16x16"} = {} /\ mb.type \cap {"16x8", "8x16"} = {}
        /\ "8x8" \notin mb.type /\ "INTRA4x4" \in mb.type
    BY <1>2
  <2>2. b[0] = 16 /\ b[1] = 0 /\ b[2] = 0 /\ b[3] = 0 /\ b[4] = 0
    BY <1>0, <2>1 DEF GetShapeIdx264
  <2>3. QED
    BY <2>2 DEF ShapeArea
<1>3. CASE mb.type \cap {"16x16", "INTRA16x16"} = {} /\ mb.type \cap {"16x8", "8x16"} # {}
  <2>1. b[0] = 0 /\ b[1] = 0 /\ b[2] = 0 /\ b[3] = 2 /\ b[4] = 0
    BY <1>0, <1>3 DEF GetShapeIdx264
  <2>2. QED
    BY <2>1 DEF ShapeArea
<1>4. CASE /\ mb.type \cap {"16x16", "INTRA16x16"} = {} /\ mb.type \cap {"16x8", "8x16"} = {}
           /\ "8x8" \in mb.type /\ \A q \in Quarters : IsPredicted(mb.sub[q])
  <2> DEFINE A == {q \in Quarters : "16x16" \in mb.sub[q]}
             B == {q \in Quarters : mb.sub[q] \cap {"16x8", "8x16"} # {}}
             C == {q \in Quarters : "8x8" \in mb.sub[q]}
  <2>1. /\ b[0] = 4 * Cardinality(C) /\ b[1] = 2 * Cardinality(B) /\ b[2] = Cardinality(A)
        /\ b[3] = 0 /\ b[4] = 0
    BY <1>0, <1>4 DEF GetShapeIdx264, NumQuarters
  <2>2. A \in SUBSET Quarters /\ B \in SUBSET Quarters /\ C \in SUBSET Quarters
    OBVIOUS
  <2>3. ASSUME NEW q \in Quarters PROVE One(q \in A) + One(q \in B) + One(q \in C) = 1
    <3>1. \/ q \in A /\ q \notin B /\ q \notin C
          \/ q \notin A /\ q \in B /\ q \notin C
          \/ q \notin A /\ q \notin B /\ q \in C
      BY <1>4, OnePartitioning
    <3> HIDE DEF A, B, C
    <3>2. QED
      BY <3>1 DEF One
  <2> HIDE DEF A, B, C
  <2>4. /\ One(0 \in A) + One(0 \in B) + One(0 \in C) = 1
        /\ One(1 \in A) + One(1 \in B) + One(1 \in C) = 1
        /\ One(2 \in A) + One(2 \in B) + One(2 \in C) = 1
        /\ One(3 \in A) + One(3 \in B) + One(3 \in C) = 1
    BY <2>3 DEF Quarters
  <2>5. \A T : /\ One(0 \in T) \in Int /\ One(1 \in T) \in Int /\ One(2 \in T) \in Int
               /\ One(3 \in T) \in Int
    BY DEF One
  <2>6. Cardinality(A) + Cardinality(B) + Cardinality(C) = 4
    BY <2>2, <2>4, <2>5, QuarterCount
  <2>7. Cardinality(A) \in Int /\ Cardinality(B) \in Int /\ Cardinality(C) \in Int
    BY <2>2, QuarterCount
  <2>8. QED
    BY <2>1, <2>6, <2>7 DEF ShapeArea
<1>5. QED
  <2>1. CASE mb.type \ {"8x8DCT"} = {"INTRA16x16"}
    BY <1>1, <2>1
  <2>2. CASE /\ IsPredicted(mb.type)
             /\ "16x16" \notin mb.type /\ mb.type \cap {"DIRECT2", "8x8"} # {} =>
                  \A q \in Quarters : IsPredicted(mb.sub[q])
    BY <1>1, <1>3, <1>4, <2>2, OnePartitioning
  <2>3. QED
    BY <1>2, <2>1, <2>2, MacroblockIs

LEMMA TransformsCover ==
  ASSUME NEW type, NEW mb, IsMacroblock(type, mb)
  PROVE  LET trs == TransformShapes(mb)
         IN  trs \in [TrSizes -> Nat] /\ trs[0] + trs[2] + 4 * trs[3] = 16
<1> DEFINE coded == Cardinality(mb.cbp)
           trs   == TransformShapes(mb)
<1>1. coded \in 0 .. 4
  BY QuarterCount DEF IsMacroblock
<1>2. trs = [s \in TrSizes |->
              CASE s = 0 -> 4 * (4 - coded)
                [] s = 2 -> IF "8x8DCT" \in mb.type THEN 0 ELSE 4 * coded
                [] s = 3 -> IF "8x8DCT" \in mb.type THEN coded ELSE 0]
  BY DEF TransformShapes
<1> HIDE DEF coded, trs
<1>3. /\ trs[0] = 4 * (4 - coded)
      /\ trs[2] = IF "8x8DCT" \in mb.type THEN 0 ELSE 4 * coded
      /\ trs[3] = IF "8x8DCT" \in mb.type THEN coded ELSE 0
  BY <1>2 DEF TrSizes
<1>4. trs[0] \in Nat /\ trs[2] \in Nat /\ trs[3] \in Nat
  BY <1>1, <1>3
<1>5. \A s \in TrSizes : trs[s] \in Nat
  BY <1>4 DEF TrSizes
<1>6. trs \in [TrSizes -> Nat]
  BY <1>2, <1>5
<1>7. trs[0] + trs[2] + 4 * trs[3] = 16
  BY <1>1, <1>3
<1>8. QED
  BY <1>6, <1>7 DEF trs

-----------------------------------------------------------------------------
(* The counters after one macroblock.                                      *)

MeasuredIn(mb, curr, l) ==
  IF Moved(mb) THEN Cardinality({q \in Quarters : Uses(curr[q], q, l)}) ELSE 0

(* What Counted does to the counters. *)
CountEffect(S, R, mb, qscale, curr) ==
  /\ R \in Counters
  /\ R.MbCnt = S.MbCnt + 1
  /\ \A t \in MbTypeIdx : R.MbTypes[t] = S.MbTypes[t] + TypeCount(mb, t)
  /\ \A s \in Shapes : R.BlkShapes[s] = S.BlkShapes[s] + GetShapeIdx264(mb)[s]
  /\ \A s \in TrSizes : R.TrShapes[s] = S.TrShapes[s] + TransformShapes(mb)[s]
  /\ \A t \in MbQPIdx :
       R.MbQPs[t] = IF t = GetMbTypeIdx264(mb)[3] THEN S.MbQPs[t] + qscale ELSE S.MbQPs[t]
  /\ R.QpSum = S.QpSum + qscale
  /\ R.NumBlksIntra = IF IsInter(mb) THEN S.NumBlksIntra ELSE S.NumBlksIntra + 16
  /\ R.NumBlksSkip = IF IsInter(mb) /\ "SKIP" \in mb.type THEN S.NumBlksSkip + 4 ELSE S.NumBlksSkip
  /\ R.NumBlksMv = IF Moved(mb) THEN S.NumBlksMv + 16 ELSE S.NumBlksMv
  /\ R.FwdQuarters = S.FwdQuarters + MeasuredIn(mb, curr, 0)
  /\ R.BwdQuarters = S.BwdQuarters + MeasuredIn(mb, curr, 1)

LEMMA CounterFields ==
  ASSUME NEW S \in Counters
  PROVE  /\ S.MbCnt \in Nat /\ S.MbTypes \in [MbTypeIdx -> Nat] /\ S.BlkShapes \in [Shapes -> Nat]
         /\ S.TrShapes \in [TrSizes -> Nat] /\ S.MbQPs \in [MbQPIdx -> Nat]
         /\ S.min_QP \in Nat /\ S.max_QP \in Nat /\ S.QpSum \in Nat /\ S.NumBlksIntra \in Nat
         /\ S.NumBlksSkip \in Nat /\ S.NumBlksMv \in Nat /\ S.FwdQuarters \in Nat
         /\ S.BwdQuarters \in Nat
  BY DEF Counters

LEMMA CountedFields ==
  ASSUME NEW S \in Counters, NEW type, NEW mb, IsMacroblock(type, mb), NEW qscale \in Nat, NEW curr
  PROVE  CountEffect(S, Counted(S, mb, qscale, curr), mb, qscale, curr)
<1> DEFINE i  == GetMbTypeIdx264(mb)[3]
           a1 == S.MbCnt + 1
           a2 == [t \in MbTypeIdx |-> S.MbTypes[t] + TypeCount(mb, t)]
           a3 == [s \in Shapes |-> S.BlkShapes[s] + GetShapeIdx264(mb)[s]]
           a4 == [s \in TrSizes |-> S.TrShapes[s] + TransformShapes(mb)[s]]
           a5 == S.MbQPs[i] + qscale
           a6 == IF qscale < S.min_QP THEN qscale ELSE S.min_QP
           a7 == IF qscale > S.max_QP THEN qscale ELSE S.max_QP
           a8 == S.QpSum + qscale
           a9 == IF IsInter(mb) THEN S.NumBlksIntra ELSE S.NumBlksIntra + 16
           a10 == IF IsInter(mb) /\ "SKIP" \in mb.type THEN S.NumBlksSkip + 4 ELSE S.NumBlksSkip
           a11 == IF Moved(mb) THEN S.NumBlksMv + 16 ELSE S.NumBlksMv
           a12 == S.FwdQuarters + MeasuredIn(mb, curr, 0)
           a13 == S.BwdQuarters + MeasuredIn(mb, curr, 1)
           R == [S EXCEPT !.MbCnt = a1, !.MbTypes = a2, !.BlkShapes = a3, !.TrShapes = a4,
                          !.MbQPs[i] = a5, !.min_QP = a6, !.max_QP = a7, !.QpSum = a8,
                          !.NumBlksIntra = a9, !.NumBlksSkip = a10, !.NumBlksMv = a11,
                          !.FwdQuarters = a12, !.BwdQuarters = a13]
<1>1. R = Counted(S, mb, qscale, curr)
  BY Zenon DEF Counted, NumQuarters, TypeCount, Moved, MeasuredIn
<1>2. i \in MbQPIdx
  BY TypeIndex DEF Quarters
<1>3. \A l : MeasuredIn(mb, curr, l) \in Nat
  <2>1. ASSUME NEW l PROVE Cardinality({q \in Quarters : Uses(curr[q], q, l)}) \in Nat
    BY QuarterCount
  <2>2. QED
    BY <2>1 DEF MeasuredIn
<1>4. a1 \in Nat /\ a6 \in Nat /\ a7 \in Nat /\ a8 \in Nat /\ a9 \in Nat /\ a10 \in Nat /\ a11 \in Nat
  BY CounterFields
<1>5. a12 \in Nat /\ a13 \in Nat
  BY <1>3, CounterFields
<1>6. a5 \in Nat
  BY <1>2, CounterFields
<1>7. a2 \in [MbTypeIdx -> Nat]
  BY CounterFields, TypeCountIs
<1>8. a3 \in [Shapes -> Nat]
  BY CounterFields, ShapesAre
<1>9. a4 \in [TrSizes -> Nat]
  BY CounterFields, TransformsCover
<1>10. /\ \A t \in MbTypeIdx : a2[t] = S.MbTypes[t] + TypeCount(mb, t)
       /\ \A s \in Shapes : a3[s] = S.BlkShapes[s] + GetShapeIdx264(mb)[s]
       /\ \A s \in TrSizes : a4[s] = S.TrShapes[s] + TransformShapes(mb)[s]
  OBVIOUS
<1>11. \A t \in MbQPIdx : [S.MbQPs EXCEPT ![i] = a5][t] = IF t = i THEN a5 ELSE S.MbQPs[t]
  BY <1>2, CounterFields
<1> HIDE DEF i, a1, a2, a3, a4, a5, a6, a7, a8, a9, a10, a11, a12, a13
<1>12. /\ R \in Counters
       /\ R.MbCnt = a1 /\ R.MbTypes = a2 /\ R.BlkShapes = a3 /\ R.TrShapes = a4
       /\ R.MbQPs = [S.MbQPs EXCEPT ![i] = a5]
       /\ R.QpSum = a8 /\ R.NumBlksIntra = a9 /\ R.NumBlksSkip = a10 /\ R.NumBlksMv = a11
       /\ R.FwdQuarters = a12 /\ R.BwdQuarters = a13
  BY <1>2, <1>4, <1>5, <1>6, <1>7, <1>8, <1>9, ZenonT(60) DEF Counters
<1> HIDE DEF R
<1>13. \A t \in MbQPIdx : R.MbQPs[t] = IF t = i THEN a5 ELSE S.MbQPs[t]
  BY <1>11, <1>12
<1>14. QED
  BY <1>1, <1>10, <1>12, <1>13 DEF CountEffect, i, a1, a5, a8, a9, a10, a11, a12, a13

-----------------------------------------------------------------------------
(* The sums of the assertions, and of the QPs, of any record of counters.  *)

AssertsOf(R) ==
  /\ R.TrShapes[0] + R.TrShapes[2] + 4 * R.TrShapes[3] = 16 * R.MbCnt
  /\ SumOf(R.MbTypes) = 4 * R.MbCnt
  /\ SumOf([s \in Shapes |-> 2^s * R.BlkShapes[s]]) = 16 * R.MbCnt

QPsOf(R) == SumOf([t \in MbTypeIdx |-> R.MbQPs[t]])

LEMMA SumsOfCounters ==
  ASSUME NEW R \in Counters
  PROVE  LET m == R.MbTypes
             b == R.BlkShapes
             p == R.MbQPs
         IN  /\ SumOf(m) = m[0] + m[1] + m[2] + m[3] + m[4] + m[5] + m[6]
             /\ SumOf([s \in Shapes |-> 2^s * b[s]])
                  = b[0] + 2 * b[1] + 4 * b[2] + 8 * b[3] + 16 * b[4]
             /\ QPsOf(R) = p[0] + p[1] + p[2] + p[3] + p[4] + p[5] + p[6]
<1> DEFINE m == R.MbTypes
           b == R.BlkShapes
           p == R.MbQPs
           w == [s \in Shapes |-> 2^s * b[s]]
           r == [t \in MbTypeIdx |-> p[t]]
<1>1. m \in [MbTypeIdx -> Nat] /\ b \in [Shapes -> Nat] /\ p \in [MbQPIdx -> Nat]
  BY CounterFields
<1>2. SumOf(m) = m[0] + m[1] + m[2] + m[3] + m[4] + m[5] + m[6]
  BY <1>1, SumOfMbTypes
<1>3. /\ b[0] \in Nat /\ b[1] \in Nat /\ b[2] \in Nat /\ b[3] \in Nat /\ b[4] \in Nat
  BY <1>1 DEF Shapes
<1>4. DOMAIN w = Shapes /\ w[0] = b[0] /\ w[1] = 2 * b[1] /\ w[2] = 4 * b[2] /\ w[3] = 8 * b[3]
      /\ w[4] = 16 * b[4]
  <2>1. 2^0 = 1 /\ 2^1 = 2 /\ 2^2 = 4 /\ 2^3 = 8 /\ 2^4 = 16
    OBVIOUS
  <2>2. w[0] = 2^0 * b[0] /\ w[1] = 2^1 * b[1] /\ w[2] = 2^2 * b[2] /\ w[3] = 2^3 * b[3]
        /\ w[4] = 2^4 * b[4]
    BY DEF Shapes
  <2>3. QED
    BY <1>3, <2>1, <2>2
<1>5. DOMAIN r = MbTypeIdx /\ \A t \in MbTypeIdx : r[t] = p[t] /\ r[t] \in Nat
  BY <1>1 DEF MbTypeIdx, MbQPIdx
<1> HIDE DEF b, p, w, r
<1>6. \A s \in Shapes : w[s] \in Int
  BY <1>3, <1>4 DEF Shapes
<1>7. SumOf(w) = w[0] + w[1] + w[2] + w[3] + w[4]
  BY <1>4, <1>6, SumOfShapes
<1>8. SumOf(r) = r[0] + r[1] + r[2] + r[3] + r[4] + r[5] + r[6]
  BY <1>5, SumOfMbTypes
<1>9. SumOf(r) = p[0] + p[1] + p[2] + p[3] + p[4] + p[5] + p[6]
  BY <1>5, <1>8 DEF MbTypeIdx
<1>10. SumOf(w) = b[0] + 2 * b[1] + 4 * b[2] + 8 * b[3] + 16 * b[4]
  BY <1>4, <1>7
<1>11. QED
  BY <1>2, <1>9, <1>10 DEF QPsOf, m, b, p, w, r

(* The assertions hold of counters that were cleared ... *)
LEMMA ClearedIs ==
  ASSUME NEW qscale \in Nat
  PROVE  LET R == Cleared(qscale)
         IN  /\ R \in Counters /\ AssertsOf(R)
             /\ R.MbCnt = 0 /\ R.NumBlksIntra = 0 /\ R.NumBlksSkip = 0 /\ R.NumBlksMv = 0
             /\ R.FwdQuarters = 0 /\ R.BwdQuarters = 0
             /\ R.MbQPs[-1] = qscale /\ QPsOf(R) = 0 /\ R.QpSum = 0
<1> DEFINE R == Cleared(qscale)
<1>1. /\ R.MbCnt = 0 /\ R.NumBlksIntra = 0 /\ R.NumBlksSkip = 0 /\ R.NumBlksMv = 0
      /\ R.FwdQuarters = 0 /\ R.BwdQuarters = 0 /\ R.QpSum = 0
      /\ R.MbTypes = [t \in MbTypeIdx |-> 0] /\ R.BlkShapes = [s \in Shapes |-> 0]
      /\ R.TrShapes = [s \in TrSizes |-> 0]
      /\ R.MbQPs = [t \in MbQPIdx |-> IF t = -1 THEN qscale ELSE 0]
  BY DEF Cleared
<1>2. R \in Counters
  <2>1. /\ [t \in MbTypeIdx |-> 0] \in [MbTypeIdx -> Nat] /\ [s \in Shapes |-> 0] \in [Shapes -> Nat]
        /\ [s \in TrSizes |-> 0] \in [TrSizes -> Nat]
        /\ [t \in MbQPIdx |-> IF t = -1 THEN qscale ELSE 0] \in [MbQPIdx -> Nat]
    OBVIOUS
  <2>2. QED
    BY <2>1 DEF Cleared, Counters
<1> HIDE DEF R
<1>3. \A t \in MbTypeIdx : R.MbTypes[t] = 0
  BY <1>1
<1>4. \A s \in Shapes : R.BlkShapes[s] = 0
  BY <1>1
<1>5. R.TrShapes[0] = 0 /\ R.TrShapes[2] = 0 /\ R.TrShapes[3] = 0
  BY <1>1 DEF TrSizes
<1>6. R.MbQPs[-1] = qscale
  BY <1>1 DEF MbQPIdx
<1>7. \A t \in MbTypeIdx : R.MbQPs[t] = 0
  <2>1. \A t \in MbTypeIdx : t \in MbQPIdx /\ t # -1
    BY DEF MbTypeIdx, MbQPIdx
  <2>2. QED
    BY <1>1, <2>1
<1>8. QPsOf(R) = 0
  <2> DEFINE p == R.MbQPs
  <2>1. QPsOf(R) = p[0] + p[1] + p[2] + p[3] + p[4] + p[5] + p[6]
    BY <1>2, SumsOfCounters
  <2>2. p[0] = 0 /\ p[1] = 0 /\ p[2] = 0 /\ p[3] = 0 /\ p[4] = 0 /\ p[5] = 0 /\ p[6] = 0
    BY <1>7 DEF MbTypeIdx
  <2> HIDE DEF p
  <2>3. QED
    BY <2>1, <2>2
<1>9. SumOf(R.MbTypes) = 0
  <2> DEFINE m == R.MbTypes
  <2>1. SumOf(m) = m[0] + m[1] + m[2] + m[3] + m[4] + m[5] + m[6]
    BY <1>2, SumsOfCounters
  <2>2. m[0] = 0 /\ m[1] = 0 /\ m[2] = 0 /\ m[3] = 0 /\ m[4] = 0 /\ m[5] = 0 /\ m[6] = 0
    BY <1>3 DEF MbTypeIdx
  <2> HIDE DEF m
  <2>3. QED
    BY <2>1, <2>2 DEF m
<1>10. SumOf([s \in Shapes |-> 2^s * R.BlkShapes[s]]) = 0
  <2> DEFINE b == R.BlkShapes
             W == SumOf([s \in Shapes |-> 2^s * b[s]])
  <2>1. W = b[0] + 2 * b[1] + 4 * b[2] + 8 * b[3] + 16 * b[4]
    BY <1>2, SumsOfCounters
  <2>2. b[0] = 0 /\ b[1] = 0 /\ b[2] = 0 /\ b[3] = 0 /\ b[4] = 0
    BY <1>4 DEF Shapes
  <2> HIDE DEF b, W
  <2>3. W = 0
    BY <2>1, <2>2
  <2>4. QED
    BY <2>3 DEF b, W
<1>11. AssertsOf(R)
  BY <1>1, <1>5, <1>9, <1>10 DEF AssertsOf
<1>12. QED
  BY <1>1, <1>2, <1>6, <1>8, <1>11 DEF R

LEMMA TransformsAdd ==
  ASSUME NEW a0 \in Int, NEW a2 \in Int, NEW a3 \in Int, NEW b0 \in Int, NEW b2 \in Int,
         NEW b3 \in Int, NEW n \in Int, a0 + a2 + 4 * a3 = 16 * n, b0 + b2 + 4 * b3 = 16
  PROVE  (a0 + b0) + (a2 + b2) + 4 * (a3 + b3) = 16 * (n + 1)
  OBVIOUS

(* ... and stay true when a macroblock is counted that is not INTRA_PCM;   *)
(* its QP goes to one of the seven sums.                                   *)
LEMMA CountKeepsSums ==
  ASSUME NEW S \in Counters, NEW R, NEW type, NEW mb, IsMacroblock(type, mb),
         "INTRA_PCM" \notin mb.type, NEW qscale \in Nat, NEW curr,
         CountEffect(S, R, mb, qscale, curr)
  PROVE  /\ AssertsOf(S) => AssertsOf(R)
         /\ R.MbQPs[-1] = S.MbQPs[-1]
         /\ QPsOf(S) = S.QpSum => QPsOf(R) = R.QpSum
<1>1. R \in Counters /\ R.MbCnt = S.MbCnt + 1 /\ R.QpSum = S.QpSum + qscale
      /\ S.MbCnt \in Nat /\ S.QpSum \in Nat
  BY CounterFields DEF CountEffect
<1>2. AssertsOf(S) => R.TrShapes[0] + R.TrShapes[2] + 4 * R.TrShapes[3] = 16 * R.MbCnt
  <2> DEFINE trs == TransformShapes(mb)
  <2>1. R.TrShapes[0] = S.TrShapes[0] + trs[0] /\ R.TrShapes[2] = S.TrShapes[2] + trs[2]
        /\ R.TrShapes[3] = S.TrShapes[3] + trs[3]
    BY DEF CountEffect, TrSizes
  <2>2. trs[0] + trs[2] + 4 * trs[3] = 16 /\ trs \in [TrSizes -> Nat]
    BY TransformsCover
  <2>3. trs[0] \in Nat /\ trs[2] \in Nat /\ trs[3] \in Nat
    BY <2>2 DEF TrSizes
  <2>4. S.TrShapes[0] \in Nat /\ S.TrShapes[2] \in Nat /\ S.TrShapes[3] \in Nat
    BY CounterFields DEF TrSizes
  <2>5. AssertsOf(S) => S.TrShapes[0] + S.TrShapes[2] + 4 * S.TrShapes[3] = 16 * S.MbCnt
    BY DEF AssertsOf
  <2> DEFINE a == S.TrShapes
             n == S.MbCnt
  <2>6. n \in Int /\ a[0] \in Int /\ a[2] \in Int /\ a[3] \in Int
        /\ trs[0] \in Int /\ trs[2] \in Int /\ trs[3] \in Int
    BY <1>1, <2>3, <2>4
  <2> HIDE DEF trs
  <2>7. ASSUME a[0] + a[2] + 4 * a[3] = 16 * n
        PROVE  (a[0] + trs[0]) + (a[2] + trs[2]) + 4 * (a[3] + trs[3]) = 16 * (n + 1)
    <3> HIDE DEF a, n
    <3>1. QED
      BY <2>2, <2>6, <2>7, TransformsAdd
  <2>8. QED
    BY <1>1, <2>1, <2>5, <2>7, Zenon
<1>3. AssertsOf(S) => SumOf(R.MbTypes) = 4 * R.MbCnt
  <2> DEFINE m == S.MbTypes
             k == R.MbTypes
             d == [t \in 0 .. 6 |-> TypeCount(mb, t)]
  <2>1. \A t \in 0 .. 6 : k[t] = m[t] + d[t] /\ m[t] \in Nat /\ d[t] \in Nat
    BY CounterFields, TypeCountIs DEF CountEffect, MbTypeIdx
  <2>2. SumOf(m) = m[0] + m[1] + m[2] + m[3] + m[4] + m[5] + m[6]
        /\ SumOf(k) = k[0] + k[1] + k[2] + k[3] + k[4] + k[5] + k[6]
    BY <1>1, SumsOfCounters
  <2>3. d[0] + d[1] + d[2] + d[3] + d[4] + d[5] + d[6] = 4
    BY TypesCover
  <2>4. AssertsOf(S) => SumOf(m) = 4 * S.MbCnt
    BY DEF AssertsOf
  <2> HIDE DEF m, k, d
  <2>5. SumOf(k) = SumOf(m) + 4
    <3>1. /\ k[0] = m[0] + d[0] /\ k[1] = m[1] + d[1] /\ k[2] = m[2] + d[2] /\ k[3] = m[3] + d[3]
          /\ k[4] = m[4] + d[4] /\ k[5] = m[5] + d[5] /\ k[6] = m[6] + d[6]
      BY <2>1
    <3>2. /\ m[0] \in Nat /\ m[1] \in Nat /\ m[2] \in Nat /\ m[3] \in Nat /\ m[4] \in Nat
          /\ m[5] \in Nat /\ m[6] \in Nat
          /\ d[0] \in Nat /\ d[1] \in Nat /\ d[2] \in Nat /\ d[3] \in Nat /\ d[4] \in Nat
          /\ d[5] \in Nat /\ d[6] \in Nat
      BY <2>1
    <3>3. QED
      BY <2>2, <2>3, <3>1, <3>2
  <2>6. QED
    BY <1>1, <2>4, <2>5 DEF k
<1>4. AssertsOf(S) => SumOf([s \in Shapes |-> 2^s * R.BlkShapes[s]]) = 16 * R.MbCnt
  <2> DEFINE b == S.BlkShapes
             k == R.BlkShapes
             d == GetShapeIdx264(mb)
             W == SumOf([s \in Shapes |-> 2^s * b[s]])
             X == SumOf([s \in Shapes |-> 2^s * k[s]])
  <2>1. \A s \in 0 .. 4 : k[s] = b[s] + d[s] /\ b[s] \in Nat /\ d[s] \in Nat
    BY CounterFields, ShapesAre DEF CountEffect, Shapes
  <2>2. W = b[0] + 2 * b[1] + 4 * b[2] + 8 * b[3] + 16 * b[4]
        /\ X = k[0] + 2 * k[1] + 4 * k[2] + 8 * k[3] + 16 * k[4]
    BY <1>1, SumsOfCounters
  <2>3. d[0] + 2 * d[1] + 4 * d[2] + 8 * d[3] + 16 * d[4] = 16
    BY ShapesCover DEF ShapeArea
  <2>4. AssertsOf(S) => W = 16 * S.MbCnt
    BY DEF AssertsOf
  <2> HIDE DEF b, d, W, X
  <2>5. X = W + 16
    BY <2>1, <2>2, <2>3
  <2>6. QED
    BY <1>1, <2>4, <2>5 DEF X
<1>5. R.MbQPs[-1] = S.MbQPs[-1]
  <2>1. GetMbTypeIdx264(mb)[3] # -1 /\ -1 \in MbQPIdx
    BY QuartersHaveTypes DEF MbTypeIdx, MbQPIdx, Quarters
  <2>2. QED
    BY <2>1 DEF CountEffect
<1>6. QPsOf(R) = QPsOf(S) + qscale /\ QPsOf(S) \in Int
  <2> DEFINE p == S.MbQPs
             k == R.MbQPs
             i == GetMbTypeIdx264(mb)[3]
  <2>1. i \in 0 .. 6
    BY QuartersHaveTypes DEF MbTypeIdx, Quarters
  <2>2. \A t \in 0 .. 6 : p[t] \in Nat /\ k[t] = IF t = i THEN p[t] + qscale ELSE p[t]
    BY CounterFields DEF CountEffect, MbQPIdx
  <2>3. QPsOf(S) = p[0] + p[1] + p[2] + p[3] + p[4] + p[5] + p[6]
        /\ QPsOf(R) = k[0] + k[1] + k[2] + k[3] + k[4] + k[5] + k[6]
    BY <1>1, SumsOfCounters
  <2> HIDE DEF p, k, i
  <2>4. QED
    BY <2>1, <2>2, <2>3
<1>7. QED
  BY <1>1, <1>2, <1>3, <1>4, <1>5, <1>6 DEF AssertsOf

-----------------------------------------------------------------------------
(* The quarters that are predicted, over the macroblocks of a slice.       *)

Pairs(mbs, l) ==
  {p \in (DOMAIN mbs) \X Quarters : Moved(mbs[p[1]].mb) /\ PredictedFrom(mbs[p[1]].mb, p[2], l)}

PredictedIn(mb, l) ==
  IF Moved(mb) THEN Cardinality({q \in Quarters : PredictedFrom(mb, q, l)}) ELSE 0

LEMMA PairsFinite ==
  ASSUME NEW mbs \in Seq(Mbs), NEW l
  PROVE  IsFiniteSet(Pairs(mbs, l)) /\ Cardinality(Pairs(mbs, l)) \in Nat
<1>1. IsFiniteSet(1 .. Len(mbs)) /\ DOMAIN mbs = 1 .. Len(mbs) /\ IsFiniteSet(Quarters)
  <2>1. Len(mbs) \in Nat /\ DOMAIN mbs = 1 .. Len(mbs)
    BY LenProperties
  <2>2. QED
    BY <2>1, NumbersUpto, QuarterCount
<1>2. IsFiniteSet((DOMAIN mbs) \X Quarters)
  BY <1>1, FS_Product
<1>3. Pairs(mbs, l) \subseteq (DOMAIN mbs) \X Quarters
  BY DEF Pairs
<1>4. QED
  BY <1>2, <1>3, FS_Subset, FS_CardinalityType

LEMMA PairsEmpty ==
  ASSUME NEW l
  PROVE  Cardinality(Pairs(<<>>, l)) = 0
<1>1. Pairs(<<>>, l) = {}
  BY DEF Pairs
<1>2. QED
  BY <1>1, FS_EmptySet

LEMMA PairsAppend ==
  ASSUME NEW mbs \in Seq(Mbs), NEW x \in Mbs, NEW l
  PROVE  Cardinality(Pairs(Append(mbs, x), l)) = Cardinality(Pairs(mbs, l)) + PredictedIn(x.mb, l)
<1> DEFINE n  == Len(mbs)
           k  == Len(mbs) + 1
           ms == Append(mbs, x)
           T  == {q \in Quarters : Moved(x.mb) /\ PredictedFrom(x.mb, q, l)}
           P  == Pairs(mbs, l)
           N  == {k} \X T
<1>1. /\ ms \in Seq(Mbs) /\ Len(ms) = k /\ n \in Nat
      /\ (\A i \in 1 .. n : ms[i] = mbs[i]) /\ ms[k] = x
  BY AppendProperties, LenProperties
<1>2. DOMAIN ms = (1 .. n) \cup {k} /\ DOMAIN mbs = 1 .. n /\ k \notin 1 .. n
  BY <1>1, LenProperties, NumbersUpto
<1> HIDE DEF ms, n, k
<1>3. Pairs(ms, l) = P \cup N
  <2> DEFINE In(i, q) == Moved(ms[i].mb) /\ PredictedFrom(ms[i].mb, q, l)
  <2>1. ASSUME NEW p PROVE p \in Pairs(ms, l) => p \in P \cup N
    <3>1. SUFFICES ASSUME p \in Pairs(ms, l) PROVE p \in P \cup N
      OBVIOUS
    <3>2. PICK i \in DOMAIN ms, q \in Quarters : p = <<i, q>>
      BY <3>1 DEF Pairs
    <3>3. Moved(ms[i].mb) /\ PredictedFrom(ms[i].mb, q, l)
      BY <3>1, <3>2 DEF Pairs
    <3>4. CASE i \in 1 .. n
      <4>1. Moved(mbs[i].mb) /\ PredictedFrom(mbs[i].mb, q, l) /\ i \in DOMAIN mbs
        BY <1>1, <1>2, <3>3, <3>4
      <4>2. QED
        BY <3>2, <4>1 DEF Pairs
    <3>5. CASE i = k
      BY <1>1, <3>2, <3>3, <3>5
    <3>6. QED
      BY <1>2, <3>4, <3>5
  <2>2. ASSUME NEW p \in P PROVE p \in Pairs(ms, l)
    <3>1. PICK i \in DOMAIN mbs, q \in Quarters : p = <<i, q>>
      BY <2>2 DEF Pairs
    <3>2. Moved(mbs[i].mb) /\ PredictedFrom(mbs[i].mb, q, l)
      BY <2>2, <3>1 DEF Pairs
    <3>3. ms[i] = mbs[i] /\ i \in DOMAIN ms
      BY <1>1, <1>2
    <3>4. QED
      BY <3>1, <3>2, <3>3 DEF Pairs
  <2>3. ASSUME NEW p \in N PROVE p \in Pairs(ms, l)
    <3>1. PICK q \in T : p = <<k, q>>
      OBVIOUS
    <3>2. k \in DOMAIN ms /\ ms[k] = x /\ q \in Quarters
      BY <1>1, <1>2
    <3>3. QED
      BY <3>1, <3>2 DEF Pairs
  <2>4. QED
    BY <2>1, <2>2, <2>3
<1>4. P \cap N = {}
  <2>1. \A p \in P : p[1] \in 1 .. n
    BY <1>2 DEF Pairs
  <2>2. \A p \in N : p[1] = k
    OBVIOUS
  <2>3. QED
    BY <1>2, <2>1, <2>2
<1>5. IsFiniteSet(N) /\ Cardinality(N) = Cardinality(T) /\ Cardinality(T) \in Nat
  <2>1. IsFiniteSet(T) /\ Cardinality(T) \in Nat
    <3>1. T \in SUBSET Quarters
      OBVIOUS
    <3> HIDE DEF T
    <3>2. QED
      BY <3>1, QuarterCount
  <2>2. IsFiniteSet({k}) /\ Cardinality({k}) = 1
    BY FS_Singleton
  <2> HIDE DEF T
  <2>3. IsFiniteSet({k} \X T) /\ Cardinality({k} \X T) = 1 * Cardinality(T)
    BY <2>1, <2>2, FS_Product
  <2>4. QED
    BY <2>1, <2>3
<1>6. Cardinality(T) = PredictedIn(x.mb, l)
  <2>1. CASE Moved(x.mb)
    <3>1. T = {q \in Quarters : PredictedFrom(x.mb, q, l)}
      BY <2>1
    <3>2. QED
      BY <2>1, <3>1 DEF PredictedIn
  <2>2. CASE ~Moved(x.mb)
    <3>1. T = {}
      BY <2>2
    <3>2. QED
      BY <2>2, <3>1, FS_EmptySet DEF PredictedIn
  <2>3. QED
    BY <2>1, <2>2
<1> HIDE DEF P, N, T
<1>7. IsFiniteSet(P) /\ Cardinality(P) \in Nat
  BY PairsFinite DEF P
<1>8. Cardinality(P \cup N) = Cardinality(P) + Cardinality(N) - Cardinality(P \cap N)
  BY <1>5, <1>7, FS_Union
<1>9. Cardinality(P \cap N) = 0
  BY <1>4, FS_EmptySet
<1>10. Cardinality(P \cup N) = Cardinality(P) + Cardinality(T)
  BY <1>5, <1>7, <1>8, <1>9
<1>11. QED
  BY <1>3, <1>6, <1>10 DEF ms, P

(* The motion of a quarter is measured in the directions it is predicted   *)
(* in: the types that CurrTypes puts in the place of an 8x8 macroblock's   *)
(* come up in B pictures only.                                             *)
LEMMA UsesPredicted ==
  ASSUME NEW mb, IsMacroblock(slice_type, mb), Moved(mb), NEW q \in Quarters, NEW l \in 0 .. 1,
         NEW curr \in CurrTypes(mb, pict_type = "B"),
         "B" \in {pict_type, slice_type} => "8x8" \notin mb.type
  PROVE  Uses(curr[q], q, l) <=> PredictedFrom(mb, q, l)
<1>1. curr[q] = mb.type
  BY DEF CurrTypes
<1>2. ~IsIntra(mb)
  BY DEF Moved, IsInter
<1>3. IsPredicted(mb.type)
  BY <1>2 DEF IsMacroblock, IsIntra
<1>4. "8x8" \in mb.type => (ListUse(mb.type, l) <=> Pred(0, l) \in mb.sub[q])
  <2>1. "8x8" \in mb.type => slice_type # "B"
    OBVIOUS
  <2>2. ~(\E intra \in {"INTRA4x4", "INTRA16x16", "INTRA_PCM"} : mb.type \ {"8x8DCT"} = {intra})
    BY <1>2 DEF IsIntra
  <2>3. slice_type # "B" /\ "8x8" \in mb.type =>
          \A p \in Quarters, k \in 0 .. 1 : ListUse(mb.type, k) <=> Pred(0, k) \in mb.sub[p]
    BY <2>2 DEF IsMacroblock
  <2>4. QED
    BY <2>1, <2>3
<1>5. CASE "16x16" \in mb.type
  BY <1>1, <1>3, <1>5, OnePartitioning DEF Uses, PredictedFrom
<1>6. CASE "16x8" \in mb.type
  BY <1>1, <1>3, <1>6, OnePartitioning DEF Uses, PredictedFrom
<1>7. CASE "8x16" \in mb.type
  BY <1>1, <1>3, <1>7, OnePartitioning DEF Uses, PredictedFrom
<1>8. CASE "8x8" \in mb.type
  BY <1>1, <1>3, <1>4, <1>8, OnePartitioning DEF Uses, PredictedFrom
<1>9. QED
  BY <1>3, <1>5, <1>6, <1>7, <1>8, OnePartitioning

LEMMA MeasuredIsPredicted ==
  ASSUME NEW mb, IsMacroblock(slice_type, mb), NEW l \in 0 .. 1,
         NEW curr \in CurrTypes(mb, pict_type = "B"),
         "B" \in {pict_type, slice_type} => "8x8" \notin mb.type
  PROVE  MeasuredIn(mb, curr, l) = PredictedIn(mb, l)
<1>1. CASE Moved(mb)
  <2>1. {q \in Quarters : Uses(curr[q], q, l)} = {q \in Quarters : PredictedFrom(mb, q, l)}
    BY <1>1, UsesPredicted
  <2>2. QED
    BY <1>1, <2>1 DEF MeasuredIn, PredictedIn
<1>2. CASE ~Moved(mb)
  BY <1>2 DEF MeasuredIn, PredictedIn
<1>3. QED
  BY <1>1, <1>2

-----------------------------------------------------------------------------
(* The invariant.                                                          *)

SlicesOf ==
  /\ slices \in Seq(Slices)
  /\ slices # <<>> => slice_type \in SliceTypes

OutputOf == output => slices # <<>>

(* The assertions hold at any time, not only when the picture is output. *)
AssertsHold == slices # <<>> /\ ~HasPCM => Asserts

IInv == TypeOK /\ SlicesOf /\ OutputOf /\ AssertsHold /\ LastSliceCounted /\ TypeQPsConserved
        /\ MotionMeasured

(* The properties in terms of the counters and of the last slice. *)
HasIn(mbs, flag) == \E i \in DOMAIN mbs : flag \in mbs[i].mb.type

BlocksOf(R) == R.NumBlksIntra + 4 * R.NumBlksSkip + R.NumBlksMv = 16 * R.MbCnt

LEMMA CountsSome ==
  ASSUME NEW mbs \in Seq(Mbs), NEW flag
  PROVE  LET C == Cardinality({i \in DOMAIN mbs : flag \in mbs[i].mb.type})
         IN  (C > 0 <=> HasIn(mbs, flag)) /\ (C = 0 <=> ~HasIn(mbs, flag))
<1> DEFINE T == {i \in DOMAIN mbs : flag \in mbs[i].mb.type}
<1>1. IsFiniteSet(T)
  <2>1. Len(mbs) \in Nat /\ DOMAIN mbs = 1 .. Len(mbs)
    BY LenProperties
  <2>2. IsFiniteSet(DOMAIN mbs)
    BY <2>1, NumbersUpto
  <2>3. QED
    BY <2>2, FS_Subset
<1>2. T = {} <=> ~HasIn(mbs, flag)
  BY DEF HasIn
<1> HIDE DEF T
<1>3. Cardinality(T) \in Nat /\ (Cardinality(T) = 0 <=> T = {})
  BY <1>1, FS_CardinalityType, FS_EmptySet
<1>4. QED
  BY <1>2, <1>3 DEF T

LEMMA HasInAppend ==
  ASSUME NEW mbs \in Seq(Mbs), NEW x \in Mbs, NEW flag
  PROVE  HasIn(Append(mbs, x), flag) <=> HasIn(mbs, flag) \/ flag \in x.mb.type
<1> DEFINE n  == Len(mbs)
           k  == Len(mbs) + 1
           ms == Append(mbs, x)
<1>1. /\ ms \in Seq(Mbs) /\ Len(ms) = k /\ n \in Nat
      /\ (\A i \in 1 .. n : ms[i] = mbs[i]) /\ ms[k] = x
  BY AppendProperties, LenProperties
<1>2. DOMAIN ms = (1 .. n) \cup {k} /\ DOMAIN mbs = 1 .. n
  BY <1>1, LenProperties, NumbersUpto
<1> HIDE DEF ms, n, k
<1>3. QED
  BY <1>1, <1>2 DEF HasIn, ms

LEMMA LastSlice ==
  ASSUME slices \in Seq(Slices)
  PROVE  LastMbs \in Seq(Mbs)
<1>1. CASE slices = <<>>
  BY <1>1, EmptySeq DEF LastMbs
<1>2. CASE slices # <<>>
  <2>1. Len(slices) \in 1 .. Len(slices)
    BY <1>2, EmptySeq
  <2>2. QED
    BY <1>2, <2>1, SliceFields DEF LastMbs, Last
<1>3. QED
  BY <1>1, <1>2

Restated ==
  /\ HasPCM <=> HasIn(LastMbs, "INTRA_PCM")
  /\ Asserts <=> AssertsOf(FrmStat)
  /\ LastSliceCounted <=> (FrmStat.MbCnt = Len(LastMbs) \/ slices = <<>>) /\ BlocksOf(FrmStat)
  /\ TypeQPsConserved <=>
       (slices # <<>> /\ ~HasPCM =>
          FrmStat.MbQPs[-1] = Last(slices).QP /\ QPsOf(FrmStat) = FrmStat.QpSum)
  /\ MotionMeasured <=>
       (("B" \in {pict_type, slice_type} => ~HasIn(LastMbs, "8x8")) =>
          \/ slices = <<>>
          \/ /\ FrmStat.FwdQuarters = Cardinality(Pairs(LastMbs, 0))
             /\ FrmStat.BwdQuarters = Cardinality(Pairs(LastMbs, 1)))

LEMMA InvariantIs == slices \in Seq(Slices) => Restated
<1> SUFFICES ASSUME slices \in Seq(Slices) PROVE Restated
  OBVIOUS
<1>1. LastMbs \in Seq(Mbs)
  BY LastSlice
<1>2. HasPCM <=> HasIn(LastMbs, "INTRA_PCM")
  BY <1>1, CountsSome DEF HasPCM, NumMbs
<1>3. Asserts <=> AssertsOf(FrmStat)
  BY Zenon DEF Asserts, AssertsOf
<1>4. LastSliceCounted <=> (FrmStat.MbCnt = Len(LastMbs) \/ slices = <<>>) /\ BlocksOf(FrmStat)
  BY DEF LastSliceCounted, BlocksOf
<1>5. TypeQPsConserved <=>
        (slices # <<>> /\ ~HasPCM =>
           FrmStat.MbQPs[-1] = Last(slices).QP /\ QPsOf(FrmStat) = FrmStat.QpSum)
  BY Zenon DEF TypeQPsConserved, QPsOf
<1>6. NumMbs(LAMBDA mb : "8x8" \in mb.type) = 0 <=> ~HasIn(LastMbs, "8x8")
  BY <1>1, CountsSome DEF NumMbs
<1>7. \A l : PredictedQuarters(l) = Cardinality(Pairs(LastMbs, l))
  BY DEF PredictedQuarters, Pairs
<1>8. EveryQuarterMeasured <=>
        \/ slices = <<>>
        \/ /\ FrmStat.FwdQuarters = Cardinality(Pairs(LastMbs, 0))
           /\ FrmStat.BwdQuarters = Cardinality(Pairs(LastMbs, 1))
  BY <1>7 DEF EveryQuarterMeasured
<1>9. MotionMeasured <=>
        (("B" \in {pict_type, slice_type} => ~HasIn(LastMbs, "8x8")) => EveryQuarterMeasured)
  BY <1>6 DEF MotionMeasured
<1>10. QED
  BY <1>2, <1>3, <1>4, <1>5, <1>8, <1>9 DEF Restated

LEMMA InvariantNext == slices' \in Seq(Slices) => Restated'
<1>1. (slices \in Seq(Slices) => Restated)'
  BY InvariantIs, PTL
<1>2. QED
  BY <1>1

LEMMA NumDecodedNext == NumDecoded' = NumIn(slices')
  BY DEF NumDecoded, NumIn, FoldLeft, MapThenFoldSet

LEMMA InitInv == Init => IInv
<1> SUFFICES ASSUME Init PROVE IInv
  OBVIOUS
<1>1. slices = <<>> /\ pict_type = "none" /\ slice_type = "none" /\ FrmStat = Cleared(0) /\ output = FALSE
  BY DEF Init
<1>2. slices \in Seq(Slices) /\ Len(slices) = 0 /\ NumDecoded = 0
  BY <1>1, EmptySeq, NumInEmpty DEF NumDecoded, NumIn
<1>3. /\ FrmStat \in Counters /\ BlocksOf(FrmStat)
  BY <1>1, ClearedIs DEF BlocksOf
<1>4. TypeOK
  <2>1. 0 \in 0 .. MaxSlices /\ 0 \in 0 .. NumMb
    BY NumMbAssumption, MaxSlicesAssumption
  <2>2. QED
    BY <1>1, <1>2, <1>3, <2>1 DEF TypeOK
<1>5. QED
  BY <1>1, <1>2, <1>3, <1>4, InvariantIs DEF Restated, IInv, SlicesOf, OutputOf, AssertsHold

LEMMA StartSliceStep ==
  ASSUME IInv, NEW type \in SliceTypes, NEW qscale \in QPs, StartSlice(type, qscale)
  PROVE  IInv'
<1> DEFINE s == [QP |-> qscale, mbs |-> <<>>]
           W == Append(slices, s)
<1>1. /\ ~output /\ NumDecoded < NumMb /\ Len(slices) < MaxSlices
      /\ FrmStat' = Cleared(qscale) /\ slices' = W /\ slice_type' = type
      /\ pict_type' = IF slices = <<>> THEN type ELSE pict_type
      /\ output' = output
  BY DEF StartSlice, InitFrameStatistics264
<1>2. /\ slices \in Seq(Slices) /\ Len(slices) \in 0 .. MaxSlices /\ NumIn(slices) \in 0 .. NumMb
      /\ pict_type \in SliceTypes \cup {"none"}
  BY DEF IInv, TypeOK, SlicesOf, NumDecoded, NumIn
<1>3. s \in Slices /\ s.QP = qscale /\ s.mbs = <<>> /\ Len(s.mbs) = 0
  BY EmptySeq DEF Slices
<1>4. /\ W \in Seq(Slices) /\ W # <<>> /\ Len(W) = Len(slices) + 1 /\ Last(W) = s
  BY <1>2, <1>3, AppendProperties DEF Last
<1>5. NumIn(W) = NumIn(slices)
  BY <1>2, <1>3, NumInAppend
<1>6. LastMbs' = <<>>
  BY <1>1, <1>3, <1>4 DEF LastMbs
<1>7. /\ FrmStat' \in Counters /\ AssertsOf(FrmStat') /\ BlocksOf(FrmStat') /\ FrmStat'.MbCnt = 0
      /\ FrmStat'.FwdQuarters = 0 /\ FrmStat'.BwdQuarters = 0
      /\ FrmStat'.MbQPs[-1] = qscale /\ QPsOf(FrmStat') = FrmStat'.QpSum
  <2>1. qscale \in Nat
    BY QPAssumption
  <2>2. QED
    BY <1>1, <2>1, ClearedIs DEF BlocksOf
<1> HIDE DEF W, s
<1>8. TypeOK'
  <2>1. Len(slices') \in 0 .. MaxSlices
    BY <1>1, <1>2, <1>4, MaxSlicesAssumption
  <2>2. NumDecoded' \in 0 .. NumMb
    BY <1>1, <1>2, <1>5, NumDecodedNext
  <2>3. pict_type' \in SliceTypes \cup {"none"} /\ slice_type' \in SliceTypes \cup {"none"}
    BY <1>1, <1>2
  <2>4. output' \in BOOLEAN
    BY <1>1 DEF IInv, TypeOK
  <2>5. QED
    BY <1>7, <2>1, <2>2, <2>3, <2>4 DEF TypeOK
<1>9. SlicesOf' /\ OutputOf'
  BY <1>1, <1>4 DEF SlicesOf, OutputOf
<1>10. \A l : Cardinality(Pairs(LastMbs, l)') = 0
  <2>1. ASSUME NEW l PROVE Pairs(LastMbs, l)' = {}
    BY <1>6 DEF Pairs
  <2>2. QED
    BY <2>1, FS_EmptySet
<1>11. Len(LastMbs') = 0
  BY <1>6
<1>12. Last(slices)'.QP = qscale
  BY <1>1, <1>3, <1>4 DEF Last
<1>13. AssertsHold' /\ LastSliceCounted' /\ TypeQPsConserved' /\ MotionMeasured'
  <2>1. slices' \in Seq(Slices) /\ slices' # <<>> /\ Restated'
    BY <1>1, <1>4, InvariantNext
  <2>2. QED
    BY <1>7, <1>10, <1>11, <1>12, <2>1 DEF AssertsHold, Restated
<1>14. QED
  BY <1>8, <1>9, <1>13 DEF IInv

LEMMA MbStatisticsStep ==
  ASSUME IInv, NEW mb \in Macroblocks(slice_type), NEW qscale \in QPs, MbStatistics264(mb, qscale)
  PROVE  IInv'
<1> DEFINE x   == [mb |-> mb, QP |-> qscale]
           W   == WithMb(slices, x)
           old == LastMbs
           new == Append(LastMbs, x)
<1>1. /\ ~output /\ slices # <<>> /\ NumDecoded < NumMb
      /\ slices' = W
      /\ pict_type' = pict_type /\ slice_type' = slice_type /\ output' = output
  BY Zenon DEF MbStatistics264, WithMb
<1>2. PICK curr \in CurrTypes(mb, pict_type = "B") : FrmStat' = Counted(FrmStat, mb, qscale, curr)
  BY DEF MbStatistics264
<1>3. /\ slices \in Seq(Slices) /\ slice_type \in SliceTypes /\ FrmStat \in Counters
      /\ Len(slices) \in 0 .. MaxSlices /\ NumIn(slices) \in 0 .. NumMb /\ NumIn(slices) < NumMb
      /\ pict_type \in SliceTypes \cup {"none"}
  BY <1>1 DEF IInv, TypeOK, SlicesOf, NumDecoded, NumIn
<1>4. IsMacroblock(slice_type, mb) /\ mb \in MbsOf /\ qscale \in Nat
  BY <1>3, MacroblocksAssumption, QPAssumption DEF MbsOf
<1>5. x \in Mbs /\ x.mb = mb
  BY <1>4 DEF Mbs
<1>6. CountEffect(FrmStat, FrmStat', mb, qscale, curr)
  BY <1>2, <1>3, <1>4, CountedFields
<1>7. /\ W \in Seq(Slices) /\ W # <<>> /\ Len(W) = Len(slices)
      /\ Last(W).QP = Last(slices).QP /\ Last(W).mbs = Append(Last(slices).mbs, x)
  BY <1>1, <1>3, <1>5, WithMbFields
<1>8. NumIn(W) = NumIn(slices) + 1
  BY <1>1, <1>3, <1>5, NumInWithMb
<1>9. old \in Seq(Mbs) /\ LastMbs' = new
  BY <1>1, <1>3, <1>7, LastSlice DEF LastMbs
<1>10. Len(new) = Len(old) + 1 /\ Len(old) \in Nat
  BY <1>5, <1>9, AppendProperties, LenProperties
<1>11. \A flag : HasIn(LastMbs, flag)' <=> HasIn(old, flag) \/ flag \in mb.type
  BY <1>5, <1>9, HasInAppend DEF HasIn
<1>12. \A l : Cardinality(Pairs(LastMbs, l))' = Cardinality(Pairs(old, l)) + PredictedIn(mb, l)
  <2>1. ASSUME NEW l PROVE Pairs(LastMbs, l)' = Pairs(new, l)
    <3> HIDE DEF new
    <3>1. \A m : Moved(m)' = Moved(m)
      BY <1>1 DEF Moved, IsInter
    <3>2. QED
      BY <1>9, <3>1 DEF Pairs
  <2>2. ASSUME NEW l
        PROVE  Cardinality(Pairs(new, l)) = Cardinality(Pairs(old, l)) + PredictedIn(mb, l)
    BY <1>5, <1>9, PairsAppend
  <2>3. QED
    BY <2>1, <2>2
<1> HIDE DEF x, W, old, new
<1>13. Restated /\ Restated'
  BY <1>1, <1>3, <1>7, InvariantIs, InvariantNext
<1>14. TypeOK'
  <2>1. Len(slices') \in 0 .. MaxSlices
    BY <1>1, <1>3, <1>7
  <2>2. NumDecoded' \in 0 .. NumMb
    BY <1>1, <1>3, <1>8, NumDecodedNext, NumMbAssumption
  <2>3. FrmStat' \in Counters
    BY <1>6 DEF CountEffect
  <2>4. output' \in BOOLEAN /\ slice_type' \in SliceTypes \cup {"none"}
        /\ pict_type' \in SliceTypes \cup {"none"}
    BY <1>1, <1>3 DEF IInv, TypeOK
  <2>5. QED
    BY <2>1, <2>2, <2>3, <2>4 DEF TypeOK
<1>15. SlicesOf' /\ OutputOf'
  BY <1>1, <1>3, <1>7 DEF SlicesOf, OutputOf
<1>16. HasPCM' <=> HasPCM \/ "INTRA_PCM" \in mb.type
  BY <1>11, <1>13 DEF Restated, old
<1>17. AssertsHold'
  <2>1. ~HasPCM' => AssertsOf(FrmStat) /\ "INTRA_PCM" \notin mb.type
    BY <1>1, <1>13, <1>16 DEF IInv, AssertsHold, Restated
  <2>2. ~HasPCM' => AssertsOf(FrmStat')
    BY <1>3, <1>4, <1>6, <2>1, CountKeepsSums
  <2>3. QED
    BY <1>13, <2>2 DEF AssertsHold, Restated
<1>18. TypeQPsConserved'
  <2>1. ~HasPCM' =>
          /\ FrmStat.MbQPs[-1] = Last(slices).QP /\ QPsOf(FrmStat) = FrmStat.QpSum
          /\ "INTRA_PCM" \notin mb.type
    BY <1>1, <1>13, <1>16 DEF IInv, Restated
  <2>2. ~HasPCM' => FrmStat'.MbQPs[-1] = FrmStat.MbQPs[-1] /\ QPsOf(FrmStat') = FrmStat'.QpSum
    BY <1>3, <1>4, <1>6, <2>1, CountKeepsSums
  <2>3. Last(slices)'.QP = Last(slices).QP
    BY <1>1, <1>7 DEF Last
  <2>4. QED
    BY <1>13, <2>1, <2>2, <2>3 DEF Restated
<1>19. LastSliceCounted'
  <2>1. FrmStat.MbCnt = Len(old) /\ BlocksOf(FrmStat)
    BY <1>1, <1>13 DEF IInv, Restated, old
  <2>2. FrmStat'.MbCnt = Len(LastMbs')
    BY <1>6, <1>9, <1>10, <2>1 DEF CountEffect
  <2>3. /\ FrmStat.MbCnt \in Nat /\ FrmStat.NumBlksIntra \in Nat /\ FrmStat.NumBlksSkip \in Nat
        /\ FrmStat.NumBlksMv \in Nat
    BY <1>3, CounterFields
  <2>4. Moved(mb) <=> IsInter(mb) /\ "SKIP" \notin mb.type
    BY DEF Moved
  <2>5. BlocksOf(FrmStat')
    <3> DEFINE a == FrmStat.NumBlksIntra
               b == FrmStat.NumBlksSkip
               c == FrmStat.NumBlksMv
               n == FrmStat.MbCnt
    <3>1. \/ /\ FrmStat'.NumBlksIntra = a + 16 /\ FrmStat'.NumBlksSkip = b /\ FrmStat'.NumBlksMv = c
          \/ /\ FrmStat'.NumBlksIntra = a /\ FrmStat'.NumBlksSkip = b + 4 /\ FrmStat'.NumBlksMv = c
          \/ /\ FrmStat'.NumBlksIntra = a /\ FrmStat'.NumBlksSkip = b /\ FrmStat'.NumBlksMv = c + 16
      BY <1>6, <2>4 DEF CountEffect
    <3>2. FrmStat'.MbCnt = n + 1
      BY <1>6 DEF CountEffect
    <3>3. a + 4 * b + c = 16 * n
      BY <2>1 DEF BlocksOf
    <3> HIDE DEF a, b, c, n
    <3>4. a \in Nat /\ b \in Nat /\ c \in Nat /\ n \in Nat
      BY <2>3 DEF a, b, c, n
    <3>5. /\ (a + 16) + 4 * b + c = 16 * (n + 1)
          /\ a + 4 * (b + 4) + c = 16 * (n + 1)
          /\ a + 4 * b + (c + 16) = 16 * (n + 1)
      BY <3>3, <3>4
    <3>6. QED
      BY <3>1, <3>2, <3>5, Zenon DEF BlocksOf
  <2>6. QED
    BY <1>13, <2>2, <2>5 DEF Restated
<1>20. MotionMeasured'
  <2>1. SUFFICES ASSUME ("B" \in {pict_type, slice_type} => ~HasIn(LastMbs, "8x8"))'
                 PROVE  (/\ FrmStat.FwdQuarters = Cardinality(Pairs(LastMbs, 0))
                         /\ FrmStat.BwdQuarters = Cardinality(Pairs(LastMbs, 1)))'
    BY <1>13 DEF Restated
  <2>2. "B" \in {pict_type, slice_type} => ~HasIn(old, "8x8") /\ "8x8" \notin mb.type
    BY <1>1, <1>11, <2>1
  <2>3. /\ FrmStat.FwdQuarters = Cardinality(Pairs(old, 0))
        /\ FrmStat.BwdQuarters = Cardinality(Pairs(old, 1))
    BY <1>1, <1>13, <2>2 DEF IInv, Restated, old
  <2>4. MeasuredIn(mb, curr, 0) = PredictedIn(mb, 0) /\ MeasuredIn(mb, curr, 1) = PredictedIn(mb, 1)
    BY <1>4, <2>2, MeasuredIsPredicted
  <2>5. /\ FrmStat'.FwdQuarters = FrmStat.FwdQuarters + PredictedIn(mb, 0)
        /\ FrmStat'.BwdQuarters = FrmStat.BwdQuarters + PredictedIn(mb, 1)
    BY <1>6, <2>4 DEF CountEffect
  <2>6. QED
    BY <1>12, <2>3, <2>5
<1>21. QED
  BY <1>14, <1>15, <1>17, <1>18, <1>19, <1>20 DEF IInv

(* The other steps count nothing. *)
LEMMA NoSlices ==
  ASSUME slices' = <<>>, FrmStat' = FrmStat, BlocksOf(FrmStat)
  PROVE  AssertsHold' /\ LastSliceCounted' /\ TypeQPsConserved' /\ MotionMeasured'
<1>1. slices' \in Seq(Slices)
  BY EmptySeq
<1>2. Restated'
  BY <1>1, InvariantNext
<1>3. QED
  BY <1>2 DEF Restated, AssertsHold

LEMMA SameStatistics ==
  ASSUME IInv, slices' = slices, pict_type' = pict_type, slice_type' = slice_type,
         FrmStat' = FrmStat, output' \in BOOLEAN, output' => slices # <<>>
  PROVE  IInv'
<1>1. /\ slices' = slices /\ pict_type' = pict_type /\ slice_type' = slice_type
      /\ FrmStat' = FrmStat /\ output' \in BOOLEAN
  OBVIOUS
<1>2. output' => slices # <<>>
  OBVIOUS
<1>3. /\ TypeOK' /\ SlicesOf' /\ OutputOf'
  <2>1. NumDecoded' = NumDecoded
    BY <1>1, NumDecodedNext DEF NumDecoded, NumIn
  <2>2. QED
    BY <1>1, <1>2, <2>1 DEF IInv, TypeOK, SlicesOf, OutputOf, Counters
<1>4. slices \in Seq(Slices) /\ slices' \in Seq(Slices)
  BY <1>1 DEF IInv, SlicesOf
<1>5. Restated /\ Restated'
  BY <1>4, InvariantIs, InvariantNext
<1>6. LastMbs' = LastMbs /\ Last(slices)' = Last(slices)
  BY <1>1 DEF LastMbs, Last
<1>7. \A flag : HasIn(LastMbs, flag)' = HasIn(LastMbs, flag)
  BY <1>6 DEF HasIn
<1>8. \A l : Pairs(LastMbs, l)' = Pairs(LastMbs, l)
  <2>1. \A m : Moved(m)' = Moved(m)
    BY <1>1 DEF Moved, IsInter
  <2>2. QED
    BY <1>6, <2>1 DEF Pairs
<1>9. AssertsHold' /\ TypeQPsConserved'
  BY <1>1, <1>5, <1>6, <1>7 DEF IInv, AssertsHold, Restated
<1>10. LastSliceCounted'
  BY <1>1, <1>5, <1>6 DEF IInv, Restated
<1>11. MotionMeasured'
  BY <1>1, <1>5, <1>7, <1>8 DEF IInv, Restated
<1>12. QED
  BY <1>3, <1>9, <1>10, <1>11 DEF IInv

LEMMA OutputStep ==
  ASSUME IInv, GetVideoStatisticsH264
  PROVE  IInv'
<1>1. /\ NumDecoded = NumMb /\ output' = TRUE
      /\ slices' = slices /\ pict_type' = pict_type /\ slice_type' = slice_type /\ FrmStat' = FrmStat
  BY DEF GetVideoStatisticsH264
<1>2. slices # <<>>
  BY <1>1, NumInEmpty, NumMbAssumption DEF NumDecoded, NumIn
<1>3. QED
  BY <1>1, <1>2, SameStatistics

LEMMA NextPictureStep ==
  ASSUME IInv, NextPicture
  PROVE  IInv'
<1>1. /\ slices' = <<>> /\ pict_type' = "none" /\ slice_type' = "none" /\ output' = FALSE
      /\ FrmStat' = FrmStat
  BY DEF NextPicture
<1>2. slices' \in Seq(Slices) /\ Len(slices') = 0 /\ NumDecoded' = 0
  BY <1>1, EmptySeq, NumInEmpty, NumDecodedNext
<1>3. TypeOK'
  <2>1. 0 \in 0 .. MaxSlices /\ 0 \in 0 .. NumMb
    BY NumMbAssumption, MaxSlicesAssumption
  <2>2. QED
    BY <1>1, <1>2, <2>1 DEF IInv, TypeOK, Counters
<1>4. SlicesOf' /\ OutputOf'
  BY <1>1, <1>2 DEF SlicesOf, OutputOf
<1>5. BlocksOf(FrmStat)
  BY DEF IInv, LastSliceCounted, BlocksOf
<1>6. QED
  BY <1>1, <1>3, <1>4, <1>5, NoSlices DEF IInv

LEMMA NextInv == IInv /\ [Next]_vars => IInv'
<1> SUFFICES ASSUME IInv, [Next]_vars PROVE IInv'
  OBVIOUS
<1>1. ASSUME NEW type \in SliceTypes, NEW qscale \in QPs, StartSlice(type, qscale) PROVE IInv'
  BY <1>1, StartSliceStep
<1>2. ASSUME NEW mb \in Macroblocks(slice_type), NEW qscale \in QPs, MbStatistics264(mb, qscale)
      PROVE  IInv'
  BY <1>2, MbStatisticsStep
<1>3. CASE GetVideoStatisticsH264
  BY <1>3, OutputStep
<1>4. CASE NextPicture
  BY <1>4, NextPictureStep
<1>5. CASE UNCHANGED vars
  BY <1>5, SameStatistics DEF vars, IInv, TypeOK, OutputOf
<1>6. QED
  BY <1>1, <1>2, <1>3, <1>4, <1>5 DEF Next

-----------------------------------------------------------------------------
(* The theorems.                                                           *)

LEMMA Invariance == Spec => []IInv
  BY InitInv, NextInv, PTL DEF Spec

(* The counters stay numbers, the sums by type stay in their array and the *)
(* member in front of it, and no slice or macroblock is counted beyond the *)
(* picture (MbStatistics264, InitFrameStatistics264).                      *)
THEOREM MbTypeCorrectness == Spec => []TypeOK
<1>1. IInv => TypeOK
  BY DEF IInv
<1>2. QED
  BY <1>1, Invariance, PTL

(* The assertions at the end of GetVideoStatisticsH264 hold for every      *)
(* picture whose last slice has no INTRA_PCM macroblock.                   *)
THEOREM AssertionsHold == Spec => []AssertsWithoutPCM
<1>1. IInv => AssertsWithoutPCM
  BY DEF IInv, OutputOf, AssertsHold, AssertsWithoutPCM
<1>2. QED
  BY <1>1, Invariance, PTL

(* What GetVideoStatisticsH264 finds are the macroblocks of the last slice *)
(* alone, each of them intra, skipped or moved.                            *)
THEOREM OnlyLastSlice == Spec => []LastSliceCounted
<1>1. IInv => LastSliceCounted
  BY DEF IInv
<1>2. QED
  BY <1>1, Invariance, PTL

(* The QP of a macroblock is added to the sum of one type, and never to    *)
(* what lies in front of the sums.                                         *)
THEOREM QPsByType == Spec => []TypeQPsConserved
<1>1. IInv => TypeQPsConserved
  BY DEF IInv
<1>2. QED
  BY <1>1, Invariance, PTL

(* MbStatistics264 measures the motion of the quarters that are predicted, *)
(* and in the directions they are predicted in, outside of B pictures and  *)
(* B slices with 8x8 macroblocks.                                          *)
THEOREM MotionOfQuarters == Spec => []MotionMeasured
<1>1. IInv => MotionMeasured
  BY DEF IInv
<1>2. QED
  BY <1>1, Invariance, PTL
=============================================================================
