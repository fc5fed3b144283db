---------------------------- MODULE OperatorProofs ----------------------------
(***************************************************************************)
(* What the operators compute that the other proofs rest on: the least     *)
(* number of a set, the sum over a finite set (the community modules' folds*)
(* compute it by removing one element after the other) and over a sequence,*)
(* quotients, and the border that BlackborderDetect finds.                 *)
(***************************************************************************)
EXTENDS BlackBorder, Folds, FiniteSetTheorems, SequenceTheorems, WellFoundedInduction, TLAPS

(* The least-number principle, for a set. *)
LEMMA LeastElement ==
  ASSUME NEW T \in SUBSET Nat, T # {}
  PROVE  \E x \in T : \A y \in T : x <= y
<1> DEFINE R == OpToRel(<, Nat)
<1>1. IsWellFoundedOn(R, Nat)
  BY NatLessThanWellFounded
<1>2. \A a, b \in Nat : <<a, b>> \in R <=> a < b
  BY DEF OpToRel
<1> HIDE DEF R
<1>3. PICK x \in T : \A y \in T : ~ (<<y, x>> \in R)
  BY <1>1, WFMin
<1>4. ASSUME NEW y \in T PROVE x <= y
  <2>1. x \in Nat /\ y \in Nat
    OBVIOUS
  <2>2. ~ (y < x)
    BY <1>2, <1>3, <2>1
  <2>3. QED
    BY <2>1, <2>2
<1>5. QED
  BY <1>4

(* Induction over the members of a set of numbers. *)
LEMMA SetOfAllNumbers ==
  ASSUME NEW N, 0 \in N, \A k \in Nat : k \in N => k + 1 \in N
  PROVE  \A k \in Nat : k \in N
<1> SUFFICES ASSUME Nat \ N # {} PROVE FALSE
  OBVIOUS
<1>1. PICK x \in Nat \ N : \A y \in Nat \ N : x <= y
  BY LeastElement
<1>2. x # 0 /\ x - 1 \in Nat
  OBVIOUS
<1>3. x - 1 \in N
  BY <1>1, <1>2
<1>4. QED
  BY <1>2, <1>3

-----------------------------------------------------------------------------
(* Sums over finite sets, as the folds of the community modules compute    *)
(* them: by removing one element after the other.                          *)

(* What the fold of a set s does with the value F of smaller sets, if c    *)
(* chooses the element to be removed. *)
FoldStep(h, c, F, s) == IF s = {} THEN 0 ELSE h[c[s]] + F[s \ {c[s]}]

(* The recursion of a fold over the subsets of I. *)
IsFold(g, h, c, I) == g = [s \in SUBSET I |-> FoldStep(h, c, g, s)]

Chooses(c, I) == \A s \in SUBSET I : s # {} => c[s] \in s

(* F sums h over the subsets of I. *)
SumsUp(F, h, I) ==
  /\ F[{}] = 0
  /\ \A s \in SUBSET I : s # {} => \E x \in s : F[s] = h[x] + F[s \ {x}]

Integral(h, I) == \A i \in I : h[i] \in Int

LEMMA SubsetCard ==
  ASSUME NEW I, IsFiniteSet(I), NEW s \in SUBSET I
  PROVE  /\ IsFiniteSet(s) /\ Cardinality(s) \in Nat
         /\ Cardinality(s) = 0 <=> s = {}
         /\ \A x \in s : Cardinality(s \ {x}) = Cardinality(s) - 1
  BY FS_Subset, FS_CardinalityType, FS_EmptySet, FS_RemoveElement

(* The recursion of a fold has a solution. *)
LEMMA FoldExists ==
  ASSUME NEW I, IsFiniteSet(I), NEW h, NEW c, Chooses(c, I)
  PROVE  \E g : IsFold(g, h, c, I)
<1> DEFINE Upto(g, k) == \A s \in SUBSET I : Cardinality(s) <= k => g[s] = FoldStep(h, c, g, s)
           N == {k \in Nat : \E g : Upto(g, k)}
<1>1. 0 \in N
  <2>1. Upto([s \in SUBSET I |-> 0], 0)
    BY SubsetCard DEF FoldStep
  <2>2. QED
    BY <2>1
<1>2. ASSUME NEW k \in Nat, k \in N PROVE k + 1 \in N
  <2>1. PICK g : Upto(g, k)
    BY <1>2
  <2> DEFINE g2 == [s \in SUBSET I |-> FoldStep(h, c, g, s)]
  <2>2. ASSUME NEW s \in SUBSET I, Cardinality(s) <= k + 1
        PROVE  g2[s] = FoldStep(h, c, g2, s)
    <3>1. CASE s = {}
      BY <3>1 DEF FoldStep
    <3>2. CASE s # {}
      <4> DEFINE r == s \ {c[s]}
      <4>1. c[s] \in s /\ r \in SUBSET I
        BY <3>2 DEF Chooses
      <4>2. Cardinality(r) <= k
        BY <2>2, <4>1, SubsetCard
      <4>3. g[r] = FoldStep(h, c, g, r) /\ g2[r] = FoldStep(h, c, g, r)
        BY <2>1, <4>1, <4>2
      <4>4. g2[s] = FoldStep(h, c, g, s)
        OBVIOUS
      <4> HIDE DEF g2
      <4>5. g2[s] = h[c[s]] + g[r] /\ FoldStep(h, c, g2, s) = h[c[s]] + g2[r]
        BY <3>2, <4>4 DEF FoldStep
      <4>6. QED
        BY <4>3, <4>5
    <3>3. QED
      BY <3>1, <3>2
  <2>3. Upto(g2, k + 1)
    BY <2>2
  <2> HIDE DEF g2
  <2>4. \E g3 : Upto(g3, k + 1)
    BY <2>3
  <2>5. QED
    BY <2>4
<1> DEFINE n == Cardinality(I)
<1>3. n \in Nat /\ n \in N
  <2>1. n \in Nat
    BY FS_CardinalityType
  <2> HIDE DEF N
  <2>2. QED
    BY <1>1, <1>2, <2>1, SetOfAllNumbers
<1>4. PICK g : Upto(g, n)
  BY <1>3
<1>5. \A s \in SUBSET I : g[s] = FoldStep(h, c, g, s)
  <2>1. \A s \in SUBSET I : Cardinality(s) <= n
    BY FS_Subset
  <2>2. QED
    BY <1>4, <2>1
<1> DEFINE f == [s \in SUBSET I |-> g[s]]
<1>6. ASSUME NEW s \in SUBSET I PROVE f[s] = FoldStep(h, c, f, s)
  <2>1. CASE s = {}
    BY <1>5, <2>1 DEF FoldStep
  <2>2. CASE s # {}
    <3>1. s \ {c[s]} \in SUBSET I
      OBVIOUS
    <3>2. f[s \ {c[s]}] = g[s \ {c[s]}]
      BY <3>1
    <3>3. FoldStep(h, c, f, s) = FoldStep(h, c, g, s)
      BY <2>2, <3>2 DEF FoldStep
    <3>4. QED
      BY <1>5, <3>3
  <2>3. QED
    BY <2>1, <2>2
<1>7. IsFold(f, h, c, I)
  BY <1>6 DEF IsFold
<1>8. QED
  BY <1>7

(* Whichever elements are removed, every element could be removed first. *)
LEMMA AnyElementFirst ==
  ASSUME NEW I, IsFiniteSet(I), NEW h, Integral(h, I), NEW F, SumsUp(F, h, I)
  PROVE  \A s \in SUBSET I : F[s] \in Int /\ \A x \in s : F[s] = h[x] + F[s \ {x}]
<1> DEFINE Good(s) == F[s] \in Int /\ \A x \in s : F[s] = h[x] + F[s \ {x}]
           N == {k \in Nat : \A s \in SUBSET I : Cardinality(s) <= k => Good(s)}
<1>1. 0 \in N
  <2>1. Good({})
    BY DEF SumsUp
  <2>2. \A s \in SUBSET I : Cardinality(s) <= 0 => s = {}
    BY SubsetCard
  <2>3. QED
    BY <2>1, <2>2
<1>2. ASSUME NEW k \in Nat, k \in N PROVE k + 1 \in N
  <2> SUFFICES ASSUME NEW s \in SUBSET I, Cardinality(s) <= k + 1 PROVE Good(s)
    OBVIOUS
  <2> SUFFICES ASSUME s # {} PROVE Good(s)
    <3>1. Good({})
      BY DEF SumsUp
    <3>2. QED
      BY <3>1
  <2>2. PICK y \in s : F[s] = h[y] + F[s \ {y}]
    BY DEF SumsUp
  <2>3. \A x \in s : Cardinality(s \ {x}) <= k /\ s \ {x} \in SUBSET I /\ h[x] \in Int
    BY SubsetCard DEF Integral
  <2>4. \A x \in s : Good(s \ {x})
    BY <1>2, <2>3
  <2>5. F[s] \in Int
    BY <2>2, <2>3, <2>4
  <2>6. ASSUME NEW x \in s PROVE F[s] = h[x] + F[s \ {x}]
    <3>1. CASE x = y
      BY <2>2, <3>1
    <3>2. CASE x # y
      <4> DEFINE r == (s \ {x}) \ {y}
      <4>1. r = (s \ {y}) \ {x}
        OBVIOUS
      <4>2. F[s \ {x}] = h[y] + F[r]
        BY <2>4, <3>2
      <4>3. F[s \ {y}] = h[x] + F[r]
        BY <2>4, <3>2, <4>1
      <4>4. F[r] \in Int
        <5>1. s \ {x} \in SUBSET I /\ y \in s \ {x} /\ r \in SUBSET I
          BY <3>2
        <5>2. Cardinality(s \ {x}) \in Nat /\ Cardinality(r) = Cardinality(s \ {x}) - 1
          BY <5>1, SubsetCard
        <5>3. Cardinality(r) <= k
          BY <2>3, <5>2
        <5>4. QED
          BY <1>2, <5>1, <5>3
      <4>5. h[x] \in Int /\ h[y] \in Int
        BY <2>3
      <4> HIDE DEF r
      <4>6. QED
        BY <2>2, <4>2, <4>3, <4>4, <4>5
    <3>3. QED
      BY <3>1, <3>2
  <2>7. QED
    BY <2>5, <2>6
<1>3. \A k \in Nat : k \in N
  <2> HIDE DEF N
  <2>1. QED
    BY <1>1, <1>2, SetOfAllNumbers
<1>4. ASSUME NEW s \in SUBSET I PROVE Good(s)
  <2>1. Cardinality(s) \in Nat /\ Cardinality(s) <= Cardinality(s)
    BY SubsetCard
  <2>2. QED
    BY <1>3, <2>1
<1>5. QED
  BY <1>4

(* Two sums over a set agree if their summands do. *)
LEMMA SumsAgree ==
  ASSUME NEW I, IsFiniteSet(I), NEW h, Integral(h, I), NEW k, \A i \in I : k[i] = h[i],
         NEW F, SumsUp(F, h, I), NEW G, SumsUp(G, k, I)
  PROVE  \A s \in SUBSET I : F[s] = G[s]
<1> DEFINE N == {m \in Nat : \A s \in SUBSET I : Cardinality(s) <= m => F[s] = G[s]}
<1>1. 0 \in N
  <2>1. F[{}] = G[{}]
    BY DEF SumsUp
  <2>2. \A s \in SUBSET I : Cardinality(s) <= 0 => s = {}
    BY SubsetCard
  <2>3. QED
    BY <2>1, <2>2
<1>2. ASSUME NEW m \in Nat, m \in N PROVE m + 1 \in N
  <2> SUFFICES ASSUME NEW s \in SUBSET I, Cardinality(s) <= m + 1 PROVE F[s] = G[s]
    OBVIOUS
  <2>1. CASE s = {}
    BY <2>1 DEF SumsUp
  <2>2. CASE s # {}
    <3>1. PICK y \in s : G[s] = k[y] + G[s \ {y}]
      BY <2>2 DEF SumsUp
    <3>2. F[s] = h[y] + F[s \ {y}]
      BY AnyElementFirst
    <3>3. Cardinality(s \ {y}) <= m /\ s \ {y} \in SUBSET I
      BY SubsetCard
    <3>4. F[s \ {y}] = G[s \ {y}]
      BY <1>2, <3>3
    <3>5. QED
      BY <3>1, <3>2, <3>4
  <2>3. QED
    BY <2>1, <2>2
<1>3. \A m \in Nat : m \in N
  <2> HIDE DEF N
  <2>1. QED
    BY <1>1, <1>2, SetOfAllNumbers
<1>4. ASSUME NEW s \in SUBSET I PROVE F[s] = G[s]
  <2>1. Cardinality(s) \in Nat /\ Cardinality(s) <= Cardinality(s)
    BY SubsetCard
  <2>2. QED
    BY <1>3, <2>1
<1>5. QED
  BY <1>4

(* The sum of h over I. *)
Total(h, I) == (CHOOSE F : SumsUp(F, h, I))[I]

(* The solution of the recursion of a fold is a sum. *)
LEMMA FoldSumsUp ==
  ASSUME NEW I, NEW h, NEW c, Chooses(c, I),
         NEW g, IsFold(g, h, c, I)
  PROVE  SumsUp(g, h, I)
<1>1. \A s \in SUBSET I : g[s] = FoldStep(h, c, g, s)
  BY DEF IsFold
<1>2. g[{}] = 0
  BY <1>1 DEF FoldStep
<1>3. ASSUME NEW s \in SUBSET I, s # {}
      PROVE  \E x \in s : g[s] = h[x] + g[s \ {x}]
  <2>1. c[s] \in s
    BY <1>3 DEF Chooses
  <2>2. g[s] = h[c[s]] + g[s \ {c[s]}]
    BY <1>1, <1>3 DEF FoldStep
  <2>3. QED
    BY <2>1, <2>2
<1>4. QED
  BY <1>2, <1>3 DEF SumsUp

(* The solution of the recursion of a fold is a sum, and what it gives for *)
(* the whole set is the total, whichever elements the fold chooses. *)
LEMMA FoldIsTotal ==
  ASSUME NEW I, IsFiniteSet(I), NEW h, Integral(h, I), NEW c, Chooses(c, I),
         NEW g, IsFold(g, h, c, I)
  PROVE  g[I] = Total(h, I)
<1>2. SumsUp(g, h, I)
  BY FoldSumsUp
<1> DEFINE F == CHOOSE G : SumsUp(G, h, I)
<1>3. SumsUp(F, h, I)
  BY <1>2
<1> HIDE DEF F
<1>4. g[I] = F[I]
  BY <1>2, <1>3, SumsAgree
<1>5. QED
  BY <1>4 DEF Total, F

(* There is such a sum. *)
LEMMA SumExists ==
  ASSUME NEW I, IsFiniteSet(I), NEW h
  PROVE  \E F : SumsUp(F, h, I)
<1>1. PICK c : Chooses(c, I)
  <2>1. Chooses([s \in SUBSET I |-> CHOOSE x \in s : TRUE], I)
    BY DEF Chooses
  <2>2. QED
    BY <2>1
<1>2. PICK g : IsFold(g, h, c, I)
  BY <1>1, FoldExists
<1>3. SumsUp(g, h, I)
  BY <1>1, <1>2, FoldSumsUp
<1>4. QED
  BY <1>3

LEMMA TotalEmpty ==
  ASSUME NEW h
  PROVE  Total(h, {}) = 0
<1>1. PICK F : SumsUp(F, h, {})
  BY SumExists, FS_EmptySet
<1>2. SumsUp(CHOOSE G : SumsUp(G, h, {}), h, {})
  BY <1>1
<1>3. QED
  BY <1>2 DEF Total, SumsUp

(* One more element adds its summand. *)
LEMMA TotalAdd ==
  ASSUME NEW I, IsFiniteSet(I), NEW h, NEW x, x \notin I, Integral(h, I \cup {x})
  PROVE  /\ Total(h, I) \in Int
         /\ Total(h, I \cup {x}) = h[x] + Total(h, I)
<1> DEFINE J == I \cup {x}
           F == CHOOSE G : SumsUp(G, h, I)
           E == CHOOSE G : SumsUp(G, h, J)
<1>1. IsFiniteSet(J) /\ Integral(h, I) /\ Integral(h, J)
  BY FS_AddElement DEF Integral
<1>2. SumsUp(F, h, I)
  BY SumExists
<1>3. SumsUp(E, h, J)
  BY <1>1, SumExists
<1>4. Total(h, I) = F[I] /\ Total(h, J) = E[J]
  BY DEF Total
<1> HIDE DEF F, E
<1>5. SumsUp(E, h, I)
  BY <1>3 DEF SumsUp
<1>6. F[I] = E[I] /\ F[I] \in Int
  BY <1>1, <1>2, <1>5, SumsAgree, AnyElementFirst
<1>7. E[J] = h[x] + E[J \ {x}]
  BY <1>1, <1>3, AnyElementFirst
<1>8. J \ {x} = I
  OBVIOUS
<1>9. QED
  BY <1>4, <1>6, <1>7, <1>8

(* The summands outside the set do not matter. *)
LEMMA TotalSame ==
  ASSUME NEW I, IsFiniteSet(I), NEW h, Integral(h, I), NEW k, \A i \in I : k[i] = h[i]
  PROVE  Total(k, I) = Total(h, I)
<1> DEFINE F == CHOOSE G : SumsUp(G, h, I)
           E == CHOOSE G : SumsUp(G, k, I)
<1>1. SumsUp(F, h, I) /\ SumsUp(E, k, I)
  BY SumExists
<1> HIDE DEF F, E
<1>2. F[I] = E[I]
  BY <1>1, SumsAgree
<1>3. QED
  BY <1>2 DEF Total, F, E

(* Multiples add up to the multiple. *)
LEMMA TotalScaled ==
  ASSUME NEW I, IsFiniteSet(I), NEW h, Integral(h, I), NEW a \in Int, NEW k, \A i \in I : k[i] = a * h[i]
  PROVE  Total(k, I) = a * Total(h, I)
<1> DEFINE F == CHOOSE G : SumsUp(G, h, I)
           E == CHOOSE G : SumsUp(G, k, I)
           D == [s \in SUBSET I |-> a * F[s]]
<1>1. SumsUp(F, h, I) /\ SumsUp(E, k, I)
  BY SumExists
<1> HIDE DEF F, E
<1>2. \A s \in SUBSET I : F[s] \in Int /\ \A x \in s : F[s] = h[x] + F[s \ {x}]
  BY <1>1, AnyElementFirst
<1>3. D[{}] = 0
  BY <1>1 DEF SumsUp
<1>4. ASSUME NEW s \in SUBSET I, s # {}
      PROVE  \E x \in s : D[s] = k[x] + D[s \ {x}]
  <2>1. PICK x \in s : TRUE
    BY <1>4
  <2>2. D[s] = a * F[s] /\ D[s \ {x}] = a * F[s \ {x}] /\ k[x] = a * h[x]
    OBVIOUS
  <2>3. PICK u \in Int, v \in Int : u = h[x] /\ v = F[s \ {x}]
    BY <1>2 DEF Integral
  <2>4. F[s] = u + v
    BY <1>2, <2>3
  <2>5. a * (u + v) = a * u + a * v
    OBVIOUS
  <2> QED
    BY <2>2, <2>3, <2>4, <2>5
<1>5. SumsUp(D, k, I)
  BY <1>3, <1>4 DEF SumsUp
<1>6. Integral(k, I)
  <2> SUFFICES ASSUME NEW i \in I PROVE k[i] \in Int
    BY DEF Integral
  <2>1. PICK u \in Int : u = h[i]
    BY DEF Integral
  <2> QED
    BY <2>1
<1> HIDE DEF D
<1>7. E[I] = D[I]
  BY <1>1, <1>5, <1>6, SumsAgree
<1>8. D[I] = a * F[I]
  BY DEF D
<1> QED
  BY <1>7, <1>8 DEF Total, F, E

(* Summands that are not negative: the sum is not, is no less than each    *)
(* two of them, and one of them is not 0 if the sum is not.                *)
LEMMA TotalNat ==
  ASSUME NEW I, IsFiniteSet(I), NEW h, \A i \in I : h[i] \in Nat
  PROVE  /\ Total(h, I) \in Nat
         /\ Total(h, I) # 0 => \E i \in I : h[i] # 0
         /\ \A i \in I : h[i] <= Total(h, I)
         /\ \A i, j \in I : i # j => h[i] + h[j] <= Total(h, I)
<1> DEFINE F == CHOOSE G : SumsUp(G, h, I)
           N == {m \in Nat : \A s \in SUBSET I : Cardinality(s) <= m =>
                               F[s] \in Nat /\ (F[s] # 0 => \E i \in s : h[i] # 0)}
<1>1. SumsUp(F, h, I) /\ Integral(h, I)
  BY SumExists DEF Integral
<1> HIDE DEF F
<1>2. \A s \in SUBSET I : F[s] \in Int /\ \A x \in s : F[s] = h[x] + F[s \ {x}]
  BY <1>1, AnyElementFirst
<1>3. 0 \in N
  <2>1. F[{}] = 0
    BY <1>1 DEF SumsUp
  <2>2. \A s \in SUBSET I : Cardinality(s) <= 0 => s = {}
    BY SubsetCard
  <2> QED
    BY <2>1, <2>2
<1>4. ASSUME NEW m \in Nat, m \in N PROVE m + 1 \in N
  <2> SUFFICES ASSUME NEW s \in SUBSET I, Cardinality(s) <= m + 1
               PROVE  F[s] \in Nat /\ (F[s] # 0 => \E i \in s : h[i] # 0)
    OBVIOUS
  <2>1. CASE s = {}
    BY <1>1, <2>1 DEF SumsUp
  <2>2. CASE s # {}
    <3>1. PICK y \in s : TRUE
      BY <2>2
    <3>2. Cardinality(s \ {y}) <= m /\ s \ {y} \in SUBSET I
      BY SubsetCard
    <3>3. F[s \ {y}] \in Nat /\ (F[s \ {y}] # 0 => \E i \in s \ {y} : h[i] # 0)
      BY <1>4, <3>2
    <3>4. F[s] = h[y] + F[s \ {y}] /\ h[y] \in Nat
      BY <1>2
    <3> QED
      BY <3>3, <3>4
  <2> QED
    BY <2>1, <2>2
<1>5. \A m \in Nat : m \in N
  <2> HIDE DEF N
  <2> QED
    BY <1>3, <1>4, SetOfAllNumbers
<1>6. ASSUME NEW s \in SUBSET I
      PROVE  F[s] \in Nat /\ (F[s] # 0 => \E i \in s : h[i] # 0)
  <2>1. Cardinality(s) \in Nat /\ Cardinality(s) <= Cardinality(s)
    BY SubsetCard
  <2> QED
    BY <1>5, <2>1
<1>7. ASSUME NEW i \in I
      PROVE  /\ h[i] <= F[I]
             /\ \A j \in I : i # j => h[i] + h[j] <= F[I]
  <2>1. F[I] = h[i] + F[I \ {i}] /\ h[i] \in Nat /\ F[I \ {i}] \in Nat
    BY <1>2, <1>6
  <2>2. ASSUME NEW j \in I, i # j PROVE h[i] + h[j] <= F[I]
    <3>1. j \in I \ {i} /\ I \ {i} \in SUBSET I
      BY <2>2
    <3>2. F[I \ {i}] = h[j] + F[(I \ {i}) \ {j}] /\ h[j] \in Nat /\ F[(I \ {i}) \ {j}] \in Nat
      BY <1>2, <1>6, <3>1
    <3> QED
      BY <2>1, <3>2
  <2> QED
    BY <2>1, <2>2
<1> QED
  BY <1>6, <1>7 DEF Total, F

-----------------------------------------------------------------------------
(* Sums over a sequence.                                                   *)

(* k is the sum of w over the elements of a sequence, each as often as it  *)
(* occurs; f has the sums of what is left of it.                           *)
Adds(w, s, k) ==
  \E f \in [1 .. Len(s) + 1 -> Int] :
    /\ f[1] = k /\ f[Len(s) + 1] = 0
    /\ \A i \in 1 .. Len(s) : f[i] = w[s[i]] + f[i + 1]

(* Nothing adds up to 0, and to nothing else. *)
LEMMA AddsNone ==
  ASSUME NEW w
  PROVE  /\ Adds(w, <<>>, 0)
         /\ \A k : Adds(w, <<>>, k) => k = 0
<1>1. Adds(w, <<>>, 0)
  <2> DEFINE f == [i \in 1 .. Len(<<>>) + 1 |-> 0]
  <2>1. f \in [1 .. Len(<<>>) + 1 -> Int] /\ Len(<<>>) = 0
    OBVIOUS
  <2>2. f[1] = 0 /\ f[Len(<<>>) + 1] = 0
    BY <2>1
  <2> HIDE DEF f
  <2> QED
    BY <2>1, <2>2 DEF Adds
<1> QED
  BY <1>1 DEF Adds

(* One more element in front adds its summand. *)
LEMMA AddsBefore ==
  ASSUME NEW E, NEW w \in [E -> Int], NEW s \in Seq(E), NEW e \in E, NEW k, Adds(w, s, k)
  PROVE  k \in Int /\ <<e>> \o s \in Seq(E) /\ Adds(w, <<e>> \o s, w[e] + k)
<1>1. PICK f \in [1 .. Len(s) + 1 -> Int] :
        /\ f[1] = k /\ f[Len(s) + 1] = 0
        /\ \A i \in 1 .. Len(s) : f[i] = w[s[i]] + f[i + 1]
  BY DEF Adds
<1> DEFINE t == <<e>> \o s
           g == [i \in 1 .. Len(t) + 1 |-> IF i = 1 THEN w[e] + k ELSE f[i - 1]]
<1>2. /\ t \in Seq(E) /\ Len(t) = Len(s) + 1 /\ Len(s) \in Nat
      /\ t[1] = e /\ \A i \in 2 .. Len(t) : t[i] = s[i - 1]
  <2>1. <<e>> \in Seq(E) /\ Len(<<e>>) = 1
    OBVIOUS
  <2>2. t \in Seq(E) /\ Len(t) = Len(s) + 1 /\ Len(s) \in Nat
    BY <2>1
  <2>3. \A i \in 1 .. Len(<<e>>) + Len(s) : t[i] = IF i <= Len(<<e>>) THEN <<e>>[i] ELSE s[i - Len(<<e>>)]
    BY <2>1, ConcatProperties
  <2> HIDE DEF t
  <2>4. t[1] = e /\ \A i \in 2 .. Len(t) : t[i] = s[i - 1]
    BY <2>1, <2>2, <2>3
  <2> QED
    BY <2>2, <2>4
<1>3. k \in Int
  <2>1. 1 \in 1 .. Len(s) + 1
    OBVIOUS
  <2> QED
    BY <2>1, <1>1
<1> HIDE DEF t
<1>4. g \in [1 .. Len(t) + 1 -> Int]
  BY <1>1, <1>2, <1>3
<1>5. g[1] = w[e] + k /\ g[Len(t) + 1] = 0
  BY <1>1, <1>2
<1>6. ASSUME NEW i \in 1 .. Len(t)
      PROVE  g[i] = w[t[i]] + g[i + 1]
  <2>1. CASE i = 1
    BY <2>1, <1>1, <1>2
  <2>2. CASE i # 1
    <3>1. g[i] = f[i - 1] /\ g[i + 1] = f[i] /\ t[i] = s[i - 1] /\ i - 1 \in 1 .. Len(s)
      BY <2>2, <1>2, SMTT(30)
    <3> QED
      BY <3>1, <1>1
  <2> QED
    BY <2>1, <2>2
<1>7. Adds(w, t, w[e] + k)
  BY <1>4, <1>5, <1>6 DEF Adds
<1> QED
  BY <1>2, <1>3, <1>7 DEF t

(* Without its first element, a sequence adds up to that much less. *)
LEMMA AddsTail ==
  ASSUME NEW E, NEW w \in [E -> Int], NEW s \in Seq(E), s # <<>>, NEW k, Adds(w, s, k)
  PROVE  /\ Head(s) \in E /\ Tail(s) \in Seq(E) /\ k \in Int
         /\ Adds(w, Tail(s), k - w[Head(s)])
<1>1. PICK f \in [1 .. Len(s) + 1 -> Int] :
        /\ f[1] = k /\ f[Len(s) + 1] = 0
        /\ \A i \in 1 .. Len(s) : f[i] = w[s[i]] + f[i + 1]
  BY DEF Adds
<1> DEFINE t == Tail(s)
           g == [i \in 1 .. Len(t) + 1 |-> f[i + 1]]
<1>2. /\ t \in Seq(E) /\ Len(t) = Len(s) - 1 /\ Len(s) \in Nat \ {0}
      /\ Head(s) = s[1] /\ s[1] \in E /\ \A i \in 1 .. Len(t) : t[i] = s[i + 1]
  OBVIOUS
<1>3. k \in Int /\ k = w[s[1]] + f[2] /\ f[2] \in Int /\ w[s[1]] \in Int
  BY <1>1, <1>2, SMTT(30)
<1> HIDE DEF t
<1>4. g \in [1 .. Len(t) + 1 -> Int]
  BY <1>1, <1>2
<1>5. g[1] = k - w[s[1]] /\ g[Len(t) + 1] = 0
  BY <1>1, <1>2, <1>3
<1>6. ASSUME NEW i \in 1 .. Len(t)
      PROVE  g[i] = w[t[i]] + g[i + 1]
  <2>1. g[i] = f[i + 1] /\ g[i + 1] = f[i + 2] /\ t[i] = s[i + 1] /\ i + 1 \in 1 .. Len(s)
    BY <1>2
  <2> QED
    BY <2>1, <1>1
<1>7. Adds(w, t, k - w[s[1]])
  BY <1>4, <1>5, <1>6 DEF Adds
<1> QED
  BY <1>2, <1>3, <1>7 DEF t

(* Summands that are not negative add up to what is not negative. *)
LEMMA AddsNat ==
  ASSUME NEW E, NEW w \in [E -> Nat], NEW s \in Seq(E), NEW k, Adds(w, s, k)
  PROVE  k \in Nat
<1>1. PICK f \in [1 .. Len(s) + 1 -> Int] :
        /\ f[1] = k /\ f[Len(s) + 1] = 0
        /\ \A i \in 1 .. Len(s) : f[i] = w[s[i]] + f[i + 1]
  BY DEF Adds
<1>2. Len(s) \in Nat /\ \A i \in 1 .. Len(s) : s[i] \in E
  OBVIOUS
<1> DEFINE N == {d \in Nat : d <= Len(s) => f[Len(s) + 1 - d] >= 0}
<1>3. 0 \in N
  BY <1>1, <1>2
<1>4. ASSUME NEW d \in Nat, d \in N
      PROVE  d + 1 \in N
  <2>1. CASE d + 1 <= Len(s)
    <3>1. PICK i \in 1 .. Len(s) : i = Len(s) + 1 - (d + 1)
      BY <1>2, <2>1
    <3>2. f[i] = w[s[i]] + f[i + 1] /\ i + 1 = Len(s) + 1 - d
      BY <1>1, <1>2, <3>1
    <3>3. f[i + 1] >= 0 /\ f[i + 1] \in Int
      BY <1>1, <1>2, <1>4, <2>1, <3>1, <3>2, SMTT(30)
    <3>4. w[s[i]] \in Nat
      BY <1>2
    <3> QED
      BY <1>2, <3>1, <3>2, <3>3, <3>4
  <2>2. CASE ~(d + 1 <= Len(s))
    BY <2>2
  <2> QED
    BY <2>1, <2>2
<1>5. \A d \in Nat : d \in N
  <2> HIDE DEF N
  <2> QED
    BY <1>3, <1>4, SetOfAllNumbers
<1>6. Len(s) \in N /\ 1 \in 1 .. Len(s) + 1
  BY <1>2, <1>5
<1>7. Len(s) + 1 - Len(s) = 1
  BY <1>2
<1> QED
  BY <1>1, <1>2, <1>6, <1>7

-----------------------------------------------------------------------------
(* Products and quotients.                                                 *)

(* The product of natural numbers is one. *)
LEMMA NatProduct ==
  ASSUME NEW a \in Nat, NEW b \in Nat
  PROVE  a * b \in Nat
  OBVIOUS

(* A product does not shrink when its factors grow. *)
LEMMA ProductMonotonic ==
  ASSUME NEW a \in Nat, NEW b \in Nat, NEW c \in Nat, NEW d \in Nat, a <= c, b <= d
  PROVE  a * b <= c * d
<1>1. a * b <= c * b
  OBVIOUS
<1>2. c * b <= c * d
  OBVIOUS
<1>3. a * b \in Nat /\ c * b \in Nat /\ c * d \in Nat
  BY NatProduct
<1> QED
  BY <1>1, <1>2, <1>3

(* Division by a number that is not a constant, which the provers do not   *)
(* know.                                                                   *)
LEMMA Quotient ==
  ASSUME NEW a \in Nat, NEW c \in Nat \ {0}
  PROVE  /\ a \div c \in Nat /\ a % c \in 0 .. c - 1
         /\ a = (a \div c) * c + (a % c)
<1>1. a \div c \in Nat /\ a % c \in 0 .. c - 1
  OBVIOUS
<1>2. a = (a \div c) * c + (a % c)
  BY SMTT(30)
<1> QED BY <1>1, <1>2

(* A multiple of c other than 0 is at least c away from it. *)
LEMMA MulBound ==
  ASSUME NEW c \in Nat \ {0}, NEW q \in Int
  PROVE  (q >= 1 => q * c >= c) /\ (q <= -1 => q * c <= -c)
<1>1. q >= 1 => q * c >= c
  OBVIOUS
<1>2. q <= -1 => q * c <= -c
  OBVIOUS
<1> QED BY <1>1, <1>2

(* Quotient and remainder are the only ones. *)
LEMMA Unique ==
  ASSUME NEW c \in Nat \ {0}, NEW q \in Int, NEW r \in 0 .. c - 1, NEW p \in Int, NEW s \in 0 .. c - 1,
         q * c + r = p * c + s
  PROVE  q = p /\ r = s
<1>1. (q - p) * c = s - r
  OBVIOUS
<1>2. (q - p) * c < c /\ (q - p) * c > -c
  BY <1>1
<1>3. ~(q - p >= 1) /\ ~(q - p <= -1)
  BY <1>2, MulBound
<1> QED BY <1>3

(* The next number has the next remainder, or the next quotient. *)
LEMMA NextQuotient ==
  ASSUME NEW a \in Nat, NEW c \in Nat \ {0}
  PROVE  /\ (a % c) + 1 < c => (a + 1) \div c = a \div c /\ (a + 1) % c = (a % c) + 1
         /\ (a % c) + 1 = c => (a + 1) \div c = a \div c + 1 /\ (a + 1) % c = 0
<1> DEFINE q == a \div c r == a % c p == (a+1) \div c s == (a+1) % c
<1>1. q \in Nat /\ r \in 0 .. c - 1 /\ a = q * c + r
  BY Quotient
<1>2. p \in Nat /\ s \in 0 .. c - 1 /\ a + 1 = p * c + s
  <2> DEFINE e == a + 1
  <2>1. e \in Nat
    OBVIOUS
  <2> HIDE DEF e
  <2>2. e \div c \in Nat /\ e % c \in 0 .. c - 1 /\ e = (e \div c) * c + (e % c)
    BY <2>1, Quotient
  <2> QED
    BY <2>2 DEF e
<1> HIDE DEF q, r, p, s
<1>3. ASSUME r + 1 < c PROVE p = q /\ s = r + 1
  <2>1. q * c + (r + 1) = p * c + s
    BY <1>1, <1>2
  <2> QED BY <2>1, <1>1, <1>2, <1>3, Unique
<1>4. ASSUME r + 1 = c PROVE p = q + 1 /\ s = 0
  <2>0. (q + 1) * c = q * c + c
    BY <1>1
  <2>1. q + 1 \in Int /\ 0 \in 0 .. c - 1 /\ (q + 1) * c + 0 = p * c + s
    BY <2>0, <1>1, <1>2, <1>4
  <2> QED BY ONLY <2>1, <1>2, Unique
<1> QED BY <1>3, <1>4 DEF q, r, p, s

-----------------------------------------------------------------------------
(* Concatenation.                                                          *)

(* Concatenation under a name: the provers take \o apart wherever they see *)
(* it.                                                                     *)
Cat(s, t) == s \o t

(* Concatenation is associative. *)
LEMMA CatAssociative ==
  ASSUME NEW T, NEW a \in Seq(T), NEW b \in Seq(T), NEW c \in Seq(T)
  PROVE  /\ Cat(a, b) \in Seq(T)
         /\ Cat(Cat(a, b), c) = Cat(a, Cat(b, c))
<1>1. Cat(a, b) \in Seq(T)
  BY DEF Cat
<1>2. (a \o b) \o c = a \o (b \o c)
  BY ConcatAssociative
<1> QED
  BY <1>1, <1>2 DEF Cat

(* Concatenation is associative, for the four parts of a node. *)
LEMMA ConcatFour ==
  ASSUME NEW T, NEW a \in Seq(T), NEW b \in Seq(T), NEW c \in Seq(T), NEW d \in Seq(T), NEW s \in Seq(T)
  PROVE  Cat(Cat(Cat(Cat(a, b), c), d), s) = Cat(a, Cat(b, Cat(c, Cat(d, s))))
<1>1. /\ Cat(a, b) \in Seq(T) /\ Cat(d, s) \in Seq(T)
      /\ Cat(Cat(a, b), c) \in Seq(T) /\ Cat(c, Cat(d, s)) \in Seq(T)
  BY CatAssociative
<1>2. Cat(Cat(Cat(Cat(a, b), c), d), s) = Cat(Cat(Cat(a, b), c), Cat(d, s))
  BY <1>1, CatAssociative
<1>3. Cat(Cat(Cat(a, b), c), Cat(d, s)) = Cat(Cat(a, b), Cat(c, Cat(d, s)))
  BY <1>1, CatAssociative
<1>4. Cat(Cat(a, b), Cat(c, Cat(d, s))) = Cat(a, Cat(b, Cat(c, Cat(d, s))))
  BY <1>1, CatAssociative
<1> QED
  BY <1>2, <1>3, <1>4

-----------------------------------------------------------------------------
(* BlackborderDetect, for every count of rows, threshold and height of a   *)
(* block.                                                                  *)

(* BlackLines counts the rows before the first zero: the choice exists. *)
LEMMA BlackLinesCount ==
  ASSUME NEW line, NEW rows \in Nat
  PROVE  LET n == BlackLines(line, rows)
         IN  /\ n \in 0 .. rows
             /\ \A i \in 0 .. n - 1 : line[i] # 0
             /\ n < rows => line[n] = 0
<1> DEFINE Q(n) == /\ \A i \in 0 .. n - 1 : line[i] # 0
                   /\ n < rows => line[n] = 0
           Ends == {n \in 0 .. rows : n < rows => line[n] = 0}
<1>1. Ends \in SUBSET Nat /\ rows \in Ends
  OBVIOUS
<1>2. PICK x \in Ends : \A y \in Ends : x <= y
  BY <1>1, LeastElement
<1>3. x \in 0 .. rows /\ (x < rows => line[x] = 0)
  OBVIOUS
<1>4. ASSUME NEW i \in 0 .. x - 1 PROVE line[i] # 0
  <2>1. i \in 0 .. rows /\ i < rows /\ ~ (x <= i)
    BY <1>3
  <2>2. i \notin Ends
    BY <1>2, <2>1
  <2>3. QED
    BY <2>1, <2>2
<1>5. \E n \in 0 .. rows : Q(n)
  BY <1>3, <1>4
<1>6. BlackLines(line, rows) = CHOOSE n \in 0 .. rows : Q(n)
  BY DEF BlackLines
<1> HIDE DEF Q
<1>7. BlackLines(line, rows) \in 0 .. rows /\ Q(BlackLines(line, rows))
  BY <1>5, <1>6
<1>8. QED
  BY <1>7 DEF Q

(* A folded row of the upper half is not zero just if it is dark together  *)
(* with its mirror.                                                        *)
LEMMA FoldedRow ==
  ASSUME NEW line, NEW rows \in Nat, NEW threshold, NEW i \in 0 .. (rows \div 2) - 1
  PROVE  (Folded(line, rows, threshold)[i] # 0) <=> DarkRow(line, rows, threshold, i)
<1>1. i \in 0 .. rows - 1 /\ i # rows - 1 - i
  OBVIOUS
<1>2. Folded(line, rows, threshold)[i] =
        IF line[i] + line[rows - 1 - i] >= 2 * threshold THEN 1 ELSE 0
  BY <1>1 DEF Folded
<1>3. QED
  BY <1>2 DEF DarkRow

(* BlackborderDetect finds the largest border, whatever the counts, an odd *)
(* middle row included, and no border in a picture that is dark all over.  *)
THEOREM DetectsBorder ==
  ASSUME NEW line, NEW rows \in Nat, NEW threshold, NEW height
  PROVE  IsBorder(line, rows, threshold, height,
                  BlackborderDetect(line, rows, threshold, height))
<1> DEFINE f    == Folded(line, rows, threshold)
           n    == BlackLines(f, rows)
           half == rows \div 2
           D(i) == DarkRow(line, rows, threshold, i)
<1>1. n \in 0 .. rows /\ (\A i \in 0 .. n - 1 : f[i] # 0) /\ (n < rows => f[n] = 0)
  BY BlackLinesCount
<1>2. half \in 0 .. rows
  OBVIOUS
<1>3. \A i \in 0 .. half - 1 : f[i] # 0 <=> D(i)
  BY FoldedRow
<1>4. BlackborderDetect(line, rows, threshold, height) = IF n >= half THEN 0 ELSE n * height
  BY DEF BlackborderDetect
<1>5. IsBorder(line, rows, threshold, height, BlackborderDetect(line, rows, threshold, height))
      <=> \E k \in 0 .. half : /\ \A i \in 0 .. k - 1 : D(i)
                               /\ k < half => ~ D(k)
                               /\ BlackborderDetect(line, rows, threshold, height)
                                    = IF k < half THEN k * height ELSE 0
  BY DEF IsBorder
<1> HIDE DEF f, n, half, D
<1>6. CASE n >= half
  <2>1. \A i \in 0 .. half - 1 : D(i)
    BY <1>1, <1>2, <1>3, <1>6
  <2>2. half \in 0 .. half
    BY <1>2
  <2>3. QED
    BY <1>2, <1>4, <1>5, <1>6, <2>1, <2>2
<1>7. CASE n < half
  <2>1. n \in 0 .. half /\ n < rows /\ n \in 0 .. half - 1
    BY <1>1, <1>2, <1>7
  <2>2. \A i \in 0 .. n - 1 : i \in 0 .. half - 1
    BY <1>2, <2>1
  <2>3. (\A i \in 0 .. n - 1 : D(i)) /\ ~ D(n)
    BY <1>1, <1>3, <2>1, <2>2
  <2>4. QED
    BY <1>2, <1>4, <1>5, <1>7, <2>1, <2>3
<1>8. QED
  BY <1>1, <1>2, <1>6, <1>7

(* First element and rest of a sequence. *)
LEMMA NotEmpty ==
  ASSUME NEW T, NEW s \in Seq(T), s # <<>>
  PROVE  Head(s) \in T /\ Tail(s) \in Seq(T)
  OBVIOUS
=============================================================================
