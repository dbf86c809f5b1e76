--------------------------- MODULE EnumerateProofs ---------------------------
(***************************************************************************)
(* What a trace is turned into, for any trace, model, seed and cap.        *)
(*                                                                         *)
(* The loops are shown to try every set the model allows, each once, and   *)
(* what sampleStates keeps to be a part of that in the same order.  Both   *)
(* rest on one assumption about bounds.jsonc, WindowFits: with a window of *)
(* 31 operations or more, 1 << window.length is not the number of the      *)
(* window's subsets, and slice(-0) is the whole array.                     *)
(***************************************************************************)
EXTENDS Enumerate, FiniteSetTheorems, SequenceTheorems, WellFoundedInduction, TLAPS

-----------------------------------------------------------------------------
(* Least elements, and sorting.                                            *)

(* A set of naturals with an element has a least one.                      *)
LEMMA Smallest ==
    ASSUME NEW T \in SUBSET Nat, T # {}
    PROVE  \E x \in T : \A y \in T : x <= y
<1>1. PICK n : n \in T
  OBVIOUS
<1> DEFINE B == 0..n
           F == {0..x : x \in {y \in T : y <= n}}
<1>2. F \subseteq FiniteSubsetsOf(B) /\ F # {}
  <2>1. \A x \in T : IsFiniteSet(0..x)
    BY FS_Interval
  <2>2. 0..n \in F
    BY <1>1
  <2>3. ASSUME NEW x \in T, x <= n PROVE 0..x \in SUBSET B
    BY <1>1, <2>3
  <2> QED
    BY <2>1, <2>2, <2>3 DEF FiniteSubsetsOf
<1>3. PICK U \in F : \A V \in F : ~(<<V, U>> \in StrictSubsetOrdering(B))
  <2> HIDE DEF B, F
  <2>1. IsWellFoundedOn(StrictSubsetOrdering(B), FiniteSubsetsOf(B))
    BY FS_StrictSubsetOrderingWellFounded
  <2> QED
    BY <1>2, <2>1, WFMin
<1>4. PICK x \in T : x <= n /\ U = 0..x
  OBVIOUS
<1>5. ASSUME NEW y \in T PROVE x <= y
  <2> SUFFICES ASSUME y < x PROVE FALSE
    BY <1>4
  <2>1. 0..y \in F
    BY <1>1, <1>4
  <2>2. 0..y \subseteq 0..x /\ 0..y \subseteq B /\ 0..x \subseteq B /\ 0..y # 0..x
    BY <1>1, <1>4
  <2> HIDE DEF B, F
  <2>3. <<0..y, 0..x>> \in StrictSubsetOrdering(B)
    BY <2>2 DEF StrictSubsetOrdering
  <2> QED
    BY <2>1, <2>3, <1>3, <1>4
<1> QED
  BY <1>5

(* R orders S: its elements are one before the other.                      *)
Orders(R, S) ==
    /\ \A x \in S : <<x, x>> \notin R
    /\ \A x, y, z \in S : <<x, y>> \in R /\ <<y, z>> \in R => <<x, z>> \in R
    /\ \A x, y \in S : x # y => <<x, y>> \in R \/ <<y, x>> \in R

(* s lists the elements of S, each once, in the order R.                   *)
Lists(s, S, R) ==
    /\ s \in [1..Cardinality(S) -> S]
    /\ \A x \in S : \E k \in DOMAIN s : s[k] = x
    /\ \A j, k \in DOMAIN s : j < k <=> <<s[j], s[k]>> \in R

Before(R, S, x) == {y \in S : <<y, x>> \in R}

(* The elements before an element place it: no two have the same number,   *)
(* so every number from 0 below the cardinality is some element's.         *)
LEMMA Placed ==
    ASSUME NEW S, IsFiniteSet(S), NEW R, Orders(R, S)
    PROVE  /\ \A x \in S : Cardinality(Before(R, S, x)) \in 0..(Cardinality(S) - 1)
           /\ \A x, y \in S : <<x, y>> \in R => Cardinality(Before(R, S, x)) < Cardinality(Before(R, S, y))
           /\ \A k \in 1..Cardinality(S) : \E x \in S : Cardinality(Before(R, S, x)) = k - 1
<1>1. Cardinality(S) \in Nat
  BY FS_CardinalityType
<1>2. ASSUME NEW x \in S
      PROVE  /\ IsFiniteSet(Before(R, S, x))
             /\ Cardinality(Before(R, S, x)) \in 0..(Cardinality(S) - 1)
  <2>1. Before(R, S, x) \in SUBSET S /\ x \notin Before(R, S, x)
    BY DEF Before, Orders
  <2>2. /\ IsFiniteSet(Before(R, S, x))
        /\ Cardinality(Before(R, S, x)) <= Cardinality(S)
        /\ Cardinality(S) = Cardinality(Before(R, S, x)) => S = Before(R, S, x)
    BY <2>1, FS_Subset
  <2>3. Cardinality(Before(R, S, x)) \in Nat
    BY <2>2, FS_CardinalityType
  <2> QED
    BY <1>1, <2>1, <2>2, <2>3
<1>3. ASSUME NEW x \in S, NEW y \in S, <<x, y>> \in R
      PROVE  Cardinality(Before(R, S, x)) < Cardinality(Before(R, S, y))
  <2>1. Before(R, S, x) \in SUBSET Before(R, S, y)
    BY <1>3 DEF Before, Orders
  <2>2. x \in Before(R, S, y) /\ x \notin Before(R, S, x)
    BY <1>3 DEF Before, Orders
  <2>3. /\ Cardinality(Before(R, S, x)) <= Cardinality(Before(R, S, y))
        /\ Cardinality(Before(R, S, y)) = Cardinality(Before(R, S, x)) => Before(R, S, y) = Before(R, S, x)
    BY <1>2, <2>1, FS_Subset
  <2> QED
    BY <1>1, <1>2, <2>2, <2>3
<1>4. ASSUME NEW k \in 1..Cardinality(S)
      PROVE  \E x \in S : Cardinality(Before(R, S, x)) = k - 1
  <2> DEFINE D == 0..(Cardinality(S) - 1)
             f == [x \in S |-> Cardinality(Before(R, S, x))]
  <2>1. f \in Injection(S, D)
    <3>1. f \in [S -> D]
      BY <1>2
    <3>2. ASSUME NEW x \in S, NEW y \in S, f[x] = f[y] PROVE x = y
      <4> SUFFICES ASSUME x # y PROVE FALSE
        OBVIOUS
      <4>1. <<x, y>> \in R \/ <<y, x>> \in R
        BY DEF Orders
      <4> QED
        BY <1>2, <1>3, <3>2, <4>1
    <3> HIDE DEF f, D
    <3> QED
      BY <3>1, <3>2 DEF Injection, IsInjective
  <2>2. IsFiniteSet(D) /\ Cardinality(D) = Cardinality(S)
    <3>1. 0 \in Int /\ Cardinality(S) - 1 \in Int
      BY <1>1
    <3>2. /\ IsFiniteSet(D)
          /\ Cardinality(D) = IF 0 > Cardinality(S) - 1 THEN 0 ELSE (Cardinality(S) - 1) - 0 + 1
      BY <3>1, FS_Interval
    <3> HIDE DEF D
    <3> QED
      BY <1>1, <3>2
  <2>3. f \in Surjection(S, D)
    <3> HIDE DEF f, D
    <3> QED
      BY <2>1, <2>2, FS_Injection
  <2>4. k - 1 \in D
    BY <1>1
  <2>5. \E x \in S : f[x] = k - 1
    <3> HIDE DEF f, D
    <3> QED
      BY <2>3, <2>4 DEF Surjection
  <2> QED
    BY <2>5
<1> QED
  BY <1>2, <1>3, <1>4

(* If k - 1 elements are before the k-th, the sequence lists S in order.   *)
LEMMA SortedLists ==
    ASSUME NEW S, IsFiniteSet(S), NEW R, Orders(R, S),
           NEW s, s = [k \in 1..Cardinality(S) |-> s[k]],
           \A k \in 1..Cardinality(S) : s[k] \in S /\ Cardinality(Before(R, S, s[k])) = k - 1
    PROVE  Lists(s, S, R)
<1> DEFINE n == Cardinality(S)
           at(x) == Cardinality(Before(R, S, x))
<1>0. n \in Nat
  BY FS_CardinalityType
<1>1. /\ \A x \in S : at(x) \in 0..(n - 1)
      /\ \A x, y \in S : <<x, y>> \in R => at(x) < at(y)
      /\ \A k \in 1..n : \E x \in S : at(x) = k - 1
  BY Placed
<1>2. s = [k \in 1..n |-> s[k]]
  OBVIOUS
<1>3. DOMAIN s = 1..n /\ \A k \in 1..n : s[k] \in S /\ at(s[k]) = k - 1
  BY <1>2
<1> HIDE DEF at, n
<1>4. s \in [1..n -> S]
  BY <1>2, <1>3
<1>5. \A x, y \in S : at(x) = at(y) => x = y
  <2> SUFFICES ASSUME NEW x \in S, NEW y \in S, at(x) = at(y), x # y PROVE FALSE
    OBVIOUS
  <2>1. <<x, y>> \in R \/ <<y, x>> \in R
    BY DEF Orders
  <2> QED
    BY <1>0, <1>1, <2>1
<1>6. ASSUME NEW x \in S PROVE \E k \in DOMAIN s : s[k] = x
  <2>1. at(x) + 1 \in 1..n /\ (at(x) + 1) - 1 = at(x)
    BY <1>0, <1>1
  <2>2. at(s[at(x) + 1]) = at(x) /\ s[at(x) + 1] \in S
    BY <1>3, <2>1
  <2> QED
    BY <1>3, <1>5, <2>1, <2>2
<1>7. ASSUME NEW j \in DOMAIN s, NEW k \in DOMAIN s PROVE j < k <=> <<s[j], s[k]>> \in R
  <2>1. j \in 1..n /\ k \in 1..n /\ s[j] \in S /\ s[k] \in S /\ at(s[j]) = j - 1 /\ at(s[k]) = k - 1
    BY <1>3
  <2>2. <<s[j], s[k]>> \in R => j < k
    BY <1>0, <1>1, <2>1
  <2>3. <<s[k], s[j]>> \in R => k < j
    BY <1>0, <1>1, <2>1
  <2>4. ASSUME j < k PROVE <<s[j], s[k]>> \in R
    <3>1. j # k /\ ~(k < j) /\ j - 1 # k - 1
      BY <1>0, <2>1, <2>4
    <3>2. s[j] # s[k]
      BY <2>1, <3>1
    <3>3. <<s[j], s[k]>> \in R \/ <<s[k], s[j]>> \in R
      BY <2>1, <3>2 DEF Orders
    <3> QED
      BY <2>3, <3>1, <3>3
  <2> QED
    BY <2>2, <2>4
<1> QED
  BY <1>4, <1>6, <1>7 DEF Lists, n

(* s lists a set of numbers in their order.                                *)
Rises(s, S) ==
    /\ s \in [1..Cardinality(S) -> S]
    /\ \A x \in S : \E k \in DOMAIN s : s[k] = x
    /\ \A j, k \in DOMAIN s : j < k <=> s[j] < s[k]

(* Ascending(S) lists a finite set of numbers from the least up.           *)
LEMMA AscendingRises ==
    ASSUME NEW S \in SUBSET Int, IsFiniteSet(S)
    PROVE  /\ Rises(Ascending(S), S)
           /\ Cardinality(S) \in Nat
           /\ Len(Ascending(S)) = Cardinality(S)
           /\ DOMAIN Ascending(S) = 1..Cardinality(S)
           /\ Ascending(S) \in Seq(S)
<1> DEFINE R == {p \in S \X S : p[1] < p[2]}
           s == Ascending(S)
<1>1. \A x, y \in S : <<x, y>> \in R <=> x < y
  OBVIOUS
<1>2. Orders(R, S)
  <2> HIDE DEF R
  <2> QED
    BY <1>1 DEF Orders
<1>3. /\ s = [k \in 1..Cardinality(S) |-> s[k]]
      /\ \A k \in 1..Cardinality(S) : s[k] \in S /\ Cardinality(Before(R, S, s[k])) = k - 1
  <2> DEFINE at(x) == Cardinality({y \in S : y < x})
  <2>1. \A x \in S : at(x) = Cardinality(Before(R, S, x))
    <3>1. \A x \in S : {y \in S : y < x} = Before(R, S, x)
      BY <1>1 DEF Before
    <3> QED
      BY <3>1
  <2>2. \A k \in 1..Cardinality(S) : \E x \in S : Cardinality(Before(R, S, x)) = k - 1
    <3> HIDE DEF R
    <3> QED
      BY <1>2, Placed
  <2>3. s = [k \in 1..Cardinality(S) |-> CHOOSE x \in S : at(x) = k - 1]
    BY DEF Ascending, Sorted
  <2> HIDE DEF at, R, s
  <2>4. \A k \in 1..Cardinality(S) : s[k] \in S /\ at(s[k]) = k - 1
    <3> SUFFICES ASSUME NEW k \in 1..Cardinality(S) PROVE s[k] \in S /\ at(s[k]) = k - 1
      OBVIOUS
    <3>1. \E x \in S : at(x) = k - 1
      BY <2>1, <2>2
    <3>2. s[k] = CHOOSE x \in S : at(x) = k - 1
      BY <2>3
    <3> QED
      BY <3>1, <3>2
  <2>5. s = [k \in 1..Cardinality(S) |-> s[k]]
    BY <2>3
  <2> QED
    BY <2>1, <2>4, <2>5
<1>4. Lists(s, S, R)
  <2> HIDE DEF R, s
  <2> QED
    BY <1>2, <1>3, SortedLists
<1>5. Rises(s, S)
  <2> HIDE DEF R, s
  <2> QED
    BY <1>1, <1>4 DEF Lists, Rises
<1>6. Cardinality(S) \in Nat
  BY FS_CardinalityType
<1>7. s \in [1..Cardinality(S) -> S]
  BY <1>5 DEF Rises
<1> HIDE DEF s
<1>8. s \in Seq(S) /\ Len(s) = Cardinality(S) /\ DOMAIN s = 1..Cardinality(S)
  BY <1>6, <1>7
<1> QED
  BY <1>5, <1>6, <1>8 DEF s

-----------------------------------------------------------------------------
(* Bits.                                                                   *)

Powers(g, n) == g = [i \in 0..n |-> IF i = 0 THEN 1 ELSE 2 * g[i - 1]]

(* The recursion of PowerOf2 has a solution up to any n.                   *)
LEMMA PowersExist ==
    ASSUME NEW n \in Nat
    PROVE  \E g : Powers(g, n)
<1> DEFINE T == {m \in Nat : ~ \E g : Powers(g, m)}
<1> SUFFICES T = {}
  OBVIOUS
<1> SUFFICES ASSUME T # {} PROVE FALSE
  OBVIOUS
<1>1. PICK m \in T : \A k \in T : m <= k
  BY Smallest
<1>2. Powers([i \in 0..0 |-> 1], 0)
  BY DEF Powers
<1>3. m # 0 /\ m - 1 \in Nat /\ m - 1 \notin T
  BY <1>1, <1>2
<1>4. PICK g : Powers(g, m - 1)
  BY <1>3
<1> DEFINE h == [i \in 0..m |-> IF i = m THEN 2 * g[m - 1] ELSE g[i]]
<1>5. \A i \in 0..(m - 1) : h[i] = g[i]
  BY <1>3
<1>6. \A i \in 0..(m - 1) : g[i] = IF i = 0 THEN 1 ELSE 2 * g[i - 1]
  BY <1>4 DEF Powers
<1>7. ASSUME NEW i \in 0..m PROVE h[i] = IF i = 0 THEN 1 ELSE 2 * h[i - 1]
  <2>1. CASE i = m
    <3>1. h[i] = 2 * g[m - 1] /\ h[m - 1] = g[m - 1]
      BY <1>3, <1>5, <2>1
    <3> QED
      BY <1>3, <2>1, <3>1
  <2>2. CASE i # m
    <3>1. i \in 0..(m - 1) /\ h[i] = g[i]
      BY <1>1, <1>5, <2>2
    <3>2. g[i] = IF i = 0 THEN 1 ELSE 2 * g[i - 1]
      BY <1>6, <3>1
    <3>3. i # 0 => h[i - 1] = g[i - 1]
      BY <1>5, <3>1
    <3> QED
      BY <3>1, <3>2, <3>3
  <2> QED
    BY <2>1, <2>2
<1>8. Powers(h, m)
  <2>1. h = [i \in 0..m |-> h[i]]
    OBVIOUS
  <2> HIDE DEF h
  <2> QED
    BY <1>7, <2>1 DEF Powers
<1> QED
  BY <1>1, <1>8

(* PowerOf2 unfolds.                                                       *)
LEMMA PowersOf2 ==
    /\ PowerOf2[0] = 1
    /\ \A n \in 0..29 : PowerOf2[n + 1] = 2 * PowerOf2[n]
<1>1. PICK g : Powers(g, 30)
  BY PowersExist
<1>2. PowerOf2 = CHOOSE x : x = [i \in 0..30 |-> IF i = 0 THEN 1 ELSE 2 * x[i - 1]]
  BY DEF PowerOf2
<1>3. PowerOf2 = [i \in 0..30 |-> IF i = 0 THEN 1 ELSE 2 * PowerOf2[i - 1]]
  <2> DEFINE Is(x) == x = [i \in 0..30 |-> IF i = 0 THEN 1 ELSE 2 * x[i - 1]]
  <2>1. Is(g)
    BY <1>1 DEF Powers
  <2>2. PowerOf2 = CHOOSE x : Is(x)
    BY <1>2
  <2> HIDE DEF Is
  <2>3. Is(PowerOf2)
    BY <2>1, <2>2
  <2> QED
    BY <2>3 DEF Is
<1>4. \A i \in 0..30 : PowerOf2[i] = IF i = 0 THEN 1 ELSE 2 * PowerOf2[i - 1]
  BY <1>3
<1>5. ASSUME NEW n \in 0..29 PROVE PowerOf2[n + 1] = 2 * PowerOf2[n]
  <2>1. n + 1 \in 0..30 /\ n + 1 # 0 /\ (n + 1) - 1 = n
    OBVIOUS
  <2> QED
    BY <1>4, <2>1
<1> QED
  BY <1>4, <1>5

(* A power of two is positive.                                             *)
LEMMA PowersPositive == \A n \in 0..30 : PowerOf2[n] \in Nat \ {0}
<1> DEFINE T == {m \in 0..30 : PowerOf2[m] \notin Nat \ {0}}
<1> SUFFICES ASSUME T # {} PROVE FALSE
  OBVIOUS
<1>0. T \in SUBSET Nat
  OBVIOUS
<1>1. PICK m \in T : \A k \in T : m <= k
  <2> HIDE DEF T
  <2> QED
    BY <1>0, Smallest
<1>2. m # 0
  BY <1>1, PowersOf2
<1>3. m - 1 \in 0..29 /\ (m - 1) + 1 = m /\ m - 1 \notin T
  BY <1>1, <1>2
<1>4. PowerOf2[m - 1] \in Nat \ {0}
  BY <1>3
<1>5. PowerOf2[m] = 2 * PowerOf2[m - 1]
  BY <1>3, PowersOf2
<1> QED
  BY <1>1, <1>4, <1>5

(* Dividing d * k + x by k.                                                *)
LEMMA Quotient ==
    ASSUME NEW k \in Nat \ {0}, NEW d \in Nat, NEW x \in 0..(k - 1), NEW m, m = d * k + x
    PROVE  m \div k = d
<1>0. d * k \in Nat /\ m \in Nat
  OBVIOUS
<1> DEFINE q == m \div k
           y == m % k
<1>1. q \in Nat /\ y \in 0..(k - 1) /\ m = q * k + y
  BY <1>0
<1> HIDE DEF q, y
<1>2. (d - q) * k = y - x
  BY <1>1
<1>3. d - q \in Int /\ y - x < k /\ y - x > -k
  BY <1>1
<1>4. ~(d - q >= 1)
  BY <1>2, <1>3
<1>5. ~(d - q <= -1)
  BY <1>2, <1>3
<1>6. d = q
  BY <1>1, <1>4, <1>5
<1> QED
  BY <1>6 DEF q

(* Dividing by 2 * k is halving and dividing by k.                         *)
LEMMA HalfQuotient ==
    ASSUME NEW m \in Nat, NEW k \in Nat \ {0}
    PROVE  m \div (2 * k) = (m \div 2) \div k
<1> DEFINE h == m \div 2
           r == m % 2
           d == h \div k
           e == h % k
<1>1. h \in Nat /\ r \in 0..1 /\ m = h * 2 + r
  OBVIOUS
<1> HIDE DEF h, r
<1>2. d \in Nat /\ e \in 0..(k - 1) /\ h = d * k + e
  BY <1>1
<1> HIDE DEF d, e
<1>3. m = d * (2 * k) + (2 * e + r)
  BY <1>1, <1>2
<1>4. 2 * k \in Nat \ {0} /\ 2 * e + r \in 0..(2 * k - 1)
  BY <1>1, <1>2
<1>5. m \div (2 * k) = d
  BY <1>2, <1>3, <1>4, Quotient
<1> QED
  BY <1>5 DEF d, h

(* Bit 0 is the parity.                                                    *)
LEMMA FirstBit ==
    ASSUME NEW m \in Nat
    PROVE  Bit(m, 0) <=> m % 2 = 1
<1>1. 0 % 32 = 0 /\ m \div 1 = m
  OBVIOUS
<1> QED
  BY <1>1, PowersOf2 DEF Bit

(* The other bits are those of the half.                                   *)
LEMMA NextBit ==
    ASSUME NEW m \in Nat, NEW b \in 0..29
    PROVE  Bit(m, b + 1) <=> Bit(m \div 2, b)
<1>1. (b + 1) % 32 = b + 1 /\ b % 32 = b /\ b + 1 # 31 /\ b # 31
  OBVIOUS
<1>2. PowerOf2[b + 1] = 2 * PowerOf2[b] /\ PowerOf2[b] \in Nat \ {0}
  BY PowersOf2, PowersPositive
<1>3. m \div PowerOf2[b + 1] = (m \div 2) \div PowerOf2[b]
  BY <1>2, HalfQuotient
<1> QED
  BY <1>1, <1>3 DEF Bit

Bits(n, m) == {b \in 0..(n - 1) : Bit(m, b)}

(* Counting from 0, the masks of n bits name every set of places once, the *)
(* empty one first and the full one last.                                  *)
Counts(n) ==
    /\ \A m, l \in 0..(PowerOf2[n] - 1) : Bits(n, m) = Bits(n, l) => m = l
    /\ \A C \in SUBSET (0..(n - 1)) : \E m \in 0..(PowerOf2[n] - 1) : Bits(n, m) = C
    /\ Bits(n, 0) = {}
    /\ Bits(n, PowerOf2[n] - 1) = 0..(n - 1)

(* No bits: one mask.                                                      *)
LEMMA CountsStart == Counts(0)
<1>1. PowerOf2[0] = 1 /\ \A m : Bits(0, m) = {}
  BY PowersOf2 DEF Bits
<1>2. 0..(0 - 1) = {} /\ 0..(1 - 1) = {0}
  OBVIOUS
<1>3. \A m, l \in 0..(1 - 1) : m = l
  OBVIOUS
<1>4. \A C \in SUBSET (0..(0 - 1)) : C = {}
  BY <1>2
<1>5. \A C \in SUBSET (0..(0 - 1)) : \E m \in 0..(1 - 1) : Bits(0, m) = C
  BY <1>1, <1>2, <1>4
<1>6. Bits(0, 0) = {} /\ Bits(0, 1 - 1) = 0..(0 - 1)
  BY <1>1, <1>2
<1> QED
  BY <1>1, <1>3, <1>5, <1>6 DEF Counts

(* One bit more: twice the masks.                                          *)
LEMMA CountsNext ==
    ASSUME NEW n \in 0..29, Counts(n)
    PROVE  Counts(n + 1)
<1> DEFINE P == PowerOf2[n]
<1>1. P \in Nat \ {0} /\ PowerOf2[n + 1] = 2 * P
  BY PowersOf2, PowersPositive
<1> HIDE DEF P
<1>2. ASSUME NEW m \in Nat
      PROVE  \A b \in 0..n : b \in Bits(n + 1, m) <=>
                 IF b = 0 THEN m % 2 = 1 ELSE b - 1 \in Bits(n, m \div 2)
  <2> SUFFICES ASSUME NEW b \in 0..n
               PROVE  Bit(m, b) <=> IF b = 0 THEN m % 2 = 1 ELSE Bit(m \div 2, b - 1)
    <3>1. (n + 1) - 1 = n /\ \A c \in 0..n : c # 0 => c - 1 \in 0..(n - 1)
      OBVIOUS
    <3> QED
      BY <3>1 DEF Bits
  <2>1. CASE b = 0
    BY <2>1, FirstBit
  <2>2. CASE b # 0
    <3>1. b - 1 \in 0..29 /\ (b - 1) + 1 = b
      BY <2>2
    <3>2. Bit(m, (b - 1) + 1) <=> Bit(m \div 2, b - 1)
      BY <3>1, NextBit
    <3> QED
      BY <2>2, <3>1, <3>2
  <2> QED
    BY <2>1, <2>2
<1>3. \A m : Bits(n + 1, m) \subseteq 0..n /\ Bits(n, m) \subseteq 0..(n - 1)
  BY DEF Bits
<1>4. ASSUME NEW m \in 0..(2 * P - 1)
      PROVE  m \in Nat /\ m \div 2 \in 0..(P - 1) /\ m % 2 \in 0..1 /\ m = (m \div 2) * 2 + (m % 2)
  BY <1>1
<1>5. ASSUME NEW m \in 0..(2 * P - 1), NEW l \in 0..(2 * P - 1), Bits(n + 1, m) = Bits(n + 1, l)
      PROVE  m = l
  <2>1. m % 2 = 1 <=> l % 2 = 1
    <3>1. 0 \in 0..n /\ m \in Nat /\ l \in Nat
      OBVIOUS
    <3> QED
      BY <1>2, <1>5, <3>1
  <2>2. Bits(n, m \div 2) = Bits(n, l \div 2)
    <3>1. ASSUME NEW c \in 0..(n - 1) PROVE c \in Bits(n, m \div 2) <=> c \in Bits(n, l \div 2)
      <4>1. c + 1 \in 0..n /\ c + 1 # 0 /\ (c + 1) - 1 = c /\ m \in Nat /\ l \in Nat
        OBVIOUS
      <4>2. c + 1 \in Bits(n + 1, m) <=> c \in Bits(n, m \div 2)
        BY <1>2, <4>1
      <4>3. c + 1 \in Bits(n + 1, l) <=> c \in Bits(n, l \div 2)
        BY <1>2, <4>1
      <4> QED
        BY <1>5, <4>2, <4>3
    <3>2. Bits(n, m \div 2) \subseteq 0..(n - 1) /\ Bits(n, l \div 2) \subseteq 0..(n - 1)
      BY <1>3
    <3> QED
      BY <3>1, <3>2
  <2>3. m \div 2 = l \div 2
    BY <1>4, <2>2 DEF Counts, P
  <2>4. m % 2 = l % 2
    BY <1>4, <2>1
  <2> QED
    BY <1>4, <2>3, <2>4
<1>6. ASSUME NEW C \in SUBSET (0..n)
      PROVE  \E m \in 0..(2 * P - 1) : Bits(n + 1, m) = C
  <2> DEFINE D == {c \in 0..(n - 1) : c + 1 \in C}
             r == IF 0 \in C THEN 1 ELSE 0
  <2>1. D \in SUBSET (0..(n - 1))
    OBVIOUS
  <2>2. PICK q \in 0..(P - 1) : Bits(n, q) = D
    <3> HIDE DEF D
    <3> QED
      BY <2>1 DEF Counts, P
  <2> DEFINE m == q * 2 + r
  <2>3. m \in 0..(2 * P - 1) /\ m \div 2 = q /\ m % 2 = r
    BY <1>1
  <2>4. m \in Nat
    BY <2>3
  <2>5. r = 1 <=> 0 \in C
    OBVIOUS
  <2> HIDE DEF m, r
  <2>6. ASSUME NEW b \in 0..n PROVE b \in Bits(n + 1, m) <=> b \in C
    <3>1. CASE b = 0
      BY <1>2, <2>3, <2>4, <2>5, <3>1
    <3>2. CASE b # 0
      <4>1. b - 1 \in 0..(n - 1) /\ (b - 1) + 1 = b
        BY <3>2
      <4>2. b \in Bits(n + 1, m) <=> b - 1 \in Bits(n, q)
        BY <1>2, <2>3, <2>4, <3>2
      <4> QED
        BY <2>2, <4>1, <4>2
    <3> QED
      BY <3>1, <3>2
  <2>7. Bits(n + 1, m) = C
    BY <1>3, <2>6
  <2> QED
    BY <2>3, <2>7
<1>7. Bits(n + 1, 0) = {}
  <2>1. 0 \div 2 = 0 /\ 0 % 2 = 0 /\ 0 \in Nat
    OBVIOUS
  <2>2. Bits(n, 0) = {}
    BY DEF Counts
  <2> QED
    BY <1>2, <1>3, <2>1, <2>2
<1>8. Bits(n + 1, 2 * P - 1) = 0..n
  <2>1. 2 * P - 1 \in Nat /\ (2 * P - 1) \div 2 = P - 1 /\ (2 * P - 1) % 2 = 1
    BY <1>1
  <2>2. Bits(n, P - 1) = 0..(n - 1)
    BY DEF Counts, P
  <2>3. \A b \in 0..n : b # 0 => b - 1 \in 0..(n - 1)
    OBVIOUS
  <2> QED
    BY <1>2, <1>3, <2>1, <2>2, <2>3
<1>9. (n + 1) - 1 = n
  OBVIOUS
<1> QED
  BY <1>1, <1>5, <1>6, <1>7, <1>8, <1>9 DEF Counts

(* The masks below 1 << n name every subset of n bits, each once.          *)
LEMMA MasksCount == \A n \in 0..30 : Counts(n)
<1> DEFINE T == {m \in 0..30 : ~Counts(m)}
<1> SUFFICES ASSUME T # {} PROVE FALSE
  OBVIOUS
<1>0. T \in SUBSET Nat
  OBVIOUS
<1>1. PICK m \in T : \A k \in T : m <= k
  <2> HIDE DEF T
  <2> QED
    BY <1>0, Smallest
<1>2. m # 0
  BY <1>1, CountsStart
<1>3. m - 1 \in 0..29 /\ (m - 1) + 1 = m /\ m - 1 \notin T
  BY <1>1, <1>2
<1>4. Counts((m - 1) + 1)
  BY <1>3, CountsNext
<1> QED
  BY <1>1, <1>3, <1>4

-----------------------------------------------------------------------------
(* Finite sets.                                                            *)

(* A function on a finite set has finitely many values.                    *)
LEMMA FiniteRange ==
    ASSUME NEW f, IsFiniteSet(DOMAIN f)
    PROVE  IsFiniteSet({f[x] : x \in DOMAIN f})
<1> DEFINE T == {f[x] : x \in DOMAIN f}
<1>1. PICK s \in Seq(DOMAIN f) : \A x \in DOMAIN f : \E n \in 1..Len(s) : s[n] = x
  BY DEF IsFiniteSet
<1> DEFINE t == [n \in 1..Len(s) |-> f[s[n]]]
<1>2. \A n \in 1..Len(s) : s[n] \in DOMAIN f
  OBVIOUS
<1>3. t \in Seq(T) /\ Len(t) = Len(s)
  BY <1>2
<1>4. \A y \in T : \E n \in 1..Len(t) : t[n] = y
  BY <1>1, <1>3
<1> HIDE DEF T, t
<1>5. IsFiniteSet(T)
  BY <1>3, <1>4 DEF IsFiniteSet
<1> QED
  BY <1>5 DEF T

-----------------------------------------------------------------------------
(* The operations of a crash point.                                        *)

(* What a crash point's operations are counted from is finite.             *)
LEMMA FreeFinite ==
    ASSUME NEW es, NEW cp \in Nat
    PROVE  /\ \A S \in SUBSET (1..cp) : IsFiniteSet(S) /\ Cardinality(S) \in Nat
           /\ Free(es, cp) \in SUBSET (1..cp)
           /\ Performed(es, cp) \in SUBSET (1..cp)
           /\ PinnedBy(es, cp) \in SUBSET (1..cp)
           /\ \A i : Younger(es, cp, i) \in Nat
<1>1. IsFiniteSet(1..cp)
  BY FS_Interval
<1>2. ASSUME NEW S \in SUBSET (1..cp) PROVE IsFiniteSet(S) /\ Cardinality(S) \in Nat
  <2>1. IsFiniteSet(S)
    BY <1>1, FS_Subset
  <2> QED
    BY <2>1, FS_CardinalityType
<1>3. Free(es, cp) \in SUBSET (1..cp) /\ Performed(es, cp) \in SUBSET (1..cp) /\ PinnedBy(es, cp) \in SUBSET (1..cp)
  BY DEF Free, Performed, PinnedBy
<1>4. \A i : Younger(es, cp, i) \in Nat
  <2>1. \A i : {j \in Free(es, cp) : j > i} \in SUBSET (1..cp)
    BY <1>3
  <2> QED
    BY <1>2, <2>1 DEF Younger
<1> QED
  BY <1>2, <1>3, <1>4

(* A later operation has no more operations after it.                      *)
LEMMA YoungerFalls ==
    ASSUME NEW es, NEW cp \in Nat, NEW j \in Nat, NEW k \in Nat, j <= k
    PROVE  Younger(es, cp, k) <= Younger(es, cp, j)
<1> DEFINE J == {x \in Free(es, cp) : x > j}
           K == {x \in Free(es, cp) : x > k}
<1>1. J \in SUBSET (1..cp) /\ K \in SUBSET J
  BY FreeFinite
<1>2. IsFiniteSet(J)
  <2> HIDE DEF J, K
  <2> QED
    BY <1>1, FreeFinite
<1>3. Cardinality(K) <= Cardinality(J)
  <2> HIDE DEF J, K
  <2> QED
    BY <1>1, <1>2, FS_Subset
<1> QED
  BY <1>3 DEF Younger

(* What is in a crash point's states: everything issued, the floor of what *)
(* is always there, and a window apart from it that the bound limits.      *)
LEMMA Places ==
    ASSUME NEW es, NEW cp \in Nat
    PROVE  /\ Window(es, cp) \in SUBSET (1..cp)
           /\ AlwaysPresent(es, cp) \in SUBSET (1..cp)
           /\ Issued(es, cp) \in SUBSET (1..cp)
           /\ Performed(es, cp) \subseteq Issued(es, cp)
<1>1. /\ Free(es, cp) \in SUBSET (1..cp)
      /\ PinnedBy(es, cp) \in SUBSET (1..cp)
      /\ \A i : Younger(es, cp, i) \in Nat
  BY FreeFinite
<1>2. Window(es, cp) \cup Older(es, cp) = Free(es, cp)
  BY <1>1, WindowAssumption DEF Window, Older
<1>3. Performed(es, cp) \subseteq Free(es, cp) \cup PinnedBy(es, cp)
  BY DEF Free
<1> QED
  BY <1>1, <1>2, <1>3 DEF AlwaysPresent, Issued

(* The window is apart from what is always present, and fits its bound.    *)
LEMMA WindowApart ==
    ASSUME NEW es, NEW cp \in Nat, MaxUnpersistedWindow > 0
    PROVE  /\ Window(es, cp) \cap AlwaysPresent(es, cp) = {}
           /\ Cardinality(Window(es, cp)) <= MaxUnpersistedWindow
<1>1. /\ Free(es, cp) \in SUBSET (1..cp)
      /\ \A S \in SUBSET (1..cp) : IsFiniteSet(S) /\ Cardinality(S) \in Nat
      /\ \A i : Younger(es, cp, i) \in Nat
  BY FreeFinite
<1>2. MaxUnpersistedWindow \in Nat /\ MaxUnpersistedWindow # 0
  BY WindowAssumption
<1>3. Window(es, cp) = {i \in Free(es, cp) : Younger(es, cp, i) < MaxUnpersistedWindow}
  BY <1>2 DEF Window
<1>4. Window(es, cp) \cap AlwaysPresent(es, cp) = {}
  BY <1>1, <1>2, <1>3 DEF AlwaysPresent, Older, Free
<1>5. ASSUME Window(es, cp) # {} PROVE Cardinality(Window(es, cp)) <= MaxUnpersistedWindow
  <2> DEFINE D == Window(es, cp)
  <2>1. D \in SUBSET Nat /\ D \in SUBSET (1..cp)
    BY <1>1, <1>3
  <2>2. PICK m \in D : \A k \in D : m <= k
    <3> HIDE DEF D
    <3> QED
      BY <1>5, <2>1, Smallest DEF D
  <2>3. D \ {m} \in SUBSET {j \in Free(es, cp) : j > m}
    BY <1>3, <2>1, <2>2
  <2>4. IsFiniteSet({j \in Free(es, cp) : j > m})
    <3>1. {j \in Free(es, cp) : j > m} \in SUBSET (1..cp)
      BY <1>1
    <3> QED
      BY <1>1, <3>1
  <2>5. Cardinality(D \ {m}) <= Younger(es, cp, m)
    <3> HIDE DEF D
    <3> QED
      BY <2>3, <2>4, FS_Subset DEF Younger
  <2>6. IsFiniteSet(D) /\ Cardinality(D) \in Nat
    BY <1>1, <2>1
  <2>7. Cardinality(D \ {m}) = Cardinality(D) - 1
    <3> HIDE DEF D
    <3> QED
      BY <2>2, <2>6, FS_RemoveElement
  <2>8. Younger(es, cp, m) < MaxUnpersistedWindow /\ Younger(es, cp, m) \in Nat
    BY <1>1, <1>3, <2>2
  <2> HIDE DEF D
  <2>9. Cardinality(D) <= MaxUnpersistedWindow
    BY <1>2, <2>5, <2>6, <2>7, <2>8
  <2> QED
    BY <2>9 DEF D
<1>6. Window(es, cp) = {} => Cardinality(Window(es, cp)) = 0
  BY FS_EmptySet
<1> QED
  BY <1>2, <1>4, <1>5, <1>6

(* Both ends of the space exist: a size change has its file's earlier      *)
(* operations with it on the floor, and among everything issued.           *)
LEMMA EndsExist ==
    ASSUME NEW es, NEW cp \in Nat
    PROVE  /\ ExistsOnDisk(es, AlwaysPresent(es, cp))
           /\ ExistsOnDisk(es, Issued(es, cp))
<1>1. /\ AlwaysPresent(es, cp) \in SUBSET (1..cp)
      /\ Issued(es, cp) \in SUBSET (1..cp)
      /\ Performed(es, cp) \subseteq Issued(es, cp)
  BY Places
<1>2. ASSUME NEW k \in 1..cp, NEW j \in Performed(es, k - 1)
      PROVE  j \in Performed(es, cp) /\ j < k /\ j \in Nat
  BY DEF Performed
<1>3. ASSUME NEW k \in AlwaysPresent(es, cp), NEW j \in Performed(es, k - 1), es[j].path = es[k].path
      PROVE  j \in AlwaysPresent(es, cp)
  <2>1. j \in Performed(es, cp) /\ j < k /\ j \in Nat /\ k \in 1..cp /\ j \in 1..cp /\ Mutation(es[j])
    BY <1>1, <1>2 DEF Performed
  <2>2. CASE k \in PinnedBy(es, cp)
    <3>1. PICK i \in (k + 1)..cp : Persists(es[i]) /\ Succeeded(es[i]) /\ es[k].path = es[i].path
      BY <2>2 DEF PinnedBy
    <3>2. i \in (j + 1)..cp /\ es[j].path = es[i].path
      BY <1>3, <2>1, <3>1
    <3>3. j \in PinnedBy(es, cp)
      BY <2>1, <3>1, <3>2 DEF PinnedBy
    <3> QED
      BY <3>3 DEF AlwaysPresent
  <2>3. CASE k \in Older(es, cp)
    <3>1. Younger(es, cp, k) >= MaxUnpersistedWindow
      BY <2>3 DEF Older
    <3>2. Younger(es, cp, j) >= Younger(es, cp, k)
      <4>1. Younger(es, cp, k) <= Younger(es, cp, j)
        BY <2>1, YoungerFalls
      <4>2. Younger(es, cp, k) \in Nat /\ Younger(es, cp, j) \in Nat
        BY FreeFinite
      <4> QED
        BY <4>1, <4>2
    <3>3. Younger(es, cp, j) >= MaxUnpersistedWindow
      <4>1. Younger(es, cp, k) \in Nat /\ Younger(es, cp, j) \in Nat
        BY FreeFinite
      <4> QED
        BY <3>1, <3>2, <4>1, WindowAssumption
    <3> QED
      BY <2>1, <3>3 DEF AlwaysPresent, Older, Free
  <2> QED
    BY <2>2, <2>3 DEF AlwaysPresent
<1>4. ExistsOnDisk(es, AlwaysPresent(es, cp))
  BY <1>3 DEF ExistsOnDisk
<1>5. ASSUME NEW k \in Issued(es, cp), NEW j \in Performed(es, k - 1)
      PROVE  j \in Issued(es, cp)
  BY <1>1, <1>2
<1>6. ExistsOnDisk(es, Issued(es, cp))
  BY <1>5 DEF ExistsOnDisk
<1> QED
  BY <1>4, <1>6

-----------------------------------------------------------------------------
(* Torn operations.                                                        *)

(* A state has finitely many torn variants.                                *)
LEMMA TornTyped ==
    ASSUME NEW cp \in Calls, NEW S, events \in Traces
    PROVE  /\ IsFiniteSet(TornOf(events, cp, S))
           /\ TornOf(events, cp, S) \in SUBSET [op : Calls, bytes : Nat]
<1>1. Len(events) \in Nat /\ cp \in Nat /\ 1..cp \subseteq Calls
      /\ \A i \in Calls : events[i] \in Ops /\ events[i].len \in Nat
  <2>1. PICK n \in 0..MaxEvents : events \in [1..n -> Ops]
    BY DEF Traces
  <2>2. n \in Nat /\ Len(events) = n
    BY <2>1, EnumerateAssumption
  <2> QED
    BY <2>1, <2>2, EnumerateAssumption DEF Calls
<1> DEFINE D == Window(events, cp) \ S
           n(i) == ((events[i].len + 511) \div SECTOR_BYTES) - 1
           g(i) == [s \in 1..n(i) |-> [op |-> i, bytes |-> s * SECTOR_BYTES]]
           img(i) == {g(i)[s] : s \in DOMAIN g(i)}
           T(i) == {[op |-> i, bytes |-> b] : b \in StrictSectorPrefixes(events[i])}
<1>2. D \in SUBSET (1..cp)
  BY <1>1, Places
<1>3. IsFiniteSet(D)
  <2> HIDE DEF D
  <2> QED
    BY <1>1, <1>2, FreeFinite
<1>4. ASSUME NEW i \in D
      PROVE  IsFiniteSet(T(i)) /\ T(i) \in SUBSET [op : Calls, bytes : Nat]
  <2>1. i \in Calls /\ n(i) \in Int
    BY <1>1, <1>2 DEF SECTOR_BYTES
  <2>2. IsFiniteSet(1..n(i)) /\ DOMAIN g(i) = 1..n(i)
    <3> HIDE DEF n
    <3> QED
      BY <2>1, FS_Interval
  <2>3. IsFiniteSet(img(i))
    <3> HIDE DEF n, g
    <3> QED
      BY <2>2, FiniteRange
  <2>4. T(i) \in SUBSET img(i)
    BY DEF StrictSectorPrefixes
  <2>5. img(i) \in SUBSET [op : Calls, bytes : Nat]
    <3> HIDE DEF n
    <3> QED
      BY <2>1 DEF SECTOR_BYTES
  <2> HIDE DEF T, img
  <2> QED
    BY <2>3, <2>4, <2>5, FS_Subset
<1> DEFINE h == [i \in D |-> T(i)]
           U == {h[i] : i \in DOMAIN h}
<1>5. IsFiniteSet(U)
  <2>1. DOMAIN h = D
    OBVIOUS
  <2> HIDE DEF h, D
  <2> QED
    BY <1>3, <2>1, FiniteRange
<1>6. U = {T(i) : i \in D}
  OBVIOUS
<1>7. \A V \in U : IsFiniteSet(V) /\ V \in SUBSET [op : Calls, bytes : Nat]
  <2> HIDE DEF T, D, U
  <2> QED
    BY <1>4, <1>6
<1>8. IsFiniteSet(UNION U) /\ UNION U \in SUBSET [op : Calls, bytes : Nat]
  <2> HIDE DEF U
  <2> QED
    BY <1>5, <1>7, FS_UNION
<1>9. TornOf(events, cp, S) = IF TornWrites THEN UNION U ELSE {}
  BY <1>6 DEF TornOf
<1> HIDE DEF U
<1> QED
  BY <1>8, <1>9, FS_EmptySet

(* Every torn state of a mask, once.                                       *)
LEMMA TornSeqLists ==
    ASSUME NEW cp \in Calls, NEW S, events \in Traces
    PROVE  LET n == Cardinality(TornOf(events, cp, S))
               s == TornSeq(cp, S)
           IN  /\ n \in Nat
               /\ s = [k \in 1..n |-> s[k]]
               /\ \A k \in 1..n : \E w \in TornOf(events, cp, S) : s[k] = CrashState(cp, S, {w})
               /\ \A w \in TornOf(events, cp, S) : \E k \in 1..n : s[k] = CrashState(cp, S, {w})
               /\ \A k, l \in 1..n : s[k] = s[l] => k = l
<1> DEFINE T == TornOf(events, cp, S)
           Prec(v, w) == v.op < w.op \/ (v.op = w.op /\ v.bytes < w.bytes)
           R == {p \in T \X T : Prec(p[1], p[2])}
           torn == Sorted(T, Prec)
<1>1. IsFiniteSet(T) /\ T \in SUBSET [op : Calls, bytes : Nat]
  BY TornTyped
<1>2. Cardinality(T) \in Nat
  BY <1>1, FS_CardinalityType
<1>3. \A x, y \in T : <<x, y>> \in R <=> Prec(x, y)
  OBVIOUS
<1>4. \A x \in T : x.op \in Int /\ x.bytes \in Int /\ x = [op |-> x.op, bytes |-> x.bytes]
  BY <1>1 DEF Calls
<1>5. Orders(R, T)
  <2>1. \A x \in T : ~Prec(x, x)
    BY <1>4
  <2>2. \A x, y, z \in T : Prec(x, y) /\ Prec(y, z) => Prec(x, z)
    BY <1>4
  <2>3. \A x, y \in T : x # y => Prec(x, y) \/ Prec(y, x)
    <3> SUFFICES ASSUME NEW x \in T, NEW y \in T, ~Prec(x, y), ~Prec(y, x) PROVE x = y
      OBVIOUS
    <3>1. x.op = y.op /\ x.bytes = y.bytes
      BY <1>4
    <3> QED
      BY <1>4, <3>1
  <2> HIDE DEF R, Prec, T
  <2> QED
    BY <1>3, <2>1, <2>2, <2>3 DEF Orders
<1>6. Lists(torn, T, R)
  <2> DEFINE at(x) == Cardinality({y \in T : Prec(y, x)})
  <2>1. \A x \in T : at(x) = Cardinality(Before(R, T, x))
    <3>1. \A x \in T : {y \in T : Prec(y, x)} = Before(R, T, x)
      <4> HIDE DEF R, Prec, T
      <4> QED
        BY <1>3 DEF Before
    <3> QED
      BY <3>1
  <2>2. \A k \in 1..Cardinality(T) : \E x \in T : Cardinality(Before(R, T, x)) = k - 1
    <3> HIDE DEF R, T
    <3> QED
      BY <1>1, <1>5, Placed
  <2>3. torn = [k \in 1..Cardinality(T) |-> CHOOSE x \in T : at(x) = k - 1]
    BY DEF Sorted
  <2> HIDE DEF at, R, torn, T
  <2>4. \A k \in 1..Cardinality(T) : torn[k] \in T /\ at(torn[k]) = k - 1
    <3> SUFFICES ASSUME NEW k \in 1..Cardinality(T) PROVE torn[k] \in T /\ at(torn[k]) = k - 1
      OBVIOUS
    <3>1. \E x \in T : at(x) = k - 1
      BY <2>1, <2>2
    <3>2. torn[k] = CHOOSE x \in T : at(x) = k - 1
      BY <2>3
    <3> QED
      BY <3>1, <3>2
  <2>5. torn = [k \in 1..Cardinality(T) |-> torn[k]]
    BY <2>3
  <2>6. \A k \in 1..Cardinality(T) : torn[k] \in T /\ Cardinality(Before(R, T, torn[k])) = k - 1
    BY <2>1, <2>4
  <2> QED
    BY <1>1, <1>5, <2>5, <2>6, SortedLists
<1>7. TornSeq(cp, S) = [k \in 1..Len(torn) |-> CrashState(cp, S, {torn[k]})]
  BY DEF TornSeq
<1> HIDE DEF torn, R, T, Prec
<1>8. Len(torn) = Cardinality(T) /\ DOMAIN torn = 1..Cardinality(T)
  BY <1>2, <1>6 DEF Lists
<1>9. /\ \A k \in 1..Cardinality(T) : torn[k] \in T /\ TornSeq(cp, S)[k] = CrashState(cp, S, {torn[k]})
      /\ \A w \in T : \E k \in 1..Cardinality(T) : torn[k] = w
      /\ \A k, l \in 1..Cardinality(T) : k < l => torn[k] # torn[l]
  <2>1. \A w \in T : <<w, w>> \notin R
    BY <1>5 DEF Orders
  <2> QED
    BY <1>2, <1>6, <1>7, <1>8, <2>1 DEF Lists
<1>10. ASSUME NEW k \in 1..Cardinality(T), NEW l \in 1..Cardinality(T), TornSeq(cp, S)[k] = TornSeq(cp, S)[l]
       PROVE  k = l
  <2>0. CrashState(cp, S, {torn[k]}) = CrashState(cp, S, {torn[l]})
    BY <1>9, <1>10
  <2>1. {torn[k]} = {torn[l]}
    <3>1. \A V : CrashState(cp, S, V).partial = V
      BY DEF CrashState
    <3> QED
      BY <2>0, <3>1
  <2>2. torn[k] = torn[l]
    BY <2>1
  <2> QED
    BY <1>2, <1>9, <2>2
<1>11. TornSeq(cp, S) = [k \in 1..Cardinality(T) |-> TornSeq(cp, S)[k]]
  BY <1>7, <1>8
<1> QED
  BY <1>2, <1>9, <1>10, <1>11 DEF T

-----------------------------------------------------------------------------
(* What one turn of enumerateCrashStates' inner loop adds: for the mask or *)
(* the prefix m, the set it names, if that is legal, and the torn states   *)
(* of the set.                                                             *)

MaskSet(cp, m) == AlwaysPresent(events, cp) \cup Chosen(cp, m)

PrefixSet(cp, m) == {Ascending(Issued(events, cp))[k] : k \in 1..m}

SetOf(cp, m) == IF model.totalOrder THEN PrefixSet(cp, m) ELSE MaskSet(cp, m)

Legal(cp, m) ==
    IF model.totalOrder THEN AlwaysPresent(events, cp) \subseteq PrefixSet(cp, m)
    ELSE ExistsOnDisk(events, MaskSet(cp, m))

TornFor(cp, m) == IF model.totalOrder THEN {} ELSE TornOf(events, cp, MaskSet(cp, m))

Batch(cp, m) ==
    IF ~Legal(cp, m) THEN <<>>
    ELSE IF model.totalOrder THEN <<CrashState(cp, PrefixSet(cp, m), {})>>
    ELSE <<CrashState(cp, MaskSet(cp, m), {})>> \o TornSeq(cp, MaskSet(cp, m))

Limit(cp) == IF model.totalOrder THEN Cardinality(Issued(events, cp)) + 1 ELSE Masks(cp)

(* maxUnpersistedWindow of bounds.jsonc leaves a window whose subsets      *)
(* 1 << window.length counts; it is 8 there.                               *)
WindowFits == MaxUnpersistedWindow \in 1..30

(* The calls of a trace are finitely many numbers.                         *)
LEMMA CallsTyped ==
    ASSUME events \in Traces
    PROVE  /\ Len(events) \in Nat
           /\ \A i \in Calls : i \in Nat /\ 1..i \in SUBSET Calls
           /\ IsFiniteSet(Calls)
<1>1. PICK n \in 0..MaxEvents : events \in [1..n -> Ops]
  BY DEF Traces
<1>2. n \in Nat /\ Len(events) = n
  BY <1>1, EnumerateAssumption
<1> QED
  BY <1>2, FS_Interval DEF Calls

(* The window as the loop indexes it.                                      *)
LEMMA WindowRises ==
    ASSUME NEW cp \in Calls, events \in Traces
    PROVE  LET W == Window(events, cp) IN
           /\ W \in SUBSET Calls
           /\ Rises(Ascending(W), W)
           /\ Cardinality(W) \in Nat
           /\ Len(Ascending(W)) = Cardinality(W)
           /\ DOMAIN Ascending(W) = 1..Cardinality(W)
<1>1. cp \in Nat /\ 1..cp \in SUBSET Calls
  BY CallsTyped
<1>2. Window(events, cp) \in SUBSET (1..cp)
  BY <1>1, Places
<1>3. IsFiniteSet(Window(events, cp)) /\ Window(events, cp) \in SUBSET Int
  BY <1>1, <1>2, FreeFinite
<1> HIDE DEF Calls
<1> QED
  BY <1>1, <1>2, <1>3, AscendingRises

(* The issued operations as the prefix loop indexes them.                  *)
LEMMA IssuedRises ==
    ASSUME NEW cp \in Calls, events \in Traces
    PROVE  LET I == Issued(events, cp) IN
           /\ I \in SUBSET Calls
           /\ AlwaysPresent(events, cp) \in SUBSET I
           /\ Rises(Ascending(I), I)
           /\ Cardinality(I) \in Nat
           /\ Len(Ascending(I)) = Cardinality(I)
           /\ DOMAIN Ascending(I) = 1..Cardinality(I)
<1>1. cp \in Nat /\ 1..cp \in SUBSET Calls
  BY CallsTyped
<1>2. Issued(events, cp) \in SUBSET (1..cp)
  BY <1>1, Places
<1>3. IsFiniteSet(Issued(events, cp)) /\ Issued(events, cp) \in SUBSET Int
  BY <1>1, <1>2, FreeFinite
<1>4. AlwaysPresent(events, cp) \in SUBSET Issued(events, cp)
  BY DEF Issued
<1>5. /\ Rises(Ascending(Issued(events, cp)), Issued(events, cp))
      /\ Cardinality(Issued(events, cp)) \in Nat
      /\ Len(Ascending(Issued(events, cp))) = Cardinality(Issued(events, cp))
      /\ DOMAIN Ascending(Issued(events, cp)) = 1..Cardinality(Issued(events, cp))
  BY <1>3, AscendingRises
<1> QED
  BY <1>1, <1>2, <1>4, <1>5

(* A mask names the operations of the window at the places of its bits.    *)
LEMMA ChosenIsBits ==
    ASSUME NEW cp \in Calls, NEW m, events \in Traces
    PROVE  LET W == Window(events, cp) IN
           /\ Chosen(cp, m) = {Ascending(W)[b + 1] : b \in Bits(Cardinality(W), m)}
           /\ Chosen(cp, m) \in SUBSET W
<1> DEFINE W == Window(events, cp)
           w == Ascending(W)
<1>1. Cardinality(W) \in Nat /\ Len(w) = Cardinality(W) /\ Rises(w, W)
  BY WindowRises
<1>2. Chosen(cp, m) = {w[b + 1] : b \in Bits(Cardinality(W), m)}
  <2>1. Chosen(cp, m) = {w[b + 1] : b \in {c \in 0..(Len(w) - 1) : Bit(m, c)}}
    BY DEF Chosen
  <2> HIDE DEF w, W
  <2> QED
    BY <1>1, <2>1 DEF Bits
<1> HIDE DEF w, W
<1>3. \A b \in Bits(Cardinality(W), m) : w[b + 1] \in W
  <2> SUFFICES ASSUME NEW b \in Bits(Cardinality(W), m) PROVE w[b + 1] \in W
    OBVIOUS
  <2>1. b + 1 \in 1..Cardinality(W)
    BY <1>1 DEF Bits
  <2> QED
    BY <1>1, <2>1 DEF Rises
<1> QED
  BY <1>2, <1>3 DEF w, W

(* A turn's set is of issued operations.                                   *)
LEMMA SetTyped ==
    ASSUME NEW cp \in Calls, NEW m \in Nat, events \in Traces,
           model.totalOrder => m <= Cardinality(Issued(events, cp))
    PROVE  SetOf(cp, m) \in SUBSET Issued(events, cp) /\ SetOf(cp, m) \in SUBSET Calls
<1>1. /\ Issued(events, cp) \in SUBSET Calls
      /\ Rises(Ascending(Issued(events, cp)), Issued(events, cp))
      /\ Cardinality(Issued(events, cp)) \in Nat
  BY IssuedRises
<1>2. CASE model.totalOrder
  <2>1. 1..m \in SUBSET (1..Cardinality(Issued(events, cp)))
    BY <1>1, <1>2
  <2>2. PrefixSet(cp, m) \in SUBSET Issued(events, cp)
    BY <1>1, <2>1 DEF PrefixSet, Rises
  <2> QED
    BY <1>1, <1>2, <2>2 DEF SetOf
<1>3. CASE ~model.totalOrder
  <2>1. Chosen(cp, m) \in SUBSET Window(events, cp)
    BY ChosenIsBits
  <2>2. MaskSet(cp, m) \in SUBSET Issued(events, cp)
    BY <2>1 DEF MaskSet, Issued
  <2> QED
    BY <1>1, <1>3, <2>2 DEF SetOf
<1> QED
  BY <1>2, <1>3

(* A legal turn adds the whole state, then one state per torn variant.     *)
LEMMA BatchShape ==
    ASSUME NEW cp \in Calls, NEW m \in Nat, events \in Traces,
           model.totalOrder => m <= Cardinality(Issued(events, cp)),
           Legal(cp, m)
    PROVE  LET b == Batch(cp, m)
               S == SetOf(cp, m)
           IN  /\ b \in Seq(State)
               /\ Len(b) \in Nat \ {0}
               /\ b[1] = CrashState(cp, S, {})
               /\ \A k \in 2..Len(b) : \E w \in TornFor(cp, m) : b[k] = CrashState(cp, S, {w})
               /\ \A w \in TornFor(cp, m) : \E k \in 2..Len(b) : b[k] = CrashState(cp, S, {w})
               /\ \A k, l \in 1..Len(b) : b[k] = b[l] => k = l
<1> DEFINE b == Batch(cp, m)
           S == SetOf(cp, m)
           CS(P) == CrashState(cp, S, P)
<1>1. S \in SUBSET Calls
  BY SetTyped
<1>2. CS({}) \in State
  <2> HIDE DEF S
  <2> QED
    BY <1>1 DEF CrashState, State
<1>3. CASE model.totalOrder
  <2>1. b = <<CS({})>> /\ TornFor(cp, m) = {}
    BY <1>3 DEF Batch, SetOf, TornFor
  <2> HIDE DEF b, CS, S
  <2>2. b \in Seq(State) /\ Len(b) = 1 /\ b[1] = CS({})
    BY <1>2, <2>1
  <2> QED
    BY <2>1, <2>2 DEF b, CS, S
<1>4. CASE ~model.totalOrder
  <2> DEFINE T == TornOf(events, cp, S)
             n == Cardinality(T)
             s == TornSeq(cp, S)
             u == <<CS({})>>
  <2>1. /\ n \in Nat
        /\ s = [k \in 1..n |-> s[k]]
        /\ \A k \in 1..n : \E w \in T : s[k] = CS({w})
        /\ \A w \in T : \E k \in 1..n : s[k] = CS({w})
        /\ \A k, l \in 1..n : s[k] = s[l] => k = l
    <3> HIDE DEF S
    <3> QED
      BY TornSeqLists
  <2>2. T \in SUBSET [op : Calls, bytes : Nat]
    <3> HIDE DEF S
    <3> QED
      BY TornTyped
  <2>3. b = u \o s /\ TornFor(cp, m) = T
    BY <1>4 DEF Batch, SetOf, TornFor
  <2>4. \A w \in T : CS({w}) \in State /\ CS({w}) # CS({})
    <3> HIDE DEF T, S
    <3> SUFFICES ASSUME NEW w \in T PROVE CS({w}) \in State /\ CS({w}) # CS({})
      OBVIOUS
    <3>1. {w} \in SUBSET [op : Calls, bytes : Nat]
      BY <2>2
    <3>2. CS({w}).partial = {w} /\ CS({}).partial = {}
      BY DEF CrashState
    <3>3. CS({w}) # CS({})
      <4> HIDE DEF CS
      <4> QED
        BY <3>2
    <3>4. CS({w}) \in State
      BY <1>1, <3>1 DEF CrashState, State
    <3> QED
      BY <3>3, <3>4
  <2> HIDE DEF b, CS, S, T, n, s, u
  <2>5. s \in [1..n -> State]
    <3>1. \A k \in 1..n : s[k] \in State
      BY <2>1, <2>4
    <3>2. s = [k \in 1..n |-> s[k]]
      BY <2>1
    <3> QED
      BY <3>1, <3>2
  <2>6. s \in Seq(State) /\ Len(s) = n
    BY <2>1, <2>5
  <2>7. u \in Seq(State) /\ Len(u) = 1 /\ u[1] = CS({})
    BY <1>2 DEF u
  <2>8. /\ b \in Seq(State)
        /\ Len(b) = 1 + n
        /\ \A i \in 1..(1 + n) : b[i] = IF i <= 1 THEN u[i] ELSE s[i - 1]
    BY <2>3, <2>6, <2>7, ConcatProperties
  <2>0. n \in Nat
    BY <2>1
  <2>9. b[1] = CS({})
    BY <2>0, <2>7, <2>8
  <2>10. \A i \in 2..(1 + n) : b[i] = s[i - 1] /\ i - 1 \in 1..n
    <3> SUFFICES ASSUME NEW i \in 2..(1 + n) PROVE b[i] = s[i - 1] /\ i - 1 \in 1..n
      OBVIOUS
    <3>1. i \in 1..(1 + n) /\ ~(i <= 1) /\ i - 1 \in 1..n
      BY <2>0
    <3> QED
      BY <2>8, <3>1
  <2>11. \A k \in 1..n : k + 1 \in 2..(1 + n) /\ b[k + 1] = s[k]
    <3> SUFFICES ASSUME NEW k \in 1..n PROVE k + 1 \in 2..(1 + n) /\ b[k + 1] = s[k]
      OBVIOUS
    <3>1. k + 1 \in 2..(1 + n) /\ (k + 1) - 1 = k
      BY <2>1
    <3> QED
      BY <2>10, <3>1
  <2>12. \A k \in 2..Len(b) : \E w \in T : b[k] = CS({w})
    <3> SUFFICES ASSUME NEW k \in 2..Len(b) PROVE \E w \in T : b[k] = CS({w})
      OBVIOUS
    <3>1. b[k] = s[k - 1] /\ k - 1 \in 1..n
      BY <2>8, <2>10
    <3>2. PICK w \in T : s[k - 1] = CS({w})
      BY <2>1, <3>1
    <3> QED
      BY <3>1, <3>2
  <2>13. \A w \in T : \E k \in 2..Len(b) : b[k] = CS({w})
    BY <2>1, <2>8, <2>11
  <2>14. ASSUME NEW k \in 1..Len(b), NEW l \in 1..Len(b), b[k] = b[l] PROVE k = l
    <3>1. CASE k = 1
      <4> SUFFICES ASSUME l # 1 PROVE FALSE
        BY <3>1
      <4>1. l \in 2..Len(b)
        BY <2>8
      <4> QED
        BY <2>4, <2>9, <2>12, <2>14, <3>1, <4>1
    <3>2. CASE l = 1
      <4> SUFFICES ASSUME k # 1 PROVE FALSE
        BY <3>2
      <4>1. k \in 2..Len(b)
        BY <2>8
      <4> QED
        BY <2>4, <2>9, <2>12, <2>14, <3>2, <4>1
    <3>3. CASE k # 1 /\ l # 1
      <4>1. k \in 2..(1 + n) /\ l \in 2..(1 + n)
        BY <2>8, <3>3
      <4>2. s[k - 1] = s[l - 1] /\ k - 1 \in 1..n /\ l - 1 \in 1..n
        BY <2>10, <2>14, <4>1
      <4>3. k - 1 = l - 1
        BY <2>1, <4>2
      <4> QED
        BY <4>1, <4>3
    <3> QED
      BY <3>1, <3>2, <3>3
  <2>15. Len(b) \in Nat \ {0}
    BY <2>1, <2>8
  <2> QED
    BY <2>3, <2>8, <2>9, <2>12, <2>13, <2>14, <2>15 DEF b, S, CS
<1> QED
  BY <1>3, <1>4

-----------------------------------------------------------------------------
(* The loop's turns and the sets of Persistence.                           *)

(* The masks name each set of window operations once, from none to all.    *)
LEMMA MaskTries ==
    ASSUME NEW cp \in Calls, events \in Traces, WindowFits
    PROVE  LET W == Window(events, cp) IN
           /\ Masks(cp) \in Nat \ {0}
           /\ \A m, l \in 0..(Masks(cp) - 1) : MaskSet(cp, m) = MaskSet(cp, l) => m = l
           /\ \A M \in SUBSET W : \E m \in 0..(Masks(cp) - 1) : Chosen(cp, m) = M
           /\ Chosen(cp, 0) = {}
           /\ Chosen(cp, Masks(cp) - 1) = W
<1> DEFINE W == Window(events, cp)
           w == Ascending(W)
           n == Cardinality(W)
           P == PowerOf2[n]
<1>1. n \in Nat /\ Rises(w, W)
  BY WindowRises
<1>2. n \in 0..30 /\ W \cap AlwaysPresent(events, cp) = {}
  <2>1. cp \in Nat /\ MaxUnpersistedWindow > 0 /\ MaxUnpersistedWindow \in 0..30
    BY CallsTyped DEF WindowFits
  <2>2. n <= MaxUnpersistedWindow /\ W \cap AlwaysPresent(events, cp) = {}
    BY <2>1, WindowApart
  <2> HIDE DEF n, W
  <2> QED
    BY <1>1, <2>1, <2>2
<1>3. Masks(cp) = P
  <2>1. n % 32 = n /\ n # 31
    BY <1>2
  <2> QED
    BY <2>1 DEF Masks, Shl1
<1>4. Counts(n) /\ P \in Nat \ {0}
  BY <1>2, MasksCount, PowersPositive
<1>5. \A m : Chosen(cp, m) = {w[b + 1] : b \in Bits(n, m)} /\ Chosen(cp, m) \in SUBSET W
  BY ChosenIsBits
<1> HIDE DEF w, W
<1>6. \A b, c \in 0..(n - 1) : w[b + 1] = w[c + 1] => b = c
  <2> SUFFICES ASSUME NEW b \in 0..(n - 1), NEW c \in 0..(n - 1), w[b + 1] = w[c + 1]
               PROVE  b = c
    OBVIOUS
  <2>1. b + 1 \in DOMAIN w /\ c + 1 \in DOMAIN w
    BY <1>1 DEF Rises
  <2>2. DOMAIN w = 1..n /\ w \in [1..n -> W] /\ W \subseteq Nat
    <3>1. W \in SUBSET Calls /\ Calls \subseteq Nat
      BY WindowRises, CallsTyped DEF W
    <3> QED
      BY <1>1, <3>1 DEF Rises
  <2>3. \A j, k \in DOMAIN w : j < k <=> w[j] < w[k]
    BY <1>1 DEF Rises
  <2>4. w[b + 1] \in Nat
    BY <2>1, <2>2
  <2>5. ~(b + 1 < c + 1) /\ ~(c + 1 < b + 1)
    BY <2>1, <2>3, <2>4
  <2> QED
    BY <1>1, <2>5
<1> HIDE DEF n, P
<1>7. \A m : Bits(n, m) \in SUBSET (0..(n - 1))
  BY DEF Bits
<1>8. ASSUME NEW m \in 0..(P - 1), NEW l \in 0..(P - 1), MaskSet(cp, m) = MaskSet(cp, l)
      PROVE  m = l
  <2>1. Chosen(cp, m) = Chosen(cp, l)
    BY <1>2, <1>5, <1>8 DEF MaskSet
  <2>2. ASSUME NEW b \in 0..(n - 1) PROVE b \in Bits(n, m) <=> b \in Bits(n, l)
    <3>1. \A x : b \in Bits(n, x) <=> w[b + 1] \in Chosen(cp, x)
      <4> SUFFICES ASSUME NEW x PROVE b \in Bits(n, x) <=> w[b + 1] \in Chosen(cp, x)
        OBVIOUS
      <4>1. ASSUME w[b + 1] \in Chosen(cp, x) PROVE b \in Bits(n, x)
        <5>1. PICK c \in Bits(n, x) : w[b + 1] = w[c + 1]
          BY <1>5, <4>1
        <5>2. c \in 0..(n - 1)
          BY <1>7
        <5> QED
          BY <1>6, <5>1, <5>2
      <4>2. ASSUME b \in Bits(n, x) PROVE w[b + 1] \in Chosen(cp, x)
        BY <1>5, <4>2
      <4> QED
        BY <4>1, <4>2
    <3> QED
      BY <2>1, <3>1
  <2>3. Bits(n, m) = Bits(n, l)
    <3>1. Bits(n, m) \subseteq 0..(n - 1) /\ Bits(n, l) \subseteq 0..(n - 1)
      BY <1>7
    <3> QED
      BY <2>2, <3>1
  <2> QED
    BY <1>4, <2>3 DEF Counts, P
<1>9. ASSUME NEW M \in SUBSET W PROVE \E m \in 0..(P - 1) : Chosen(cp, m) = M
  <2> DEFINE C == {b \in 0..(n - 1) : w[b + 1] \in M}
  <2>1. C \in SUBSET (0..(n - 1))
    OBVIOUS
  <2>2. PICK m \in 0..(P - 1) : Bits(n, m) = C
    <3> HIDE DEF C
    <3> QED
      BY <1>4, <2>1 DEF Counts, P
  <2>3. \A x \in M : \E b \in 0..(n - 1) : w[b + 1] = x
    <3> SUFFICES ASSUME NEW x \in M PROVE \E b \in 0..(n - 1) : w[b + 1] = x
      OBVIOUS
    <3>1. PICK k \in 1..n : w[k] = x
      BY <1>1 DEF Rises, n
    <3>2. k - 1 \in 0..(n - 1) /\ (k - 1) + 1 = k
      BY <1>1
    <3> QED
      BY <3>1, <3>2
  <2>4. Chosen(cp, m) = M
    <3>1. Chosen(cp, m) = {w[b + 1] : b \in C}
      BY <1>5, <2>2
    <3> QED
      BY <2>3, <3>1
  <2> QED
    BY <2>4
<1>10. Chosen(cp, 0) = {}
  BY <1>4, <1>5 DEF Counts
<1>11. Chosen(cp, P - 1) = W
  <2>1. Bits(n, P - 1) = 0..(n - 1)
    BY <1>4 DEF Counts, P
  <2>2. \A x \in W : \E b \in 0..(n - 1) : w[b + 1] = x
    <3> SUFFICES ASSUME NEW x \in W PROVE \E b \in 0..(n - 1) : w[b + 1] = x
      OBVIOUS
    <3>1. PICK k \in 1..n : w[k] = x
      BY <1>1 DEF Rises, n
    <3>2. k - 1 \in 0..(n - 1) /\ (k - 1) + 1 = k
      BY <1>1
    <3> QED
      BY <3>1, <3>2
  <2>3. ASSUME NEW x \in W PROVE x \in Chosen(cp, P - 1)
    <3>1. PICK b \in Bits(n, P - 1) : w[b + 1] = x
      BY <2>1, <2>2
    <3> QED
      BY <1>5, <3>1
  <2> QED
    BY <1>5, <2>3
<1> QED
  BY <1>3, <1>4, <1>8, <1>9, <1>10, <1>11 DEF W

(* The prefixes are the downward closed sets, from none to all.            *)
LEMMA PrefixTries ==
    ASSUME NEW cp \in Calls, events \in Traces
    PROVE  LET I == Issued(events, cp)
               n == Cardinality(I)
           IN  /\ n \in Nat
               /\ \A m, l \in 0..n : PrefixSet(cp, m) = PrefixSet(cp, l) => m = l
               /\ \A m, l \in 0..n : m <= l => PrefixSet(cp, m) \subseteq PrefixSet(cp, l)
               /\ \A m \in 0..n : /\ PrefixSet(cp, m) \in SUBSET I
                                  /\ \A i \in I, j \in PrefixSet(cp, m) : i < j => i \in PrefixSet(cp, m)
               /\ \A T \in SUBSET I : (\A i \in I, j \in T : i < j => i \in T)
                                          => \E m \in 0..n : PrefixSet(cp, m) = T
               /\ PrefixSet(cp, n) = I
<1> DEFINE I == Issued(events, cp)
           n == Cardinality(I)
           s == Ascending(I)
<1>1. n \in Nat /\ I \in SUBSET Calls /\ Calls \subseteq Nat
  BY IssuedRises, CallsTyped
<1>2. /\ s \in [1..n -> I]
      /\ \A x \in I : \E k \in 1..n : s[k] = x
      /\ \A j, k \in 1..n : j < k <=> s[j] < s[k]
  <2>1. Rises(s, I)
    BY IssuedRises
  <2> HIDE DEF I, s
  <2> QED
    BY <2>1 DEF Rises
<1>3. \A m : PrefixSet(cp, m) = {s[k] : k \in 1..m}
  BY DEF PrefixSet
<1> HIDE DEF I, n, s
<1>4. \A k \in 1..n : s[k] \in I /\ s[k] \in Nat
  BY <1>1, <1>2
<1>5. \A j, k \in 1..n : s[j] = s[k] => j = k
  <2> SUFFICES ASSUME NEW j \in 1..n, NEW k \in 1..n, s[j] = s[k] PROVE j = k
    OBVIOUS
  <2>1. ~(j < k) /\ ~(k < j)
    BY <1>2, <1>4
  <2> QED
    BY <1>1, <2>1
<1>6. \A m \in 0..n, k \in 1..n : s[k] \in PrefixSet(cp, m) <=> k <= m
  <2> SUFFICES ASSUME NEW m \in 0..n, NEW k \in 1..n
               PROVE  s[k] \in PrefixSet(cp, m) <=> k <= m
    OBVIOUS
  <2>1. ASSUME s[k] \in PrefixSet(cp, m) PROVE k <= m
    <3>1. PICK j \in 1..m : s[j] = s[k]
      BY <1>3, <2>1
    <3>2. j \in 1..n
      BY <1>1
    <3> QED
      BY <1>5, <3>1, <3>2
  <2>2. ASSUME k <= m PROVE s[k] \in PrefixSet(cp, m)
    BY <1>1, <1>3, <2>2
  <2> QED
    BY <2>1, <2>2
<1>7. \A m \in 0..n : PrefixSet(cp, m) \in SUBSET I
  <2> SUFFICES ASSUME NEW m \in 0..n, NEW k \in 1..m PROVE s[k] \in I
    BY <1>3
  <2>1. k \in 1..n
    BY <1>1
  <2> QED
    BY <1>4, <2>1
<1>8. ASSUME NEW m \in 0..n, NEW l \in 0..n, PrefixSet(cp, m) = PrefixSet(cp, l)
      PROVE  m = l
  <2>1. \A k \in 1..n : k <= m <=> k <= l
    BY <1>6, <1>8
  <2>2. m # 0 => m <= l
    <3>1. m # 0 => m \in 1..n /\ m <= m
      BY <1>1
    <3> QED
      BY <2>1, <3>1
  <2>3. l # 0 => l <= m
    <3>1. l # 0 => l \in 1..n /\ l <= l
      BY <1>1
    <3> QED
      BY <2>1, <3>1
  <2> QED
    BY <1>1, <2>2, <2>3
<1>9. ASSUME NEW m \in 0..n, NEW l \in 0..n, m <= l PROVE PrefixSet(cp, m) \subseteq PrefixSet(cp, l)
  <2>1. 1..m \subseteq 1..l
    BY <1>1, <1>9
  <2> QED
    BY <1>3, <2>1
<1>10. ASSUME NEW m \in 0..n, NEW i \in I, NEW j \in PrefixSet(cp, m), i < j
       PROVE  i \in PrefixSet(cp, m)
  <2>1. PICK b \in 1..m : j = s[b]
    BY <1>3
  <2>2. PICK a \in 1..n : i = s[a]
    BY <1>2
  <2>3. b \in 1..n /\ b <= m
    BY <1>1
  <2>4. a < b
    BY <1>2, <1>10, <2>1, <2>2, <2>3
  <2>5. a <= m
    BY <1>1, <2>3, <2>4
  <2> QED
    BY <1>6, <2>2, <2>5
<1>11. ASSUME NEW T \in SUBSET I, \A i \in I, j \in T : i < j => i \in T
       PROVE  \E m \in 0..n : PrefixSet(cp, m) = T
  <2> DEFINE K == {k \in 1..(n + 1) : k = n + 1 \/ s[k] \notin T}
  <2>1. K \in SUBSET Nat /\ n + 1 \in K
    BY <1>1
  <2>2. PICK k \in K : \A l \in K : k <= l
    <3> HIDE DEF K
    <3> QED
      BY <2>1, Smallest
  <2>3. k - 1 \in 0..n /\ k \in 1..(n + 1)
    BY <1>1
  <2>4. ASSUME NEW a \in 1..n PROVE s[a] \in T <=> a <= k - 1
    <3>1. ASSUME a <= k - 1 PROVE s[a] \in T
      <4>1. a \notin K
        BY <1>1, <2>2, <2>3, <3>1
      <4> QED
        BY <1>1, <4>1
    <3>2. ASSUME s[a] \in T, ~(a <= k - 1) PROVE FALSE
      <4>1. k <= a /\ k \in 1..n /\ k # n + 1
        BY <1>1, <2>3, <3>2
      <4>2. s[k] \notin T
        BY <2>2, <4>1
      <4>3. k # a
        BY <3>2, <4>2
      <4>4. k < a
        BY <1>1, <4>1, <4>3
      <4>5. s[k] < s[a] /\ s[k] \in I
        BY <1>2, <1>4, <4>1, <4>4
      <4> QED
        BY <1>11, <3>2, <4>2, <4>5
    <3> QED
      BY <3>1, <3>2
  <2>5. \A x \in I : x \in T <=> x \in PrefixSet(cp, k - 1)
    <3> SUFFICES ASSUME NEW x \in I PROVE x \in T <=> x \in PrefixSet(cp, k - 1)
      OBVIOUS
    <3>1. PICK a \in 1..n : s[a] = x
      BY <1>2
    <3>2. s[a] \in T <=> a <= k - 1
      BY <2>4
    <3>3. s[a] \in PrefixSet(cp, k - 1) <=> a <= k - 1
      BY <1>6, <2>3
    <3> QED
      BY <3>1, <3>2, <3>3
  <2>6. PrefixSet(cp, k - 1) \subseteq I
    BY <1>7, <2>3
  <2>7. PrefixSet(cp, k - 1) = T
    BY <2>5, <2>6
  <2> QED
    BY <2>3, <2>7
<1>12. PrefixSet(cp, n) = I
  <2>1. PrefixSet(cp, n) \in SUBSET I
    BY <1>1, <1>7
  <2>2. ASSUME NEW x \in I PROVE x \in PrefixSet(cp, n)
    <3>1. PICK k \in 1..n : s[k] = x
      BY <1>2
    <3> QED
      BY <1>3, <3>1
  <2> QED
    BY <2>1, <2>2
<1> QED
  BY <1>1, <1>7, <1>8, <1>9, <1>10, <1>11, <1>12 DEF I, n

(* A turn's states.                                                        *)
TurnStates(cp, m) ==
    IF Legal(cp, m)
    THEN {CrashState(cp, SetOf(cp, m), {})} \cup {CrashState(cp, SetOf(cp, m), {w}) : w \in TornFor(cp, m)}
    ELSE {}

(* What a turn appends is its states, each once.                           *)
LEMMA BatchStates ==
    ASSUME NEW cp \in Calls, NEW m \in Nat, events \in Traces,
           model.totalOrder => m <= Cardinality(Issued(events, cp))
    PROVE  LET b == Batch(cp, m) IN
           /\ b \in Seq(State)
           /\ {b[k] : k \in 1..Len(b)} = TurnStates(cp, m)
           /\ \A k, l \in 1..Len(b) : b[k] = b[l] => k = l
           /\ \A k \in 1..Len(b) : b[k].crashPoint = cp /\ b[k].persisted = SetOf(cp, m)
<1> DEFINE b == Batch(cp, m)
           S == SetOf(cp, m)
           CS(P) == CrashState(cp, S, P)
<1>1. CASE ~Legal(cp, m)
  <2>1. b = <<>> /\ TurnStates(cp, m) = {}
    BY <1>1 DEF Batch, TurnStates
  <2> HIDE DEF b
  <2>2. b \in Seq(State) /\ Len(b) = 0 /\ 1..0 = {}
    BY <2>1
  <2> QED
    BY <2>1, <2>2 DEF b
<1>2. CASE Legal(cp, m)
  <2>1. /\ b \in Seq(State)
        /\ Len(b) \in Nat \ {0}
        /\ b[1] = CS({})
        /\ \A k \in 2..Len(b) : \E w \in TornFor(cp, m) : b[k] = CS({w})
        /\ \A w \in TornFor(cp, m) : \E k \in 2..Len(b) : b[k] = CS({w})
        /\ \A k, l \in 1..Len(b) : b[k] = b[l] => k = l
    BY <1>2, BatchShape
  <2>2. TurnStates(cp, m) = {CS({})} \cup {CS({w}) : w \in TornFor(cp, m)}
    BY <1>2 DEF TurnStates
  <2>3. \A P : CS(P).crashPoint = cp /\ CS(P).persisted = S
    BY DEF CrashState
  <2> HIDE DEF b, CS, S
  <2>4. \A k \in 1..Len(b) : k = 1 \/ k \in 2..Len(b)
    BY <2>1
  <2>5. 1 \in 1..Len(b) /\ 2..Len(b) \subseteq 1..Len(b)
    BY <2>1
  <2>6. \A k \in 1..Len(b) : \E P : b[k] = CS(P)
    BY <2>1, <2>4
  <2>7. \A k \in 1..Len(b) : b[k] \in TurnStates(cp, m)
    BY <2>1, <2>2, <2>4
  <2>8. ASSUME NEW x \in TurnStates(cp, m) PROVE \E k \in 1..Len(b) : b[k] = x
    <3>1. x = CS({}) \/ \E w \in TornFor(cp, m) : x = CS({w})
      BY <2>2
    <3>2. \A w \in TornFor(cp, m) : \E k \in 1..Len(b) : b[k] = CS({w})
      BY <2>1, <2>5
    <3> QED
      BY <2>1, <2>5, <3>1, <3>2
  <2>9. {b[k] : k \in 1..Len(b)} = TurnStates(cp, m)
    BY <2>7, <2>8
  <2> QED
    BY <2>1, <2>3, <2>6, <2>9 DEF b, S
<1> QED
  BY <1>1, <1>2

(* The turns of the loop make the states of a crash point, each set once,  *)
(* the least first and everything issued last.                             *)
LEMMA Turns ==
    ASSUME NEW cp \in Calls, events \in Traces, WindowFits
    PROVE  /\ Limit(cp) \in Nat \ {0}
           /\ model.totalOrder => Limit(cp) - 1 = Cardinality(Issued(events, cp))
           /\ \A m, l \in 0..(Limit(cp) - 1) : SetOf(cp, m) = SetOf(cp, l) => m = l
           /\ StatesAt(events, cp, model) = UNION {TurnStates(cp, m) : m \in 0..(Limit(cp) - 1)}
           /\ \A m, l \in 0..(Limit(cp) - 1) :
                  (/\ Legal(cp, m) /\ Legal(cp, l)
                   /\ \A i \in 0..(m - 1) : ~Legal(cp, i)) => SetOf(cp, m) \subseteq SetOf(cp, l)
           /\ TurnStates(cp, Limit(cp) - 1) = {CrashState(cp, Issued(events, cp), {})}
<1>0. cp \in Nat
  BY CallsTyped
<1> DEFINE A == AlwaysPresent(events, cp)
           I == Issued(events, cp)
           W == Window(events, cp)
           n == Cardinality(I)
<1>1. CASE model.totalOrder
  <2>1. /\ n \in Nat
        /\ \A m, l \in 0..n : PrefixSet(cp, m) = PrefixSet(cp, l) => m = l
        /\ \A m, l \in 0..n : m <= l => PrefixSet(cp, m) \subseteq PrefixSet(cp, l)
        /\ \A m \in 0..n : /\ PrefixSet(cp, m) \in SUBSET I
                           /\ \A i \in I, j \in PrefixSet(cp, m) : i < j => i \in PrefixSet(cp, m)
        /\ \A T \in SUBSET I : (\A i \in I, j \in T : i < j => i \in T)
                                   => \E m \in 0..n : PrefixSet(cp, m) = T
        /\ PrefixSet(cp, n) = I
    BY PrefixTries
  <2>2. Limit(cp) = n + 1 /\ Limit(cp) - 1 = n
    BY <1>1, <2>1 DEF Limit
  <2>3. \A m : SetOf(cp, m) = PrefixSet(cp, m) /\ (Legal(cp, m) <=> A \subseteq PrefixSet(cp, m)) /\ TornFor(cp, m) = {}
    BY <1>1 DEF SetOf, Legal, TornFor
  <2>4. \A m : TurnStates(cp, m) = IF A \subseteq PrefixSet(cp, m) THEN {CrashState(cp, PrefixSet(cp, m), {})} ELSE {}
    BY <2>3 DEF TurnStates
  <2> DEFINE Good == {T \in SUBSET I : A \subseteq T /\ \A i \in I, j \in T : i < j => i \in T}
  <2>5. StatesAt(events, cp, model) = {CrashState(cp, S, {}) : S \in Good}
    BY <1>1 DEF StatesAt, PrefixStates
  <2>6. A \subseteq I
    BY DEF Issued
  <2> HIDE DEF A, I, n
  <2>7. \A S : S \in Good <=> \E m \in 0..n : S = PrefixSet(cp, m) /\ A \subseteq PrefixSet(cp, m)
    <3> SUFFICES ASSUME NEW S
                 PROVE  S \in Good <=> \E m \in 0..n : S = PrefixSet(cp, m) /\ A \subseteq PrefixSet(cp, m)
      OBVIOUS
    <3>1. ASSUME S \in Good PROVE \E m \in 0..n : S = PrefixSet(cp, m) /\ A \subseteq PrefixSet(cp, m)
      <4>1. S \in SUBSET I /\ A \subseteq S /\ \A i \in I, j \in S : i < j => i \in S
        BY <3>1
      <4>2. PICK m \in 0..n : PrefixSet(cp, m) = S
        BY <2>1, <4>1
      <4> QED
        BY <4>1, <4>2
    <3>2. ASSUME NEW m \in 0..n, S = PrefixSet(cp, m), A \subseteq PrefixSet(cp, m) PROVE S \in Good
      BY <2>1, <3>2
    <3> QED
      BY <3>1, <3>2
  <2> HIDE DEF Good
  <2>8. StatesAt(events, cp, model) = UNION {TurnStates(cp, m) : m \in 0..n}
    <3>1. ASSUME NEW x \in StatesAt(events, cp, model) PROVE \E m \in 0..n : x \in TurnStates(cp, m)
      <4>1. PICK S \in Good : x = CrashState(cp, S, {})
        BY <2>5
      <4>2. PICK m \in 0..n : S = PrefixSet(cp, m) /\ A \subseteq PrefixSet(cp, m)
        BY <2>7
      <4>3. TurnStates(cp, m) = {CrashState(cp, PrefixSet(cp, m), {})}
        BY <2>4, <4>2
      <4> QED
        BY <4>1, <4>2, <4>3
    <3>2. ASSUME NEW m \in 0..n, NEW x \in TurnStates(cp, m) PROVE x \in StatesAt(events, cp, model)
      <4>1. A \subseteq PrefixSet(cp, m) /\ x = CrashState(cp, PrefixSet(cp, m), {})
        BY <2>4
      <4>2. PrefixSet(cp, m) \in Good
        BY <2>7, <4>1
      <4> QED
        BY <2>5, <4>1, <4>2
    <3> QED
      BY <3>1, <3>2
  <2>9. ASSUME NEW m \in 0..n, NEW l \in 0..n, Legal(cp, m), Legal(cp, l), \A i \in 0..(m - 1) : ~Legal(cp, i)
        PROVE  SetOf(cp, m) \subseteq SetOf(cp, l)
    <3>1. ~(l \in 0..(m - 1))
      BY <2>9
    <3>2. m <= l
      BY <2>1, <3>1
    <3> QED
      BY <2>1, <2>3, <3>2
  <2>10. TurnStates(cp, n) = {CrashState(cp, I, {})}
    BY <2>1, <2>4, <2>6
  <2>11. n + 1 \in Nat \ {0}
    BY <2>1
  <2> QED
    BY <2>1, <2>2, <2>3, <2>8, <2>9, <2>10, <2>11 DEF I, n
<1>2. CASE ~model.totalOrder
  <2> DEFINE M == Masks(cp)
  <2>1. /\ M \in Nat \ {0}
        /\ \A m, l \in 0..(M - 1) : MaskSet(cp, m) = MaskSet(cp, l) => m = l
        /\ \A C \in SUBSET W : \E m \in 0..(M - 1) : Chosen(cp, m) = C
        /\ Chosen(cp, 0) = {}
        /\ Chosen(cp, M - 1) = W
    BY MaskTries
  <2>2. Limit(cp) = M
    BY <1>2 DEF Limit
  <2>3. \A m : /\ SetOf(cp, m) = MaskSet(cp, m)
               /\ Legal(cp, m) <=> ExistsOnDisk(events, MaskSet(cp, m))
               /\ TornFor(cp, m) = TornOf(events, cp, MaskSet(cp, m))
    BY <1>2 DEF SetOf, Legal, TornFor
  <2>4. \A m : Chosen(cp, m) \in SUBSET W /\ MaskSet(cp, m) = A \cup Chosen(cp, m)
    BY ChosenIsBits DEF MaskSet
  <2> DEFINE Sub(S) == {CrashState(cp, S, {})} \cup {CrashState(cp, S, {w}) : w \in TornOf(events, cp, S)}
             TS(S) == {CrashState(cp, S, {t}) : t \in TornOf(events, cp, S)}
             L == LegalSets(events, cp)
  <2>5. \A m : TurnStates(cp, m) = IF ExistsOnDisk(events, MaskSet(cp, m)) THEN Sub(MaskSet(cp, m)) ELSE {}
    <3> SUFFICES ASSUME NEW m
                 PROVE  TurnStates(cp, m) = IF ExistsOnDisk(events, MaskSet(cp, m))
                                            THEN Sub(MaskSet(cp, m)) ELSE {}
      OBVIOUS
    <3>1. /\ SetOf(cp, m) = MaskSet(cp, m)
          /\ Legal(cp, m) <=> ExistsOnDisk(events, MaskSet(cp, m))
          /\ TornFor(cp, m) = TornOf(events, cp, MaskSet(cp, m))
      BY <2>3
    <3>2. CASE Legal(cp, m)
      BY <3>1, <3>2 DEF TurnStates
    <3>3. CASE ~Legal(cp, m)
      BY <3>1, <3>3 DEF TurnStates
    <3> QED
      BY <3>2, <3>3
  <2>6. StatesAt(events, cp, model) = {CrashState(cp, S, {}) : S \in L} \cup UNION {TS(S) : S \in L}
    BY <1>2 DEF StatesAt, SubsetStates
  <2>7. \A S : Sub(S) = {CrashState(cp, S, {})} \cup TS(S)
    OBVIOUS
  <2>8. \A S : S \in L <=> \E C \in SUBSET W : S = A \cup C /\ ExistsOnDisk(events, S)
    BY DEF LegalSets
  <2>9. ExistsOnDisk(events, A) /\ ExistsOnDisk(events, I)
    BY <1>0, EndsExist
  <2>10. I = A \cup W
    BY DEF Issued
  <2>11. TornOf(events, cp, I) = {}
    <3>1. W \ I = {}
      BY <2>10
    <3> QED
      BY <3>1 DEF TornOf
  <2>12. Sub(I) = {CrashState(cp, I, {})}
    BY <2>11
  <2> HIDE DEF A, I, W, M, Sub, TS, L
  <2>13. \A S : S \in L <=> \E m \in 0..(M - 1) : S = MaskSet(cp, m) /\ ExistsOnDisk(events, MaskSet(cp, m))
    <3> SUFFICES ASSUME NEW S
                 PROVE  S \in L <=> \E m \in 0..(M - 1) : S = MaskSet(cp, m) /\ ExistsOnDisk(events, MaskSet(cp, m))
      OBVIOUS
    <3>1. ASSUME S \in L
          PROVE  \E m \in 0..(M - 1) : S = MaskSet(cp, m) /\ ExistsOnDisk(events, MaskSet(cp, m))
      <4>1. PICK C \in SUBSET W : S = A \cup C /\ ExistsOnDisk(events, S)
        BY <2>8, <3>1
      <4>2. PICK m \in 0..(M - 1) : Chosen(cp, m) = C
        BY <2>1
      <4>3. S = MaskSet(cp, m)
        BY <2>4, <4>1, <4>2
      <4> QED
        BY <4>1, <4>3
    <3>2. ASSUME NEW m \in 0..(M - 1), S = MaskSet(cp, m), ExistsOnDisk(events, MaskSet(cp, m))
          PROVE  S \in L
      <4>1. Chosen(cp, m) \in SUBSET W /\ S = A \cup Chosen(cp, m) /\ ExistsOnDisk(events, S)
        BY <2>4, <3>2
      <4> QED
        BY <2>8, <4>1
    <3> QED
      BY <3>1, <3>2
  <2>14. StatesAt(events, cp, model) = UNION {TurnStates(cp, m) : m \in 0..(M - 1)}
    <3>1. ASSUME NEW x \in StatesAt(events, cp, model) PROVE \E m \in 0..(M - 1) : x \in TurnStates(cp, m)
      <4>1. PICK S \in L : x \in Sub(S)
        BY <2>6, <2>7
      <4>2. PICK m \in 0..(M - 1) : S = MaskSet(cp, m) /\ ExistsOnDisk(events, MaskSet(cp, m))
        BY <2>13
      <4>3. TurnStates(cp, m) = Sub(S)
        BY <2>5, <4>2
      <4> QED
        BY <4>1, <4>3
    <3>2. ASSUME NEW m \in 0..(M - 1), NEW x \in TurnStates(cp, m) PROVE x \in StatesAt(events, cp, model)
      <4>1. ExistsOnDisk(events, MaskSet(cp, m)) /\ x \in Sub(MaskSet(cp, m))
        BY <2>5
      <4>2. MaskSet(cp, m) \in L
        BY <2>13, <4>1
      <4> QED
        BY <2>6, <2>7, <4>1, <4>2
    <3> QED
      BY <3>1, <3>2
  <2>15. Legal(cp, 0) /\ SetOf(cp, 0) = A /\ \A l : A \subseteq SetOf(cp, l)
    <3>1. MaskSet(cp, 0) = A
      BY <2>1, <2>4
    <3> QED
      BY <2>3, <2>4, <2>9, <3>1
  <2>16. ASSUME NEW m \in 0..(M - 1), NEW l \in 0..(M - 1), Legal(cp, m), Legal(cp, l),
                \A i \in 0..(m - 1) : ~Legal(cp, i)
         PROVE  SetOf(cp, m) \subseteq SetOf(cp, l)
    <3>1. ~(0 \in 0..(m - 1))
      BY <2>15, <2>16
    <3>2. m = 0
      BY <2>1, <3>1
    <3> QED
      BY <2>15, <3>2
  <2>17. TurnStates(cp, M - 1) = {CrashState(cp, I, {})}
    <3>1. MaskSet(cp, M - 1) = I
      BY <2>1, <2>4, <2>10
    <3> QED
      BY <2>5, <2>9, <2>12, <3>1
  <2> QED
    BY <1>2, <2>1, <2>2, <2>3, <2>14, <2>16, <2>17 DEF M, I
<1> QED
  BY <1>1, <1>2

-----------------------------------------------------------------------------
(* Types.                                                                  *)

TypeInv == TypeOK /\ \A i \in DOMAIN todo : todo[i] \in Selected

(* Any set of selected crash points can be listed.                         *)
LEMMA SelectedTyped ==
    ASSUME events \in Traces
    PROVE  /\ Selected \in SUBSET Calls /\ IsFiniteSet(Selected)
           /\ \A S \in SUBSET Selected : /\ Rises(Ascending(S), S)
                                         /\ Cardinality(S) \in Nat
                                         /\ Ascending(S) \in Seq(Selected)
                                         /\ Ascending(S) \in Seq(Calls)
                                         /\ DOMAIN Ascending(S) = 1..Cardinality(S)
                                         /\ {Ascending(S)[i] : i \in DOMAIN Ascending(S)} = S
<1>1. Selected \in SUBSET Calls
  BY DEF Selected
<1>2. IsFiniteSet(Calls) /\ Calls \in SUBSET Int
  BY CallsTyped
<1>3. IsFiniteSet(Selected)
  BY <1>1, <1>2, FS_Subset
<1>4. ASSUME NEW S \in SUBSET Selected
      PROVE  /\ Rises(Ascending(S), S)
             /\ Cardinality(S) \in Nat
             /\ Ascending(S) \in Seq(Selected)
             /\ Ascending(S) \in Seq(Calls)
             /\ DOMAIN Ascending(S) = 1..Cardinality(S)
             /\ {Ascending(S)[i] : i \in DOMAIN Ascending(S)} = S
  <2>1. IsFiniteSet(S) /\ S \in SUBSET Int
    BY <1>1, <1>2, <1>3, FS_Subset
  <2>2. /\ Rises(Ascending(S), S)
        /\ Cardinality(S) \in Nat
        /\ DOMAIN Ascending(S) = 1..Cardinality(S)
        /\ Ascending(S) \in Seq(S)
    BY <2>1, AscendingRises
  <2>3. Ascending(S) \in Seq(Selected) /\ Ascending(S) \in Seq(Calls)
    <3>1. S \subseteq Selected /\ S \subseteq Calls
      BY <1>1
    <3> QED
      BY <2>2, <3>1, SeqMonotonic
  <2>4. {Ascending(S)[i] : i \in DOMAIN Ascending(S)} = S
    BY <2>2 DEF Rises
  <2> QED
    BY <2>2, <2>3, <2>4
<1> QED
  BY <1>1, <1>3, <1>4

(* TryMask and TryPrefix are the same turn of the loop.                    *)
Turn ==
    /\ phase = "enumerate" /\ todo # <<>>
    /\ Head(todo) \in Selected
    /\ mask < Limit(Head(todo))
    /\ model.totalOrder => mask <= Cardinality(Issued(events, Head(todo)))
    /\ states' = states \o Batch(Head(todo), mask)
    /\ mask' = mask + 1
    /\ UNCHANGED <<model, events, lucky, header, phase, points, todo, sampled>>

(* The crash point in hand is a selected one.                              *)
LEMMA HeadSelected ==
    ASSUME TypeInv, todo # <<>>
    PROVE  /\ Head(todo) = todo[1] /\ 1 \in DOMAIN todo
           /\ Head(todo) \in Selected /\ Head(todo) \in Calls
           /\ Len(todo) \in Nat \ {0} /\ DOMAIN todo = 1..Len(todo)
           /\ Tail(todo) \in Seq(Calls)
           /\ Len(Tail(todo)) = Len(todo) - 1
           /\ \A i \in 1..(Len(todo) - 1) : Tail(todo)[i] = todo[i + 1]
<1>1. todo \in Seq(Calls) /\ events \in Traces
  BY DEF TypeInv, TypeOK
<1>2. Len(todo) \in Nat \ {0} /\ DOMAIN todo = 1..Len(todo)
  BY <1>1, EmptySeq, LenProperties
<1>3. Head(todo) = todo[1] /\ 1 \in DOMAIN todo
  BY <1>1, <1>2
<1>4. /\ Tail(todo) \in Seq(Calls)
      /\ Len(Tail(todo)) = Len(todo) - 1
      /\ \A i \in 1..Len(Tail(todo)) : Tail(todo)[i] = todo[i + 1]
  BY <1>1, HeadTailProperties
<1>5. Head(todo) \in Selected
  BY <1>3 DEF TypeInv
<1> QED
  BY <1>1, <1>2, <1>3, <1>4, <1>5, SelectedTyped

(* A step of either loop is a turn.                                        *)
LEMMA TryIsTurn ==
    ASSUME TypeInv, TryMask \/ TryPrefix
    PROVE  Turn
<1> DEFINE cp == Head(todo)
<1>1. todo # <<>> /\ phase = "enumerate"
  BY DEF TryMask, TryPrefix
<1>2. cp \in Selected /\ cp \in Calls
  BY <1>1, HeadSelected
<1>3. events \in Traces /\ states \in Seq(State) /\ mask \in Nat
  BY DEF TypeInv, TypeOK
<1>4. states \o <<>> = states
  BY <1>3, ConcatEmptySeq
<1>5. CASE TryMask
  <2> DEFINE S == AlwaysPresent(events, cp) \cup Chosen(cp, mask)
             x == CrashState(cp, S, {})
  <2>1. /\ ~model.totalOrder /\ mask < Masks(cp) /\ mask' = mask + 1
        /\ states' = IF ExistsOnDisk(events, S) THEN states \o <<x>> \o TornSeq(cp, S) ELSE states
        /\ UNCHANGED <<model, events, lucky, header, phase, points, todo, sampled>>
    BY <1>5 DEF TryMask
  <2>2. /\ Legal(cp, mask) <=> ExistsOnDisk(events, S)
        /\ Batch(cp, mask) = IF ~Legal(cp, mask) THEN <<>> ELSE <<x>> \o TornSeq(cp, S)
        /\ Limit(cp) = Masks(cp)
    BY <2>1 DEF Legal, Batch, Limit, MaskSet
  <2>3. CASE Legal(cp, mask)
    <3>1. S = SetOf(cp, mask)
      BY <2>1 DEF SetOf, MaskSet
    <3>2. S \in SUBSET Calls
      BY <1>2, <1>3, <2>1, <3>1, SetTyped
    <3> DEFINE s == TornSeq(cp, S)
               T == TornOf(events, cp, S)
               n == Cardinality(T)
               u == <<x>>
    <3>3. u \in Seq(State)
      <4>1. x \in State
        BY <1>2, <3>2 DEF CrashState, State
      <4> HIDE DEF x
      <4> QED
        BY <4>1
    <3>4. s \in Seq(State)
      <4> HIDE DEF S
      <4>1. /\ n \in Nat
            /\ s = [k \in 1..n |-> s[k]]
            /\ \A k \in 1..n : \E w \in T : s[k] = CrashState(cp, S, {w})
        BY <1>2, <1>3, TornSeqLists
      <4>2. T \in SUBSET [op : Calls, bytes : Nat]
        BY <1>2, <1>3, TornTyped
      <4> HIDE DEF s, T, n
      <4>3. \A k \in 1..n : s[k] \in State
        BY <1>2, <3>2, <4>1, <4>2 DEF CrashState, State
      <4>4. s \in [1..n -> State]
        <5>1. s = [k \in 1..n |-> s[k]]
          BY <4>1
        <5> QED
          BY <4>3, <5>1
      <4> QED
        BY <4>1, <4>4
    <3>5. states' = (states \o u) \o s
      BY <2>1, <2>2, <2>3
    <3>6. Batch(cp, mask) = u \o s
      BY <2>2, <2>3
    <3> HIDE DEF u, s
    <3>7. states' = states \o Batch(cp, mask)
      <4>1. \A a, b, c \in Seq(State) : (a \o b) \o c = a \o (b \o c)
        BY ConcatAssociative
      <4>2. (states \o u) \o s = states \o (u \o s)
        BY <1>3, <3>3, <3>4, <4>1
      <4> QED
        BY <3>5, <3>6, <4>2
    <3> QED
      BY <1>1, <1>2, <2>1, <2>2, <3>7 DEF Turn
  <2>4. CASE ~Legal(cp, mask)
    <3>1. states' = states /\ Batch(cp, mask) = <<>>
      BY <2>1, <2>2, <2>4
    <3>2. states' = states \o Batch(cp, mask)
      BY <1>4, <3>1
    <3> QED
      BY <1>1, <1>2, <2>1, <2>2, <3>2 DEF Turn
  <2> QED
    BY <2>3, <2>4
<1>6. CASE TryPrefix
  <2> DEFINE S == PrefixSet(cp, mask)
             x == CrashState(cp, S, {})
  <2>1. /\ model.totalOrder /\ mask <= Len(Ascending(Issued(events, cp))) /\ mask' = mask + 1
        /\ states' = IF AlwaysPresent(events, cp) \subseteq S THEN Append(states, x) ELSE states
        /\ UNCHANGED <<model, events, lucky, header, phase, points, todo, sampled>>
    BY <1>6 DEF TryPrefix, PrefixSet
  <2>2. /\ Legal(cp, mask) <=> AlwaysPresent(events, cp) \subseteq S
        /\ Batch(cp, mask) = IF ~Legal(cp, mask) THEN <<>> ELSE <<x>>
        /\ Limit(cp) = Cardinality(Issued(events, cp)) + 1
    BY <2>1 DEF Legal, Batch, Limit
  <2>3. /\ Cardinality(Issued(events, cp)) \in Nat
        /\ Len(Ascending(Issued(events, cp))) = Cardinality(Issued(events, cp))
    BY <1>2, <1>3, IssuedRises
  <2>4. mask <= Cardinality(Issued(events, cp)) /\ mask < Limit(cp)
    BY <1>3, <2>1, <2>2, <2>3
  <2>5. x \in State
    <3>1. S = SetOf(cp, mask)
      BY <2>1 DEF SetOf
    <3>2. S \in SUBSET Calls
      BY <1>2, <1>3, <2>4, <3>1, SetTyped
    <3> HIDE DEF S
    <3> QED
      BY <1>2, <3>2 DEF CrashState, State
  <2>6. Append(states, x) = states \o <<x>>
    <3> HIDE DEF x
    <3> QED
      BY <1>3, <2>5, AppendIsConcat
  <2>7. states' = states \o Batch(cp, mask)
    <3> HIDE DEF x, S
    <3> QED
      BY <1>4, <2>1, <2>2, <2>6
  <2> QED
    BY <1>1, <1>2, <2>1, <2>4, <2>7 DEF Turn
<1> QED
  BY <1>5, <1>6

(* What a sample keeps of a group of n states.                             *)
Cap == IF MaxStatesPerCrashPoint > 2 THEN MaxStatesPerCrashPoint ELSE 2

(* What may be kept of a group is capped and has both its ends.            *)
LEMMA KeepsBoth ==
    ASSUME NEW n \in Nat, NEW K \in Keeps(n)
    PROVE  /\ K \in SUBSET (1..n)
           /\ IsFiniteSet(K)
           /\ Cardinality(K) \in Nat
           /\ Cardinality(K) <= Cap
           /\ n > 0 => 1 \in K /\ n \in K
<1>0. MaxStatesPerCrashPoint \in Nat
  BY EnumerateAssumption
<1>1. CASE n <= MaxStatesPerCrashPoint
  <2>1. K = 1..n
    BY <1>1 DEF Keeps
  <2>2. IsFiniteSet(1..n) /\ Cardinality(1..n) = IF 1 > n THEN 0 ELSE n - 1 + 1
    BY FS_Interval
  <2>3. Cardinality(K) = n
    BY <2>1, <2>2
  <2>4. n <= Cap
    BY <1>0, <1>1 DEF Cap
  <2> QED
    BY <2>1, <2>2, <2>3, <2>4
<1>2. CASE ~(n <= MaxStatesPerCrashPoint)
  <2> DEFINE m == Max({0, MaxStatesPerCrashPoint - 2})
             B == {1, n}
  <2>1. PICK J \in kSubset(m, 2..(n - 1)) : K = B \cup J
    BY <1>2 DEF Keeps
  <2>2. m = IF MaxStatesPerCrashPoint >= 2 THEN MaxStatesPerCrashPoint - 2 ELSE 0
    BY <1>0 DEF Max
  <2>3. J \in SUBSET (2..(n - 1)) /\ Cardinality(J) = m
    BY <2>1 DEF kSubset
  <2>4. IsFiniteSet(2..(n - 1))
    <3>1. 2 \in Int /\ n - 1 \in Int
      OBVIOUS
    <3> QED
      BY <3>1, FS_Interval
  <2>5. IsFiniteSet(J)
    BY <2>3, <2>4, FS_Subset
  <2>6. IsFiniteSet(B) /\ Cardinality(B) <= 2 /\ Cardinality(B) \in Nat
    <3>1. IsFiniteSet({1}) /\ Cardinality({1}) = 1
      BY FS_Singleton
    <3>2. /\ IsFiniteSet({1} \cup {n})
          /\ Cardinality({1} \cup {n}) = IF n \in {1} THEN Cardinality({1}) ELSE Cardinality({1}) + 1
      BY <3>1, FS_AddElement
    <3>3. B = {1} \cup {n}
      OBVIOUS
    <3>4. Cardinality({1} \cup {n}) \in {1, 2}
      BY <3>1, <3>2
    <3> HIDE DEF B
    <3>5. IsFiniteSet(B) /\ Cardinality(B) \in {1, 2}
      BY <3>2, <3>3, <3>4
    <3> QED
      BY <3>5
  <2>7. IsFiniteSet(B \cap J) /\ Cardinality(B \cap J) \in Nat
    <3>1. IsFiniteSet(B \cap J)
      BY <2>6, FS_Intersection
    <3> QED
      BY <3>1, FS_CardinalityType
  <2>8. IsFiniteSet(B \cup J) /\ Cardinality(B \cup J) = Cardinality(B) + Cardinality(J) - Cardinality(B \cap J)
    BY <2>5, <2>6, FS_Union
  <2>9. Cardinality(K) \in Nat
    BY <2>1, <2>8, FS_CardinalityType
  <2>10. m \in Nat
    BY <1>0, <2>2
  <2>11. Cardinality(K) <= 2 + m
    <3> HIDE DEF B, m
    <3> QED
      BY <2>1, <2>3, <2>6, <2>7, <2>8, <2>10
  <2>12. 2 + m <= Cap
    BY <1>0, <2>2 DEF Cap
  <2>13. n \in 1..n /\ 1 \in 1..n
    BY <1>0, <1>2
  <2>14. K \in SUBSET (1..n)
    <3>1. 2..(n - 1) \subseteq 1..n
      OBVIOUS
    <3> QED
      BY <2>1, <2>3, <2>13, <3>1
  <2>15. Cardinality(K) <= Cap
    <3> HIDE DEF m
    <3> QED
      BY <1>0, <2>9, <2>10, <2>11, <2>12 DEF Cap
  <2> QED
    BY <2>1, <2>8, <2>9, <2>14, <2>15
<1> QED
  BY <1>1, <1>2

(* The places a sample takes a crash point's states from.                  *)
PlacesOf(cp) == {k \in DOMAIN states : states[k].crashPoint = cp}

Taken(cp, K) == [k \in 1..Cardinality(K) |-> Group(cp)[Ascending(K)[k]]]

(* A group lists a crash point's places from the first up.                 *)
LEMMA GroupRises ==
    ASSUME NEW cp, states \in Seq(State)
    PROVE  /\ Rises(Group(cp), PlacesOf(cp))
           /\ Cardinality(PlacesOf(cp)) \in Nat
           /\ Len(Group(cp)) = Cardinality(PlacesOf(cp))
           /\ PlacesOf(cp) \in SUBSET Nat
           /\ DOMAIN states = 1..Len(states)
<1>1. Len(states) \in Nat /\ DOMAIN states = 1..Len(states)
  BY LenProperties
<1>2. IsFiniteSet(1..Len(states))
  BY <1>1, FS_Interval
<1>3. PlacesOf(cp) \in SUBSET (1..Len(states))
  BY <1>1 DEF PlacesOf
<1>4. IsFiniteSet(PlacesOf(cp))
  BY <1>2, <1>3, FS_Subset
<1>5. PlacesOf(cp) \in SUBSET Int /\ PlacesOf(cp) \in SUBSET Nat
  BY <1>1, <1>3
<1>6. Group(cp) = Ascending(PlacesOf(cp))
  BY DEF Group, PlacesOf
<1> QED
  BY <1>1, <1>4, <1>5, <1>6, AscendingRises

(* The places taken of a group rise.                                       *)
LEMMA TakenRises ==
    ASSUME NEW cp, states \in Seq(State), NEW K \in Keeps(Len(Group(cp)))
    PROVE  /\ Cardinality(K) \in Nat /\ Cardinality(K) <= Cap /\ IsFiniteSet(K)
           /\ \A k \in 1..Cardinality(K) : Taken(cp, K)[k] \in PlacesOf(cp)
           /\ \A j, k \in 1..Cardinality(K) : j < k => Taken(cp, K)[j] < Taken(cp, K)[k]
           /\ \A i \in K : \E k \in 1..Cardinality(K) : Taken(cp, K)[k] = Group(cp)[i]
           /\ \A k \in 1..Cardinality(K) : \E i \in K : Taken(cp, K)[k] = Group(cp)[i]
<1> DEFINE P == PlacesOf(cp)
           g == Group(cp)
           n == Cardinality(P)
           s == Ascending(K)
           c == Cardinality(K)
<1>1. /\ g \in [1..n -> P] /\ n \in Nat /\ Len(g) = n /\ P \in SUBSET Nat
      /\ \A j, k \in 1..n : j < k <=> g[j] < g[k]
  <2>1. Rises(g, P) /\ n \in Nat /\ Len(g) = n /\ P \in SUBSET Nat
    BY GroupRises
  <2> HIDE DEF g, P
  <2> QED
    BY <2>1 DEF Rises
<1>2. K \in SUBSET (1..n) /\ IsFiniteSet(K) /\ c \in Nat /\ c <= Cap
  <2>1. K \in Keeps(n)
    BY <1>1
  <2> HIDE DEF n
  <2> QED
    BY <1>1, <2>1, KeepsBoth
<1>3. /\ s \in [1..c -> K]
      /\ \A i \in K : \E k \in 1..c : s[k] = i
      /\ \A j, k \in 1..c : j < k <=> s[j] < s[k]
  <2>1. K \in SUBSET Int
    BY <1>1, <1>2
  <2>2. Rises(s, K)
    BY <1>2, <2>1, AscendingRises
  <2> HIDE DEF s
  <2> QED
    BY <2>2 DEF Rises
<1>4. \A k \in 1..c : Taken(cp, K)[k] = g[s[k]] /\ s[k] \in K /\ s[k] \in 1..n
  BY <1>2, <1>3 DEF Taken
<1> HIDE DEF P, g, n, s, c
<1>5. \A k \in 1..c : Taken(cp, K)[k] \in P
  BY <1>1, <1>4
<1>6. \A j, k \in 1..c : j < k => Taken(cp, K)[j] < Taken(cp, K)[k]
  BY <1>1, <1>3, <1>4
<1>7. \A i \in K : \E k \in 1..c : Taken(cp, K)[k] = g[i]
  BY <1>3, <1>4
<1>8. \A k \in 1..c : \E i \in K : Taken(cp, K)[k] = g[i]
  BY <1>4
<1> QED
  BY <1>2, <1>5, <1>6, <1>7, <1>8 DEF P, g, c

(* SampleGroup appends the states at the places taken.                     *)
LEMMA SampleTakes ==
    ASSUME TypeInv, SampleGroup
    PROVE  \E K \in Keeps(Len(Group(Head(todo)))), q \in Seq(State) :
               /\ Len(q) = Cardinality(K)
               /\ \A k \in 1..Cardinality(K) : q[k] = states[Taken(Head(todo), K)[k]]
               /\ sampled' = sampled \o q
<1> DEFINE cp == Head(todo)
           g == Group(cp)
<1>1. PICK K \in Keeps(Len(g)) :
          sampled' = sampled \o [k \in 1..Cardinality(K) |-> states[g[Ascending(K)[k]]]]
  BY DEF SampleGroup
<1> DEFINE q == [k \in 1..Cardinality(K) |-> states[g[Ascending(K)[k]]]]
<1>2. states \in Seq(State)
  BY DEF TypeInv, TypeOK
<1>3. /\ Cardinality(K) \in Nat
      /\ \A k \in 1..Cardinality(K) : Taken(cp, K)[k] \in PlacesOf(cp)
  BY <1>2, TakenRises
<1>4. \A k \in 1..Cardinality(K) : q[k] = states[Taken(cp, K)[k]]
  BY DEF Taken
<1>5. \A k \in 1..Cardinality(K) : q[k] \in State
  <2> SUFFICES ASSUME NEW k \in 1..Cardinality(K) PROVE q[k] \in State
    OBVIOUS
  <2>1. Taken(cp, K)[k] \in DOMAIN states
    BY <1>3 DEF PlacesOf
  <2>2. states[Taken(cp, K)[k]] \in State
    <3> HIDE DEF cp
    <3> QED
      BY <1>2, <2>1
  <2> QED
    BY <1>4, <2>2
<1>6. q \in [1..Cardinality(K) -> State]
  BY <1>5
<1>7. q \in Seq(State) /\ Len(q) = Cardinality(K)
  <2> HIDE DEF q
  <2> QED
    BY <1>3, <1>6
<1>8. sampled' = sampled \o q
  BY <1>1
<1> HIDE DEF q, cp
<1> QED
  BY <1>4, <1>7, <1>8 DEF cp

(* The crash points grouped are selected ones.                             *)
LEMMA GroupsSelected ==
    ASSUME TypeInv
    PROVE  {states[k].crashPoint : k \in DOMAIN states} \in SUBSET Selected
BY DEF TypeInv, TypeOK

(* Every step keeps the types.                                             *)
LEMMA TypeInvStep == TypeInv /\ [Next]_vars => TypeInv'
<1> SUFFICES ASSUME TypeInv, [Next]_vars PROVE TypeInv'
  OBVIOUS
<1>0. /\ events \in Traces /\ states \in Seq(State) /\ sampled \in Seq(State) /\ mask \in Nat
      /\ \A k \in DOMAIN states : states[k].crashPoint \in Selected
      /\ \A i \in DOMAIN todo : todo[i] \in Selected
      /\ Selected \in SUBSET Calls
  BY SelectedTyped DEF TypeInv, TypeOK
<1>1. CASE ParseTrace
  BY <1>1 DEF ParseTrace, TypeInv, TypeOK, Selected, State, Calls
<1>2. CASE SelectCrashPoints
  <2> DEFINE s == Ascending(Selected)
  <2>1. /\ s \in Seq(Calls) /\ {s[i] : i \in DOMAIN s} = Selected
    BY <1>0, SelectedTyped
  <2>2. /\ points' = s /\ todo' = s /\ phase' = "enumerate"
        /\ UNCHANGED <<model, events, lucky, header, mask, states, sampled>>
    BY <1>2 DEF SelectCrashPoints
  <2> HIDE DEF s
  <2>3. Calls' = Calls /\ Selected' = Selected /\ State' = State
    BY <2>2 DEF Calls, Selected, State
  <2>4. \A i \in DOMAIN s : s[i] \in Selected
    BY <2>1
  <2> QED
    BY <2>1, <2>2, <2>3, <2>4 DEF TypeInv, TypeOK
<1>3. CASE TryMask \/ TryPrefix
  <2>1. Turn
    BY <1>3, TryIsTurn
  <2>2. /\ Head(todo) \in Selected /\ states' = states \o Batch(Head(todo), mask) /\ mask' = mask + 1
        /\ UNCHANGED <<model, events, lucky, header, phase, points, todo, sampled>>
        /\ model.totalOrder => mask <= Cardinality(Issued(events, Head(todo)))
    BY <2>1 DEF Turn
  <2>3. Calls' = Calls /\ Selected' = Selected /\ State' = State
    BY <2>2 DEF Calls, Selected, State
  <2> DEFINE b == Batch(Head(todo), mask)
  <2>4. Head(todo) \in Calls
    BY <1>0, <2>2
  <2>5. b \in Seq(State) /\ \A k \in 1..Len(b) : b[k].crashPoint \in Selected
    BY <1>0, <2>2, <2>4, BatchStates
  <2> HIDE DEF b
  <2>6. /\ states \o b \in Seq(State)
        /\ Len(states \o b) = Len(states) + Len(b)
        /\ \A i \in 1..(Len(states) + Len(b)) :
               (states \o b)[i] = IF i <= Len(states) THEN states[i] ELSE b[i - Len(states)]
    BY <1>0, <2>5, ConcatProperties
  <2>7. Len(states) \in Nat /\ Len(b) \in Nat /\ DOMAIN states = 1..Len(states)
    BY <1>0, <2>5, LenProperties
  <2>8. \A i \in DOMAIN (states \o b) : (states \o b)[i].crashPoint \in Selected
    <3> SUFFICES ASSUME NEW i \in 1..(Len(states) + Len(b))
                 PROVE  (states \o b)[i].crashPoint \in Selected
      BY <2>6, LenProperties
    <3>1. CASE i <= Len(states)
      BY <1>0, <2>6, <2>7, <3>1
    <3>2. CASE ~(i <= Len(states))
      <4>1. i - Len(states) \in 1..Len(b)
        BY <2>7, <3>2
      <4> QED
        BY <2>5, <2>6, <3>2, <4>1
    <3> QED
      BY <3>1, <3>2
  <2>9. states' \in Seq(State) /\ \A i \in DOMAIN states' : states'[i].crashPoint \in Selected
    BY <2>2, <2>6, <2>8 DEF b
  <2>10. mask' \in Nat
    BY <1>0, <2>2
  <2> QED
    BY <2>2, <2>3, <2>9, <2>10 DEF TypeInv, TypeOK
<1>4. CASE FinishCrashPoint
  <2>1. /\ todo # <<>> /\ todo' = Tail(todo) /\ mask' = 0
        /\ UNCHANGED <<model, events, lucky, header, phase, points, states, sampled>>
    BY <1>4 DEF FinishCrashPoint
  <2>2. Calls' = Calls /\ Selected' = Selected /\ State' = State
    BY <2>1 DEF Calls, Selected, State
  <2>3. /\ Tail(todo) \in Seq(Calls)
        /\ \A i \in DOMAIN Tail(todo) : Tail(todo)[i] \in Selected
    <3>1. /\ Tail(todo) \in Seq(Calls) /\ Len(Tail(todo)) = Len(todo) - 1 /\ Len(todo) \in Nat
          /\ DOMAIN todo = 1..Len(todo)
          /\ \A i \in 1..(Len(todo) - 1) : Tail(todo)[i] = todo[i + 1]
      BY <2>1, HeadSelected
    <3>2. DOMAIN Tail(todo) = 1..(Len(todo) - 1)
      BY <3>1, LenProperties
    <3>3. \A i \in 1..(Len(todo) - 1) : i + 1 \in DOMAIN todo
      BY <3>1
    <3> QED
      BY <1>0, <3>1, <3>2, <3>3
  <2> QED
    BY <2>1, <2>2, <2>3 DEF TypeInv, TypeOK
<1>5. CASE BeginSampling
  <2> DEFINE S == {states[k].crashPoint : k \in DOMAIN states}
             s == Ascending(S)
  <2>1. phase' = "sample" /\ todo' = s
        /\ UNCHANGED <<model, events, lucky, header, points, mask, states, sampled>>
    BY <1>5 DEF BeginSampling
  <2>2. Calls' = Calls /\ Selected' = Selected /\ State' = State
    BY <2>1 DEF Calls, Selected, State
  <2>3. S \in SUBSET Selected
    BY GroupsSelected
  <2>4. s \in Seq(Calls) /\ {s[i] : i \in DOMAIN s} = S
    <3> HIDE DEF S
    <3> QED
      BY <1>0, <2>3, SelectedTyped
  <2> HIDE DEF s
  <2>5. \A i \in DOMAIN s : s[i] \in Selected
    <3> HIDE DEF S
    <3> QED
      BY <2>3, <2>4
  <2> QED
    BY <2>1, <2>2, <2>4, <2>5 DEF TypeInv, TypeOK
<1>6. CASE SampleGroup
  <2>1. /\ todo # <<>> /\ todo' = Tail(todo)
        /\ UNCHANGED <<model, events, lucky, header, phase, points, mask, states>>
    BY <1>6 DEF SampleGroup
  <2>2. Calls' = Calls /\ Selected' = Selected /\ State' = State
    BY <2>1 DEF Calls, Selected, State
  <2>3. /\ Tail(todo) \in Seq(Calls)
        /\ \A i \in DOMAIN Tail(todo) : Tail(todo)[i] \in Selected
    <3>1. /\ Tail(todo) \in Seq(Calls) /\ Len(Tail(todo)) = Len(todo) - 1 /\ Len(todo) \in Nat
          /\ DOMAIN todo = 1..Len(todo)
          /\ \A i \in 1..(Len(todo) - 1) : Tail(todo)[i] = todo[i + 1]
      BY <2>1, HeadSelected
    <3>2. DOMAIN Tail(todo) = 1..(Len(todo) - 1)
      BY <3>1, LenProperties
    <3>3. \A i \in 1..(Len(todo) - 1) : i + 1 \in DOMAIN todo
      BY <3>1
    <3> QED
      BY <1>0, <3>1, <3>2, <3>3
  <2>4. PICK q \in Seq(State) : sampled' = sampled \o q
    BY <1>6, SampleTakes
  <2>5. sampled' \in Seq(State)
    BY <1>0, <2>4, ConcatProperties
  <2> QED
    BY <2>1, <2>2, <2>3, <2>5 DEF TypeInv, TypeOK
<1>7. CASE Finish
  BY <1>7 DEF Finish, TypeInv, TypeOK, Selected, State, Calls
<1>8. CASE Done \/ UNCHANGED vars
  BY <1>8 DEF Done, vars, TypeInv, TypeOK, Selected, State, Calls
<1> QED
  BY <1>1, <1>2, <1>3, <1>4, <1>5, <1>6, <1>7, <1>8 DEF Next

(* The types always hold.                                                  *)
LEMMA TypeInvHolds == Spec => []TypeInv
<1>1. Init => TypeInv
  <2> SUFFICES ASSUME Init PROVE TypeInv
    OBVIOUS
  <2>1. <<>> \in Seq(Calls) /\ <<>> \in Seq(State) /\ DOMAIN <<>> = {}
    BY EmptySeq
  <2> QED
    BY <2>1 DEF Init, TypeInv, TypeOK, TRACE_VERSION
<1> QED
  BY <1>1, TypeInvStep, PTL DEF Spec

(* Every variable has its type, and a state belongs to a selected crash    *)
(* point.                                                                  *)
THEOREM EnumerateTypes == Spec => []TypeOK
<1>1. TypeInv => TypeOK
  BY DEF TypeInv
<1> QED
  BY <1>1, TypeInvHolds, PTL

-----------------------------------------------------------------------------
(* What the loop has emitted, said of any sequence ss of states.           *)

From(ss, cp) == {ss[k] : k \in {l \in DOMAIN ss : ss[l].crashPoint = cp}}

Distinct(ss) == \A k, l \in DOMAIN ss : ss[k] = ss[l] => k = l

InOrder(ss) == \A k, l \in DOMAIN ss : k < l => ss[k].crashPoint <= ss[l].crashPoint

(* The first state of cp is whole and in every other.                      *)
Opens(ss, cp) ==
    \E k \in DOMAIN ss :
        /\ ss[k].crashPoint = cp /\ ss[k].partial = {}
        /\ \A l \in DOMAIN ss : ss[l].crashPoint = cp => k <= l
        /\ \A st \in StatesAt(events, cp, model) : ss[k].persisted \subseteq st.persisted

(* The last has everything issued.                                         *)
Closes(ss, cp) ==
    \E k \in DOMAIN ss :
        /\ ss[k] = CrashState(cp, Issued(events, cp), {})
        /\ \A l \in DOMAIN ss : ss[l].crashPoint = cp => l <= k

(* The states of the turns before the m-th.                                *)
Tried(cp, m) == UNION {TurnStates(cp, i) : i \in {j \in 0..(m - 1) : j < Limit(cp)}}

(* A turn's states are of its crash point and of its set.                  *)
LEMMA CrashPointsOf ==
    ASSUME NEW cp, NEW m, NEW x \in TurnStates(cp, m)
    PROVE  x.crashPoint = cp /\ x.persisted = SetOf(cp, m) /\ Legal(cp, m)
BY DEF TurnStates, CrashState

(* A turn appended to what the turns before it emitted.                    *)
LEMMA AddTurn ==
    ASSUME events \in Traces, WindowFits, NEW cp \in Calls, NEW m \in Nat, m < Limit(cp),
           NEW ss \in Seq(State),
           From(ss, cp) = Tried(cp, m),
           \A k \in DOMAIN ss : ss[k].crashPoint <= cp,
           Distinct(ss), InOrder(ss),
           From(ss, cp) # {} => Opens(ss, cp)
    PROVE  LET tt == ss \o Batch(cp, m) IN
           /\ tt \in Seq(State)
           /\ \A d : d # cp => /\ From(tt, d) = From(ss, d)
                               /\ Opens(ss, d) => Opens(tt, d)
                               /\ Closes(ss, d) => Closes(tt, d)
           /\ From(tt, cp) = Tried(cp, m + 1)
           /\ Distinct(tt) /\ InOrder(tt)
           /\ From(tt, cp) # {} => Opens(tt, cp)
           /\ m + 1 >= Limit(cp) => Closes(tt, cp)
<1> DEFINE b == Batch(cp, m)
           tt == ss \o b
           n == Len(ss)
           L == Limit(cp)
<1>1. /\ L \in Nat \ {0}
      /\ model.totalOrder => L - 1 = Cardinality(Issued(events, cp))
      /\ \A i, l \in 0..(L - 1) : SetOf(cp, i) = SetOf(cp, l) => i = l
      /\ StatesAt(events, cp, model) = UNION {TurnStates(cp, i) : i \in 0..(L - 1)}
      /\ \A i, l \in 0..(L - 1) :
             (/\ Legal(cp, i) /\ Legal(cp, l)
              /\ \A j \in 0..(i - 1) : ~Legal(cp, j)) => SetOf(cp, i) \subseteq SetOf(cp, l)
      /\ TurnStates(cp, L - 1) = {CrashState(cp, Issued(events, cp), {})}
  BY Turns
<1>2. m \in 0..(L - 1) /\ (model.totalOrder => m <= Cardinality(Issued(events, cp)))
  BY <1>1
<1>3. /\ b \in Seq(State)
      /\ {b[k] : k \in 1..Len(b)} = TurnStates(cp, m)
      /\ \A k, l \in 1..Len(b) : b[k] = b[l] => k = l
      /\ \A k \in 1..Len(b) : b[k].crashPoint = cp /\ b[k].persisted = SetOf(cp, m)
  BY <1>2, BatchStates
<1>4. Legal(cp, m) => Len(b) \in Nat \ {0} /\ b[1] = CrashState(cp, SetOf(cp, m), {})
  BY <1>2, BatchShape
<1>5. cp \in Nat
  BY CallsTyped
<1> HIDE DEF b, L
<1>6. n \in Nat /\ Len(b) \in Nat /\ DOMAIN ss = 1..n
  BY <1>3, LenProperties
<1>7. tt \in Seq(State) /\ Len(tt) = n + Len(b) /\ DOMAIN tt = 1..(n + Len(b))
  BY <1>3, ConcatProperties, LenProperties
<1>8. \A k \in 1..(n + Len(b)) : tt[k] = IF k <= n THEN ss[k] ELSE b[k - n]
  BY <1>3, ConcatProperties
<1> HIDE DEF tt
<1>9. /\ \A k \in DOMAIN ss : k \in DOMAIN tt /\ tt[k] = ss[k]
      /\ \A k \in 1..Len(b) : n + k \in DOMAIN tt /\ tt[n + k] = b[k]
      /\ \A k \in DOMAIN tt : k \in DOMAIN ss \/ (k - n \in 1..Len(b) /\ n + (k - n) = k)
  <2>1. \A k \in 1..n : k \in 1..(n + Len(b)) /\ tt[k] = ss[k]
    BY <1>6, <1>8
  <2>2. \A k \in 1..Len(b) : n + k \in 1..(n + Len(b)) /\ tt[n + k] = b[k]
    <3> SUFFICES ASSUME NEW k \in 1..Len(b) PROVE n + k \in 1..(n + Len(b)) /\ tt[n + k] = b[k]
      OBVIOUS
    <3>1. n + k \in 1..(n + Len(b)) /\ ~(n + k <= n) /\ (n + k) - n = k
      BY <1>6
    <3> QED
      BY <1>8, <3>1
  <2>3. \A k \in 1..(n + Len(b)) : k \in 1..n \/ (k - n \in 1..Len(b) /\ n + (k - n) = k)
    BY <1>6
  <2> QED
    BY <1>6, <1>7, <2>1, <2>2, <2>3
<1> HIDE DEF n
<1>10. \A k \in DOMAIN tt : k \in DOMAIN ss \/ \E j \in 1..Len(b) : k = n + j /\ tt[k] = b[j]
  BY <1>9
<1>11. \A k \in DOMAIN ss : k \in Nat /\ k <= n /\ \A j \in 1..Len(b) : k < n + j
  BY <1>6
<1>12. From(tt, cp) = From(ss, cp) \cup TurnStates(cp, m)
  <2>1. ASSUME NEW x \in From(tt, cp) PROVE x \in From(ss, cp) \/ x \in TurnStates(cp, m)
    <3>1. PICK k \in DOMAIN tt : tt[k].crashPoint = cp /\ x = tt[k]
      BY DEF From
    <3>2. CASE k \in DOMAIN ss
      BY <1>9, <3>1, <3>2 DEF From
    <3>3. CASE \E j \in 1..Len(b) : k = n + j /\ tt[k] = b[j]
      BY <1>3, <3>1, <3>3
    <3> QED
      BY <1>10, <3>2, <3>3
  <2>2. ASSUME NEW x \in From(ss, cp) PROVE x \in From(tt, cp)
    BY <1>9 DEF From
  <2>3. ASSUME NEW x \in TurnStates(cp, m) PROVE x \in From(tt, cp)
    <3>1. PICK j \in 1..Len(b) : x = b[j]
      BY <1>3
    <3>2. n + j \in DOMAIN tt /\ tt[n + j] = x /\ x.crashPoint = cp
      BY <1>3, <1>9, <3>1
    <3> QED
      BY <3>2 DEF From
  <2> QED
    BY <2>1, <2>2, <2>3
<1>13. Tried(cp, m + 1) = Tried(cp, m) \cup TurnStates(cp, m)
  <2>1. {j \in 0..((m + 1) - 1) : j < L} = {j \in 0..(m - 1) : j < L} \cup {m}
    BY <1>1, <1>2
  <2> QED
    BY <2>1 DEF Tried, L
<1>14. From(tt, cp) = Tried(cp, m + 1)
  BY <1>12, <1>13
<1>15. ASSUME NEW d, d # cp
       PROVE  /\ From(tt, d) = From(ss, d)
              /\ Opens(ss, d) => Opens(tt, d)
              /\ Closes(ss, d) => Closes(tt, d)
  <2>1. \A k \in DOMAIN tt : tt[k].crashPoint = d => k \in DOMAIN ss
    BY <1>3, <1>10, <1>15
  <2>2. From(tt, d) = From(ss, d)
    BY <1>9, <2>1 DEF From
  <2>3. ASSUME Opens(ss, d) PROVE Opens(tt, d)
    <3>1. PICK k \in DOMAIN ss :
              /\ ss[k].crashPoint = d /\ ss[k].partial = {}
              /\ \A l \in DOMAIN ss : ss[l].crashPoint = d => k <= l
              /\ \A st \in StatesAt(events, d, model) : ss[k].persisted \subseteq st.persisted
      BY <2>3 DEF Opens
    <3>2. k \in DOMAIN tt /\ tt[k] = ss[k]
      BY <1>9
    <3>3. \A l \in DOMAIN tt : tt[l].crashPoint = d => k <= l
      BY <1>9, <2>1, <3>1
    <3> QED
      BY <3>1, <3>2, <3>3 DEF Opens
  <2>4. ASSUME Closes(ss, d) PROVE Closes(tt, d)
    <3>1. PICK k \in DOMAIN ss :
              /\ ss[k] = CrashState(d, Issued(events, d), {})
              /\ \A l \in DOMAIN ss : ss[l].crashPoint = d => l <= k
      BY <2>4 DEF Closes
    <3>2. k \in DOMAIN tt /\ tt[k] = ss[k]
      BY <1>9
    <3>3. \A l \in DOMAIN tt : tt[l].crashPoint = d => l <= k
      BY <1>9, <2>1, <3>1
    <3> QED
      BY <3>1, <3>2, <3>3 DEF Closes
  <2> QED
    BY <2>2, <2>3, <2>4
<1>16. Distinct(tt)
  <2>1. ASSUME NEW k \in DOMAIN ss, NEW j \in 1..Len(b), ss[k] = b[j] PROVE FALSE
    <3>1. ss[k] \in Tried(cp, m)
      <4>1. ss[k].crashPoint = cp
        BY <1>3, <2>1
      <4>2. ss[k] \in From(ss, cp)
        BY <4>1 DEF From
      <4> QED
        BY <4>2
    <3>2. PICK i \in 0..(m - 1) : i < L /\ ss[k] \in TurnStates(cp, i)
      BY <3>1 DEF Tried, L
    <3>3. SetOf(cp, i) = SetOf(cp, m)
      BY <1>3, <2>1, <3>2, CrashPointsOf
    <3>4. i \in 0..(L - 1)
      BY <1>1, <3>2
    <3>5. i = m
      BY <1>1, <1>2, <3>3, <3>4
    <3> QED
      BY <3>2, <3>5
  <2>2. ASSUME NEW k \in DOMAIN tt, NEW l \in DOMAIN tt, tt[k] = tt[l] PROVE k = l
    <3>1. CASE k \in DOMAIN ss /\ l \in DOMAIN ss
      BY <1>9, <2>2, <3>1 DEF Distinct
    <3>2. CASE k \in DOMAIN ss /\ \E j \in 1..Len(b) : l = n + j /\ tt[l] = b[j]
      BY <1>9, <2>1, <2>2, <3>2
    <3>3. CASE l \in DOMAIN ss /\ \E j \in 1..Len(b) : k = n + j /\ tt[k] = b[j]
      BY <1>9, <2>1, <2>2, <3>3
    <3>4. CASE /\ \E j \in 1..Len(b) : k = n + j /\ tt[k] = b[j]
               /\ \E j \in 1..Len(b) : l = n + j /\ tt[l] = b[j]
      BY <1>3, <2>2, <3>4
    <3> QED
      BY <1>10, <3>1, <3>2, <3>3, <3>4
  <2> QED
    BY <2>2 DEF Distinct
<1>17. InOrder(tt)
  <2> SUFFICES ASSUME NEW k \in DOMAIN tt, NEW l \in DOMAIN tt, k < l
               PROVE  tt[k].crashPoint <= tt[l].crashPoint
    BY DEF InOrder
  <2>1. CASE l \in DOMAIN ss
    <3>1. k \in DOMAIN ss
      <4>1. ASSUME NEW j \in 1..Len(b), k = n + j PROVE FALSE
        BY <1>6, <1>11, <2>1, <4>1
      <4> QED
        BY <1>10, <4>1
    <3> QED
      BY <1>9, <2>1, <3>1 DEF InOrder
  <2>2. CASE \E j \in 1..Len(b) : l = n + j /\ tt[l] = b[j]
    <3>1. tt[l].crashPoint = cp
      BY <1>3, <2>2
    <3>2. tt[k].crashPoint <= cp
      <4>1. CASE k \in DOMAIN ss
        BY <1>9, <4>1
      <4>2. CASE \E j \in 1..Len(b) : k = n + j /\ tt[k] = b[j]
        BY <1>3, <1>5, <4>2
      <4> QED
        BY <1>10, <4>1, <4>2
    <3> QED
      BY <3>1, <3>2
  <2> QED
    BY <1>10, <2>1, <2>2
<1>18. ASSUME From(tt, cp) # {} PROVE Opens(tt, cp)
  <2>1. CASE From(ss, cp) # {}
    <3>1. PICK k \in DOMAIN ss :
              /\ ss[k].crashPoint = cp /\ ss[k].partial = {}
              /\ \A l \in DOMAIN ss : ss[l].crashPoint = cp => k <= l
              /\ \A st \in StatesAt(events, cp, model) : ss[k].persisted \subseteq st.persisted
      BY <2>1 DEF Opens
    <3>2. k \in DOMAIN tt /\ tt[k] = ss[k]
      BY <1>9
    <3>3. \A l \in DOMAIN tt : tt[l].crashPoint = cp => k <= l
      <4> SUFFICES ASSUME NEW l \in DOMAIN tt, tt[l].crashPoint = cp PROVE k <= l
        OBVIOUS
      <4>1. CASE l \in DOMAIN ss
        BY <1>9, <3>1, <4>1
      <4>2. CASE \E j \in 1..Len(b) : l = n + j /\ tt[l] = b[j]
        <5>1. PICK j \in 1..Len(b) : l = n + j
          BY <4>2
        <5>2. k < n + j /\ k \in Nat /\ n + j \in Nat
          BY <1>6, <1>11
        <5> QED
          BY <5>1, <5>2
      <4> QED
        BY <1>10, <4>1, <4>2
    <3> QED
      BY <3>1, <3>2, <3>3 DEF Opens
  <2>2. CASE From(ss, cp) = {}
    <3>1. TurnStates(cp, m) # {}
      BY <1>12, <1>18, <2>2
    <3>2. Legal(cp, m)
      BY <3>1 DEF TurnStates
    <3>3. \A i \in 0..(m - 1) : ~Legal(cp, i)
      <4> SUFFICES ASSUME NEW i \in 0..(m - 1), Legal(cp, i) PROVE FALSE
        OBVIOUS
      <4>1. i < L
        BY <1>1, <1>2
      <4>2. TurnStates(cp, i) \subseteq Tried(cp, m)
        BY <4>1 DEF Tried, L
      <4>3. CrashState(cp, SetOf(cp, i), {}) \in TurnStates(cp, i)
        BY DEF TurnStates
      <4> QED
        BY <2>2, <4>2, <4>3
    <3>4. 1 \in 1..Len(b) /\ b[1] = CrashState(cp, SetOf(cp, m), {})
      BY <1>4, <3>2
    <3>5. n + 1 \in DOMAIN tt /\ tt[n + 1] = CrashState(cp, SetOf(cp, m), {})
      BY <1>9, <3>4
    <3>6. /\ tt[n + 1].crashPoint = cp /\ tt[n + 1].partial = {}
          /\ tt[n + 1].persisted = SetOf(cp, m)
      BY <3>5 DEF CrashState
    <3>7. \A l \in DOMAIN tt : tt[l].crashPoint = cp => n + 1 <= l
      <4> SUFFICES ASSUME NEW l \in DOMAIN tt, tt[l].crashPoint = cp PROVE n + 1 <= l
        OBVIOUS
      <4>1. l \notin DOMAIN ss
        BY <1>9, <2>2 DEF From
      <4>2. PICK j \in 1..Len(b) : l = n + j
        BY <1>10, <4>1
      <4> QED
        BY <1>6, <4>2
    <3>8. ASSUME NEW st \in StatesAt(events, cp, model) PROVE SetOf(cp, m) \subseteq st.persisted
      <4>1. PICK i \in 0..(L - 1) : st \in TurnStates(cp, i)
        BY <1>1
      <4>2. st.persisted = SetOf(cp, i) /\ Legal(cp, i)
        BY <4>1, CrashPointsOf
      <4> QED
        BY <1>1, <1>2, <3>2, <3>3, <4>2
    <3> QED
      BY <3>5, <3>6, <3>7, <3>8 DEF Opens
  <2> QED
    BY <2>1, <2>2
<1>19. ASSUME m + 1 >= L PROVE Closes(tt, cp)
  <2> DEFINE x == CrashState(cp, Issued(events, cp), {})
  <2>1. m = L - 1
    BY <1>1, <1>2, <1>19
  <2>2. {b[k] : k \in 1..Len(b)} = {x}
    BY <1>1, <1>3, <2>1
  <2> HIDE DEF x
  <2>3. PICK j \in 1..Len(b) : b[j] = x
    BY <2>2
  <2>4. \A k \in 1..Len(b) : k = j
    BY <1>3, <2>2, <2>3
  <2>5. n + j \in DOMAIN tt /\ tt[n + j] = x
    BY <1>9, <2>3
  <2>6. \A l \in DOMAIN tt : l <= n + j
    <3> SUFFICES ASSUME NEW l \in DOMAIN tt PROVE l <= n + j
      OBVIOUS
    <3>1. CASE l \in DOMAIN ss
      <4>1. l < n + j /\ l \in Nat /\ n + j \in Nat
        BY <1>6, <1>11, <3>1
      <4> QED
        BY <4>1
    <3>2. CASE \E k \in 1..Len(b) : l = n + k /\ tt[l] = b[k]
      BY <1>6, <2>4, <3>2
    <3> QED
      BY <1>10, <3>1, <3>2
  <2> QED
    BY <2>5, <2>6 DEF Closes, x
<1> QED
  BY <1>7, <1>14, <1>15, <1>16, <1>17, <1>18, <1>19 DEF tt, b, L

-----------------------------------------------------------------------------
(* The enumeration.                                                        *)

(* The crash points the stage has left: the last of the selected ones.     *)
Left == {todo[i] : i \in DOMAIN todo}

LeftRises ==
    /\ \A i, j \in DOMAIN todo : i < j => todo[i] < todo[j]
    /\ \A c \in Selected \ Left, d \in Left : c < d

(* Crash points done with have all their states, the one in hand those of  *)
(* the turns it has had, the others none.                                  *)
Emitting ==
    /\ LeftRises
    /\ Distinct(states) /\ InOrder(states)
    /\ \A c \in Selected :
           /\ From(states, c) # {} => Opens(states, c)
           /\ c \notin Left => From(states, c) = StatesAt(events, c, model) /\ Closes(states, c)
           /\ (c \in Left /\ c # Head(todo)) => From(states, c) = {}
    /\ todo # <<>> =>
           /\ From(states, Head(todo)) = Tried(Head(todo), mask)
           /\ mask >= Limit(Head(todo)) => Closes(states, Head(todo))

Enumerated ==
    /\ Distinct(states) /\ InOrder(states)
    /\ \A c \in Selected : /\ From(states, c) = StatesAt(events, c, model)
                           /\ Opens(states, c) /\ Closes(states, c)

EnumInv ==
    /\ phase \in {"parse", "select"} => states = <<>> /\ mask = 0
    /\ phase \in {"parse", "select", "enumerate"} => sampled = <<>>
    /\ phase = "enumerate" => Emitting
    /\ phase \in {"sample", "done"} => Enumerated

(* A step that leaves the trace, the model and the seed's choice alone     *)
(* leaves alone what they decide.                                          *)
LEMMA SameRun ==
    ASSUME events' = events, model' = model, lucky' = lucky
    PROVE  /\ Selected' = Selected
           /\ \A c : Limit(c)' = Limit(c)
           /\ \A c, m : Tried(c, m)' = Tried(c, m)
           /\ \A ss, c : Opens(ss, c)' <=> Opens(ss, c)
           /\ \A ss, c : Closes(ss, c)' <=> Closes(ss, c)
<1>1. Selected' = Selected
  BY DEF Selected, Calls
<1>2. \A c : Limit(c)' = Limit(c)
  BY DEF Limit, Masks
<1>3. \A c, m : TurnStates(c, m)' = TurnStates(c, m)
  <2>1. \A c, m : MaskSet(c, m)' = MaskSet(c, m) /\ PrefixSet(c, m)' = PrefixSet(c, m)
    BY DEF MaskSet, Chosen, PrefixSet
  <2>2. \A c, m : /\ SetOf(c, m)' = SetOf(c, m)
                  /\ Legal(c, m)' <=> Legal(c, m)
                  /\ TornFor(c, m)' = TornFor(c, m)
    BY <2>1 DEF SetOf, Legal, TornFor
  <2> QED
    BY <2>2 DEF TurnStates
<1>4. \A c, m : Tried(c, m)' = Tried(c, m)
  BY <1>2, <1>3 DEF Tried
<1>5. \A ss, c : Opens(ss, c)' <=> Opens(ss, c)
  BY DEF Opens
<1>6. \A ss, c : Closes(ss, c)' <=> Closes(ss, c)
  BY DEF Closes
<1> QED
  BY <1>1, <1>2, <1>4, <1>5, <1>6

(* Before the first turn nothing is emitted.                               *)
LEMMA NothingYet ==
    ASSUME NEW c
    PROVE  From(<<>>, c) = {} /\ Tried(c, 0) = {}
<1>1. 0..(0 - 1) = {}
  OBVIOUS
<1> QED
  BY <1>1 DEF From, Tried

(* Taking the first crash point off the list.                              *)
LEMMA HeadLeaves ==
    ASSUME TypeInv, todo # <<>>, LeftRises, todo' = Tail(todo), Selected' = Selected
    PROVE  /\ Left' = Left \ {Head(todo)} /\ Head(todo) \in Left
           /\ LeftRises'
           /\ todo' # <<>> => Head(todo)' \in Left' /\ Head(todo)' \in Left /\ Head(todo)' # Head(todo)
           /\ \A d \in Left : Head(todo) <= d
<1> DEFINE n == Len(todo)
           t == Tail(todo)
<1>1. /\ Head(todo) = todo[1] /\ 1 \in DOMAIN todo
      /\ n \in Nat \ {0} /\ DOMAIN todo = 1..n
      /\ t \in Seq(Calls) /\ Len(t) = n - 1
      /\ \A i \in 1..(n - 1) : t[i] = todo[i + 1]
  BY HeadSelected
<1>2. DOMAIN t = 1..(n - 1)
  BY <1>1, LenProperties
<1>3. \A i, j \in 1..n : i < j => todo[i] < todo[j]
  BY <1>1 DEF LeftRises
<1>4. \A i \in 1..n : todo[i] \in Nat
  BY <1>1, CallsTyped, LenProperties DEF TypeInv, TypeOK
<1>5. todo' = t
  OBVIOUS
<1> HIDE DEF t, n
<1>6. \A i \in 2..n : i - 1 \in 1..(n - 1) /\ t[i - 1] = todo[i] /\ todo[1] < todo[i]
  <2> SUFFICES ASSUME NEW i \in 2..n
               PROVE  i - 1 \in 1..(n - 1) /\ t[i - 1] = todo[i] /\ todo[1] < todo[i]
    OBVIOUS
  <2>1. i - 1 \in 1..(n - 1) /\ (i - 1) + 1 = i /\ 1 \in 1..n /\ i \in 1..n /\ 1 < i
    BY <1>1
  <2> QED
    BY <1>1, <1>3, <2>1
<1>7. \A i \in 1..(n - 1) : i + 1 \in 2..n /\ t[i] = todo[i + 1]
  BY <1>1
<1>8. \A x : x \in Left <=> \E i \in 1..n : x = todo[i]
  BY <1>1 DEF Left
<1>9. \A x : x \in Left' <=> \E i \in 1..(n - 1) : x = t[i]
  <2>1. Left' = {t[i] : i \in 1..(n - 1)}
    BY <1>2, <1>5 DEF Left
  <2> QED
    BY <2>1
<1>10. \A x : x \in Left' <=> \E i \in 2..n : x = todo[i]
  BY <1>6, <1>7, <1>9
<1>11. 1 \in 1..n /\ \A i \in 1..n : i = 1 \/ i \in 2..n
  BY <1>1
<1>12. \A i \in 2..n : i \in 1..n /\ todo[i] # todo[1]
  BY <1>1, <1>4, <1>6, <1>11
<1>13. \A x : x \in Left' <=> x \in Left /\ x # todo[1]
  BY <1>8, <1>10, <1>11, <1>12
<1>14. Left' = Left \ {Head(todo)} /\ Head(todo) \in Left
  BY <1>1, <1>8, <1>11, <1>13
<1>15. \A d \in Left : Head(todo) <= d
  BY <1>1, <1>4, <1>6, <1>8, <1>11
<1>16. \A i, j \in DOMAIN t : i < j => t[i] < t[j]
  <2> SUFFICES ASSUME NEW i \in 1..(n - 1), NEW j \in 1..(n - 1), i < j PROVE t[i] < t[j]
    BY <1>2
  <2>1. i + 1 \in 1..n /\ j + 1 \in 1..n /\ i + 1 < j + 1
    BY <1>1
  <2> QED
    BY <1>3, <1>7, <2>1
<1>17. \A c \in Selected \ Left', d \in Left' : c < d
  <2> SUFFICES ASSUME NEW c \in Selected, c \notin Left', NEW d \in Left' PROVE c < d
    OBVIOUS
  <2>1. CASE c \in Left
    <3>1. c = todo[1]
      BY <1>13, <2>1
    <3>2. PICK i \in 2..n : d = todo[i]
      BY <1>10
    <3> QED
      BY <1>6, <3>1, <3>2
  <2>2. CASE c \notin Left
    BY <1>13, <2>2 DEF LeftRises
  <2> QED
    BY <2>1, <2>2
<1>18. LeftRises'
  BY <1>5, <1>16, <1>17 DEF LeftRises
<1>19. ASSUME t # <<>> PROVE Head(t) \in Left'
  <2>1. Len(t) \in Nat \ {0}
    BY <1>1, <1>19, EmptySeq
  <2>2. 1 \in 1..(n - 1) /\ Head(t) = t[1]
    BY <1>1, <1>19, <2>1
  <2> QED
    BY <1>9, <2>2
<1> QED
  BY <1>5, <1>13, <1>14, <1>15, <1>18, <1>19, <1>1

(* All selected crash points, listed, are a list of what is left.          *)
LEMMA SelectedSorts ==
    ASSUME events \in Traces, todo' = Ascending(Selected), Selected' = Selected
    PROVE  Left' = Selected /\ LeftRises'
<1> DEFINE s == Ascending(Selected)
<1>1. Rises(s, Selected) /\ DOMAIN s = 1..Cardinality(Selected) /\ {s[i] : i \in DOMAIN s} = Selected
  BY SelectedTyped
<1>2. todo' = s
  OBVIOUS
<1> HIDE DEF s
<1>3. Left' = Selected
  BY <1>1, <1>2 DEF Left
<1>4. LeftRises'
  BY <1>1, <1>2, <1>3 DEF LeftRises, Rises
<1> QED
  BY <1>3, <1>4

(* A turn keeps the invariant of the enumeration.                          *)
LEMMA TurnKeeps ==
    ASSUME TypeInv, WindowFits, phase = "enumerate", Emitting, Turn
    PROVE  Emitting'
<1> DEFINE c == Head(todo)
           tt == states \o Batch(c, mask)
<1>1. /\ todo # <<>> /\ c \in Selected /\ mask < Limit(c)
      /\ states' = tt /\ mask' = mask + 1
      /\ UNCHANGED <<model, events, lucky, header, phase, points, todo, sampled>>
  BY DEF Turn
<1>2. /\ events \in Traces /\ states \in Seq(State) /\ mask \in Nat
      /\ \A k \in DOMAIN states : states[k].crashPoint \in Selected
  BY DEF TypeInv, TypeOK
<1>3. c \in Calls /\ c \in Nat /\ Selected \subseteq Nat
  BY <1>1, <1>2, SelectedTyped, CallsTyped
<1>4. c \in Left /\ \A d \in Left : c <= d
  <2>1. /\ c = todo[1] /\ DOMAIN todo = 1..Len(todo) /\ 1 \in DOMAIN todo /\ Len(todo) \in Nat
    BY <1>1, HeadSelected
  <2>2. \A i \in DOMAIN todo : todo[i] \in Nat
    BY <1>3 DEF TypeInv
  <2>3. \A i \in DOMAIN todo : i = 1 \/ 1 < i
    BY <2>1
  <2>4. \A i \in DOMAIN todo : 1 < i => todo[1] < todo[i]
    BY <2>1 DEF Emitting, LeftRises
  <2> QED
    BY <2>1, <2>2, <2>3, <2>4 DEF Left
<1>5. From(states, c) = Tried(c, mask)
  BY <1>1 DEF Emitting
<1>6. \A k \in DOMAIN states : states[k].crashPoint <= c
  <2> SUFFICES ASSUME NEW k \in DOMAIN states PROVE states[k].crashPoint <= c
    OBVIOUS
  <2> DEFINE d == states[k].crashPoint
  <2>1. d \in Selected /\ d \in Nat
    BY <1>2, <1>3
  <2>2. From(states, d) # {}
    BY DEF From
  <2>3. d \in Left => d = c
    BY <2>1, <2>2 DEF Emitting
  <2>4. d \notin Left => d < c
    BY <1>4, <2>1 DEF Emitting, LeftRises
  <2> QED
    BY <1>3, <2>1, <2>3, <2>4
<1>7. /\ tt \in Seq(State)
      /\ \A d : d # c => /\ From(tt, d) = From(states, d)
                         /\ Opens(states, d) => Opens(tt, d)
                         /\ Closes(states, d) => Closes(tt, d)
      /\ From(tt, c) = Tried(c, mask + 1)
      /\ Distinct(tt) /\ InOrder(tt)
      /\ From(tt, c) # {} => Opens(tt, c)
      /\ mask + 1 >= Limit(c) => Closes(tt, c)
  <2>1. Distinct(states) /\ InOrder(states) /\ (From(states, c) # {} => Opens(states, c))
    BY <1>1 DEF Emitting
  <2> HIDE DEF c
  <2> QED
    BY <1>1, <1>2, <1>3, <1>5, <1>6, <2>1, AddTurn
<1>8. /\ Selected' = Selected
      /\ \A d : Limit(d)' = Limit(d)
      /\ \A d, m : Tried(d, m)' = Tried(d, m)
      /\ \A ss, d : Opens(ss, d)' <=> Opens(ss, d)
      /\ \A ss, d : Closes(ss, d)' <=> Closes(ss, d)
  BY <1>1, SameRun
<1>9. Left' = Left /\ LeftRises' /\ Head(todo)' = c /\ todo' = todo
  BY <1>1, <1>8 DEF Emitting, LeftRises, Left
<1> HIDE DEF tt, c
<1>10. Distinct(states') /\ InOrder(states')
  BY <1>1, <1>7
<1>11. ASSUME NEW d \in Selected
       PROVE  /\ From(states', d) # {} => Opens(states', d)
              /\ d \notin Left => From(states', d) = StatesAt(events, d, model) /\ Closes(states', d)
              /\ (d \in Left /\ d # c) => From(states', d) = {}
  <2>1. CASE d = c
    BY <1>1, <1>4, <1>7, <2>1
  <2>2. CASE d # c
    <3>1. /\ From(states, d) # {} => Opens(states, d)
          /\ d \notin Left => From(states, d) = StatesAt(events, d, model) /\ Closes(states, d)
          /\ (d \in Left /\ d # c) => From(states, d) = {}
      BY DEF Emitting, c
    <3>2. /\ From(tt, d) = From(states, d)
          /\ Opens(states, d) => Opens(tt, d)
          /\ Closes(states, d) => Closes(tt, d)
      BY <1>7, <2>2
    <3> QED
      BY <1>1, <3>1, <3>2
  <2> QED
    BY <2>1, <2>2
<1>12. From(states', c) = Tried(c, mask') /\ (mask' >= Limit(c) => Closes(states', c))
  BY <1>1, <1>7
<1>13. From(states, c)' = From(states', c')
  BY DEF From
<1>14. \A d : From(states', d) = {states'[k] : k \in {l \in DOMAIN states' : states'[l].crashPoint = d}}
  BY DEF From
<1>15. \A d : From(states, d)' = From(states', d)
  BY DEF From
<1>16. (Distinct(states))' /\ (InOrder(states))'
  BY <1>10 DEF Distinct, InOrder
<1>17. \A d : /\ (Opens(states, d))' <=> Opens(states', d)
              /\ (Closes(states, d))' <=> Closes(states', d)
  BY <1>1 DEF Opens, Closes
<1>18. StatesAt(events', c, model') = StatesAt(events, c, model)
  BY <1>1
<1> QED
  BY <1>1, <1>8, <1>9, <1>11, <1>12, <1>15, <1>16, <1>17 DEF Emitting

(* After the last turn every state of the crash point is emitted.          *)
LEMMA AllTried ==
    ASSUME NEW c \in Calls, events \in Traces, WindowFits, NEW m \in Nat, m >= Limit(c)
    PROVE  Tried(c, m) = StatesAt(events, c, model) /\ Limit(c) > 0
<1>1. /\ Limit(c) \in Nat \ {0}
      /\ StatesAt(events, c, model) = UNION {TurnStates(c, i) : i \in 0..(Limit(c) - 1)}
  BY Turns
<1>2. {j \in 0..(m - 1) : j < Limit(c)} = 0..(Limit(c) - 1)
  BY <1>1
<1> QED
  BY <1>1, <1>2 DEF Tried

(* The enumeration starts with nothing emitted.                            *)
LEMMA SelectEmits ==
    ASSUME TypeInv, WindowFits, EnumInv, SelectCrashPoints
    PROVE  Emitting'
<1> DEFINE s == Ascending(Selected)
<1>1. /\ states = <<>> /\ mask = 0
      /\ todo' = s /\ UNCHANGED <<model, events, lucky, header, mask, states, sampled>>
  BY DEF EnumInv, SelectCrashPoints
<1>2. events \in Traces
  BY DEF TypeInv, TypeOK
<1>3. /\ Selected' = Selected
      /\ \A d : Limit(d)' = Limit(d)
      /\ \A d, m : Tried(d, m)' = Tried(d, m)
  BY <1>1, SameRun
<1>4. Left' = Selected /\ LeftRises'
  BY <1>1, <1>2, <1>3, SelectedSorts
<1>5. \A d : From(states, d)' = {}
  <2>1. \A d : From(<<>>, d) = {}
    BY NothingYet
  <2>2. \A d : From(states, d)' = From(<<>>, d)
    BY <1>1 DEF From
  <2> QED
    BY <2>1, <2>2
<1>6. (Distinct(states))' /\ (InOrder(states))'
  <2>1. states' = <<>> /\ DOMAIN <<>> = {}
    BY <1>1, EmptySeq
  <2> QED
    BY <2>1 DEF Distinct, InOrder
<1>7. ASSUME todo' # <<>>
      PROVE  (From(states, Head(todo)) = Tried(Head(todo), mask))' /\ ~(mask >= Limit(Head(todo)))'
  <2>1. s \in Seq(Selected) /\ Selected \subseteq Calls
    BY <1>2, SelectedTyped
  <2>2. Head(todo)' \in Calls
    <3> HIDE DEF s
    <3> QED
      BY <1>1, <1>7, <2>1
  <2>3. \A d \in Calls : Limit(d) > 0 /\ Limit(d) \in Nat
    BY <1>2, Turns
  <2>4. \A d : Tried(d, 0) = {}
    BY NothingYet
  <2>5. mask' = 0 /\ (From(states, Head(todo)))' = {}
    <3> DEFINE h == Head(todo)
    <3>1. \A d : {states'[k] : k \in {l \in DOMAIN states' : states'[l].crashPoint = d}} = {}
      BY <1>5 DEF From
    <3> QED
      BY <1>1, <3>1 DEF From
  <2>6. (Tried(Head(todo), mask))' = {}
    <3>1. \A d : Tried(d, 0)' = {}
      BY <1>3, <2>4
    <3> QED
      BY <1>1, <3>1 DEF Tried
  <2>7. (Limit(Head(todo)))' > 0 /\ (Limit(Head(todo)))' \in Nat
    <3>1. \A d \in Calls : Limit(d)' > 0 /\ Limit(d)' \in Nat
      BY <1>3, <2>3
    <3> QED
      BY <2>2, <3>1 DEF Limit, Masks
  <2> QED
    BY <2>5, <2>6, <2>7
<1> QED
  BY <1>3, <1>4, <1>5, <1>6, <1>7 DEF Emitting

(* Going to the next crash point leaves the last one complete.             *)
LEMMA FinishEmits ==
    ASSUME TypeInv, WindowFits, Emitting, FinishCrashPoint
    PROVE  Emitting'
<1> DEFINE c == Head(todo)
<1>1. /\ todo # <<>> /\ todo' = Tail(todo) /\ mask' = 0
      /\ IF model.totalOrder THEN mask > Cardinality(Issued(events, c)) ELSE mask >= Masks(c)
      /\ UNCHANGED <<model, events, lucky, header, phase, points, states, sampled>>
  BY DEF FinishCrashPoint
<1>2. events \in Traces /\ mask \in Nat
  BY DEF TypeInv, TypeOK
<1>3. c \in Selected /\ c \in Calls /\ Selected \subseteq Calls
  BY <1>1, <1>2, HeadSelected, SelectedTyped
<1>4. /\ Selected' = Selected
      /\ \A d : Limit(d)' = Limit(d)
      /\ \A d, m : Tried(d, m)' = Tried(d, m)
      /\ \A ss, d : Opens(ss, d)' <=> Opens(ss, d)
      /\ \A ss, d : Closes(ss, d)' <=> Closes(ss, d)
  BY <1>1, SameRun
<1>5. mask >= Limit(c)
  <2>1. Cardinality(Issued(events, c)) \in Nat
    BY <1>2, <1>3, IssuedRises
  <2> QED
    BY <1>1, <1>2, <2>1 DEF Limit
<1>6. Tried(c, mask) = StatesAt(events, c, model)
  BY <1>2, <1>3, <1>5, AllTried
<1>7. From(states, c) = StatesAt(events, c, model) /\ Closes(states, c)
  BY <1>1, <1>5, <1>6 DEF Emitting
<1>8. /\ Left' = Left \ {c} /\ c \in Left
      /\ LeftRises'
      /\ todo' # <<>> => Head(todo)' \in Left' /\ Head(todo)' \in Left /\ Head(todo)' # c
  BY <1>1, <1>4, HeadLeaves DEF Emitting
<1> HIDE DEF c
<1>9. ASSUME NEW d \in Selected
      PROVE  /\ From(states, d) # {} => Opens(states, d)
             /\ d \notin Left' => From(states, d) = StatesAt(events, d, model) /\ Closes(states, d)
             /\ d \in Left' => From(states, d) = {}
  <2>1. /\ From(states, d) # {} => Opens(states, d)
        /\ d \notin Left => From(states, d) = StatesAt(events, d, model) /\ Closes(states, d)
        /\ (d \in Left /\ d # c) => From(states, d) = {}
    BY DEF Emitting, c
  <2> QED
    BY <1>7, <1>8, <2>1
<1>10. \A d : From(states, d)' = From(states, d)
  BY <1>1 DEF From
<1>11. (Distinct(states))' /\ (InOrder(states))'
  BY <1>1 DEF Emitting, Distinct, InOrder
<1>12. \A d : /\ (Opens(states, d))' <=> Opens(states, d)
              /\ (Closes(states, d))' <=> Closes(states, d)
  BY <1>1 DEF Opens, Closes
<1>13. StatesAt(events', c, model') = StatesAt(events, c, model)
  BY <1>1
<1>14. ASSUME todo' # <<>>
       PROVE  (From(states, Head(todo)) = Tried(Head(todo), mask))' /\ ~(mask >= Limit(Head(todo)))'
  <2>0. PICK h : h = Head(todo')
    OBVIOUS
  <2>1. h \in Selected /\ h \in Calls /\ h \in Left'
    <3>1. \A x \in Left : x \in Selected
      BY DEF Left, TypeInv
    <3> QED
      BY <1>3, <1>8, <1>14, <2>0, <3>1
  <2>2. From(states, h) = {}
    BY <1>9, <2>1
  <2>3. Tried(h, 0) = {}
    BY NothingYet
  <2>4. Limit(h) > 0 /\ Limit(h) \in Nat
    BY <1>2, <2>1, Turns
  <2>5. (From(states, Head(todo)))' = From(states, h)
    BY <1>1, <2>0 DEF From
  <2>6. (Tried(Head(todo), mask))' = Tried(h, 0)
    <3>1. \A d : Tried(d, 0)' = Tried(d, 0)
      BY <1>4
    <3>2. (Tried(Head(todo), mask))' = Tried(h, 0)'
      BY <1>1, <2>0 DEF Tried, Limit, Masks
    <3> QED
      BY <3>1, <3>2
  <2>7. (Limit(Head(todo)))' = Limit(h)
    <3>1. (Limit(Head(todo)))' = (Limit(h))'
      BY <2>0 DEF Limit, Masks
    <3> QED
      BY <1>4, <3>1
  <2>8. (From(states, Head(todo)) = Tried(Head(todo), mask))'
    BY <2>2, <2>3, <2>5, <2>6
  <2>9. (Limit(Head(todo)))' > 0 /\ (Limit(Head(todo)))' \in Nat
    BY <2>4, <2>7
  <2>10. ~(mask >= Limit(Head(todo)))'
    <3>1. mask' = 0
      BY <1>1
    <3> QED
      BY <2>9, <3>1
  <2> QED
    BY <2>8, <2>10
<1> QED
  BY <1>1, <1>4, <1>8, <1>9, <1>10, <1>11, <1>12, <1>14 DEF Emitting

(* A crash point whose last state is emitted has a state.                  *)
LEMMA ClosedIsSome ==
    ASSUME NEW ss, NEW c, Closes(ss, c)
    PROVE  CrashState(c, Issued(events, c), {}) \in From(ss, c)
<1>1. PICK k \in DOMAIN ss : ss[k] = CrashState(c, Issued(events, c), {})
  BY DEF Closes
<1>2. ss[k].crashPoint = c
  BY <1>1 DEF CrashState
<1> QED
  BY <1>1, <1>2 DEF From

(* With no crash point left the enumeration is complete.                   *)
LEMMA AllEmitted ==
    ASSUME Emitting, todo = <<>>
    PROVE  Enumerated
<1>1. Left = {}
  BY EmptySeq DEF Left
<1>2. ASSUME NEW c \in Selected
      PROVE  From(states, c) = StatesAt(events, c, model) /\ Opens(states, c) /\ Closes(states, c)
  <2>1. From(states, c) = StatesAt(events, c, model) /\ Closes(states, c)
    BY <1>1 DEF Emitting
  <2>2. From(states, c) # {}
    BY <2>1, ClosedIsSome
  <2> QED
    BY <2>1, <2>2 DEF Emitting
<1> QED
  BY <1>2 DEF Emitting, Enumerated

(* What the stages after the enumeration leave alone.                      *)
LEMMA EnumeratedStays ==
    ASSUME Enumerated, UNCHANGED <<model, events, lucky, states>>
    PROVE  Enumerated'
<1>1. Selected' = Selected
  BY SameRun
<1>2. \A d : From(states, d)' = From(states, d)
  BY DEF From
<1>3. \A d : /\ (Opens(states, d))' <=> Opens(states, d)
             /\ (Closes(states, d))' <=> Closes(states, d)
  BY DEF Opens, Closes
<1>4. (Distinct(states))' /\ (InOrder(states))'
  BY DEF Enumerated, Distinct, InOrder
<1> QED
  BY <1>1, <1>2, <1>3, <1>4 DEF Enumerated

(* A step that touches none of the enumeration keeps its invariant.        *)
LEMMA EmittingStays ==
    ASSUME Emitting, UNCHANGED <<model, events, lucky, states, todo, mask>>
    PROVE  Emitting'
<1>1. /\ Selected' = Selected
      /\ \A d : Limit(d)' = Limit(d)
      /\ \A d, m : Tried(d, m)' = Tried(d, m)
  BY SameRun
<1>2. \A d : From(states, d)' = From(states, d)
  BY DEF From
<1>3. \A d : /\ (Opens(states, d))' <=> Opens(states, d)
             /\ (Closes(states, d))' <=> Closes(states, d)
  BY DEF Opens, Closes
<1>4. (Distinct(states))' /\ (InOrder(states))'
  BY DEF Emitting, Distinct, InOrder
<1>5. Left' = Left /\ LeftRises'
  BY <1>1 DEF Emitting, Left, LeftRises
<1>6. ASSUME todo # <<>>
      PROVE  /\ (From(states, Head(todo)) = Tried(Head(todo), mask))'
             /\ (mask >= Limit(Head(todo)) => Closes(states, Head(todo)))'
  <2>1. /\ From(states, Head(todo)) = Tried(Head(todo), mask)
        /\ mask >= Limit(Head(todo)) => Closes(states, Head(todo))
    BY <1>6 DEF Emitting
  <2>2. PICK h : h = Head(todo)
    OBVIOUS
  <2>3. (From(states, Head(todo)))' = From(states, h)
    BY <2>2 DEF From
  <2>4. (Tried(Head(todo), mask))' = Tried(h, mask)
    <3>1. PICK m : m = mask
      OBVIOUS
    <3>2. Tried(h, m)' = Tried(h, m)
      BY <1>1
    <3>3. (Tried(Head(todo), mask))' = Tried(h, m)'
      BY <2>2, <3>1 DEF Tried, Limit, Masks
    <3> QED
      BY <3>1, <3>2, <3>3
  <2>5. (Limit(Head(todo)))' = Limit(h)
    <3>1. (Limit(Head(todo)))' = Limit(h)'
      BY <2>2 DEF Limit, Masks
    <3> QED
      BY <1>1, <3>1
  <2>6. (Closes(states, Head(todo)))' <=> Closes(states, h)
    <3>1. (Closes(states, Head(todo)))' <=> (Closes(states, h))'
      BY <2>2 DEF Closes
    <3> QED
      BY <1>3, <3>1
  <2>7. (From(states, Head(todo)) = Tried(Head(todo), mask))'
    BY <2>1, <2>2, <2>3, <2>4
  <2>8. (mask >= Limit(Head(todo)) => Closes(states, Head(todo)))'
    <3>1. mask' = mask
      OBVIOUS
    <3> QED
      BY <2>1, <2>2, <2>5, <2>6, <3>1
  <2> QED
    BY <2>7, <2>8
<1>7. \A c \in Selected :
           /\ From(states, c) # {} => Opens(states, c)
           /\ c \notin Left => From(states, c) = StatesAt(events, c, model) /\ Closes(states, c)
           /\ (c \in Left /\ c # Head(todo)) => From(states, c) = {}
  BY DEF Emitting
<1> QED
  BY <1>1, <1>2, <1>3, <1>4, <1>5, <1>6, <1>7 DEF Emitting

(* Every step keeps the invariant of the enumeration.                      *)
LEMMA EnumStep ==
    ASSUME TypeInv, WindowFits, EnumInv, [Next]_vars
    PROVE  EnumInv'
<1>1. CASE ParseTrace
  BY <1>1 DEF ParseTrace, EnumInv
<1>2. CASE SelectCrashPoints
  <2>1. /\ phase = "select" /\ phase' = "enumerate"
        /\ UNCHANGED <<mask, states, sampled>>
    BY <1>2 DEF SelectCrashPoints
  <2>2. Emitting'
    BY <1>2, SelectEmits
  <2> QED
    BY <2>1, <2>2 DEF EnumInv
<1>3. CASE TryMask \/ TryPrefix
  <2>1. Turn
    BY <1>3, TryIsTurn
  <2>2. phase = "enumerate" /\ phase' = phase /\ sampled' = sampled
    BY <2>1 DEF Turn
  <2>3. Emitting'
    BY <2>1, <2>2, TurnKeeps DEF EnumInv
  <2> QED
    BY <2>2, <2>3 DEF EnumInv
<1>4. CASE FinishCrashPoint
  <2>1. phase = "enumerate" /\ phase' = phase /\ sampled' = sampled
    BY <1>4 DEF FinishCrashPoint
  <2>2. Emitting'
    BY <1>4, <2>1, FinishEmits DEF EnumInv
  <2> QED
    BY <2>1, <2>2 DEF EnumInv
<1>5. CASE BeginSampling
  <2>1. /\ phase = "enumerate" /\ phase' = "sample" /\ todo = <<>>
        /\ UNCHANGED <<model, events, lucky, states>>
    BY <1>5 DEF BeginSampling
  <2>2. Enumerated
    BY <2>1, AllEmitted DEF EnumInv
  <2>3. Enumerated'
    BY <2>1, <2>2, EnumeratedStays
  <2> QED
    BY <2>1, <2>3 DEF EnumInv
<1>6. CASE SampleGroup \/ Finish
  <2>1. /\ phase = "sample" /\ phase' \in {"sample", "done"}
        /\ UNCHANGED <<model, events, lucky, states>>
    BY <1>6 DEF SampleGroup, Finish
  <2>2. Enumerated'
    BY <2>1, EnumeratedStays DEF EnumInv
  <2> QED
    BY <2>1, <2>2 DEF EnumInv
<1>7. CASE Done \/ UNCHANGED vars
  <2>1. UNCHANGED vars
    BY <1>7 DEF Done
  <2>2. UNCHANGED <<model, events, lucky, phase, todo, mask, states, sampled>>
    BY <2>1 DEF vars
  <2>3. Emitting => Emitting'
    BY <2>2, EmittingStays
  <2>4. Enumerated => Enumerated'
    BY <2>2, EnumeratedStays
  <2> QED
    BY <2>2, <2>3, <2>4 DEF EnumInv
<1> QED
  BY <1>1, <1>2, <1>3, <1>4, <1>5, <1>6, <1>7 DEF Next

(* The invariant of the enumeration always holds.                          *)
LEMMA EnumInvHolds == WindowFits => (Spec => []EnumInv)
<1>1. Init => EnumInv
  BY DEF Init, EnumInv
<1>2. ASSUME WindowFits PROVE TypeInv /\ EnumInv /\ [Next]_vars => EnumInv'
  BY <1>2, EnumStep
<1>3. CASE WindowFits
  BY <1>1, <1>2, <1>3, TypeInvHolds, PTL DEF Spec
<1> QED
  BY <1>3

(* The mask and prefix loops emit, for every selected crash point, exactly *)
(* the legal states, each of them once, whatever the trace, the seed and   *)
(* the model.                                                              *)
THEOREM EnumerationIsExact == WindowFits => (Spec => []EnumerationExact)
<1>1. EnumInv => EnumerationExact
  <2> SUFFICES ASSUME EnumInv, phase \in {"sample", "done"} PROVE EnumerationExact
    BY DEF EnumerationExact
  <2>1. Enumerated
    BY DEF EnumInv
  <2>2. \A cp : Emitted(cp) = From(states, cp)
    BY DEF Emitted, From
  <2> QED
    BY <2>1, <2>2 DEF Enumerated, Distinct, EnumerationExact
<1>2. CASE WindowFits
  BY <1>1, <1>2, EnumInvHolds, PTL
<1> QED
  BY <1>2

-----------------------------------------------------------------------------
(* The sample.                                                             *)

(* A crash point's sample is capped and has both boundaries.               *)
Bounded(ss, cp) ==
    /\ IsFiniteSet(From(ss, cp)) /\ Cardinality(From(ss, cp)) <= Cap
    /\ CrashState(cp, Issued(events, cp), {}) \in From(ss, cp)
    /\ \E low \in From(ss, cp) : /\ low.partial = {}
                                 /\ \A st \in StatesAt(events, cp, model) : low.persisted \subseteq st.persisted

(* Every state of ss is an enumerated one, of a crash point done with.     *)
Drawn(ss) ==
    \A k \in DOMAIN ss : /\ \E l \in DOMAIN states : states[l] = ss[k]
                         /\ ss[k].crashPoint \in Selected \ Left

(* ss keeps the order of the enumeration.                                  *)
Narrows(ss) ==
    \A k, l \in DOMAIN ss, a, b \in DOMAIN states :
        (k < l /\ states[a] = ss[k] /\ states[b] = ss[l]) => a < b

Sampling ==
    /\ LeftRises
    /\ Drawn(sampled) /\ Narrows(sampled)
    /\ \A c \in Selected \ Left : Bounded(sampled, c)

SampleInv ==
    /\ phase \in {"sample", "done"} => Sampling
    /\ phase = "done" => todo = <<>>

(* A group begins and ends with its crash point's first and last place.    *)
LEMMA GroupEnds ==
    ASSUME NEW c, states \in Seq(State),
           NEW first \in PlacesOf(c), NEW last \in PlacesOf(c),
           \A l \in PlacesOf(c) : first <= l /\ l <= last
    PROVE  /\ Len(Group(c)) \in Nat \ {0}
           /\ Group(c)[1] = first /\ Group(c)[Len(Group(c))] = last
<1> DEFINE P == PlacesOf(c)
           g == Group(c)
           n == Len(g)
<1>1. /\ g \in [1..n -> P] /\ n \in Nat /\ P \in SUBSET Nat
      /\ \A x \in P : \E k \in 1..n : g[k] = x
      /\ \A j, k \in 1..n : j < k <=> g[j] < g[k]
  <2>1. Rises(g, P) /\ Cardinality(P) \in Nat /\ n = Cardinality(P) /\ P \in SUBSET Nat
    BY GroupRises
  <2> HIDE DEF g, P, n
  <2> QED
    BY <2>1 DEF Rises
<1>2. first \in P /\ last \in P /\ \A l \in P : first <= l /\ l <= last
  OBVIOUS
<1> HIDE DEF P, g, n
<1>3. PICK i \in 1..n : g[i] = first
  BY <1>1, <1>2
<1>4. PICK j \in 1..n : g[j] = last
  BY <1>1, <1>2
<1>5. n # 0 /\ 1 \in 1..n /\ n \in 1..n
  BY <1>1
<1>6. /\ g[1] \in P /\ g[n] \in P /\ g[1] \in Nat /\ g[n] \in Nat /\ first \in Nat /\ last \in Nat
      /\ first <= g[1] /\ g[n] <= last
  BY <1>1, <1>2, <1>5
<1>7. ~(1 < i) /\ ~(j < n)
  BY <1>1, <1>3, <1>4, <1>5, <1>6
<1>8. i = 1 /\ j = n
  BY <1>1, <1>7
<1> QED
  BY <1>1, <1>3, <1>4, <1>5, <1>8 DEF g, n

(* m values are at most m.                                                 *)
LEMMA RangeCounts ==
    ASSUME NEW m \in Nat, NEW f, NEW T, T = {f[k] : k \in 1..m}
    PROVE  IsFiniteSet(T) /\ Cardinality(T) <= m
<1> DEFINE h == [k \in 1..m |-> f[k]]
<1>1. IsFiniteSet(1..m) /\ Cardinality(1..m) = m
  <2>1. 1 \in Int /\ m \in Int
    OBVIOUS
  <2>2. IsFiniteSet(1..m) /\ Cardinality(1..m) = IF 1 > m THEN 0 ELSE m - 1 + 1
    BY <2>1, FS_Interval
  <2> QED
    BY <2>2
<1>2. h \in Surjection(1..m, T)
  <2>1. h \in [1..m -> T]
    OBVIOUS
  <2>2. \A t \in T : \E k \in 1..m : h[k] = t
    OBVIOUS
  <2> HIDE DEF h
  <2> QED
    BY <2>1, <2>2 DEF Surjection
<1> HIDE DEF h
<1> QED
  BY <1>1, <1>2, FS_Surjection

(* What is taken of a group is capped and has both its boundaries.         *)
LEMMA TakenBounded ==
    ASSUME NEW c, states \in Seq(State), Opens(states, c), Closes(states, c),
           NEW K \in Keeps(Len(Group(c))), NEW q,
           \A k \in 1..Cardinality(K) : q[k] = states[Taken(c, K)[k]],
           NEW ss, From(ss, c) = {q[k] : k \in 1..Cardinality(K)}
    PROVE  Bounded(ss, c)
<1> DEFINE m == Cardinality(K)
           g == Group(c)
           F == From(ss, c)
<1>1. /\ m \in Nat /\ m <= Cap
      /\ \A i \in K : \E k \in 1..m : Taken(c, K)[k] = g[i]
  BY TakenRises
<1>2. IsFiniteSet(F) /\ Cardinality(F) <= m
  <2>1. F = {q[k] : k \in 1..m}
    OBVIOUS
  <2> HIDE DEF m, F
  <2> QED
    BY <1>1, <2>1, RangeCounts
<1>3. Cardinality(F) <= Cap
  <2>1. Cardinality(F) \in Nat
    BY <1>2, FS_CardinalityType
  <2>2. Cap \in Nat
    BY EnumerateAssumption DEF Cap
  <2> HIDE DEF F, m
  <2> QED
    BY <1>1, <1>2, <2>1, <2>2
<1>4. PICK first \in DOMAIN states :
          /\ states[first].crashPoint = c /\ states[first].partial = {}
          /\ \A l \in DOMAIN states : states[l].crashPoint = c => first <= l
          /\ \A st \in StatesAt(events, c, model) : states[first].persisted \subseteq st.persisted
  BY DEF Opens
<1>5. PICK last \in DOMAIN states :
          /\ states[last] = CrashState(c, Issued(events, c), {})
          /\ \A l \in DOMAIN states : states[l].crashPoint = c => l <= last
  BY DEF Closes
<1>6. first \in PlacesOf(c) /\ last \in PlacesOf(c)
  BY <1>4, <1>5 DEF PlacesOf, CrashState
<1>7. \A l \in PlacesOf(c) : first <= l /\ l <= last
  BY <1>4, <1>5 DEF PlacesOf
<1>8. Len(g) \in Nat \ {0} /\ g[1] = first /\ g[Len(g)] = last
  BY <1>6, <1>7, GroupEnds
<1>9. 1 \in K /\ Len(g) \in K
  <2> HIDE DEF g
  <2>1. K \in Keeps(Len(g)) /\ Len(g) > 0
    BY <1>8 DEF g
  <2> QED
    BY <1>8, <2>1, KeepsBoth
<1>10. states[first] \in F /\ states[last] \in F
  <2>1. PICK k \in 1..m : Taken(c, K)[k] = first
    BY <1>1, <1>8, <1>9
  <2>2. PICK l \in 1..m : Taken(c, K)[l] = last
    BY <1>1, <1>8, <1>9
  <2>3. q[k] = states[first] /\ q[l] = states[last]
    BY <2>1, <2>2
  <2> QED
    BY <2>3
<1> QED
  BY <1>2, <1>3, <1>4, <1>5, <1>10 DEF Bounded

(* Adding a group to the sample.                                           *)
LEMMA SampleKeeps ==
    ASSUME TypeInv, Enumerated, Sampling, SampleGroup
    PROVE  Sampling'
<1>1. /\ todo # <<>> /\ todo' = Tail(todo)
      /\ UNCHANGED <<model, events, lucky, header, phase, points, mask, states>>
  BY DEF SampleGroup
<1>2. /\ states \in Seq(State) /\ sampled \in Seq(State) /\ events \in Traces
      /\ DOMAIN states = 1..Len(states) /\ DOMAIN sampled = 1..Len(sampled) /\ Len(sampled) \in Nat
  BY LenProperties DEF TypeInv, TypeOK
<1>3. PICK c : c = Head(todo)
  OBVIOUS
<1>4. PICK K \in Keeps(Len(Group(c))), q \in Seq(State) :
          /\ Len(q) = Cardinality(K)
          /\ \A k \in 1..Cardinality(K) : q[k] = states[Taken(c, K)[k]]
          /\ sampled' = sampled \o q
  BY <1>3, SampleTakes
<1>5. c \in Selected /\ c \in Calls /\ c \in Nat
  <2>1. c \in Selected /\ c \in Calls
    BY <1>1, <1>3, HeadSelected
  <2> QED
    BY <1>2, <2>1, CallsTyped
<1>6. Selected' = Selected /\ \A d \in Selected : d \in Nat
  BY <1>1, <1>2, SameRun, SelectedTyped, CallsTyped
<1>7. Left' = Left \ {c} /\ c \in Left /\ LeftRises'
  BY <1>1, <1>3, <1>6, HeadLeaves DEF Sampling
<1> DEFINE m == Cardinality(K)
           f == Taken(c, K)
           n == Len(sampled)
<1>8. /\ m \in Nat
      /\ \A k \in 1..m : f[k] \in DOMAIN states /\ states[f[k]].crashPoint = c
      /\ \A j, k \in 1..m : j < k => f[j] < f[k]
  BY <1>2, TakenRises DEF PlacesOf
<1>9. \A k \in 1..m : q[k] = states[f[k]]
  BY <1>4
<1>10. n \in Nat /\ Len(q) = m
  BY <1>2, <1>4
<1> HIDE DEF m, f, n
<1>11. PICK tt : tt = sampled'
  OBVIOUS
<1>12. DOMAIN tt = 1..(n + m) /\ \A k \in 1..(n + m) : tt[k] = IF k <= n THEN sampled[k] ELSE q[k - n]
  <2>1. tt = sampled \o q
    BY <1>4, <1>11
  <2>2. /\ sampled \o q \in Seq(State) /\ Len(sampled \o q) = n + m
        /\ \A k \in 1..(n + m) : (sampled \o q)[k] = IF k <= n THEN sampled[k] ELSE q[k - n]
    BY <1>2, <1>4, <1>10, ConcatProperties DEF n
  <2>3. DOMAIN (sampled \o q) = 1..(n + m)
    BY <2>2, LenProperties
  <2> QED
    BY <2>1, <2>2, <2>3
<1>13. \A k \in DOMAIN tt :
           \/ k \in DOMAIN sampled /\ k <= n /\ tt[k] = sampled[k]
           \/ k > n /\ k - n \in 1..m /\ tt[k] = q[k - n]
  <2> SUFFICES ASSUME NEW k \in 1..(n + m)
               PROVE  \/ k \in DOMAIN sampled /\ k <= n /\ tt[k] = sampled[k]
                      \/ k > n /\ k - n \in 1..m /\ tt[k] = q[k - n]
    BY <1>12
  <2>1. CASE k <= n
    <3>1. k \in 1..n /\ DOMAIN sampled = 1..n
      BY <1>2, <1>8, <1>10, <2>1 DEF n
    <3> QED
      BY <1>12, <2>1, <3>1
  <2>2. CASE ~(k <= n)
    <3>1. k > n /\ k - n \in 1..m
      BY <1>8, <1>10, <2>2
    <3> QED
      BY <1>12, <2>2, <3>1
  <2> QED
    BY <2>1, <2>2
<1>14. /\ \A k \in DOMAIN sampled : k \in DOMAIN tt /\ tt[k] = sampled[k]
       /\ \A k \in 1..m : k + n \in DOMAIN tt /\ tt[k + n] = q[k]
  <2>1. \A k \in 1..n : k \in 1..(n + m) /\ k <= n
    BY <1>8, <1>10
  <2>2. \A k \in 1..m : k + n \in 1..(n + m) /\ ~(k + n <= n) /\ (k + n) - n = k
    BY <1>8, <1>10
  <2>3. DOMAIN sampled = 1..n
    BY <1>2 DEF n
  <2> QED
    BY <1>12, <2>1, <2>2, <2>3
<1>15. \A k \in 1..m : \E l \in DOMAIN states : states[l] = q[k] /\ q[k].crashPoint = c
  BY <1>8, <1>9
<1>16. \A k \in DOMAIN tt : /\ \E l \in DOMAIN states : states[l] = tt[k]
                            /\ tt[k].crashPoint \in Selected \ (Left \ {c})
  <2> SUFFICES ASSUME NEW k \in DOMAIN tt
               PROVE  /\ \E l \in DOMAIN states : states[l] = tt[k]
                      /\ tt[k].crashPoint \in Selected \ (Left \ {c})
    OBVIOUS
  <2>1. CASE k \in DOMAIN sampled /\ k <= n /\ tt[k] = sampled[k]
    BY <2>1 DEF Sampling, Drawn
  <2>2. CASE k > n /\ k - n \in 1..m /\ tt[k] = q[k - n]
    BY <1>5, <1>15, <2>2
  <2> QED
    BY <1>13, <2>1, <2>2
<1>17. ASSUME NEW k \in DOMAIN tt, NEW l \in DOMAIN tt, NEW a \in DOMAIN states, NEW b \in DOMAIN states,
              k < l, states[a] = tt[k], states[b] = tt[l]
       PROVE  a < b
  <2>1. k \in Nat /\ l \in Nat /\ a \in Nat /\ b \in Nat
    <3>1. k \in 1..(n + m) /\ l \in 1..(n + m)
      BY <1>12
    <3>2. a \in 1..Len(states) /\ b \in 1..Len(states)
      BY <1>2
    <3> QED
      BY <3>1, <3>2
  <2>2. CASE l \in DOMAIN sampled /\ l <= n /\ tt[l] = sampled[l]
    <3>1. k <= n
      BY <1>10, <1>17, <2>1, <2>2
    <3>2. k \in DOMAIN sampled /\ tt[k] = sampled[k]
      BY <1>10, <1>13, <2>1, <3>1
    <3> QED
      BY <1>17, <2>2, <3>2 DEF Sampling, Narrows
  <2>3. CASE l > n /\ l - n \in 1..m /\ tt[l] = q[l - n]
    <3>1. b = f[l - n]
      BY <1>8, <1>9, <1>17, <2>3 DEF Enumerated, Distinct
    <3>2. CASE k \in DOMAIN sampled /\ k <= n /\ tt[k] = sampled[k]
      <4>1. states[a].crashPoint \in Selected \ Left
        BY <1>17, <3>2 DEF Sampling, Drawn
      <4>2. states[a].crashPoint < c /\ states[a].crashPoint \in Nat
        BY <1>6, <1>7, <4>1 DEF Sampling, LeftRises
      <4>3. states[b].crashPoint = c
        BY <1>8, <2>3, <3>1
      <4>4. b < a => states[b].crashPoint <= states[a].crashPoint
        BY DEF Enumerated, InOrder
      <4>5. a # b /\ ~(b < a)
        BY <1>5, <4>2, <4>3, <4>4
      <4> QED
        BY <2>1, <4>5
    <3>3. CASE k > n /\ k - n \in 1..m /\ tt[k] = q[k - n]
      <4>1. a = f[k - n]
        BY <1>8, <1>9, <1>17, <3>3 DEF Enumerated, Distinct
      <4>2. k - n < l - n
        BY <1>10, <1>17, <2>1
      <4> QED
        BY <1>8, <2>3, <3>1, <3>3, <4>1, <4>2
    <3> QED
      BY <1>13, <3>2, <3>3
  <2> QED
    BY <1>13, <2>2, <2>3
<1>18. ASSUME NEW d, d # c PROVE From(tt, d) = From(sampled, d)
  <2>1. ASSUME NEW x \in From(tt, d) PROVE x \in From(sampled, d)
    <3>1. PICK k \in DOMAIN tt : x = tt[k] /\ tt[k].crashPoint = d
      BY <2>1 DEF From
    <3>2. ~(k > n /\ k - n \in 1..m /\ tt[k] = q[k - n])
      BY <1>15, <1>18, <3>1
    <3>3. k \in DOMAIN sampled /\ tt[k] = sampled[k]
      BY <1>13, <3>2
    <3> QED
      BY <3>1, <3>3 DEF From
  <2>2. ASSUME NEW x \in From(sampled, d) PROVE x \in From(tt, d)
    <3>1. PICK k \in DOMAIN sampled : x = sampled[k] /\ sampled[k].crashPoint = d
      BY <2>2 DEF From
    <3> QED
      BY <1>14, <3>1 DEF From
  <2> QED
    BY <2>1, <2>2
<1>19. From(tt, c) = {q[k] : k \in 1..m}
  <2>1. ASSUME NEW x \in From(tt, c) PROVE x \in {q[k] : k \in 1..m}
    <3>1. PICK k \in DOMAIN tt : x = tt[k] /\ tt[k].crashPoint = c
      BY <2>1 DEF From
    <3>2. ~(k \in DOMAIN sampled /\ tt[k] = sampled[k])
      BY <1>7, <3>1 DEF Sampling, Drawn
    <3>3. k - n \in 1..m /\ tt[k] = q[k - n]
      BY <1>13, <3>2
    <3> QED
      BY <3>1, <3>3
  <2>2. ASSUME NEW k \in 1..m PROVE q[k] \in From(tt, c)
    <3>1. q[k].crashPoint = c
      BY <1>15
    <3> QED
      BY <1>14, <3>1 DEF From
  <2> QED
    BY <2>1, <2>2
<1>20. Bounded(tt, c)
  <2>1. Opens(states, c) /\ Closes(states, c)
    BY <1>5 DEF Enumerated
  <2>2. From(tt, c) = {q[k] : k \in 1..Cardinality(K)}
    BY <1>19 DEF m
  <2>3. \A k \in 1..Cardinality(K) : q[k] = states[Taken(c, K)[k]]
    BY <1>4
  <2>4. states \in Seq(State)
    BY <1>2
  <2> QED
    BY <2>1, <2>2, <2>3, <2>4, TakenBounded
<1>21. \A d \in Selected \ (Left \ {c}) : Bounded(tt, d)
  <2> SUFFICES ASSUME NEW d \in Selected \ (Left \ {c}) PROVE Bounded(tt, d)
    OBVIOUS
  <2>1. CASE d = c
    BY <1>20, <2>1
  <2>2. CASE d # c
    <3>1. Bounded(sampled, d) /\ From(tt, d) = From(sampled, d)
      BY <1>18, <2>2 DEF Sampling
    <3> QED
      BY <3>1 DEF Bounded
  <2> QED
    BY <2>1, <2>2
<1>22. \A d : Bounded(tt, d)' <=> Bounded(tt, d)
  BY <1>1 DEF Bounded
<1>23. \A d : Bounded(sampled, d)' <=> Bounded(tt, d)'
  BY <1>11 DEF Bounded, From
<1>24. Selected' \ Left' = Selected \ (Left \ {c})
  BY <1>6, <1>7
<1>25. (\A d \in Selected \ Left : Bounded(sampled, d))'
  BY <1>21, <1>22, <1>23, <1>24
<1>26. Drawn(sampled)' /\ Narrows(sampled)'
  BY <1>1, <1>11, <1>16, <1>17, <1>24 DEF Drawn, Narrows
<1> QED
  BY <1>7, <1>25, <1>26 DEF Sampling

(* Sampling starts with every selected crash point left.                   *)
LEMMA SamplingStarts ==
    ASSUME TypeInv, Enumerated, sampled = <<>>, BeginSampling
    PROVE  Sampling'
<1>1. /\ todo' = Ascending({states[k].crashPoint : k \in DOMAIN states})
      /\ UNCHANGED <<model, events, lucky, header, points, mask, states, sampled>>
  BY DEF BeginSampling
<1>2. {states[k].crashPoint : k \in DOMAIN states} = Selected
  <2>1. ASSUME NEW c \in Selected PROVE \E k \in DOMAIN states : states[k].crashPoint = c
    <3>1. CrashState(c, Issued(events, c), {}) \in From(states, c)
      BY ClosedIsSome DEF Enumerated
    <3> QED
      BY <3>1 DEF From
  <2> QED
    BY <2>1, GroupsSelected
<1>3. events \in Traces
  BY DEF TypeInv, TypeOK
<1>4. Selected' = Selected
  BY <1>1, SameRun
<1>5. Left' = Selected /\ LeftRises'
  BY <1>1, <1>2, <1>3, <1>4, SelectedSorts
<1>6. sampled' = <<>> /\ DOMAIN <<>> = {}
  BY <1>1, EmptySeq
<1>7. Drawn(sampled)' /\ Narrows(sampled)'
  BY <1>6 DEF Drawn, Narrows
<1> QED
  BY <1>4, <1>5, <1>7 DEF Sampling

(* A step that touches none of the sample keeps its invariant.             *)
LEMMA SamplingStays ==
    ASSUME Sampling, UNCHANGED <<model, events, lucky, states, todo, sampled>>
    PROVE  Sampling'
<1>1. Selected' = Selected
  BY SameRun
<1>2. Left' = Left /\ LeftRises'
  BY <1>1 DEF Sampling, Left, LeftRises
<1>3. Drawn(sampled)' /\ Narrows(sampled)'
  BY <1>1, <1>2 DEF Sampling, Drawn, Narrows
<1>4. \A d : Bounded(sampled, d)' <=> Bounded(sampled, d)
  BY DEF Bounded, From
<1> QED
  BY <1>1, <1>2, <1>3, <1>4 DEF Sampling

(* Every step keeps the invariant of the sample.                           *)
LEMMA SampleStep ==
    ASSUME TypeInv, WindowFits, EnumInv, SampleInv, [Next]_vars
    PROVE  SampleInv'
<1>1. CASE ParseTrace \/ SelectCrashPoints
  BY <1>1 DEF ParseTrace, SelectCrashPoints, SampleInv
<1>2. CASE TryMask \/ TryPrefix \/ FinishCrashPoint
  BY <1>2 DEF TryMask, TryPrefix, FinishCrashPoint, SampleInv
<1>3. CASE BeginSampling
  <2>1. phase = "enumerate" /\ phase' = "sample" /\ todo = <<>>
    BY <1>3 DEF BeginSampling
  <2>2. Enumerated /\ sampled = <<>>
    BY <2>1, AllEmitted DEF EnumInv
  <2>3. Sampling'
    BY <1>3, <2>2, SamplingStarts
  <2> QED
    BY <2>1, <2>3 DEF SampleInv
<1>4. CASE SampleGroup
  <2>1. phase = "sample" /\ phase' = phase
    BY <1>4 DEF SampleGroup
  <2>2. Sampling'
    BY <1>4, <2>1, SampleKeeps DEF EnumInv, SampleInv
  <2> QED
    BY <2>1, <2>2 DEF SampleInv
<1>5. CASE Finish
  <2>1. /\ phase = "sample" /\ phase' = "done" /\ todo = <<>>
        /\ UNCHANGED <<model, events, lucky, states, todo, sampled>>
    BY <1>5 DEF Finish
  <2>2. Sampling'
    BY <2>1, SamplingStays DEF SampleInv
  <2> QED
    BY <2>1, <2>2 DEF SampleInv
<1>6. CASE Done \/ UNCHANGED vars
  <2>1. UNCHANGED <<model, events, lucky, phase, states, todo, sampled>>
    BY <1>6 DEF Done, vars
  <2>2. Sampling => Sampling'
    BY <2>1, SamplingStays
  <2> QED
    BY <2>1, <2>2 DEF SampleInv
<1> QED
  BY <1>1, <1>2, <1>3, <1>4, <1>5, <1>6 DEF Next

(* The invariant of the sample always holds.                               *)
LEMMA SampleInvHolds == WindowFits => (Spec => []SampleInv)
<1>1. Init => SampleInv
  BY DEF Init, SampleInv
<1>2. ASSUME WindowFits PROVE TypeInv /\ EnumInv /\ SampleInv /\ [Next]_vars => SampleInv'
  BY <1>2, SampleStep
<1>3. CASE WindowFits
  BY <1>1, <1>2, <1>3, TypeInvHolds, EnumInvHolds, PTL DEF Spec
<1> QED
  BY <1>3

(* When the run is done no crash point is left.                            *)
LEMMA SampleComplete ==
    ASSUME EnumInv, SampleInv, phase = "done"
    PROVE  /\ Enumerated /\ Drawn(sampled) /\ Narrows(sampled)
           /\ \A c \in Selected : Bounded(sampled, c)
           /\ \A c : Sample(c) = From(sampled, c) /\ Emitted(c) = From(states, c)
<1>1. Sampling /\ todo = <<>> /\ Enumerated
  BY DEF EnumInv, SampleInv
<1>2. Left = {}
  BY <1>1, EmptySeq DEF Left
<1>3. \A c : Sample(c) = From(sampled, c) /\ Emitted(c) = From(states, c)
  BY DEF Sample, Emitted, From
<1> QED
  BY <1>1, <1>2, <1>3 DEF Sampling

(* Whatever the cap and the seed, the sample is a subsequence of what was  *)
(* enumerated, capped, with both boundaries of every selected crash point. *)
THEOREM SampleIsSound == WindowFits => (Spec => []SamplingIsSound)
<1>1. EnumInv /\ SampleInv => SamplingIsSound
  <2> SUFFICES ASSUME EnumInv, SampleInv, phase = "done"
               PROVE  SampleIsSubsequence /\ BoundariesTested
    BY DEF SamplingIsSound
  <2>1. /\ Enumerated /\ Drawn(sampled) /\ Narrows(sampled)
        /\ \A c \in Selected : Bounded(sampled, c)
        /\ \A c : Sample(c) = From(sampled, c) /\ Emitted(c) = From(states, c)
    BY SampleComplete
  <2>2. \A c \in Selected : Emitted(c) = StatesAt(events, c, model)
    BY <2>1 DEF Enumerated
  <2>3. BoundariesTested
    BY <2>1, <2>2 DEF BoundariesTested, Bounded
  <2>4. SampleIsSubsequence
    <3> DEFINE at(k) == CHOOSE l \in DOMAIN states : states[l] = sampled[k]
    <3>1. \A cp \in Selected : Cardinality(Sample(cp)) <= IF MaxStatesPerCrashPoint > 2
                                                          THEN MaxStatesPerCrashPoint ELSE 2
      BY <2>1 DEF Bounded, Cap
    <3>2. \A k \in DOMAIN sampled : \E l \in DOMAIN states : states[l] = sampled[k]
      BY <2>1 DEF Drawn
    <3>3. \A k \in DOMAIN sampled : at(k) \in DOMAIN states /\ states[at(k)] = sampled[k]
      BY <3>2
    <3>4. \A k, l \in DOMAIN sampled : k < l => at(k) < at(l)
      <4> HIDE DEF at
      <4> QED
        BY <2>1, <3>3 DEF Narrows
    <3> QED
      BY <3>1, <3>2, <3>4 DEF SampleIsSubsequence
  <2> QED
    BY <2>3, <2>4
<1>2. CASE WindowFits
  BY <1>1, <1>2, EnumInvHolds, SampleInvHolds, PTL
<1> QED
  BY <1>2

(* Every instant between a persistence call and the call after it is       *)
(* tested, and a trace that never persists is tested everywhere.           *)
THEOREM PersistencePointsAreTested == WindowFits => (Spec => []PersistencePointsTested)
<1>1. EnumInv /\ SampleInv => PersistencePointsTested
  <2> SUFFICES ASSUME EnumInv, SampleInv, phase = "done", NEW i \in Calls,
                      \/ Persists(events[i])
                      \/ i > 1 /\ Persists(events[i-1])
                      \/ \A j \in Calls : ~Persists(events[j])
               PROVE  Sample(i) # {}
    BY DEF PersistencePointsTested
  <2>1. i \in Selected
    BY DEF Selected
  <2> QED
    BY <2>1, SampleComplete DEF Bounded
<1>2. CASE WindowFits
  BY <1>1, <1>2, EnumInvHolds, SampleInvHolds, PTL
<1> QED
  BY <1>2

==============================================================================
