----------------------------- MODULE Induction -----------------------------
(***************************************************************************)
(* Induction over the natural numbers, stated for a set and not for a      *)
(* predicate, so that a proof can apply it to the set of the numbers of    *)
(* which its claim is true; and what follows of sorting and of sums.       *)
(***************************************************************************)
EXTENDS Integers, FiniteSets, FiniteSetTheorems, WellFoundedInduction, TLAPS

Before == {pair \in Nat \X Nat : pair[1] < pair[2]}

\* The order of the natural numbers has no infinite descent.
LEMMA BeforeWellFounded ==
  IsWellFoundedOn(Before, Nat)
BY NatLessThanWellFounded DEF OpToRel, Before

\* A set of natural numbers that is not empty has a least element.
LEMMA LeastElement ==
  ASSUME NEW T, T \subseteq Nat, T # {}
  PROVE  \E x \in T : \A y \in T : x <= y
<1>1. PICK x \in T : \A y \in T : ~ (<<y, x>> \in Before)
  BY BeforeWellFounded, WFMin, Zenon
<1>2. \A i, j \in Nat : i < j => <<i, j>> \in Before
  BY DEF Before
<1>3. ASSUME NEW y \in T PROVE x <= y
  <2>1. ~ (y < x)
    BY <1>1, <1>2
  <2> QED
    BY <2>1
<1> QED
  BY <1>3

\* A set that has 0, and with a number the next one, has all of them.
LEMMA SetInduction ==
  ASSUME NEW T, 0 \in T, \A n \in Nat : n \in T => n + 1 \in T
  PROVE  \A n \in Nat : n \in T
<1> SUFFICES ASSUME NEW m \in Nat, m \notin T PROVE FALSE
  OBVIOUS
<1>1. PICK x \in Nat \ T : \A y \in Nat \ T : x <= y
  BY LeastElement
<1>2. x # 0
  OBVIOUS
<1>3. x - 1 \in Nat /\ x - 1 \in T
  BY <1>1, <1>2
<1>4. (x - 1) + 1 \in T
  BY <1>3
<1>5. (x - 1) + 1 = x
  OBVIOUS
<1> QED
  BY <1>4, <1>5

-----------------------------------------------------------------------------
(* Sorting *)

IsSorting(s, S, key) ==
  /\ s \in [1..Cardinality(S) -> S]
  /\ \A i, j \in 1..Cardinality(S) : i < j => s[i] # s[j] /\ key[s[i]] <= key[s[j]]

\* A finite set has an element with the least key.
LEMMA LeastKey ==
  ASSUME NEW S, NEW key \in [S -> Nat], S # {}
  PROVE  \E x \in S : \A y \in S : key[x] <= key[y]
<1> DEFINE keys == {key[x] : x \in S}
<1>1. keys \subseteq Nat /\ keys # {}
  OBVIOUS
<1>2. PICK k \in keys : \A l \in keys : k <= l
  BY <1>1, LeastElement
<1> QED
  BY <1>2

\* The least of a set stands before a sorting of the others.
LEMMA SortingExtends ==
  ASSUME NEW S, IsFiniteSet(S), NEW key \in [S -> Nat], NEW x \in S,
         \A y \in S : key[x] <= key[y],
         NEW r, IsSorting(r, S \ {x}, key)
  PROVE  \E s : IsSorting(s, S, key)
<1> DEFINE n == Cardinality(S)
           s == [i \in 1..n |-> IF i = 1 THEN x ELSE r[i - 1]]
<1>1. n \in Nat /\ Cardinality(S \ {x}) = n - 1 /\ n - 1 \in Nat
  <2>1. n \in Nat /\ n # 0
    BY FS_CardinalityType, FS_EmptySet
  <2>2. Cardinality(S \ {x}) = n - 1
    BY FS_RemoveElement
  <2> QED
    BY <2>1, <2>2
<1>2. \A i \in 2..n : i - 1 \in 1..(n - 1) /\ s[i] = r[i - 1] /\ s[i] \in S \ {x}
  <2>1. r \in [1..(n - 1) -> S \ {x}]
    BY <1>1 DEF IsSorting
  <2>2. \A i \in 2..n : i - 1 \in 1..(n - 1) /\ s[i] = r[i - 1]
    BY <1>1
  <2> QED
    BY <2>1, <2>2
<1>3. s \in [1..n -> S]
  <2>1. \A i \in 1..n : i = 1 \/ i \in 2..n
    BY <1>1
  <2> QED
    BY <1>2, <2>1
<1>4. ASSUME NEW i \in 1..n, NEW j \in 1..n, i < j
      PROVE  s[i] # s[j] /\ key[s[i]] <= key[s[j]]
  <2>1. j \in 2..n
    BY <1>1, <1>4
  <2>2. CASE i = 1
    <3>1. s[i] = x /\ s[j] \in S \ {x}
      BY <1>2, <2>1, <2>2
    <3> QED
      BY <3>1
  <2>3. CASE i # 1
    <3>1. i \in 2..n /\ i - 1 < j - 1
      BY <1>1, <1>4, <2>3
    <3>2. r[i - 1] # r[j - 1] /\ key[r[i - 1]] <= key[r[j - 1]]
      BY <1>1, <1>2, <2>1, <3>1 DEF IsSorting
    <3> QED
      BY <1>2, <2>1, <3>1, <3>2
  <2> QED
    BY <2>2, <2>3
<1>5. IsSorting(s, S, key)
  BY <1>3, <1>4 DEF IsSorting
<1> QED
  BY <1>5

\* Every finite set can be put into the order of its keys.
LEMMA SortingExists ==
  ASSUME NEW S, IsFiniteSet(S), NEW key \in [S -> Nat]
  PROVE  \E s : IsSorting(s, S, key)
<1> DEFINE T == {n \in Nat : \A R \in SUBSET S : Cardinality(R) = n => \E s : IsSorting(s, R, key)}
<1>1. 0 \in T
  <2> SUFFICES ASSUME NEW R \in SUBSET S, Cardinality(R) = 0
               PROVE  \E s : IsSorting(s, R, key)
    OBVIOUS
  <2>1. IsFiniteSet(R) /\ R = {}
    BY FS_Subset, FS_EmptySet
  <2>2. IsSorting([i \in 1..0 |-> i], R, key)
    BY <2>1 DEF IsSorting
  <2> QED
    BY <2>2
<1>2. ASSUME NEW n \in Nat, n \in T PROVE n + 1 \in T
  <2> SUFFICES ASSUME NEW R \in SUBSET S, Cardinality(R) = n + 1
               PROVE  \E s : IsSorting(s, R, key)
    OBVIOUS
  <2>1. IsFiniteSet(R) /\ R # {}
    BY FS_Subset, FS_EmptySet
  <2> DEFINE k == [y \in R |-> key[y]]
  <2>2. k \in [R -> Nat]
    OBVIOUS
  <2>3. PICK x \in R : \A y \in R : k[x] <= k[y]
    BY <2>1, <2>2, LeastKey
  <2>4. Cardinality(R \ {x}) = n /\ R \ {x} \in SUBSET S
    <3>1. Cardinality(R \ {x}) = Cardinality(R) - 1
      BY <2>1, FS_RemoveElement
    <3> QED
      BY <3>1
  <2>5. PICK r : IsSorting(r, R \ {x}, key)
    BY <1>2, <2>4
  <2>6. IsSorting(r, R \ {x}, k)
    BY <2>4, <2>5 DEF IsSorting
  <2>7. PICK s : IsSorting(s, R, k)
    BY <2>1, <2>2, <2>3, <2>6, SortingExtends
  <2>8. IsSorting(s, R, key)
    BY <2>7 DEF IsSorting
  <2> QED
    BY <2>8
<1>3. \A n \in Nat : n \in T
  <2> HIDE DEF T
  <2> QED
    BY <1>1, <1>2, SetInduction
<1>4. Cardinality(S) \in Nat
  BY FS_CardinalityType
<1> QED
  BY <1>3, <1>4
-----------------------------------------------------------------------------
(* Sums                                                                     *)

\* f has the sums of the first numbers of w.
AreSums(f, w, n) == f = [k \in 0..n |-> IF k = 0 THEN 0 ELSE f[k - 1] + w[k]]

\* A sequence of numbers has its sums.
LEMMA SumsExist ==
  ASSUME NEW n \in Nat, NEW w \in [1..n -> Nat]
  PROVE  \E f : AreSums(f, w, n) /\ f \in [0..n -> Nat]
<1> DEFINE T == {m \in Nat : m <= n => \E f : AreSums(f, w, m) /\ f \in [0..m -> Nat]}
<1>1. 0 \in T
  <2>1. AreSums([k \in 0..0 |-> 0], w, 0) /\ [k \in 0..0 |-> 0] \in [0..0 -> Nat]
    BY DEF AreSums
  <2> QED
    BY <2>1
<1>2. ASSUME NEW m \in Nat, m \in T PROVE m + 1 \in T
  <2> SUFFICES ASSUME m + 1 <= n
               PROVE  \E f : AreSums(f, w, m + 1) /\ f \in [0..(m + 1) -> Nat]
    OBVIOUS
  <2>1. PICK f : AreSums(f, w, m) /\ f \in [0..m -> Nat]
    BY <1>2
  <2> DEFINE g == [k \in 0..(m + 1) |-> IF k = m + 1 THEN f[m] + w[m + 1] ELSE f[k]]
  <2>2. w[m + 1] \in Nat /\ f[m] \in Nat
    BY <2>1
  <2>3. g \in [0..(m + 1) -> Nat]
    <3>1. \A k \in 0..(m + 1) : k = m + 1 \/ k \in 0..m
      OBVIOUS
    <3> QED
      BY <2>1, <2>2, <3>1
  <2>4. \A k \in 0..(m + 1) : g[k] = IF k = 0 THEN 0 ELSE g[k - 1] + w[k]
    <3> SUFFICES ASSUME NEW k \in 0..(m + 1)
                 PROVE  g[k] = IF k = 0 THEN 0 ELSE g[k - 1] + w[k]
      OBVIOUS
    <3>1. CASE k = m + 1
      <4>1. k # 0 /\ k - 1 = m /\ g[m] = f[m]
        BY <3>1
      <4> QED
        BY <3>1, <4>1
    <3>2. CASE k # m + 1
      <4>1. k \in 0..m /\ g[k] = f[k]
        BY <3>2
      <4>2. f[k] = IF k = 0 THEN 0 ELSE f[k - 1] + w[k]
        BY <2>1, <4>1 DEF AreSums
      <4>3. k # 0 => k - 1 \in 0..(m + 1) /\ k - 1 # m + 1
        BY <4>1
      <4>4. k # 0 => g[k - 1] = f[k - 1]
        BY <4>3
      <4> QED
        BY <4>1, <4>2, <4>4
    <3> QED
      BY <3>1, <3>2
  <2>5. AreSums(g, w, m + 1)
    BY <2>4 DEF AreSums
  <2> QED
    BY <2>3, <2>5
<1>3. n \in T
  <2> HIDE DEF T
  <2> QED
    BY <1>1, <1>2, SetInduction
<1> QED
  BY <1>3

\* The sums of two sequences agree as far as the sequences do.
LEMMA SumsAgree ==
  ASSUME NEW n \in Nat, NEW m \in Nat, NEW v, NEW w, NEW f, NEW g,
         n <= m, AreSums(f, v, n), AreSums(g, w, m), \A k \in 1..n : v[k] = w[k]
  PROVE  f[n] = g[n]
<1> DEFINE T == {k \in Nat : k <= n => f[k] = g[k]}
<1>1. 0 \in T
  BY DEF AreSums
<1>2. ASSUME NEW k \in Nat, k \in T PROVE k + 1 \in T
  <2> SUFFICES ASSUME k + 1 <= n PROVE f[k + 1] = g[k + 1]
    OBVIOUS
  <2>1. f[k] = g[k] /\ v[k + 1] = w[k + 1]
    BY <1>2
  <2>2. k + 1 \in 0..n /\ k + 1 \in 0..m /\ k + 1 # 0 /\ (k + 1) - 1 = k
    OBVIOUS
  <2>3. f[k + 1] = f[k] + v[k + 1]
    BY <2>2 DEF AreSums
  <2>4. g[k + 1] = g[k] + w[k + 1]
    BY <2>2 DEF AreSums
  <2> QED
    BY <2>1, <2>3, <2>4
<1>3. n \in T
  <2> HIDE DEF T
  <2> QED
    BY <1>1, <1>2, SetInduction
<1> QED
  BY <1>3

\* A sequence has one sum.
LEMMA SumsUnique ==
  ASSUME NEW n \in Nat, NEW w, NEW f, NEW g, AreSums(f, w, n), AreSums(g, w, n)
  PROVE  f[n] = g[n]
<1>1. n <= n /\ \A k \in 1..n : w[k] = w[k]
  OBVIOUS
<1> QED
  BY <1>1, SumsAgree

\* One more number is one more sum.
LEMMA SumsExtend ==
  ASSUME NEW n \in Nat, NEW m \in Nat, NEW v, NEW w, NEW f, NEW g,
         m = n + 1, AreSums(f, v, n), AreSums(g, w, m), \A k \in 1..n : v[k] = w[k]
  PROVE  g[m] = f[n] + w[m]
<1>1. f[n] = g[n]
  <2>1. n <= m
    OBVIOUS
  <2> QED
    BY <2>1, SumsAgree
<1>2. m \in 0..m /\ m # 0 /\ m - 1 = n
  OBVIOUS
<1>3. g[m] = g[m - 1] + w[m]
  BY <1>2 DEF AreSums
<1> QED
  BY <1>1, <1>2, <1>3
=============================================================================
