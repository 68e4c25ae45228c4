------------------------- MODULE SortedNumbersProofs -------------------------
(***************************************************************************)
(* Facts about sets of numbers: their smallest and largest, an unbroken    *)
(* run of them, and how they are sorted.  They are stated once, for the    *)
(* stores that give their readers pages of numbered events, and for the    *)
(* diff, which goes through the atoms in the order of their names.         *)
(***************************************************************************)
EXTENDS SortedNumbers, Integers, FiniteSetsExt, SequenceTheorems, FiniteSetTheorems,
        WellFoundedInduction, TLAPS

\* A set of numbers has a smallest one, and a largest if they are bounded.
LEMMA Smallest ==
    ASSUME NEW S \in SUBSET Nat, S # {}
    PROVE  Min(S) \in S /\ \A n \in S : Min(S) <= n
<1>1. PICK x \in S : \A y \in S : ~ (<<y, x>> \in OpToRel(<, Nat))
    BY NatLessThanWellFounded, WFMin
<1>2. \A y \in S : x <= y
  <2> SUFFICES ASSUME NEW y \in S, y < x PROVE FALSE
      OBVIOUS
  <2>1. <<y, x>> \in Nat \X Nat /\ <<y, x>>[1] < <<y, x>>[2]
      OBVIOUS
  <2> QED  BY <1>1, <2>1 DEF OpToRel
<1> QED  BY <1>1, <1>2 DEF Min

LEMMA Largest ==
    ASSUME NEW S \in SUBSET Nat, S # {}, NEW b \in Nat, \A n \in S : n <= b
    PROVE  Max(S) \in S /\ \A n \in S : n <= Max(S)
<1> DEFINE Above == {m \in Nat : \A n \in S : n <= m}
<1>1. Above \in SUBSET Nat /\ b \in Above
    OBVIOUS
<1>2. Min(Above) \in Above /\ \A m \in Above : Min(Above) <= m
    BY <1>1, Smallest
<1> DEFINE top == Min(Above)
<1>3. top \in Nat /\ (\A n \in S : n <= top) /\ \A m \in Above : top <= m
    BY <1>2
<1> HIDE DEF top
<1>4. top \in S
  <2> SUFFICES ASSUME top \notin S PROVE FALSE
      OBVIOUS
  <2>1. PICK s \in S : TRUE
      OBVIOUS
  <2>2. s \in Nat /\ s < top
      BY <1>3, <2>1
  <2>3. top - 1 \in Nat /\ \A n \in S : n <= top - 1
      BY <1>3, <2>2
  <2>4. top - 1 \in Above
      BY <2>3
  <2> QED  BY <1>3, <2>3, <2>4
<1>5. \E x \in S : \A y \in S : x >= y
    BY <1>3, <1>4
<1>6. Max(S) \in S /\ \A y \in S : Max(S) >= y
    BY <1>5 DEF Max
<1> QED  BY <1>6

\* The larger of two numbers.
LEMMA MaxOfTwo ==
    ASSUME NEW a \in Nat, NEW b \in Nat
    PROVE  /\ Max({a, b}) \in {a, b} /\ a <= Max({a, b}) /\ b <= Max({a, b})
<1>1. {a, b} \in SUBSET Nat /\ {a, b} # {} /\ a + b \in Nat /\ \A n \in {a, b} : n <= a + b
    OBVIOUS
<1> HIDE DEF Max
<1>2. Max({a, b}) \in {a, b} /\ \A n \in {a, b} : n <= Max({a, b})
    BY <1>1, Largest
<1> QED  BY <1>2

\* The numbers of S that follow from e on without a gap, at most limit of
\* them, are the interval from e to the last of them.
IsUnbroken(page, S, e, limit) ==
    \A n : n \in page <=> /\ n \in S /\ e <= n /\ n < e + limit
                          /\ \A m \in e..n : m \in S

LEMMA UnbrokenRun ==
    ASSUME NEW S \in SUBSET Nat, NEW e \in Nat, NEW limit \in Nat,
           NEW page, page # {},
           IsUnbroken(page, S, e, limit)
    PROVE  /\ Min(page) = e /\ Max(page) \in page
           /\ page = e..Max(page) /\ page \subseteq S
           /\ Max(page) < e + limit
<1>1. page \subseteq S /\ \A n \in page : n \in Nat /\ e <= n /\ n < e + limit
    BY DEF IsUnbroken
<1>2. \A n \in page : \A m \in e..n : m \in page
  <2> SUFFICES ASSUME NEW n \in page, NEW m \in e..n PROVE m \in page
      OBVIOUS
  <2>1. n \in Nat /\ m \in Nat /\ e <= m /\ m <= n /\ n < e + limit
      BY <1>1
  <2>2. \A k \in e..n : k \in S
      BY DEF IsUnbroken
  <2>3. m < e + limit /\ \A k \in e..m : k \in S
      BY <2>1, <2>2
  <2> QED  BY <2>1, <2>2, <2>3 DEF IsUnbroken
<1>3. Min(page) \in page /\ \A n \in page : Min(page) <= n
    BY <1>1, Smallest
<1>4. Max(page) \in page /\ \A n \in page : n <= Max(page)
  <2>1. page \in SUBSET Nat /\ \A n \in page : n \in Nat /\ n < e + limit
      BY <1>1
  <2>2. e + limit \in Nat /\ \A n \in page : n <= e + limit
      BY <2>1
  <2> QED  BY <2>1, <2>2, Largest
<1>5. Min(page) = e
  <2>1. Min(page) \in Nat /\ e <= Min(page)
      BY <1>1, <1>3
  <2>2. e \in page
      BY <1>2, <1>3, <2>1
  <2> QED  BY <1>3, <2>1, <2>2
<1>6. page = e..Max(page)
  <2>1. \A m \in e..Max(page) : m \in page
      BY <1>2, <1>4
  <2>2. \A m \in page : m \in Nat /\ e <= m /\ m <= Max(page) /\ Max(page) \in Nat
      BY <1>1, <1>4
  <2>3. \A m \in page : m \in e..Max(page)
      BY <2>2
  <2> QED  BY <2>1, <2>3
<1> QED  BY <1>1, <1>4, <1>5, <1>6
-----------------------------------------------------------------------------
Sorts(f, S) ==
    /\ f \in [1..Cardinality(S) -> S]
    /\ \A i, j \in 1..Cardinality(S) : i < j => f[i] < f[j]

\* Every finite set of numbers can be sorted: a smallest set that cannot be,
\* could be after all, its smallest number first.
LEMMA AscendingSorts ==
    ASSUME NEW S \in SUBSET Nat, IsFiniteSet(S)
    PROVE  Sorts(Ascending(S), S)
<1> DEFINE Bad == {n \in Nat : \E T \in SUBSET Nat : /\ IsFiniteSet(T) /\ Cardinality(T) = n
                                                     /\ ~ \E f : Sorts(f, T)}
<1>1. Bad = {}
  <2> SUFFICES ASSUME Bad # {} PROVE FALSE
      OBVIOUS
  <2> DEFINE n == Min(Bad)
  <2>1. n \in Bad /\ \A k \in Bad : n <= k
      BY Smallest
  <2>2. PICK T \in SUBSET Nat : /\ IsFiniteSet(T) /\ Cardinality(T) = n
                                /\ ~ \E f : Sorts(f, T)
      BY <2>1
  <2>3. n \in Nat
      BY <2>1
  <2>4. T # {}
    <3> SUFFICES ASSUME T = {} PROVE FALSE
        OBVIOUS
    <3>1. Cardinality(T) = 0
        BY FS_EmptySet
    <3>2. Sorts([i \in 1..0 |-> 0], T)
        BY <3>1 DEF Sorts
    <3> QED  BY <2>2, <3>2
  <2> DEFINE x == Min(T)
             R == T \ {x}
  <2>5. x \in T /\ \A y \in T : x <= y
      BY <2>4, Smallest
  <2> HIDE DEF n, x, Bad
  <2>6. IsFiniteSet(R) /\ Cardinality(R) = n - 1 /\ R \in SUBSET Nat
      BY <2>2, <2>5, FS_RemoveElement
  <2>7. n - 1 \in Nat
      BY <2>6, FS_CardinalityType
  <2>8. n - 1 \notin Bad
      BY <2>1, <2>3
  <2>9. PICK f : Sorts(f, R)
      BY <2>6, <2>7, <2>8 DEF Bad
  <2> DEFINE g == [i \in 1..n |-> IF i = 1 THEN x ELSE f[i - 1]]
  <2>a. f \in [1..(n - 1) -> R]
      BY <2>6, <2>9 DEF Sorts
  <2>10. \A i \in 1..n : i # 1 => i - 1 \in 1..(n - 1) /\ f[i - 1] \in R
      BY <2>3, <2>a
  <2>11. \A i \in 1..n : g[i] \in T
      BY <2>5, <2>10
  <2>12. \A i, j \in 1..n : i < j => g[i] < g[j]
    <3> SUFFICES ASSUME NEW i \in 1..n, NEW j \in 1..n, i < j PROVE g[i] < g[j]
        OBVIOUS
    <3>1. j # 1 /\ j - 1 \in 1..(n - 1) /\ f[j - 1] \in R /\ g[j] = f[j - 1]
        BY <2>3, <2>10
    <3>2. CASE i = 1
      <4>1. g[i] = x /\ x \in Nat /\ f[j - 1] \in Nat /\ x <= f[j - 1] /\ f[j - 1] # x
          BY <2>5, <3>1, <3>2
      <4> QED  BY <3>1, <4>1
    <3>3. CASE i # 1
      <4>1. i - 1 \in 1..(n - 1) /\ g[i] = f[i - 1] /\ i - 1 < j - 1
          BY <2>3, <2>10, <3>3
      <4> QED  BY <2>6, <2>9, <3>1, <4>1 DEF Sorts
    <3> QED  BY <3>2, <3>3
  <2>13. Sorts(g, T)
      BY <2>2, <2>11, <2>12 DEF Sorts
  <2> QED  BY <2>2, <2>13
<1>2. Cardinality(S) \in Nat
    BY FS_CardinalityType
<1>3. \E f : Sorts(f, S)
    BY <1>1, <1>2
<1> QED  BY <1>3 DEF Ascending, Sorts

\* What is sorted has all that there was, each once.
LEMMA AscendingCovers ==
    ASSUME NEW S \in SUBSET Nat, IsFiniteSet(S), NEW x \in S
    PROVE  \E i \in 1..Cardinality(S) : Ascending(S)[i] = x
<1> DEFINE n == Cardinality(S)
           f == Ascending(S)
<1>1. n \in Nat
    BY FS_CardinalityType
<1>2. f \in [1..n -> S] /\ \A i, j \in 1..n : i < j => f[i] < f[j]
    BY AscendingSorts DEF Sorts
<1>3. IsFiniteSet(1..n) /\ Cardinality(1..n) = Cardinality(S)
    BY <1>1, FS_Interval
<1> HIDE DEF f, n
<1>4. IsInjective(f)
  <2> SUFFICES ASSUME NEW i \in 1..n, NEW j \in 1..n, f[i] = f[j] PROVE i = j
      BY <1>2 DEF IsInjective
  <2>1. f[i] \in S /\ f[j] \in S
      BY <1>2
  <2>2. f[i] \in Nat /\ f[j] \in Nat
      BY <2>1
  <2>3. ~(i < j) /\ ~(j < i)
      BY <1>2, <2>2
  <2> QED  BY <1>1, <2>3
<1>5. f \in Injection(1..n, S)
    BY <1>2, <1>4 DEF Injection
<1>6. f \in Surjection(1..n, S)
    BY <1>3, <1>5, FS_Injection
<1> QED  BY <1>6 DEF Surjection, f, n

\* Sorting an interval counts from its one end to the other.
LEMMA AscendingCounts ==
    ASSUME NEW e \in Nat, NEW m \in Nat, e <= m
    PROVE  Ascending(e..m) = [i \in 1..(m - e + 1) |-> e + i - 1]
<1> DEFINE n == m - e + 1
           f == Ascending(e..m)
<1>1. IsFiniteSet(e..m) /\ Cardinality(e..m) = n /\ e..m \in SUBSET Nat
    BY FS_Interval
<1>2. n \in Nat \ {0}
    OBVIOUS
<1>3. f \in [1..n -> e..m] /\ \A i, j \in 1..n : i < j => f[i] < f[j]
    BY <1>1, AscendingSorts DEF Sorts
<1> HIDE DEF f, n
<1>4. \A i \in 1..n : f[i] \in Nat /\ e <= f[i] /\ f[i] <= m
    BY <1>3
<1>5. \A i \in 1..n : f[i] >= e + i - 1
  <2> DEFINE Bad == {i \in 1..n : f[i] < e + i - 1}
  <2> SUFFICES ASSUME Bad # {} PROVE FALSE
      BY <1>2, <1>4
  <2>1. Bad \in SUBSET Nat
      BY <1>2
  <2>2. PICK i \in Bad : \A k \in Bad : i <= k
      BY <2>1, Smallest
  <2>3. i \in 1..n /\ f[i] < e + i - 1
      OBVIOUS
  <2>4. i # 1
      BY <1>4, <2>3
  <2>5. i - 1 \in 1..n /\ i - 1 < i
      BY <1>2, <2>3, <2>4
  <2>6. f[i - 1] < f[i] /\ f[i - 1] >= e + (i - 1) - 1
      BY <1>3, <1>4, <2>2, <2>3, <2>5
  <2> QED  BY <1>4, <2>3, <2>5, <2>6
<1>6. \A i \in 1..n : f[i] <= m - (n - i)
  <2> DEFINE Bad == {k \in 0..(n - 1) : f[n - k] > m - k}
  <2>1. Bad = {}
    <3> SUFFICES ASSUME Bad # {} PROVE FALSE
        OBVIOUS
    <3>1. Bad \in SUBSET Nat
        BY <1>2
    <3>2. PICK k \in Bad : \A l \in Bad : k <= l
        BY <3>1, Smallest
    <3>3. k \in 0..(n - 1) /\ f[n - k] > m - k
        OBVIOUS
    <3>4. k # 0
        BY <1>2, <1>4, <3>3
    <3>5. k - 1 \in 0..(n - 1) /\ n - k \in 1..n /\ n - (k - 1) \in 1..n /\ n - k < n - (k - 1)
        BY <1>2, <3>3, <3>4
    <3>6. k - 1 \notin Bad
        BY <3>2, <3>3
    <3>7. ~(f[n - (k - 1)] > m - (k - 1))
        BY <3>5, <3>6
    <3>8. f[n - k] < f[n - (k - 1)]
        BY <1>3, <3>5
    <3> QED  BY <1>4, <3>3, <3>5, <3>7, <3>8
  <2> SUFFICES ASSUME NEW i \in 1..n PROVE f[i] <= m - (n - i)
      OBVIOUS
  <2>2. n - i \in 0..(n - 1) /\ n - (n - i) = i
      BY <1>2
  <2>3. ~(f[n - (n - i)] > m - (n - i))
      BY <2>1, <2>2
  <2> QED  BY <1>2, <1>4, <2>2, <2>3
<1>7. \A i \in 1..n : f[i] = e + i - 1
  <2> SUFFICES ASSUME NEW i \in 1..n PROVE f[i] = e + i - 1
      OBVIOUS
  <2>1. f[i] \in Nat /\ f[i] >= e + i - 1 /\ f[i] <= m - (n - i)
      BY <1>4, <1>5, <1>6
  <2> QED  BY <1>2, <2>1 DEF n
<1> QED  BY <1>3, <1>7 DEF f, n
=============================================================================
