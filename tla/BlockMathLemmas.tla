--------------------------- MODULE BlockMathLemmas ---------------------------
(***************************************************************************)
(* What the operators of BlockMath compute, for all their arguments: the   *)
(* division into blocks, the maximal runs of a set of blocks, and that the *)
(* list algorithm of _coalesce finds exactly those runs.                   *)
(*                                                                         *)
(* An argument by induction takes a least counterexample: LeastMember      *)
(* stands in for an induction rule over a predicate.                       *)
(***************************************************************************)
EXTENDS BlockMath, FiniteSetTheorems, SequenceTheorems, WellFoundedInduction, TLAPS

-----------------------------------------------------------------------------
(* Least and greatest members.                                             *)

LEMMA LeastMember ==
  ASSUME NEW T, T \subseteq Nat, T # {}
  PROVE  \E x \in T : \A y \in T : x <= y
<1> DEFINE R == OpToRel(<, Nat)
<1>1. IsWellFoundedOn(R, Nat)
  BY NatLessThanWellFounded
<1>2. \A x, y \in Nat : <<y, x>> \in R <=> y < x
  BY DEF OpToRel
<1> HIDE DEF R
<1>3. \E x \in T : \A y \in T : ~(<<y, x>> \in R)
  BY <1>1, WFMin
<1>4. PICK x \in T : \A y \in T : ~(<<y, x>> \in R)
  BY <1>3
<1>5. ASSUME NEW y \in T
      PROVE  x <= y
  <2>1. x \in Nat /\ y \in Nat
    OBVIOUS
  <2>2. ~(y < x)
    <3>1. <<y, x>> \notin R
      BY <1>4
    <3> QED
      BY <1>2, <2>1, <3>1, Zenon
  <2> QED
    BY <2>1, <2>2, SMT
<1> QED
  BY <1>5

LEMMA BoundedHasEnds ==
  ASSUME NEW lo \in Int, NEW hi \in Int, NEW S \in SUBSET (lo .. hi), S # {}
  PROVE  \E a, b \in S : \A x \in S : a <= x /\ x <= b
<1>1. PICK a \in S : \A x \in S : a <= x
  <2> DEFINE D == {x - lo : x \in S}
  <2>1. D \subseteq Nat /\ D # {}
    OBVIOUS
  <2>2. PICK d \in D : \A e \in D : d <= e
    <3> HIDE DEF D
    <3> QED
      BY <2>1, LeastMember
  <2>3. PICK a \in S : d = a - lo
    OBVIOUS
  <2>4. ASSUME NEW x \in S
        PROVE  a <= x
    <3>1. x - lo \in D
      OBVIOUS
    <3>2. a - lo <= x - lo
      BY <2>2, <2>3, <3>1
    <3> QED
      BY <3>2
  <2> QED
    BY <2>4
<1>2. PICK b \in S : \A x \in S : x <= b
  <2> DEFINE D == {hi - x : x \in S}
  <2>1. D \subseteq Nat /\ D # {}
    OBVIOUS
  <2>2. PICK d \in D : \A e \in D : d <= e
    <3> HIDE DEF D
    <3> QED
      BY <2>1, LeastMember
  <2>3. PICK b \in S : d = hi - b
    OBVIOUS
  <2>4. ASSUME NEW x \in S
        PROVE  x <= b
    <3>1. hi - x \in D
      OBVIOUS
    <3>2. hi - b <= hi - x
      BY <2>2, <2>3, <3>1
    <3> QED
      BY <3>2
  <2> QED
    BY <2>4
<1> QED
  BY <1>1, <1>2

-----------------------------------------------------------------------------
(* Division into blocks.                                                   *)

LEMMA Multiples ==
  ASSUME NEW a \in Int, NEW b \in Int, NEW size \in Nat \ {0}
  PROVE  /\ a < b <=> a * size < b * size
         /\ a <= b <=> a * size <= b * size
         /\ (a + 1) * size = a * size + size
         /\ (a + b) * size = a * size + b * size
  OBVIOUS

LEMMA Division ==
  ASSUME NEW p \in Int, NEW q \in Int, NEW size \in Nat \ {0}
  PROVE  /\ p \div size \in Int
         /\ q <= p \div size <=> q * size <= p
         /\ p \div size <= q <=> p < (q + 1) * size
         /\ p \div size = q <=> q * size <= p /\ p < (q + 1) * size
<1>1. p \div size \in Int /\ p % size \in 0 .. size - 1
  OBVIOUS
<1>2. p = size * (p \div size) + (p % size)
  OBVIOUS
<1>3. q <= p \div size <=> q * size <= p
  BY <1>1, <1>2
<1>4. p \div size <= q <=> p < (q + 1) * size
  BY <1>1, <1>2
<1> QED
  BY <1>1, <1>3, <1>4

LEMMA WholeMultiple ==
  ASSUME NEW k \in Int, NEW size \in Nat \ {0}
  PROVE  (k * size) \div size = k
<1>1. k * size \in Int /\ k * size < (k + 1) * size
  BY Multiples
<1> QED
  BY <1>1, Division

\* A range needs the blocks that hold one of its bytes.
LEMMA BlockIndicesFacts ==
  ASSUME NEW start \in Int, NEW end \in Int, NEW size \in Nat \ {0}
  PROVE  \A b : b \in BlockIndices(start, end, size) <=>
                   /\ b \in Int /\ start < end
                   /\ start < (b + 1) * size /\ b * size < end
<1>1. CASE end <= start
  BY <1>1 DEF BlockIndices
<1>2. CASE ~(end <= start)
  <2>1. start \div size \in Int /\ (end - 1) \div size \in Int
    BY Division
  <2>2. ASSUME NEW b \in Int
        PROVE  /\ start \div size <= b <=> start < (b + 1) * size
               /\ b <= (end - 1) \div size <=> b * size < end
    <3>1. start \div size <= b <=> start < (b + 1) * size
      BY Division
    <3>2. b <= (end - 1) \div size <=> b * size <= end - 1
      BY Division
    <3>3. b * size \in Int
      OBVIOUS
    <3> QED
      BY <3>1, <3>2, <3>3
  <2>3. BlockIndices(start, end, size) = start \div size .. (end - 1) \div size
    BY <1>2 DEF BlockIndices
  <2> QED
    BY <1>2, <2>1, <2>2, <2>3
<1> QED
  BY <1>1, <1>2

-----------------------------------------------------------------------------
(* The maximal runs of a set of blocks.                                    *)

LEMMA RunEnds ==
  ASSUME NEW lo \in Int, NEW hi \in Int, NEW S \in SUBSET (lo .. hi), NEW b \in S
  PROVE  \E x, y \in S : /\ x <= b /\ b <= y /\ RunOf(b, S) = x .. y
                         /\ x - 1 \notin S /\ y + 1 \notin S
<1>1. S \subseteq Int /\ b \in Int
  OBVIOUS
<1>2. b \in RunOf(b, S) /\ RunOf(b, S) \in SUBSET (lo .. hi)
  <2>1. b .. b \subseteq S
    BY <1>1
  <2> QED
    BY <2>1 DEF RunOf
<1>3. PICK x, y \in RunOf(b, S) : \A z \in RunOf(b, S) : x <= z /\ z <= y
  BY <1>2, BoundedHasEnds
<1>4. /\ x \in S /\ x \in Int /\ x .. b \subseteq S /\ x <= b
      /\ y \in S /\ y \in Int /\ b .. y \subseteq S /\ b <= y
  BY <1>1, <1>2, <1>3 DEF RunOf
<1>5. ASSUME NEW z \in x .. y
      PROVE  z \in RunOf(b, S)
  <2>1. CASE z <= b
    <3>1. z \in S /\ z .. b \subseteq S /\ b .. z \subseteq S
      BY <1>1, <1>4, <2>1
    <3> QED
      BY <3>1 DEF RunOf
  <2>2. CASE b <= z
    <3>1. z \in S /\ z .. b \subseteq S /\ b .. z \subseteq S
      BY <1>1, <1>4, <2>2
    <3> QED
      BY <3>1 DEF RunOf
  <2> QED
    BY <1>1, <1>4, <2>1, <2>2
<1>6. RunOf(b, S) = x .. y
  <2>1. \A z \in RunOf(b, S) : z \in x .. y
    BY <1>1, <1>3, <1>4 DEF RunOf
  <2> QED
    BY <1>5, <2>1
<1>7. x - 1 \notin S
  <2> SUFFICES ASSUME x - 1 \in S PROVE FALSE
    OBVIOUS
  <2>1. x - 1 .. b \subseteq S /\ b .. x - 1 \subseteq S
    BY <1>1, <1>4
  <2>2. x - 1 \in RunOf(b, S)
    BY <2>1 DEF RunOf
  <2> QED
    BY <1>3, <1>4, <2>2
<1>8. y + 1 \notin S
  <2> SUFFICES ASSUME y + 1 \in S PROVE FALSE
    OBVIOUS
  <2>1. y + 1 .. b \subseteq S /\ b .. y + 1 \subseteq S
    BY <1>1, <1>4
  <2>2. y + 1 \in RunOf(b, S)
    BY <2>1 DEF RunOf
  <2> QED
    BY <1>3, <1>4, <2>2
<1> QED
  BY <1>4, <1>6, <1>7, <1>8

LEMMA MaximalIsRun ==
  ASSUME NEW S \in SUBSET Int, NEW x \in Int, NEW y \in Int, NEW c \in x .. y,
         x .. y \subseteq S, x - 1 \notin S, y + 1 \notin S
  PROVE  RunOf(c, S) = x .. y
<1>1. ASSUME NEW z \in x .. y
      PROVE  z \in RunOf(c, S)
  <2>1. z \in S /\ z .. c \subseteq S /\ c .. z \subseteq S
    OBVIOUS
  <2> QED
    BY <2>1 DEF RunOf
<1>2. ASSUME NEW z \in RunOf(c, S)
      PROVE  z \in x .. y
  <2>1. z \in Int /\ z .. c \subseteq S /\ c .. z \subseteq S
    BY DEF RunOf
  <2>2. ~(z < x)
    <3>1. z < x => x - 1 \in z .. c
      BY <2>1
    <3> QED
      BY <2>1, <3>1
  <2>3. ~(y < z)
    <3>1. y < z => y + 1 \in c .. z
      BY <2>1
    <3> QED
      BY <2>1, <3>1
  <2> QED
    BY <2>1, <2>2, <2>3
<1> QED
  BY <1>1, <1>2

\* The groups of _coalesce are intervals, cover the set, and no two overlap or touch.
LEMMA CoalesceFacts ==
  ASSUME NEW lo \in Int, NEW hi \in Int, NEW S \in SUBSET (lo .. hi)
  PROVE  /\ UNION Coalesce(S) = S
         /\ \A r \in Coalesce(S) :
              \E x, y \in S : x <= y /\ r = x .. y /\ x - 1 \notin S /\ y + 1 \notin S
         /\ \A r, q \in Coalesce(S) : r # q => \A a \in r, b \in q : a # b /\ a + 1 # b
<1>1. \A r \in Coalesce(S) :
        \E x, y \in S : x <= y /\ r = x .. y /\ x - 1 \notin S /\ y + 1 \notin S
  <2> SUFFICES ASSUME NEW b \in S
               PROVE  \E x, y \in S : /\ x <= y /\ RunOf(b, S) = x .. y
                                      /\ x - 1 \notin S /\ y + 1 \notin S
    BY DEF Coalesce
  <2>1. PICK x, y \in S : /\ x <= b /\ b <= y /\ RunOf(b, S) = x .. y
                          /\ x - 1 \notin S /\ y + 1 \notin S
    BY RunEnds
  <2>2. x <= y
    BY <2>1
  <2> QED
    BY <2>1, <2>2
<1>2. UNION Coalesce(S) = S
  <2>1. \A b \in S : b \in RunOf(b, S)
    BY DEF RunOf
  <2>2. \A b \in S : RunOf(b, S) \subseteq S
    BY DEF RunOf
  <2> QED
    BY <2>1, <2>2 DEF Coalesce
<1>3. ASSUME NEW r \in Coalesce(S), NEW q \in Coalesce(S),
             NEW a \in r, NEW b \in q, a = b \/ a + 1 = b
      PROVE  r = q
  <2>1. PICK x, y \in S : x <= y /\ r = x .. y /\ x - 1 \notin S /\ y + 1 \notin S
    BY <1>1
  <2>2. PICK u, v \in S : u <= v /\ q = u .. v /\ u - 1 \notin S /\ v + 1 \notin S
    BY <1>1
  <2>3. /\ x \in Int /\ y \in Int /\ u \in Int /\ v \in Int /\ a \in Int /\ b \in Int
        /\ x .. y \subseteq S /\ u .. v \subseteq S /\ S \in SUBSET Int
    BY <1>2, <2>1, <2>2
  <2>4. a \in x .. y /\ b \in u .. v
    BY <2>1, <2>2
  <2>5. RunOf(a, S) = r /\ RunOf(b, S) = q
    BY <2>1, <2>2, <2>3, <2>4, MaximalIsRun
  <2>6. b \in x .. y
    <3>1. b \in S
      BY <2>3, <2>4
    <3> QED
      BY <1>3, <2>1, <2>3, <2>4, <3>1
  <2>7. RunOf(b, S) = r
    BY <2>1, <2>3, <2>6, MaximalIsRun
  <2> QED
    BY <2>5, <2>7
<1>4. \A r, q \in Coalesce(S) : r # q => \A a \in r, b \in q : a # b /\ a + 1 # b
  BY <1>3
<1> QED
  BY <1>1, <1>2, <1>4

-----------------------------------------------------------------------------
(* Sorted, and _coalesce on the list it makes.                             *)

LEMMA SortedFacts ==
  ASSUME NEW S \in SUBSET Int, IsFiniteSet(S)
  PROVE  /\ Cardinality(S) \in Nat
         /\ Sorted(S) \in [1 .. Cardinality(S) -> S]
         /\ Len(Sorted(S)) = Cardinality(S)
         /\ \A i, j \in 1 .. Cardinality(S) : i < j => Sorted(S)[i] < Sorted(S)[j]
         /\ \A x \in S : \E i \in 1 .. Cardinality(S) : Sorted(S)[i] = x
<1> DEFINE n        == Cardinality(S)
           below(x) == {y \in S : y < x}
           rank     == [x \in S |-> Cardinality(below(x))]
<1>1. n \in Nat /\ IsFiniteSet(0 .. n - 1) /\ Cardinality(0 .. n - 1) = n
  <2>1. n \in Nat
    BY FS_CardinalityType
  <2> HIDE DEF n
  <2>2. IsFiniteSet(0 .. n - 1) /\ Cardinality(0 .. n - 1) = IF 0 > n - 1 THEN 0 ELSE n - 1 - 0 + 1
    BY <2>1, FS_Interval
  <2> QED
    BY <2>1, <2>2
<1>2. ASSUME NEW x \in S
      PROVE  /\ IsFiniteSet(below(x)) /\ Cardinality(below(x)) \in 0 .. n - 1
             /\ IsFiniteSet(below(x) \cup {x})
             /\ Cardinality(below(x) \cup {x}) = Cardinality(below(x)) + 1
  <2>1. below(x) \in SUBSET S /\ x \notin below(x) /\ below(x) \cup {x} \in SUBSET S
    OBVIOUS
  <2> HIDE DEF below
  <2>2. /\ IsFiniteSet(below(x)) /\ Cardinality(below(x)) \in Nat
        /\ IsFiniteSet(below(x) \cup {x})
        /\ Cardinality(below(x) \cup {x}) = Cardinality(below(x)) + 1
    BY <2>1, FS_Subset, FS_CardinalityType, FS_AddElement
  <2>3. Cardinality(below(x) \cup {x}) <= n
    BY <2>1, FS_Subset
  <2> QED
    BY <1>1, <2>2, <2>3
<1>3. ASSUME NEW x \in S, NEW y \in S, x < y
      PROVE  rank[x] < rank[y]
  <2>1. below(x) \cup {x} \in SUBSET below(y)
    <3>1. x \in Int /\ y \in Int /\ x \in below(y)
      BY <1>3
    <3>2. \A z \in below(x) : z \in S /\ z < y
      BY <1>3
    <3> QED
      BY <3>1, <3>2
  <2>2. Cardinality(below(x) \cup {x}) <= Cardinality(below(y))
    <3> HIDE DEF below
    <3> QED
      BY <1>2, <2>1, FS_Subset
  <2>3. Cardinality(below(x)) < Cardinality(below(y))
    <3> HIDE DEF below, n
    <3>1. Cardinality(below(x)) \in 0 .. n - 1 /\ Cardinality(below(y)) \in 0 .. n - 1
      BY <1>2
    <3>2. Cardinality(below(x)) + 1 <= Cardinality(below(y))
      BY <1>2, <2>2
    <3> QED
      BY <1>1, <3>1, <3>2
  <2> HIDE DEF below
  <2> QED
    BY <2>3
<1>4. rank \in [S -> 0 .. n - 1]
  <2> HIDE DEF below, n
  <2> QED
    BY <1>2
<1>5. \A x, y \in S : rank[x] = rank[y] => x = y
  <2> HIDE DEF rank, n
  <2> SUFFICES ASSUME NEW x \in S, NEW y \in S, rank[x] = rank[y], x # y
               PROVE  FALSE
    OBVIOUS
  <2>1. x < y \/ y < x
    OBVIOUS
  <2>2. rank[x] \in Int /\ rank[y] \in Int
    BY <1>1, <1>4
  <2> QED
    BY <1>3, <2>1, <2>2
<1>6. rank \in Surjection(S, 0 .. n - 1)
  <2> HIDE DEF rank, n
  <2>1. rank \in Injection(S, 0 .. n - 1)
    BY <1>4, <1>5 DEF Injection, IsInjective
  <2> QED
    BY <1>1, <2>1, FS_Injection DEF n
<1>7. \A i \in 1 .. n : Sorted(S)[i] \in S /\ rank[Sorted(S)[i]] = i - 1
  <2> SUFFICES ASSUME NEW i \in 1 .. n
               PROVE  Sorted(S)[i] \in S /\ rank[Sorted(S)[i]] = i - 1
    OBVIOUS
  <2>1. i - 1 \in 0 .. n - 1
    BY <1>1
  <2>2. \E x \in S : rank[x] = i - 1
    <3> HIDE DEF rank
    <3> QED
      BY <1>6, <2>1 DEF Surjection
  <2>3. Sorted(S)[i] = CHOOSE x \in S : Cardinality(below(x)) = i - 1
    BY DEF Sorted
  <2> QED
    BY <2>2, <2>3
<1>8. Sorted(S) = [i \in 1 .. n |-> Sorted(S)[i]]
  <2> DEFINE member(i) == CHOOSE x \in S : Cardinality(below(x)) = i - 1
  <2>1. Sorted(S) = [i \in 1 .. n |-> member(i)]
    BY DEF Sorted
  <2> HIDE DEF member
  <2> QED
    BY <2>1
<1> HIDE DEF rank, n
<1>9. Sorted(S) \in [1 .. n -> S]
  BY <1>7, <1>8
<1>10. Len(Sorted(S)) = n
  BY <1>1, <1>9
<1>11. ASSUME NEW i \in 1 .. n, NEW j \in 1 .. n, i < j
       PROVE  Sorted(S)[i] < Sorted(S)[j]
  <2> DEFINE x == Sorted(S)[i]
             y == Sorted(S)[j]
  <2>1. x \in S /\ y \in S /\ rank[x] = i - 1 /\ rank[y] = j - 1
    BY <1>7
  <2> HIDE DEF x, y
  <2>2. ~(y < x) /\ x # y
    BY <1>1, <1>3, <1>11, <2>1
  <2>3. x < y
    BY <2>1, <2>2
  <2> QED
    BY <2>3 DEF x, y
<1>12. ASSUME NEW x \in S
       PROVE  \E i \in 1 .. n : Sorted(S)[i] = x
  <2>1. rank[x] + 1 \in 1 .. n /\ rank[x] = (rank[x] + 1) - 1
    BY <1>1, <1>4
  <2>2. Sorted(S)[rank[x] + 1] = x
    BY <1>5, <1>7, <2>1
  <2> QED
    BY <2>1, <2>2
<1> QED
  BY <1>1, <1>9, <1>10, <1>11, <1>12 DEF n

LEMMA SortedInterval ==
  ASSUME NEW a \in Int, NEW b \in Int, a <= b
  PROVE  /\ Len(Sorted(a .. b)) = b - a + 1
         /\ \A i \in 1 .. b - a + 1 : Sorted(a .. b)[i] = a + i - 1
<1>1. Cardinality(a .. b) = b - a + 1
  BY FS_Interval
<1>2. ASSUME NEW x \in a .. b
      PROVE  Cardinality({y \in a .. b : y < x}) = x - a
  <2>1. {y \in a .. b : y < x} = a .. x - 1
    OBVIOUS
  <2>2. Cardinality(a .. x - 1) = IF a > x - 1 THEN 0 ELSE x - 1 - a + 1
    BY FS_Interval
  <2>3. Cardinality(a .. x - 1) = x - a
    BY <2>2
  <2> QED
    BY <2>1, <2>3, Zenon
<1>3. ASSUME NEW i \in 1 .. b - a + 1
      PROVE  Sorted(a .. b)[i] = a + i - 1
  <2> DEFINE member == CHOOSE x \in a .. b : Cardinality({y \in a .. b : y < x}) = i - 1
  <2>1. Sorted(a .. b)[i] = member
    BY <1>1 DEF Sorted
  <2>2. a + i - 1 \in a .. b /\ (a + i - 1) - a = i - 1
    OBVIOUS
  <2>3. Cardinality({y \in a .. b : y < a + i - 1}) = i - 1
    BY <1>2, <2>2
  <2>4. member \in a .. b /\ Cardinality({y \in a .. b : y < member}) = i - 1
    BY <2>2, <2>3
  <2>5. member - a = i - 1
    BY <1>2, <2>4
  <2> HIDE DEF member
  <2> QED
    BY <2>1, <2>4, <2>5
<1>4. Sorted(a .. b) = [i \in 1 .. b - a + 1 |-> Sorted(a .. b)[i]]
  <2> DEFINE S         == a .. b
             member(i) == CHOOSE x \in S : Cardinality({y \in S : y < x}) = i - 1
  <2>1. Sorted(S) = [i \in 1 .. b - a + 1 |-> member(i)]
    BY <1>1 DEF Sorted
  <2> HIDE DEF member
  <2> QED
    BY <2>1
<1>5. b - a + 1 \in Nat
  OBVIOUS
<1>6. Len(Sorted(a .. b)) = b - a + 1
  BY <1>4, <1>5
<1> QED
  BY <1>3, <1>6

\* The recursion of CoalesceList has a solution, so its equations hold.
LEMMA CoalesceListRecursion ==
  ASSUME NEW missing, Len(missing) \in Nat
  PROVE  \E runs : /\ CoalesceList(missing) = runs[Len(missing)]
                   /\ \A i \in 0 .. Len(missing) :
                        runs[i] = IF i = 0 THEN <<>> ELSE WithIndex(runs[i - 1], missing[i])
<1> DEFINE Solves(g, n) == g = [i \in 0 .. n |->
                                  IF i = 0 THEN <<>> ELSE WithIndex(g[i - 1], missing[i])]
           unsolved     == {n \in Nat : ~ \E g : Solves(g, n)}
<1>1. unsolved = {}
  <2> SUFFICES ASSUME unsolved # {}
               PROVE  FALSE
    OBVIOUS
  <2>1. unsolved \subseteq Nat
    OBVIOUS
  <2>2. PICK n \in unsolved : \A m \in unsolved : n <= m
    <3> HIDE DEF unsolved
    <3> QED
      BY <2>1, LeastMember
  <2>3. n \in Nat /\ ~ \E g : Solves(g, n)
    OBVIOUS
  <2>4. CASE n = 0
    <3> DEFINE g == [i \in 0 .. 0 |-> <<>>]
    <3>1. Solves(g, n)
      BY <2>4
    <3> QED
      BY <2>3, <3>1
  <2>5. CASE n # 0
    <3>1. n - 1 \in Nat /\ n - 1 \notin unsolved
      <4> HIDE DEF unsolved, Solves
      <4> QED
        BY <2>2, <2>3, <2>5
    <3>2. PICK f : Solves(f, n - 1)
      BY <3>1
    <3> DEFINE last == WithIndex(f[n - 1], missing[n])
               g    == [i \in 0 .. n |-> IF i = n THEN last ELSE f[i]]
    <3>3. \A i \in 0 .. n - 1 :
            f[i] = IF i = 0 THEN <<>> ELSE WithIndex(f[i - 1], missing[i])
      BY <3>2
    <3>4. ASSUME NEW i \in 0 .. n
          PROVE  g[i] = IF i = 0 THEN <<>> ELSE WithIndex(g[i - 1], missing[i])
      <4>1. CASE i = n
        <5>1. g[i - 1] = f[n - 1] /\ g[i] = last /\ i # 0
          BY <2>3, <2>5, <4>1
        <5> QED
          BY <4>1, <5>1
      <4>2. CASE i # n
        <5>1. i \in 0 .. n - 1 /\ g[i] = f[i]
          BY <2>3, <4>2
        <5>2. i # 0 => i - 1 \in 0 .. n /\ i - 1 # n /\ g[i - 1] = f[i - 1]
          BY <2>3, <5>1
        <5> HIDE DEF g
        <5> QED
          BY <3>3, <5>1, <5>2
      <4> QED
        BY <4>1, <4>2
    <3>5. g = [i \in 0 .. n |-> g[i]]
      OBVIOUS
    <3> HIDE DEF g
    <3>6. Solves(g, n)
      BY <3>4, <3>5
    <3> QED
      BY <2>3, <3>6
  <2> QED
    BY <2>4, <2>5
<1>2. \E g : Solves(g, Len(missing))
  BY <1>1
<1> DEFINE runs == CHOOSE g : Solves(g, Len(missing))
<1>3. CoalesceList(missing) = runs[Len(missing)]
  BY DEF CoalesceList
<1>4. Solves(runs, Len(missing))
  BY <1>2
<1> HIDE DEF runs
<1>5. \A i \in 0 .. Len(missing) :
        runs[i] = IF i = 0 THEN <<>> ELSE WithIndex(runs[i - 1], missing[i])
  BY <1>4
<1> QED
  BY <1>3, <1>5

\* What the pairs made of the first i indices are: runs, but that the last one may go on.
RunsSoFar(S, i, r) ==
  /\ r \in Seq(Int \X Int)
  /\ i = 0 <=> Len(r) = 0
  /\ \A j \in 1 .. Len(r) :
       r[j][1] <= r[j][2] /\ r[j][1] .. r[j][2] \subseteq S /\ r[j][1] - 1 \notin S
  /\ \A j \in 1 .. Len(r) - 1 : r[j][2] + 1 \notin S
  /\ i > 0 => r[Len(r)][2] = Sorted(S)[i]
  /\ \A k \in 1 .. i : \E j \in 1 .. Len(r) : Sorted(S)[k] \in r[j][1] .. r[j][2]

\* One round of the loop.
LEMMA WithIndexFacts ==
  ASSUME NEW S \in SUBSET Int, IsFiniteSet(S), NEW i \in 1 .. Cardinality(S),
         NEW r, RunsSoFar(S, i - 1, r)
  PROVE  RunsSoFar(S, i, WithIndex(r, Sorted(S)[i]))
<1> DEFINE s   == Sorted(S)
           n   == Cardinality(S)
           top == Len(r)
           q   == WithIndex(r, s[i])
<1>1. /\ n \in Nat /\ s \in [1 .. n -> S]
      /\ \A k, j \in 1 .. n : k < j => s[k] < s[j]
      /\ \A x \in S : \E k \in 1 .. n : s[k] = x
  BY SortedFacts
<1>2. /\ i \in 1 .. n /\ i \in Nat /\ i > 0 /\ top \in Nat /\ S \subseteq Int
      /\ r \in Seq(Int \X Int)
  BY <1>1 DEF RunsSoFar
<1>3. q = WithIndex(r, s[i])
  OBVIOUS
<1> HIDE DEF q, n
<1>4. /\ top > 0 <=> i > 1
      /\ top > 0 => r[top][2] = s[i - 1]
      /\ \A j \in 1 .. top :
           r[j][1] <= r[j][2] /\ r[j][1] .. r[j][2] \subseteq S /\ r[j][1] - 1 \notin S
      /\ \A j \in 1 .. top - 1 : r[j][2] + 1 \notin S
      /\ \A k \in 1 .. i - 1 : \E j \in 1 .. top : s[k] \in r[j][1] .. r[j][2]
  <2>1. i - 1 = 0 <=> top = 0
    BY DEF RunsSoFar
  <2>2. top > 0 <=> i > 1
    BY <1>2, <2>1
  <2>3. top > 0 => i - 1 > 0
    BY <1>2, <2>2
  <2> QED
    BY <2>2, <2>3 DEF RunsSoFar
<1> HIDE DEF s, top
<1>5. s[i] \in S /\ s[i] \in Int /\ (i > 1 => s[i - 1] \in S /\ s[i - 1] \in Int /\ s[i - 1] < s[i])
  <2>1. i > 1 => i - 1 \in 1 .. n /\ i - 1 < i
    BY <1>1, <1>2
  <2>2. s[i] \in S /\ (i > 1 => s[i - 1] \in S /\ s[i - 1] < s[i])
    BY <1>1, <1>2, <2>1
  <2> QED
    BY <2>2
<1>6. \A j \in 1 .. top : r[j] \in Int \X Int /\ r[j][1] \in Int /\ r[j][2] \in Int
  BY <1>2 DEF top
<1>7. CASE top > 0 /\ s[i] = r[top][2] + 1
  <2> DEFINE whole == <<r[top][1], s[i]>>
  <2>1. q = [r EXCEPT ![top] = whole]
    BY <1>3, <1>7 DEF WithIndex, top
  <2>2. top \in 1 .. top /\ whole \in Int \X Int
    BY <1>2, <1>5, <1>6, <1>7
  <2>3. /\ q \in Seq(Int \X Int) /\ Len(q) = top
        /\ q[top] = whole /\ \A j \in 1 .. top : j # top => q[j] = r[j]
    BY <1>2, <2>1, <2>2 DEF top
  <2>4. /\ whole[1] = r[top][1] /\ whole[2] = s[i]
        /\ whole[1] <= whole[2] /\ whole[1] .. whole[2] \subseteq S /\ whole[1] - 1 \notin S
    <3>1. r[top][1] .. s[i] \subseteq (r[top][1] .. r[top][2]) \cup {s[i]}
      BY <1>5, <1>6, <1>7, <2>2
    <3> QED
      BY <1>4, <1>5, <1>6, <1>7, <2>2, <3>1
  <2> HIDE DEF whole
  <2>5. \A j \in 1 .. Len(q) :
          q[j][1] <= q[j][2] /\ q[j][1] .. q[j][2] \subseteq S /\ q[j][1] - 1 \notin S
    BY <1>4, <2>3, <2>4
  <2>6. \A j \in 1 .. Len(q) - 1 : q[j][2] + 1 \notin S
    <3>1. \A j \in 1 .. top - 1 : j \in 1 .. top /\ j # top
      BY <1>2
    <3>2. \A j \in 1 .. top - 1 : q[j] = r[j] /\ r[j][2] + 1 \notin S
      BY <1>4, <2>3, <3>1
    <3> QED
      BY <2>3, <3>2
  <2>7. q[Len(q)][2] = s[i] /\ s[i] \in q[top][1] .. q[top][2]
    BY <1>5, <1>6, <2>2, <2>3, <2>4
  <2>8. ASSUME NEW j \in 1 .. top, NEW x \in r[j][1] .. r[j][2]
        PROVE  x \in q[j][1] .. q[j][2]
    <3>1. CASE j = top
      <4>1. /\ x \in Int /\ r[top][1] \in Int /\ r[top][2] \in Int
            /\ r[top][1] <= x /\ x <= r[top][2]
        BY <1>6, <2>2, <3>1
      <4>2. whole[1] <= x /\ x <= whole[2]
        BY <1>5, <1>7, <2>4, <4>1
      <4> QED
        BY <1>5, <1>6, <2>2, <2>3, <2>4, <3>1, <4>1, <4>2
    <3>2. CASE j # top
      BY <2>3, <3>2
    <3> QED
      BY <3>1, <3>2
  <2>9. \A k \in 1 .. i : \E j \in 1 .. Len(q) : s[k] \in q[j][1] .. q[j][2]
    <3>1. \A k \in 1 .. i : k = i \/ k \in 1 .. i - 1
      BY <1>2
    <3> QED
      BY <1>4, <2>2, <2>3, <2>7, <2>8, <3>1
  <2>10. Len(q) # 0 /\ i # 0
    BY <1>2, <1>7, <2>3
  <2> QED
    BY <2>3, <2>5, <2>6, <2>7, <2>9, <2>10 DEF s, q, RunsSoFar
<1>8. CASE ~(top > 0 /\ s[i] = r[top][2] + 1)
  <2> DEFINE alone == <<s[i], s[i]>>
  <2>1. q = Append(r, alone)
    BY <1>3, <1>8 DEF WithIndex, top
  <2>2. /\ alone \in Int \X Int /\ alone[1] = s[i] /\ alone[2] = s[i]
    BY <1>5
  <2>3. /\ q \in Seq(Int \X Int) /\ Len(q) = top + 1
        /\ q[top + 1] = alone /\ \A j \in 1 .. top : q[j] = r[j]
    BY <1>2, <2>1, <2>2 DEF top
  <2> HIDE DEF alone
  <2>4. s[i] - 1 \notin S
    <3> SUFFICES ASSUME s[i] - 1 \in S
                 PROVE  FALSE
      OBVIOUS
    <3>1. PICK k \in 1 .. n : s[k] = s[i] - 1
      BY <1>1
    <3>2. k < i
      <4>1. ~(i < k) /\ i # k
        BY <1>1, <1>2, <1>5, <3>1
      <4> QED
        BY <1>1, <1>2, <4>1
    <3>3. i > 1 /\ i - 1 \in 1 .. n
      BY <1>1, <1>2, <3>2
    <3>4. k = i - 1
      <4>1. ~(k < i - 1)
        BY <1>1, <1>5, <3>1, <3>3
      <4> QED
        BY <1>1, <1>2, <3>2, <4>1
    <3>5. top > 0 /\ r[top][2] = s[i - 1]
      BY <1>4, <3>3
    <3>6. s[i] = s[i - 1] + 1
      BY <1>5, <3>1, <3>3, <3>4
    <3> QED
      BY <1>8, <3>5, <3>6
  <2>5. top > 0 => r[top][2] + 1 \notin S
    <3> SUFFICES ASSUME top > 0, s[i - 1] + 1 \in S
                 PROVE  FALSE
      BY <1>4
    <3>1. PICK k \in 1 .. n : s[k] = s[i - 1] + 1
      BY <1>1
    <3>2. i > 1 /\ i - 1 \in 1 .. n
      BY <1>1, <1>2, <1>4
    <3>3. i - 1 < k
      <4>1. ~(k < i - 1) /\ k # i - 1
        BY <1>1, <1>5, <3>1, <3>2
      <4> QED
        BY <1>1, <3>2, <4>1
    <3>4. k = i
      <4>1. ~(i < k)
        BY <1>1, <1>2, <1>5, <3>1, <3>2
      <4> QED
        BY <1>1, <1>2, <3>3, <4>1
    <3> QED
      BY <1>4, <1>5, <1>8, <3>1, <3>2, <3>4
  <2> DEFINE starts(p) == p[1] <= p[2] /\ p[1] .. p[2] \subseteq S /\ p[1] - 1 \notin S
             ends(p)   == p[2] + 1 \notin S
  <2>6. starts(alone)
    BY <1>5, <2>2, <2>4
  <2>7. (\A j \in 1 .. top : starts(r[j])) /\ (\A j \in 1 .. top - 1 : ends(r[j]))
    BY <1>4
  <2>8. top > 0 => ends(r[top])
    BY <2>5
  <2> HIDE DEF starts, ends
  <2>9. /\ \A j \in 1 .. top + 1 : j = top + 1 \/ j \in 1 .. top
        /\ \A j \in 1 .. (top + 1) - 1 : j \in 1 .. top /\ (j \in 1 .. top - 1 \/ (j = top /\ top > 0))
    BY <1>2
  <2>10. \A j \in 1 .. Len(q) : starts(q[j])
    BY <2>3, <2>6, <2>7, <2>9
  <2>11. ASSUME NEW j \in 1 .. Len(q) - 1
        PROVE  ends(q[j])
    <3>1. j \in 1 .. (top + 1) - 1
      BY <2>3
    <3>2. q[j] = r[j] /\ (j \in 1 .. top - 1 \/ (j = top /\ top > 0))
      BY <2>3, <2>9, <3>1
    <3> QED
      BY <2>7, <2>8, <3>2
  <2>12. \A j \in 1 .. Len(q) :
          q[j][1] <= q[j][2] /\ q[j][1] .. q[j][2] \subseteq S /\ q[j][1] - 1 \notin S
    BY <2>10 DEF starts
  <2>13. \A j \in 1 .. Len(q) - 1 : q[j][2] + 1 \notin S
    BY <2>11 DEF ends
  <2>14. q[Len(q)][2] = s[i] /\ s[i] \in q[top + 1][1] .. q[top + 1][2]
    BY <1>5, <2>2, <2>3
  <2>15. \A j \in 1 .. top : j \in 1 .. Len(q) /\ q[j] = r[j]
    <3>1. \A j \in 1 .. top : j \in 1 .. top + 1
      BY <1>2
    <3> QED
      BY <2>3, <3>1
  <2>16. top + 1 \in 1 .. Len(q) /\ Len(q) # 0 /\ i # 0
    BY <1>2, <2>3
  <2>17. \A k \in 1 .. i : \E j \in 1 .. Len(q) : s[k] \in q[j][1] .. q[j][2]
    <3>1. \A k \in 1 .. i : k = i \/ k \in 1 .. i - 1
      BY <1>2
    <3> QED
      BY <1>4, <2>14, <2>15, <2>16, <3>1
  <2> QED
    BY <2>3, <2>12, <2>13, <2>14, <2>16, <2>17 DEF s, q, RunsSoFar
<1> QED
  BY <1>7, <1>8

\* The list algorithm makes one request of each maximal run of missing blocks, and
\* of nothing else.
THEOREM CoalesceListFindsTheRuns ==
  ASSUME NEW lo \in Int, NEW hi \in Int, NEW S \in SUBSET (lo .. hi)
  PROVE  LET list == CoalesceList(Sorted(S))
         IN  {list[i][1] .. list[i][2] : i \in 1 .. Len(list)} = Coalesce(S)
<1> DEFINE s          == Sorted(S)
           n          == Cardinality(S)
<1>1. S \in SUBSET Int /\ IsFiniteSet(S)
  <2>1. IsFiniteSet(S)
    BY FS_Interval, FS_Subset
  <2> QED
    BY <2>1
<1>2. /\ n \in Nat /\ s \in [1 .. n -> S] /\ Len(s) = n
      /\ \A k, j \in 1 .. n : k < j => s[k] < s[j]
      /\ \A x \in S : \E k \in 1 .. n : s[k] = x
  BY <1>1, SortedFacts
<1>3. PICK runs : /\ CoalesceList(s) = runs[n]
                  /\ \A i \in 0 .. n :
                       runs[i] = IF i = 0 THEN <<>> ELSE WithIndex(runs[i - 1], s[i])
  <2> HIDE DEF s, n
  <2>1. Len(s) \in Nat
    BY <1>2
  <2>2. PICK runs : /\ CoalesceList(s) = runs[Len(s)]
                    /\ \A i \in 0 .. Len(s) :
                         runs[i] = IF i = 0 THEN <<>> ELSE WithIndex(runs[i - 1], s[i])
    BY <2>1, CoalesceListRecursion, Zenon
  <2>3. /\ CoalesceList(s) = runs[n]
        /\ \A i \in 0 .. n :
             runs[i] = IF i = 0 THEN <<>> ELSE WithIndex(runs[i - 1], s[i])
    BY <1>2, <2>2
  <2> QED
    BY <2>3, Zenon
<1>4. RunsSoFar(S, 0, runs[0])
  <2>1. runs[0] = <<>>
    BY <1>2, <1>3
  <2> QED
    BY <2>1 DEF RunsSoFar
<1>5. ASSUME NEW i \in 1 .. n, RunsSoFar(S, i - 1, runs[i - 1])
      PROVE  RunsSoFar(S, i, runs[i])
  <2>1. i \in 0 .. n /\ i # 0
    BY <1>2
  <2>2. runs[i] = WithIndex(runs[i - 1], Sorted(S)[i])
    BY <1>3, <2>1
  <2> QED
    BY <1>1, <1>5, <2>2, WithIndexFacts
<1> HIDE DEF s, n
<1>6. RunsSoFar(S, n, runs[n])
  <2> DEFINE lost == {i \in 0 .. n : ~ RunsSoFar(S, i, runs[i])}
  <2>1. lost = {}
    <3> SUFFICES ASSUME lost # {}
                 PROVE  FALSE
      OBVIOUS
    <3>1. lost \subseteq Nat
      BY <1>2
    <3>2. PICK i \in lost : \A m \in lost : i <= m
      <4> HIDE DEF lost
      <4> QED
        BY <3>1, LeastMember
    <3>3. i # 0
      BY <1>4
    <3>4. i \in 1 .. n /\ i - 1 \in 0 .. n /\ ~(i <= i - 1)
      BY <1>2, <3>3
    <3>5. i - 1 \notin lost
      <4> HIDE DEF lost
      <4> QED
        BY <3>2, <3>4
    <3> QED
      BY <1>5, <3>4, <3>5
  <2> QED
    BY <1>2, <2>1
<1> DEFINE list == runs[n]
           starts(p) == p[1] <= p[2] /\ p[1] .. p[2] \subseteq S /\ p[1] - 1 \notin S
           ends(p)   == p[2] + 1 \notin S
<1> HIDE DEF list
<1>7. /\ list \in Seq(Int \X Int) /\ Len(list) \in Nat
      /\ \A j \in 1 .. Len(list) : starts(list[j])
      /\ \A j \in 1 .. Len(list) - 1 : ends(list[j])
      /\ n > 0 => list[Len(list)][2] = s[n]
      /\ n = 0 <=> Len(list) = 0
      /\ \A k \in 1 .. n : \E j \in 1 .. Len(list) : s[k] \in list[j][1] .. list[j][2]
  <2>1. RunsSoFar(S, n, list)
    BY <1>6 DEF list
  <2>2. list \in Seq(Int \X Int) /\ (n = 0 <=> Len(list) = 0)
    BY <2>1, Zenon DEF RunsSoFar
  <2>3. Len(list) \in Nat
    BY <2>2
  <2>4. /\ \A j \in 1 .. Len(list) : starts(list[j])
        /\ \A j \in 1 .. Len(list) - 1 : ends(list[j])
    BY <2>1, Zenon DEF RunsSoFar
  <2>5. n > 0 => list[Len(list)][2] = s[n]
    BY <2>1, Zenon DEF RunsSoFar, s
  <2>6. \A k \in 1 .. n : \E j \in 1 .. Len(list) : s[k] \in list[j][1] .. list[j][2]
    BY <2>1, Zenon DEF RunsSoFar, s
  <2> QED
    BY <2>2, <2>3, <2>4, <2>5, <2>6
<1>8. ASSUME NEW j \in 1 .. Len(list)
      PROVE  starts(list[j]) /\ ends(list[j]) /\ list[j] \in Int \X Int
  <2>1. starts(list[j]) /\ list[j] \in Int \X Int
    BY <1>7
  <2>2. CASE j # Len(list)
    <3>1. j \in 1 .. Len(list) - 1
      BY <1>7, <2>2
    <3> QED
      BY <1>7, <2>1, <3>1
  <2>3. CASE j = Len(list)
    <3>1. n > 0 /\ list[j][2] = s[n]
      BY <1>2, <1>7, <2>3
    <3>2. s[n] + 1 \notin S
      <4> SUFFICES ASSUME NEW k \in 1 .. n, s[k] = s[n] + 1
                   PROVE  FALSE
        BY <1>2
      <4>1. n \in 1 .. n /\ (k = n \/ k < n)
        BY <1>2, <3>1
      <4>2. s[n] \in Int /\ s[k] \in Int
        BY <1>1, <1>2, <4>1
      <4> QED
        BY <1>2, <4>1, <4>2
    <3> QED
      BY <2>1, <3>1, <3>2
  <2> QED
    BY <2>2, <2>3
<1>9. ASSUME NEW j \in 1 .. Len(list), NEW x \in list[j][1] .. list[j][2]
      PROVE  x \in S /\ RunOf(x, S) = list[j][1] .. list[j][2]
  <2> DEFINE first == list[j][1]
             last  == list[j][2]
  <2>1. /\ first \in Int /\ last \in Int /\ x \in Int /\ S \in SUBSET Int
        /\ first .. last \subseteq S /\ first - 1 \notin S /\ last + 1 \notin S
    BY <1>1, <1>8
  <2>2. x \in first .. last
    OBVIOUS
  <2> HIDE DEF first, last
  <2>3. RunOf(x, S) = first .. last
    BY <2>1, <2>2, MaximalIsRun, SMTT(30)
  <2>4. x \in S
    BY <2>1, <2>2, Zenon
  <2> QED
    BY <2>3, <2>4, Zenon DEF first, last
<1>10. \A j \in 1 .. Len(list) : list[j][1] .. list[j][2] \in Coalesce(S)
  <2> SUFFICES ASSUME NEW j \in 1 .. Len(list)
               PROVE  list[j][1] .. list[j][2] \in Coalesce(S)
    OBVIOUS
  <2>1. list[j][1] \in list[j][1] .. list[j][2]
    BY <1>8
  <2>2. list[j][1] \in S /\ RunOf(list[j][1], S) = list[j][1] .. list[j][2]
    BY <1>9, <2>1
  <2> QED
    BY <2>2 DEF Coalesce
<1>11. \A r \in Coalesce(S) : \E j \in 1 .. Len(list) : r = list[j][1] .. list[j][2]
  <2> SUFFICES ASSUME NEW x \in S
               PROVE  \E j \in 1 .. Len(list) : RunOf(x, S) = list[j][1] .. list[j][2]
    BY DEF Coalesce
  <2>1. PICK k \in 1 .. n : s[k] = x
    BY <1>2
  <2>2. PICK j \in 1 .. Len(list) : x \in list[j][1] .. list[j][2]
    BY <1>7, <2>1
  <2> QED
    BY <1>9, <2>2
<1>12. CoalesceList(Sorted(S)) = list
  BY <1>3 DEF list, s
<1>13. {list[i][1] .. list[i][2] : i \in 1 .. Len(list)} = Coalesce(S)
  BY <1>10, <1>11
<1> QED
  BY <1>12, <1>13

-----------------------------------------------------------------------------
(* Bodies.                                                                 *)

LEMMA PositionsFacts ==
  ASSUME NEW start \in Int, NEW end \in Int, start <= end
  PROVE  /\ Positions(start, end) \in Seq(Int)
         /\ Len(Positions(start, end)) = end - start
         /\ \A i \in 1 .. end - start : Positions(start, end)[i] = start + i - 1
<1>1. end - start \in Nat
  OBVIOUS
<1> QED
  BY <1>1 DEF Positions

\* The bytes of a part of a range are those of a smaller range.
LEMMA SubPositions ==
  ASSUME NEW start \in Int, NEW end \in Int, NEW m \in Nat, NEW n \in Nat,
         m <= n, start + n <= end
  PROVE  SubSeq(Positions(start, end), m + 1, n) = Positions(start + m, start + n)
<1> DEFINE whole == Positions(start, end)
           some  == SubSeq(whole, m + 1, n)
           part  == Positions(start + m, start + n)
<1>1. /\ whole \in Seq(Int) /\ Len(whole) = end - start
      /\ \A i \in 1 .. end - start : whole[i] = start + i - 1
  <2>1. start <= end
    OBVIOUS
  <2> QED
    BY <2>1, PositionsFacts
<1>2. /\ part \in Seq(Int) /\ Len(part) = n - m
      /\ \A i \in 1 .. n - m : part[i] = (start + m) + i - 1
  <2> DEFINE from == start + m
             to   == start + n
  <2>1. from \in Int /\ to \in Int /\ from <= to /\ to - from = n - m
    OBVIOUS
  <2> HIDE DEF from, to
  <2>2. /\ Positions(from, to) \in Seq(Int) /\ Len(Positions(from, to)) = to - from
        /\ \A i \in 1 .. to - from : Positions(from, to)[i] = from + i - 1
    BY <2>1, PositionsFacts
  <2>3. /\ Positions(from, to) \in Seq(Int) /\ Len(Positions(from, to)) = n - m
        /\ \A i \in 1 .. n - m : Positions(from, to)[i] = from + i - 1
    BY <2>1, <2>2, Zenon
  <2> QED
    BY <2>3 DEF from, to
<1> HIDE DEF whole, part
<1>3. /\ some \in Seq(Int) /\ Len(some) = n - m
      /\ \A i \in 1 .. n - m : some[i] = whole[(m + 1) + i - 1]
  <2>1. \A i \in m + 1 .. n : i \in 1 .. end - start
    OBVIOUS
  <2>2. \A i \in m + 1 .. n : whole[i] \in Int
    BY <1>1, <2>1
  <2>3. /\ some \in Seq(Int) /\ Len(some) = IF m + 1 <= n THEN n - (m + 1) + 1 ELSE 0
        /\ \A i \in 1 .. n - (m + 1) + 1 : some[i] = whole[(m + 1) + i - 1]
    BY <2>2, SubSeqProperties
  <2>4. n - (m + 1) + 1 = n - m /\ (~(m + 1 <= n) => n - m = 0)
    OBVIOUS
  <2> QED
    BY <2>3, <2>4
<1>4. ASSUME NEW i \in 1 .. n - m
      PROVE  some[i] = part[i]
  <2>1. (m + 1) + i - 1 \in 1 .. end - start
    OBVIOUS
  <2>2. some[i] = start + ((m + 1) + i - 1) - 1
    BY <1>1, <1>3, <2>1
  <2> QED
    BY <1>2, <2>2
<1> HIDE DEF some
<1>5. some = part
  BY <1>2, <1>3, <1>4, SeqEqual
<1> QED
  BY <1>5 DEF some, whole, part

LEMMA JoinedPositions ==
  ASSUME NEW a \in Int, NEW b \in Int, NEW c \in Int, a <= b, b <= c
  PROVE  Positions(a, b) \o Positions(b, c) = Positions(a, c)
<1> DEFINE s == Positions(a, b)
           t == Positions(b, c)
           u == Positions(a, c)
<1>1. /\ s \in Seq(Int) /\ Len(s) = b - a /\ \A i \in 1 .. b - a : s[i] = a + i - 1
      /\ t \in Seq(Int) /\ Len(t) = c - b /\ \A i \in 1 .. c - b : t[i] = b + i - 1
  BY PositionsFacts
<1>2. u \in Seq(Int) /\ Len(u) = c - a /\ \A i \in 1 .. c - a : u[i] = a + i - 1
  <2>1. a <= c
    OBVIOUS
  <2> QED
    BY <2>1, PositionsFacts
<1> HIDE DEF s, t, u
<1>3. /\ s \o t \in Seq(Int) /\ Len(s \o t) = Len(s) + Len(t)
      /\ \A i \in 1 .. Len(s) + Len(t) :
           (s \o t)[i] = IF i <= Len(s) THEN s[i] ELSE t[i - Len(s)]
  BY <1>1, ConcatProperties
<1>4. Len(s) + Len(t) = c - a
  BY <1>1
<1>5. ASSUME NEW i \in 1 .. c - a
      PROVE  (s \o t)[i] = u[i]
  <2>1. CASE i <= b - a
    <3>1. (s \o t)[i] = s[i] /\ i \in 1 .. b - a
      BY <1>1, <1>3, <1>4, <2>1
    <3> QED
      BY <1>1, <1>2, <3>1
  <2>2. CASE ~(i <= b - a)
    <3>1. (s \o t)[i] = t[i - (b - a)] /\ i - (b - a) \in 1 .. c - b
      BY <1>1, <1>3, <1>4, <2>2
    <3>2. t[i - (b - a)] = b + (i - (b - a)) - 1
      BY <1>1, <3>1
    <3> QED
      BY <1>2, <3>1, <3>2
  <2> QED
    BY <2>1, <2>2
<1>6. s \o t = u
  BY <1>2, <1>3, <1>4, <1>5, SeqEqual
<1> QED
  BY <1>6 DEF s, t, u

=============================================================================
