----------------------------- MODULE QueueLemmas -----------------------------
(***************************************************************************)
(* The queue of an asyncio.Semaphore, in which no waiter stands twice:     *)
(* joining it at the end, and leaving it from the front or from wherever   *)
(* one is cancelled.                                                       *)
(***************************************************************************)
EXTENDS SequencesExt, SequenceTheorems, TLAPS

\* RemoveAt as a function of positions.
LEMMA RemoveAtElements ==
  ASSUME NEW S, NEW q \in Seq(S), NEW i \in DOMAIN q
  PROVE  /\ RemoveAt(q, i) \in Seq(S)
         /\ DOMAIN RemoveAt(q, i) = 1 .. Len(q) - 1
         /\ \A j \in 1 .. Len(q) - 1 : RemoveAt(q, i)[j] = IF j < i THEN q[j] ELSE q[j + 1]
<1> DEFINE front == SubSeq(q, 1, i - 1)
           back  == SubSeq(q, i + 1, Len(q))
<1>1. Len(q) \in Nat /\ DOMAIN q = 1 .. Len(q) /\ \A j \in 1 .. Len(q) : q[j] \in S
  BY LenProperties
<1>2. i \in Int /\ 1 <= i /\ i <= Len(q)
  BY <1>1
<1>3. /\ front \in Seq(S) /\ Len(front) = i - 1
      /\ \A j \in 1 .. i - 1 : front[j] = q[j]
  BY <1>1, <1>2, SubSeqProperties
<1>4. /\ back \in Seq(S) /\ Len(back) = Len(q) - i
      /\ \A j \in 1 .. Len(q) - i : back[j] = q[i + j]
  <2>1. \A j \in i + 1 .. Len(q) : q[j] \in S
    BY <1>1, <1>2
  <2>2. /\ back \in Seq(S)
        /\ Len(back) = IF i + 1 <= Len(q) THEN Len(q) - (i + 1) + 1 ELSE 0
        /\ \A j \in 1 .. Len(q) - (i + 1) + 1 : back[j] = q[(i + 1) + j - 1]
    BY <1>1, <1>2, <2>1, SubSeqProperties
  <2>3. \A j \in 1 .. Len(q) - i : back[j] = q[i + j]
    <3> SUFFICES ASSUME NEW j \in 1 .. Len(q) - i PROVE back[j] = q[i + j]
      OBVIOUS
    <3> HIDE DEF back
    <3>1. j \in 1 .. Len(q) - (i + 1) + 1 /\ (i + 1) + j - 1 = i + j
      BY <1>1, <1>2
    <3> QED
      BY <2>2, <3>1
  <2> HIDE DEF back
  <2> QED
    BY <1>1, <1>2, <2>2, <2>3
<1> HIDE DEF front, back
<1>5. /\ front \o back \in Seq(S)
      /\ Len(front \o back) = Len(q) - 1
      /\ \A j \in 1 .. Len(q) - 1 :
           (front \o back)[j] = IF j <= i - 1 THEN front[j] ELSE back[j - (i - 1)]
  <2>1. /\ front \o back \in Seq(S)
        /\ Len(front \o back) = Len(front) + Len(back)
        /\ \A j \in 1 .. Len(front) + Len(back) :
             (front \o back)[j] = IF j <= Len(front) THEN front[j] ELSE back[j - Len(front)]
    BY <1>3, <1>4, ConcatProperties
  <2>2. Len(front) = i - 1 /\ Len(front) + Len(back) = Len(q) - 1
    BY <1>1, <1>2, <1>3, <1>4
  <2> QED
    BY <2>1, <2>2
<1>6. DOMAIN (front \o back) = 1 .. Len(q) - 1
  BY <1>5, LenProperties
<1>7. ASSUME NEW j \in 1 .. Len(q) - 1
      PROVE  (front \o back)[j] = IF j < i THEN q[j] ELSE q[j + 1]
  <2>1. CASE j < i
    BY <1>1, <1>2, <1>3, <1>5, <2>1
  <2>2. CASE ~(j < i)
    <3>1. j - (i - 1) \in 1 .. Len(q) - i /\ i + (j - (i - 1)) = j + 1
      BY <1>1, <1>2, <2>2
    <3>2. (front \o back)[j] = back[j - (i - 1)]
      BY <1>1, <1>2, <1>5, <2>2
    <3> QED
      BY <1>4, <2>2, <3>1, <3>2
  <2> QED
    BY <2>1, <2>2
<1>8. RemoveAt(q, i) = front \o back
  BY DEF RemoveAt, front, back
<1> QED
  BY <1>5, <1>6, <1>7, <1>8

\* A waiter that leaves leaves alone, and the others still stand there once.
LEMMA RemoveAtFacts ==
  ASSUME NEW S, NEW q \in Seq(S), IsInjective(q), NEW i \in DOMAIN q
  PROVE  /\ RemoveAt(q, i) \in Seq(S)
         /\ ToSet(RemoveAt(q, i)) = ToSet(q) \ {q[i]}
         /\ IsInjective(RemoveAt(q, i))
<1> DEFINE p == RemoveAt(q, i)
<1>1. /\ p \in Seq(S)
      /\ DOMAIN p = 1 .. Len(q) - 1
      /\ \A j \in 1 .. Len(q) - 1 : p[j] = IF j < i THEN q[j] ELSE q[j + 1]
  BY RemoveAtElements
<1> HIDE DEF p
<1>2. Len(q) \in Nat /\ DOMAIN q = 1 .. Len(q) /\ i \in Int
  BY LenProperties
<1>3. \A j, k \in DOMAIN q : q[j] = q[k] => j = k
  BY DEF IsInjective
<1>4. \A j \in DOMAIN p : \E k \in DOMAIN q : k # i /\ p[j] = q[k]
  <2> TAKE j \in DOMAIN p
  <2>1. CASE j < i
    BY <1>1, <1>2, <2>1
  <2>2. CASE ~(j < i)
    <3>1. j + 1 \in DOMAIN q /\ j + 1 # i
      BY <1>1, <1>2, <2>2
    <3> QED
      BY <1>1, <2>2, <3>1
  <2> QED
    BY <2>1, <2>2
<1>5. ASSUME NEW k \in DOMAIN q, k # i
      PROVE  \E j \in DOMAIN p : p[j] = q[k]
  <2>1. CASE k < i
    <3>1. k \in DOMAIN p
      BY <1>1, <1>2, <2>1
    <3> QED
      BY <1>1, <2>1, <3>1
  <2>2. CASE k > i
    <3>1. k - 1 \in DOMAIN p /\ ~(k - 1 < i) /\ (k - 1) + 1 = k
      BY <1>1, <1>2, <2>2
    <3> QED
      BY <1>1, <3>1
  <2> QED
    BY <1>2, <1>5, <2>1, <2>2
<1>6. ToSet(p) = ToSet(q) \ {q[i]}
  BY <1>3, <1>4, <1>5 DEF ToSet
<1>7. \A j, k \in DOMAIN p : p[j] = p[k] => j = k
  <2> SUFFICES ASSUME NEW j \in DOMAIN p, NEW k \in DOMAIN p, p[j] = p[k], j # k
               PROVE  FALSE
    OBVIOUS
  <2> DEFINE old(m) == IF m < i THEN m ELSE m + 1
  <2>1. \A m \in DOMAIN p : old(m) \in DOMAIN q /\ p[m] = q[old(m)]
    BY <1>1, <1>2
  <2>2. old(j) # old(k)
    BY <1>1, <1>2
  <2> QED
    BY <1>3, <2>1, <2>2
<1> QED
  BY <1>1, <1>6, <1>7 DEF p, IsInjective

\* Whoever joins was not there before.
LEMMA AppendFacts ==
  ASSUME NEW S, NEW q \in Seq(S), IsInjective(q), NEW x \in S, x \notin ToSet(q)
  PROVE  /\ Append(q, x) \in Seq(S)
         /\ ToSet(Append(q, x)) = ToSet(q) \cup {x}
         /\ IsInjective(Append(q, x))
<1> DEFINE p == Append(q, x)
<1>1. /\ p \in Seq(S)
      /\ Len(p) = Len(q) + 1
      /\ \A j \in 1 .. Len(q) : p[j] = q[j]
      /\ p[Len(q) + 1] = x
  BY AppendProperties
<1> HIDE DEF p
<1>2. /\ Len(q) \in Nat /\ DOMAIN q = 1 .. Len(q)
      /\ DOMAIN p = 1 .. Len(q) + 1
  BY <1>1, LenProperties
<1>3. \A j \in DOMAIN p : j \in DOMAIN q \/ j = Len(q) + 1
  BY <1>2
<1>4. \A j \in DOMAIN q : j \in DOMAIN p /\ p[j] = q[j] /\ p[j] # x
  BY <1>1, <1>2 DEF ToSet
<1>5. Len(q) + 1 \in DOMAIN p
  BY <1>2
<1>6. ToSet(p) = ToSet(q) \cup {x}
  BY <1>1, <1>3, <1>4, <1>5 DEF ToSet
<1>7. IsInjective(p)
  BY <1>1, <1>3, <1>4 DEF IsInjective
<1> QED
  BY <1>1, <1>6, <1>7 DEF p

\* The first leaves.
LEMMA TailFacts ==
  ASSUME NEW S, NEW q \in Seq(S), IsInjective(q), q # <<>>
  PROVE  /\ Head(q) \in ToSet(q)
         /\ Tail(q) \in Seq(S)
         /\ ToSet(Tail(q)) = ToSet(q) \ {Head(q)}
         /\ IsInjective(Tail(q))
<1>1. Len(q) \in Nat \ {0} /\ DOMAIN q = 1 .. Len(q) /\ 1 \in DOMAIN q /\ Head(q) = q[1]
  BY EmptySeq, LenProperties, HeadTailOfSubSeq, SubSeqFull
<1>2. RemoveAt(q, 1) = Tail(q)
  <2>1. SubSeq(q, 1, 0) = <<>> /\ Tail(q) = SubSeq(q, 2, Len(q)) /\ Tail(q) \in Seq(S)
    BY SubSeqEmpty, TailIsSubSeq, HeadTailProperties
  <2> QED
    BY <2>1, ConcatEmptySeq DEF RemoveAt
<1>3. q[1] \in ToSet(q)
  BY <1>1 DEF ToSet
<1>4. /\ RemoveAt(q, 1) \in Seq(S)
      /\ ToSet(RemoveAt(q, 1)) = ToSet(q) \ {q[1]}
      /\ IsInjective(RemoveAt(q, 1))
  BY <1>1, RemoveAtFacts
<1> QED
  BY <1>1, <1>2, <1>3, <1>4

=============================================================================
