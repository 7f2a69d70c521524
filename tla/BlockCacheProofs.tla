--------------------------- MODULE BlockCacheProofs ---------------------------
(***************************************************************************)
(* Proofs about BlockCache, for every file size, block size, cap, touch    *)
(* interval and set of prefetched ranges.                                  *)
(***************************************************************************)
EXTENDS BlockCache, BlockMathLemmas

-----------------------------------------------------------------------------
(* The inductive invariant.                                                *)

BlockEnd(b) == Smaller((b + 1) * BlockSize, FileSize)

\* Blocks a call has fetched and stored.
Stored == missing \ UNION runs

\* Between calls there are no locals.
Cleared ==
  pc = "idle" =>
    /\ ~reading /\ want = {} /\ missing = {} /\ runs = {} /\ protected = {}
    /\ requested = 0

\* A read() is for the blocks of its range.
ReadsItsRange ==
  pc # "idle" /\ reading =>
    /\ span \in Nat \X Nat /\ span[1] < span[2] /\ span[2] <= FileSize
    /\ want = BlockIndices(span[1], span[2], BlockSize)

\* The requests to come are groups of the blocks found missing.  What _evict must
\* leave alone is what has been asked for.
RequestsAhead ==
  /\ runs \subseteq Coalesce(missing)
  /\ pc # "writing" => protected = Stored
  /\ pc = "writing" => runs # {} /\ protected = Stored \cup NextRun
  /\ requested = Cardinality(PositionsOf(protected))

\* The body that _write_run splits is that of its run; whole blocks of it are written.
WritesItsRun ==
  pc = "writing" =>
    /\ body = Positions(RunStart(NextRun), RunEnd(NextRun))
    /\ at = (at \div BlockSize) * BlockSize /\ at < Len(body)
    /\ \A b \in NextRun : b < First(NextRun) + at \div BlockSize => b \in Present

\* A file's mtime is behind its last use by less than an interval, and _touch has
\* not noted a later time for it.
MtimesNearlyRight ==
  /\ \A b \in Present : mtime[b] <= lastUse[b] /\ lastUse[b] < mtime[b] + TouchInterval
  /\ \A b \in Present \cap Blocks : touched[b] <= mtime[b]

\* The two halves of TypeOK, and of the invariant.
DiskOK ==
  /\ maxBytes \in Caps
  /\ Present \subseteq AllBlocks
  /\ mtime \in [AllBlocks -> 0 .. now] /\ lastUse \in [AllBlocks -> 0 .. now]
  /\ touched \in [Blocks -> {Never} \cup 0 .. now]
  /\ now \in 0 .. MaxTime

CallOK ==
  /\ pc \in {"idle", "fetching", "writing"}
  /\ reading \in BOOLEAN
  /\ want \in SUBSET Blocks /\ missing \in SUBSET want /\ protected \in SUBSET missing
  /\ runs \subseteq (SUBSET missing) \ {{}}
  /\ at \in 0 .. Len(body) /\ (pc = "writing" <=> body # <<>>)
  /\ requested \in 0 .. FileSize
  /\ result \in {"none", "ok", "error", "missing", "cancelled"}

DiskInv == DiskOK /\ BlocksHoldTheirBytes /\ MtimesNearlyRight
CallInv == CallOK /\ Cleared /\ ReadsItsRange /\ RequestsAhead
WorkInv == WritesItsRun /\ Stored \subseteq Present

IInv == DiskInv /\ CallInv /\ WorkInv

-----------------------------------------------------------------------------
(* Blocks and their bytes.                                                 *)

LEMMA BlocksFacts ==
  /\ \A b : b \in Blocks <=> b \in Nat /\ b * BlockSize < FileSize
  /\ Blocks \in SUBSET (0 .. FileSize)
<1>1. FileSize \in Nat /\ BlockSize \in Nat \ {0}
  BY BlockCacheAssumption
<1>2. ASSUME NEW b \in Int
      PROVE  0 < (b + 1) * BlockSize <=> b >= 0
  <2>1. 0 < b + 1 <=> 0 * BlockSize < (b + 1) * BlockSize
    BY <1>1, Multiples
  <2>2. 0 * BlockSize = 0
    BY <1>1
  <2> QED
    BY <2>1, <2>2
<1>3. ASSUME NEW b \in Nat, b * BlockSize < FileSize
      PROVE  b <= FileSize /\ 0 < FileSize
  <2>1. b * BlockSize \in Nat /\ b <= b * BlockSize
    BY <1>1
  <2> QED
    BY <1>1, <1>3, <2>1
<1>4. \A b : b \in Blocks <=> b \in Nat /\ b * BlockSize < FileSize
  <2>1. \A b : b \in Blocks <=> /\ b \in Int /\ 0 < FileSize
                                /\ 0 < (b + 1) * BlockSize /\ b * BlockSize < FileSize
    BY <1>1, BlockIndicesFacts DEF Blocks
  <2> QED
    BY <1>2, <1>3, <2>1
<1> QED
  BY <1>1, <1>3, <1>4

LEMMA AllBlocksFacts ==
  /\ Blocks \subseteq AllBlocks
  /\ \A b \in AllBlocks : /\ b \in Int /\ b * BlockSize \in Int /\ BlockEnd(b) \in Int
                          /\ b * BlockSize < BlockEnd(b) /\ BlockEnd(b) <= FileSize
                          /\ BlockEnd(b) <= (b + 1) * BlockSize
                          /\ 0 - NumOthers * BlockSize <= b * BlockSize
<1>1. FileSize \in Nat /\ BlockSize \in Nat \ {0} /\ NumOthers \in Nat
  BY BlockCacheAssumption
<1>2. ASSUME NEW b \in AllBlocks
      PROVE  /\ b \in Int /\ b * BlockSize \in Int /\ (b + 1) * BlockSize \in Int
             /\ b * BlockSize < (b + 1) * BlockSize
             /\ b * BlockSize < FileSize
             /\ 0 - NumOthers * BlockSize <= b * BlockSize
  <2>1. b \in Int /\ 0 - NumOthers <= b /\ (b * BlockSize < FileSize \/ b < 0)
    BY <1>1, BlocksFacts DEF AllBlocks, OtherBlocks
  <2>2. b * BlockSize \in Int /\ (b + 1) * BlockSize = b * BlockSize + BlockSize
    BY <1>1, <2>1, Multiples
  <2>3. b < 0 => b * BlockSize < 0
    <3>1. b < 0 <=> b * BlockSize < 0 * BlockSize
      BY <1>1, <2>1, Multiples
    <3> QED
      BY <1>1, <3>1
  <2>4. 0 - NumOthers * BlockSize <= b * BlockSize
    <3>1. (0 - NumOthers) * BlockSize <= b * BlockSize
      BY <1>1, <2>1, Multiples
    <3>2. (0 - NumOthers) * BlockSize = 0 - NumOthers * BlockSize
      BY <1>1
    <3> QED
      BY <3>1, <3>2
  <2> QED
    BY <1>1, <2>1, <2>2, <2>3, <2>4
<1> QED
  BY <1>1, <1>2 DEF AllBlocks, BlockEnd, Smaller

LEMMA AllBlocksFinite == IsFiniteSet(AllBlocks)
<1>1. FileSize \in Nat /\ NumOthers \in Nat
  BY BlockCacheAssumption
<1>2. AllBlocks \subseteq 0 - NumOthers .. FileSize
  BY <1>1, BlocksFacts DEF AllBlocks, OtherBlocks
<1>3. 0 - NumOthers \in Int /\ FileSize \in Int
  BY <1>1
<1>4. IsFiniteSet(0 - NumOthers .. FileSize)
  BY <1>3, FS_Interval
<1> QED
  BY <1>2, <1>4, FS_Subset

\* A range within the file needs blocks of the file.
LEMMA RangeInFile ==
  ASSUME NEW start \in Nat, NEW end \in Int, end <= FileSize
  PROVE  BlockIndices(start, end, BlockSize) \subseteq Blocks
<1>1. FileSize \in Nat /\ BlockSize \in Nat \ {0}
  BY BlockCacheAssumption
<1>2. ASSUME NEW b \in BlockIndices(start, end, BlockSize)
      PROVE  b \in Blocks
  <2>1. b \in Int /\ start < (b + 1) * BlockSize /\ b * BlockSize < end
    BY <1>1, BlockIndicesFacts
  <2>2. b * BlockSize \in Int /\ (b + 1) * BlockSize \in Int
    BY <1>1, <2>1
  <2>3. 0 < (b + 1) * BlockSize /\ 0 * BlockSize = 0
    BY <1>1, <2>1, <2>2
  <2>4. 0 < b + 1
    BY <1>1, <2>1, <2>3, Multiples
  <2> QED
    BY <1>1, <2>1, <2>2, <2>4, BlocksFacts
<1> QED
  BY <1>2

\* The positions of the bytes of a set of blocks, those of the other URL included.
BytesIn(S) == {p \in 0 - NumOthers * BlockSize .. FileSize - 1 : p \div BlockSize \in S}

LEMMA BytesInFacts ==
  /\ \A S : IsFiniteSet(BytesIn(S)) /\ Cardinality(BytesIn(S)) \in Nat
  /\ \A S : Cardinality(BytesIn(S)) <= TotalSize
  /\ \A S, T : S \cap T = {} =>
       Cardinality(BytesIn(S \cup T)) = Cardinality(BytesIn(S)) + Cardinality(BytesIn(T))
<1> DEFINE all == 0 - NumOthers * BlockSize .. FileSize - 1
<1>1. FileSize \in Nat /\ NumOthers * BlockSize \in Nat
  BY BlockCacheAssumption
<1>2. IsFiniteSet(all) /\ Cardinality(all) = TotalSize
  <2> DEFINE low == 0 - NumOthers * BlockSize
  <2>1. low \in Int /\ low <= 0 /\ TotalSize = FileSize - low
    BY <1>1 DEF TotalSize
  <2> HIDE DEF low
  <2>2. /\ IsFiniteSet(low .. FileSize - 1)
        /\ Cardinality(low .. FileSize - 1) = IF low > FileSize - 1 THEN 0 ELSE FileSize - 1 - low + 1
    BY <1>1, <2>1, FS_Interval
  <2> QED
    BY <1>1, <2>1, <2>2 DEF low
<1>3. \A S : BytesIn(S) \in SUBSET all
  BY DEF BytesIn
<1> HIDE DEF all
<1>4. \A S : /\ IsFiniteSet(BytesIn(S)) /\ Cardinality(BytesIn(S)) \in Nat
             /\ Cardinality(BytesIn(S)) <= TotalSize
  BY <1>2, <1>3, FS_Subset, FS_CardinalityType
<1>5. ASSUME NEW S, NEW T, S \cap T = {}
      PROVE  Cardinality(BytesIn(S \cup T)) = Cardinality(BytesIn(S)) + Cardinality(BytesIn(T))
  <2>1. BytesIn(S \cup T) = BytesIn(S) \cup BytesIn(T) /\ BytesIn(S) \cap BytesIn(T) = {}
    BY <1>5 DEF BytesIn
  <2>2. Cardinality(BytesIn(S) \cup BytesIn(T)) =
          Cardinality(BytesIn(S)) + Cardinality(BytesIn(T)) - Cardinality({})
    BY <1>4, <2>1, FS_Union
  <2>3. Cardinality({}) = 0
    BY FS_EmptySet
  <2>4. Cardinality(BytesIn(S)) \in Int /\ Cardinality(BytesIn(T)) \in Int
    BY <1>4
  <2>5. Cardinality(BytesIn(S) \cup BytesIn(T)) =
          Cardinality(BytesIn(S)) + Cardinality(BytesIn(T))
    BY <2>2, <2>3, <2>4
  <2> QED
    BY <2>1, <2>5
<1> QED
  BY <1>4, <1>5

LEMMA BytesInInterval ==
  ASSUME NEW x \in AllBlocks, NEW y \in AllBlocks, x <= y
  PROVE  /\ BytesIn(x .. y) = x * BlockSize .. BlockEnd(y) - 1
         /\ Cardinality(BytesIn(x .. y)) = BlockEnd(y) - x * BlockSize
         /\ x * BlockSize < BlockEnd(y)
<1>1. FileSize \in Nat /\ BlockSize \in Nat \ {0} /\ NumOthers * BlockSize \in Nat
  BY BlockCacheAssumption
<1>2. /\ x \in Int /\ x * BlockSize \in Int /\ 0 - NumOthers * BlockSize <= x * BlockSize
      /\ y \in Int /\ y * BlockSize \in Int /\ BlockEnd(y) \in Int
      /\ y * BlockSize < BlockEnd(y) /\ BlockEnd(y) <= FileSize
      /\ (y + 1) * BlockSize \in Int
  BY <1>1, AllBlocksFacts
<1>3. x * BlockSize <= y * BlockSize
  BY <1>1, <1>2, Multiples
<1>4. ASSUME NEW p \in Int
      PROVE  p \div BlockSize \in x .. y <=> x * BlockSize <= p /\ p < (y + 1) * BlockSize
  <2>1. /\ p \div BlockSize \in Int
        /\ x <= p \div BlockSize <=> x * BlockSize <= p
        /\ p \div BlockSize <= y <=> p < (y + 1) * BlockSize
    BY <1>1, <1>2, Division
  <2> QED
    BY <1>2, <2>1
<1>5. \A p \in Int : p < BlockEnd(y) <=> p < (y + 1) * BlockSize /\ p < FileSize
  BY <1>1, <1>2 DEF BlockEnd, Smaller
<1>6. BytesIn(x .. y) = x * BlockSize .. BlockEnd(y) - 1
  <2>1. ASSUME NEW p \in BytesIn(x .. y)
        PROVE  p \in x * BlockSize .. BlockEnd(y) - 1
    <3>1. p \in Int /\ p < FileSize /\ p \div BlockSize \in x .. y
      BY <1>1 DEF BytesIn
    <3> QED
      BY <1>2, <1>4, <1>5, <3>1
  <2>2. ASSUME NEW p \in x * BlockSize .. BlockEnd(y) - 1
        PROVE  p \in BytesIn(x .. y)
    <3>1. p \in Int /\ x * BlockSize <= p /\ p < BlockEnd(y)
      BY <1>2
    <3>2. p \div BlockSize \in x .. y /\ p < FileSize
      BY <1>4, <1>5, <3>1
    <3>3. p \in 0 - NumOthers * BlockSize .. FileSize - 1
      BY <1>1, <1>2, <3>1, <3>2
    <3> QED
      BY <3>2, <3>3 DEF BytesIn
  <2> QED
    BY <2>1, <2>2
<1>7. Cardinality(BytesIn(x .. y)) = BlockEnd(y) - x * BlockSize
  <2> DEFINE low == x * BlockSize
             top == BlockEnd(y)
  <2>1. low \in Int /\ top \in Int /\ low < top
    BY <1>2, <1>3
  <2> HIDE DEF low, top
  <2>2. Cardinality(low .. top - 1) = IF low > top - 1 THEN 0 ELSE top - 1 - low + 1
    BY <2>1, FS_Interval
  <2>3. Cardinality(low .. top - 1) = top - low
    BY <2>1, <2>2
  <2> QED
    BY <1>6, <2>3 DEF low, top
<1> QED
  BY <1>2, <1>3, <1>6, <1>7

\* For blocks of the file these are the positions in the file.
LEMMA PositionsOfBlocks ==
  ASSUME NEW S \in SUBSET Blocks
  PROVE  PositionsOf(S) = BytesIn(S)
<1>1. FileSize \in Nat /\ BlockSize \in Nat \ {0} /\ NumOthers * BlockSize \in Nat
  BY BlockCacheAssumption
<1>2. ASSUME NEW p \in Int, p \div BlockSize \in S
      PROVE  0 <= p
  <2>1. 0 <= p \div BlockSize
    <3>1. p \div BlockSize \in Blocks
      BY <1>2
    <3>2. p \div BlockSize \in Nat
      BY <3>1, BlocksFacts, Zenon
    <3> QED
      BY <3>2
  <2>2. 0 * BlockSize <= p
    BY <1>1, <2>1, Division
  <2> QED
    BY <1>1, <2>2
<1>3. \A p : p \in 0 .. FileSize - 1 => p \in 0 - NumOthers * BlockSize .. FileSize - 1
  BY <1>1
<1>4. \A p : p \in 0 - NumOthers * BlockSize .. FileSize - 1 /\ p \div BlockSize \in S
               => p \in 0 .. FileSize - 1
  BY <1>1, <1>2
<1> QED
  BY <1>3, <1>4 DEF PositionsOf, BytesIn

\* The recursion of Bytes has a solution, and only one: files that hold the bytes of
\* their blocks are as many bytes long as those blocks have.
LEMMA BytesCounted ==
  ASSUME NEW files, DOMAIN files \subseteq AllBlocks,
         \A b \in DOMAIN files : files[b] = Positions(b * BlockSize, BlockEnd(b))
  PROVE  Bytes(files) = Cardinality(BytesIn(DOMAIN files))
<1> DEFINE D         == DOMAIN files
           Some(S)   == CHOOSE x \in S : TRUE
           Solves(g) == g = [S \in SUBSET D |->
                               IF S = {} THEN 0 ELSE Len(files[Some(S)]) + g[S \ {Some(S)}]]
           count     == [S \in SUBSET D |-> Cardinality(BytesIn(S))]
           total     == CHOOSE g : Solves(g)
<1>1. ASSUME NEW b \in D
      PROVE  Len(files[b]) = Cardinality(BytesIn({b}))
  <2>1. /\ b \in AllBlocks /\ b \in Int /\ b * BlockSize \in Int /\ BlockEnd(b) \in Int
        /\ b * BlockSize <= BlockEnd(b) /\ b <= b /\ b .. b = {b}
    BY AllBlocksFacts
  <2>2. Cardinality(BytesIn(b .. b)) = BlockEnd(b) - b * BlockSize
    BY <2>1, BytesInInterval
  <2> DEFINE low == b * BlockSize
             top == BlockEnd(b)
  <2>3. low \in Int /\ top \in Int /\ low <= top /\ files[b] = Positions(low, top)
    BY <2>1
  <2> HIDE DEF low, top
  <2>4. Len(Positions(low, top)) = top - low
    BY <2>3, PositionsFacts, Zenon
  <2> QED
    BY <2>1, <2>2, <2>3, <2>4 DEF low, top
<1>2. \A S : S # {} => Some(S) \in S
  OBVIOUS
<1> HIDE DEF Some
<1>3. ASSUME NEW S \in SUBSET D
      PROVE  count[S] = IF S = {} THEN 0 ELSE Len(files[Some(S)]) + count[S \ {Some(S)}]
  <2>1. CASE S = {}
    <3>1. BytesIn({}) = {} /\ Cardinality({}) = 0
      BY FS_EmptySet DEF BytesIn
    <3> QED
      BY <2>1, <3>1
  <2>2. CASE S # {}
    <3> DEFINE b == Some(S)
    <3>1. b \in S /\ b \in D /\ S = (S \ {b}) \cup {b} /\ (S \ {b}) \cap {b} = {}
      BY <1>2, <2>2
    <3> HIDE DEF b, D
    <3>2. Cardinality(BytesIn((S \ {b}) \cup {b})) =
            Cardinality(BytesIn(S \ {b})) + Cardinality(BytesIn({b}))
      BY <3>1, BytesInFacts
    <3>3. Cardinality(BytesIn(S \ {b})) \in Int /\ Cardinality(BytesIn({b})) \in Int
      BY BytesInFacts
    <3>4. Len(files[b]) = Cardinality(BytesIn({b}))
      BY <1>1, <3>1
    <3>5. S \ {b} \in SUBSET D
      OBVIOUS
    <3>6. Cardinality(BytesIn(S)) =
            Cardinality(BytesIn(S \ {b})) + Cardinality(BytesIn({b}))
      BY <3>1, <3>2
    <3>7. count[S] = Cardinality(BytesIn(S)) /\ count[S \ {b}] = Cardinality(BytesIn(S \ {b}))
      BY <3>5
    <3> HIDE DEF count
    <3>8. count[S] = Len(files[b]) + count[S \ {b}]
      BY <3>3, <3>4, <3>6, <3>7
    <3> QED
      BY <2>2, <3>8 DEF b
  <2> QED
    BY <2>1, <2>2
<1>4. Solves(count)
  <2>1. count = [S \in SUBSET D |-> count[S]]
    OBVIOUS
  <2> HIDE DEF count, D
  <2> QED
    BY <1>3, <2>1
<1>5. Solves(total)
  <2>1. \E g : Solves(g)
    BY <1>4
  <2> HIDE DEF Solves
  <2> QED
    BY <2>1
<1>6. Bytes(files) = total[D]
  BY DEF Bytes, Some
<1> HIDE DEF total
<1>7. \A S \in SUBSET D :
        total[S] = IF S = {} THEN 0 ELSE Len(files[Some(S)]) + total[S \ {Some(S)}]
  BY <1>5
<1>8. IsFiniteSet(D)
  BY AllBlocksFinite, FS_Subset
<1> HIDE DEF D, count, Solves
<1>9. \A S \in SUBSET D : total[S] = count[S]
  <2> DEFINE wrong == {S \in SUBSET D : total[S] # count[S]}
             sizes == {Cardinality(S) : S \in wrong}
  <2> SUFFICES ASSUME wrong # {}
               PROVE  FALSE
    OBVIOUS
  <2>1. \A S \in SUBSET D : IsFiniteSet(S) /\ Cardinality(S) \in Nat
    BY <1>8, FS_Subset, FS_CardinalityType
  <2>2. PICK n \in sizes : \A m \in sizes : n <= m
    <3>1. sizes \subseteq Nat /\ sizes # {}
      BY <2>1
    <3> HIDE DEF sizes
    <3> QED
      BY <3>1, LeastMember
  <2>3. PICK S \in wrong : \A T \in wrong : Cardinality(S) <= Cardinality(T)
    BY <2>2
  <2>4. S \in SUBSET D /\ total[S] # count[S]
    OBVIOUS
  <2>5. S # {}
    BY <1>3, <1>7, <2>4
  <2>6. Some(S) \in S /\ S \ {Some(S)} \in SUBSET D
    BY <1>2, <2>4, <2>5
  <2>7. Cardinality(S \ {Some(S)}) = Cardinality(S) - 1
    BY <2>1, <2>4, <2>6, FS_RemoveElement
  <2>8. S \ {Some(S)} \notin wrong
    <3> HIDE DEF wrong
    <3>1. Cardinality(S) \in Nat
      BY <2>1, <2>4
    <3> QED
      BY <2>3, <2>7, <3>1
  <2>9. total[S \ {Some(S)}] = count[S \ {Some(S)}]
    BY <2>6, <2>8
  <2> HIDE DEF wrong
  <2> QED
    BY <1>3, <1>7, <2>4, <2>5, <2>9
<1>10. D \in SUBSET D
  OBVIOUS
<1> QED
  BY <1>6, <1>9, <1>10 DEF D, count

-----------------------------------------------------------------------------
(* The requests of a call.                                                 *)

LEMMA IntervalEnds ==
  ASSUME NEW x \in Int, NEW y \in Int, x <= y
  PROVE  First(x .. y) = x /\ Last(x .. y) = y
<1>1. First(x .. y) \in x .. y /\ \A b \in x .. y : First(x .. y) <= b
  <2>1. x \in x .. y /\ \A b \in x .. y : x <= b
    OBVIOUS
  <2> QED
    BY <2>1 DEF First
<1>2. Last(x .. y) \in x .. y /\ \A b \in x .. y : b <= Last(x .. y)
  <2>1. y \in x .. y /\ \A b \in x .. y : b <= y
    OBVIOUS
  <2> QED
    BY <2>1 DEF Last
<1> QED
  BY <1>1, <1>2

\* What CoalesceFacts says of blocks.
LEMMA CoalesceBlocks ==
  ASSUME NEW S \in SUBSET Blocks
  PROVE  /\ UNION Coalesce(S) = S
         /\ \A r \in Coalesce(S) :
              \E x, y \in S : x <= y /\ r = x .. y /\ x - 1 \notin S /\ y + 1 \notin S
         /\ \A r, q \in Coalesce(S) : r # q => \A a \in r, b \in q : a # b /\ a + 1 # b
<1>1. 0 \in Int /\ FileSize \in Int /\ S \in SUBSET (0 .. FileSize)
  BY BlocksFacts, BlockCacheAssumption
<1> QED
  BY <1>1, CoalesceFacts, ZenonT(30)

LEMMA RunFacts ==
  ASSUME NEW S \in SUBSET Blocks, NEW r \in Coalesce(S)
  PROVE  /\ r # {} /\ r \subseteq S /\ First(r) \in r /\ Last(r) \in r /\ First(r) <= Last(r)
         /\ r = First(r) .. Last(r)
         /\ RunStart(r) = First(r) * BlockSize /\ RunEnd(r) = BlockEnd(Last(r))
         /\ RunStart(r) \in Nat /\ RunEnd(r) \in Nat
         /\ RunStart(r) < RunEnd(r) /\ RunEnd(r) <= FileSize
         /\ Cardinality(PositionsOf(r)) = RunEnd(r) - RunStart(r)
<1>1. FileSize \in Int /\ S \in SUBSET (0 .. FileSize)
  BY BlocksFacts, BlockCacheAssumption
<1>2. PICK x, y \in S : x <= y /\ r = x .. y
  BY CoalesceBlocks
<1>3. x \in Int /\ y \in Int /\ First(r) = x /\ Last(r) = y
  BY <1>1, <1>2, IntervalEnds
<1>4. UNION Coalesce(S) = S
  BY CoalesceBlocks
<1>5. x \in AllBlocks /\ y \in AllBlocks /\ x \in Nat /\ r \in SUBSET Blocks /\ r \subseteq S
  BY <1>1, <1>4, AllBlocksFacts, BlocksFacts
<1>6. RunStart(r) = x * BlockSize /\ RunEnd(r) = BlockEnd(y)
  BY <1>3 DEF RunStart, RunEnd, BlockEnd
<1>7. x * BlockSize \in Nat
  BY <1>5, BlockCacheAssumption
<1>8. /\ x * BlockSize < BlockEnd(y)
      /\ Cardinality(BytesIn(r)) = BlockEnd(y) - x * BlockSize
  BY <1>2, <1>5, BytesInInterval
<1>9. BlockEnd(y) \in Int /\ BlockEnd(y) <= FileSize
  BY <1>5, AllBlocksFacts
<1>10. PositionsOf(r) = BytesIn(r)
  BY <1>5, PositionsOfBlocks
<1>11. x \in r /\ y \in r
  BY <1>2, <1>3
<1>12. RunEnd(r) \in Nat
  BY <1>6, <1>7, <1>8, <1>9
<1> QED
  BY <1>2, <1>3, <1>5, <1>6, <1>7, <1>8, <1>9, <1>10, <1>11, <1>12

LEMMA NextRunFacts ==
  ASSUME NEW S \in SUBSET Blocks, runs \subseteq Coalesce(S), runs # {}
  PROVE  NextRun \in runs /\ \A q \in runs : First(NextRun) <= First(q)
<1> DEFINE firsts == {First(r) : r \in runs}
<1>1. \A r \in runs : First(r) \in Nat
  BY RunFacts, BlocksFacts
<1>2. firsts \subseteq Nat /\ firsts # {}
  BY <1>1
<1>3. PICK x \in firsts : \A y \in firsts : x <= y
  <2> HIDE DEF firsts
  <2> QED
    BY <1>2, LeastMember
<1>4. PICK r \in runs : \A q \in runs : First(r) <= First(q)
  BY <1>3
<1> QED
  BY <1>4 DEF NextRun

-----------------------------------------------------------------------------
(* Steps that leave the disk, or the call in progress, alone.              *)

diskVars == <<maxBytes, disk, mtime, touched, now, lastUse>>

LEMMA DiskUnchanged ==
  ASSUME DiskInv, UNCHANGED diskVars
  PROVE  DiskInv'
BY DEF DiskInv, DiskOK, BlocksHoldTheirBytes, MtimesNearlyRight, diskVars, Present

LEMMA CallUnchanged ==
  ASSUME CallInv, WorkInv, UNCHANGED <<pc, callVars, result, disk>>
  PROVE  CallInv' /\ WorkInv'
<1>1. NextRun' = NextRun
  BY DEF callVars, NextRun
<1>2. Stored' = Stored /\ Present' = Present /\ PositionsOf(protected)' = PositionsOf(protected)
  BY DEF callVars, Stored, Present, PositionsOf
<1>3. CallOK' /\ Cleared' /\ ReadsItsRange'
  BY DEF callVars, CallInv, CallOK, Cleared, ReadsItsRange
<1>4. RequestsAhead'
  BY <1>1, <1>2 DEF callVars, CallInv, RequestsAhead
<1>5. WritesItsRun'
  BY <1>1, <1>2 DEF callVars, WorkInv, WritesItsRun
<1> QED
  BY <1>2, <1>3, <1>4, <1>5 DEF CallInv, WorkInv

LEMMA NoPositions == PositionsOf({}) = {} /\ Cardinality(PositionsOf({})) = 0
<1>1. PositionsOf({}) = {}
  BY DEF PositionsOf
<1> QED
  BY <1>1, FS_EmptySet

\* However a call ends.
LEMMA EndFacts ==
  ASSUME NEW res \in {"none", "ok", "error", "missing", "cancelled"}, End(res)
  PROVE  CallInv' /\ WorkInv'
<1>1. /\ pc' = "idle" /\ result' = res /\ reading' = FALSE
      /\ want' = {} /\ missing' = {} /\ runs' = {} /\ protected' = {}
      /\ body' = <<>> /\ at' = 0 /\ requested' = 0
  BY DEF End
<1>2. FileSize \in Nat
  BY BlockCacheAssumption
<1>3. Stored' = {} /\ PositionsOf(protected)' = PositionsOf({})
  BY <1>1 DEF Stored, PositionsOf
<1>4. CallOK'
  <2>1. at' \in 0 .. Len(body') /\ requested' \in 0 .. FileSize
    BY <1>1, <1>2
  <2>2. (pc' = "writing" <=> body' # <<>>) /\ pc' \in {"idle", "fetching", "writing"}
    BY <1>1
  <2>3. /\ reading' \in BOOLEAN /\ want' \in SUBSET Blocks /\ missing' \in SUBSET want'
        /\ protected' \in SUBSET missing' /\ runs' \subseteq (SUBSET missing') \ {{}}
    BY <1>1
  <2>4. result' \in {"none", "ok", "error", "missing", "cancelled"}
    BY <1>1
  <2> QED
    BY <2>1, <2>2, <2>3, <2>4 DEF CallOK
<1>5. Cleared' /\ ReadsItsRange' /\ WritesItsRun'
  BY <1>1 DEF Cleared, ReadsItsRange, WritesItsRun
<1>6. RequestsAhead'
  BY <1>1, <1>3, NoPositions DEF RequestsAhead
<1> QED
  BY <1>3, <1>4, <1>5, <1>6 DEF CallInv, WorkInv

\* However a call begins.
LEMMA BeginFacts ==
  ASSUME NEW W \in SUBSET Blocks, NEW isRead \in BOOLEAN, NEW range,
         isRead => /\ range \in Nat \X Nat /\ range[1] < range[2] /\ range[2] <= FileSize
                   /\ W = BlockIndices(range[1], range[2], BlockSize),
         Begin(W, isRead, range)
  PROVE  CallInv' /\ WorkInv'
<1> DEFINE M == MissingBlocks(W)
<1>1. /\ pc' = "fetching" /\ reading' = isRead /\ span' = range /\ want' = W
      /\ missing' = M /\ runs' = Coalesce(M) /\ protected' = {}
      /\ body' = <<>> /\ at' = 0 /\ requested' = 0 /\ result' = "none"
  BY DEF Begin
<1>2. FileSize \in Nat /\ M \subseteq W /\ M \in SUBSET Blocks
  BY BlockCacheAssumption DEF MissingBlocks
<1> HIDE DEF M
<1>3. UNION Coalesce(M) = M
  BY <1>2, CoalesceBlocks
<1>4. \A r \in Coalesce(M) : r # {} /\ r \subseteq M
  BY <1>2, RunFacts
<1>5. Stored' = {} /\ PositionsOf(protected)' = PositionsOf({})
  BY <1>1, <1>3 DEF Stored, PositionsOf
<1>6. CallOK'
  BY <1>1, <1>2, <1>4 DEF CallOK
<1>7. Cleared' /\ ReadsItsRange' /\ WritesItsRun'
  BY <1>1 DEF Cleared, ReadsItsRange, WritesItsRun
<1>8. RequestsAhead'
  BY <1>1, <1>5, NoPositions DEF RequestsAhead
<1> QED
  BY <1>5, <1>6, <1>7, <1>8 DEF CallInv, WorkInv

LEMMA ReadKeeps ==
  ASSUME IInv, NEW start \in 0 .. FileSize, NEW end \in 0 .. FileSize + 1, Read(start, end)
  PROVE  IInv'
<1>1. FileSize \in Nat /\ start \in Nat /\ end \in Nat
  BY BlockCacheAssumption
<1>2. ASSUME NEW res \in {"ok", "error"}, EndAtOnce(res)
      PROVE  IInv'
  <2>1. DiskInv'
    BY <1>2, DiskUnchanged DEF IInv, EndAtOnce, diskVars
  <2>2. NextRun' = NextRun /\ Stored' = Stored /\ Present' = Present
    BY <1>2 DEF EndAtOnce, callVars, NextRun, Stored, Present
  <2>3. PositionsOf(protected)' = PositionsOf(protected)
    BY <1>2 DEF EndAtOnce, callVars, PositionsOf
  <2>4. CallOK' /\ Cleared' /\ ReadsItsRange'
    BY <1>2 DEF EndAtOnce, IInv, callVars, CallInv, CallOK, Cleared, ReadsItsRange
  <2>5. RequestsAhead'
    BY <1>2, <2>2, <2>3 DEF EndAtOnce, IInv, callVars, CallInv, RequestsAhead
  <2>6. WritesItsRun'
    BY <1>2, <2>2 DEF EndAtOnce, IInv, callVars, WorkInv, WritesItsRun
  <2> QED
    BY <2>1, <2>2, <2>4, <2>5, <2>6 DEF IInv, CallInv, WorkInv
<1>3. ASSUME end <= FileSize, start < end,
             Begin(BlockIndices(start, end, BlockSize), TRUE, <<start, end>>)
      PROVE  IInv'
  <2>1. BlockIndices(start, end, BlockSize) \in SUBSET Blocks
    BY <1>1, <1>3, RangeInFile
  <2>2. CallInv' /\ WorkInv'
    BY <1>1, <1>3, <2>1, BeginFacts
  <2>3. DiskInv'
    BY <1>3, DiskUnchanged DEF IInv, Begin, diskVars
  <2> QED
    BY <2>2, <2>3 DEF IInv
<1> QED
  BY <1>2, <1>3 DEF Read

\* prefetch() clamps its ranges to the file.
LEMMA RangeBlocksInFile ==
  ASSUME NEW ranges \in SUBSET PrefetchRanges
  PROVE  UNION {RangeBlocks(range) : range \in ranges} \in SUBSET Blocks
<1>1. FileSize \in Nat /\ PrefetchRanges \subseteq Int \X Nat
  BY BlockCacheAssumption
<1>2. ASSUME NEW range \in ranges
      PROVE  RangeBlocks(range) \subseteq Blocks
  <2> DEFINE from == Larger(range[1], 0)
             to   == Smaller(range[1] + range[2], FileSize)
  <2>1. range[1] \in Int /\ range[2] \in Nat
    BY <1>1
  <2>2. from \in Nat /\ to \in Int /\ to <= FileSize
    BY <1>1, <2>1 DEF Larger, Smaller
  <2> HIDE DEF from, to
  <2>3. BlockIndices(from, to, BlockSize) \subseteq Blocks
    BY <2>2, RangeInFile
  <2> QED
    BY <2>3 DEF RangeBlocks, from, to
<1> QED
  BY <1>2

LEMMA PrefetchKeeps ==
  ASSUME IInv, NEW ranges \in SUBSET PrefetchRanges, Prefetch(ranges)
  PROVE  IInv'
<1> DEFINE W == UNION {RangeBlocks(range) : range \in ranges}
<1>1. W \in SUBSET Blocks
  BY RangeBlocksInFile
<1>2. Begin(W, FALSE, <<0, 0>>)
  BY DEF Prefetch
<1> HIDE DEF W
<1>3. CallInv' /\ WorkInv'
  BY <1>1, <1>2, BeginFacts
<1>4. DiskInv'
  BY <1>2, DiskUnchanged DEF IInv, Begin, diskVars
<1> QED
  BY <1>3, <1>4 DEF IInv

-----------------------------------------------------------------------------
(* A request.                                                              *)

LEMMA StoredIsApart ==
  ASSUME CallInv, runs # {}
  PROVE  /\ missing \in SUBSET Blocks /\ runs \subseteq Coalesce(missing)
         /\ NextRun \in runs /\ NextRun \in Coalesce(missing) /\ NextRun \subseteq missing
         /\ NextRun \cap Stored = {}
         /\ missing \ UNION (runs \ {NextRun}) = Stored \cup NextRun
<1>1. missing \in SUBSET Blocks /\ runs \subseteq Coalesce(missing)
  BY DEF CallInv, CallOK, RequestsAhead
<1>2. NextRun \in runs
  BY <1>1, NextRunFacts
<1>3. NextRun \subseteq missing
  BY <1>1, <1>2, RunFacts
<1>4. \A r, q \in Coalesce(missing) : r # q => \A a \in r, b \in q : a # b /\ a + 1 # b
  BY <1>1, CoalesceBlocks
<1>5. \A r \in runs : r # NextRun => r \cap NextRun = {}
  BY <1>1, <1>2, <1>4
<1>6. missing \ UNION (runs \ {NextRun}) = Stored \cup NextRun
  BY <1>2, <1>3, <1>5 DEF Stored
<1> QED
  BY <1>1, <1>2, <1>3, <1>6 DEF Stored

LEMMA PositionsAdd ==
  ASSUME NEW S \in SUBSET Blocks, NEW T \in SUBSET Blocks, S \cap T = {}
  PROVE  Cardinality(PositionsOf(S \cup T)) =
           Cardinality(PositionsOf(S)) + Cardinality(PositionsOf(T))
<1>1. S \cup T \in SUBSET Blocks
  OBVIOUS
<1> QED
  BY <1>1, PositionsOfBlocks, BytesInFacts

LEMMA PositionsBound ==
  ASSUME NEW S
  PROVE  Cardinality(PositionsOf(S)) \in 0 .. FileSize
<1>1. FileSize \in Nat
  BY BlockCacheAssumption
<1>2. IsFiniteSet(0 .. FileSize - 1) /\ Cardinality(0 .. FileSize - 1) = FileSize
  <2>1. /\ IsFiniteSet(0 .. FileSize - 1)
        /\ Cardinality(0 .. FileSize - 1) = IF 0 > FileSize - 1 THEN 0 ELSE FileSize - 1 - 0 + 1
    BY <1>1, FS_Interval
  <2> QED
    BY <1>1, <2>1
<1>3. PositionsOf(S) \in SUBSET (0 .. FileSize - 1)
  BY DEF PositionsOf
<1>4. /\ Cardinality(PositionsOf(S)) \in Nat
      /\ Cardinality(PositionsOf(S)) <= Cardinality(0 .. FileSize - 1)
  BY <1>2, <1>3, FS_Subset, FS_CardinalityType
<1> QED
  BY <1>1, <1>2, <1>4

\* Of the bodies a transport may bring, _check_fetched lets only the right one through.
LEMMA AcceptedIsRight ==
  ASSUME NEW S \in SUBSET Blocks, NEW r \in Coalesce(S),
         NEW bytes \in Bodies(r), Acceptable(bytes, r)
  PROVE  bytes = Positions(RunStart(r), RunEnd(r))
<1>1. /\ RunStart(r) \in Nat /\ RunEnd(r) \in Nat /\ FileSize \in Nat
      /\ RunStart(r) < RunEnd(r) /\ RunEnd(r) <= FileSize
  BY RunFacts, BlockCacheAssumption
<1>2. Len(bytes) = RunEnd(r) - RunStart(r)
  BY DEF Acceptable
<1> DEFINE a == RunStart(r)
           z == RunEnd(r)
<1> HIDE DEF a, z
<1>3. CASE bytes = Positions(a, z - 1)
  <2>1. a \in Int /\ z - 1 \in Int /\ a <= z - 1
    BY <1>1 DEF a, z
  <2>2. Len(bytes) = (z - 1) - a
    BY <1>3, <2>1, PositionsFacts
  <2> QED
    BY <1>1, <1>2, <2>2 DEF a, z
<1>4. CASE bytes = Positions(0, FileSize)
  <2>1. Len(bytes) = FileSize - 0
    BY <1>1, <1>4, PositionsFacts
  <2>2. RunStart(r) = 0 /\ RunEnd(r) = FileSize
    BY <1>1, <1>2, <2>1
  <2> QED
    BY <1>4, <2>2
<1> QED
  BY <1>3, <1>4 DEF Bodies, a, z

LEMMA FetchRunKeeps ==
  ASSUME IInv, FetchRun
  PROVE  IInv'
<1>1. /\ pc = "fetching" /\ runs # {} /\ runs' = runs /\ pc' = "writing" /\ at' = 0
      /\ protected' = protected \cup NextRun
      /\ requested' = requested + RunEnd(NextRun) - RunStart(NextRun)
      /\ UNCHANGED <<maxBytes, disk, mtime, touched, now, reading, span, want, missing, result, lastUse>>
  BY DEF FetchRun, Protect
<1>2. /\ missing \in SUBSET Blocks /\ NextRun \in Coalesce(missing) /\ NextRun \subseteq missing
      /\ NextRun \cap Stored = {} /\ protected = Stored /\ Stored \subseteq missing
  BY <1>1, StoredIsApart DEF IInv, CallInv, RequestsAhead, Stored
<1>3. body' = Positions(RunStart(NextRun), RunEnd(NextRun))
  BY <1>2, AcceptedIsRight DEF FetchRun
<1>4. /\ RunStart(NextRun) \in Nat /\ RunEnd(NextRun) \in Nat
      /\ RunStart(NextRun) < RunEnd(NextRun)
      /\ Cardinality(PositionsOf(NextRun)) = RunEnd(NextRun) - RunStart(NextRun)
      /\ First(NextRun) \in Int /\ \A b \in NextRun : b \in Int /\ First(NextRun) <= b
  <2>1. /\ NextRun = First(NextRun) .. Last(NextRun)
        /\ First(NextRun) \in NextRun /\ NextRun \subseteq Blocks
    BY <1>2, RunFacts
  <2>2. \A b \in Blocks : b \in Int
    BY BlocksFacts
  <2>3. First(NextRun) \in Int /\ \A b \in NextRun : b \in Int /\ First(NextRun) <= b
    <3>1. \A x, y \in Int : \A b \in x .. y : b \in Int /\ x <= b
      OBVIOUS
    <3>2. First(NextRun) \in Int /\ Last(NextRun) \in Int
      BY <1>2, <2>1, <2>2, RunFacts
    <3> QED
      BY <2>1, <3>1, <3>2, Zenon
  <2> QED
    BY <1>2, <2>3, RunFacts
<1>5. Len(body') = RunEnd(NextRun) - RunStart(NextRun) /\ Len(body') > 0 /\ Len(body') \in Nat
  <2>1. RunStart(NextRun) \in Int /\ RunEnd(NextRun) \in Int /\ RunStart(NextRun) <= RunEnd(NextRun)
    BY <1>4
  <2>2. Len(body') = RunEnd(NextRun) - RunStart(NextRun)
    BY <1>3, <2>1, PositionsFacts, Zenon
  <2> QED
    BY <1>4, <2>2
<1>6. NextRun' = NextRun /\ Stored' = Stored /\ Present' = Present
  BY <1>1 DEF NextRun, Stored, Present
<1>7. requested' = Cardinality(PositionsOf(protected'))
  <2>1. Cardinality(PositionsOf(protected \cup NextRun)) =
          Cardinality(PositionsOf(protected)) + Cardinality(PositionsOf(NextRun))
    BY <1>2, PositionsAdd
  <2>2. requested = Cardinality(PositionsOf(protected)) /\ requested \in Int
    BY PositionsBound DEF IInv, CallInv, CallOK, RequestsAhead
  <2> QED
    BY <1>1, <1>4, <2>1, <2>2
<1>8. requested' \in 0 .. FileSize
  BY <1>7, PositionsBound
<1>9. CallOK'
  <2>1. body' # <<>>
    BY <1>5
  <2>2. at' \in 0 .. Len(body')
    BY <1>1, <1>5
  <2> QED
    BY <1>1, <1>2, <1>8, <2>1, <2>2 DEF IInv, CallInv, CallOK
<1>10. Cleared' /\ ReadsItsRange'
  BY <1>1 DEF IInv, CallInv, Cleared, ReadsItsRange
<1>11. RequestsAhead'
  <2>1. requested' = Cardinality(PositionsOf(protected)')
    BY <1>7 DEF PositionsOf
  <2> QED
    BY <1>1, <1>2, <1>6, <2>1 DEF IInv, CallInv, RequestsAhead
<1>12. WritesItsRun'
  <2>1. at' \div BlockSize = 0 /\ at' = (at' \div BlockSize) * BlockSize
    <3>1. BlockSize \in Nat \ {0} /\ 0 * BlockSize = 0
      BY BlockCacheAssumption
    <3>2. (0 * BlockSize) \div BlockSize = 0
      BY <3>1, WholeMultiple
    <3> QED
      BY <1>1, <3>1, <3>2
  <2>2. at' < Len(body')
    BY <1>1, <1>5
  <2>3. \A b \in NextRun : ~(b < First(NextRun) + 0)
    BY <1>4
  <2>4. \A b \in NextRun : ~(b < First(NextRun) + at' \div BlockSize)
    BY <2>1, <2>3
  <2> QED
    BY <1>3, <1>6, <2>1, <2>2, <2>4 DEF WritesItsRun
<1>13. DiskInv'
  BY <1>1, DiskUnchanged DEF IInv, diskVars
<1> QED
  BY <1>6, <1>9, <1>10, <1>11, <1>12, <1>13 DEF IInv, CallInv, WorkInv

-----------------------------------------------------------------------------
(* A block is written.                                                     *)

Index == First(NextRun) + at \div BlockSize
Chunk == SubSeq(body, at + 1, Smaller(at + BlockSize, Len(body)))
Files == [b \in Present \cup {Index} |-> IF b = Index THEN Chunk ELSE disk[b]]
Times == [mtime EXCEPT ![Index] = now]

\* The piece of the body that goes into the next block is that block, and the last
\* piece goes into the last block of the run.
LEMMA ChunkFacts ==
  ASSUME IInv, pc = "writing"
  PROVE  /\ Index \in NextRun /\ Index \in Blocks
         /\ Chunk = Positions(Index * BlockSize, BlockEnd(Index))
         /\ at + BlockSize < Len(body) =>
              /\ at + BlockSize \in 0 .. Len(body)
              /\ (at + BlockSize) \div BlockSize = at \div BlockSize + 1
              /\ at + BlockSize = (at \div BlockSize + 1) * BlockSize
         /\ ~(at + BlockSize < Len(body)) => \A b \in NextRun : b <= Index
<1> DEFINE x == First(NextRun)
           y == Last(NextRun)
           k == at \div BlockSize
<1>1. /\ missing \in SUBSET Blocks /\ NextRun \in Coalesce(missing)
      /\ NextRun \subseteq missing
      /\ body = Positions(RunStart(NextRun), RunEnd(NextRun))
      /\ at = k * BlockSize /\ at < Len(body)
  <2>1. WritesItsRun /\ RequestsAhead /\ runs # {} /\ CallInv
    BY DEF IInv, WorkInv, CallInv, RequestsAhead
  <2>2. at = k * BlockSize /\ at < Len(body) /\ body = Positions(RunStart(NextRun), RunEnd(NextRun))
    BY <2>1 DEF WritesItsRun
  <2> QED
    BY <2>1, <2>2, StoredIsApart
<1>2. /\ NextRun = x .. y /\ x <= y /\ x \in Blocks /\ y \in Blocks
      /\ RunStart(NextRun) = x * BlockSize /\ RunEnd(NextRun) = BlockEnd(y)
      /\ x * BlockSize < BlockEnd(y)
  BY <1>1, RunFacts
<1>3. BlockSize \in Nat \ {0} /\ FileSize \in Nat
  BY BlockCacheAssumption
<1>4. /\ x \in Int /\ x * BlockSize \in Int /\ y \in Int /\ y * BlockSize \in Int
      /\ BlockEnd(y) \in Int /\ y * BlockSize < BlockEnd(y) /\ BlockEnd(y) <= FileSize
      /\ BlockEnd(y) <= (y + 1) * BlockSize /\ (y + 1) * BlockSize \in Int
  <2>1. x \in AllBlocks /\ y \in AllBlocks
    BY <1>2, AllBlocksFacts
  <2> QED
    BY <1>3, <2>1, AllBlocksFacts
<1>5. Len(body) = BlockEnd(y) - x * BlockSize
  <2> DEFINE low == x * BlockSize
             top == BlockEnd(y)
  <2>1. low \in Int /\ top \in Int /\ low <= top /\ body = Positions(low, top)
    BY <1>1, <1>2, <1>4
  <2> HIDE DEF low, top
  <2>2. Len(body) = top - low
    BY <2>1, PositionsFacts, Zenon
  <2> QED
    BY <2>2 DEF low, top
<1>6. at \in Nat
  <2>1. at \in 0 .. Len(body)
    BY DEF IInv, CallInv, CallOK
  <2> QED
    BY <1>4, <1>5, <2>1
<1>7. k \in Nat
  <2>1. k \in Int /\ (0 <= k <=> 0 * BlockSize <= at)
    BY <1>3, <1>6, Division
  <2> QED
    BY <1>3, <1>6, <2>1
<1> HIDE DEF x, y, k
<1>8. Index = x + k /\ Index \in Int /\ x <= Index
  BY <1>4, <1>7 DEF Index, x, k
<1>9. /\ Index * BlockSize = x * BlockSize + at
      /\ (Index + 1) * BlockSize = x * BlockSize + at + BlockSize
      /\ (Index + 1) * BlockSize \in Int
  <2>1. (x + k) * BlockSize = x * BlockSize + k * BlockSize
    <3>1. x \in Int /\ k \in Int /\ BlockSize \in Nat \ {0}
      BY <1>3, <1>4, <1>7
    <3> QED
      BY <3>1, Multiples, Zenon
  <2>2. (Index + 1) * BlockSize = Index * BlockSize + BlockSize
    <3>1. 1 \in Int /\ Index \in Int /\ BlockSize \in Nat \ {0}
      BY <1>3, <1>8
    <3> QED
      BY <3>1, Multiples, Zenon
  <2> QED
    BY <1>1, <1>3, <1>4, <1>6, <1>8, <2>1, <2>2, SMTT(30)
<1>10. Index <= y
  <2>1. Index * BlockSize < (y + 1) * BlockSize
    BY <1>1, <1>4, <1>5, <1>6, <1>9
  <2>2. Index < y + 1
    BY <1>3, <1>4, <1>8, <2>1, Multiples
  <2> QED
    BY <1>4, <1>8, <2>2
<1>11. Index \in NextRun /\ Index \in Blocks
  BY <1>1, <1>2, <1>4, <1>8, <1>10
<1>12. (Index + 1) * BlockSize <= (y + 1) * BlockSize
  <2>1. Index + 1 <= y + 1 /\ Index + 1 \in Int /\ y + 1 \in Int
    BY <1>4, <1>8, <1>10
  <2> QED
    BY <1>3, <2>1, Multiples
<1>13. BlockEnd(y) = Smaller((y + 1) * BlockSize, FileSize)
  BY DEF BlockEnd
<1> DEFINE n == Smaller(at + BlockSize, Len(body))
<1>14. /\ n \in Nat /\ at <= n /\ x * BlockSize + n <= BlockEnd(y)
       /\ x * BlockSize + n = BlockEnd(Index)
  <2>1. Len(body) \in Int
    BY <1>4, <1>5
  <2>2. n \in Nat /\ at <= n /\ x * BlockSize + n <= BlockEnd(y)
    BY <1>1, <1>3, <1>4, <1>5, <1>6, <2>1 DEF Smaller
  <2>3. x * BlockSize + n = Smaller((Index + 1) * BlockSize, FileSize)
    <3> DEFINE a == x * BlockSize
               e == (Index + 1) * BlockSize
               f == (y + 1) * BlockSize
    <3>1. /\ a \in Int /\ e \in Int /\ f \in Int /\ e <= f /\ e = a + at + BlockSize
          /\ BlockEnd(y) = Smaller(f, FileSize) /\ Len(body) = BlockEnd(y) - a
      BY <1>4, <1>5, <1>9, <1>12, <1>13
    <3> HIDE DEF a, e, f
    <3>2. a + n = Smaller(e, FileSize)
      BY <1>3, <1>6, <2>1, <3>1 DEF Smaller
    <3> QED
      BY <3>2 DEF a, e
  <2> QED
    BY <2>2, <2>3 DEF BlockEnd
<1>15. Chunk = Positions(Index * BlockSize, BlockEnd(Index))
  <2> DEFINE low == x * BlockSize
             top == BlockEnd(y)
  <2>1. low \in Int /\ top \in Int /\ body = Positions(low, top) /\ low + n <= top
    BY <1>1, <1>2, <1>4, <1>14 DEF x, y
  <2>2. Chunk = SubSeq(body, at + 1, n)
    BY DEF Chunk
  <2>3. low + at = Index * BlockSize /\ low + n = BlockEnd(Index)
    BY <1>9, <1>14
  <2> HIDE DEF low, top, n
  <2>4. SubSeq(Positions(low, top), at + 1, n) = Positions(low + at, low + n)
    BY <1>6, <1>14, <2>1, SubPositions
  <2> QED
    BY <2>1, <2>2, <2>3, <2>4
<1>16. ASSUME at + BlockSize < Len(body)
       PROVE  /\ at + BlockSize \in 0 .. Len(body)
              /\ (at + BlockSize) \div BlockSize = k + 1
              /\ at + BlockSize = (k + 1) * BlockSize
  <2>1. at + BlockSize = (k + 1) * BlockSize
    BY <1>1, <1>3, <1>7, Multiples
  <2>2. ((k + 1) * BlockSize) \div BlockSize = k + 1
    BY <1>3, <1>7, WholeMultiple
  <2> QED
    BY <1>3, <1>4, <1>5, <1>6, <1>16, <2>1, <2>2, SMTT(30)
<1>17. ASSUME ~(at + BlockSize < Len(body)), NEW b \in NextRun
       PROVE  b <= Index
  <2>1. y * BlockSize < (Index + 1) * BlockSize
    BY <1>3, <1>4, <1>5, <1>6, <1>9, <1>17
  <2>2. y < Index + 1
    BY <1>3, <1>4, <1>8, <2>1, Multiples
  <2> QED
    BY <1>2, <1>4, <1>8, <2>2 DEF x, y
<1> QED
  BY <1>11, <1>15, <1>16, <1>17 DEF k

\* So _evict counts right while it runs, and never more than all there is.
LEMMA FilesCounted ==
  ASSUME IInv, pc = "writing", NEW S
  PROVE  /\ Bytes(Without(Files, S)) = Cardinality(BytesIn((Present \cup {Index}) \ S))
         /\ Bytes(Without(Files, S)) \in Nat
         /\ Bytes(Without(Files, S)) <= TotalSize
<1> DEFINE files == Without(Files, S)
<1>1. /\ Index \in AllBlocks /\ Present \subseteq AllBlocks
      /\ Chunk = Positions(Index * BlockSize, BlockEnd(Index))
  BY ChunkFacts, AllBlocksFacts DEF IInv, DiskInv, DiskOK
<1>2. DOMAIN files = (Present \cup {Index}) \ S
  BY DEF Without, Files
<1>3. ASSUME NEW b \in DOMAIN files
      PROVE  files[b] = Positions(b * BlockSize, BlockEnd(b))
  <2>1. files[b] = IF b = Index THEN Chunk ELSE disk[b]
    BY <1>2 DEF Without, Files
  <2> QED
    BY <1>1, <1>2, <2>1 DEF IInv, DiskInv, BlocksHoldTheirBytes, BlockEnd
<1> HIDE DEF files
<1>4. Bytes(files) = Cardinality(BytesIn(DOMAIN files))
  BY <1>1, <1>2, <1>3, BytesCounted
<1>5. /\ Cardinality(BytesIn(DOMAIN files)) \in Nat
      /\ Cardinality(BytesIn(DOMAIN files)) <= TotalSize
  BY BytesInFacts, Zenon
<1>6. Bytes(files) \in Nat /\ Bytes(files) <= TotalSize
  BY <1>4, <1>5, Zenon
<1> QED
  BY <1>2, <1>4, <1>6, Zenon DEF files

\* Whatever is on disk, some set of victims is what _evict takes: the smallest
\* that is old enough and large enough.
LEMMA SomeVictims ==
  ASSUME IInv, pc = "writing"
  PROVE  Victims(Files, Times) # {}
<1> DEFINE spare   == DOMAIN Files \ protected
           enough  == {v \in SUBSET spare :
                         /\ \A x \in v, y \in spare \ v : Times[x] <= Times[y]
                         /\ Bytes(Without(Files, v)) <= maxBytes \/ v = spare}
           sizes   == {Cardinality(v) : v \in enough}
<1>1. /\ now \in Nat /\ maxBytes \in Nat /\ Index \in AllBlocks /\ Present \subseteq AllBlocks
      /\ mtime \in [AllBlocks -> 0 .. now] /\ now \in 0 .. now
  BY ChunkFacts, AllBlocksFacts, BlockCacheAssumption, SMTT(30) DEF IInv, DiskInv, DiskOK
<1>2. \A b \in AllBlocks : Times[b] \in 0 .. now
  BY <1>1 DEF Times
<1>3. spare \subseteq AllBlocks /\ IsFiniteSet(spare)
  <2>1. spare \subseteq AllBlocks
    BY <1>1 DEF Files
  <2> QED
    BY <2>1, AllBlocksFinite, FS_Subset
<1>4. \A v \in SUBSET spare : IsFiniteSet(v) /\ Cardinality(v) \in Nat
  BY <1>3, FS_Subset, FS_CardinalityType
<1> HIDE DEF spare
<1>5. PICK v \in enough : \A w \in enough : Cardinality(v) <= Cardinality(w)
  <2>1. spare \in enough
    OBVIOUS
  <2>2. sizes \subseteq Nat /\ sizes # {}
    BY <1>4, <2>1
  <2> HIDE DEF sizes
  <2>3. PICK n \in sizes : \A m \in sizes : n <= m
    BY <2>2, LeastMember
  <2> QED
    BY <2>3 DEF sizes
<1>6. /\ v \in SUBSET spare
      /\ \A x \in v, y \in spare \ v : Times[x] <= Times[y]
      /\ Bytes(Without(Files, v)) <= maxBytes \/ v = spare
  OBVIOUS
<1>7. ASSUME v # {}
      PROVE  \E x \in v : /\ \A y \in v : Times[y] <= Times[x]
                          /\ Bytes(Without(Files, v \ {x})) > maxBytes
  <2> DEFINE times == {Times[x] : x \in v}
  <2>1. times \in SUBSET (0 .. now) /\ times # {}
    BY <1>2, <1>3, <1>6, <1>7
  <2>2. PICK x \in v : \A y \in v : Times[y] <= Times[x]
    <3> HIDE DEF times
    <3>1. 0 \in Int /\ now \in Int
      BY <1>1
    <3>2. \E s, t \in times : \A z \in times : s <= z /\ z <= t
      BY <2>1, <3>1, BoundedHasEnds, Zenon
    <3> QED
      BY <3>2 DEF times
  <2>3. \A y \in v \ {x}, z \in spare \ (v \ {x}) : Times[y] <= Times[z]
    BY <1>6, <2>2
  <2>4. v \ {x} \notin enough
    <3>1. Cardinality(v \ {x}) = Cardinality(v) - 1 /\ Cardinality(v) \in Nat
      BY <1>4, <1>6, FS_RemoveElement
    <3> HIDE DEF enough
    <3> QED
      BY <1>5, <3>1
  <2>5. v \ {x} # spare /\ ~(Bytes(Without(Files, v \ {x})) <= maxBytes)
    BY <1>6, <2>3, <2>4
  <2>6. Bytes(Without(Files, v \ {x})) \in Nat
    BY FilesCounted, Zenon
  <2> QED
    BY <1>1, <2>2, <2>5, <2>6, SMTT(30)
<1> QED
  BY <1>6, <1>7 DEF Victims, spare

\* What a write does to the disk, for the blocks v that _evict takes.
LEMMA WriteFacts ==
  ASSUME IInv, WriteBlock
  PROVE  /\ pc = "writing" /\ Index \in NextRun /\ Index \in Blocks /\ Index \in protected
         /\ \E v \in SUBSET ((Present \cup {Index}) \ protected) :
              /\ v \in Victims(Files, Times)
              /\ disk' = Without(Files, v)
              /\ Present' = (Present \cup {Index}) \ v
              /\ disk'[Index] = Chunk
              /\ \A b \in Present' : b # Index => b \in Present /\ disk'[b] = disk[b]
              /\ \A b \in v : b # Index /\ b \in Present
              /\ mtime' = [b \in AllBlocks |-> IF b \in v THEN 0 ELSE Times[b]]
              /\ lastUse' = [b \in AllBlocks |-> IF b \in v THEN 0
                                               ELSE IF b = Index THEN now ELSE lastUse[b]]
<1>1. pc = "writing"
  BY DEF WriteBlock
<1>2. Index \in NextRun /\ Index \in Blocks /\ Index \in protected
  <2>1. protected = Stored \cup NextRun
    BY <1>1 DEF IInv, CallInv, RequestsAhead
  <2> QED
    BY <1>1, <2>1, ChunkFacts
<1>3. PICK v \in Victims(Files, Times) :
        /\ disk' = Without(Files, v)
        /\ mtime' = [b \in AllBlocks |-> IF b \in v THEN 0 ELSE Times[b]]
        /\ lastUse' = [b \in AllBlocks |-> IF b \in v THEN 0
                                         ELSE IF b = Index THEN now ELSE lastUse[b]]
  BY DEF WriteBlock, Index, Chunk, Files, Times
<1>4. DOMAIN Files = Present \cup {Index}
  BY DEF Files
<1>5. v \in SUBSET ((Present \cup {Index}) \ protected)
  BY <1>3, <1>4 DEF Victims
<1>6. Present' = (Present \cup {Index}) \ v
  BY <1>3, <1>4 DEF Present, Without
<1>7. \A b \in Present' : disk'[b] = Files[b]
  BY <1>3, <1>4, <1>6 DEF Without
<1>8. Index \in Present'
  BY <1>2, <1>5, <1>6
<1>9. \A b \in Present \cup {Index} : Files[b] = IF b = Index THEN Chunk ELSE disk[b]
  BY DEF Files
<1>10. disk'[Index] = Chunk
  BY <1>7, <1>8, <1>9
<1>11. \A b \in Present' : b # Index => b \in Present /\ disk'[b] = disk[b]
  BY <1>6, <1>7, <1>9
<1>12. \A b \in v : b # Index /\ b \in Present
  BY <1>2, <1>5
<1> QED
  BY <1>1, <1>2, <1>3, <1>5, <1>6, <1>10, <1>11, <1>12

LEMMA WriteKeepsDisk ==
  ASSUME IInv, WriteBlock
  PROVE  DiskInv'
<1>1. PICK v \in SUBSET ((Present \cup {Index}) \ protected) :
        /\ Present' = (Present \cup {Index}) \ v
        /\ disk'[Index] = Chunk
        /\ \A b \in Present' : b # Index => b \in Present /\ disk'[b] = disk[b]
        /\ mtime' = [b \in AllBlocks |-> IF b \in v THEN 0 ELSE Times[b]]
        /\ lastUse' = [b \in AllBlocks |-> IF b \in v THEN 0
                                         ELSE IF b = Index THEN now ELSE lastUse[b]]
  BY WriteFacts
<1>2. /\ Index \in Blocks /\ Index \in AllBlocks
      /\ Chunk = Positions(Index * BlockSize, BlockEnd(Index))
  BY WriteFacts, ChunkFacts, AllBlocksFacts
<1>3. UNCHANGED <<maxBytes, touched, now>>
  BY DEF WriteBlock
<1>4. /\ DiskOK /\ BlocksHoldTheirBytes /\ MtimesNearlyRight
      /\ now \in Nat /\ MaxTime \in Nat /\ TouchInterval \in Nat \ {0}
  BY BlockCacheAssumption DEF IInv, DiskInv, DiskOK
<1>5. /\ mtime \in [AllBlocks -> 0 .. now] /\ lastUse \in [AllBlocks -> 0 .. now]
      /\ touched \in [Blocks -> {Never} \cup 0 .. now] /\ Present \subseteq AllBlocks
  BY <1>4 DEF DiskOK
<1>6. Times \in [AllBlocks -> 0 .. now]
  <2>1. now \in 0 .. now
    BY <1>4
  <2> QED
    BY <1>2, <1>5, <2>1 DEF Times
<1>7. \A b \in AllBlocks : Times[b] = IF b = Index THEN now ELSE mtime[b]
  BY <1>2, <1>5 DEF Times
<1>8. DiskOK'
  <2>1. 0 \in 0 .. now /\ now \in 0 .. now
    BY <1>4
  <2>2. mtime' \in [AllBlocks -> 0 .. now]
    BY <1>1, <1>6, <2>1
  <2>3. lastUse' \in [AllBlocks -> 0 .. now]
    BY <1>1, <1>5, <2>1
  <2>4. Present' \subseteq AllBlocks
    BY <1>1, <1>2, <1>5
  <2> QED
    BY <1>3, <1>4, <2>2, <2>3, <2>4 DEF DiskOK
<1>9. BlocksHoldTheirBytes'
  <2> SUFFICES ASSUME NEW b \in Present'
               PROVE  disk'[b] = Positions(b * BlockSize, Smaller((b + 1) * BlockSize, FileSize))
    BY DEF BlocksHoldTheirBytes, Present
  <2>1. CASE b = Index
    BY <1>1, <1>2, <2>1 DEF BlockEnd
  <2>2. CASE b # Index
    BY <1>1, <1>4, <2>2 DEF BlocksHoldTheirBytes
  <2> QED
    BY <2>1, <2>2
<1>10. ASSUME NEW b \in Present'
       PROVE  /\ mtime'[b] <= lastUse'[b] /\ lastUse'[b] < mtime'[b] + TouchInterval
              /\ b \in Blocks => touched'[b] <= mtime'[b]
  <2>1. b \in AllBlocks /\ b \notin v
    BY <1>1, <1>2, <1>5
  <2>2. CASE b = Index
    <3>1. mtime'[b] = now /\ lastUse'[b] = now
      BY <1>1, <1>7, <2>1, <2>2
    <3>2. touched[b] \in {Never} \cup 0 .. now
      BY <1>2, <1>5, <2>2
    <3>3. touched[b] <= now
      BY <1>4, <3>2 DEF Never
    <3> QED
      BY <1>3, <1>4, <3>1, <3>3
  <2>3. CASE b # Index
    <3>1. mtime'[b] = mtime[b] /\ lastUse'[b] = lastUse[b] /\ b \in Present
      BY <1>1, <1>7, <2>1, <2>3
    <3> QED
      BY <1>3, <1>4, <3>1 DEF MtimesNearlyRight
  <2> QED
    BY <2>2, <2>3
<1>11. MtimesNearlyRight'
  BY <1>10 DEF MtimesNearlyRight
<1> QED
  BY <1>8, <1>9, <1>11 DEF DiskInv

LEMMA WriteKeepsCall ==
  ASSUME IInv, WriteBlock
  PROVE  CallInv' /\ WorkInv'
<1>1. /\ pc = "writing" /\ Index \in NextRun
      /\ UNCHANGED <<reading, span, want, missing, protected, requested, result>>
  BY WriteFacts DEF WriteBlock
<1>2. PICK v \in SUBSET ((Present \cup {Index}) \ protected) : Present' = (Present \cup {Index}) \ v
  BY WriteFacts
<1>3. /\ CallOK /\ Cleared /\ ReadsItsRange /\ RequestsAhead /\ WritesItsRun
      /\ runs # {} /\ protected = Stored \cup NextRun /\ Stored \subseteq Present
  BY <1>1 DEF IInv, CallInv, WorkInv, RequestsAhead
<1>4. /\ missing \in SUBSET Blocks /\ runs \subseteq Coalesce(missing) /\ NextRun \in runs
      /\ NextRun \subseteq missing /\ missing \ UNION (runs \ {NextRun}) = Stored \cup NextRun
  BY <1>3, StoredIsApart DEF IInv
<1>5. PositionsOf(protected)' = PositionsOf(protected)
  BY <1>1 DEF PositionsOf
<1>6. Stored \subseteq Present'
  BY <1>2, <1>3
<1>7. \A b \in NextRun : b \in Present => b \in Present'
  BY <1>2, <1>3
<1>8. Index \in Present'
  BY <1>1, <1>2, <1>3
<1>9. \A b \in NextRun : b \in Int
  BY <1>4, BlocksFacts
<1>10. \A b \in NextRun : b < First(NextRun) + at \div BlockSize => b \in Present
  BY <1>1, <1>3 DEF WritesItsRun
<1>11. First(NextRun) \in Int /\ at \div BlockSize \in Int
  <2>1. First(NextRun) \in NextRun
    BY <1>4, RunFacts
  <2>2. at \in Int /\ BlockSize \in Nat \ {0}
    BY <1>3, BlockCacheAssumption DEF CallOK
  <2> QED
    BY <1>9, <2>1, <2>2, Division
<1>12. CASE at + BlockSize < Len(body)
  <2>1. at' = at + BlockSize /\ UNCHANGED <<pc, runs, body>>
    BY <1>12 DEF WriteBlock
  <2>2. /\ at' \in 0 .. Len(body)
        /\ at' \div BlockSize = at \div BlockSize + 1
        /\ at' = (at \div BlockSize + 1) * BlockSize
    BY <1>1, <1>12, <2>1, ChunkFacts
  <2>3. NextRun' = NextRun /\ Stored' = Stored
    BY <1>1, <2>1 DEF NextRun, Stored
  <2>4. CallOK' /\ Cleared' /\ ReadsItsRange'
    BY <1>1, <1>3, <2>1, <2>2 DEF CallOK, Cleared, ReadsItsRange
  <2>5. RequestsAhead'
    BY <1>1, <1>3, <1>5, <2>1, <2>3 DEF RequestsAhead
  <2>6. \A b \in NextRun : b < First(NextRun) + at' \div BlockSize => b \in Present'
    <3> SUFFICES ASSUME NEW b \in NextRun, b < First(NextRun) + at' \div BlockSize
                 PROVE  b \in Present'
      OBVIOUS
    <3>1. b < First(NextRun) + (at \div BlockSize + 1)
      BY <2>2
    <3>2. b < First(NextRun) + at \div BlockSize \/ b = First(NextRun) + at \div BlockSize
      BY <1>9, <1>11, <3>1
    <3> QED
      BY <1>7, <1>8, <1>10, <3>2 DEF Index
  <2>7. WritesItsRun'
    <3>1. body' = Positions(RunStart(NextRun'), RunEnd(NextRun'))
      BY <1>1, <1>3, <2>1, <2>3 DEF WritesItsRun
    <3>2. at' = (at' \div BlockSize) * BlockSize /\ at' < Len(body')
      BY <1>12, <2>1, <2>2
    <3> QED
      BY <2>3, <2>6, <3>1, <3>2 DEF WritesItsRun
  <2> QED
    BY <1>6, <2>3, <2>4, <2>5, <2>7 DEF CallInv, WorkInv
<1>13. CASE ~(at + BlockSize < Len(body))
  <2>1. pc' = "fetching" /\ runs' = runs \ {NextRun} /\ body' = <<>> /\ at' = 0
    BY <1>13 DEF WriteBlock
  <2>2. \A b \in NextRun : b <= Index
    BY <1>1, <1>13, ChunkFacts
  <2>3. NextRun \subseteq Present'
    <3> SUFFICES ASSUME NEW b \in NextRun
                 PROVE  b \in Present'
      OBVIOUS
    <3>1. b < First(NextRun) + at \div BlockSize \/ b = First(NextRun) + at \div BlockSize
      BY <1>9, <1>11, <2>2 DEF Index
    <3> QED
      BY <1>7, <1>8, <1>10, <3>1 DEF Index
  <2>4. Stored' = Stored \cup NextRun
    BY <1>1, <1>4, <2>1 DEF Stored
  <2>5. CallOK'
    <3>1. at' \in 0 .. Len(body')
      BY <2>1
    <3> QED
      BY <1>1, <1>3, <2>1, <3>1 DEF CallOK
  <2>6. Cleared' /\ ReadsItsRange' /\ WritesItsRun'
    BY <1>1, <1>3, <2>1 DEF Cleared, ReadsItsRange, WritesItsRun
  <2>7. RequestsAhead'
    BY <1>1, <1>3, <1>4, <1>5, <2>1, <2>4 DEF RequestsAhead
  <2> QED
    BY <1>6, <2>3, <2>4, <2>5, <2>6, <2>7 DEF CallInv, WorkInv
<1> QED
  BY <1>12, <1>13

-----------------------------------------------------------------------------
(* The other steps.                                                        *)

LEMMA ReadReturnsKeeps ==
  ASSUME IInv, ReadReturns
  PROVE  IInv'
<1>1. CallInv' /\ WorkInv'
  BY EndFacts DEF ReadReturns
<1>2. /\ touched' = [b \in Blocks |-> IF b \in Due THEN now ELSE touched[b]]
      /\ mtime' = [b \in AllBlocks |-> IF b \in Due \cap Present THEN now ELSE mtime[b]]
      /\ lastUse' = [b \in AllBlocks |-> IF b \in want \cap Present THEN now ELSE lastUse[b]]
      /\ UNCHANGED <<maxBytes, disk, now>>
  BY DEF ReadReturns, Touch
<1>3. /\ DiskOK /\ BlocksHoldTheirBytes /\ MtimesNearlyRight
      /\ now \in Nat /\ MaxTime \in Nat /\ TouchInterval \in Nat \ {0}
  BY BlockCacheAssumption DEF IInv, DiskInv, DiskOK
<1>4. /\ mtime \in [AllBlocks -> 0 .. now] /\ lastUse \in [AllBlocks -> 0 .. now]
      /\ touched \in [Blocks -> {Never} \cup 0 .. now] /\ Present \subseteq AllBlocks
      /\ now \in 0 .. now /\ want \subseteq Blocks
  BY <1>3 DEF DiskOK, IInv, CallInv, CallOK
<1>5. Present' = Present
  BY <1>2 DEF Present
<1>6. DiskOK'
  <2>1. mtime' \in [AllBlocks -> 0 .. now] /\ lastUse' \in [AllBlocks -> 0 .. now]
    BY <1>2, <1>4
  <2>2. touched' \in [Blocks -> {Never} \cup 0 .. now]
    BY <1>2, <1>4
  <2> QED
    BY <1>2, <1>3, <1>5, <2>1, <2>2 DEF DiskOK
<1>7. BlocksHoldTheirBytes'
  BY <1>2, <1>3, <1>5 DEF BlocksHoldTheirBytes
<1>8. ASSUME NEW b \in Present
      PROVE  /\ mtime'[b] <= lastUse'[b] /\ lastUse'[b] < mtime'[b] + TouchInterval
             /\ b \in Blocks => touched'[b] <= mtime'[b]
  <2>1. /\ b \in AllBlocks /\ mtime[b] \in 0 .. now /\ lastUse[b] \in 0 .. now
        /\ mtime[b] <= lastUse[b] /\ lastUse[b] < mtime[b] + TouchInterval
        /\ b \in Blocks => touched[b] <= mtime[b] /\ touched[b] \in {Never} \cup 0 .. now
    BY <1>3, <1>4 DEF MtimesNearlyRight
  <2>2. CASE b \in Due
    <3>1. b \in want /\ b \in Blocks
      BY <1>4, <2>2 DEF Due
    <3>2. mtime'[b] = now /\ lastUse'[b] = now /\ touched'[b] = now
      BY <1>2, <2>1, <2>2, <3>1
    <3> QED
      BY <1>3, <3>2
  <2>3. CASE b \in want /\ b \notin Due
    <3>1. b \in Blocks /\ ~(now - touched[b] >= TouchInterval)
      BY <1>4, <2>3 DEF Due
    <3>2. mtime'[b] = mtime[b] /\ lastUse'[b] = now /\ touched'[b] = touched[b]
      BY <1>2, <2>1, <2>3, <3>1
    <3>3. touched[b] \in Int
      BY <1>3, <2>1, <3>1 DEF Never
    <3> QED
      BY <1>3, <2>1, <3>1, <3>2, <3>3
  <2>4. CASE b \notin want
    <3>1. b \notin Due
      BY <2>4 DEF Due
    <3>2. mtime'[b] = mtime[b] /\ lastUse'[b] = lastUse[b] /\ (b \in Blocks => touched'[b] = touched[b])
      BY <1>2, <2>1, <2>4, <3>1
    <3> QED
      BY <2>1, <3>2
  <2> QED
    BY <2>2, <2>3, <2>4
<1>9. MtimesNearlyRight'
  BY <1>5, <1>8 DEF MtimesNearlyRight
<1> QED
  BY <1>1, <1>6, <1>7, <1>9 DEF IInv, DiskInv

LEMMA EndKeeps ==
  ASSUME IInv, FetchFails \/ WriteFails \/ PrefetchReturns
  PROVE  IInv'
<1>1. PICK res \in {"ok", "error"} : End(res)
  BY DEF FetchFails, WriteFails, PrefetchReturns
<1>2. CallInv' /\ WorkInv'
  BY <1>1, EndFacts
<1>3. UNCHANGED diskVars
  BY DEF FetchFails, WriteFails, PrefetchReturns, diskVars
<1> QED
  BY <1>2, <1>3, DiskUnchanged DEF IInv

LEMMA RestartKeeps ==
  ASSUME IInv, Restart
  PROVE  IInv'
<1>1. CallInv' /\ WorkInv'
  <2> DEFINE res == IF pc = "idle" THEN result ELSE "cancelled"
  <2>1. res \in {"none", "ok", "error", "missing", "cancelled"}
    BY DEF IInv, CallInv, CallOK
  <2>2. End(res)
    BY DEF Restart
  <2> HIDE DEF res
  <2> QED
    BY <2>1, <2>2, EndFacts
<1>2. /\ maxBytes' \in Caps /\ touched' = [b \in Blocks |-> Never]
      /\ UNCHANGED <<disk, mtime, now, lastUse>>
  BY DEF Restart
<1>3. DiskOK /\ BlocksHoldTheirBytes /\ MtimesNearlyRight
  BY DEF IInv, DiskInv
<1>4. Present' = Present
  BY <1>2 DEF Present
<1>5. DiskOK'
  BY <1>2, <1>3, <1>4 DEF DiskOK
<1>6. BlocksHoldTheirBytes'
  BY <1>2, <1>3, <1>4 DEF BlocksHoldTheirBytes
<1>7. ASSUME NEW b \in Present \cap Blocks
      PROVE  touched'[b] <= mtime'[b]
  <2>1. mtime[b] \in 0 .. now /\ touched'[b] = Never
    BY <1>2, <1>3, AllBlocksFacts DEF DiskOK
  <2>2. TouchInterval \in Nat
    BY BlockCacheAssumption
  <2> QED
    BY <1>2, <2>1, <2>2 DEF Never
<1>8. MtimesNearlyRight'
  BY <1>2, <1>3, <1>4, <1>7 DEF MtimesNearlyRight
<1> QED
  BY <1>1, <1>5, <1>6, <1>8 DEF IInv, DiskInv

LEMMA TickKeeps ==
  ASSUME IInv, Tick
  PROVE  IInv'
<1>1. /\ now < MaxTime /\ now' = now + 1
      /\ UNCHANGED <<maxBytes, disk, mtime, touched, pc, callVars, result, lastUse>>
  BY DEF Tick
<1>2. CallInv' /\ WorkInv'
  BY <1>1, CallUnchanged DEF IInv
<1>3. /\ DiskOK /\ BlocksHoldTheirBytes /\ MtimesNearlyRight
      /\ now \in Nat /\ MaxTime \in Nat
  BY BlockCacheAssumption DEF IInv, DiskInv, DiskOK
<1>4. Present' = Present /\ now' \in 0 .. MaxTime /\ 0 .. now \subseteq 0 .. now'
  BY <1>1, <1>3 DEF Present
<1>5. DiskOK'
  <2>1. /\ mtime \in [AllBlocks -> 0 .. now'] /\ lastUse \in [AllBlocks -> 0 .. now']
        /\ touched \in [Blocks -> {Never} \cup 0 .. now']
    BY <1>3, <1>4 DEF DiskOK
  <2> QED
    BY <1>1, <1>3, <1>4, <2>1 DEF DiskOK
<1>6. BlocksHoldTheirBytes' /\ MtimesNearlyRight'
  BY <1>1, <1>3, <1>4 DEF BlocksHoldTheirBytes, MtimesNearlyRight
<1> QED
  BY <1>2, <1>5, <1>6 DEF IInv, DiskInv

LEMMA InitEstablishes == Init => IInv
<1> SUFFICES ASSUME Init
             PROVE  IInv
  OBVIOUS
<1>1. /\ NumOthers \in Nat /\ MaxTime \in Nat /\ TouchInterval \in Nat \ {0}
      /\ FileSize \in Nat /\ BlockSize \in Nat \ {0}
  BY BlockCacheAssumption
<1>2. /\ maxBytes \in Caps /\ pc = "idle" /\ reading = FALSE /\ now = 0
      /\ want = {} /\ missing = {} /\ runs = {} /\ protected = {}
      /\ body = <<>> /\ at = 0 /\ requested = 0 /\ result = "none"
      /\ mtime = [b \in AllBlocks |-> 0] /\ lastUse = [b \in AllBlocks |-> 0]
      /\ touched = [b \in Blocks |-> Never]
      /\ disk = [b \in OtherBlocks |-> Positions(b * BlockSize, (b + 1) * BlockSize)]
  BY DEF Init
<1>3. Present = OtherBlocks
  BY <1>2 DEF Present
<1>4. OtherBlocks \subseteq AllBlocks /\ OtherBlocks \cap Blocks = {}
  BY <1>1, BlocksFacts DEF AllBlocks, OtherBlocks
<1>5. DiskOK
  BY <1>1, <1>2, <1>3, <1>4 DEF DiskOK
<1>6. BlocksHoldTheirBytes
  <2> SUFFICES ASSUME NEW b \in OtherBlocks
               PROVE  Smaller((b + 1) * BlockSize, FileSize) = (b + 1) * BlockSize
    BY <1>2, <1>3 DEF BlocksHoldTheirBytes
  <2>1. b + 1 \in Int /\ b + 1 <= 0
    BY <1>1 DEF OtherBlocks
  <2>2. (b + 1) * BlockSize <= 0 * BlockSize /\ 0 * BlockSize = 0 /\ (b + 1) * BlockSize \in Int
    BY <1>1, <2>1, Multiples
  <2> QED
    BY <1>1, <2>2 DEF Smaller
<1>7. MtimesNearlyRight
  BY <1>1, <1>2, <1>3, <1>4 DEF MtimesNearlyRight
<1>8. CallInv
  <2>1. CallOK
    <3>1. at \in 0 .. Len(body) /\ requested \in 0 .. FileSize
      BY <1>1, <1>2
    <3>2. (pc = "writing" <=> body # <<>>) /\ pc \in {"idle", "fetching", "writing"}
      BY <1>2
    <3>3. /\ want \in SUBSET Blocks /\ missing \in SUBSET want /\ protected \in SUBSET missing
          /\ runs \subseteq (SUBSET missing) \ {{}} /\ reading \in BOOLEAN
      BY <1>2
    <3> QED
      BY <1>2, <3>1, <3>2, <3>3 DEF CallOK
  <2>2. Stored = {}
    BY <1>2 DEF Stored
  <2>3. RequestsAhead
    BY <1>2, <2>2, NoPositions DEF RequestsAhead
  <2> QED
    BY <1>2, <2>1, <2>3 DEF CallInv, Cleared, ReadsItsRange
<1>9. WorkInv
  BY <1>2 DEF WorkInv, WritesItsRun, Stored
<1> QED
  BY <1>5, <1>6, <1>7, <1>8, <1>9 DEF IInv, DiskInv

LEMMA NextKeeps == IInv /\ [Next]_vars => IInv'
<1> SUFFICES ASSUME IInv, [Next]_vars
             PROVE  IInv'
  OBVIOUS
<1>1. ASSUME NEW start \in 0 .. FileSize, NEW end \in 0 .. FileSize + 1, Read(start, end)
      PROVE  IInv'
  BY <1>1, ReadKeeps
<1>2. ASSUME NEW ranges \in SUBSET PrefetchRanges, Prefetch(ranges)
      PROVE  IInv'
  BY <1>2, PrefetchKeeps
<1>3. CASE FetchRun
  BY <1>3, FetchRunKeeps
<1>4. CASE WriteBlock
  BY <1>4, WriteKeepsDisk, WriteKeepsCall DEF IInv
<1>5. CASE FetchFails \/ WriteFails \/ PrefetchReturns
  BY <1>5, EndKeeps
<1>6. CASE ReadReturns
  BY <1>6, ReadReturnsKeeps
<1>7. CASE Restart
  BY <1>7, RestartKeeps
<1>8. CASE Tick
  BY <1>8, TickKeeps
<1>9. CASE UNCHANGED vars
  BY <1>9, DiskUnchanged, CallUnchanged DEF IInv, vars, diskVars
<1> QED
  BY <1>1, <1>2, <1>3, <1>4, <1>5, <1>6, <1>7, <1>8, <1>9 DEF Next

\* The invariant, for every instance.
THEOREM Invariance == Spec => []IInv
<1> QED
  BY InitEstablishes, NextKeeps, PTL DEF Spec

\* Every variable keeps the shape its declaration gives it; a call never asks for
\* more bytes than the file has.
THEOREM TypeCorrect == Spec => []TypeOK
<1>1. IInv => TypeOK
  BY DEF IInv, DiskInv, CallInv, DiskOK, CallOK, TypeOK
<1> QED
  BY <1>1, Invariance, PTL

\* Whatever the transport answers and wherever a call fails or the process stops, a
\* block file holds the bytes of its block.
THEOREM DiskIsRight == Spec => []BlocksHoldTheirBytes
<1>1. IInv => BlocksHoldTheirBytes
  BY DEF IInv, DiskInv
<1> QED
  BY <1>1, Invariance, PTL

\* prefetch() counts each byte that was missing once.
THEOREM Counted == Spec => []CountIsExact
<1>1. IInv => CountIsExact
  <2> SUFFICES ASSUME IInv, pc = "fetching", runs = {}
               PROVE  requested = Cardinality(PositionsOf(missing))
    BY DEF CountIsExact
  <2>1. protected = Stored /\ requested = Cardinality(PositionsOf(protected))
    BY DEF IInv, CallInv, RequestsAhead
  <2>2. Stored = missing
    BY DEF Stored
  <2> QED
    BY <2>1, <2>2
<1> QED
  BY <1>1, Invariance, PTL

\* _evict takes no block that this call has fetched.
THEOREM NotEvicted == Spec => []FetchedBlocksStay
<1>1. IInv => FetchedBlocksStay
  BY DEF IInv, WorkInv, Stored, FetchedBlocksStay
<1> QED
  BY <1>1, Invariance, PTL

\* The requests to come are what _coalesce makes of the blocks found missing: they
\* cover what is not asked for yet, none overlaps or touches another, and the list
\* algorithm finds the same ones.
THEOREM Fewest == Spec => []FewestRequests
<1>1. ASSUME IInv, pc = "fetching"
      PROVE  /\ UNION runs = missing \ protected
             /\ \A r, q \in runs : r # q => \A a \in r, b \in q : a # b /\ a + 1 # b
             /\ LET list == CoalesceList(Sorted(missing))
                IN  \A i \in 1 .. Len(list) :
                      \/ list[i][1] .. list[i][2] \in runs
                      \/ list[i][1] .. list[i][2] \subseteq protected
  <2>1. /\ runs \subseteq Coalesce(missing) /\ protected = missing \ UNION runs
        /\ missing \in SUBSET Blocks /\ UNION runs \subseteq missing
    BY <1>1 DEF IInv, CallInv, CallOK, RequestsAhead, Stored
  <2>2. 0 \in Int /\ FileSize \in Int /\ missing \in SUBSET (0 .. FileSize)
    BY <2>1, BlocksFacts, BlockCacheAssumption
  <2>3. \A r, q \in Coalesce(missing) : r # q => \A a \in r, b \in q : a # b /\ a + 1 # b
    BY <2>1, CoalesceBlocks
  <2>4. UNION Coalesce(missing) = missing
    BY <2>1, CoalesceBlocks
  <2> DEFINE list == CoalesceList(Sorted(missing))
  <2>5. {list[i][1] .. list[i][2] : i \in 1 .. Len(list)} = Coalesce(missing)
    BY <2>2, CoalesceListFindsTheRuns, Zenon
  <2> HIDE DEF list
  <2>6. ASSUME NEW i \in 1 .. Len(list)
        PROVE  \/ list[i][1] .. list[i][2] \in runs
               \/ list[i][1] .. list[i][2] \subseteq protected
    <3> DEFINE g == list[i][1] .. list[i][2]
    <3>1. g \in Coalesce(missing)
      BY <2>5
    <3> HIDE DEF g
    <3>2. g \subseteq missing
      BY <2>4, <3>1
    <3>3. CASE g \notin runs
      <4>1. \A r \in runs : r \cap g = {}
        BY <2>1, <2>3, <3>1, <3>3
      <4> QED
        BY <2>1, <3>2, <4>1 DEF g
    <3> QED
      BY <3>3 DEF g
  <2> QED
    BY <2>1, <2>3, <2>6 DEF list
<1>2. IInv => FewestRequests
  BY <1>1 DEF FewestRequests
<1> QED
  BY <1>2, Invariance, PTL

\* An eviction is wrong about which block was used last by less than an interval.
THEOREM NearlyLru == Spec => LruWithinInterval
<1>1. ASSUME IInv, [Next]_vars,
             NEW b \in Present \ DOMAIN disk', NEW kept \in (DOMAIN disk' \cap Present) \ protected
      PROVE  lastUse[b] < lastUse[kept] + TouchInterval
  <2>1. CASE WriteBlock
    <3>1. PICK v \in SUBSET ((Present \cup {Index}) \ protected) :
            /\ v \in Victims(Files, Times) /\ Present' = (Present \cup {Index}) \ v
      BY <1>1, <2>1, WriteFacts
    <3>2. Index \in protected
      BY <1>1, <2>1, WriteFacts
    <3>3. b \in v /\ b # Index /\ kept \notin v /\ kept # Index
      BY <3>1, <3>2 DEF Present
    <3>4. DOMAIN Files = Present \cup {Index}
      BY DEF Files
    <3>5. kept \in (DOMAIN Files \ protected) \ v
      BY <3>3, <3>4
    <3>6. Times[b] <= Times[kept]
      BY <3>1, <3>3, <3>5 DEF Victims
    <3>7. /\ Present \subseteq AllBlocks /\ mtime \in [AllBlocks -> 0 .. now]
          /\ lastUse \in [AllBlocks -> 0 .. now] /\ now \in Nat /\ TouchInterval \in Nat
          /\ lastUse[b] < mtime[b] + TouchInterval /\ mtime[kept] <= lastUse[kept]
      BY <1>1, BlockCacheAssumption DEF IInv, DiskInv, DiskOK, MtimesNearlyRight
    <3>8. Times[b] = mtime[b] /\ Times[kept] = mtime[kept]
      BY <3>3, <3>7 DEF Times
    <3>9. /\ mtime[b] \in Int /\ mtime[kept] \in Int
          /\ lastUse[b] \in Int /\ lastUse[kept] \in Int
      BY <3>7
    <3> QED
      BY <3>6, <3>7, <3>8, <3>9
  <2>2. CASE ~WriteBlock
    <3>1. disk' = disk
      BY <1>1, <2>2 DEF Next, Read, Prefetch, Begin, EndAtOnce, FetchRun, FetchFails, WriteFails,
                        ReadReturns, PrefetchReturns, Restart, Tick, vars
    <3> QED
      BY <3>1 DEF Present
  <2> QED
    BY <2>1, <2>2
<1>2. IInv /\ [Next]_vars =>
        [\A b \in Present \ DOMAIN disk', kept \in (DOMAIN disk' \cap Present) \ protected :
           lastUse[b] < lastUse[kept] + TouchInterval]_vars
  BY <1>1
<1> QED
  BY <1>2, Invariance, PTL DEF Spec, LruWithinInterval

\* max_bytes is kept, or what is kept beyond it is what the call in progress has
\* fetched: Bytes counts the files as _evict does.
THEOREM CapHolds == Spec => CapHoldsUpToProtected
<1>1. ASSUME IInv, [Next]_vars, disk' # disk
      PROVE  Bytes(disk') <= maxBytes \/ DOMAIN disk' \subseteq protected
  <2>1. WriteBlock
    BY <1>1 DEF Next, Read, Prefetch, Begin, EndAtOnce, FetchRun, FetchFails, WriteFails,
                ReadReturns, PrefetchReturns, Restart, Tick, vars
  <2>2. PICK v \in Victims(Files, Times) : disk' = Without(Files, v)
    BY <1>1, <2>1, WriteFacts
  <2>3. Bytes(Without(Files, v)) <= maxBytes \/ v = DOMAIN Files \ protected
    BY DEF Victims
  <2> QED
    BY <2>2, <2>3 DEF Without
<1>2. IInv /\ [Next]_vars =>
        [disk' # disk => Bytes(disk)' <= maxBytes \/ DOMAIN disk' \subseteq protected]_vars
  BY <1>1
<1> QED
  BY <1>2, Invariance, PTL DEF Spec, CapHoldsUpToProtected

\* _evict always ends with a choice: a write is never left without a next step, so
\* none of the results here rests on one that could not happen.
THEOREM EvictDecides == Spec => [](pc = "writing" => Victims(Files, Times) # {})
<1>1. IInv => (pc = "writing" => Victims(Files, Times) # {})
  BY SomeVictims
<1> QED
  BY <1>1, Invariance, PTL

-----------------------------------------------------------------------------
(* What a read() assembles.                                                *)

\* Where a read() cuts between block b - 1 and block b.
Cut(b) == Larger(span[1], Smaller(span[2], b * BlockSize))

\* A block's part of a read() goes from one cut to the next.
LEMMA PartFacts ==
  ASSUME IInv, pc = "fetching", reading, NEW b \in want, b \in Present
  PROVE  /\ b \in Int /\ Cut(b) \in Int /\ Cut(b + 1) \in Int
         /\ span[1] <= Cut(b) /\ Cut(b) <= Cut(b + 1)
         /\ Part(b) = Positions(Cut(b), Cut(b + 1))
<1> DEFINE s == span[1]
           e == span[2]
           low  == b * BlockSize
           high == (b + 1) * BlockSize
           end  == BlockEnd(b)
<1>1. /\ s \in Nat /\ e \in Nat /\ s < e /\ e <= FileSize
      /\ want = BlockIndices(s, e, BlockSize)
  BY DEF IInv, CallInv, ReadsItsRange
<1>2. FileSize \in Nat /\ BlockSize \in Nat \ {0}
  BY BlockCacheAssumption
<1>3. b \in Int /\ s < high /\ low < e
  <2>1. s \in Int /\ e \in Int
    BY <1>1
  <2> HIDE DEF s, e
  <2> QED
    BY <1>1, <1>2, <2>1, BlockIndicesFacts
<1>4. low \in Int /\ high \in Int /\ high = low + BlockSize /\ low < high
  BY <1>2, <1>3, Multiples
<1>5. end = Smaller(high, FileSize) /\ disk[b] = Positions(low, end)
  BY DEF IInv, DiskInv, BlocksHoldTheirBytes, BlockEnd
<1> HIDE DEF s, e, low, high, end
<1>6. end \in Int /\ low < end
  BY <1>1, <1>2, <1>3, <1>4, <1>5 DEF Smaller
<1>7. Len(disk[b]) = end - low
  <2>1. low \in Int /\ end \in Int /\ low <= end
    BY <1>4, <1>6
  <2>2. Len(Positions(low, end)) = end - low
    BY <2>1, PositionsFacts, Zenon
  <2> QED
    BY <1>5, <2>2
<1> DEFINE m == Larger(s, low) - low
           n == Smaller(Smaller(e, high) - low, Len(disk[b]))
<1>8. Part(b) = SubSeq(disk[b], m + 1, n)
  BY DEF Part, s, e, low, high
<1>9. Cut(b) = Larger(s, Smaller(e, low)) /\ Cut(b + 1) = Larger(s, Smaller(e, high))
  BY DEF Cut, s, e, low, high
<1>10. /\ m \in Nat /\ n \in Nat /\ m <= n /\ low + n <= end
       /\ low + m = Cut(b) /\ low + n = Cut(b + 1)
  BY <1>1, <1>2, <1>3, <1>4, <1>5, <1>6, <1>7, <1>9 DEF Smaller, Larger
<1>11. Cut(b) \in Int /\ Cut(b + 1) \in Int /\ s <= Cut(b) /\ Cut(b) <= Cut(b + 1)
  BY <1>1, <1>3, <1>4, <1>9 DEF Smaller, Larger
<1> HIDE DEF m, n
<1>12. SubSeq(Positions(low, end), m + 1, n) = Positions(low + m, low + n)
  BY <1>4, <1>6, <1>10, SubPositions
<1> QED
  BY <1>3, <1>5, <1>8, <1>10, <1>11, <1>12 DEF s

\* The recursion of Assemble, solved.
LEMMA AssembleFacts ==
  ASSUME IInv, pc = "fetching", reading, want \subseteq Present
  PROVE  Assemble = Positions(span[1], span[2])
<1> DEFINE s         == span[1]
           e         == span[2]
           first     == s \div BlockSize
           last      == (e - 1) \div BlockSize
           n         == last - first + 1
           order     == Sorted(want)
           Solves(g) == g = [i \in 0 .. Len(order) |->
                               IF i = 0 THEN <<>> ELSE g[i - 1] \o Part(order[i])]
           sofar     == [i \in 0 .. Len(order) |-> Positions(s, Cut(first + i))]
           out       == CHOOSE g : Solves(g)
<1>1. /\ s \in Nat /\ e \in Nat /\ s < e /\ e <= FileSize
      /\ want = BlockIndices(s, e, BlockSize)
  BY DEF IInv, CallInv, ReadsItsRange
<1>2. BlockSize \in Nat \ {0}
  BY BlockCacheAssumption
<1>3. /\ first \in Int /\ last \in Int
      /\ first * BlockSize <= s /\ e <= (last + 1) * BlockSize
      /\ first * BlockSize \in Int /\ (last + 1) * BlockSize \in Int
  <2>1. s \in Int /\ e - 1 \in Int
    BY <1>1
  <2> HIDE DEF s, e
  <2>2. first \in Int /\ last \in Int
    BY <1>2, <2>1, Division
  <2>3. first * BlockSize <= s
    <3>1. first <= s \div BlockSize
      BY <2>2
    <3> HIDE DEF first
    <3> QED
      BY <1>2, <2>1, <2>2, <3>1, Division
  <2>4. e - 1 < (last + 1) * BlockSize
    <3>1. (e - 1) \div BlockSize <= last
      BY <2>2
    <3> DEFINE p == e - 1
    <3>2. p \in Int /\ p \div BlockSize <= last
      BY <2>1, <3>1
    <3> HIDE DEF last, p
    <3>3. p < (last + 1) * BlockSize
      BY <1>2, <2>2, <3>2, Division
    <3> QED
      BY <3>3 DEF p
  <2>5. first * BlockSize \in Int /\ (last + 1) * BlockSize \in Int
    <3> HIDE DEF first, last
    <3> QED
      BY <1>2, <2>2
  <2> QED
    BY <1>1, <2>2, <2>3, <2>4, <2>5
<1>4. want = first .. last
  BY <1>1 DEF BlockIndices
<1> HIDE DEF s, e, first, last
<1>5. first <= last
  <2>1. first * BlockSize < (last + 1) * BlockSize
    BY <1>1, <1>3
  <2>2. first < last + 1
    BY <1>2, <1>3, <2>1, Multiples
  <2> QED
    BY <1>3, <2>2
<1>6. Len(order) = n /\ n \in Nat /\ n > 0 /\ \A i \in 1 .. n : order[i] = first + i - 1
  <2>1. first \in Int /\ last \in Int /\ first <= last
    BY <1>3, <1>5
  <2>2. /\ Len(Sorted(first .. last)) = last - first + 1
        /\ \A i \in 1 .. last - first + 1 : Sorted(first .. last)[i] = first + i - 1
    BY <2>1, SortedInterval, Zenon
  <2>3. n \in Nat /\ n > 0
    BY <2>1
  <2> QED
    BY <1>4, <2>2, <2>3
<1>7. Cut(first) = s /\ Cut(first + n) = e
  <2>1. first + n = last + 1
    BY <1>3
  <2> QED
    BY <1>1, <1>3, <2>1 DEF Cut, s, e, Larger, Smaller
<1> HIDE DEF order
<1>8. Positions(s, s) = <<>>
  <2>1. Positions(s, s) \in Seq(Int) /\ Len(Positions(s, s)) = s - s
    BY <1>1, PositionsFacts
  <2> QED
    BY <1>1, <2>1
<1>9. ASSUME NEW i \in 0 .. n
      PROVE  sofar[i] = IF i = 0 THEN <<>> ELSE sofar[i - 1] \o Part(order[i])
  <2>1. CASE i = 0
    <3>1. first + 0 = first
      BY <1>3
    <3> QED
      BY <1>6, <1>7, <1>8, <2>1, <3>1
  <2>2. CASE i # 0
    <3> DEFINE b == order[i]
    <3>1. i \in 1 .. n /\ i - 1 \in 0 .. n /\ b = first + i - 1 /\ b \in Int
      BY <1>3, <1>6, <2>2
    <3>2. b + 1 = first + i /\ b = first + (i - 1) /\ b \in want
      BY <1>3, <1>4, <1>6, <3>1
    <3>3. sofar[i] = Positions(s, Cut(b + 1)) /\ sofar[i - 1] = Positions(s, Cut(b))
      BY <1>6, <3>1, <3>2
    <3> HIDE DEF b, sofar
    <3>4. /\ Cut(b) \in Int /\ Cut(b + 1) \in Int /\ s <= Cut(b) /\ Cut(b) <= Cut(b + 1)
          /\ Part(b) = Positions(Cut(b), Cut(b + 1))
      BY <3>2, PartFacts DEF s
    <3>5. Positions(s, Cut(b)) \o Positions(Cut(b), Cut(b + 1)) = Positions(s, Cut(b + 1))
      <4>1. s \in Int
        BY <1>1
      <4> QED
        BY <3>4, <4>1, JoinedPositions, Zenon
    <3> QED
      BY <2>2, <3>3, <3>4, <3>5 DEF b
  <2> QED
    BY <2>1, <2>2
<1>10. Solves(out)
  <2>1. sofar = [i \in 0 .. Len(order) |-> sofar[i]]
    OBVIOUS
  <2> HIDE DEF sofar
  <2>2. Solves(sofar)
    BY <1>6, <1>9, <2>1
  <2> HIDE DEF Solves
  <2> QED
    BY <2>2
<1>11. Assemble = out[n]
  BY <1>6 DEF Assemble, order
<1> HIDE DEF out
<1>12. \A i \in 0 .. n : out[i] = IF i = 0 THEN <<>> ELSE out[i - 1] \o Part(order[i])
  BY <1>6, <1>10
<1> HIDE DEF Solves, n
<1>13. \A i \in 0 .. n : out[i] = sofar[i]
  <2> HIDE DEF sofar
  <2> DEFINE wrong == {i \in 0 .. n : out[i] # sofar[i]}
  <2> SUFFICES ASSUME wrong # {}
               PROVE  FALSE
    OBVIOUS
  <2>1. PICK i \in wrong : \A j \in wrong : i <= j
    <3>1. wrong \subseteq Nat
      BY <1>6
    <3> HIDE DEF wrong
    <3> QED
      BY <3>1, LeastMember
  <2>2. i \in 0 .. n /\ out[i] # sofar[i]
    OBVIOUS
  <2>3. i # 0
    BY <1>9, <1>12, <2>2
  <2>4. i - 1 \in 0 .. n /\ ~(i <= i - 1)
    BY <1>6, <2>2, <2>3
  <2>5. out[i - 1] = sofar[i - 1]
    BY <2>1, <2>4
  <2> QED
    BY <1>9, <1>12, <2>2, <2>3, <2>5
<1>14. n \in 0 .. n
  BY <1>6
<1>15. sofar[n] = Positions(s, e)
  BY <1>6, <1>7, <1>14
<1> QED
  BY <1>11, <1>13, <1>14, <1>15 DEF s, e

\* What a read() is about to assemble is the range it was asked for: whatever the
\* block size, where its ends fall in their blocks, and how the blocks came.
THEOREM ReadsAreRight == Spec => []ReadsReturnTheFile
<1>1. IInv => ReadsReturnTheFile
  BY AssembleFacts DEF ReadsReturnTheFile
<1> QED
  BY <1>1, Invariance, PTL

-----------------------------------------------------------------------------
(* A cap with room for everything: the promise of a read-through cache.    *)

Roomy == maxBytes >= TotalSize

\* With room, a block the call found present is still there.
KeptWithRoom == Roomy => want \ missing \subseteq Present

\* With room, _evict takes nothing.
LEMMA NothingEvicted ==
  ASSUME IInv, WriteBlock, Roomy
  PROVE  Present' = Present \cup {Index}
<1>1. PICK v \in SUBSET ((Present \cup {Index}) \ protected) :
        /\ v \in Victims(Files, Times)
        /\ Present' = (Present \cup {Index}) \ v
  BY WriteFacts
<1>2. v = {}
  <2> SUFFICES ASSUME v # {}
               PROVE  FALSE
    OBVIOUS
  <2>1. PICK x \in v : Bytes(Without(Files, v \ {x})) > maxBytes
    BY <1>1 DEF Victims
  <2>2. /\ Bytes(Without(Files, v \ {x})) \in Nat
        /\ Bytes(Without(Files, v \ {x})) <= TotalSize
    BY FilesCounted DEF WriteBlock
  <2>3. maxBytes \in Nat /\ TotalSize \in Nat /\ maxBytes >= TotalSize
    BY BlockCacheAssumption DEF IInv, DiskInv, DiskOK, Roomy, TotalSize
  <2> QED
    BY <2>1, <2>2, <2>3
<1> QED
  BY <1>1, <1>2

LEMMA KeptWithRoomStays ==
  ASSUME IInv, KeptWithRoom, [Next]_vars
  PROVE  KeptWithRoom'
<1>1. ASSUME NEW res, End(res)
      PROVE  KeptWithRoom'
  BY <1>1 DEF End, KeptWithRoom
<1>2. ASSUME NEW W, NEW isRead, NEW range, Begin(W, isRead, range)
      PROVE  KeptWithRoom'
  BY <1>2 DEF Begin, MissingBlocks, KeptWithRoom, Present
<1>3. CASE UNCHANGED <<maxBytes, disk, want, missing>>
  BY <1>3 DEF KeptWithRoom, Roomy, Present
<1>4. CASE WriteBlock
  <2>1. UNCHANGED <<maxBytes, want, missing>>
    BY <1>4 DEF WriteBlock
  <2>2. Roomy' = Roomy
    BY <2>1 DEF Roomy
  <2> QED
    BY <1>4, <2>1, <2>2, NothingEvicted DEF KeptWithRoom
<1>5. CASE FetchRun \/ Tick \/ UNCHANGED vars
  BY <1>3, <1>5 DEF FetchRun, Tick, vars, callVars
<1>6. CASE FetchFails \/ WriteFails \/ ReadReturns \/ PrefetchReturns \/ Restart
  BY <1>1, <1>6 DEF FetchFails, WriteFails, ReadReturns, PrefetchReturns, Restart
<1>7. ASSUME NEW start \in 0 .. FileSize, NEW end \in 0 .. FileSize + 1, Read(start, end)
      PROVE  KeptWithRoom'
  <2>1. ASSUME NEW res, EndAtOnce(res)
        PROVE  KeptWithRoom'
    BY <1>3, <2>1 DEF EndAtOnce, callVars
  <2> QED
    BY <1>2, <1>7, <2>1 DEF Read
<1>8. ASSUME NEW ranges \in SUBSET PrefetchRanges, Prefetch(ranges)
      PROVE  KeptWithRoom'
  BY <1>2, <1>8 DEF Prefetch
<1> QED
  BY <1>4, <1>5, <1>6, <1>7, <1>8 DEF Next

-----------------------------------------------------------------------------
(* Its steps, seen from outside.                                           *)

Calling == IF pc = "idle" THEN {} ELSE {"reader"}
Wanted  == [c \in {"reader"} |-> IF reading THEN want ELSE {}]
Outcome == [c \in {"reader"} |-> result]

LEMMA BeginCalls ==
  ASSUME IInv, pc = "idle", NEW W \in SUBSET Blocks, NEW isRead \in BOOLEAN, NEW range,
         Begin(W, isRead, range)
  PROVE  ReadThrough!Call("reader", W)
<1>1. ~reading /\ missing = {}
  BY DEF IInv, CallInv, Cleared
<1>2. /\ pc' = "fetching" /\ reading' = isRead /\ want' = W /\ missing' = W \ Present
      /\ result' = "none" /\ disk' = disk
  BY DEF Begin, MissingBlocks
<1>3. Present' = Present
  BY <1>2 DEF Present
<1>4. missing' \ Present' = (missing \ Present) \cup (W \ (Present \cap Blocks))
  BY <1>1, <1>2, <1>3
<1>5. Wanted' = [Wanted EXCEPT !["reader"] = W] \/ Wanted' = Wanted
  <2>1. CASE isRead
    BY <1>2, <2>1 DEF Wanted
  <2>2. CASE ~isRead
    BY <1>1, <1>2, <2>2 DEF Wanted
  <2> QED
    BY <2>1, <2>2
<1>6. Outcome' = [Outcome EXCEPT !["reader"] = "none"]
  BY <1>2 DEF Outcome
<1>7. Calling = {} /\ Calling' = {"reader"}
  BY <1>2 DEF Calling
<1> QED
  BY <1>3, <1>4, <1>5, <1>6, <1>7 DEF ReadThrough!Call, Calling, Wanted, Outcome

LEMMA EndAtOnceHits ==
  ASSUME pc = "idle", NEW res \in {"ok", "error"}, EndAtOnce(res)
  PROVE  ReadThrough!Hit("reader")
<1>1. result' = res /\ UNCHANGED <<disk, pc, reading, want, missing>>
  BY DEF EndAtOnce, callVars
<1>2. UNCHANGED <<Present, Calling, Wanted>>
  BY <1>1 DEF Present, Calling, Wanted
<1>3. Outcome' = [Outcome EXCEPT !["reader"] = res]
  BY <1>1 DEF Outcome
<1>4. "reader" \notin Calling
  BY DEF Calling
<1> QED
  BY <1>1, <1>2, <1>3, <1>4 DEF ReadThrough!Hit, Calling, Wanted, Outcome

\* A call that returns has all its blocks; one that raises gives its requests up.
LEMMA EndReturns ==
  ASSUME pc # "idle", NEW res \in {"ok", "error", "cancelled"}, End(res), disk' = disk,
         res = "ok" => missing \subseteq Present /\ (reading => want \subseteq Present \cap Blocks)
  PROVE  ReadThrough!Return("reader")
<1> DEFINE F == missing \ Present
<1>1. pc' = "idle" /\ result' = res /\ reading' = FALSE /\ missing' = {}
  BY DEF End
<1>2. Present' = Present
  BY DEF Present
<1>3. Calling = {"reader"} /\ Calling' = Calling \ {"reader"}
  BY <1>1 DEF Calling
<1>4. Wanted' = [Wanted EXCEPT !["reader"] = {}] /\ Wanted["reader"] = IF reading THEN want ELSE {}
  BY <1>1 DEF Wanted
<1>5. Outcome' = [Outcome EXCEPT !["reader"] = res]
  BY <1>1 DEF Outcome
<1>6. /\ F \in SUBSET (missing \ Present) /\ missing' \ Present' = (missing \ Present) \ F
      /\ res = "ok" => F = {} /\ Wanted["reader"] \subseteq Present \cap Blocks
  BY <1>1, <1>2, <1>4
<1>7. res \in ReadThrough!Raised \cup {"ok"}
  BY DEF ReadThrough!Raised
<1> QED
  BY <1>2, <1>3, <1>4, <1>5, <1>6, <1>7 DEF ReadThrough!Return, Calling, Wanted, Outcome

LEMMA WriteAnswers ==
  ASSUME IInv, WriteBlock, Roomy
  PROVE  \E F \in SUBSET (missing \ Present) : ReadThrough!Answer(F, F)
<1> DEFINE F == {Index} \ Present
<1>1. Present' = Present \cup {Index}
  BY NothingEvicted
<1>2. pc = "writing" /\ pc' # "idle" /\ UNCHANGED <<reading, want, missing, result>>
  BY DEF WriteBlock
<1>3. Index \in missing /\ Index \in Blocks
  <2>1. Index \in NextRun /\ Index \in Blocks
    BY WriteFacts
  <2>2. runs # {}
    BY <1>2 DEF IInv, CallInv, RequestsAhead
  <2> QED
    BY <2>1, <2>2, StoredIsApart DEF IInv
<1>4. UNCHANGED <<Calling, Wanted, Outcome>>
  BY <1>2 DEF Calling, Wanted, Outcome
<1>5. /\ missing' \ Present' = (missing \ Present) \ F
      /\ Present' \cap Blocks = (Present \cap Blocks) \cup F
      /\ F \in SUBSET (missing \ Present)
  BY <1>1, <1>2, <1>3
<1>6. ReadThrough!Answer(F, F)
  BY <1>4, <1>5 DEF ReadThrough!Answer, Calling, Wanted, Outcome
<1> QED
  BY <1>5, <1>6

LEMMA StepsPromised ==
  ASSUME IInv, KeptWithRoom, [Next]_vars, Roomy
  PROVE  [ReadThrough!Next]_(ReadThrough!vars)
<1>1. ASSUME NEW start \in 0 .. FileSize, NEW end \in 0 .. FileSize + 1, Read(start, end)
      PROVE  ReadThrough!Next
  <2>1. CASE \E res \in {"ok", "error"} : EndAtOnce(res)
    BY <1>1, <2>1, EndAtOnceHits DEF Read, ReadThrough!Next
  <2>2. CASE /\ end <= FileSize
             /\ Begin(BlockIndices(start, end, BlockSize), TRUE, <<start, end>>)
    <3>1. FileSize \in Nat /\ start \in Nat /\ end \in Int
      BY BlockCacheAssumption
    <3>2. BlockIndices(start, end, BlockSize) \in SUBSET Blocks
      BY <2>2, <3>1, RangeInFile
    <3>3. ReadThrough!Call("reader", BlockIndices(start, end, BlockSize))
      BY <1>1, <2>2, <3>2, BeginCalls DEF Read
    <3> QED
      BY <3>2, <3>3 DEF ReadThrough!Next
  <2> QED
    BY <1>1, <2>1, <2>2 DEF Read
<1>2. ASSUME NEW ranges \in SUBSET PrefetchRanges, Prefetch(ranges)
      PROVE  ReadThrough!Next
  <2> DEFINE W == UNION {RangeBlocks(range) : range \in ranges}
  <2>1. pc = "idle" /\ Begin(W, FALSE, <<0, 0>>)
    BY <1>2 DEF Prefetch
  <2>2. W \in SUBSET Blocks
    BY RangeBlocksInFile
  <2> HIDE DEF W
  <2>3. ReadThrough!Call("reader", W)
    BY <2>1, <2>2, BeginCalls
  <2> QED
    BY <2>2, <2>3 DEF ReadThrough!Next
<1>3. CASE UNCHANGED <<disk, reading, want, missing, result>> /\ (pc' = "idle" <=> pc = "idle")
  <2>1. UNCHANGED <<Present, Calling, Wanted, Outcome>>
    BY <1>3 DEF Present, Calling, Wanted, Outcome
  <2> QED
    BY <1>3, <2>1 DEF ReadThrough!vars, Calling, Wanted, Outcome
<1>4. CASE FetchRun \/ Tick \/ UNCHANGED vars
  BY <1>3, <1>4 DEF FetchRun, Tick, vars, callVars
<1>5. CASE WriteBlock
  BY <1>5, WriteAnswers DEF ReadThrough!Next
<1>6. CASE FetchFails \/ WriteFails
  <2>1. pc # "idle" /\ End("error") /\ disk' = disk
    BY <1>6 DEF FetchFails, WriteFails
  <2> QED
    BY <2>1, EndReturns DEF ReadThrough!Next
<1>7. ASSUME runs = {}
      PROVE  missing \subseteq Present /\ want \subseteq Present \cap Blocks
  <2>1. Stored \subseteq Present /\ want \subseteq Blocks
    BY DEF IInv, WorkInv, CallInv, CallOK
  <2> QED
    BY <1>7, <2>1 DEF Stored, KeptWithRoom
<1>8. CASE ReadReturns \/ PrefetchReturns
  <2>1. pc = "fetching" /\ runs = {} /\ disk' = disk
    BY <1>8 DEF ReadReturns, PrefetchReturns
  <2>2. End("ok")
    BY <1>7, <1>8, <2>1 DEF ReadReturns, PrefetchReturns
  <2>3. missing \subseteq Present /\ want \subseteq Present \cap Blocks
    BY <1>7, <2>1
  <2> QED
    BY <2>1, <2>2, <2>3, EndReturns DEF ReadThrough!Next
<1>9. CASE Restart
  <2>1. disk' = disk /\ End(IF pc = "idle" THEN result ELSE "cancelled")
    BY <1>9 DEF Restart
  <2>2. CASE pc = "idle"
    <3>1. reading = FALSE /\ want = {} /\ missing = {}
      BY <2>2 DEF IInv, CallInv, CallOK, Cleared
    <3>2. UNCHANGED <<disk, reading, want, missing, result>> /\ (pc' = "idle" <=> pc = "idle")
      BY <2>1, <2>2, <3>1 DEF End
    <3> QED
      BY <1>3, <3>2
  <2>3. CASE pc # "idle"
    BY <2>1, <2>3, EndReturns DEF ReadThrough!Next
  <2> QED
    BY <2>2, <2>3
<1> QED
  BY <1>1, <1>2, <1>4, <1>5, <1>6, <1>8, <1>9 DEF Next

\* While the cap has room for all there is, the cache keeps the promise of a
\* read-through cache: each step is one of its steps or changes nothing it sees.
THEOREM Implements == Spec => ImplementsReadThrough
<1>1. Init => KeptWithRoom
  BY DEF Init, KeptWithRoom
<1>2. Init => ReadThrough!Init
  <2> SUFFICES ASSUME Init
               PROVE  ReadThrough!Init
    OBVIOUS
  <2>1. /\ pc = "idle" /\ missing = {} /\ reading = FALSE /\ result = "none"
        /\ Present = OtherBlocks
    BY DEF Init, Present
  <2>2. Present \cap Blocks = {}
    BY <2>1, BlocksFacts, BlockCacheAssumption DEF OtherBlocks
  <2> QED
    BY <2>1, <2>2 DEF ReadThrough!Init
<1>3. IInv /\ KeptWithRoom /\ [Next]_vars => KeptWithRoom'
  BY KeptWithRoomStays
<1>4. IInv /\ KeptWithRoom /\ [Next]_vars =>
        [maxBytes >= TotalSize => [ReadThrough!Next]_(ReadThrough!vars)]_vars
  BY StepsPromised DEF Roomy
<1> QED
  BY <1>1, <1>2, <1>3, <1>4, Invariance, PTL DEF Spec, ImplementsReadThrough

=============================================================================
