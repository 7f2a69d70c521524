------------------------------ MODULE BlockCache ------------------------------
(***************************************************************************)
(* BlockCache (block_cache.py), the cache of HttpFile: one call at a time, *)
(* in a cache_dir no other process uses.  The process may stop at any      *)
(* point and a new one open the same directory (its meta.json matching).   *)
(* Another URL has blocks in cache_dir that nobody uses now.               *)
(*                                                                         *)
(* An action is what happens between two of: an answer of the transport, a *)
(* block file put in place, the call's return.  mtimes and _touched count  *)
(* units of time.  Abstracted: temporary files.                            *)
(***************************************************************************)
EXTENDS BlockMath

CONSTANTS
  FileSize,        \* file_size
  BlockSize,       \* block_size
  NumOthers,       \* how many blocks of another URL cache_dir holds at first
  Caps,            \* what max_bytes may be; TotalSize or more stands for None
  TouchInterval,   \* _TOUCH_INTERVAL_SECONDS
  MaxTime,         \* bound on the clock
  PrefetchRanges   \* (offset, length) pairs prefetch() is called with

ASSUME BlockCacheAssumption ==
  /\ FileSize \in Nat
  /\ BlockSize \in Nat \ {0}
  /\ NumOthers \in Nat
  /\ Caps \subseteq Nat /\ Caps # {}
  /\ TouchInterval \in Nat \ {0}
  /\ MaxTime \in Nat
  /\ PrefetchRanges \subseteq Int \X Nat

VARIABLES
  maxBytes,   \* max_bytes of the process that has the directory open
  disk,       \* the block files: what each one that exists holds
  mtime,      \* their mtimes (0 where there is no file)
  touched,    \* _touched, in memory
  now,        \* time.time()
  pc,         \* "idle", or where the call in progress stands
  reading,    \* is it a read()?
  span,       \* the byte range a read() is for
  want,       \* the blocks it needs
  missing,    \* those _missing_blocks found missing
  runs,       \* the runs not yet stored
  protected,  \* blocks _evict must leave alone
  body,       \* what the transport brought for the first of `runs`
  at,         \* how much of it is written
  requested,  \* bytes asked for
  result,     \* how the last call ended
  lastUse     \* when a block on disk was last read or written

callVars == <<reading, span, want, missing, runs, protected, body, at, requested>>
vars == <<maxBytes, disk, mtime, touched, now, pc, callVars, result, lastUse>>

Blocks == BlockIndices(0, FileSize, BlockSize)

\* The blocks of the other URL are numbered, and their bytes counted, below zero.
OtherBlocks == 0 - NumOthers .. 0 - 1
AllBlocks == Blocks \cup OtherBlocks
TotalSize == FileSize + NumOthers * BlockSize

Present == DOMAIN disk

\* A block never touched by this process is due for a touch at any time.
Never == 0 - TouchInterval

Init ==
  /\ maxBytes \in Caps
  /\ disk = [b \in OtherBlocks |-> Positions(b * BlockSize, (b + 1) * BlockSize)]
  /\ mtime = [b \in AllBlocks |-> 0]
  /\ touched = [b \in Blocks |-> Never]
  /\ now = 0
  /\ pc = "idle"
  /\ reading = FALSE
  /\ span = <<0, 0>>
  /\ want = {} /\ missing = {} /\ runs = {} /\ protected = {}
  /\ body = <<>> /\ at = 0 /\ requested = 0
  /\ result = "none"
  /\ lastUse = [b \in AllBlocks |-> 0]

-----------------------------------------------------------------------------
(* read() and prefetch() up to their first request.                        *)

MissingBlocks(W) == W \ Present

Begin(W, isRead, range) ==
  /\ pc' = "fetching"
  /\ reading' = isRead
  /\ span' = range
  /\ want' = W
  /\ missing' = MissingBlocks(W)
  /\ runs' = Coalesce(MissingBlocks(W))
  /\ protected' = {}
  /\ body' = <<>> /\ at' = 0 /\ requested' = 0
  /\ result' = "none"
  /\ UNCHANGED <<maxBytes, disk, mtime, touched, now, lastUse>>

EndAtOnce(res) ==
  /\ result' = res
  /\ UNCHANGED <<maxBytes, disk, mtime, touched, now, pc, callVars, lastUse>>

Read(start, end) ==
  /\ pc = "idle"
  /\ \/ end > FileSize /\ EndAtOnce("error")
     \/ end <= FileSize /\ end <= start /\ EndAtOnce("ok")
     \/ /\ end <= FileSize /\ start < end
        /\ Begin(BlockIndices(start, end, BlockSize), TRUE, <<start, end>>)

\* Ranges are clamped to the file.
RangeBlocks(range) ==
  BlockIndices(Larger(range[1], 0), Smaller(range[1] + range[2], FileSize), BlockSize)

Prefetch(ranges) ==
  /\ pc = "idle"
  /\ Begin(UNION {RangeBlocks(range) : range \in ranges}, FALSE, <<0, 0>>)

-----------------------------------------------------------------------------
(* The loop of _ensure_blocks.                                             *)

First(r) == CHOOSE b \in r : \A x \in r : b <= x
Last(r) == CHOOSE b \in r : \A x \in r : x <= b

\* _run_byte_range
RunStart(r) == First(r) * BlockSize
RunEndUnclamped(r) == (Last(r) + 1) * BlockSize
RunEnd(r) == Smaller((Last(r) + 1) * BlockSize, FileSize)

NextRun == CHOOSE r \in runs : \A q \in runs : First(r) <= First(q)

\* The transport may bring the range, less, or the whole file.
Bodies(r) == {Positions(RunStart(r), RunEnd(r)),
              Positions(RunStart(r), RunEnd(r) - 1),
              Positions(0, FileSize)}

\* _check_fetched
AcceptableIfNotLonger(bytes, r) == Len(bytes) \in 1 .. RunEnd(r) - RunStart(r)
Acceptable(bytes, r) == Len(bytes) = RunEnd(r) - RunStart(r)

\* The call is over and its locals gone; what it has stored stays.
End(res) ==
  /\ pc' = "idle"
  /\ result' = res
  /\ reading' = FALSE /\ span' = <<0, 0>>
  /\ want' = {} /\ missing' = {} /\ runs' = {} /\ protected' = {}
  /\ body' = <<>> /\ at' = 0 /\ requested' = 0

ProtectRunOnly(r) == protected' = r
Protect(r) == protected' = protected \cup r

FetchRun ==
  /\ pc = "fetching"
  /\ runs # {}
  /\ \E bytes \in Bodies(NextRun) :
       /\ Acceptable(bytes, NextRun)
       /\ Protect(NextRun)
       /\ requested' = requested + RunEnd(NextRun) - RunStart(NextRun)
       /\ body' = bytes
       /\ at' = 0
       /\ pc' = "writing"
  /\ UNCHANGED <<maxBytes, disk, mtime, touched, now, reading, span, want, missing, runs, result, lastUse>>

\* The transport raises, or brings what _check_fetched refuses.
FetchFails ==
  /\ pc = "fetching"
  /\ runs # {}
  /\ End("error")
  /\ UNCHANGED <<maxBytes, disk, mtime, touched, now, lastUse>>

\* _evict, with `files` on disk: least recently used first, until within the
\* cap or out of unprotected blocks.
Bytes(files) == LET total[S \in SUBSET DOMAIN files] ==
                      IF S = {} THEN 0
                      ELSE LET b == CHOOSE x \in S : TRUE
                           IN  Len(files[b]) + total[S \ {b}]
                IN  total[DOMAIN files]
Without(files, S) == [b \in DOMAIN files \ S |-> files[b]]

VictimsBeforeWrite(files, times) ==
  LET spare == Present \ protected
  IN  {v \in SUBSET spare :
         /\ \A x \in v, y \in spare \ v : times[x] <= times[y]
         /\ Bytes(Without(disk, v)) <= maxBytes \/ v = spare}

Victims(files, times) ==
  LET spare == DOMAIN files \ protected
  IN  {v \in SUBSET spare :
         /\ \A x \in v, y \in spare \ v : times[x] <= times[y]
         /\ Bytes(Without(files, v)) <= maxBytes \/ v = spare
         /\ v # {} => \E x \in v : /\ \A y \in v : times[y] <= times[x]
                                   /\ Bytes(Without(files, v \ {x})) > maxBytes}

\* One round of _write_run's loop: put the next block in place, then evict.
WriteBlock ==
  /\ pc = "writing"
  /\ LET index == First(NextRun) + at \div BlockSize
         chunk == SubSeq(body, at + 1, Smaller(at + BlockSize, Len(body)))
         files == [b \in Present \cup {index} |-> IF b = index THEN chunk ELSE disk[b]]
         times == [mtime EXCEPT ![index] = now]
     IN  \E v \in Victims(files, times) :
           /\ disk' = Without(files, v)
           /\ mtime' = [b \in AllBlocks |-> IF b \in v THEN 0 ELSE times[b]]
           /\ lastUse' = [b \in AllBlocks |-> IF b \in v THEN 0
                                           ELSE IF b = index THEN now ELSE lastUse[b]]
  /\ IF at + BlockSize < Len(body)
     THEN /\ at' = at + BlockSize
          /\ UNCHANGED <<pc, runs, body>>
     ELSE /\ pc' = "fetching"
          /\ runs' = runs \ {NextRun}
          /\ body' = <<>> /\ at' = 0
  /\ UNCHANGED <<maxBytes, touched, now, reading, span, want, missing, protected, requested, result>>

\* No space left, say: the temporary file is removed again.
WriteFails ==
  /\ pc = "writing"
  /\ End("error")
  /\ UNCHANGED <<maxBytes, disk, mtime, touched, now, lastUse>>

-----------------------------------------------------------------------------
(* The end of a call.                                                      *)

\* _touch: each block of a read at most once per interval; `touched` is noted
\* whether or not there is a file to touch.
Due == {b \in want : now - touched[b] >= TouchInterval}

TouchNoMtime ==
  /\ touched' = [b \in Blocks |-> IF b \in Due THEN now ELSE touched[b]]
  /\ UNCHANGED mtime

Touch ==
  /\ touched' = [b \in Blocks |-> IF b \in Due THEN now ELSE touched[b]]
  /\ mtime' = [b \in AllBlocks |-> IF b \in Due \cap Present THEN now ELSE mtime[b]]

\* _assemble
PartWholeBlock(b) == disk[b]
Part(b) == LET from == Larger(span[1], b * BlockSize) - b * BlockSize
               to   == Smaller(span[2], (b + 1) * BlockSize) - b * BlockSize
           IN  SubSeq(disk[b], from + 1, Smaller(to, Len(disk[b])))
Assemble == LET order == Sorted(want)
                out[i \in 0 .. Len(order)] ==
                  IF i = 0 THEN <<>> ELSE out[i - 1] \o Part(order[i])
            IN  out[Len(order)]

ReadReturns ==
  /\ pc = "fetching" /\ runs = {} /\ reading
  /\ Touch
  /\ lastUse' = [b \in AllBlocks |-> IF b \in want \cap Present THEN now ELSE lastUse[b]]
  /\ End(IF want \subseteq Present THEN "ok" ELSE "missing")
  /\ UNCHANGED <<maxBytes, disk, now>>

PrefetchReturns ==
  /\ pc = "fetching" /\ runs = {} /\ ~reading
  /\ End("ok")
  /\ UNCHANGED <<maxBytes, disk, mtime, touched, now, lastUse>>

\* The process stops, and another opens the directory, maybe with another cap.
Restart ==
  /\ maxBytes' \in Caps
  /\ End(IF pc = "idle" THEN result ELSE "cancelled")
  /\ touched' = [b \in Blocks |-> Never]
  /\ UNCHANGED <<disk, mtime, now, lastUse>>

Tick ==
  /\ now < MaxTime
  /\ now' = now + 1
  /\ UNCHANGED <<maxBytes, disk, mtime, touched, pc, callVars, result, lastUse>>

-----------------------------------------------------------------------------

Next ==
  \/ \E start \in 0 .. FileSize, end \in 0 .. FileSize + 1 : Read(start, end)
  \/ \E ranges \in SUBSET PrefetchRanges : Prefetch(ranges)
  \/ FetchRun
  \/ FetchFails
  \/ WriteBlock
  \/ WriteFails
  \/ ReadReturns
  \/ PrefetchReturns
  \/ Restart
  \/ Tick

Spec == Init /\ [][Next]_vars

-----------------------------------------------------------------------------
(* Properties.                                                             *)

\* Every variable keeps the shape its declaration gives it.
TypeOK ==
  /\ maxBytes \in Caps
  /\ Present \subseteq AllBlocks
  /\ mtime \in [AllBlocks -> 0 .. now] /\ lastUse \in [AllBlocks -> 0 .. now]
  /\ touched \in [Blocks -> {Never} \cup 0 .. now]
  /\ now \in 0 .. MaxTime
  /\ pc \in {"idle", "fetching", "writing"}
  /\ reading \in BOOLEAN
  /\ want \in SUBSET Blocks /\ missing \in SUBSET want /\ protected \in SUBSET missing
  /\ runs \subseteq (SUBSET missing) \ {{}}
  /\ at \in 0 .. Len(body) /\ (pc = "writing" <=> body # <<>>)
  /\ requested \in 0 .. FileSize
  /\ result \in {"none", "ok", "error", "missing", "cancelled"}

PositionsOf(S) == {p \in 0 .. FileSize - 1 : p \div BlockSize \in S}

\* Whatever the transport answers and wherever a call fails or the process
\* stops, a block file holds the bytes of its block, the last one cut off at
\* the end of the file.
BlocksHoldTheirBytes ==
  \A b \in Present :
    disk[b] = Positions(b * BlockSize, Smaller((b + 1) * BlockSize, FileSize))

\* What a read() is about to assemble is exactly the range it was asked for.
ReadsReturnTheFile ==
  pc = "fetching" /\ runs = {} /\ reading /\ want \subseteq Present =>
    Assemble = Positions(span[1], span[2])

\* "coalesced into as few range requests as possible": the requests to come
\* cover what is missing and not requested yet, and no two could be one; and
\* the list algorithm finds the same groups.
FewestRequests ==
  pc = "fetching" =>
    /\ UNION runs = missing \ protected
    /\ \A r, q \in runs : r # q => \A a \in r, b \in q : a # b /\ a + 1 # b
    /\ LET list == CoalesceList(Sorted(missing))
       IN  \A i \in 1 .. Len(list) :
             \/ list[i][1] .. list[i][2] \in runs
             \/ list[i][1] .. list[i][2] \subseteq protected

\* prefetch() returns "the number of bytes newly requested": those of the blocks
\* that were missing, each counted once.
CountIsExact ==
  pc = "fetching" /\ runs = {} => requested = Cardinality(PositionsOf(missing))

\* "Blocks fetched for the in-flight read of the current URL are never evicted",
\* over all the runs of a call.
FetchedBlocksStay ==
  pc = "fetching" => missing \ UNION runs \subseteq Present

\* The interval between touches makes LRU inexact by less than an interval: a
\* block that is evicted was last used less than TouchInterval after each
\* unprotected block that stays.
LruWithinInterval ==
  [][\A b \in Present \ DOMAIN disk', kept \in (DOMAIN disk' \cap Present) \ protected :
       lastUse[b] < lastUse[kept] + TouchInterval]_vars

\* A block file is written only within the cap, or leaves nothing on disk but
\* blocks of the call.
CapHoldsUpToProtected ==
  [][disk' # disk => Bytes(disk)' <= maxBytes \/ DOMAIN disk' \subseteq protected]_vars

\* As long as it has room for the whole file, also after a time without, it keeps
\* the promise of a read-through cache.
ReadThrough == INSTANCE ReadThroughCache WITH
  Callers  <- {"reader"},
  present  <- Present \cap Blocks,
  fetching <- missing \ Present,
  calling  <- IF pc = "idle" THEN {} ELSE {"reader"},
  wanted   <- [c \in {"reader"} |-> IF reading THEN want ELSE {}],
  outcome  <- [c \in {"reader"} |-> result]

ImplementsReadThrough ==
  /\ ReadThrough!Init
  /\ [][maxBytes >= TotalSize => [ReadThrough!Next]_(ReadThrough!vars)]_vars

\* "a range fetched once is served from cache for the reader's lifetime": a read()
\* does not fail over a block that was on disk when it began.
CachedBlocksAreServed ==
  pc = "fetching" /\ runs = {} /\ reading => want \subseteq Present

=============================================================================
