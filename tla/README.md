# A verification of hctef

hctef reads remote files by HTTP range requests through a block cache on disk.
These TLA+ modules model the parts of it whose correctness depends on the order
of events: the asynchronous and the synchronous block cache, the directory that
caches share, the requests to the server with their retries, and the files and
cursors on top. TLC checks them on small instances, and TLAPS proves every safety
property that those runs check, and that both caches implement a read-through
cache, for every instance.

## Inventory

| Component | Source | State | Operations | Interacts with |
| --- | --- | --- | --- | --- |
| Block arithmetic | `block_cache.py` `_block_indices`, `_coalesce`, `_run_byte_range` | none | byte range to blocks, blocks to runs, run to byte range | both caches |
| Block store | `block_cache.py` `_BlockStore` | `.blk` files and their mtimes, `meta.json`, `_touched` | open and validate, wipe, write a run, evict, touch, assemble, close | other stores and processes, through `cache_dir` |
| Sync cache | `block_cache.py` `BlockCache` | locals of the call | `read`, `prefetch`, `_ensure_blocks` | `HttpFile._fetch_range` (callback) |
| Async cache | `aio/async_block_cache.py` | `_inflight`, fetch tasks | `read`, `prefetch`, `_ensure_blocks`, `_fetch_run` | tasks of other readers, `_do_fetch_range` (callback) |
| Async file | `aio/async_http_file.py` | opened file, semaphore, transport and who owns it, cursors' positions | `open`, `prefetch`, `close`, `read`, `seek`, `clone` | async cache, transport |
| Sync file | `http_file.py` | opened file, position | `open`, `prefetch`, `close`, `read`, `seek` | sync cache, urllib |
| Async transports | `aio/transport.py`, `aiohttp_transport.py`, `pyfetch_transport.py` | session, closed flag, attempts and delay of a request | `probe`, `fetch_range`, `close` | server |
| Exceptions | `exceptions.py` | none | a class hierarchy | callers |

What is hard, and what makes each part correct:

* **Async cache.** Readers share fetch tasks through `_inflight`; a task ends by
  success, failure, a body of the wrong size, a full disk or cancellation, at any
  of its awaits, and any reader that shares it may be cancelled. It is correct
  when no block is fetched twice at once, nobody waits for what cannot end, no
  slot of the semaphore is lost, each fetch ends and is deregistered, and a read
  that ends well has its blocks.
* **Sync cache.** One call at a time, but the transport may bring anything, a
  write may fail between two blocks, the process may stop anywhere and another
  go on with its directory, and eviction runs in the middle of a call. It is
  correct when the bytes returned are those of the file, requests are as few as
  possible and counted exactly, and eviction keeps to the cap, the order of use
  and the blocks of the call.
* **Cache directory.** Stores with different versions of the file, block sizes
  and flags open one directory after another or together. It is correct when an
  open store finds only blocks written for the file as it knows it.
* **Files.** Several coroutines share one file: `open()` makes a transport and a
  cache and awaits twice more, `close()` awaits in its middle, a read takes the
  position before its await and changes it after. It is correct when an owned
  transport is closed in the end and an injected one never, whatever fails or
  is cancelled, and a cursor that one call at a time uses behaves like a file.
* **Transports.** The server may answer an attempt with anything, break the
  connection, ask for a pause or fall silent, while other requests queue and the
  session is closed. It is correct when a call ends after at most three attempts,
  a server that asked for a pause gets it, and missing range support is reported
  only, and with the right reason, when it is missing.

The hazards behind these are listed in `PROJECT.json`, each at its line.

## Modules

    BlockMath                 arithmetic of blocks
      BlockMathLemmas         lemmas about it; _coalesce is right
      AsyncBlockCache         the async cache with semaphore, callers and peers
        MCAsyncBlockCache     instances for TLC
        AsyncBlockCacheProofs theorems
      BlockCache              the sync cache, with bytes and mtimes
        MCBlockCache          instances for TLC
        BlockCacheProofs      theorems
    ReadThroughCache          what a cache with room for its file promises;
                              AsyncBlockCache and BlockCache implement it
    SharedCacheDir            opening, wiping and filling a directory
      MCSharedCacheDir        instances for TLC
      SharedCacheDirProofs    theorems
    RangeTransport            probe, semaphore, attempts, delays, classification
      MCRangeTransport        instances for TLC
      RangeTransportProofs    theorems
    FileObject                open, read, seek, clone, close; ownership
      MCFileObject            instances for TLC
      FileObjectProofs        theorems
    QueueLemmas               lemmas about the semaphores' queues

How they fit: `FileObject` lets a read bring bytes or fail after some time, which is
what `AsyncBlockCache` and `BlockCache` say of the caches; these let a request to
the transport end well or fail after some time, which is what `RangeTransport`
says of it. `SharedCacheDir` is what happens before a cache is used at all.

Some definitions have a second form before them with a longer name
(`NeededIgnoringInflight` before `Needed`). These are the definition with a
plausible mistake in it; each property is tried against one of them and must
fail.

### BlockMath

`Coalesce` is `_coalesce` on sets: a set of blocks is split into its maximal runs
of adjacent blocks. `CoalesceList` is the loop of the code on a sorted list, and
`WithIndex` one round of it; the invariant `FewestRequests` compares the two on
every set of missing blocks that occurs. Bytes are known by their positions in the
file, so that a body is the sequence of the positions it holds.

### AsyncBlockCache

asyncio is cooperative, so one action is what one coroutine does between two
suspensions.

| Variable | In the code |
| --- | --- |
| `disk` | the `.blk` files |
| `inflight` | `_inflight`; a task is named by the run of blocks it fetches |
| `task` | where a `_fetch_run` task stands: created, waiting for the semaphore, holding a slot, dead before its first step (`zombie`) |
| `protected` | the local of that name in `_fetch_run`; left empty when the cap has room for the file, as `_evict` then deletes nothing |
| `doomed` | tasks on which `cancel()` was called and has not arrived |
| `waiters` | the queue of `_fetch_semaphore` |
| `pc`, `want`, `pending`, `result` | callers: idle, awaiting their `gather()`, or with it done and not yet run; the blocks of a read; the tasks gathered; how it ended |
| `fetchedFor` | not in the code: which of a read's blocks were being fetched when it began |

| Action | In the code |
| --- | --- |
| `Read`, `Prefetch` (`EnsureBlocks`) | `read`/`prefetch` through `_ensure_blocks` up to `await asyncio.gather` |
| `FetchStart` | the first step of `_fetch_run`, into `_do_fetch_range`, to the semaphore or the transport |
| `FetchCompletes`, `FetchFails` | the rest of `_fetch_run` after the transport's answer: check, write, evict, `finally`, slot released, gatherers settled |
| `TaskCancelled` | `CancelledError` arriving in a task, whichever state it is in |
| `CancelCaller` | a caller cancelled inside `gather()` or just after |
| `Resume` | `_assemble` in `read`, and the end of the call |
| `PeerEvicts`, `PeerWrites` | another cache on the same directory |

Abstracted: contents, offsets and sizes of blocks (all weigh one), mtimes (any
unprotected block may be the oldest, so eviction is any choice of the right
number), blocks of other URLs in `cache_dir`, the order in which the event loop
runs what is ready (left open, which allows more than asyncio does), the step
between a task's end and the `gather()` callback (nothing can happen in between
but a cancellation, which `CancelCaller` allows), that a semaphore with a woken waiter
queues a newcomer for a moment although a slot is free (it gets it next), calls that return before they
touch any state (an empty range, a range past the end), the byte count prefetch
returns (checked in `BlockCache`), and `close()`.

### BlockCache

One action is what happens between an answer of the transport, a block file put
in place, and the end of the call: `Read` and `Prefetch` up to the first request,
`FetchRun` or `FetchFails`, `WriteBlock` (with its `_evict`) or `WriteFails` for
each block, then `ReadReturns` (`_touch`, `_assemble`) or `PrefetchReturns`.
`Restart` is the end of the process at any point and a new one on the same
directory, maybe with another cap; `Tick` is time. Contents are modelled: the transport brings the
range, one byte less, or the whole file. `lastUse` is not in the code: it is when
a block was last read or written, to judge the mtimes by. `cache_dir` also
holds blocks of another URL, numbered below zero: they count against the cap and
may be evicted, but nobody reads them. Temporary files are left out.

### SharedCacheDir

One action is one operation on the file system: does `meta.json` exist, read it,
list the directory, remove one file, remove the directory, make it, write
`meta.json`, write a block. A file is known by what it was written for: a version
of the remote file and a block size. Size, ETag and Last-Modified are taken
together to tell versions apart, a server that sends no validators is outside the
model. Versions only go forward, and only while nobody has the file open: the
code does not compare versions after opening. Stores that are open together have
the same block size and flag. `WipesUndisturbed` says whether a wipe may stop
half-way or overlap another store's opening.

### RangeTransport

One backend per behaviour: aiohttp, pyfetch, or the urllib calls of `HttpFile`,
which make one attempt and one call at a time. One action is what happens
between two suspensions: the probe is sent, answered; a request joins the queue of
the semaphore (`Fetch`), gets its slot and is sent (`Start`), is answered (`Reply`),
sleeps, is sent again (`Resend`); it may be cancelled anywhere. An answer is a
status, or one of the ways in which there is none (connection broken, timeout, body
cut off); `AiohttpAttempt`, `PyfetchAttempt` and `UrllibAttempt` say what each
backend makes of it, `AiohttpProbe`, `PyfetchProbe` and `UrllibProbe` what its probe
does. Statuses stand for their classes: 404 for what is not worth a retry, 429 and
503 for what is.

| Variable | In the code |
| --- | --- |
| `backend`, `ranges`, `exposed` | the transport chosen; whether the server honours Range always, never or at times; whether it shows a browser Content-Range |
| `closed` | `_closed`, or the state of aiohttp's session |
| `probe` | where the probe stands, or how it ended |
| `queue`, `phase` | waiters of `_fetch_semaphore`; queued, sent or in `asyncio.sleep` |
| `tries`, `delay` | the loop variable of `fetch_with_retries`; what is left of its sleep |
| `owed` | not in the code: what is left of the pause the server asked for |
| `outcome` | bytes, or the exception: network, no range support, closed, cancelled |

Time is counted in `RETRY_BACKOFF_SECONDS`. Which bytes are asked for, and bodies of
the wrong size under a 206, are in `BlockCache`.

### FileObject

One file of one of three kinds: `AsyncHttpFile` with its own transport, with an
injected one, or `HttpFile` (one call at a time). Each call of `open()` has a number,
by which its transport, its cache and its cursor are known; a caller may also hold a
clone. `open()` goes through `Open`, `ProbeAnswers` (or `ProbeFails` and `AbortEnds`,
or `OpenIsCut`) and `PrefetchReturns` or `PrefetchFails`; for `HttpFile` through
`SizeArrives` and `CachePrefetchEnds`, since it becomes open only after its
prefetch. `close()` is `Close` and `CloseEnds` with its await in between, or
`CloseAtOnce` where there is none.

| Variable | In the code |
| --- | --- |
| `file` | the arguments of the constructor that matter here |
| `opens`, `fate` | not in the code: how many calls of `open()`, and how each ended |
| `transport`, `cache` | of each: not made, open, closed |
| `current` | the one `_cursor` (or `_opened`) belongs to |
| `pos`, `cloned` | `position` of the cursors; who has a clone |
| `shared` | not in the code: cursors that a call used while another was in a read |
| `pc`, `gen`, `reading` | where each caller stands, in which `open()` or `close()`, in which read |

Two calls of `open()` do not overlap, nor `open()` and `close()`, except that `close()`
may come while `open()` prefetches: the file has one `_cursor` and no lock. A file
may be opened again without `close()`. A call that changes no state (refused because
the file is closed, a read of nothing) is no action; `prefetch()` concerns only the
cache.

### ReadThroughCache

The promise of a cache with room for its file, in four actions: a call asks for
blocks; requests for some end, having brought all, some or none of them; a call
is answered at once; a call ends, well only with all its blocks present, or with
an exception, after which requests may be given up. It is stated from what
README.md ("Block-cache read-through") and the class comments promise, so it
has no lines of code of its own. `AsyncBlockCache` maps the registered blocks to
`fetching`, `BlockCache` those found missing and not yet on disk.

## Runs

| Run | Instance | What it shows |
| --- | --- | --- |
| `async_private` | 2 callers, 3 blocks, cap 3, 1 slot, cancellation | registry, single flight, wake-ups, semaphore, reads complete, refinement |
| `async_capped` | 2 callers, 3 blocks, cap 1, 2 slots, cancellation | the cap and the publication of blocks while two tasks write side by side |
| `async_live` | 2 callers, 2 blocks, cap 1, 1 slot, cancellation, peers | every call and every fetch ends; single flight next to peers |
| `async_zombie` | 2 callers, 2 blocks | finding 1 |
| `async_evicted` | 2 callers, 2 blocks, cap 1, 2 slots, no cancellation | finding 2 |
| `sync` | 5 bytes in blocks of 2, a block of another URL, caps 2, 4 and none, clock to 3, touch every 2 | contents, requests and counts for every range and three prefetch ranges (from before the file, past its end, empty) in any combination; eviction: cap, order, the call's own blocks; refinement while there is room |
| `sync_missing` | 4 bytes in blocks of 2, cap 2 | finding 3 |
| `dir_careful` | 3 stores (one immutable), 2 blocks, 2 versions, 2 block sizes, crashes outside wipes | an open store finds only what is right for it |
| `dir_crash` | 1 store, 2 blocks, 2 versions, crashes in wipes too | finding 4 |
| `transport` | 3 requests, 2 slots, 3 attempts, 3 Retry-After headers, all backends and kinds of server | blame, pauses, silence after close, every call ends |
| `file` | 2 coroutines, 2 opens, 2 bytes, five ways to construct the file | ownership, a transport behind the open file, positions |
| `file_leak` | 1 coroutine, 1 open | finding 5 |

The bounds. Two callers and three blocks are enough for each way in which reads
overlap: the same run, part of a run, two runs with a gap between them, one read
waiting for two tasks of different readers; a caller goes on to any number of
further calls. With one slot and up to three tasks the semaphore's queue reaches
two, so that a waiter can be passed over, or removed from in front of another. Cap one of
three makes every second write evict. Five bytes in blocks of two is the least
with two runs, a gap between them and a short last block; the caps are one block,
two, and all there is, and a process that reopens the directory with the smallest
must evict several blocks at once. A clock of three with an
interval of two lets a block be used, skipped by the throttle, and due again.
Two versions and two block sizes are each the least that differ; three stores let
two ordinary ones open together and an immutable one before or after them. Three
requests on two slots leave one in the queue while others are sent, sleep or are
cancelled; the Retry-After headers are none, one in the past and one longer than the
first backoff, so a sleep ends before, with and after another. Two coroutines and
two opens give each pair of calls that can overlap, and a second open after each
way in which the first can end; a file of two bytes has a middle. The
callers are symmetric (and declared so, except where liveness is checked).

Fairness. `async_live` assumes that the event loop runs whatever is ready
(`FetchStart`, `TaskCancelled`, `Resume`) and that each request to the transport
ends (`FetchCompletes` or `FetchFails`). The second is what `EveryRequestEnds` of
`transport` says, from weaker assumptions: each single attempt is answered, be it by
a timeout (`Reply`, `ProbeReply`), timers fire (`Tick`), and the loop runs what is
ready (`Start`, `Resend`). aiohttp and urllib have a timeout for an attempt; pyfetch
has none, and a server may send `Retry-After: inf`: there it remains an assumption.
Nothing is assumed about callers or peers: they may stop
calling, and cancellation need never happen.

Deadlock is checked in every run.

## Findings

1. **A fetch cancelled before it starts is never deregistered**
   (`async_zombie`). A reader creates a task, registers it and is cancelled before
   the loop has run the task. `gather()` cancels the task, which ends without
   running its first step, so without its `finally`. `_inflight` keeps it, and
   every later read of those blocks gathers a cancelled task and raises
   `CancelledError`, although `_ensure_blocks` promises to await fetches in flight.
2. **A block fetched for a read that still waits can be evicted**
   (`async_evicted`). What a task protects is what was in flight when it started.
   A read that waits for two tasks loses the block of the first when a task that
   started after it writes over the cap, and `_assemble` raises
   `FileNotFoundError`; `_evict` says that such blocks are never evicted.
3. **A read evicts its own cached blocks** (`sync_missing`). `_ensure_blocks`
   protects the blocks it fetches and not those of the same read that were on
   disk; with `max_bytes` smaller than the read, the read fails with
   `FileNotFoundError`, and so does the next, where README.md promises that a range
   fetched once is served from the cache.
4. **A crash in a wipe can keep every stale block** (`dir_crash`). The next open
   finds no `meta.json`, takes the directory for a new one and writes a matching
   `meta.json` next to the blocks of the old version.
5. **A failed `open()` can leave its transport open** (`file_leak`). README.md says that
   a transport made by the file is closed on open failure. `open()` closes it when the
   probe raises; when the prefetch after it fails (or the cache directory cannot be
   made), nobody does, and under `async with` nobody can: `__aexit__` does not run.

All but the fourth were also seen by running the code. So was what two reads of one
cursor do that overlap: both return the same bytes and the position moves by twice
as much, past the end, after which `read()` raises `ValueError`. README.md asks for a
cursor each, so this is no finding; `FileObject` has it, under `shared`. And
`HttpFile.read` documents `-1` for all that remains, which the code refuses.

## Proofs

The theorems hold for every value of the constants that the `ASSUME` of a module
allows. These assumptions type the constants; beyond that they say that a block, an
interval and the number of versions are not zero, that there is at least one cap and
one block size (`DirAssumption`: without one no store can open), and that callers
are not numbers (`FileAssumption`: cursors are named by their caller or by the
number of their `open()`). Each proof has one lemma per action, or per group of
actions that touch the same state, and TLC finds each inductive invariant true on the
instances above.

| Theorem | Property | Module |
| --- | --- | --- |
| `TypeCorrect`, `RegistryCorrect`, `NoDuplicateDownload`, `WakeupsNotLost`, `SemaphoreConserved` | `TypeOK`, `RegistryMatchesTasks`, `SingleFlight`, `NoLostWakeup`, `SlotsConserved` | `AsyncBlockCacheProofs` |
| `UncancelledFetchesRun` | `RegisteredFetchesRun` without cancellation | `AsyncBlockCacheProofs` |
| `PublishedAtomically`, `CapHolds`, `ReadsFindTheirs`, `Served`, `ReadThroughImplemented` | `PublishAtomically`, `CapHoldsUpToInFlight`, `ReadsFindTheirBlocks`, `ServedForLifetime`, `ImplementsReadThrough` | `AsyncBlockCacheProofs` |
| `TypeCorrect`, `DiskIsRight`, `ReadsAreRight`, `Fewest`, `Counted`, `NotEvicted` | `TypeOK`, `BlocksHoldTheirBytes`, `ReadsReturnTheFile`, `FewestRequests`, `CountIsExact`, `FetchedBlocksStay` | `BlockCacheProofs` |
| `NearlyLru`, `CapHolds`, `EvictDecides`, `Implements` | `LruWithinInterval`, `CapHoldsUpToProtected`, (no run), `ImplementsReadThrough` | `BlockCacheProofs` |
| `CoalesceListFindsTheRuns` | part of `FewestRequests` | `BlockMathLemmas` |
| `TypeCorrect`, `Blame`, `Pressure`, `Quiet` | `TypeOK`, `BlameIsRight`, `NoExtraPressure`, `QuietOnceClosed` | `RangeTransportProofs` |
| `TypeCorrect`, `OpenDir`, `NoWipe` | `TypeOK`, `OpenDirIsRight`, `NoWipeUnderReaders` | `SharedCacheDirProofs` |
| `TypeCorrect`, `Ownership`, `InFile`, `ReadsFollow`, `StaysConnected` | `TypeOK`, `NothingElseLeaks`, `PositionsInFile`, `ReadsFollowOneAnother`, `OpenFileIsConnected` | `FileObjectProofs` |

Every module but `BlockMathLemmas` and `QueueLemmas` also has a theorem `Invariance`,
that its inductive invariant `IInv` holds. What these invariants add, and why:

* **AsyncBlockCache.** `IInv` is `TypeOK`, `RegistryKept`, `NoLostWakeup` and
  `SlotsConserved` together; each needs the others. That a task's `finally` removes
  only its own entries needs the registry to name one task per block; that an ended
  task is nobody's pending one, that tasks to be cancelled are live; that a released
  slot goes to a waiter that can use it, that the queue names exactly the queued
  tasks, once. The cap needs besides that a task has put its own run under
  protection (`OwnBlocksProtected`). `RegistryKept` is `RegistryMatchesTasks` in the
  form the proofs need. Both admit, and name, the tasks of finding 1, which are done
  and still registered; `UncancelledFetchesRun` says that without a cancelled caller
  there are none, so that finding 1 is the only way in which the registry errs. What concerns a private directory with room for
  the file (`Private`) needs `Coverage`: a registered block is not on disk yet, and
  a waiting read's blocks are on disk or in the tasks it waits for.
* **BlockCache.** `IInv` has three parts. `DiskInv`: contents, and
  `MtimesNearlyRight`, that an mtime lags the last use by less than an interval and
  `_touched` never runs ahead of it, without which a touch could be skipped twice.
  `CallInv`: the runs to come are runs of the blocks found missing, what is protected
  is what has been asked for, and `requested` counts its bytes. `WorkInv`: the body
  being written is that of its run, cut at a block, and all before the cut is on
  disk. `Fewest` rests on `CoalesceListFindsTheRuns`, `ReadsAreRight` on a closed form
  of what `_assemble` has joined after each block. `Implements` needs that `_evict`,
  which adds up file lengths, finds no more than `TotalSize` (`BytesCounted`: the
  sum, a recursion over the set of files, is the number of bytes their blocks have),
  so it takes nothing when the cap has room; then a block found present stays
  (`KeptWithRoom`). `EvictDecides` says that `_evict` can always choose, so that no
  result rests on a write that could not take place.
* **RangeTransport.** `Bookkeeping`: what a request still owes to a Retry-After is
  never more than what is left of its sleep, and only a request in a backoff sleeps.
  `SlotsKept`: a slot is held from the first attempt to the last, through every
  sleep. `NoExtraPressure` follows from the two.
* **SharedCacheDir**, assuming `WipesUndisturbed` (finding 4 is what happens
  otherwise; only `TypeCorrect` does without). `Agreement`: all stores at the
  directory want the same of it. `WiperAlone`: from the moment a store finds
  `meta.json` wrong until its list of files is empty, it is the only one.
  `MetaTells`: blocks have the size in `meta.json` and are not older than it.
  `ListIsComplete`: blocks without `meta.json` are all on a wiper's list, which is why a
  store that finds no `meta.json` finds no blocks either.
* **FileObject.** `Exclusion`: which calls keep which others out. `MadeInOrder`:
  transport, cache and cursor of an `open()` come in this order and go in the reverse
  one. `CursorsApart`: a cursor used by one call at a time still stands where its
  read began. `StaysConnected` needs besides that the transport a probe goes through
  is open (`Connected`).

Recursive definitions are functions here. That their equations have a solution,
and what it is, is proved by taking the least index, or the least size of a set, at
which a claim fails (`LeastMember`, from the well-foundedness of the natural
numbers): no induction rule with an operator as parameter is needed.

Only model-checked: liveness (`EveryCallReturns`, `EveryFetchEnds`,
`EveryRequestEnds`), since there is no fairness and no ENABLED in these proofs. The
five findings are counterexamples and have nothing to prove.

## Not modelled

* The range check of `_do_fetch_range`: it never fires for a run of blocks.
* An empty remote file: a server answers 416 or an empty 200 to the probe's first
  byte, and the file cannot be opened; `RangeTransport` takes the file not to be empty.
* `open()` overlapping another `open()` or a `close()`; clones handed from one
  coroutine to another.
* Transports that break the protocol, redirects, what a 206 has in its body.
* Stores open together with different configurations, temporary files, servers
  without validators, a file replaced while it is being read.
* Message wording, logging, environment variables, packaging: no state.

## Plan

1. `SharedCacheDir`: stores open together with different versions and block sizes; then
   `OpenDir` for what remains true of them.
2. `FileObject`: overlapping calls of `open()`, and of `open()` and `close()`.
3. Proofs: that what `RangeTransport` does to one request is what the caches take a
   request to be (it ends once, well or not, and only while it holds a slot).
