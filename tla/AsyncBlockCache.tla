--------------------------- MODULE AsyncBlockCache ---------------------------
(***************************************************************************)
(* AsyncBlockCache (aio/async_block_cache.py) on one asyncio event loop,   *)
(* with the fetch callback AsyncHttpFile gives it: _do_fetch_range behind  *)
(* the per-file semaphore (aio/async_http_file.py).                        *)
(*                                                                         *)
(* The event loop is cooperative, so an action is what one coroutine does  *)
(* between two suspensions.  A caller is a coroutine inside read() or      *)
(* prefetch(); a task is a _fetch_run coroutine, named by the run of       *)
(* adjacent blocks it fetches.  Which ready coroutine goes next is left    *)
(* open, and so is when, and how, the transport answers.                   *)
(*                                                                         *)
(* Abstracted here: block contents and byte offsets, the sizes of blocks   *)
(* (every block weighs one), the mtimes (any unprotected block may be the  *)
(* least recently used one), and the blocks of other URLs in cache_dir.    *)
(***************************************************************************)
EXTENDS BlockMath, SequencesExt

CONSTANTS
  Callers,         \* coroutines that call read() and prefetch()
  NumBlocks,       \* blocks of the file
  MaxBlocks,       \* max_bytes, in blocks; NumBlocks or more when it is None
  MaxConcurrency,  \* max_concurrency
  SharedDir,       \* do other caches evict and write in this url_dir?
  MayCancel        \* may callers be cancelled?

ASSUME CacheAssumption ==
  /\ NumBlocks \in Nat
  /\ MaxBlocks \in Nat
  /\ MaxConcurrency \in Nat \ {0}   \* AsyncHttpFile refuses less
  /\ SharedDir \in BOOLEAN
  /\ MayCancel \in BOOLEAN

VARIABLES
  disk,       \* blocks whose .blk file exists
  inflight,   \* _inflight: the run of the task registered for a block, or {}
  task,       \* where each task stands
  protected,  \* the blocks a started task will not evict
  doomed,     \* tasks with a CancelledError to be thrown into them
  waiters,    \* _fetch_semaphore's FIFO of tasks waiting for a slot
  pc,         \* where each caller stands
  want,       \* blocks a read() is going to assemble ({} for a prefetch())
  pending,    \* tasks of a caller's gather() that have not ended
  fetchedFor, \* blocks that were in flight when a read()'s gather() began
  result      \* what the gather(), and then the call, ended with

callerVars == <<pc, want, pending, fetchedFor, result>>
vars == <<disk, inflight, task, protected, doomed, waiters, callerVars>>

Blocks == 0 .. NumBlocks - 1

\* Nonempty sets of adjacent blocks.
Runs == {r \in (SUBSET Blocks) \ {{}} : \A a, c \in r : a .. c \subseteq r}

\* "zombie": cancelled before its first step, so its finally never ran.
TaskStates == {"none", "created", "queued", "active", "zombie"}
Outcomes == {"none", "ok", "error", "cancelled", "missing"}

Live == {r \in Runs : task[r] \in {"created", "queued", "active"}}
Holders == {r \in Runs : task[r] = "active"}
NeverBegun == {r \in Runs : task[r] = "zombie"}

Init ==
  /\ disk \in (IF SharedDir THEN SUBSET Blocks ELSE {{}})
  /\ inflight = [b \in Blocks |-> {}]
  /\ task = [r \in Runs |-> "none"]
  /\ protected = [r \in Runs |-> {}]
  /\ doomed = {}
  /\ waiters = <<>>
  /\ pc = [c \in Callers |-> "idle"]
  /\ want = [c \in Callers |-> {}]
  /\ pending = [c \in Callers |-> {}]
  /\ fetchedFor = [c \in Callers |-> {}]
  /\ result = [c \in Callers |-> "none"]

-----------------------------------------------------------------------------
(* read() and prefetch() up to their await: _ensure_blocks.                *)

\* Blocks of W neither on disk nor registered.
NeededIgnoringInflight(W) == W \ disk
Needed(W) == {b \in W \ disk : inflight[b] = {}}

Registered(W) ==
  LET new == Needed(W)
  IN  [b \in Blocks |-> IF b \in new THEN RunOf(b, new) ELSE inflight[b]]

\* The tasks _ensure_blocks gathers: its own new ones and its peers'.
PendingOnlyOwn(W) == Coalesce(Needed(W))
Pending(W) == LET reg == Registered(W) IN {reg[b] : b \in W} \ {{}}

\* gather() of a task that is done and cancelled ends cancelled at once.
EnsureBlocks(c, W, reads) ==
  LET own    == Coalesce(Needed(W))
      pend   == Pending(W)
      next   == IF pend = {} THEN "idle"
                ELSE IF \E r \in pend : task[r] = "zombie" THEN "gathered"
                ELSE "gathering"
  IN  /\ pc[c] = "idle"
      /\ inflight' = Registered(W)
      /\ task' = [r \in Runs |-> IF r \in own THEN "created" ELSE task[r]]
      /\ pc' = [pc EXCEPT ![c] = next]
      /\ result' = [result EXCEPT ![c] = CASE next = "idle"     -> "ok"
                                           [] next = "gathered" -> "cancelled"
                                           [] OTHER             -> "none"]
      /\ pending' = [pending EXCEPT ![c] = {r \in pend : task[r] # "zombie"}]
      /\ want' = [want EXCEPT ![c] = IF next = "idle" THEN {} ELSE reads]
      /\ fetchedFor' = [fetchedFor EXCEPT ![c] = IF next = "idle" THEN {}
                                                 ELSE reads \cap UNION pend]
      /\ UNCHANGED <<disk, protected, doomed, waiters>>

ReadOneTooMany(c) == \E first, last \in Blocks :
  first <= last /\ EnsureBlocks(c, first .. last, first .. last + 1)
Read(c) == \E first, last \in Blocks :
             first <= last /\ EnsureBlocks(c, first .. last, first .. last)

Prefetch(c) == \E W \in (SUBSET Blocks) \ {{}} : EnsureBlocks(c, W, {})

-----------------------------------------------------------------------------
(* A task: _fetch_run, with _do_fetch_range inside.                        *)

\* asyncio.Semaphore: a waiter whose task is being cancelled is passed over.
Awake == {i \in DOMAIN waiters : waiters[i] \notin doomed}
SlotFree == Cardinality(Holders) < MaxConcurrency /\ Awake = {}

\* What r will not evict; with room for the whole file _evict deletes nothing
\* and never looks.
Protect(r) ==
  IF MaxBlocks < NumBlocks THEN {b \in Blocks : inflight[b] # {}} \cup r ELSE {}

\* The task's first step: note what to protect, then take a slot or queue.
FetchStartUnbounded(r) ==
  /\ task[r] = "created"
  /\ r \notin doomed
  /\ protected' = [protected EXCEPT ![r] = Protect(r)]
  /\ task' = [task EXCEPT ![r] = "active"]
  /\ UNCHANGED <<disk, inflight, doomed, waiters, callerVars>>

FetchStart(r) ==
  /\ task[r] = "created"
  /\ r \notin doomed
  /\ protected' = [protected EXCEPT ![r] = Protect(r)]
  /\ IF SlotFree
     THEN /\ task' = [task EXCEPT ![r] = "active"]
          /\ UNCHANGED waiters
     ELSE /\ task' = [task EXCEPT ![r] = "queued"]
          /\ waiters' = Append(waiters, r)
  /\ UNCHANGED <<disk, inflight, doomed, callerVars>>

\* r leaves the semaphore's async with: its slot goes to the first waiter.
ReleaseSlotNoWakeup(r) ==
  /\ task' = [task EXCEPT ![r] = "none"]
  /\ UNCHANGED waiters

ReleaseSlot(r) ==
  \/ /\ Awake = {}
     /\ task' = [task EXCEPT ![r] = "none"]
     /\ UNCHANGED waiters
  \/ \E i \in Awake :
       /\ \A j \in Awake : i <= j
       /\ task' = [task EXCEPT ![r] = "none", ![waiters[i]] = "active"]
       /\ waiters' = RemoveAt(waiters, i)

\* _fetch_run's finally.
DeregisterFirstOnly(r) ==
  inflight' = [b \in Blocks |-> IF b \in r /\ b - 1 \notin r THEN {} ELSE inflight[b]]
Deregister(r) == inflight' = [b \in Blocks |-> IF b \in r THEN {} ELSE inflight[b]]

\* r is done: a gather() ends on the first failure, or on its last task.
SettleOnFirst(r, res) ==
  LET over == {c \in Callers : pc[c] = "gathering" /\ r \in pending[c]}
  IN  /\ pc' = [c \in Callers |-> IF c \in over THEN "gathered" ELSE pc[c]]
      /\ result' = [c \in Callers |-> IF c \in over THEN res ELSE result[c]]
      /\ pending' = [c \in Callers |-> pending[c] \ {r}]
      /\ UNCHANGED <<want, fetchedFor>>

SettleOnSuccess(r, res) ==
  LET over == {c \in Callers : pc[c] = "gathering" /\ res = "ok" /\ pending[c] = {r}}
  IN  /\ pc' = [c \in Callers |-> IF c \in over THEN "gathered" ELSE pc[c]]
      /\ result' = [c \in Callers |-> IF c \in over THEN res ELSE result[c]]
      /\ pending' = [c \in Callers |-> pending[c] \ {r}]
      /\ UNCHANGED <<want, fetchedFor>>

SettleGatherers(r, res) ==
  LET over == {c \in Callers : /\ pc[c] = "gathering"
                               /\ r \in pending[c]
                               /\ res # "ok" \/ pending[c] = {r}}
  IN  /\ pc' = [c \in Callers |-> IF c \in over THEN "gathered" ELSE pc[c]]
      /\ result' = [c \in Callers |-> IF c \in over THEN res ELSE result[c]]
      /\ pending' = [c \in Callers |-> pending[c] \ {r}]
      /\ UNCHANGED <<want, fetchedFor>>

\* What _evict may delete while r writes the blocks `written`: unprotected
\* blocks, as many as are over max_bytes, or all there are.  It runs after
\* each block written; all of r is protected, so once at the end is the same.
VictimsBeforeWrite(r, written) ==
  LET spare  == disk \ protected[r]
      excess == Larger(0, Cardinality(disk) - MaxBlocks)
  IN  {v \in SUBSET spare : Cardinality(v) = Smaller(excess, Cardinality(spare))}

VictimsAtCap(r, written) ==
  LET spare  == disk \ protected[r]
      excess == Larger(0, Cardinality(disk \cup written) - MaxBlocks + 1)
  IN  {v \in SUBSET spare : Cardinality(v) = Smaller(excess, Cardinality(spare))}

Victims(r, written) ==
  LET spare  == disk \ protected[r]
      excess == Larger(0, Cardinality(disk \cup written) - MaxBlocks)
  IN  IF written = {} THEN {{}}
      ELSE {v \in SUBSET spare : Cardinality(v) = Smaller(excess, Cardinality(spare))}

Persist(r, written) ==
  \E v \in Victims(r, written) : disk' = (disk \cup written) \ v

\* The transport answers with a body of the right size.
FetchCompletes(r) ==
  /\ task[r] = "active"
  /\ r \notin doomed
  /\ Persist(r, r)
  /\ ReleaseSlot(r)
  /\ Deregister(r)
  /\ SettleGatherers(r, "ok")
  /\ protected' = [protected EXCEPT ![r] = {}]
  /\ UNCHANGED doomed

\* The transport raises or _check_fetched refuses the body (nothing written),
\* or an OSError stops _write_run part-way.
FetchFails(r) ==
  /\ task[r] = "active"
  /\ r \notin doomed
  /\ \E stop \in r : Persist(r, {b \in r : b < stop})
  /\ ReleaseSlot(r)
  /\ Deregister(r)
  /\ SettleGatherers(r, "error")
  /\ protected' = [protected EXCEPT ![r] = {}]
  /\ UNCHANGED doomed

\* CancelledError reaches a task: before its first step the body, and so its
\* finally, never runs; afterwards the slot or the place in the queue is given
\* up and the blocks are deregistered.
CancelledUnstarted(r) ==
  /\ task[r] = "created"
  /\ task' = [task EXCEPT ![r] = "zombie"]
  /\ UNCHANGED <<inflight, waiters>>

CancelledQueued(r) ==
  /\ task[r] = "queued"
  /\ task' = [task EXCEPT ![r] = "none"]
  /\ \E i \in DOMAIN waiters : waiters[i] = r /\ waiters' = RemoveAt(waiters, i)
  /\ Deregister(r)

CancelledActive(r) ==
  /\ task[r] = "active"
  /\ ReleaseSlot(r)
  /\ Deregister(r)

TaskCancelled(r) ==
  /\ r \in doomed
  /\ CancelledUnstarted(r) \/ CancelledQueued(r) \/ CancelledActive(r)
  /\ SettleGatherers(r, "cancelled")
  /\ doomed' = doomed \ {r}
  /\ protected' = [protected EXCEPT ![r] = {}]
  /\ UNCHANGED disk

-----------------------------------------------------------------------------
(* The callers again: cancellation, and the rest of read() after the await. *)

\* Cancelling a caller inside gather() cancels the tasks it waits for, whoever
\* else waits for them.  When a failure ended the gather(), the rest of them are
\* still cancelled instead of the caller until its callback has run.  Afterwards,
\* or with no task left, the caller itself is.
CancelCaller(c) ==
  /\ MayCancel
  /\ \/ /\ pc[c] = "gathering"
        /\ doomed' = doomed \cup pending[c]
        /\ UNCHANGED result
     \/ /\ pc[c] = "gathered"
        /\ pending[c] # {}
        /\ doomed' = doomed \cup pending[c]
        /\ UNCHANGED result
     \/ /\ pc[c] = "gathered"
        /\ result' = [result EXCEPT ![c] = "cancelled"]
        /\ UNCHANGED doomed
  /\ UNCHANGED <<disk, inflight, task, protected, waiters, pc, want, pending, fetchedFor>>

\* _assemble opens every block of the read and fails if one is gone.
Resume(c) ==
  /\ pc[c] = "gathered"
  /\ pc' = [pc EXCEPT ![c] = "idle"]
  /\ result' = [result EXCEPT ![c] = IF @ = "ok" /\ ~(want[c] \subseteq disk)
                                     THEN "missing" ELSE @]
  /\ want' = [want EXCEPT ![c] = {}]
  /\ fetchedFor' = [fetchedFor EXCEPT ![c] = {}]
  /\ pending' = [pending EXCEPT ![c] = {}]
  /\ UNCHANGED <<disk, inflight, task, protected, doomed, waiters>>

\* Another cache on the same directory deletes a block, or writes one.  So does
\* close() of this file, to every block of its temporary directory: from then on
\* fetches fail.
PeerEvicts(b) ==
  /\ SharedDir
  /\ b \in disk
  /\ disk' = disk \ {b}
  /\ UNCHANGED <<inflight, task, protected, doomed, waiters, callerVars>>

PeerWrites(b) ==
  /\ SharedDir
  /\ b \notin disk
  /\ disk' = disk \cup {b}
  /\ UNCHANGED <<inflight, task, protected, doomed, waiters, callerVars>>

-----------------------------------------------------------------------------

CallerStep(c) == Read(c) \/ Prefetch(c) \/ CancelCaller(c) \/ Resume(c)
TaskStep(r) == FetchStart(r) \/ FetchCompletes(r) \/ FetchFails(r) \/ TaskCancelled(r)
PeerStep(b) == PeerEvicts(b) \/ PeerWrites(b)

Next ==
  \/ \E c \in Callers : CallerStep(c)
  \/ \E r \in Runs : TaskStep(r)
  \/ \E b \in Blocks : PeerStep(b)

Spec == Init /\ [][Next]_vars

\* The loop runs every ready coroutine, and every transport request is taken to
\* end: aiohttp has a timeout, both transports make at most three attempts.
Fairness ==
  /\ \A r \in Runs : /\ WF_vars(FetchStart(r))
                     /\ WF_vars(FetchCompletes(r) \/ FetchFails(r))
                     /\ WF_vars(TaskCancelled(r))
  /\ \A c \in Callers : WF_vars(Resume(c))

FairSpec == Spec /\ Fairness

-----------------------------------------------------------------------------
(* Properties.                                                             *)

\* Every variable keeps the shape its declaration gives it.
TypeOK ==
  /\ disk \in SUBSET Blocks
  /\ inflight \in [Blocks -> Runs \cup {{}}]
  /\ task \in [Runs -> TaskStates]
  /\ protected \in [Runs -> SUBSET Blocks]
  /\ doomed \in SUBSET Runs
  /\ waiters \in Seq(Runs)
  /\ pc \in [Callers -> {"idle", "gathering", "gathered"}]
  /\ want \in [Callers -> SUBSET Blocks]
  /\ pending \in [Callers -> SUBSET Runs]
  /\ fetchedFor \in [Callers -> SUBSET Blocks]
  /\ result \in [Callers -> Outcomes]

\* _inflight names the unfinished tasks and those done without their finally, and
\* no others, each under exactly its own blocks: every task that has begun takes
\* itself off, whether it ends by success, failure or cancellation, and nothing
\* that registered itself meanwhile.  The exception, a task cancelled before its
\* first step, is done and stays: RegisteredFetchesRun is about it.
RegistryMatchesTasks ==
  LET registered == Live \cup NeverBegun
  IN  /\ \A b \in Blocks : inflight[b] # {} => b \in inflight[b] /\ inflight[b] \in registered
      /\ \A r \in registered, b \in Blocks : b \in r => inflight[b] = r

\* "overlapping reads never duplicate a download": no block is being fetched by
\* two tasks at a time.
SingleFlight ==
  \A r, s \in Live : r # s => r \cap s = {}

\* A gather() that has not ended waits for some task, and only for tasks that
\* can still end; otherwise its caller would never be woken.  Nor is an ended
\* task cancelled.
NoLostWakeup ==
  /\ doomed \subseteq Live
  /\ \A c \in Callers : /\ pc[c] = "gathering" => pending[c] # {}
                        /\ pending[c] \subseteq Live

\* The semaphore is conserved over completion, failure and cancellation of its
\* holders and waiters: never more than max_concurrency requests, no slot left
\* free while a task that wants one waits, the queue naming each of those once.
SlotsConserved ==
  /\ Cardinality(Holders) <= MaxConcurrency
  /\ Awake # {} => Cardinality(Holders) = MaxConcurrency
  /\ ToSet(waiters) = {r \in Runs : task[r] = "queued"} /\ IsInjective(waiters)

\* With a cache directory of one's own and nothing to evict, a read() that is
\* waiting has each of its blocks on disk or on the way, and one whose gather()
\* went well finds all of them, however the other callers' tasks ended.
ReadsFindTheirBlocks ==
  ~SharedDir /\ NumBlocks <= MaxBlocks =>
    \A c \in Callers :
      /\ pc[c] = "gathering" => want[c] \subseteq disk \cup UNION pending[c]
      /\ pc[c] = "gathered" /\ result[c] = "ok" => want[c] \subseteq disk

\* A block appears on disk only together with the end of the task registered
\* for it: no reader can see it both missing and unregistered while its fetch
\* runs, nor fetch it again.
PublishAtomically ==
  [][~SharedDir => \A b \in disk' \ disk : inflight[b] # {} /\ inflight'[b] = {}]_vars

\* "served from cache for the reader's lifetime": a private, uncapped cache
\* loses no block and starts no fetch of a block it has.
ServedForLifetime ==
  [][~SharedDir /\ NumBlocks <= MaxBlocks =>
       /\ disk \subseteq disk'
       /\ \A r \in Live' \ Live : r \cap disk = {}]_vars

\* Seen as a read-through cache: the blocks registered are being fetched, a call
\* lasts until it has returned.  A private, uncapped cache keeps its promise.
ReadThrough == INSTANCE ReadThroughCache WITH
  present  <- disk,
  fetching <- {b \in Blocks : inflight[b] # {}},
  calling  <- {c \in Callers : pc[c] # "idle"},
  wanted   <- want,
  outcome  <- [c \in Callers |-> IF pc[c] = "idle" THEN result[c] ELSE "none"]

ImplementsReadThrough == ReadThrough!Spec

\* max_bytes: whoever adds to the cache leaves it within the cap, or holding
\* nothing but blocks that were in flight when that task started.
CapHoldsUpToInFlight ==
  [][~SharedDir /\ ~(disk' \subseteq disk) =>
       \/ Cardinality(disk') <= MaxBlocks
       \/ \E r \in Holders \ Holders' : disk' \subseteq protected[r]]_vars

\* Every read() and prefetch() returns or raises.
EveryCallReturns ==
  \A c \in Callers : pc[c] # "idle" ~> pc[c] = "idle"

\* Every fetch ends, also one nobody waits for any more because its gather()
\* failed on another task, and one queued behind others.
EveryFetchEnds ==
  \A r \in Runs : task[r] \in {"created", "queued", "active"} ~>
                  task[r] \in {"none", "zombie"}

\* _ensure_blocks promises to "await every in-flight fetch covering" its blocks:
\* what _inflight holds must be a fetch that runs, or awaiting it is no use.
RegisteredFetchesRun ==
  \A b \in Blocks : inflight[b] # {} => task[inflight[b]] \in {"created", "queued", "active"}

\* _evict says that blocks "fetched for the in-flight read of the current URL
\* are never evicted": a read() whose gather() went well has those of its
\* blocks that were fetched for it.
InFlightReadKeepsItsBlocks ==
  ~SharedDir => \A c \in Callers :
    pc[c] = "gathered" /\ result[c] = "ok" => fetchedFor[c] \subseteq disk

=============================================================================
