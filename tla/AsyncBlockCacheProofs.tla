------------------------- MODULE AsyncBlockCacheProofs -------------------------
(***************************************************************************)
(* Safety of AsyncBlockCache for every file, cap, number of callers and    *)
(* concurrency, and, for a private cache with room for its file, that it   *)
(* implements ReadThroughCache.                                            *)
(***************************************************************************)
EXTENDS AsyncBlockCache, QueueLemmas, FiniteSetTheorems

-----------------------------------------------------------------------------
(* The runs _coalesce makes.                                               *)

\* Each block of S gets a run: adjacent blocks of S, itself among them, which is
\* the run of each of its members.
LEMMA RunOfFacts ==
  ASSUME NEW S \in SUBSET Blocks, NEW b \in S
  PROVE  /\ RunOf(b, S) \in Runs
         /\ b \in RunOf(b, S)
         /\ RunOf(b, S) \subseteq S
         /\ \A x \in RunOf(b, S) : RunOf(x, S) = RunOf(b, S)
<1> DEFINE R == RunOf(b, S)
<1>0. /\ \A x \in S : x \in Int
      /\ \A x \in Blocks : x \in Int
  BY CacheAssumption DEF Blocks
<1>1. b \in R
  BY <1>0 DEF RunOf
<1>2. R \subseteq S
  BY DEF RunOf
<1>3. \A x \in R : x .. b \subseteq S /\ b .. x \subseteq S
  BY DEF RunOf
<1>4. ASSUME NEW x \in S, x .. b \subseteq S, b .. x \subseteq S
      PROVE  x \in R
  BY <1>4 DEF RunOf
<1> HIDE DEF R
<1>5. ASSUME NEW a \in R, NEW c \in R, NEW y \in a .. c
      PROVE  y \in R
  <2>1. a \in Int /\ b \in Int /\ c \in Int /\ y \in Int /\ a <= y /\ y <= c
    BY <1>0, <1>2
  <2>2. a .. b \subseteq S /\ b .. c \subseteq S
    BY <1>3
  <2>3. CASE b <= y
    <3>1. y .. b \subseteq {b} /\ b .. y \subseteq b .. c /\ y \in b .. c
      BY <2>1, <2>3
    <3> QED
      BY <1>4, <2>2, <3>1
  <2>4. CASE y <= b
    <3>1. b .. y \subseteq {b} /\ y .. b \subseteq a .. b /\ y \in a .. b
      BY <2>1, <2>4
    <3> QED
      BY <1>4, <2>2, <3>1
  <2> QED
    BY <2>1, <2>3, <2>4
<1>6. R \in Runs
  BY <1>1, <1>2, <1>5 DEF Runs
<1>7. ASSUME NEW x \in R
      PROVE  RunOf(x, S) = R
  <2>1. x \in S /\ x \in Int /\ b \in Int /\ x .. b \subseteq S /\ b .. x \subseteq S
    BY <1>0, <1>2, <1>3
  <2>2. ASSUME NEW z \in RunOf(x, S) PROVE z \in R
    <3>1. z \in S /\ z \in Int /\ z .. x \subseteq S /\ x .. z \subseteq S
      BY <1>0 DEF RunOf
    <3>2. z .. b \subseteq S
      BY <2>1, <3>1
    <3>3. b .. z \subseteq S
      BY <2>1, <3>1
    <3> QED
      BY <1>4, <3>1, <3>2, <3>3
  <2>3. ASSUME NEW z \in R PROVE z \in RunOf(x, S)
    <3>1. z \in S /\ z \in Int /\ z .. b \subseteq S /\ b .. z \subseteq S
      BY <1>0, <1>2, <1>3
    <3>2. z .. x \subseteq S /\ x .. z \subseteq S
      BY <2>1, <3>1
    <3> QED
      BY <3>1, <3>2 DEF RunOf
  <2> QED
    BY <2>2, <2>3
<1> QED
  BY <1>1, <1>2, <1>6, <1>7 DEF R

\* RegistryMatchesTasks, said of the states of a task one by one.
RegistryKept ==
  /\ \A b \in Blocks : inflight[b] # {} =>
       b \in inflight[b] /\ inflight[b] \in Runs /\ task[inflight[b]] # "none"
  /\ \A r \in Runs : task[r] # "none" => \A b \in r : inflight[b] = r

\* What the register loop leaves in _inflight.
LEMMA RegisteredFacts ==
  ASSUME TypeOK, RegistryKept, NEW W \in SUBSET Blocks
  PROVE  /\ Needed(W) \in SUBSET Blocks
         /\ Coalesce(Needed(W)) \subseteq Runs
         /\ \A r \in Coalesce(Needed(W)) :
              /\ r \cap disk = {} /\ r \subseteq W
              /\ task[r] = "none"
              /\ \A b \in r : inflight[b] = {} /\ Registered(W)[b] = r
         /\ \A b \in Blocks : Registered(W)[b] # {} =>
              \/ Registered(W)[b] \in Coalesce(Needed(W)) /\ b \in Registered(W)[b]
              \/ inflight[b] # {} /\ Registered(W)[b] = inflight[b]
         /\ \A b \in Blocks : inflight[b] # {} => Registered(W)[b] = inflight[b]
         /\ \A b \in W : b \in disk \/ Registered(W)[b] # {}
         /\ Registered(W) \in [Blocks -> Runs \cup {{}}]
<1>1. Needed(W) \in SUBSET Blocks
  BY DEF Needed
<1>2. \A b \in Needed(W) : /\ RunOf(b, Needed(W)) \in Runs
                           /\ b \in RunOf(b, Needed(W))
                           /\ RunOf(b, Needed(W)) \subseteq Needed(W)
                           /\ \A x \in RunOf(b, Needed(W)) :
                                RunOf(x, Needed(W)) = RunOf(b, Needed(W))
  BY <1>1, RunOfFacts
<1>3. Coalesce(Needed(W)) \subseteq Runs
  BY <1>2 DEF Coalesce
<1>4. ASSUME NEW r \in Coalesce(Needed(W))
      PROVE  /\ r \cap disk = {} /\ r \subseteq W
             /\ task[r] = "none"
             /\ \A b \in r : inflight[b] = {} /\ Registered(W)[b] = r
  <2>1. PICK b0 \in Needed(W) : r = RunOf(b0, Needed(W))
    BY DEF Coalesce
  <2>2. r \subseteq Needed(W) /\ b0 \in r /\ r \in Runs /\ r # {}
    BY <1>2, <2>1
  <2>3. \A b \in r : inflight[b] = {} /\ b \notin disk /\ b \in W
    BY <2>2 DEF Needed
  <2>4. \A b \in r : Registered(W)[b] = r
    BY <1>1, <1>2, <2>1, <2>2 DEF Registered
  <2>5. task[r] = "none"
    BY <2>2, <2>3 DEF RegistryKept
  <2> QED
    BY <2>3, <2>4, <2>5
<1>5. \A b \in Blocks : Registered(W)[b] # {} =>
        \/ Registered(W)[b] \in Coalesce(Needed(W)) /\ b \in Registered(W)[b]
        \/ inflight[b] # {} /\ Registered(W)[b] = inflight[b]
  BY <1>2 DEF Registered, Coalesce
<1>6. \A b \in Blocks : inflight[b] # {} => Registered(W)[b] = inflight[b]
  BY DEF Registered, Needed
<1>7. \A b \in W : b \in disk \/ Registered(W)[b] # {}
  <2> SUFFICES ASSUME NEW b \in W, b \notin disk PROVE Registered(W)[b] # {}
    OBVIOUS
  <2>1. CASE b \in Needed(W)
    BY <1>2, <2>1 DEF Registered
  <2>2. CASE b \notin Needed(W)
    BY <2>2 DEF Registered, Needed
  <2> QED
    BY <2>1, <2>2
<1>8. Registered(W) \in [Blocks -> Runs \cup {{}}]
  BY <1>2 DEF Registered, TypeOK
<1> QED
  BY <1>1, <1>3, <1>4, <1>5, <1>6, <1>7, <1>8

-----------------------------------------------------------------------------
(* The semaphore.                                                          *)

\* There are finitely many tasks, so the holders of a slot can be counted.
LEMMA HoldersCount ==
  /\ IsFiniteSet(Runs)
  /\ IsFiniteSet(Holders) /\ Cardinality(Holders) \in Nat
<1>1. IsFiniteSet(Blocks)
  BY CacheAssumption, FS_Interval DEF Blocks
<1>2. IsFiniteSet(SUBSET Blocks)
  BY <1>1, FS_SUBSET
<1>3. IsFiniteSet(Runs)
  BY <1>2, FS_Subset DEF Runs
<1>4. IsFiniteSet(Holders)
  BY <1>3, FS_Subset DEF Holders
<1> QED
  BY <1>3, <1>4, FS_CardinalityType

\* What the queue holds: tasks that wait, each once.
LEMMA QueueFacts ==
  ASSUME TypeOK, SlotsConserved
  PROVE  /\ Len(waiters) \in Nat /\ DOMAIN waiters = 1 .. Len(waiters)
         /\ \A i \in DOMAIN waiters : waiters[i] \in Runs /\ task[waiters[i]] = "queued"
         /\ \A s \in Runs : task[s] = "queued" => \E i \in DOMAIN waiters : waiters[i] = s
<1>1. waiters \in Seq(Runs)
  BY DEF TypeOK
<1>2. Len(waiters) \in Nat /\ DOMAIN waiters = 1 .. Len(waiters)
  BY <1>1, LenProperties
<1>3. ToSet(waiters) = {r \in Runs : task[r] = "queued"}
  BY DEF SlotsConserved
<1>4. /\ \A i \in DOMAIN waiters : waiters[i] \in ToSet(waiters)
      /\ \A s \in ToSet(waiters) : \E i \in DOMAIN waiters : waiters[i] = s
  BY DEF ToSet
<1> QED
  BY <1>2, <1>3, <1>4

\* Taking the i-th waiter out of the queue takes out that task and no other.
LEMMA DequeueFacts ==
  ASSUME TypeOK, SlotsConserved, NEW i \in DOMAIN waiters
  PROVE  /\ RemoveAt(waiters, i) \in Seq(Runs)
         /\ ToSet(RemoveAt(waiters, i)) = {r \in Runs : task[r] = "queued"} \ {waiters[i]}
         /\ IsInjective(RemoveAt(waiters, i))
<1>1. /\ waiters \in Seq(Runs) /\ IsInjective(waiters)
      /\ ToSet(waiters) = {r \in Runs : task[r] = "queued"}
  BY DEF TypeOK, SlotsConserved
<1> QED
  BY <1>1, RemoveAtFacts

\* Leaving the semaphore, by completion, failure or cancellation: the slot goes
\* to a waiter or becomes free, and nothing is lost.
LEMMA ReleaseSlotFacts ==
  ASSUME TypeOK, SlotsConserved,
         NEW r \in Runs, task[r] = "active", ReleaseSlot(r),
         doomed' = doomed \/ doomed' = doomed \ {r}
  PROVE  /\ task' \in [Runs -> TaskStates] /\ waiters' \in Seq(Runs)
         /\ task'[r] = "none"
         /\ \A s \in Runs : s # r =>
              task'[s] = task[s] \/ (task[s] = "queued" /\ task'[s] = "active")
         /\ SlotsConserved'
<1>0. task \in [Runs -> TaskStates] /\ waiters \in Seq(Runs)
  BY DEF TypeOK
<1>1. \A i \in DOMAIN waiters : waiters[i] \in Runs /\ task[waiters[i]] = "queued" /\ waiters[i] # r
  BY QueueFacts
<1>2. /\ Cardinality(Holders) \in Nat /\ IsFiniteSet(Holders)
      /\ Cardinality(Holders \ {r}) = Cardinality(Holders) - 1
      /\ IsFiniteSet(Holders \ {r})
  <2>1. r \in Holders
    BY DEF Holders
  <2> QED
    BY <2>1, HoldersCount, FS_RemoveElement
<1>3. /\ Cardinality(Holders) <= MaxConcurrency
      /\ Awake # {} => Cardinality(Holders) = MaxConcurrency
      /\ ToSet(waiters) = {s \in Runs : task[s] = "queued"} /\ IsInjective(waiters)
  BY DEF SlotsConserved
<1>4. CASE /\ Awake = {}
           /\ task' = [task EXCEPT ![r] = "none"]
           /\ UNCHANGED waiters
  <2>1. Awake' = {}
    BY <1>1, <1>4 DEF Awake
  <2>2. Holders' = Holders \ {r}
    BY <1>0, <1>4 DEF Holders
  <2>3. {s \in Runs : task'[s] = "queued"} = {s \in Runs : task[s] = "queued"}
    BY <1>0, <1>4
  <2>4. Cardinality(Holders') <= MaxConcurrency
    BY <1>2, <1>3, <2>2, CacheAssumption
  <2>5. SlotsConserved'
    BY <1>3, <1>4, <2>1, <2>3, <2>4 DEF SlotsConserved
  <2> QED
    BY <1>0, <1>4, <2>5 DEF TaskStates
<1>5. ASSUME NEW i \in Awake,
             task' = [task EXCEPT ![r] = "none", ![waiters[i]] = "active"],
             waiters' = RemoveAt(waiters, i)
      PROVE  /\ task' \in [Runs -> TaskStates] /\ waiters' \in Seq(Runs)
             /\ task'[r] = "none"
             /\ \A s \in Runs : s # r =>
                  task'[s] = task[s] \/ (task[s] = "queued" /\ task'[s] = "active")
             /\ SlotsConserved'
  <2>1. i \in DOMAIN waiters /\ waiters[i] \in Runs /\ waiters[i] # r /\ task[waiters[i]] = "queued"
    BY <1>1 DEF Awake
  <2>2. /\ waiters' \in Seq(Runs) /\ IsInjective(waiters')
        /\ ToSet(waiters') = {s \in Runs : task[s] = "queued"} \ {waiters[i]}
    BY <1>5, <2>1, DequeueFacts
  <2>3. \A s \in Runs : task'[s] = IF s = waiters[i] THEN "active"
                                   ELSE IF s = r THEN "none" ELSE task[s]
    BY <1>0, <1>5, <2>1
  <2>4. Holders' = (Holders \ {r}) \cup {waiters[i]}
    BY <2>1, <2>3 DEF Holders
  <2>5. waiters[i] \notin Holders \ {r}
    BY <2>1 DEF Holders
  <2>6. Cardinality(Holders') = Cardinality(Holders)
    <3>1. Cardinality((Holders \ {r}) \cup {waiters[i]}) = Cardinality(Holders \ {r}) + 1
      BY <1>2, <2>5, FS_AddElement
    <3> QED
      BY <1>2, <2>4, <3>1
  <2>7. Cardinality(Holders') = MaxConcurrency
    BY <1>3, <2>6
  <2>8. ToSet(waiters') = {s \in Runs : task'[s] = "queued"}
    BY <2>1, <2>2, <2>3
  <2>9. SlotsConserved'
    BY <2>2, <2>7, <2>8, CacheAssumption DEF SlotsConserved
  <2>10. task' \in [Runs -> TaskStates]
    BY <1>0, <1>5 DEF TaskStates
  <2> QED
    BY <2>1, <2>2, <2>3, <2>9, <2>10
<1> QED
  BY <1>4, <1>5 DEF ReleaseSlot

-----------------------------------------------------------------------------
(* The inductive invariant.  SingleFlight follows from it and is not part  *)
(* of it: that no two tasks share a block is no reason for the next pair   *)
(* not to; that _inflight names every unfinished task under each of its    *)
(* blocks is.                                                              *)

IInv == TypeOK /\ RegistryKept /\ NoLostWakeup /\ SlotsConserved

LEMMA InitIInv == Init => IInv
<1> SUFFICES ASSUME Init PROVE IInv
  OBVIOUS
<1> USE DEF Init
<1>1. TypeOK
  BY DEF TypeOK, TaskStates, Outcomes
<1>2. RegistryKept /\ NoLostWakeup
  BY DEF RegistryKept, NoLostWakeup, Runs
<1>3. SlotsConserved
  <2>1. Holders = {} /\ Awake = {} /\ ToSet(waiters) = {} /\ IsInjective(waiters)
    BY DEF Holders, Awake, ToSet, IsInjective
  <2>2. Cardinality({}) = 0
    BY FS_EmptySet
  <2> QED
    BY <2>1, <2>2, CacheAssumption DEF SlotsConserved
<1> QED
  BY <1>1, <1>2, <1>3 DEF IInv

\* read() and prefetch() up to their await.
LEMMA EnsureBlocksIInv ==
  ASSUME IInv, NEW c \in Callers, NEW W \in SUBSET Blocks, NEW reads \in SUBSET Blocks,
         EnsureBlocks(c, W, reads)
  PROVE  IInv'
<1> DEFINE new == Coalesce(Needed(W))
<1> USE DEF IInv
<1>1. /\ new \subseteq Runs
      /\ \A r \in new : task[r] = "none" /\ \A b \in r : inflight[b] = {} /\ Registered(W)[b] = r
      /\ \A b \in Blocks : Registered(W)[b] # {} =>
           \/ Registered(W)[b] \in new /\ b \in Registered(W)[b]
           \/ inflight[b] # {} /\ Registered(W)[b] = inflight[b]
      /\ \A b \in Blocks : inflight[b] # {} => Registered(W)[b] = inflight[b]
      /\ Registered(W) \in [Blocks -> Runs \cup {{}}]
  BY RegisteredFacts
<1>2. /\ inflight' = Registered(W)
      /\ task' = [r \in Runs |-> IF r \in new THEN "created" ELSE task[r]]
      /\ UNCHANGED <<disk, protected, doomed, waiters>>
  BY DEF EnsureBlocks
<1>3. Pending(W) \subseteq Runs /\ \A r \in Pending(W) : task'[r] # "none"
  <2>1. \A b \in W : Registered(W)[b] # {} =>
          Registered(W)[b] \in Runs /\ task'[Registered(W)[b]] # "none"
    BY <1>1, <1>2 DEF RegistryKept
  <2> QED
    BY <2>1 DEF Pending
<1> HIDE DEF new
<1>4. TypeOK'
  <2>1. inflight' \in [Blocks -> Runs \cup {{}}] /\ task' \in [Runs -> TaskStates]
    BY <1>1, <1>2 DEF TypeOK, TaskStates
  <2>2. /\ pc' \in [Callers -> {"idle", "gathering", "gathered"}]
        /\ result' \in [Callers -> Outcomes]
    BY DEF EnsureBlocks, TypeOK, Outcomes
  <2>3. /\ want' \in [Callers -> SUBSET Blocks]
        /\ fetchedFor' \in [Callers -> SUBSET Blocks]
    BY DEF EnsureBlocks, TypeOK
  <2>4. pending' \in [Callers -> SUBSET Runs]
    BY <1>3 DEF EnsureBlocks, TypeOK
  <2> QED
    BY <1>2, <2>1, <2>2, <2>3, <2>4 DEF TypeOK
<1>5. RegistryKept'
  <2>1. ASSUME NEW b \in Blocks, inflight'[b] # {}
        PROVE  b \in inflight'[b] /\ inflight'[b] \in Runs /\ task'[inflight'[b]] # "none"
    BY <1>1, <1>2, <2>1 DEF RegistryKept
  <2>2. ASSUME NEW r \in Runs, task'[r] # "none", NEW b \in r
        PROVE  inflight'[b] = r
    <3>1. CASE r \in new
      BY <1>1, <1>2, <3>1
    <3>2. CASE r \notin new
      <4>1. task[r] # "none" /\ b \in Blocks /\ r # {}
        BY <1>2, <2>2, <3>2 DEF Runs
      <4>2. inflight[b] = r
        BY <4>1 DEF RegistryKept
      <4> QED
        BY <1>1, <1>2, <4>1, <4>2
    <3> QED
      BY <3>1, <3>2
  <2> QED
    BY <2>1, <2>2 DEF RegistryKept
<1>6. Live \subseteq Live'
  BY <1>1, <1>2 DEF Live
<1>7. NoLostWakeup'
  <2>1. doomed' \subseteq Live' /\ \A d \in Callers : d # c => pending'[d] \subseteq Live'
    BY <1>2, <1>6 DEF NoLostWakeup, EnsureBlocks, TypeOK
  <2>2. pending'[c] = {r \in Pending(W) : task[r] # "zombie"}
    BY DEF EnsureBlocks, TypeOK
  <2>3. pending'[c] \subseteq Live'
    <3> SUFFICES ASSUME NEW r \in Pending(W), task[r] # "zombie" PROVE r \in Live'
      BY <2>2
    <3>1. r \in Runs /\ task'[r] \in TaskStates /\ task'[r] # "none"
      BY <1>3, <1>4 DEF TypeOK
    <3>2. task'[r] # "zombie"
      BY <1>2, <3>1
    <3> QED
      BY <3>1, <3>2 DEF Live, TaskStates
  <2>4. pc'[c] = "gathering" => pending'[c] # {}
    BY <2>2 DEF EnsureBlocks, TypeOK
  <2>5. \A d \in Callers : d # c => pc'[d] = pc[d] /\ pending'[d] = pending[d]
    BY DEF EnsureBlocks, TypeOK
  <2> QED
    BY <2>1, <2>3, <2>4, <2>5 DEF NoLostWakeup
<1>8. SlotsConserved'
  <2>1. Holders' = Holders /\ {r \in Runs : task'[r] = "queued"} = {r \in Runs : task[r] = "queued"}
    BY <1>1, <1>2 DEF Holders
  <2>2. Awake' = Awake /\ waiters' = waiters
    BY <1>2 DEF Awake
  <2> QED
    BY <2>1, <2>2 DEF SlotsConserved
<1> QED
  BY <1>4, <1>5, <1>7, <1>8

\* The end of a task, however it comes about: its finally, and the gather()s that
\* wait for it.
LEMMA EndOfTask ==
  ASSUME IInv, NEW r \in Runs, task[r] \in {"queued", "active"},
         NEW res \in {"ok", "error", "cancelled"},
         Deregister(r), SettleGatherers(r, res),
         task' \in [Runs -> TaskStates], task'[r] = "none",
         \A s \in Runs : s # r => task'[s] = task[s]
                                  \/ (task[s] = "queued" /\ task'[s] = "active"),
         doomed' = doomed \ {r}
  PROVE  /\ RegistryKept' /\ NoLostWakeup'
         /\ inflight' \in [Blocks -> Runs \cup {{}}]
         /\ pc' \in [Callers -> {"idle", "gathering", "gathered"}]
         /\ want' \in [Callers -> SUBSET Blocks]
         /\ pending' \in [Callers -> SUBSET Runs]
         /\ fetchedFor' \in [Callers -> SUBSET Blocks]
         /\ result' \in [Callers -> Outcomes]
<1> USE DEF IInv
<1>1. /\ inflight' \in [Blocks -> Runs \cup {{}}]
      /\ \A b \in Blocks : inflight'[b] = IF b \in r THEN {} ELSE inflight[b]
  BY DEF Deregister, TypeOK
<1>2. /\ pc' \in [Callers -> {"idle", "gathering", "gathered"}]
      /\ want' \in [Callers -> SUBSET Blocks]
      /\ pending' \in [Callers -> SUBSET Runs]
      /\ fetchedFor' \in [Callers -> SUBSET Blocks]
      /\ result' \in [Callers -> Outcomes]
  BY DEF SettleGatherers, TypeOK, Outcomes
<1>3. RegistryKept'
  <2>1. ASSUME NEW b \in Blocks, inflight'[b] # {}
        PROVE  b \in inflight'[b] /\ inflight'[b] \in Runs /\ task'[inflight'[b]] # "none"
    <3>1. b \notin r /\ inflight'[b] = inflight[b] /\ inflight[b] # {}
      BY <1>1, <2>1
    <3>2. b \in inflight[b] /\ inflight[b] \in Runs /\ task[inflight[b]] # "none"
      BY <3>1 DEF RegistryKept
    <3>3. inflight[b] # r
      BY <3>1, <3>2
    <3> QED
      BY <3>1, <3>2, <3>3
  <2>2. ASSUME NEW s \in Runs, task'[s] # "none", NEW b \in s
        PROVE  inflight'[b] = s
    <3>1. s # r /\ task[s] # "none" /\ b \in Blocks
      BY <2>2 DEF Runs
    <3>2. inflight[b] = s
      BY <3>1 DEF RegistryKept
    <3>3. b \notin r
      BY <3>1, <3>2 DEF RegistryKept
    <3> QED
      BY <1>1, <3>1, <3>2, <3>3
  <2> QED
    BY <2>1, <2>2 DEF RegistryKept
<1>4. Live \ {r} \subseteq Live'
  BY DEF Live
<1>5. NoLostWakeup'
  <2>1. \A c \in Callers : pending'[c] = pending[c] \ {r} /\ pending[c] \subseteq Live
    BY DEF SettleGatherers, NoLostWakeup
  <2>2. doomed \subseteq Live
    BY DEF NoLostWakeup
  <2>3. \A c \in Callers : pc'[c] = "gathering" =>
          pc[c] = "gathering" /\ pending[c] # {} /\ pending[c] # {r}
    BY DEF SettleGatherers, NoLostWakeup
  <2> QED
    BY <1>4, <2>1, <2>2, <2>3 DEF NoLostWakeup
<1> QED
  BY <1>1, <1>2, <1>3, <1>5

\* The task's first step.
LEMMA FetchStartIInv ==
  ASSUME IInv, NEW r \in Runs, FetchStart(r)
  PROVE  IInv'
<1> USE DEF IInv
<1>0. task \in [Runs -> TaskStates] /\ waiters \in Seq(Runs)
  BY DEF TypeOK
<1>1. /\ task[r] = "created" /\ r \notin doomed
      /\ UNCHANGED <<disk, inflight, doomed, callerVars>>
      /\ protected' \in [Runs -> SUBSET Blocks]
  BY DEF FetchStart, Protect, TypeOK, Runs
<1>2. /\ task' \in [Runs -> TaskStates]
      /\ task'[r] \in {"active", "queued"}
      /\ \A s \in Runs : s # r => task'[s] = task[s]
  BY <1>0 DEF FetchStart, TaskStates
<1>3. waiters' \in Seq(Runs)
  BY <1>0, AppendProperties DEF FetchStart
<1>4. TypeOK'
  BY <1>1, <1>2, <1>3 DEF TypeOK, callerVars
<1>5. RegistryKept'
  BY <1>1, <1>2 DEF RegistryKept
<1>6. NoLostWakeup'
  <2>1. Live' = Live
    BY <1>1, <1>2 DEF Live
  <2> QED
    BY <1>1, <2>1 DEF NoLostWakeup, callerVars
<1>7. /\ Cardinality(Holders) \in Nat /\ IsFiniteSet(Holders)
      /\ Cardinality(Holders) <= MaxConcurrency
      /\ Awake # {} => Cardinality(Holders) = MaxConcurrency
      /\ ToSet(waiters) = {s \in Runs : task[s] = "queued"} /\ IsInjective(waiters)
  BY HoldersCount DEF SlotsConserved
<1>8. CASE SlotFree
  <2>1. task' = [task EXCEPT ![r] = "active"] /\ waiters' = waiters
    BY <1>8 DEF FetchStart
  <2>2. Holders' = Holders \cup {r} /\ r \notin Holders
    BY <1>0, <1>1, <2>1 DEF Holders
  <2>3. Cardinality(Holders \cup {r}) = Cardinality(Holders) + 1
    BY <1>7, <2>2, FS_AddElement
  <2>4. Cardinality(Holders') <= MaxConcurrency
    BY <1>7, <1>8, <2>2, <2>3, CacheAssumption DEF SlotFree
  <2>5. Awake' = {}
    BY <1>1, <1>8, <2>1 DEF SlotFree, Awake
  <2>6. {s \in Runs : task'[s] = "queued"} = {s \in Runs : task[s] = "queued"}
    BY <1>0, <1>1, <2>1
  <2>7. SlotsConserved'
    BY <1>7, <2>1, <2>4, <2>5, <2>6 DEF SlotsConserved
  <2> QED
    BY <1>4, <1>5, <1>6, <2>7
<1>9. CASE ~SlotFree
  <2>1. task' = [task EXCEPT ![r] = "queued"] /\ waiters' = Append(waiters, r)
    BY <1>9 DEF FetchStart
  <2>2. Holders' = Holders
    BY <1>0, <1>1, <2>1 DEF Holders
  <2>3. Cardinality(Holders) = MaxConcurrency
    BY <1>7, <1>9, CacheAssumption DEF SlotFree
  <2>4. ToSet(waiters') = ToSet(waiters) \cup {r} /\ IsInjective(waiters')
    BY <1>0, <1>1, <1>7, <2>1, AppendFacts
  <2>5. {s \in Runs : task'[s] = "queued"} = {s \in Runs : task[s] = "queued"} \cup {r}
    BY <1>0, <2>1
  <2>6. SlotsConserved'
    BY <1>7, <2>2, <2>3, <2>4, <2>5 DEF SlotsConserved
  <2> QED
    BY <1>4, <1>5, <1>6, <2>6
<1> QED
  BY <1>8, <1>9

\* A task that wrote nothing, some or all of its blocks leaves with its slot.
LEMMA HolderEnds ==
  ASSUME IInv, NEW r \in Runs, task[r] = "active",
         NEW res \in {"ok", "error", "cancelled"},
         ReleaseSlot(r), Deregister(r), SettleGatherers(r, res),
         disk' \in SUBSET Blocks,
         protected' = [protected EXCEPT ![r] = {}],
         doomed' = doomed \ {r}
  PROVE  IInv'
<1> USE DEF IInv
<1>1. /\ task' \in [Runs -> TaskStates] /\ waiters' \in Seq(Runs)
      /\ task'[r] = "none"
      /\ \A s \in Runs : s # r =>
           task'[s] = task[s] \/ (task[s] = "queued" /\ task'[s] = "active")
      /\ SlotsConserved'
  BY ReleaseSlotFacts
<1>2. /\ RegistryKept' /\ NoLostWakeup'
      /\ inflight' \in [Blocks -> Runs \cup {{}}]
      /\ pc' \in [Callers -> {"idle", "gathering", "gathered"}]
      /\ want' \in [Callers -> SUBSET Blocks]
      /\ pending' \in [Callers -> SUBSET Runs]
      /\ fetchedFor' \in [Callers -> SUBSET Blocks]
      /\ result' \in [Callers -> Outcomes]
  BY <1>1, EndOfTask
<1>3. protected' \in [Runs -> SUBSET Blocks] /\ doomed' \in SUBSET Runs
  BY DEF TypeOK
<1> QED
  BY <1>1, <1>2, <1>3 DEF TypeOK

LEMMA FetchEndsIInv ==
  ASSUME IInv, NEW r \in Runs, FetchCompletes(r) \/ FetchFails(r)
  PROVE  IInv'
<1>1. disk' \in SUBSET Blocks
  <2>1. disk \subseteq Blocks /\ r \subseteq Blocks
    BY DEF IInv, TypeOK, Runs
  <2>2. PICK w \in SUBSET r : Persist(r, w)
    BY DEF FetchCompletes, FetchFails
  <2> QED
    BY <2>1, <2>2 DEF Persist
<1>2. doomed' = doomed \ {r}
  BY DEF FetchCompletes, FetchFails
<1> QED
  BY <1>1, <1>2, HolderEnds DEF FetchCompletes, FetchFails

LEMMA TaskCancelledIInv ==
  ASSUME IInv, NEW r \in Runs, TaskCancelled(r)
  PROVE  IInv'
<1> USE DEF IInv
<1>1. /\ r \in doomed /\ doomed' = doomed \ {r} /\ UNCHANGED disk
      /\ SettleGatherers(r, "cancelled")
      /\ protected' = [protected EXCEPT ![r] = {}]
      /\ disk' \in SUBSET Blocks
  BY DEF TaskCancelled, TypeOK
<1>2. protected' \in [Runs -> SUBSET Blocks] /\ doomed' \in SUBSET Runs
  BY <1>1 DEF TypeOK
<1>3. CASE CancelledUnstarted(r)
  <2>1. /\ task[r] = "created" /\ task' = [task EXCEPT ![r] = "zombie"]
        /\ UNCHANGED <<inflight, waiters>>
        /\ task \in [Runs -> TaskStates]
    BY <1>3 DEF CancelledUnstarted, TypeOK
  <2>2. \A s \in Runs : task'[s] = IF s = r THEN "zombie" ELSE task[s]
    BY <2>1
  <2>3. TypeOK'
    <3>1. /\ pc' \in [Callers -> {"idle", "gathering", "gathered"}]
          /\ want' \in [Callers -> SUBSET Blocks]
          /\ pending' \in [Callers -> SUBSET Runs]
          /\ fetchedFor' \in [Callers -> SUBSET Blocks]
          /\ result' \in [Callers -> Outcomes]
      BY <1>1 DEF SettleGatherers, TypeOK, Outcomes
    <3>2. task' \in [Runs -> TaskStates]
      BY <2>1 DEF TaskStates
    <3> QED
      BY <1>1, <1>2, <2>1, <3>1, <3>2 DEF TypeOK
  <2>4. RegistryKept'
    BY <2>1, <2>2 DEF RegistryKept
  <2>5. Live \ {r} \subseteq Live'
    BY <2>2 DEF Live
  <2>6. NoLostWakeup'
    <3>1. \A c \in Callers : pending'[c] = pending[c] \ {r} /\ pending[c] \subseteq Live
      BY <1>1 DEF SettleGatherers, NoLostWakeup
    <3>2. \A c \in Callers : pc'[c] = "gathering" =>
            pc[c] = "gathering" /\ pending[c] # {} /\ pending[c] # {r}
      BY <1>1 DEF SettleGatherers, NoLostWakeup
    <3> QED
      BY <1>1, <2>5, <3>1, <3>2 DEF NoLostWakeup
  <2>7. SlotsConserved'
    <3>1. Holders' = Holders /\ {s \in Runs : task'[s] = "queued"} = {s \in Runs : task[s] = "queued"}
      BY <2>1, <2>2 DEF Holders
    <3>2. \A i \in DOMAIN waiters : waiters[i] # r
      BY <2>1, QueueFacts
    <3>3. Awake' = Awake
      BY <1>1, <2>1, <3>2 DEF Awake
    <3> QED
      BY <2>1, <3>1, <3>3 DEF SlotsConserved
  <2> QED
    BY <2>3, <2>4, <2>6, <2>7
<1>4. CASE CancelledQueued(r)
  <2>1. /\ task[r] = "queued" /\ task' = [task EXCEPT ![r] = "none"]
        /\ task \in [Runs -> TaskStates] /\ Deregister(r)
    BY <1>4 DEF CancelledQueued, TypeOK
  <2>2. task' \in [Runs -> TaskStates] /\ \A s \in Runs : task'[s] = IF s = r THEN "none" ELSE task[s]
    BY <2>1 DEF TaskStates
  <2>3. /\ RegistryKept' /\ NoLostWakeup'
        /\ inflight' \in [Blocks -> Runs \cup {{}}]
        /\ pc' \in [Callers -> {"idle", "gathering", "gathered"}]
        /\ want' \in [Callers -> SUBSET Blocks]
        /\ pending' \in [Callers -> SUBSET Runs]
        /\ fetchedFor' \in [Callers -> SUBSET Blocks]
        /\ result' \in [Callers -> Outcomes]
    BY <1>1, <2>1, <2>2, EndOfTask
  <2>4. PICK i \in DOMAIN waiters : waiters[i] = r /\ waiters' = RemoveAt(waiters, i)
    BY <1>4 DEF CancelledQueued
  <2>5. /\ waiters' \in Seq(Runs) /\ IsInjective(waiters')
        /\ ToSet(waiters') = {s \in Runs : task[s] = "queued"} \ {r}
    BY <2>4, DequeueFacts
  <2>6. SlotsConserved'
    <3>1. Holders' = Holders /\ {s \in Runs : task'[s] = "queued"} = {s \in Runs : task[s] = "queued"} \ {r}
      BY <2>1, <2>2 DEF Holders
    <3>2. Awake' # {} => Awake # {}
      <4> SUFFICES ASSUME NEW j \in DOMAIN waiters', waiters'[j] \notin doomed'
                   PROVE  Awake # {}
        BY DEF Awake
      <4>1. waiters'[j] # r /\ waiters'[j] \in ToSet(waiters)
        <5>1. waiters'[j] \in ToSet(waiters')
          BY DEF ToSet
        <5> QED
          BY <2>5, <5>1 DEF SlotsConserved
      <4>2. \E k \in DOMAIN waiters : waiters[k] = waiters'[j]
        BY <4>1 DEF ToSet
      <4> QED
        BY <1>1, <4>1, <4>2 DEF Awake
    <3> QED
      BY <2>5, <3>1, <3>2 DEF SlotsConserved
  <2> QED
    BY <1>1, <1>2, <2>2, <2>3, <2>5, <2>6 DEF TypeOK
<1>5. CASE CancelledActive(r)
  BY <1>1, <1>5, HolderEnds DEF CancelledActive
<1> QED
  BY <1>3, <1>4, <1>5 DEF TaskCancelled

\* The callers again, and the other caches.
LEMMA CancelCallerIInv ==
  ASSUME IInv, NEW c \in Callers, CancelCaller(c)
  PROVE  IInv'
<1> USE DEF IInv
<1>1. /\ UNCHANGED <<disk, inflight, task, protected, waiters, pc, want, pending, fetchedFor>>
      /\ doomed' = doomed \/ doomed' = doomed \cup pending[c]
      /\ result' \in [Callers -> Outcomes]
  BY DEF CancelCaller, TypeOK, Outcomes
<1>2. TypeOK'
  BY <1>1 DEF TypeOK
<1>3. RegistryKept'
  BY <1>1 DEF RegistryKept
<1>4. NoLostWakeup'
  BY <1>1 DEF NoLostWakeup, Live
<1>5. SlotsConserved'
  <2>1. Holders' = Holders /\ Awake' \subseteq Awake
    BY <1>1 DEF Holders, Awake
  <2> QED
    BY <1>1, <2>1 DEF SlotsConserved
<1> QED
  BY <1>2, <1>3, <1>4, <1>5

LEMMA ResumeIInv ==
  ASSUME IInv, NEW c \in Callers, Resume(c)
  PROVE  IInv'
<1> USE DEF IInv
<1>1. /\ UNCHANGED <<disk, inflight, task, protected, doomed, waiters>>
      /\ pc' = [pc EXCEPT ![c] = "idle"] /\ pending' = [pending EXCEPT ![c] = {}]
  BY DEF Resume
<1>2. TypeOK'
  <2>1. result' \in [Callers -> Outcomes]
    BY DEF Resume, TypeOK, Outcomes
  <2>2. want' \in [Callers -> SUBSET Blocks] /\ fetchedFor' \in [Callers -> SUBSET Blocks]
    BY DEF Resume, TypeOK
  <2> QED
    BY <1>1, <2>1, <2>2 DEF TypeOK
<1>3. RegistryKept'
  BY <1>1 DEF RegistryKept
<1>4. NoLostWakeup'
  BY <1>1 DEF NoLostWakeup, Live, TypeOK
<1>5. SlotsConserved'
  BY <1>1 DEF SlotsConserved, Holders, Awake
<1> QED
  BY <1>2, <1>3, <1>4, <1>5

LEMMA PeerStepIInv ==
  ASSUME IInv, NEW b \in Blocks, PeerStep(b)
  PROVE  IInv'
<1>1. /\ UNCHANGED <<inflight, task, protected, doomed, waiters, callerVars>>
      /\ disk' \in SUBSET Blocks
  BY DEF PeerStep, PeerEvicts, PeerWrites, IInv, TypeOK
<1> QED
  BY <1>1 DEF IInv, TypeOK, RegistryKept, NoLostWakeup, SlotsConserved,
              Live, Holders, Awake, callerVars

LEMMA NextIInv == IInv /\ [Next]_vars => IInv'
<1> SUFFICES ASSUME IInv, [Next]_vars PROVE IInv'
  OBVIOUS
<1>1. ASSUME NEW c \in Callers, Read(c) \/ Prefetch(c)
      PROVE  IInv'
  <2>1. PICK W \in SUBSET Blocks, reads \in SUBSET Blocks : EnsureBlocks(c, W, reads)
    <3>1. \A first, last \in Blocks : first .. last \in SUBSET Blocks
      BY CacheAssumption DEF Blocks
    <3> QED
      BY <1>1, <3>1 DEF Read, Prefetch
  <2> QED
    BY <2>1, EnsureBlocksIInv
<1>2. ASSUME NEW c \in Callers, CancelCaller(c) PROVE IInv'
  BY <1>2, CancelCallerIInv
<1>3. ASSUME NEW c \in Callers, Resume(c) PROVE IInv'
  BY <1>3, ResumeIInv
<1>4. ASSUME NEW r \in Runs, FetchStart(r) PROVE IInv'
  BY <1>4, FetchStartIInv
<1>5. ASSUME NEW r \in Runs, FetchCompletes(r) \/ FetchFails(r) PROVE IInv'
  BY <1>5, FetchEndsIInv
<1>6. ASSUME NEW r \in Runs, TaskCancelled(r) PROVE IInv'
  BY <1>6, TaskCancelledIInv
<1>7. ASSUME NEW b \in Blocks, PeerStep(b) PROVE IInv'
  BY <1>7, PeerStepIInv
<1>8. CASE UNCHANGED vars
  BY <1>8 DEF vars, callerVars, IInv, TypeOK, RegistryKept, NoLostWakeup,
              SlotsConserved, Live, Holders, Awake
<1> QED
  BY <1>1, <1>2, <1>3, <1>4, <1>5, <1>6, <1>7, <1>8 DEF Next, CallerStep, TaskStep

\* Whatever the callers, cancellations, failures and other caches do, the
\* registry, the gather()s and the semaphore stay consistent.
THEOREM Invariance == Spec => []IInv
<1>1. Init => IInv
  BY InitIInv
<1>2. IInv /\ [Next]_vars => IInv'
  BY NextIInv
<1> QED
  BY <1>1, <1>2, PTL DEF Spec

\* Every variable keeps its type.
THEOREM TypeCorrect == Spec => []TypeOK
<1>1. IInv => TypeOK
  BY DEF IInv
<1> QED
  BY <1>1, Invariance, PTL

\* _inflight names the unfinished tasks, each under its own blocks, and of the
\* finished ones only those cancelled before their first step.
THEOREM RegistryCorrect == Spec => []RegistryMatchesTasks
<1>1. IInv => RegistryMatchesTasks
  <2> SUFFICES ASSUME IInv PROVE RegistryMatchesTasks
    OBVIOUS
  <2>1. \A r \in Runs : task[r] # "none" <=> r \in Live \cup NeverBegun
    BY DEF IInv, TypeOK, TaskStates, Live, NeverBegun
  <2>2. Live \cup NeverBegun \subseteq Runs
    BY DEF Live, NeverBegun
  <2> QED
    BY <2>1, <2>2 DEF IInv, RegistryKept, RegistryMatchesTasks
<1> QED
  BY <1>1, Invariance, PTL

\* Where no caller is cancelled there is no exception: whatever _inflight holds is a
\* fetch that runs or will, as _ensure_blocks promises those who await it.
THEOREM UncancelledFetchesRun ==
  ASSUME ~MayCancel
  PROVE  Spec => []RegisteredFetchesRun
<1> DEFINE Undoomed == doomed = {} /\ NeverBegun = {}
<1>1. Init => Undoomed
  BY DEF Init, NeverBegun
<1>2. ASSUME IInv, Undoomed, [Next]_vars
      PROVE  Undoomed'
  <2>1. ASSUME NEW c \in Callers, Read(c) \/ Prefetch(c)
        PROVE  Undoomed'
    BY <1>2, <2>1 DEF Read, Prefetch, EnsureBlocks, NeverBegun, IInv, TypeOK
  <2>2. ASSUME NEW c \in Callers, Resume(c)
        PROVE  Undoomed'
    BY <1>2, <2>2 DEF Resume, NeverBegun
  <2>3. ASSUME NEW r \in Runs, FetchStart(r)
        PROVE  Undoomed'
    BY <1>2, <2>3 DEF FetchStart, NeverBegun, IInv, TypeOK
  <2>4. ASSUME NEW r \in Runs, FetchCompletes(r) \/ FetchFails(r)
        PROVE  Undoomed'
    <3>1. \A s \in Runs : task'[s] = "zombie" => task[s] = "zombie"
      BY <1>2, <2>4, ReleaseSlotFacts DEF FetchCompletes, FetchFails, IInv
    <3> QED
      BY <1>2, <2>4, <3>1 DEF FetchCompletes, FetchFails, NeverBegun
  <2>5. ASSUME NEW b \in Blocks, PeerStep(b)
        PROVE  Undoomed'
    BY <1>2, <2>5 DEF PeerStep, PeerEvicts, PeerWrites, NeverBegun
  <2>6. CASE UNCHANGED vars
    BY <1>2, <2>6 DEF vars, NeverBegun
  <2> QED
    BY <1>2, <2>1, <2>2, <2>3, <2>4, <2>5, <2>6
       DEF Next, CallerStep, TaskStep, CancelCaller, TaskCancelled
<1>3. IInv /\ Undoomed => RegisteredFetchesRun
  BY DEF IInv, TypeOK, TaskStates, RegistryKept, RegisteredFetchesRun, NeverBegun
<1> HIDE DEF Undoomed
<1> QED
  BY <1>1, <1>2, <1>3, Invariance, PTL DEF Spec

\* No block is fetched by two tasks of a cache at the same time.
THEOREM NoDuplicateDownload == Spec => []SingleFlight
<1>1. IInv => SingleFlight
  <2> SUFFICES ASSUME IInv, NEW r \in Live, NEW s \in Live, NEW b \in r \cap s
               PROVE  r = s
    BY DEF SingleFlight
  <2>1. r \in Runs /\ s \in Runs /\ task[r] # "none" /\ task[s] # "none"
    BY DEF Live
  <2>2. inflight[b] = r /\ inflight[b] = s
    BY <2>1 DEF IInv, RegistryKept
  <2> QED
    BY <2>2
<1> QED
  BY <1>1, Invariance, PTL

\* A waiting call always waits for a task that can still end.
THEOREM WakeupsNotLost == Spec => []NoLostWakeup
<1>1. IInv => NoLostWakeup
  BY DEF IInv
<1> QED
  BY <1>1, Invariance, PTL

\* At most max_concurrency requests, and no free slot while a task waits for one.
THEOREM SemaphoreConserved == Spec => []SlotsConserved
<1>1. IInv => SlotsConserved
  BY DEF IInv
<1> QED
  BY <1>1, Invariance, PTL

-----------------------------------------------------------------------------
(* What is written, and what is evicted for it, in a directory of its own. *)

\* Only the end of a task changes what is on disk, and it writes blocks of its own.
LEMMA WritersAreTasks ==
  ASSUME ~SharedDir, [Next]_vars, disk' # disk
  PROVE  \E r \in Runs : /\ FetchCompletes(r) \/ FetchFails(r)
                         /\ \E written \in SUBSET r : Persist(r, written)
<1>1. \E r \in Runs : FetchCompletes(r) \/ FetchFails(r)
  BY DEF Next, CallerStep, TaskStep, PeerStep, Read, Prefetch, EnsureBlocks, CancelCaller, Resume,
         FetchStart, TaskCancelled, PeerEvicts, PeerWrites, vars
<1> QED
  BY <1>1 DEF FetchCompletes, FetchFails

\* _fetch_run writes its blocks and deregisters them before anybody else can look.
THEOREM PublishedAtomically == Spec => PublishAtomically
<1>1. ASSUME IInv, [Next]_vars, ~SharedDir, NEW b \in disk' \ disk
      PROVE  inflight[b] # {} /\ inflight'[b] = {}
  <2>1. PICK r \in Runs : /\ FetchCompletes(r) \/ FetchFails(r)
                         /\ \E written \in SUBSET r : Persist(r, written)
    BY <1>1, WritersAreTasks
  <2>2. b \in r
    BY <2>1 DEF Persist
  <2>3. task[r] = "active" /\ Deregister(r)
    BY <2>1 DEF FetchCompletes, FetchFails
  <2>4. inflight[b] = r /\ b \in Blocks
    BY <1>1, <2>2, <2>3 DEF IInv, RegistryKept, Runs
  <2>5. inflight'[b] = {}
    BY <2>2, <2>3, <2>4 DEF Deregister
  <2> QED
    BY <2>2, <2>4, <2>5
<1>2. IInv /\ [Next]_vars =>
        [~SharedDir => \A b \in disk' \ disk : inflight[b] # {} /\ inflight'[b] = {}]_vars
  BY <1>1
<1> QED
  BY <1>2, Invariance, PTL DEF Spec, PublishAtomically

\* A task that waits or fetches, and may have to evict, has noted its own blocks.
OwnBlocksProtected ==
  MaxBlocks < NumBlocks =>
    \A r \in Runs : task[r] \in {"queued", "active"} => r \subseteq protected[r]

LEMMA NextProtected == IInv /\ OwnBlocksProtected /\ [Next]_vars => OwnBlocksProtected'
<1> SUFFICES ASSUME IInv, OwnBlocksProtected, [Next]_vars, MaxBlocks < NumBlocks,
                    NEW r \in Runs, task'[r] \in {"queued", "active"}
             PROVE  r \subseteq protected'[r]
  BY DEF OwnBlocksProtected
<1>1. task \in [Runs -> TaskStates] /\ protected \in [Runs -> SUBSET Blocks]
  BY DEF IInv, TypeOK
<1>2. task[r] \in {"queued", "active"} => r \subseteq protected[r]
  BY DEF OwnBlocksProtected
<1>3. ASSUME NEW s \in Runs, FetchStart(s)
      PROVE  r \subseteq protected'[r]
  <2>1. protected'[s] = Protect(s) /\ \A q \in Runs : q # s => protected'[q] = protected[q] /\ task'[q] = task[q]
    BY <1>1, <1>3 DEF FetchStart
  <2>2. s \subseteq Protect(s)
    BY DEF Protect
  <2> QED
    BY <1>2, <2>1, <2>2
<1>4. ASSUME NEW s \in Runs, FetchCompletes(s) \/ FetchFails(s)
      PROVE  r \subseteq protected'[r]
  <2>1. /\ task'[s] = "none"
        /\ \A q \in Runs : q # s => task'[q] = task[q] \/ (task[q] = "queued" /\ task'[q] = "active")
    BY <1>4, ReleaseSlotFacts DEF FetchCompletes, FetchFails, IInv
  <2>2. \A q \in Runs : q # s => protected'[q] = protected[q]
    BY <1>1, <1>4 DEF FetchCompletes, FetchFails
  <2> QED
    BY <1>2, <2>1, <2>2
<1>5. ASSUME NEW s \in Runs, TaskCancelled(s)
      PROVE  r \subseteq protected'[r]
  <2>1. CASE CancelledActive(s)
    <3>1. /\ task'[s] = "none"
          /\ \A q \in Runs : q # s => task'[q] = task[q] \/ (task[q] = "queued" /\ task'[q] = "active")
      BY <1>5, <2>1, ReleaseSlotFacts DEF CancelledActive, TaskCancelled, IInv
    <3>2. \A q \in Runs : q # s => protected'[q] = protected[q]
      BY <1>1, <1>5 DEF TaskCancelled
    <3> QED
      BY <1>2, <3>1, <3>2
  <2>2. CASE CancelledQueued(s) \/ CancelledUnstarted(s)
    BY <1>1, <1>2, <1>5, <2>2 DEF CancelledQueued, CancelledUnstarted, TaskCancelled
  <2> QED
    BY <1>5, <2>1, <2>2 DEF TaskCancelled
<1>6. ASSUME UNCHANGED protected,
             task[r] = task'[r] \/ task'[r] = "created"
      PROVE  r \subseteq protected'[r]
  BY <1>2, <1>6
<1>7. ASSUME NEW c \in Callers, CallerStep(c)
      PROVE  r \subseteq protected'[r]
  BY <1>6, <1>7 DEF CallerStep, Read, Prefetch, EnsureBlocks, CancelCaller, Resume
<1>8. CASE (\E b \in Blocks : PeerStep(b)) \/ UNCHANGED vars
  BY <1>6, <1>8 DEF PeerStep, PeerEvicts, PeerWrites, vars
<1> QED
  BY <1>3, <1>4, <1>5, <1>7, <1>8 DEF Next, TaskStep

\* _evict takes as many blocks as are over the cap, or all but those it must spare.
LEMMA EvictedToCap ==
  ASSUME TypeOK, MaxBlocks < NumBlocks,
         NEW r \in Runs, r \subseteq protected[r],
         NEW written \in SUBSET r, Persist(r, written), ~(disk' \subseteq disk)
  PROVE  Cardinality(disk') <= MaxBlocks \/ disk' \subseteq protected[r]
<1> DEFINE spare  == disk \ protected[r]
           excess == Larger(0, Cardinality(disk \cup written) - MaxBlocks)
<1>1. PICK v \in Victims(r, written) : disk' = (disk \cup written) \ v
  BY DEF Persist
<1>2. written # {}
  BY <1>1 DEF Victims
<1>3. v \in SUBSET spare /\ Cardinality(v) = Smaller(excess, Cardinality(spare))
  BY <1>1, <1>2 DEF Victims
<1>4. IsFiniteSet(Blocks) /\ disk \cup written \in SUBSET Blocks
  <2>1. IsFiniteSet(Blocks)
    BY CacheAssumption, FS_Interval DEF Blocks
  <2>2. disk \subseteq Blocks /\ written \subseteq Blocks
    BY DEF TypeOK, Runs
  <2> QED
    BY <2>1, <2>2
<1>5. /\ IsFiniteSet(disk \cup written) /\ Cardinality(disk \cup written) \in Nat
      /\ IsFiniteSet(spare) /\ Cardinality(spare) \in Nat
      /\ IsFiniteSet(v) /\ Cardinality(v) \in Nat
  <2>1. spare \subseteq Blocks /\ v \subseteq Blocks
    BY <1>3, <1>4
  <2> QED
    BY <1>4, <2>1, FS_Subset, FS_CardinalityType
<1>6. Cardinality(disk') = Cardinality(disk \cup written) - Cardinality(v)
  <2>1. (disk \cup written) \cap v = v
    BY <1>3
  <2> QED
    BY <1>1, <1>5, <2>1, FS_Difference
<1>7. CASE Cardinality(v) = excess
  <2> HIDE DEF spare
  <2> QED
    BY <1>5, <1>6, <1>7, CacheAssumption DEF Larger
<1>8. CASE Cardinality(v) = Cardinality(spare)
  <2>1. v = spare
    BY <1>3, <1>5, <1>8, FS_Subset
  <2> QED
    BY <1>1, <2>1
<1> QED
  BY <1>3, <1>7, <1>8 DEF Smaller

\* max_bytes is kept, or what is kept beyond it is what was in flight when the task
\* that writes began to fetch: the `protected` that _fetch_run hands to _evict.
THEOREM CapHolds == Spec => CapHoldsUpToInFlight
<1>1. Init => OwnBlocksProtected
  BY DEF Init, OwnBlocksProtected
<1>2. ASSUME IInv, OwnBlocksProtected, [Next]_vars, ~SharedDir, ~(disk' \subseteq disk)
      PROVE  \/ Cardinality(disk') <= MaxBlocks
             \/ \E r \in Holders \ Holders' : disk' \subseteq protected[r]
  <2>1. PICK r \in Runs : /\ FetchCompletes(r) \/ FetchFails(r)
                         /\ \E written \in SUBSET r : Persist(r, written)
    BY <1>2, WritersAreTasks
  <2>2. task[r] = "active" /\ task'[r] = "none"
    BY <1>2, <2>1, ReleaseSlotFacts DEF FetchCompletes, FetchFails, IInv
  <2>3. r \in Holders \ Holders'
    BY <2>2 DEF Holders
  <2>4. CASE MaxBlocks < NumBlocks
    BY <1>2, <2>1, <2>2, <2>3, <2>4, EvictedToCap DEF OwnBlocksProtected, IInv
  <2>5. CASE ~(MaxBlocks < NumBlocks)
    <3>1. disk' \subseteq Blocks
      BY <1>2, <2>1 DEF IInv, TypeOK, Runs, Persist
    <3>2. Cardinality(disk') <= NumBlocks /\ Cardinality(disk') \in Nat
      <4>1. IsFiniteSet(Blocks) /\ Cardinality(Blocks) = NumBlocks
        BY CacheAssumption, FS_Interval DEF Blocks
      <4> QED
        BY <3>1, <4>1, FS_Subset, FS_CardinalityType
    <3> QED
      BY <2>5, <3>2, CacheAssumption
  <2> QED
    BY <2>4, <2>5
<1>3. IInv /\ OwnBlocksProtected /\ [Next]_vars =>
        [~SharedDir /\ ~(disk' \subseteq disk) =>
           \/ Cardinality(disk') <= MaxBlocks
           \/ \E r \in Holders \ Holders' : disk' \subseteq protected[r]]_vars
  BY <1>2
<1> QED
  BY <1>1, <1>3, NextProtected, Invariance, PTL DEF Spec, CapHoldsUpToInFlight

-----------------------------------------------------------------------------
(* A private cache with room for its whole file.                           *)

Private == ~SharedDir /\ NumBlocks <= MaxBlocks

\* What a call in progress can count on.  The blocks of a read() are on disk or
\* in the tasks it waits for, and a registered block is not on disk yet, so the
\* end of the last task leaves none out.
Coverage ==
  /\ \A b \in Blocks : inflight[b] # {} => b \notin disk
  /\ \A c \in Callers :
       /\ pc[c] = "idle" => want[c] = {}
       /\ pc[c] = "gathering" => want[c] \subseteq disk \cup UNION pending[c]
       /\ pc[c] = "gathered" => result[c] \in {"ok", "error", "cancelled"}
       /\ pc[c] = "gathered" /\ result[c] = "ok" => want[c] \subseteq disk

\* Within the cap, _evict deletes nothing.
LEMMA NothingEvicted ==
  ASSUME Private, TypeOK, NEW r \in Runs, NEW w \in SUBSET Blocks, Persist(r, w)
  PROVE  disk' = disk \cup w
<1>1. PICK v \in Victims(r, w) : disk' = (disk \cup w) \ v
  BY DEF Persist
<1>2. SUFFICES v = {}
  BY <1>1
<1>3. CASE w = {}
  BY <1>1, <1>3 DEF Victims
<1>4. CASE w # {}
  <2> DEFINE spare == disk \ protected[r]
  <2>1. IsFiniteSet(Blocks) /\ Cardinality(Blocks) = NumBlocks
    BY CacheAssumption, FS_Interval DEF Blocks
  <2>2. disk \cup w \in SUBSET Blocks /\ spare \in SUBSET Blocks
    BY DEF TypeOK
  <2>3. /\ Cardinality(disk \cup w) \in Nat
        /\ Cardinality(disk \cup w) <= NumBlocks
        /\ IsFiniteSet(spare) /\ Cardinality(spare) \in Nat
    BY <2>1, <2>2, FS_Subset, FS_CardinalityType
  <2>4. Larger(0, Cardinality(disk \cup w) - MaxBlocks) = 0
    BY <2>3, CacheAssumption DEF Private, Larger
  <2>5. Smaller(0, Cardinality(spare)) = 0
    BY <2>3 DEF Smaller
  <2>6. v \in SUBSET spare /\ Cardinality(v) = 0
    BY <1>1, <1>4, <2>4, <2>5 DEF Victims
  <2> QED
    BY <2>3, <2>6, FS_Subset, FS_EmptySet
<1> QED
  BY <1>3, <1>4

\* What a call of read() or prefetch() does, seen from outside.
LEMMA EnsureBlocksPrivate ==
  ASSUME Private, IInv, Coverage,
         NEW c \in Callers, NEW W \in SUBSET Blocks, NEW reads \in {W, {}},
         EnsureBlocks(c, W, reads)
  PROVE  /\ Coverage'
         /\ ReadThrough!Hit(c) \/ ReadThrough!Call(c, W)
<1> USE DEF IInv
<1>1. /\ \A r \in Coalesce(Needed(W)) : r \cap disk = {} /\ r \subseteq W
      /\ \A b \in Blocks : Registered(W)[b] # {} =>
           \/ Registered(W)[b] \in Coalesce(Needed(W)) /\ b \in Registered(W)[b]
           \/ inflight[b] # {} /\ Registered(W)[b] = inflight[b]
      /\ \A b \in Blocks : inflight[b] # {} => Registered(W)[b] = inflight[b]
      /\ \A b \in W : b \in disk \/ Registered(W)[b] # {}
      /\ Registered(W) \in [Blocks -> Runs \cup {{}}]
  BY RegisteredFacts
<1>2. /\ pc[c] = "idle" /\ want[c] = {}
      /\ inflight' = Registered(W)
      /\ UNCHANGED disk
      /\ \A d \in Callers : d # c => /\ pc'[d] = pc[d] /\ want'[d] = want[d]
                                     /\ pending'[d] = pending[d] /\ result'[d] = result[d]
  BY DEF EnsureBlocks, TypeOK, Coverage
<1>3. \A b \in Blocks : Registered(W)[b] # {} =>
        b \in Registered(W)[b] /\ b \notin disk
  BY <1>1 DEF RegistryKept, Coverage
<1>4. \A b \in Blocks : Registered(W)[b] # {} <=> inflight[b] # {} \/ b \in W \ disk
  BY <1>1, <1>3
<1>5. {b \in Blocks : inflight'[b] # {}} = {b \in Blocks : inflight[b] # {}} \cup (W \ disk)
  BY <1>2, <1>4
<1>6. W \subseteq disk \cup UNION Pending(W)
  <2> SUFFICES ASSUME NEW b \in W, b \notin disk
               PROVE  Registered(W)[b] \in Pending(W) /\ b \in Registered(W)[b]
    OBVIOUS
  <2> QED
    BY <1>1, <1>3 DEF Pending
<1>7. Pending(W) = {} <=> W \subseteq disk
  BY <1>3, <1>6 DEF Pending
<1>8. CASE Pending(W) = {}
  <2>1. pc' = pc /\ want' = want /\ result' = [result EXCEPT ![c] = "ok"]
    BY <1>2, <1>8 DEF EnsureBlocks, TypeOK
  <2>2. pending'[c] = {}
    BY <1>8 DEF EnsureBlocks, TypeOK
  <2>3. Coverage'
    BY <1>2, <1>3, <2>1, <2>2 DEF Coverage
  <2>4. ReadThrough!Hit(c)
    <3>1. {b \in Blocks : inflight'[b] # {}} = {b \in Blocks : inflight[b] # {}}
      BY <1>5, <1>7, <1>8
    <3>2. {d \in Callers : pc'[d] # "idle"} = {d \in Callers : pc[d] # "idle"}
      BY <2>1
    <3>3. [d \in Callers |-> IF pc'[d] = "idle" THEN result'[d] ELSE "none"]
            = [[d \in Callers |-> IF pc[d] = "idle" THEN result[d] ELSE "none"]
                 EXCEPT ![c] = "ok"]
      BY <1>2, <2>1 DEF TypeOK
    <3> QED
      BY <1>2, <2>1, <3>1, <3>2, <3>3 DEF ReadThrough!Hit
  <2> QED
    BY <2>3, <2>4
<1>9. CASE Pending(W) # {}
  <2>1. /\ pc'[c] \in {"gathering", "gathered"}
        /\ want' = [want EXCEPT ![c] = reads]
        /\ pc'[c] = "gathered" => result'[c] = "cancelled"
        /\ pc'[c] = "gathering" => pending'[c] = Pending(W)
    BY <1>9 DEF EnsureBlocks, TypeOK
  <2>2. want'[c] = reads /\ reads \subseteq W
    BY <2>1 DEF TypeOK
  <2>3. Coverage'
    BY <1>2, <1>3, <1>6, <2>1, <2>2 DEF Coverage
  <2>4. ReadThrough!Call(c, W)
    <3>1. {d \in Callers : pc'[d] # "idle"} = {d \in Callers : pc[d] # "idle"} \cup {c}
      BY <1>2, <2>1
    <3>2. [d \in Callers |-> IF pc'[d] = "idle" THEN result'[d] ELSE "none"]
            = [[d \in Callers |-> IF pc[d] = "idle" THEN result[d] ELSE "none"]
                 EXCEPT ![c] = "none"]
      BY <1>2, <2>1
    <3>3. want' = [want EXCEPT ![c] = W] \/ want' = want
      BY <1>2, <2>1 DEF TypeOK
    <3> QED
      BY <1>2, <1>5, <1>7, <1>9, <3>1, <3>2, <3>3 DEF ReadThrough!Call
  <2> QED
    BY <2>3, <2>4
<1> QED
  BY <1>8, <1>9

\* A task ends, having written the blocks w; a successful one all of its own.
LEMMA TaskEndsPrivate ==
  ASSUME IInv, Coverage,
         NEW r \in Runs, task[r] # "none", NEW w \in SUBSET r, NEW res \in {"ok", "error", "cancelled"},
         disk' = disk \cup w, res = "ok" => w = r,
         Deregister(r) \/ (w = {} /\ UNCHANGED inflight),
         SettleGatherers(r, res)
  PROVE  /\ Coverage'
         /\ \E F \in SUBSET {b \in Blocks : inflight[b] # {}} : ReadThrough!Answer(F, w) /\ w \subseteq F
<1> USE DEF IInv
<1>1. \A b \in Blocks : b \in r <=> inflight[b] = r
  BY DEF RegistryKept, TypeOK, Runs
<1>2. r \subseteq {b \in Blocks : inflight[b] # {}} /\ r \subseteq Blocks
  BY <1>1 DEF Runs
<1>3. \A b \in Blocks : inflight'[b] # {} => inflight[b] # {} /\ b \notin w
  BY <1>2 DEF Deregister, TypeOK
<1>4. \A c \in Callers :
        LET over == pc[c] = "gathering" /\ r \in pending[c] /\ (res # "ok" \/ pending[c] = {r})
        IN  /\ pc'[c] = IF over THEN "gathered" ELSE pc[c]
            /\ result'[c] = IF over THEN res ELSE result[c]
            /\ pending'[c] = pending[c] \ {r}
            /\ want'[c] = want[c]
  BY DEF SettleGatherers, TypeOK
<1>5. Coverage'
  <2>1. \A b \in Blocks : inflight'[b] # {} => b \notin disk'
    BY <1>3 DEF Coverage
  <2>2. ASSUME NEW c \in Callers
        PROVE  /\ pc'[c] = "idle" => want'[c] = {}
               /\ pc'[c] = "gathered" => result'[c] \in {"ok", "error", "cancelled"}
    BY <1>4 DEF Coverage
  <2>3. ASSUME NEW c \in Callers, pc'[c] = "gathering"
        PROVE  want'[c] \subseteq disk' \cup UNION pending'[c]
    <3>1. pc[c] = "gathering" /\ (r \in pending[c] => res = "ok")
      BY <1>4, <2>3
    <3>2. want[c] \subseteq disk \cup UNION pending[c]
      BY <3>1 DEF Coverage
    <3>3. CASE r \in pending[c]
      BY <1>4, <3>1, <3>2, <3>3
    <3>4. CASE r \notin pending[c]
      BY <1>4, <3>2, <3>4
    <3> QED
      BY <3>3, <3>4
  <2>4. ASSUME NEW c \in Callers, pc'[c] = "gathered", result'[c] = "ok"
        PROVE  want'[c] \subseteq disk'
    <3>1. CASE pc[c] = "gathered"
      BY <1>4, <2>4, <3>1 DEF Coverage
    <3>2. CASE pc[c] # "gathered"
      <4>1. pc[c] = "gathering" /\ res = "ok" /\ pending[c] = {r}
        BY <1>4, <2>4, <3>2
      <4>2. want[c] \subseteq disk \cup r
        BY <4>1 DEF Coverage
      <4> QED
        BY <1>4, <4>1, <4>2
    <3> QED
      BY <3>1, <3>2
  <2> QED
    BY <2>1, <2>2, <2>3, <2>4 DEF Coverage
<1>6. /\ {c \in Callers : pc'[c] # "idle"} = {c \in Callers : pc[c] # "idle"}
      /\ [c \in Callers |-> IF pc'[c] = "idle" THEN result'[c] ELSE "none"]
           = [c \in Callers |-> IF pc[c] = "idle" THEN result[c] ELSE "none"]
      /\ want' = want
  BY <1>4 DEF SettleGatherers
<1>7. CASE Deregister(r)
  <2>1. {b \in Blocks : inflight'[b] # {}} = {b \in Blocks : inflight[b] # {}} \ r
    BY <1>2, <1>7 DEF Deregister
  <2>2. ReadThrough!Answer(r, w)
    BY <1>6, <2>1 DEF ReadThrough!Answer
  <2> QED
    BY <1>2, <1>5, <2>2
<1>8. CASE w = {} /\ UNCHANGED inflight
  <2>1. ReadThrough!Answer({}, w)
    BY <1>6, <1>8 DEF ReadThrough!Answer
  <2> QED
    BY <1>5, <1>8, <2>1
<1> QED
  BY <1>7, <1>8

\* The rest of read() after its await.
LEMMA ResumePrivate ==
  ASSUME IInv, Coverage, NEW c \in Callers, Resume(c)
  PROVE  Coverage' /\ ReadThrough!Return(c)
<1> USE DEF IInv
<1>1. /\ pc[c] = "gathered"
      /\ UNCHANGED <<disk, inflight, task, protected, doomed, waiters>>
      /\ pc' = [pc EXCEPT ![c] = "idle"]
      /\ want' = [want EXCEPT ![c] = {}]
      /\ pending' = [pending EXCEPT ![c] = {}]
  BY DEF Resume
<1>2. result' = result
  BY <1>1 DEF Resume, Coverage, TypeOK
<1>3. Coverage'
  BY <1>1, <1>2 DEF Coverage, TypeOK
<1>4. {d \in Callers : pc'[d] # "idle"} = {d \in Callers : pc[d] # "idle"} \ {c}
  BY <1>1 DEF TypeOK
<1>5. [d \in Callers |-> IF pc'[d] = "idle" THEN result'[d] ELSE "none"]
        = [[d \in Callers |-> IF pc[d] = "idle" THEN result[d] ELSE "none"]
             EXCEPT ![c] = result[c]]
  BY <1>1, <1>2 DEF TypeOK
<1>6. result[c] \in ReadThrough!Raised \cup {"ok"} /\ (result[c] = "ok" => want[c] \subseteq disk)
  BY <1>1 DEF Coverage, ReadThrough!Raised
<1>7. \E F \in SUBSET {b \in Blocks : inflight[b] # {}} :
        F = {} /\ {b \in Blocks : inflight'[b] # {}} = {b \in Blocks : inflight[b] # {}} \ F
  BY <1>1
<1> QED
  BY <1>1, <1>3, <1>4, <1>5, <1>6, <1>7 DEF ReadThrough!Return

LEMMA StutterPrivate ==
  ASSUME IInv, Coverage, UNCHANGED <<disk, inflight, pc, want, pending>>,
         \A c \in Callers : result'[c] = result[c] \/ (pc[c] = "gathered" /\ result'[c] = "cancelled")
  PROVE  Coverage' /\ UNCHANGED ReadThrough!vars
<1>1. Coverage'
  BY DEF Coverage
<1>2. [c \in Callers |-> IF pc'[c] = "idle" THEN result'[c] ELSE "none"]
        = [c \in Callers |-> IF pc[c] = "idle" THEN result[c] ELSE "none"]
  OBVIOUS
<1> QED
  BY <1>1, <1>2 DEF ReadThrough!vars

LEMMA NextPrivate ==
  ASSUME Private, IInv, Coverage, [Next]_vars
  PROVE  Coverage' /\ [ReadThrough!Next]_(ReadThrough!vars)
<1> USE DEF IInv
<1>1. ASSUME NEW c \in Callers, Read(c) \/ Prefetch(c)
      PROVE  Coverage' /\ ReadThrough!Next
  <2>1. PICK W \in SUBSET Blocks : \E reads \in {W, {}} : EnsureBlocks(c, W, reads)
    <3>1. \A first, last \in Blocks : first .. last \in SUBSET Blocks
      BY CacheAssumption DEF Blocks
    <3> QED
      BY <1>1, <3>1 DEF Read, Prefetch
  <2> QED
    BY <2>1, EnsureBlocksPrivate DEF ReadThrough!Next
<1>2. ASSUME NEW c \in Callers, CancelCaller(c)
      PROVE  Coverage' /\ UNCHANGED ReadThrough!vars
  <2>1. /\ UNCHANGED <<disk, inflight, pc, want, pending>>
        /\ \A d \in Callers : result'[d] = result[d]
                              \/ (pc[d] = "gathered" /\ result'[d] = "cancelled")
    BY <1>2 DEF CancelCaller, TypeOK
  <2> QED
    BY <2>1, StutterPrivate
<1>3. ASSUME NEW c \in Callers, Resume(c)
      PROVE  Coverage' /\ ReadThrough!Next
  BY <1>3, ResumePrivate DEF ReadThrough!Next
<1>4. ASSUME NEW r \in Runs, FetchStart(r)
      PROVE  Coverage' /\ UNCHANGED ReadThrough!vars
  BY <1>4, StutterPrivate DEF FetchStart, callerVars
<1>5. ASSUME NEW r \in Runs, FetchCompletes(r)
      PROVE  Coverage' /\ ReadThrough!Next
  <2>1. disk' = disk \cup r /\ task[r] # "none"
    BY <1>5, NothingEvicted DEF FetchCompletes, Runs
  <2> QED
    BY <1>5, <2>1, TaskEndsPrivate DEF FetchCompletes, ReadThrough!Next
<1>6. ASSUME NEW r \in Runs, FetchFails(r)
      PROVE  Coverage' /\ ReadThrough!Next
  <2>1. PICK w \in SUBSET r : Persist(r, w)
    BY <1>6 DEF FetchFails
  <2>2. disk' = disk \cup w /\ task[r] # "none"
    BY <1>6, <2>1, NothingEvicted DEF FetchFails, Runs
  <2>3. Deregister(r) /\ SettleGatherers(r, "error")
    BY <1>6 DEF FetchFails
  <2>4. Coverage' /\ \E F \in SUBSET {b \in Blocks : inflight[b] # {}} : ReadThrough!Answer(F, w) /\ w \subseteq F
    BY <2>2, <2>3, TaskEndsPrivate
  <2> QED
    BY <2>4 DEF ReadThrough!Next
<1>7. ASSUME NEW r \in Runs, TaskCancelled(r)
      PROVE  Coverage' /\ ReadThrough!Next
  <2>1. /\ task[r] # "none" /\ disk' = disk \cup {} /\ {} \in SUBSET r
        /\ Deregister(r) \/ UNCHANGED inflight
        /\ SettleGatherers(r, "cancelled")
    BY <1>7 DEF TaskCancelled, CancelledUnstarted, CancelledQueued, CancelledActive
  <2>2. Coverage' /\ \E F \in SUBSET {b \in Blocks : inflight[b] # {}} : ReadThrough!Answer(F, {})
    BY <2>1, TaskEndsPrivate
  <2> QED
    BY <2>2 DEF ReadThrough!Next
<1>8. ASSUME NEW b \in Blocks, PeerStep(b) PROVE FALSE
  BY <1>8 DEF PeerStep, PeerEvicts, PeerWrites, Private
<1>9. CASE UNCHANGED vars
  BY <1>9, StutterPrivate DEF vars, callerVars
<1> QED
  BY <1>1, <1>2, <1>3, <1>4, <1>5, <1>6, <1>7, <1>8, <1>9 DEF Next, CallerStep, TaskStep

LEMMA InitPrivate ==
  ASSUME Private, Init
  PROVE  Coverage /\ ReadThrough!Init
<1> USE DEF Init
<1>1. Coverage
  BY DEF Coverage
<1>2. ReadThrough!Init
  BY DEF ReadThrough!Init, Private
<1> QED
  BY <1>1, <1>2

\* A read() that is waiting has every block on disk or on the way; one that ended
\* well finds every block.
THEOREM ReadsFindTheirs == Spec => []ReadsFindTheirBlocks
<1>1. CASE Private
  <2>1. Init => Coverage
    BY <1>1, InitPrivate
  <2>2. IInv /\ Coverage /\ [Next]_vars => Coverage'
    BY <1>1, NextPrivate
  <2>3. Coverage => ReadsFindTheirBlocks
    BY DEF Coverage, ReadsFindTheirBlocks
  <2> QED
    BY <2>1, <2>2, <2>3, Invariance, PTL DEF Spec
<1>2. CASE ~Private
  <2>1. ReadsFindTheirBlocks
    BY <1>2 DEF Private, ReadsFindTheirBlocks
  <2> QED
    BY <2>1, PTL
<1> QED
  BY <1>1, <1>2

\* Nothing leaves such a cache, and _ensure_blocks asks for nothing that is in it.
THEOREM Served == Spec => ServedForLifetime
<1>1. ASSUME IInv, [Next]_vars, Private
      PROVE  disk \subseteq disk'
  <2>1. CASE disk' # disk
    <3>1. PICK r \in Runs : \E written \in SUBSET r : Persist(r, written)
      BY <1>1, <2>1, WritersAreTasks DEF Private
    <3>2. PICK written \in SUBSET r : Persist(r, written)
      BY <3>1
    <3>3. written \in SUBSET Blocks
      BY DEF Runs
    <3> QED
      BY <1>1, <3>2, <3>3, NothingEvicted DEF IInv
  <2> QED
    BY <2>1
<1>2. ASSUME IInv, [Next]_vars, Private, NEW r \in Live' \ Live
      PROVE  r \cap disk = {}
  <2>1. /\ r \in Runs /\ task \in [Runs -> TaskStates]
        /\ task'[r] \in {"created", "queued", "active"}
        /\ task[r] \notin {"created", "queued", "active"}
    BY <1>2 DEF Live, IInv, TypeOK
  <2>2. CASE \E s \in Runs : TaskStep(s)
    <3>1. PICK s \in Runs : TaskStep(s)
      BY <2>2
    <3>2. CASE FetchStart(s)
      BY <2>1, <3>2 DEF FetchStart
    <3>3. CASE /\ task[s] = "active" /\ ReleaseSlot(s)
               /\ doomed' = doomed \/ doomed' = doomed \ {s}
      BY <1>2, <2>1, <3>3, ReleaseSlotFacts DEF IInv
    <3>4. CASE CancelledQueued(s) \/ CancelledUnstarted(s)
      BY <2>1, <3>4 DEF CancelledQueued, CancelledUnstarted
    <3> QED
      BY <3>1, <3>2, <3>3, <3>4 DEF TaskStep, FetchCompletes, FetchFails, TaskCancelled, CancelledActive
  <2>3. CASE \E c \in Callers : Read(c) \/ Prefetch(c)
    <3>1. PICK c \in Callers : \E W, reads : EnsureBlocks(c, W, reads)
      BY <2>3 DEF Read, Prefetch
    <3>2. PICK W, reads : EnsureBlocks(c, W, reads)
      BY <3>1
    <3>3. r \in Coalesce(Needed(W))
      BY <2>1, <3>2 DEF EnsureBlocks
    <3> QED
      BY <3>3 DEF Coalesce, RunOf, Needed
  <2>4. CASE UNCHANGED task
    BY <2>1, <2>4
  <2> QED
    BY <1>2, <2>2, <2>3, <2>4 DEF Next, CallerStep, CancelCaller, Resume, PeerStep, PeerEvicts,
                                  PeerWrites, vars
<1>3. IInv /\ [Next]_vars =>
        [~SharedDir /\ NumBlocks <= MaxBlocks =>
           /\ disk \subseteq disk'
           /\ \A r \in Live' \ Live : r \cap disk = {}]_vars
  BY <1>1, <1>2 DEF Private
<1> QED
  BY <1>3, Invariance, PTL DEF Spec, ServedForLifetime

\* A private cache with room for its file implements ReadThroughCache.
THEOREM ReadThroughImplemented ==
  ASSUME Private
  PROVE  Spec => ImplementsReadThrough
<1>1. Init => Coverage /\ ReadThrough!Init
  BY InitPrivate
<1>2. IInv /\ Coverage /\ [Next]_vars => Coverage' /\ [ReadThrough!Next]_(ReadThrough!vars)
  BY NextPrivate
<1> QED
  BY <1>1, <1>2, Invariance, PTL DEF Spec, ImplementsReadThrough, ReadThrough!Spec

=============================================================================
