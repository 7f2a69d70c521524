------------------------- MODULE RangeTransportProofs -------------------------
(***************************************************************************)
(* Safety of RangeTransport for any set of requests, any mix of backends,  *)
(* any max_concurrency, number of attempts and Retry-After headers.        *)
(***************************************************************************)
EXTENDS RangeTransport, QueueLemmas, FiniteSetTheorems

-----------------------------------------------------------------------------
(* What the transports make of an answer.                                  *)

\* Range support is found missing only in a 200, and bytes only in a 206, which
\* the server sends only if it ignores Range at times, or honours it at times.
LEMMA FetchVerdictFacts ==
  ASSUME TypeOK, NEW status \in Statuses
  PROVE  /\ FetchVerdict(status) \in {"retry", "network", "no-range-support", "bytes"}
         /\ FetchVerdict(status) = "no-range-support" => ranges # "always"
         /\ FetchVerdict(status) = "bytes" => ranges # "never"
<1>1. backend \in {"aiohttp", "pyfetch", "urllib"}
  BY TransportAssumption DEF TypeOK
<1>2. /\ status = 200 => ranges # "always"
      /\ status = 206 => ranges # "never"
  BY DEF Statuses, Dropped, TimedOut, CutOff
<1> QED
  BY <1>1, <1>2 DEF FetchVerdict, AiohttpAttempt, PyfetchAttempt, UrllibAttempt

LEMMA ProbeVerdictFacts ==
  ASSUME TypeOK, NEW status \in Statuses
  PROVE  /\ ProbeVerdict(status) \in {"network", "size", "no-range-support", "content-range-hidden"}
         /\ ProbeVerdict(status) = "no-range-support" => ranges # "always"
         /\ ProbeVerdict(status) = "content-range-hidden" => ranges # "never" /\ ~exposed
         /\ ProbeVerdict(status) = "size" => ranges # "never"
<1>1. backend \in {"aiohttp", "pyfetch", "urllib"} /\ exposed \in BOOLEAN
  BY TransportAssumption DEF TypeOK
<1>2. /\ status \in {404, 429, 503, Dropped, TimedOut, 206, CutOff, 200}
      /\ status = 200 => ranges # "always"
      /\ status \in Partial => ranges # "never"
  BY DEF Statuses, Partial, Dropped, TimedOut, CutOff
<1> QED
  BY <1>1, <1>2 DEF ProbeVerdict, AiohttpProbe, PyfetchProbe, UrllibProbe, Failed, Partial,
                    Dropped, TimedOut, CutOff

\* How long a backoff may be: the powers of two are numbers (of the subsets of
\* a set), and a Retry-After in the past is none.
LEMMA BackoffIsANumber ==
  ASSUME TypeOK, NEW r \in Requests, tries[r] >= 1,
         NEW status, NEW header \in RetryAfters
  PROVE  /\ Backoff(r, status, header) \in Nat
         /\ AsksToWait(status, header) =>
              Seconds(header) \in Nat /\ Seconds(header) = Backoff(r, status, header)
<1>1. 2 ^ (tries[r] - 1) \in Nat
  <2> DEFINE n == tries[r] - 1
  <2>1. n \in Nat
    BY TransportAssumption DEF TypeOK
  <2> HIDE DEF n
  <2>2. IsFiniteSet(1 .. n) /\ Cardinality(1 .. n) = n
    BY <2>1, FS_Interval
  <2>3. IsFiniteSet(SUBSET (1 .. n)) /\ Cardinality(SUBSET (1 .. n)) = 2 ^ n
    BY <2>2, FS_SUBSET
  <2>4. 2 ^ n \in Nat
    BY <2>3, FS_CardinalityType
  <2> QED
    BY <2>4 DEF n
<1>2. ASSUME AsksToWait(status, header)
      PROVE  Seconds(header) \in Nat
  <2>1. header \in Seq(Int) /\ header # <<>>
    BY <1>2, TransportAssumption DEF AsksToWait
  <2>2. header[1] \in Int
    BY <2>1, EmptySeq, ElementOfSeq
  <2> QED
    BY <2>2 DEF Seconds
<1> QED
  BY <1>1, <1>2 DEF Backoff

-----------------------------------------------------------------------------
(* The inductive invariant.  What a request owes to a server's Retry-After *)
(* is no more than what is left of its sleep, nobody sleeps but in a       *)
(* backoff, and a backoff keeps its slot: so nobody who is on the way, or  *)
(* waits as told, is without one.                                          *)

Bookkeeping ==
  \A r \in Requests :
    /\ phase[r] \in {"idle", "queued"} => tries[r] = 0
    /\ phase[r] \in {"sent", "backoff"} => tries[r] >= 1
    /\ phase[r] = "backoff" => tries[r] < Attempts
    /\ phase[r] # "backoff" => delay[r] = 0
    /\ owed[r] <= delay[r]

SlotsKept ==
  /\ IsFiniteSet(Holders)
  /\ Cardinality(Holders) <= Slots

IInv ==
  /\ TypeOK
  /\ Bookkeeping
  /\ SlotsKept
  /\ BlameIsRight
  /\ closed => backend # "urllib"

LEMMA InitIInv == Init => IInv
<1> SUFFICES ASSUME Init PROVE IInv
  OBVIOUS
<1> USE DEF Init
<1>1. TypeOK
  <2>1. /\ queue \in Seq(Requests) /\ IsInjective(queue)
        /\ ToSet(queue) = {r \in Requests : phase[r] = "queued"}
    <3>1. Len(queue) = 0 /\ DOMAIN queue = {}
      OBVIOUS
    <3> QED
      BY <3>1 DEF ToSet, IsInjective
  <2>2. /\ phase \in [Requests -> {"idle", "queued", "sent", "backoff"}]
        /\ tries \in [Requests -> 0 .. Attempts]
        /\ delay \in [Requests -> Nat] /\ owed \in [Requests -> Nat]
        /\ outcome \in [Requests -> Outcomes]
    BY TransportAssumption DEF Outcomes
  <2> QED
    BY <2>1, <2>2 DEF TypeOK
<1>2. Bookkeeping
  BY DEF Bookkeeping
<1>3. SlotsKept
  <2>1. Holders = {}
    BY DEF Holders
  <2> QED
    BY <2>1, FS_EmptySet, TransportAssumption DEF SlotsKept, Slots
<1>4. BlameIsRight
  BY DEF BlameIsRight
<1> QED
  BY <1>1, <1>2, <1>3, <1>4 DEF IInv

\* A call that is over has let go of its slot, and blames nobody but who it may.
LEMMA EndIInv ==
  ASSUME IInv, NEW r \in Requests, NEW how, End(r, how),
         how \in Outcomes \ {"none"},
         how = "no-range-support" => ranges # "always",
         how = "bytes" => ranges # "never",
         UNCHANGED <<setting, closed, probe>>,
         queue' \in Seq(Requests), IsInjective(queue'),
         ToSet(queue') = ToSet(queue) \ {r}
  PROVE  IInv'
<1> USE DEF IInv
<1>1. TypeOK'
  <2>1. {s \in Requests : phase'[s] = "queued"} = {s \in Requests : phase[s] = "queued"} \ {r}
    BY DEF End, TypeOK
  <2>2. /\ phase' \in [Requests -> {"idle", "queued", "sent", "backoff"}]
        /\ tries' \in [Requests -> 0 .. Attempts]
        /\ delay' \in [Requests -> Nat] /\ owed' \in [Requests -> Nat]
        /\ outcome' \in [Requests -> Outcomes]
    BY TransportAssumption DEF End, TypeOK
  <2> QED
    BY <2>1, <2>2 DEF TypeOK, setting
<1>2. Bookkeeping'
  BY DEF Bookkeeping, End, TypeOK
<1>3. SlotsKept'
  <2>1. Holders' = Holders \ {r}
    BY DEF Holders, End, TypeOK
  <2>2. IsFiniteSet(Holders \ {r}) /\ Cardinality(Holders \ {r}) <= Cardinality(Holders)
    BY FS_Subset DEF SlotsKept
  <2>3. /\ Cardinality(Holders) \in Nat /\ Cardinality(Holders \ {r}) \in Nat
        /\ Slots \in Nat /\ Slots' = Slots
    BY <2>2, FS_CardinalityType, TransportAssumption DEF SlotsKept, Slots, setting
  <2> QED
    BY <2>1, <2>2, <2>3 DEF SlotsKept
<1>4. BlameIsRight'
  <2>1. \A s \in Requests : outcome'[s] = how \/ outcome'[s] = outcome[s]
    BY DEF End, TypeOK
  <2>2. \A v \in {probe'} \cup {outcome'[s] : s \in Requests} :
          v = how \/ v \in {probe} \cup {outcome[s] : s \in Requests}
    BY <2>1
  <2> QED
    BY <2>2 DEF BlameIsRight, setting, Outcomes
<1> QED
  BY <1>1, <1>2, <1>3, <1>4 DEF setting

\* An attempt is made by who has a slot for it, and tries left.
LEMMA SendIInv ==
  ASSUME IInv, NEW r \in Requests, Send(r),
         tries[r] < Attempts, delay[r] = 0,
         IsFiniteSet(Holders \cup {r}), Cardinality(Holders \cup {r}) <= Slots,
         UNCHANGED <<setting, closed, probe>>,
         queue' \in Seq(Requests), IsInjective(queue'),
         ToSet(queue') = ToSet(queue) \ {r}
  PROVE  IInv'
<1> USE DEF IInv
<1>1. TypeOK'
  <2>1. {s \in Requests : phase'[s] = "queued"} = {s \in Requests : phase[s] = "queued"} \ {r}
    BY DEF Send, TypeOK
  <2>2. /\ phase' \in [Requests -> {"idle", "queued", "sent", "backoff"}]
        /\ tries' \in [Requests -> 0 .. Attempts]
    BY TransportAssumption DEF Send, TypeOK
  <2> QED
    BY <2>1, <2>2 DEF TypeOK, setting, Send
<1>2. Bookkeeping'
  BY TransportAssumption DEF Bookkeeping, Send, TypeOK
<1>3. SlotsKept'
  <2>1. Holders' = Holders \cup {r}
    BY DEF Holders, Send, TypeOK
  <2> QED
    BY <2>1 DEF SlotsKept, Slots, setting
<1>4. BlameIsRight'
  BY DEF BlameIsRight, Send, setting
<1> QED
  BY <1>1, <1>2, <1>3, <1>4 DEF setting

\* What an action that leaves the requests alone must keep.
LEMMA ProbeReplyIInv ==
  ASSUME IInv, ProbeReply
  PROVE  IInv'
<1> USE DEF IInv
<1>1. PICK status \in Statuses : probe' = ProbeVerdict(status)
  BY DEF ProbeReply
<1>2. UNCHANGED <<setting, closed, requestVars>>
  BY DEF ProbeReply
<1>3. TypeOK'
  BY <1>1, <1>2, ProbeVerdictFacts DEF TypeOK, ProbeOutcomes, setting, requestVars
<1>4. Bookkeeping' /\ SlotsKept'
  BY <1>2 DEF Bookkeeping, SlotsKept, Holders, Slots, setting, requestVars
<1>5. BlameIsRight'
  BY <1>1, <1>2, ProbeVerdictFacts DEF BlameIsRight, setting, requestVars
<1> QED
  BY <1>2, <1>3, <1>4, <1>5 DEF setting

LEMMA ProbeIInv ==
  ASSUME IInv, Probe
  PROVE  IInv'
<1> USE DEF IInv
<1>1. UNCHANGED <<setting, closed, requestVars>> /\ probe' \in {"closed", "sent"}
  BY DEF Probe
<1>2. TypeOK'
  BY <1>1 DEF TypeOK, ProbeOutcomes, setting, requestVars
<1>3. Bookkeeping' /\ SlotsKept'
  BY <1>1 DEF Bookkeeping, SlotsKept, Holders, Slots, setting, requestVars
<1>4. BlameIsRight'
  BY <1>1 DEF BlameIsRight, setting, requestVars
<1> QED
  BY <1>1, <1>2, <1>3, <1>4 DEF setting

LEMMA CloseIInv ==
  ASSUME IInv, Close
  PROVE  IInv'
<1> USE DEF IInv
<1>1. UNCHANGED <<setting, probe, requestVars>> /\ closed' = TRUE /\ backend # "urllib"
  BY DEF Close
<1>2. TypeOK'
  BY <1>1 DEF TypeOK, setting, requestVars
<1>3. Bookkeeping' /\ SlotsKept' /\ BlameIsRight'
  BY <1>1 DEF Bookkeeping, SlotsKept, Holders, Slots, BlameIsRight, setting, requestVars
<1> QED
  BY <1>1, <1>2, <1>3 DEF setting

LEMMA TickIInv ==
  ASSUME IInv, Tick
  PROVE  IInv'
<1> USE DEF IInv
<1>1. /\ UNCHANGED <<setting, closed, probe, queue, phase, tries, outcome>>
      /\ delay' = [r \in Requests |-> Less(delay[r])]
      /\ owed' = [r \in Requests |-> Less(owed[r])]
  BY DEF Tick
<1>2. \A n \in Nat : Less(n) \in Nat /\ (n = 0 => Less(n) = 0)
  BY DEF Less
<1>3. \A m, n \in Nat : m <= n => Less(m) <= Less(n)
  BY DEF Less
<1>4. TypeOK'
  BY <1>1, <1>2 DEF TypeOK, setting
<1>5. Bookkeeping'
  BY <1>1, <1>2, <1>3 DEF Bookkeeping, TypeOK
<1>6. SlotsKept' /\ BlameIsRight'
  BY <1>1 DEF SlotsKept, Holders, Slots, BlameIsRight, setting
<1> QED
  BY <1>1, <1>4, <1>5, <1>6 DEF setting

LEMMA FetchIInv ==
  ASSUME IInv, NEW r \in Requests, Fetch(r)
  PROVE  IInv'
<1> USE DEF IInv
<1>1. /\ phase[r] = "idle" /\ phase' = [phase EXCEPT ![r] = "queued"]
      /\ queue' = Append(queue, r)
      /\ outcome' = [outcome EXCEPT ![r] = "none"]
      /\ UNCHANGED <<setting, closed, probe, tries, delay, owed>>
  BY DEF Fetch
<1>2. /\ queue' \in Seq(Requests) /\ IsInjective(queue')
      /\ ToSet(queue') = ToSet(queue) \cup {r}
  BY <1>1, AppendFacts DEF TypeOK
<1>3. TypeOK'
  <2>1. {s \in Requests : phase'[s] = "queued"} = {s \in Requests : phase[s] = "queued"} \cup {r}
    BY <1>1 DEF TypeOK
  <2> QED
    BY <1>1, <1>2, <2>1 DEF TypeOK, Outcomes, setting
<1>4. Bookkeeping'
  BY <1>1 DEF Bookkeeping, TypeOK
<1>5. SlotsKept'
  <2>1. Holders' = Holders
    BY <1>1 DEF Holders, TypeOK
  <2> QED
    BY <1>1, <2>1 DEF SlotsKept, Slots, setting
<1>6. BlameIsRight'
  <2>1. \A s \in Requests : outcome'[s] = outcome[s] \/ outcome'[s] = "none"
    BY <1>1 DEF TypeOK
  <2> QED
    BY <1>1, <2>1 DEF BlameIsRight, setting
<1> QED
  BY <1>1, <1>3, <1>4, <1>5, <1>6 DEF setting

LEMMA StartIInv ==
  ASSUME IInv, Start
  PROVE  IInv'
<1> USE DEF IInv
<1> DEFINE r == Head(queue)
<1>1. /\ r \in ToSet(queue)
      /\ Tail(queue) \in Seq(Requests) /\ IsInjective(Tail(queue))
      /\ ToSet(Tail(queue)) = ToSet(queue) \ {r}
  BY TailFacts DEF Start, TypeOK
<1>2. r \in Requests /\ phase[r] = "queued"
  BY <1>1 DEF TypeOK
<1> HIDE DEF r
<1>3. /\ queue' \in Seq(Requests) /\ IsInjective(queue')
      /\ ToSet(queue') = ToSet(queue) \ {r}
      /\ UNCHANGED <<setting, closed, probe>>
      /\ Cardinality(Holders) < Slots
  BY <1>1 DEF Start
<1>4. CASE Refuses
  <2>1. End(r, "closed")
    BY <1>4 DEF Start, r
  <2> QED
    BY <1>2, <1>3, <2>1, EndIInv DEF Outcomes
<1>5. CASE ~Refuses
  <2>1. Send(r)
    BY <1>5 DEF Start, r
  <2>2. tries[r] < Attempts /\ delay[r] = 0
    BY <1>2, TransportAssumption DEF Bookkeeping
  <2>3. IsFiniteSet(Holders \cup {r}) /\ Cardinality(Holders \cup {r}) <= Slots
    <3>1. /\ IsFiniteSet(Holders \cup {r})
          /\ Cardinality(Holders \cup {r}) \in {Cardinality(Holders), Cardinality(Holders) + 1}
      BY FS_AddElement DEF SlotsKept
    <3>2. Cardinality(Holders) \in Nat /\ Slots \in Nat
      BY FS_CardinalityType, TransportAssumption DEF SlotsKept, Slots
    <3> QED
      BY <1>3, <3>1, <3>2
  <2> QED
    BY <1>2, <1>3, <2>1, <2>2, <2>3, SendIInv
<1> QED
  BY <1>4, <1>5

\* A request that is not queued is not in the queue.
LEMMA NotQueued ==
  ASSUME IInv, NEW r \in Requests, phase[r] # "queued", UNCHANGED queue
  PROVE  /\ queue' \in Seq(Requests) /\ IsInjective(queue')
         /\ ToSet(queue') = ToSet(queue) \ {r}
BY DEF IInv, TypeOK

LEMMA ReplyIInv ==
  ASSUME IInv, NEW r \in Requests, Reply(r)
  PROVE  IInv'
<1> USE DEF IInv
<1>1. PICK status \in Statuses, header \in RetryAfters :
       \/ FetchVerdict(status) # "retry" /\ End(r, FetchVerdict(status))
       \/ FetchVerdict(status) = "retry" /\ LastTry(r) /\ End(r, "network")
       \/ /\ FetchVerdict(status) = "retry" /\ ~LastTry(r)
          /\ phase' = [phase EXCEPT ![r] = "backoff"]
          /\ delay' = [delay EXCEPT ![r] = Backoff(r, status, header)]
          /\ owed' = [owed EXCEPT ![r] =
                        IF AsksToWait(status, header) THEN Seconds(header) ELSE 0]
          /\ UNCHANGED <<tries, outcome>>
  BY DEF Reply
<1>2. phase[r] = "sent" /\ UNCHANGED <<setting, closed, probe, queue>>
  BY DEF Reply
<1>3. /\ queue' \in Seq(Requests) /\ IsInjective(queue')
      /\ ToSet(queue') = ToSet(queue) \ {r}
  BY <1>2, NotQueued
<1>4. CASE FetchVerdict(status) # "retry" /\ End(r, FetchVerdict(status))
  <2>1. /\ FetchVerdict(status) \in Outcomes \ {"none"}
        /\ FetchVerdict(status) = "no-range-support" => ranges # "always"
        /\ FetchVerdict(status) = "bytes" => ranges # "never"
    BY <1>4, FetchVerdictFacts DEF Outcomes
  <2> QED
    BY <1>2, <1>3, <1>4, <2>1, EndIInv
<1>5. CASE End(r, "network")
  BY <1>2, <1>3, <1>5, EndIInv DEF Outcomes
<1>6. CASE /\ ~LastTry(r)
           /\ phase' = [phase EXCEPT ![r] = "backoff"]
           /\ delay' = [delay EXCEPT ![r] = Backoff(r, status, header)]
           /\ owed' = [owed EXCEPT ![r] =
                         IF AsksToWait(status, header) THEN Seconds(header) ELSE 0]
           /\ UNCHANGED <<tries, outcome>>
  <2>1. tries[r] >= 1 /\ tries[r] < Attempts
    BY <1>2, <1>6, TransportAssumption DEF Bookkeeping, LastTry, TypeOK
  <2>2. /\ delay' \in [Requests -> Nat] /\ owed' \in [Requests -> Nat]
        /\ owed'[r] <= delay'[r]
        /\ \A s \in Requests : s # r => delay'[s] = delay[s] /\ owed'[s] = owed[s]
    <3>1. /\ Backoff(r, status, header) \in Nat
          /\ AsksToWait(status, header) =>
               Seconds(header) \in Nat /\ Seconds(header) = Backoff(r, status, header)
      BY <2>1, BackoffIsANumber
    <3> QED
      BY <1>6, <3>1 DEF TypeOK
  <2>3. TypeOK'
    <3>1. {s \in Requests : phase'[s] = "queued"} = {s \in Requests : phase[s] = "queued"}
      BY <1>2, <1>6 DEF TypeOK
    <3> QED
      BY <1>2, <1>6, <2>2, <3>1 DEF TypeOK, setting
  <2>4. Bookkeeping'
    BY <1>6, <2>1, <2>2 DEF Bookkeeping, TypeOK
  <2>5. SlotsKept'
    <3>1. Holders' = Holders
      BY <1>2, <1>6 DEF Holders, TypeOK
    <3> QED
      BY <1>2, <3>1 DEF SlotsKept, Slots, setting
  <2>6. BlameIsRight'
    BY <1>2, <1>6 DEF BlameIsRight, setting
  <2> QED
    BY <1>2, <2>3, <2>4, <2>5, <2>6 DEF setting
<1> QED
  BY <1>1, <1>4, <1>5, <1>6

LEMMA ResendIInv ==
  ASSUME IInv, NEW r \in Requests, Resend(r)
  PROVE  IInv'
<1> USE DEF IInv
<1>1. phase[r] = "backoff" /\ delay[r] = 0 /\ UNCHANGED <<setting, closed, probe, queue>>
  BY DEF Resend
<1>2. /\ queue' \in Seq(Requests) /\ IsInjective(queue')
      /\ ToSet(queue') = ToSet(queue) \ {r}
  BY <1>1, NotQueued
<1>3. CASE End(r, "closed")
  BY <1>1, <1>2, <1>3, EndIInv DEF Outcomes
<1>4. CASE Send(r)
  <2>1. tries[r] < Attempts
    BY <1>1 DEF Bookkeeping
  <2>2. Holders \cup {r} = Holders
    BY <1>1 DEF Holders
  <2> QED
    BY <1>1, <1>2, <1>4, <2>1, <2>2, SendIInv DEF SlotsKept
<1> QED
  BY <1>3, <1>4 DEF Resend

LEMMA CancelIInv ==
  ASSUME IInv, NEW r \in Requests, Cancel(r)
  PROVE  IInv'
<1> USE DEF IInv
<1>1. End(r, "cancelled") /\ UNCHANGED <<setting, closed, probe>>
  BY DEF Cancel
<1>2. /\ queue' \in Seq(Requests) /\ IsInjective(queue')
      /\ ToSet(queue') = ToSet(queue) \ {r}
  <2>1. CASE phase[r] = "queued"
    <3>1. PICK i \in DOMAIN queue : queue[i] = r /\ queue' = RemoveAt(queue, i)
      BY <2>1 DEF Cancel
    <3> QED
      BY <3>1, RemoveAtFacts DEF TypeOK
  <2>2. CASE phase[r] # "queued"
    BY <2>2, NotQueued DEF Cancel
  <2> QED
    BY <2>1, <2>2
<1> QED
  BY <1>1, <1>2, EndIInv DEF Outcomes

LEMMA NextIInv == IInv /\ [Next]_vars => IInv'
<1> SUFFICES ASSUME IInv, [Next]_vars PROVE IInv'
  OBVIOUS
<1>1. CASE Probe \/ ProbeReply \/ Start \/ Close \/ Tick
  BY <1>1, ProbeIInv, ProbeReplyIInv, StartIInv, CloseIInv, TickIInv
<1>2. ASSUME NEW r \in Requests, Fetch(r) \/ Reply(r) \/ Resend(r) \/ Cancel(r)
      PROVE  IInv'
  BY <1>2, FetchIInv, ReplyIInv, ResendIInv, CancelIInv
<1>3. CASE UNCHANGED vars
  BY <1>3 DEF vars, setting, requestVars, IInv, TypeOK, Bookkeeping, SlotsKept, Holders, Slots,
              BlameIsRight
<1> QED
  BY <1>1, <1>2, <1>3 DEF Next

THEOREM Invariance == Spec => []IInv
BY InitIInv, NextIInv, PTL DEF Spec

-----------------------------------------------------------------------------
(* What follows from it.                                                   *)

\* The states of the transport are those the code can name, and the semaphore's
\* queue holds every waiting request once.
THEOREM TypeCorrect == Spec => []TypeOK
BY Invariance, PTL DEF IInv

\* Nobody is told that the server lacks range support, or hides a header, or
\* serves ranges, unless it does: in fetch_with_retries, open() and probe().
THEOREM Blame == Spec => []BlameIsRight
BY Invariance, PTL DEF IInv

\* The semaphore is held across the backoff of fetch_with_retries: those on their
\* way and those the server asked to wait are together no more than its slots.
THEOREM Pressure == Spec => []NoExtraPressure
<1>1. IInv => NoExtraPressure
  <2> SUFFICES ASSUME IInv PROVE NoExtraPressure
    OBVIOUS
  <2> DEFINE sent == {r \in Requests : phase[r] = "sent"}
             waiting == {r \in Requests : owed[r] > 0}
  <2>1. \A r \in Requests : owed[r] > 0 => phase[r] = "backoff"
    BY DEF IInv, TypeOK, Bookkeeping
  <2>2. sent \cap waiting = {} /\ sent \cup waiting \subseteq Holders
    BY <2>1 DEF Holders
  <2>3. /\ Cardinality(sent \cup waiting) <= Cardinality(Holders)
        /\ Cardinality(sent \cup waiting) \in Nat /\ Cardinality(Holders) \in Nat
    BY <2>2, FS_Subset, FS_CardinalityType DEF IInv, SlotsKept
  <2>4. Cardinality(sent \cup waiting) <= Slots
    BY <2>3, TransportAssumption DEF IInv, SlotsKept, Slots
  <2> QED
    BY <2>2, <2>4 DEF NoExtraPressure
<1> QED
  BY <1>1, Invariance, PTL

\* Only a fetch of pyfetch that is between two attempts reaches the server once
\* close() was called: _check_open refuses the rest, aiohttp's session its own
\* retries, and HttpFile, which has no transport, is not closed while it fetches.
THEOREM Quiet == Spec => QuietOnceClosed
<1>1. ASSUME IInv, [Next]_vars, NEW r \in Requests, closed, Reaches(r)
      PROVE  backend = "pyfetch" /\ phase[r] = "backoff"
  <2> USE DEF Reaches
  <2>1. backend \in {"aiohttp", "pyfetch"}
    BY <1>1, TransportAssumption DEF IInv, TypeOK
  <2>2. phase' # phase /\ phase \in [Requests -> {"idle", "queued", "sent", "backoff"}]
    BY <1>1 DEF IInv, TypeOK
  <2>3. CASE Start
    BY <1>1, <2>2, <2>3 DEF Start, Refuses, End
  <2>4. CASE \E q \in Requests : Resend(q)
    <3>1. PICK q \in Requests : Resend(q)
      BY <2>4
    <3>2. CASE End(q, "closed")
      BY <1>1, <2>2, <3>2 DEF End
    <3>3. CASE ~(closed /\ backend = "aiohttp") /\ Send(q)
      BY <1>1, <2>1, <2>2, <3>1, <3>3 DEF Send, Resend
    <3> QED
      BY <3>1, <3>2, <3>3 DEF Resend
  <2>5. CASE \E q \in Requests : Fetch(q) \/ Reply(q) \/ Cancel(q)
    BY <1>1, <2>2, <2>5 DEF Fetch, Reply, Cancel, End
  <2>6. CASE Probe \/ ProbeReply \/ Close \/ Tick \/ UNCHANGED vars
    BY <2>2, <2>6 DEF Probe, ProbeReply, Close, Tick, vars, requestVars
  <2> QED
    BY <1>1, <2>3, <2>4, <2>5, <2>6 DEF Next
<1>2. IInv /\ [Next]_vars =>
        [\A r \in Requests :
           closed /\ Reaches(r) => backend = "pyfetch" /\ phase[r] = "backoff"]_vars
  BY <1>1
<1> QED
  BY <1>2, Invariance, PTL DEF Spec, QuietOnceClosed

=============================================================================
