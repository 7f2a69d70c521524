---------------------------- MODULE RangeTransport ----------------------------
(***************************************************************************)
(* How requests get to the server: the probe of open(), and range requests *)
(* behind the semaphore of AsyncHttpFile, through AiohttpTransport,        *)
(* PyfetchTransport, or the urllib calls of HttpFile (one at a time, never *)
(* retried), while the server answers what it likes and the session may be *)
(* closed.                                                                 *)
(*                                                                         *)
(* An action is what happens between two suspensions.  Time is counted in  *)
(* RETRY_BACKOFF_SECONDS.  Abstracted: which bytes are asked for (see      *)
(* BlockCache), bodies of the wrong size, validators, redirects.           *)
(***************************************************************************)
EXTENDS Integers, FiniteSets, SequencesExt

CONSTANTS
  Requests,        \* coroutines that ask for ranges
  Backends,        \* subset of {"aiohttp", "pyfetch", "urllib"}
  MaxConcurrency,  \* max_concurrency
  RetryAfters,     \* Retry-After headers: <<>> for none or a date, <<n>> for a number
  Attempts         \* RETRY_ATTEMPTS

ASSUME TransportAssumption ==
  /\ Backends \subseteq {"aiohttp", "pyfetch", "urllib"}
  /\ MaxConcurrency \in Nat \ {0}
  /\ \A h \in RetryAfters : h \in Seq(Int) /\ Len(h) <= 1
  /\ Attempts \in Nat \ {0}

VARIABLES
  backend,  \* the transport in use
  ranges,   \* does the server honour Range: "always", "never", "sometimes"
  exposed,  \* does it let a browser see Content-Range?
  closed,   \* has close() been called on the transport?
  probe,    \* what became of the last probe
  queue,    \* requests waiting for the semaphore, in order
  phase,    \* where each request stands
  tries,    \* attempts made
  delay,    \* what is left of its sleep
  owed,     \* what is left of the time the server last asked it to wait
  outcome   \* how its last call ended

setting == <<backend, ranges, exposed>>
requestVars == <<queue, phase, tries, delay, owed, outcome>>
vars == <<setting, closed, probe, requestVars>>

Init ==
  /\ backend \in Backends
  /\ ranges \in {"always", "never", "sometimes"}
  /\ exposed \in BOOLEAN
  /\ closed = FALSE
  /\ probe = "none"
  /\ queue = <<>>
  /\ phase = [r \in Requests |-> "idle"]
  /\ tries = [r \in Requests |-> 0]
  /\ delay = [r \in Requests |-> 0]
  /\ owed = [r \in Requests |-> 0]
  /\ outcome = [r \in Requests |-> "none"]

-----------------------------------------------------------------------------
(* What the server sends.  A status, or instead of one:                    *)

Dropped == 0   \* the connection breaks, or is never made
TimedOut == 1  \* the client's timeout expires
CutOff == 2    \* a 206 whose body does not arrive in full

Statuses == {404, 429, 503, Dropped, TimedOut}
            \cup (IF ranges = "never" THEN {} ELSE {206, CutOff})
            \cup (IF ranges = "always" THEN {} ELSE {200})

-----------------------------------------------------------------------------
(* The probe.                                                              *)

Partial == {206, CutOff}
Failed(status) == status \in {Dropped, TimedOut} \/ status >= 400

AiohttpProbe(status) ==
  CASE Failed(status)     -> "network"
    [] status \in Partial -> "size"
    [] status = 200       -> "no-range-support"

PyfetchProbeUnchecked(status) ==
  CASE status \in {Dropped, TimedOut}     -> "network"
    [] status \in Partial /\ exposed      -> "size"
    [] status \in Partial /\ ~exposed     -> "content-range-hidden"
    [] status = 200 \/ status >= 400      -> "no-range-support"

\* A browser hides Content-Range unless the server exposes it.
PyfetchProbe(status) ==
  CASE Failed(status)                 -> "network"
    [] status \in Partial /\ exposed  -> "size"
    [] status \in Partial /\ ~exposed -> "content-range-hidden"
    [] status = 200                   -> "no-range-support"

UrllibProbe(status) ==
  CASE Failed(status)     -> "network"
    [] status \in Partial -> "size"
    [] status = 200       -> "no-range-support"

ProbeVerdict(status) ==
  CASE backend = "aiohttp" -> AiohttpProbe(status)
    [] backend = "pyfetch" -> PyfetchProbe(status)
    [] backend = "urllib"  -> UrllibProbe(status)

\* A file whose open() failed may be opened again.
Probe ==
  /\ probe \notin {"sent", "size"}
  /\ probe' = IF closed THEN "closed" ELSE "sent"
  /\ UNCHANGED <<setting, closed, requestVars>>

ProbeReply ==
  /\ probe = "sent"
  /\ \E status \in Statuses : probe' = ProbeVerdict(status)
  /\ UNCHANGED <<setting, closed, requestVars>>

-----------------------------------------------------------------------------
(* Range requests of an open file.                                         *)

Slots == IF backend = "urllib" THEN 1 ELSE MaxConcurrency

HoldersSentOnly == {r \in Requests : phase[r] = "sent"}
Holders == {r \in Requests : phase[r] \in {"sent", "backoff"}}

Fetch(r) ==
  /\ probe = "size"
  /\ phase[r] = "idle"
  /\ phase' = [phase EXCEPT ![r] = "queued"]
  /\ queue' = Append(queue, r)
  /\ outcome' = [outcome EXCEPT ![r] = "none"]
  /\ UNCHANGED <<setting, closed, probe, tries, delay, owed>>

\* The call of r is over and its slot or its place in the queue free.
End(r, how) ==
  /\ phase' = [phase EXCEPT ![r] = "idle"]
  /\ tries' = [tries EXCEPT ![r] = 0]
  /\ delay' = [delay EXCEPT ![r] = 0]
  /\ owed' = [owed EXCEPT ![r] = 0]
  /\ outcome' = [outcome EXCEPT ![r] = how]

Send(r) ==
  /\ phase' = [phase EXCEPT ![r] = "sent"]
  /\ tries' = [tries EXCEPT ![r] = @ + 1]
  /\ UNCHANGED <<delay, owed, outcome>>

\* _check_open, or the session's own check: "Session is closed".
RefusesAiohttpOnly == closed /\ backend = "aiohttp"
Refuses == closed

\* The semaphore lets the first in its queue in.
Start ==
  /\ queue # <<>>
  /\ Cardinality(Holders) < Slots
  /\ queue' = Tail(queue)
  /\ IF Refuses THEN End(Head(queue), "closed") ELSE Send(Head(queue))
  /\ UNCHANGED <<setting, closed, probe>>

\* What an attempt makes of the answer: "retry" is RetryableFetchError.
RetryableStatuses == {429, 500, 502, 503, 504}

AiohttpAttempt(status) ==
  CASE status \in RetryableStatuses \cup {Dropped, CutOff} -> "retry"
    [] status = 200                                        -> "no-range-support"
    [] status = 206                                        -> "bytes"
    [] OTHER                                               -> "network"

PyfetchAttempt(status) ==
  CASE status \in RetryableStatuses \cup {Dropped, TimedOut} -> "retry"
    [] status = 200                                          -> "no-range-support"
    [] status = 206                                          -> "bytes"
    [] OTHER                                                 -> "network"

UrllibAttempt(status) ==
  CASE status = 200 -> "no-range-support"
    [] status = 206 -> "bytes"
    [] OTHER        -> "network"

FetchVerdict(status) ==
  CASE backend = "aiohttp" -> AiohttpAttempt(status)
    [] backend = "pyfetch" -> PyfetchAttempt(status)
    [] backend = "urllib"  -> UrllibAttempt(status)

\* parse_retry_after; only a response has headers.
AsksToWait(status, header) == status \in RetryableStatuses /\ header # <<>>
Seconds(header) == IF header[1] < 0 THEN 0 ELSE header[1]

BackoffIgnoringHeader(r, status, header) == 2 ^ (tries[r] - 1)
Backoff(r, status, header) ==
  IF AsksToWait(status, header) THEN Seconds(header) ELSE 2 ^ (tries[r] - 1)

LastTryTooLate(r) == tries[r] > Attempts
LastTry(r) == tries[r] = Attempts

\* attempt() ends, and fetch_with_retries with it or not.
Reply(r) ==
  /\ phase[r] = "sent"
  /\ \E status \in Statuses, header \in RetryAfters :
       \/ FetchVerdict(status) # "retry" /\ End(r, FetchVerdict(status))
       \/ FetchVerdict(status) = "retry" /\ LastTry(r) /\ End(r, "network")
       \/ /\ FetchVerdict(status) = "retry" /\ ~LastTry(r)
          /\ phase' = [phase EXCEPT ![r] = "backoff"]
          /\ delay' = [delay EXCEPT ![r] = Backoff(r, status, header)]
          /\ owed' = [owed EXCEPT ![r] =
                        IF AsksToWait(status, header) THEN Seconds(header) ELSE 0]
          /\ UNCHANGED <<tries, outcome>>
  /\ UNCHANGED <<setting, closed, probe, queue>>

\* The next attempt: aiohttp's session raises when it is closed, pyfetch goes on.
ResendUncounted(r) ==
  /\ phase[r] = "backoff" /\ delay[r] = 0
  /\ phase' = [phase EXCEPT ![r] = "sent"]
  /\ UNCHANGED <<setting, closed, probe, queue, tries, delay, owed, outcome>>

Resend(r) ==
  /\ phase[r] = "backoff" /\ delay[r] = 0
  /\ IF closed /\ backend = "aiohttp" THEN End(r, "closed") ELSE Send(r)
  /\ UNCHANGED <<setting, closed, probe, queue>>

Cancel(r) ==
  /\ backend # "urllib"
  /\ phase[r] # "idle"
  /\ End(r, "cancelled")
  /\ IF phase[r] = "queued"
     THEN \E i \in DOMAIN queue : queue[i] = r /\ queue' = RemoveAt(queue, i)
     ELSE UNCHANGED queue
  /\ UNCHANGED <<setting, closed, probe>>

\* Nobody stops to wait for requests on their way; what they hear then is one
\* of the server's answers.
Close ==
  /\ backend # "urllib"
  /\ ~closed
  /\ closed' = TRUE
  /\ UNCHANGED <<setting, probe, requestVars>>

Less(n) == IF n = 0 THEN 0 ELSE n - 1

Tick ==
  /\ \E r \in Requests : delay[r] > 0
  /\ delay' = [r \in Requests |-> Less(delay[r])]
  /\ owed' = [r \in Requests |-> Less(owed[r])]
  /\ UNCHANGED <<setting, closed, probe, queue, phase, tries, outcome>>

-----------------------------------------------------------------------------

Next ==
  \/ Probe \/ ProbeReply \/ Start \/ Close \/ Tick
  \/ \E r \in Requests : Fetch(r) \/ Reply(r) \/ Resend(r) \/ Cancel(r)

\* The event loop runs what is ready, timers fire, and each attempt is answered,
\* if only by a timeout.
Fairness ==
  /\ WF_vars(ProbeReply) /\ WF_vars(Start) /\ WF_vars(Tick)
  /\ \A r \in Requests : WF_vars(Reply(r)) /\ WF_vars(Resend(r))

Spec == Init /\ [][Next]_vars /\ Fairness

-----------------------------------------------------------------------------
(* Properties.                                                             *)

ProbeOutcomes == {"network", "size", "no-range-support", "content-range-hidden", "closed"}
Outcomes == {"none", "bytes", "network", "no-range-support", "closed", "cancelled"}

\* Every variable keeps the shape its declaration gives it; the queue holds
\* each queued request once.
TypeOK ==
  /\ backend \in Backends /\ ranges \in {"always", "never", "sometimes"}
  /\ exposed \in BOOLEAN /\ closed \in BOOLEAN
  /\ probe \in {"none", "sent"} \cup ProbeOutcomes
  /\ phase \in [Requests -> {"idle", "queued", "sent", "backoff"}]
  /\ tries \in [Requests -> 0 .. Attempts]
  /\ delay \in [Requests -> Nat] /\ owed \in [Requests -> Nat]
  /\ outcome \in [Requests -> Outcomes]
  /\ queue \in Seq(Requests) /\ IsInjective(queue)
  /\ ToSet(queue) = {r \in Requests : phase[r] = "queued"}

\* "Transient network failures and 5xx/429 responses are never classified" as
\* missing range support, whatever attempt they come at: a client told so would
\* give up ranges for good.  The converse: no bytes and no size from a server
\* that ignores Range, and a hidden header is named as the reason only when it is.
BlameIsRight ==
  LET verdicts == {probe} \cup {outcome[r] : r \in Requests}
  IN  /\ "no-range-support" \in verdicts => ranges # "always"
      /\ "content-range-hidden" \in verdicts => ranges # "never" /\ ~exposed
      /\ {"size", "bytes"} \cap verdicts # {} => ranges # "never"

\* "a struggling server shouldn't see extra pressure while we're backing off":
\* a request that the server asked to wait, and that still goes on, counts
\* against max_concurrency until that time is over, as do those on their way.
NoExtraPressure ==
  LET sent == {r \in Requests : phase[r] = "sent"}
      waiting == {r \in Requests : owed[r] > 0}
  IN  sent \cap waiting = {} /\ Cardinality(sent \cup waiting) <= Slots

Reaches(r) == phase[r] # "sent" /\ phase'[r] = "sent"

\* Once the transport is closed nothing more reaches the server, with one
\* exception: a fetch of pyfetch between two attempts.  So neither do requests
\* that were already waiting for the semaphore.
QuietOnceClosed ==
  [][\A r \in Requests :
       closed /\ Reaches(r) => backend = "pyfetch" /\ phase[r] = "backoff"]_vars

\* A call ends, however often it is told to come back, however many are in front
\* of it, and whoever is cancelled meanwhile; a probe ends as well.
EveryRequestEnds ==
  /\ \A r \in Requests : phase[r] # "idle" ~> phase[r] = "idle"
  /\ probe = "sent" ~> probe # "sent"

=============================================================================
