------------------------------ MODULE FileObject ------------------------------
(***************************************************************************)
(* One HttpFile or AsyncHttpFile and the coroutines that open, read, seek, *)
(* clone and close it: who holds the transport and the cache of each       *)
(* open(), and where the cursors stand.                                    *)
(*                                                                         *)
(* An action is what one coroutine does between two suspensions; a call    *)
(* that changes nothing (one refused on a closed file, a read of nothing)  *)
(* is no action.  Abstracted: the bytes, which the caches bring or not     *)
(* (prefetch() is theirs alone), and validators.                           *)
(***************************************************************************)
EXTENDS Integers

CONSTANTS
  Callers,    \* coroutines that use the file
  Files,      \* what is constructed: the kind, prefetch_bytes, is it from the 'END'?
  Size,       \* of the remote file
  ReadSizes,  \* what read() is called with
  Offsets,    \* what seek() is called with
  MaxOpens    \* bound on the calls of open()

ASSUME FileAssumption ==
  /\ Files \subseteq [kind : {"owned", "injected", "sync"}, prefetch : Nat, end : BOOLEAN]
  /\ Size \in Nat
  /\ ReadSizes \subseteq Nat /\ Offsets \subseteq Int
  /\ MaxOpens \in Nat
  /\ Callers \cap Nat = {}  \* whose cursor is a caller's and which open()'s

VARIABLES
  file,       \* AsyncHttpFile with its own or an injected transport, or HttpFile
  opens,      \* how often open() has been called; each call is known by its number
  fate,       \* how each has ended
  transport,  \* the transport of each; 0 is the injected one
  cache,      \* the cache of each
  current,    \* whose cursor _cursor is (whose file _opened is); 0 for None
  pos,        \* where each cursor stands
  cloned,     \* callers that hold a cursor of their own
  shared,     \* cursors used by one call in the middle of another's
  pc,         \* what each caller is doing
  gen,        \* the open() it is about
  reading     \* the read it is in

kept == <<file, opens, cloned>>
vars == <<kept, fate, transport, cache, current, pos, shared, pc, gen, reading>>

Opens == 1 .. MaxOpens

\* The cursor made by an open(), and the one a caller has cloned.
Cursors == Opens \cup Callers

NoRead == [cursor |-> 0, from |-> 0, size |-> 0]
Min2(m, n) == IF m < n THEN m ELSE n
Max2(m, n) == IF m < n THEN n ELSE m

Init ==
  /\ file \in Files
  /\ opens = 0
  /\ fate = [g \in Opens |-> "none"]
  /\ transport = [g \in 0 .. MaxOpens |-> IF g = 0 THEN "open" ELSE "none"]
  /\ cache = [g \in Opens |-> "none"]
  /\ current = 0
  /\ pos = [k \in Cursors |-> 0]
  /\ cloned = {} /\ shared = {}
  /\ pc = [c \in Callers |-> "idle"]
  /\ gen = [c \in Callers |-> 0]
  /\ reading = [c \in Callers |-> NoRead]

Async == file.kind # "sync"
OwnsAnyTransport == Async
Owns == file.kind = "owned"
TransportOf(g) == IF file.kind = "injected" THEN 0 ELSE g

\* HttpFile runs one call at a time.
Free(c) == pc[c] = "idle" /\ (~Async => \A d \in Callers : pc[d] = "idle")
Anyone(states) == \E d \in Callers : pc[d] \in states

Goto(c, state) == pc' = [pc EXCEPT ![c] = state]
Leave(c) == Goto(c, "idle") /\ gen' = [gen EXCEPT ![c] = 0]
Ended(g, how) == fate' = [fate EXCEPT ![g] = how]

-----------------------------------------------------------------------------
(* open().                                                                 *)

\* create_transport, unless it refuses, and on to the probe.  One open() at a time,
\* and none while the file is being closed: the file is not made for it.
Open(c) ==
  /\ Free(c)
  /\ opens < MaxOpens
  /\ ~Anyone({"probing", "aborting", "prefetching", "closing"})
  /\ opens' = opens + 1
  /\ gen' = [gen EXCEPT ![c] = opens + 1]
  /\ transport' = [transport EXCEPT ![opens + 1] = IF Owns THEN "open" ELSE "none"]
  /\ Goto(c, "probing")
  /\ UNCHANGED <<file, fate, cache, current, pos, cloned, shared, reading>>

\* Only here does open() close what it has made.
ClosesOnProbeFailureNever == FALSE
ClosesOnProbeFailure == Owns

ProbeFails(c) ==
  /\ pc[c] = "probing"
  /\ Ended(gen[c], "failed")
  /\ IF ClosesOnProbeFailure THEN Goto(c, "aborting") /\ UNCHANGED gen ELSE Leave(c)
  /\ UNCHANGED <<kept, transport, cache, current, pos, shared, reading>>

AbortEnds(c) ==
  /\ pc[c] = "aborting"
  /\ transport' = [transport EXCEPT ![TransportOf(gen[c])] = "closed"]
  /\ Leave(c)
  /\ UNCHANGED <<kept, fate, cache, current, pos, shared, reading>>

\* Cancelled in the probe or the close() after it, which `except Exception` lets
\* pass; or the cache directory cannot be made.
OpenIsCut(c) ==
  /\ pc[c] \in {"probing", "aborting"}
  /\ Ended(gen[c], "cut")
  /\ Leave(c)
  /\ UNCHANGED <<kept, transport, cache, current, pos, shared, reading>>

PrefetchLength == Min2(file.prefetch, Size)
PrefetchFrom == IF file.end THEN Size - PrefetchLength ELSE 0

\* _cursor, or _opened, becomes that of open() number g; one it held is lost.
Hold(g, ended) ==
  /\ current' = g
  /\ fate' = [h \in Opens |-> IF h = g THEN ended
                              ELSE IF h = current THEN "replaced" ELSE fate[h]]

\* AsyncHttpFile prefetches as a read() of the cursor it has got by then.
ProbeAnswers(c) ==
  /\ Async
  /\ pc[c] = "probing"
  /\ cache' = [cache EXCEPT ![gen[c]] = "open"]
  /\ IF PrefetchLength = 0
     THEN /\ Hold(gen[c], "opened")
          /\ Leave(c)
          /\ UNCHANGED <<pos, reading>>
     ELSE /\ Hold(gen[c], "none")
          /\ Goto(c, "prefetching")
          /\ pos' = [pos EXCEPT ![gen[c]] = PrefetchFrom]
          /\ reading' = [reading EXCEPT ![c] =
               [cursor |-> gen[c], from |-> PrefetchFrom, size |-> PrefetchLength]]
          /\ UNCHANGED gen
  /\ UNCHANGED <<kept, transport, shared>>

\* seek(0) after the prefetch: self.cursor fails if the file has been closed meanwhile.
PrefetchReturnsRegardless(c) ==
  /\ Async
  /\ pc[c] = "prefetching"
  /\ Hold(gen[c], "opened") /\ pos' = [pos EXCEPT ![gen[c]] = 0]
  /\ Leave(c)
  /\ reading' = [reading EXCEPT ![c] = NoRead]
  /\ UNCHANGED <<kept, transport, cache, shared>>

PrefetchReturns(c) ==
  /\ Async
  /\ pc[c] = "prefetching"
  /\ IF current = 0
     THEN Ended(gen[c], "failed") /\ UNCHANGED <<current, pos>>
     ELSE Hold(gen[c], "opened") /\ pos' = [pos EXCEPT ![gen[c]] = 0]
  /\ Leave(c)
  /\ reading' = [reading EXCEPT ![c] = NoRead]
  /\ UNCHANGED <<kept, transport, cache, shared>>

PrefetchFails(c) ==
  /\ Async
  /\ pc[c] = "prefetching"
  /\ Ended(gen[c], "failed")
  /\ Leave(c)
  /\ reading' = [reading EXCEPT ![c] = NoRead]
  /\ UNCHANGED <<kept, transport, cache, current, pos, shared>>

\* HttpFile prefetches into the cache, and is open after that.
SizeArrives(c) ==
  /\ ~Async
  /\ pc[c] = "probing"
  /\ cache' = [cache EXCEPT ![gen[c]] = "open"]
  /\ IF PrefetchLength = 0
     THEN Hold(gen[c], "opened") /\ Leave(c)
     ELSE Goto(c, "prefetching") /\ UNCHANGED <<current, fate, gen>>
  /\ UNCHANGED <<kept, transport, pos, shared, reading>>

CachePrefetchEnds(c) ==
  /\ ~Async
  /\ pc[c] = "prefetching"
  /\ \/ Hold(gen[c], "opened")
     \/ Ended(gen[c], "cut") /\ UNCHANGED current
  /\ Leave(c)
  /\ UNCHANGED <<kept, transport, cache, pos, shared, reading>>

-----------------------------------------------------------------------------
(* Cursors.                                                                *)

\* The cursors c may use: its own, and the file's while it is open.
Reachable(c) == (cloned \cap {c}) \cup ({current} \ {0})

InUse(k, c) == \E d \in Callers \ {c} :
                 pc[d] \in {"reading", "prefetching"} /\ reading[d].cursor = k
Mark(k, c) == shared' = IF InUse(k, c) THEN shared \cup {k} ELSE shared

Clone(c) ==
  /\ Free(c)
  /\ Async /\ current # 0
  /\ cloned' = cloned \cup {c}
  /\ pos' = [pos EXCEPT ![c] = 0]
  /\ UNCHANGED <<file, opens, fate, transport, cache, current, shared, pc, gen, reading>>

\* Where the cursor is when read() is called is where it reads, later.  Without
\* a size, it reads the rest.
Read(c, k) ==
  /\ Free(c)
  /\ \E size \in ReadSizes \cup {Size - pos[k]} :
       /\ size > 0
       /\ reading' = [reading EXCEPT ![c] =
                        [cursor |-> k, from |-> pos[k], size |-> size]]
  /\ Mark(k, c)
  /\ Goto(c, "reading")
  /\ UNCHANGED <<kept, fate, transport, cache, current, pos, gen>>

\* How many bytes a read brings.
LengthAsked(r) == r.size
Length(r) == Max2(Min2(r.from + r.size, Size) - r.from, 0)

\* It adds to the position it finds then.
ReadReturns(c) ==
  /\ Async
  /\ pc[c] = "reading"
  /\ pos' = [pos EXCEPT ![reading[c].cursor] = @ + Length(reading[c])]
  /\ Goto(c, "idle")
  /\ reading' = [reading EXCEPT ![c] = NoRead]
  /\ UNCHANGED <<kept, fate, transport, cache, current, shared, gen>>

\* HttpFile.read sets the position to where it has read to.
ReadOfHttpFileReturns(c) ==
  /\ ~Async
  /\ pc[c] = "reading"
  /\ pos' = [pos EXCEPT ![reading[c].cursor] = Min2(reading[c].from + reading[c].size, Size)]
  /\ Goto(c, "idle")
  /\ reading' = [reading EXCEPT ![c] = NoRead]
  /\ UNCHANGED <<kept, fate, transport, cache, current, shared, gen>>

ReadFails(c) ==
  /\ pc[c] = "reading"
  /\ Goto(c, "idle")
  /\ reading' = [reading EXCEPT ![c] = NoRead]
  /\ UNCHANGED <<kept, fate, transport, cache, current, pos, shared, gen>>

ClampedBelow(n) == Max2(n, 0)
ClampedAbove(n) == Min2(n, Size)
Clamped(n) == Min2(Max2(n, 0), Size)

\* From the beginning, from where it stands, from the end.
Seek(c, k) ==
  /\ Free(c)
  /\ \E base \in {0, pos[k], Size}, offset \in Offsets :
       pos' = [pos EXCEPT ![k] = Clamped(base + offset)]
  /\ Mark(k, c)
  /\ UNCHANGED <<kept, fate, transport, cache, current, pc, gen, reading>>

-----------------------------------------------------------------------------
(* close().                                                                *)

\* It may come in the middle of reads, of an open() that prefetches, and of
\* another close().
MayClose(c) == Free(c) /\ current # 0 /\ ~Anyone({"probing", "aborting"})

\* The temporary directory goes at once, then it awaits its transport.
Close(c) ==
  /\ Owns
  /\ MayClose(c)
  /\ cache' = [cache EXCEPT ![current] = "closed"]
  /\ gen' = [gen EXCEPT ![c] = current]
  /\ Goto(c, "closing")
  /\ UNCHANGED <<kept, fate, transport, current, pos, shared, reading>>

\* Nothing to await: HttpFile, or an injected transport.
CloseAtOnce(c) ==
  /\ ~Owns
  /\ MayClose(c)
  /\ cache' = [cache EXCEPT ![current] = "closed"]
  /\ current' = 0
  /\ UNCHANGED <<kept, fate, transport, pos, shared, pc, gen, reading>>

CloseEnds(c) ==
  /\ pc[c] = "closing"
  /\ transport' = [transport EXCEPT ![TransportOf(gen[c])] = "closed"]
  /\ current' = 0
  /\ Leave(c)
  /\ UNCHANGED <<kept, fate, cache, pos, shared, reading>>

\* Cancelled, or the transport raises: _cursor stays.
CloseIsCut(c) ==
  /\ pc[c] = "closing"
  /\ Leave(c)
  /\ UNCHANGED <<kept, fate, transport, cache, current, pos, shared, reading>>

\* "second close is a no-op"
CloseAgain(c) ==
  /\ Free(c)
  /\ current = 0
  /\ UNCHANGED vars

-----------------------------------------------------------------------------

OpenStep(c) ==
  \/ Open(c) \/ ProbeFails(c) \/ AbortEnds(c) \/ OpenIsCut(c)
  \/ ProbeAnswers(c) \/ PrefetchReturns(c) \/ PrefetchFails(c)
  \/ SizeArrives(c) \/ CachePrefetchEnds(c)

CursorStep(c) ==
  \/ Clone(c) \/ ReadReturns(c) \/ ReadOfHttpFileReturns(c) \/ ReadFails(c)
  \/ \E k \in Reachable(c) : Read(c, k) \/ Seek(c, k)

CloseStep(c) ==
  Close(c) \/ CloseAtOnce(c) \/ CloseAgain(c) \/ CloseEnds(c) \/ CloseIsCut(c)

Next == \E c \in Callers : OpenStep(c) \/ CursorStep(c) \/ CloseStep(c)

Spec == Init /\ [][Next]_vars

-----------------------------------------------------------------------------
(* Properties.                                                             *)

\* Every variable keeps the shape its declaration gives it.
TypeOK ==
  /\ file \in Files /\ opens \in 0 .. MaxOpens
  /\ fate \in [Opens -> {"none", "opened", "failed", "cut", "replaced"}]
  /\ transport \in [0 .. MaxOpens -> {"none", "open", "closed"}]
  /\ cache \in [Opens -> {"none", "open", "closed"}]
  /\ current \in 0 .. opens
  /\ pos \in [Cursors -> Nat] /\ cloned \subseteq Callers /\ shared \subseteq Cursors
  /\ pc \in [Callers -> {"idle", "probing", "aborting", "prefetching", "reading", "closing"}]
  /\ gen \in [Callers -> 0 .. opens]
  /\ \A c \in Callers : pc[c] \notin {"reading", "prefetching"} => reading[c] = NoRead

\* The open() calls whose transport and cache somebody can still close.
InHand(g) ==
  \/ g = current
  \/ \E c \in Callers : gen[c] = g /\ pc[c] \in {"probing", "aborting", "prefetching", "closing"}

\* Ownership: an injected transport is never closed; and what an open() has made
\* is closed, is held by the file, or is in the hands of the call that makes or
\* closes it, whichever calls fail or are cancelled: except when open() itself
\* was cut off between the two, and when a second open() came without a close().
NothingElseLeaks ==
  /\ transport[0] = "open"
  /\ \A g \in Opens :
       transport[g] = "open" \/ cache[g] = "open" =>
         InHand(g) \/ fate[g] \in {"cut", "replaced"}

\* A cursor that no two calls used at once stands in the file, whatever it was
\* sought to and however much of the rest was asked for.
PositionsInFile ==
  \A k \in Cursors \ shared : pos[k] \in 0 .. Size

\* "Each cursor maintains independent position": on such a cursor a read that
\* brings bytes ends where those bytes end, and began where the one before had
\* ended, or the seek; and no call of another caller moves it in between, an
\* open() with its prefetch included.
ReadsFollowOneAnother ==
  [][\A c \in Callers :
       LET r == reading[c]
       IN  pc[c] = "reading" /\ pc'[c] = "idle" /\ r.cursor \notin shared =>
             pos[r.cursor] = r.from /\ pos'[r.cursor] \in {r.from, Min2(r.from + r.size, Size)}]_vars

\* The cursor the file offers can always be read through: its transport is open.
\* An open() that another caller's close() overtakes in its prefetch does not bring
\* its cursor back, a second close() leaves none behind whose transport the first has
\* closed, and an open() that fails closes what it has made and not what is in use.
OpenFileIsConnected ==
  Async /\ current # 0 => transport[TransportOf(current)] = "open"

\* "closed on `close()` (and on open failure)": when an open() has raised an
\* exception, the transport it made is not open.
FailedOpensCloseTheirs ==
  \A g \in Opens :
    fate[g] = "failed" /\ (\A c \in Callers : pc[c] = "aborting" => gen[c] # g) =>
      transport[g] # "open"

=============================================================================
