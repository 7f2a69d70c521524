--------------------------- MODULE FileObjectProofs ---------------------------
(***************************************************************************)
(* Safety of FileObject for any callers, kinds of file, sizes of the       *)
(* remote file, of reads and of seeks, and number of open() calls.         *)
(***************************************************************************)
EXTENDS FileObject, TLAPS

Busy == {"probing", "aborting", "prefetching", "closing"}
Reading == [cursor : {0} \cup Cursors, from : Nat, size : Nat]

-----------------------------------------------------------------------------
(* The inductive invariant.                                                *)

\* A call inside open() or close() knows which open() it is about, and a cursor
\* is used by the caller that has cloned it, or is the one some open() has made.
TypeInv ==
  /\ TypeOK
  /\ reading \in [Callers -> Reading]
  /\ \A c \in Callers :
       /\ pc[c] \in Busy => gen[c] \in 1 .. opens
       /\ pc[c] = "reading" => reading[c].cursor # 0
       /\ pc[c] = "prefetching" =>
            IF Async THEN reading[c].cursor = gen[c] ELSE reading[c] = NoRead

\* Who keeps whom out.
Exclusion ==
  \A c, d \in Callers : c # d =>
    /\ pc[c] \in {"probing", "aborting"} => pc[d] \notin Busy
    /\ pc[c] = "prefetching" => pc[d] # "prefetching"
    /\ ~Async /\ pc[c] # "idle" => pc[d] = "idle"

\* What an open() has not made yet, and what a close() has closed already.
MadeInOrder ==
  /\ \A g \in Opens : g > opens => cache[g] = "none"
  /\ \A g \in Opens : ~Owns => transport[g] = "none"
  /\ \A c \in Callers :
       /\ pc[c] \in {"probing", "aborting"} => cache[gen[c]] = "none"
       /\ pc[c] = "prefetching" => cache[gen[c]] # "none"
       /\ pc[c] \in {"aborting", "closing"} => Owns
       /\ pc[c] = "closing" => cache[gen[c]] = "closed"
       /\ pc[c] = "closing" \/ (pc[c] = "prefetching" /\ Async) =>
            \/ gen[c] = current
            \/ current = 0 /\ cache[gen[c]] # "open" /\ transport[gen[c]] # "open"
  /\ current # 0 => cache[current] # "none"

\* Where the cursors are, and who is about to move them.
CursorsApart ==
  /\ \A g \in Opens : cache[g] = "none" => pos[g] = 0
  /\ \A c \in Callers :
       /\ pc[c] = "prefetching" /\ ~Async => pos[gen[c]] = 0
       /\ reading[c].cursor \in {0, c} \cup {g \in Opens : cache[g] # "none"}
       /\ pc[c] = "reading" /\ reading[c].cursor \notin shared =>
            pos[reading[c].cursor] = reading[c].from
       /\ \A d \in Callers \ {c} :
            reading[c].cursor = reading[d].cursor => reading[c].cursor \in {0} \cup shared
  /\ PositionsInFile

IInv ==
  /\ TypeInv
  /\ Exclusion
  /\ MadeInOrder
  /\ NothingElseLeaks
  /\ CursorsApart

-----------------------------------------------------------------------------
(* Arithmetic of the cursors.                                              *)

LEMMA ClampFacts == \A n \in Int : Clamped(n) \in 0 .. Size
BY FileAssumption DEF Clamped, Min2, Max2

LEMMA PrefetchFacts ==
  ASSUME TypeOK
  PROVE  PrefetchLength \in 0 .. Size /\ PrefetchFrom \in 0 .. Size
<1>1. file.prefetch \in Nat
  BY FileAssumption DEF TypeOK
<1> QED
  BY <1>1, FileAssumption DEF PrefetchLength, PrefetchFrom, Min2

LEMMA LengthFacts ==
  ASSUME NEW r \in Reading
  PROVE  /\ Length(r) \in Nat
         /\ Min2(r.from + r.size, Size) \in 0 .. Size
         /\ r.from <= Size => r.from + Length(r) = Min2(r.from + r.size, Size)
<1>1. r.from \in Nat /\ r.size \in Nat
  BY DEF Reading
<1> QED
  BY <1>1, FileAssumption DEF Length, Min2, Max2

LEMMA OpensAreNoCallers ==
  /\ Opens \subseteq Nat \ {0} /\ \A c \in Callers : c \notin Opens /\ c # 0
  /\ 0 \notin Cursors
BY FileAssumption DEF Opens, Cursors

\* A cursor in reach is the caller's own or the file's.
LEMMA ReachableFacts ==
  ASSUME TypeOK, NEW c \in Callers, NEW k \in Reachable(c)
  PROVE  k \in Cursors /\ (k = c \/ (k = current /\ k \in Opens /\ k # 0))
BY FileAssumption DEF TypeOK, Reachable, Cursors, Opens

-----------------------------------------------------------------------------
(* Types.                                                                  *)

LEMMA InitTypes == Init => TypeInv
<1> SUFFICES ASSUME Init PROVE TypeInv
  OBVIOUS
<1>1. TypeOK
  BY FileAssumption DEF Init, TypeOK, Opens, Cursors
<1>2. NoRead \in Reading
  BY DEF NoRead, Reading
<1> QED
  BY <1>1, <1>2 DEF Init, TypeInv, Busy

LEMMA OpenTypes ==
  ASSUME TypeInv, NEW c \in Callers, OpenStep(c)
  PROVE  TypeInv'
<1> USE DEF TypeInv, TypeOK, Busy, Goto, Leave
<1>1. gen[c] \in 0 .. opens /\ opens \in 0 .. MaxOpens /\ (pc[c] \in Busy => gen[c] \in Opens)
  BY FileAssumption DEF Opens
<1>2. NoRead \in Reading
  BY DEF NoRead, Reading
<1>3. \A g \in Opens, how \in {"failed", "cut"} :
        Ended(g, how) => fate' \in [Opens -> {"none", "opened", "failed", "cut", "replaced"}]
  BY DEF Ended
<1>4. ASSUME NEW g \in Opens, NEW how \in {"none", "opened"}, g <= opens, Hold(g, how)
      PROVE  /\ fate' \in [Opens -> {"none", "opened", "failed", "cut", "replaced"}]
             /\ current' \in 0 .. opens
  BY <1>4, FileAssumption DEF Hold, Opens
<1>5. ASSUME Open(c) PROVE TypeInv'
  BY <1>1, <1>5, FileAssumption DEF Open, Free, Anyone, Async, Owns
<1>6. ASSUME ProbeFails(c) PROVE TypeInv'
  <2>1. fate' \in [Opens -> {"none", "opened", "failed", "cut", "replaced"}]
    BY <1>1, <1>3, <1>6 DEF ProbeFails
  <2>2. CASE pc' = [pc EXCEPT ![c] = "aborting"] /\ UNCHANGED gen
    BY <1>1, <1>6, <2>1, <2>2 DEF ProbeFails, kept, Async
  <2>3. CASE Leave(c)
    BY <1>1, <1>6, <2>1, <2>3 DEF ProbeFails, kept, Async
  <2> QED
    BY <1>6, <2>2, <2>3 DEF ProbeFails
<1>7. ASSUME OpenIsCut(c) PROVE TypeInv'
  BY <1>1, <1>3, <1>7 DEF OpenIsCut, kept, Async
<1>8. ASSUME AbortEnds(c) PROVE TypeInv'
  <2>1. transport' \in [0 .. MaxOpens -> {"none", "open", "closed"}]
    BY <1>8 DEF AbortEnds
  <2> QED
    BY <1>1, <1>8, <2>1 DEF AbortEnds, kept, Async
<1>9. ASSUME ProbeAnswers(c) PROVE TypeInv'
  <2>1. gen[c] \in Opens /\ gen[c] <= opens /\ gen[c] # 0
    BY <1>1, <1>9 DEF ProbeAnswers, Opens
  <2>2. /\ cache' \in [Opens -> {"none", "open", "closed"}]
        /\ fate' \in [Opens -> {"none", "opened", "failed", "cut", "replaced"}]
        /\ current' \in 0 .. opens
    BY <1>4, <1>9, <2>1 DEF ProbeAnswers
  <2>3. CASE PrefetchLength = 0
    <3>1. Leave(c) /\ UNCHANGED <<kept, pos, reading, transport, shared>>
      BY <1>9, <2>3 DEF ProbeAnswers
    <3> QED
      BY <1>1, <1>9, <2>2, <3>1 DEF ProbeAnswers, kept, Async
  <2>4. CASE PrefetchLength # 0
    <3>1. PrefetchFrom \in Nat /\ PrefetchLength \in Nat
      BY PrefetchFacts, FileAssumption
    <3> DEFINE r == [cursor |-> gen[c], from |-> PrefetchFrom, size |-> PrefetchLength]
    <3>2. /\ pos' = [pos EXCEPT ![gen[c]] = PrefetchFrom] /\ reading' = [reading EXCEPT ![c] = r]
          /\ pc' = [pc EXCEPT ![c] = "prefetching"] /\ UNCHANGED <<kept, gen, transport, shared>>
      BY <1>9, <2>4 DEF ProbeAnswers
    <3>3. r \in Reading /\ r.cursor = gen[c]
      BY <2>1, <3>1 DEF Reading, Cursors
    <3> HIDE DEF r
    <3>4. pos' \in [Cursors -> Nat] /\ reading' \in [Callers -> Reading]
      BY <3>1, <3>2, <3>3
    <3> QED
      BY <1>1, <1>9, <2>1, <2>2, <3>2, <3>3, <3>4 DEF ProbeAnswers, kept, Async
  <2> QED
    BY <2>3, <2>4
<1>10. ASSUME PrefetchReturns(c) PROVE TypeInv'
  <2>1. gen[c] \in Opens /\ gen[c] <= opens
    BY <1>1, <1>10 DEF PrefetchReturns, Opens
  <2>2. /\ fate' \in [Opens -> {"none", "opened", "failed", "cut", "replaced"}]
        /\ current' \in 0 .. opens /\ pos' \in [Cursors -> Nat]
    <3>1. CASE Ended(gen[c], "failed") /\ UNCHANGED <<current, pos>>
      BY <1>3, <2>1, <3>1
    <3>2. CASE Hold(gen[c], "opened") /\ pos' = [pos EXCEPT ![gen[c]] = 0]
      BY <1>4, <2>1, <3>2
    <3> QED
      BY <1>10, <3>1, <3>2 DEF PrefetchReturns
  <2> QED
    BY <1>1, <1>2, <1>10, <2>2 DEF PrefetchReturns, kept, Async
<1>11. ASSUME PrefetchFails(c) PROVE TypeInv'
  BY <1>1, <1>2, <1>3, <1>11 DEF PrefetchFails, kept, Async
<1>12. ASSUME SizeArrives(c) PROVE TypeInv'
  <2>1. gen[c] \in Opens /\ gen[c] <= opens
    BY <1>1, <1>12 DEF SizeArrives, Opens
  <2>2. /\ cache' \in [Opens -> {"none", "open", "closed"}]
        /\ fate' \in [Opens -> {"none", "opened", "failed", "cut", "replaced"}]
        /\ current' \in 0 .. opens
    BY <1>4, <1>12, <2>1 DEF SizeArrives
  <2>3. CASE Leave(c)
    BY <1>1, <1>12, <2>2, <2>3 DEF SizeArrives, kept, Async
  <2>4. CASE pc' = [pc EXCEPT ![c] = "prefetching"] /\ UNCHANGED gen
    BY <1>1, <1>12, <2>2, <2>4 DEF SizeArrives, kept, Async
  <2> QED
    BY <1>12, <2>3, <2>4 DEF SizeArrives
<1>13. ASSUME CachePrefetchEnds(c) PROVE TypeInv'
  <2>1. gen[c] \in Opens /\ gen[c] <= opens /\ reading[c] = NoRead
    BY <1>1, <1>13 DEF CachePrefetchEnds, Opens
  <2>2. /\ fate' \in [Opens -> {"none", "opened", "failed", "cut", "replaced"}]
        /\ current' \in 0 .. opens
    BY <1>3, <1>4, <1>13, <2>1 DEF CachePrefetchEnds
  <2> QED
    BY <1>1, <1>13, <2>1, <2>2 DEF CachePrefetchEnds, kept, Async
<1> QED
  BY <1>5, <1>6, <1>7, <1>8, <1>9, <1>10, <1>11, <1>12, <1>13 DEF OpenStep

LEMMA CursorTypes ==
  ASSUME TypeInv, NEW c \in Callers, CursorStep(c)
  PROVE  TypeInv'
<1> USE DEF TypeInv, TypeOK, Busy, Goto
<1>1. NoRead \in Reading
  BY DEF NoRead, Reading
<1>2. ASSUME Clone(c) PROVE TypeInv'
  BY <1>2 DEF Clone, Cursors, Async
<1>3. ASSUME ReadReturns(c) PROVE TypeInv'
  <2>1. Length(reading[c]) \in Nat
    BY LengthFacts
  <2>2. pos' \in [Cursors -> Nat]
    <3> DEFINE k == reading[c].cursor
               n == Length(reading[c])
    <3>1. pos' = [pos EXCEPT ![k] = @ + n] /\ n \in Nat
      BY <1>3, <2>1 DEF ReadReturns
    <3>2. k \in Cursors
      BY <1>3 DEF ReadReturns, Reading
    <3>3. pos[k] + n \in Nat
      BY <3>1, <3>2
    <3> HIDE DEF k, n
    <3> QED
      BY <3>1, <3>3
  <2> QED
    BY <1>1, <1>3, <2>2 DEF ReadReturns, kept, Async
<1>4. ASSUME ReadOfHttpFileReturns(c) PROVE TypeInv'
  <2>1. Min2(reading[c].from + reading[c].size, Size) \in Nat
    BY LengthFacts, FileAssumption
  <2>2. pos' \in [Cursors -> Nat]
    BY <1>4, <2>1 DEF ReadOfHttpFileReturns
  <2> QED
    BY <1>1, <1>4, <2>2 DEF ReadOfHttpFileReturns, kept, Async
<1>5. ASSUME ReadFails(c) PROVE TypeInv'
  BY <1>1, <1>5 DEF ReadFails, kept, Async
<1>6. ASSUME NEW k \in Reachable(c), Read(c, k) PROVE TypeInv'
  <2>1. k \in Cursors /\ k # 0 /\ pos[k] \in Nat
    BY ReachableFacts, OpensAreNoCallers
  <2>2. PICK size \in ReadSizes \cup {Size - pos[k]} :
          /\ size > 0
          /\ reading' = [reading EXCEPT ![c] = [cursor |-> k, from |-> pos[k], size |-> size]]
    BY <1>6 DEF Read
  <2>3. size \in Nat
    BY <2>1, <2>2, FileAssumption
  <2>4. reading' \in [Callers -> Reading] /\ reading'[c].cursor = k
    BY <2>1, <2>2, <2>3 DEF Reading
  <2>5. shared' \subseteq Cursors
    BY <1>6, <2>1 DEF Read, Mark
  <2> QED
    BY <1>6, <2>1, <2>2, <2>4, <2>5 DEF Read, Free, kept, Async
<1>7. ASSUME NEW k \in Reachable(c), Seek(c, k) PROVE TypeInv'
  <2>1. k \in Cursors /\ pos[k] \in Nat
    BY ReachableFacts
  <2>2. PICK base \in {0, pos[k], Size}, offset \in Offsets :
          pos' = [pos EXCEPT ![k] = Clamped(base + offset)]
    BY <1>7 DEF Seek
  <2>3. Clamped(base + offset) \in Nat
    BY <2>1, <2>2, ClampFacts, FileAssumption
  <2> QED
    BY <1>7, <2>1, <2>2, <2>3 DEF Seek, Mark, kept, Async
<1> QED
  BY <1>2, <1>3, <1>4, <1>5, <1>6, <1>7 DEF CursorStep

LEMMA CloseTypes ==
  ASSUME TypeInv, NEW c \in Callers, CloseStep(c)
  PROVE  TypeInv'
<1> USE DEF TypeInv, TypeOK, Busy, Goto, Leave
<1>1. ASSUME Close(c) PROVE TypeInv'
  BY <1>1, FileAssumption DEF Close, MayClose, Free, kept, Async, Opens
<1>2. ASSUME CloseAtOnce(c) PROVE TypeInv'
  BY <1>2, FileAssumption DEF CloseAtOnce, MayClose, Free, kept, Async, Opens
<1>3. ASSUME CloseEnds(c) PROVE TypeInv'
  BY <1>3, FileAssumption DEF CloseEnds, TransportOf, kept, Async
<1>4. ASSUME CloseIsCut(c) PROVE TypeInv'
  BY <1>4 DEF CloseIsCut, kept, Async
<1>5. ASSUME CloseAgain(c) PROVE TypeInv'
  BY <1>5 DEF CloseAgain, vars, kept, Async
<1> QED
  BY <1>1, <1>2, <1>3, <1>4, <1>5 DEF CloseStep

-----------------------------------------------------------------------------
(* Who keeps whom out.                                                     *)

\* A caller that starts has found room to; one that goes on was let in before.
LEMMA StepExclusion ==
  ASSUME TypeInv, Exclusion, NEW c \in Callers, OpenStep(c) \/ CursorStep(c) \/ CloseStep(c)
  PROVE  Exclusion'
<1> USE DEF TypeInv, TypeOK, Busy, Goto, Leave
<1>1. (Async' <=> Async) /\ \A d \in Callers \ {c} : pc'[d] = pc[d]
  <2>1. CASE OpenStep(c)
    BY <2>1 DEF OpenStep, Open, ProbeFails, AbortEnds, OpenIsCut, ProbeAnswers, PrefetchReturns,
                PrefetchFails, SizeArrives, CachePrefetchEnds, Async, kept
  <2>2. CASE CursorStep(c)
    BY <2>2 DEF CursorStep, Clone, ReadReturns, ReadOfHttpFileReturns, ReadFails, Read, Seek,
                Async, kept
  <2>3. CASE CloseStep(c)
    BY <2>3 DEF CloseStep, Close, CloseAtOnce, CloseAgain, CloseEnds, CloseIsCut, Async, kept, vars
  <2> QED
    BY <2>1, <2>2, <2>3
<1>2. \/ pc'[c] \in {pc[c], "idle"}
      \/ pc[c] = "probing" /\ pc'[c] \in {"aborting", "prefetching"}
      \/ Free(c) /\ pc'[c] = "probing" /\ ~Anyone(Busy)
      \/ Free(c) /\ pc'[c] = "reading"
      \/ Free(c) /\ pc'[c] = "closing" /\ ~Anyone({"probing", "aborting"})
  <2>1. CASE OpenStep(c)
    BY <2>1 DEF OpenStep, Open, ProbeFails, AbortEnds, OpenIsCut, ProbeAnswers, PrefetchReturns,
                PrefetchFails, SizeArrives, CachePrefetchEnds
  <2>2. CASE CursorStep(c)
    BY <2>2 DEF CursorStep, Clone, ReadReturns, ReadOfHttpFileReturns, ReadFails, Read, Seek
  <2>3. CASE CloseStep(c)
    BY <2>3 DEF CloseStep, Close, CloseAtOnce, CloseAgain, CloseEnds, CloseIsCut, MayClose, vars
  <2> QED
    BY <2>1, <2>2, <2>3
<1> QED
  BY <1>1, <1>2 DEF Exclusion, Free, Anyone

-----------------------------------------------------------------------------
(* What has been made, and who can close it.                               *)

\* Without the guards of Open and MayClose, a call in the middle of an open() or a
\* close() would find the cursor of another one in _cursor, and leave or lose it.
LEMMA OpenHolds ==
  ASSUME IInv, TypeInv', NEW c \in Callers, OpenStep(c)
  PROVE  MadeInOrder' /\ NothingElseLeaks'
<1> USE DEF IInv, MadeInOrder, NothingElseLeaks, InHand, Busy
<1>1. /\ opens \in 0 .. MaxOpens /\ current \in 0 .. opens /\ gen \in [Callers -> 0 .. opens]
      /\ \A d \in Callers : pc[d] \in Busy => gen[d] \in 1 .. opens /\ gen[d] \in Opens
      /\ \A g \in Opens : g \in 1 .. MaxOpens
  BY FileAssumption DEF TypeInv, TypeOK, Opens
<1>2. /\ transport \in [0 .. MaxOpens -> {"none", "open", "closed"}]
      /\ cache \in [Opens -> {"none", "open", "closed"}]
      /\ pc \in [Callers -> {"idle", "probing", "aborting", "prefetching", "reading", "closing"}]
      /\ fate \in [Opens -> {"none", "opened", "failed", "cut", "replaced"}]
  BY DEF TypeInv, TypeOK
<1>3. ASSUME Open(c) PROVE MadeInOrder' /\ NothingElseLeaks'
  BY <1>1, <1>2, <1>3, FileAssumption DEF Open, Free, Anyone, Goto, Owns, Async, Opens
<1>4. ASSUME ProbeFails(c) PROVE MadeInOrder' /\ NothingElseLeaks'
  BY <1>1, <1>2, <1>4 DEF ProbeFails, ClosesOnProbeFailure, Goto, Leave, Ended, Owns, Async, kept
<1>5. ASSUME AbortEnds(c) PROVE MadeInOrder' /\ NothingElseLeaks'
  BY <1>1, <1>2, <1>5 DEF AbortEnds, TransportOf, Goto, Leave, Owns, Async, kept
<1>6. ASSUME OpenIsCut(c) PROVE MadeInOrder' /\ NothingElseLeaks'
  BY <1>1, <1>2, <1>6 DEF OpenIsCut, Goto, Leave, Ended, Owns, Async, kept
<1>7. ASSUME ProbeAnswers(c) PROVE MadeInOrder' /\ NothingElseLeaks'
  BY <1>1, <1>2, <1>7 DEF ProbeAnswers, Hold, Goto, Leave, Owns, Async, kept, Exclusion
<1>8. ASSUME PrefetchReturns(c) PROVE MadeInOrder' /\ NothingElseLeaks'
  <2>1. /\ pc[c] = "prefetching" /\ Async /\ Leave(c)
        /\ UNCHANGED <<kept, transport, cache>>
        /\ gen[c] = current \/ current = 0
    BY <1>8 DEF PrefetchReturns
  <2>2. CASE current = 0
    <3>1. Ended(gen[c], "failed") /\ current' = 0
      BY <1>8, <2>2 DEF PrefetchReturns
    <3> QED
      BY <1>1, <1>2, <2>1, <2>2, <3>1 DEF Goto, Leave, Ended, Owns, Async, kept
  <2>3. CASE current # 0
    <3>1. current' = current /\ \A g \in Opens \ {current} : fate'[g] = fate[g]
      BY <1>8, <2>1, <2>3 DEF PrefetchReturns, Hold
    <3> QED
      BY <1>1, <1>2, <2>1, <2>3, <3>1 DEF Goto, Leave, Owns, Async, kept
  <2> QED
    BY <2>2, <2>3
<1>9. ASSUME PrefetchFails(c) PROVE MadeInOrder' /\ NothingElseLeaks'
  BY <1>1, <1>2, <1>9 DEF PrefetchFails, Goto, Leave, Ended, Owns, Async, kept, Exclusion
<1>10. ASSUME SizeArrives(c) PROVE MadeInOrder' /\ NothingElseLeaks'
  BY <1>1, <1>2, <1>10 DEF SizeArrives, Hold, Goto, Leave, Owns, Async, kept, Exclusion
<1>11. ASSUME CachePrefetchEnds(c) PROVE MadeInOrder' /\ NothingElseLeaks'
  <2>1. /\ pc[c] = "prefetching" /\ ~Async /\ Leave(c)
        /\ UNCHANGED <<kept, transport, cache>>
        /\ \A d \in Callers \ {c} : pc[d] = "idle"
    BY <1>11 DEF CachePrefetchEnds, Exclusion
  <2>2. CASE Hold(gen[c], "opened")
    BY <1>1, <1>2, <2>1, <2>2 DEF Hold, Goto, Leave, Owns, Async, kept
  <2>3. CASE Ended(gen[c], "cut") /\ UNCHANGED current
    BY <1>1, <1>2, <2>1, <2>3 DEF Ended, Goto, Leave, Owns, Async, kept
  <2> QED
    BY <1>11, <2>2, <2>3 DEF CachePrefetchEnds
<1> QED
  BY <1>3, <1>4, <1>5, <1>6, <1>7, <1>8, <1>9, <1>10, <1>11 DEF OpenStep

LEMMA CursorHolds ==
  ASSUME IInv, TypeInv', NEW c \in Callers, CursorStep(c)
  PROVE  MadeInOrder' /\ NothingElseLeaks'
<1>1. /\ UNCHANGED <<file, opens, fate, transport, cache, current, gen>>
      /\ \A d \in Callers \ {c} : pc'[d] = pc[d]
      /\ pc[c] \in {"idle", "reading"} /\ pc'[c] \in {"idle", "reading"}
  BY DEF CursorStep, Clone, ReadReturns, ReadOfHttpFileReturns, ReadFails, Read, Seek, Free, Goto,
         kept, IInv, TypeInv, TypeOK
<1> QED
  BY <1>1 DEF IInv, MadeInOrder, NothingElseLeaks, InHand, Owns, Async

LEMMA CloseHolds ==
  ASSUME IInv, TypeInv', NEW c \in Callers, CloseStep(c)
  PROVE  MadeInOrder' /\ NothingElseLeaks'
<1> USE DEF IInv, MadeInOrder, NothingElseLeaks, InHand, Busy
<1>1. /\ opens \in 0 .. MaxOpens /\ current \in 0 .. opens /\ gen \in [Callers -> 0 .. opens]
      /\ \A d \in Callers : pc[d] \in Busy => gen[d] \in 1 .. opens /\ gen[d] \in Opens
      /\ \A g \in Opens : g \in 1 .. MaxOpens
  BY FileAssumption DEF TypeInv, TypeOK, Opens
<1>2. /\ transport \in [0 .. MaxOpens -> {"none", "open", "closed"}]
      /\ cache \in [Opens -> {"none", "open", "closed"}]
      /\ pc \in [Callers -> {"idle", "probing", "aborting", "prefetching", "reading", "closing"}]
  BY DEF TypeInv, TypeOK
<1>3. ASSUME Close(c) PROVE MadeInOrder' /\ NothingElseLeaks'
  <2>1. /\ Owns /\ pc[c] = "idle" /\ current \in Opens
        /\ cache' = [cache EXCEPT ![current] = "closed"]
        /\ gen' = [gen EXCEPT ![c] = current] /\ pc' = [pc EXCEPT ![c] = "closing"]
        /\ \A d \in Callers : pc[d] \notin {"probing", "aborting"}
        /\ UNCHANGED <<kept, fate, transport, current>>
    BY <1>1, <1>3, FileAssumption DEF Close, MayClose, Anyone, Free, Goto, Opens
  <2>2. MadeInOrder'
    BY <1>1, <1>2, <2>1 DEF Owns, Async, kept
  <2>3. NothingElseLeaks'
    BY <1>1, <1>2, <2>1 DEF kept
  <2> QED
    BY <2>2, <2>3
<1>4. ASSUME CloseAtOnce(c) PROVE MadeInOrder' /\ NothingElseLeaks'
  BY <1>1, <1>2, <1>4 DEF CloseAtOnce, MayClose, Anyone, Free, Owns, Async, kept, Opens
<1>5. ASSUME CloseEnds(c) PROVE MadeInOrder' /\ NothingElseLeaks'
  BY <1>1, <1>2, <1>5 DEF CloseEnds, TransportOf, Goto, Leave, Owns, Async, kept
<1>6. ASSUME CloseIsCut(c) PROVE MadeInOrder' /\ NothingElseLeaks'
  BY <1>1, <1>2, <1>6 DEF CloseIsCut, Goto, Leave, Owns, Async, kept
<1>7. ASSUME CloseAgain(c) PROVE MadeInOrder' /\ NothingElseLeaks'
  BY <1>7 DEF CloseAgain, vars, kept, Owns, Async
<1> QED
  BY <1>3, <1>4, <1>5, <1>6, <1>7 DEF CloseStep

-----------------------------------------------------------------------------
(* Where the cursors are.                                                  *)

\* open() moves the cursor it makes, which nobody has seen yet, and at the end of its
\* prefetch the one it has made, which others may have found in _cursor meanwhile.
LEMMA OpenApart ==
  ASSUME IInv, TypeInv', NEW c \in Callers, OpenStep(c)
  PROVE  CursorsApart'
<1> USE DEF IInv, CursorsApart, PositionsInFile
<1>1. /\ \A d \in Callers : gen[d] \in 0 .. opens /\ (pc[d] \in Busy => gen[d] \in Opens)
      /\ pos \in [Cursors -> Nat] /\ cache \in [Opens -> {"none", "open", "closed"}]
      /\ reading \in [Callers -> Reading] /\ shared \subseteq Cursors
      /\ Opens \subseteq Cursors /\ Callers \subseteq Cursors /\ 0 \notin Cursors
      /\ opens \in 0 .. MaxOpens
  BY FileAssumption, OpensAreNoCallers, SMTT(30) DEF TypeInv, TypeOK, Opens, Cursors
<1>2. pc \in [Callers -> {"idle", "probing", "aborting", "prefetching", "reading", "closing"}]
  BY DEF TypeInv, TypeOK
<1>3. NoRead.cursor = 0
  BY DEF NoRead
<1>4. ASSUME Open(c) PROVE CursorsApart'
  BY <1>1, <1>2, <1>4 DEF Open, Goto, Async
<1>5. ASSUME ProbeFails(c) \/ AbortEnds(c) \/ OpenIsCut(c) PROVE CursorsApart'
  <2>1. /\ UNCHANGED <<file, cache, pos, shared, reading>>
        /\ \A d \in Callers : pc'[d] # pc[d] => pc'[d] \in {"idle", "aborting"}
        /\ \A d \in Callers \ {c} : gen'[d] = gen[d] /\ pc'[d] = pc[d]
        /\ pc[c] # "prefetching"
    BY <1>2, <1>5 DEF ProbeFails, AbortEnds, OpenIsCut, Goto, Leave, kept, TypeInv, TypeOK
  <2> QED
    BY <2>1 DEF Async
<1>6. ASSUME ProbeAnswers(c) PROVE CursorsApart'
  <2> DEFINE g == gen[c]
  <2>1. /\ g \in Opens /\ cache[g] = "none" /\ Async /\ pc[c] = "probing"
        /\ cache' = [cache EXCEPT ![g] = "open"] /\ UNCHANGED <<kept, shared>>
        /\ \A d \in Callers \ {c} : gen'[d] = gen[d] /\ pc'[d] = pc[d]
        /\ \A d \in Callers : reading[d].cursor # g
    BY <1>1, <1>2, <1>6, OpensAreNoCallers, SMTT(30)
       DEF ProbeAnswers, Goto, Leave, Busy, MadeInOrder, TypeInv, TypeOK
  <2>2. CASE PrefetchLength = 0
    BY <1>1, <1>2, <1>6, <2>1, <2>2 DEF ProbeAnswers, Goto, Leave, kept, Async
  <2>3. CASE PrefetchLength # 0
    <3>1. /\ pos' = [pos EXCEPT ![g] = PrefetchFrom] /\ PrefetchFrom \in 0 .. Size
          /\ pc'[c] = "prefetching"
          /\ \A d \in Callers \ {c} : reading'[d] = reading[d]
          /\ reading'[c].cursor = g
      BY <1>1, <1>2, <1>6, <2>3, PrefetchFacts DEF ProbeAnswers, Goto, TypeInv
    <3> HIDE DEF g
    <3> QED
      BY <1>1, <2>1, <3>1 DEF kept, Async
  <2> QED
    BY <2>2, <2>3
<1>7. ASSUME PrefetchReturns(c) PROVE CursorsApart'
  <2> DEFINE g == gen[c]
  <2>1. /\ g \in Opens /\ cache[g] # "none" /\ Async /\ reading[c].cursor = g
        /\ reading' = [reading EXCEPT ![c] = NoRead]
        /\ pc' = [pc EXCEPT ![c] = "idle"] /\ UNCHANGED <<kept, cache, shared>>
        /\ pos' = pos \/ pos' = [pos EXCEPT ![g] = 0]
        /\ \A d \in Callers \ {c} : gen'[d] = gen[d]
    BY <1>1, <1>7 DEF PrefetchReturns, Goto, Leave, Busy, MadeInOrder, TypeInv, TypeOK
  <2>2. 0 \in 0 .. Size
    BY FileAssumption
  <2> HIDE DEF g
  <2>3. \A d \in Callers \ {c} : pc'[d] = pc[d] /\ reading'[d] = reading[d]
    BY <1>1, <1>2, <2>1
  <2>4. pc'[c] = "idle" /\ reading'[c].cursor = 0
    BY <1>1, <1>2, <1>3, <2>1
  <2>5. \A d \in Callers \ {c} :
          pc[d] = "reading" /\ reading[d].cursor \notin shared =>
            pos'[reading[d].cursor] = pos[reading[d].cursor]
    BY <1>1, <2>1 DEF TypeInv, Reading
  <2>6. /\ \A k \in Cursors \ shared : pos'[k] \in 0 .. Size
        /\ \A h \in Opens : cache[h] = "none" => pos'[h] = 0
    BY <1>1, <2>1, <2>2
  <2> QED
    BY <2>1, <2>3, <2>4, <2>5, <2>6 DEF kept, Async
<1>8. ASSUME PrefetchFails(c) PROVE CursorsApart'
  BY <1>1, <1>2, <1>3, <1>8 DEF PrefetchFails, Goto, Leave, kept, Async
<1>9. ASSUME SizeArrives(c) PROVE CursorsApart'
  <2>1. /\ gen[c] \in Opens /\ pos[gen[c]] = 0 /\ ~Async
        /\ cache' = [cache EXCEPT ![gen[c]] = "open"]
        /\ UNCHANGED <<kept, pos, shared, reading>>
        /\ pc'[c] \in {"idle", "prefetching"} /\ (pc'[c] = "prefetching" => gen'[c] = gen[c])
        /\ \A d \in Callers \ {c} : pc'[d] = pc[d] /\ gen'[d] = gen[d]
    BY <1>1, <1>2, <1>9 DEF SizeArrives, Goto, Leave, Busy, MadeInOrder, TypeInv, TypeOK
  <2> QED
    BY <1>1, <2>1 DEF kept, Async
<1>10. ASSUME CachePrefetchEnds(c) PROVE CursorsApart'
  BY <1>1, <1>2, <1>10 DEF CachePrefetchEnds, Goto, Leave, kept, Async
<1> QED
  BY <1>4, <1>5, <1>6, <1>7, <1>8, <1>9, <1>10 DEF OpenStep

\* A cursor moves under a read only if it was marked as shared, by the later of the
\* two calls; and where it goes, by reading and by seeking, is in the file.
LEMMA CursorApart ==
  ASSUME IInv, TypeInv', NEW c \in Callers, CursorStep(c)
  PROVE  CursorsApart'
<1> USE DEF IInv, CursorsApart, PositionsInFile
<1>1. /\ pos \in [Cursors -> Nat] /\ reading \in [Callers -> Reading] /\ shared \subseteq Cursors
      /\ Opens \subseteq Cursors /\ Callers \subseteq Cursors /\ 0 \notin Cursors
      /\ \A d \in Callers : d \notin Opens
      /\ pc \in [Callers -> {"idle", "probing", "aborting", "prefetching", "reading", "closing"}]
      /\ Size \in Nat
  BY FileAssumption, OpensAreNoCallers DEF TypeInv, TypeOK, Cursors
<1>2. NoRead.cursor = 0
  BY DEF NoRead
<1>3. /\ \A d \in Callers : pc[d] = "idle" => reading[d].cursor = 0
      /\ \A d \in Callers : pc[d] = "reading" => reading[d].cursor \in Cursors
      /\ \A d \in Callers : pc[d] \notin {"reading", "prefetching"} => reading[d].cursor = 0
  BY <1>1, <1>2 DEF TypeInv, TypeOK, Reading
<1>4. /\ UNCHANGED <<file, cache, gen>>
      /\ \A d \in Callers \ {c} : pc'[d] = pc[d] /\ reading'[d] = reading[d]
  BY <1>1 DEF CursorStep, Clone, ReadReturns, ReadOfHttpFileReturns, ReadFails, Read, Seek, Free,
              Goto, kept
\* A read that is over: its cursor stands where it ends, if at all it moves.
<1>5. ASSUME pc[c] = "reading", pc'[c] = "idle", reading'[c] = NoRead, UNCHANGED shared,
             NEW n \in Nat, pos' = [pos EXCEPT ![reading[c].cursor] = n],
             reading[c].cursor \notin shared => n \in 0 .. Size
      PROVE  CursorsApart'
  <2> DEFINE k == reading[c].cursor
  <2>1. k \in Cursors /\ k \in {c} \cup {g \in Opens : cache[g] # "none"}
    BY <1>1, <1>3, <1>5
  <2>2. \A d \in Callers \ {c} :
          pc[d] = "reading" /\ reading[d].cursor \notin shared =>
            pos'[reading[d].cursor] = pos[reading[d].cursor]
    BY <1>1, <1>3, <1>5, <2>1
  <2>3. /\ \A h \in Cursors \ shared : pos'[h] \in 0 .. Size
        /\ \A h \in Opens : cache[h] = "none" => pos'[h] = 0
    BY <1>1, <1>5, <2>1
  <2>4. \A d \in Callers : pc'[d] = "prefetching" /\ ~Async => pos'[gen[d]] = 0
    BY <1>1, <1>4, <1>5 DEF Exclusion
  <2> QED
    BY <1>2, <1>4, <1>5, <2>2, <2>3, <2>4 DEF Async
<1>6. ASSUME Clone(c) PROVE CursorsApart'
  <2>1. pos' = [pos EXCEPT ![c] = 0] /\ UNCHANGED <<shared, pc, reading>> /\ pc[c] = "idle" /\ Async
    BY <1>6 DEF Clone, Free
  <2>2. \A d \in Callers : reading[d].cursor # c
    BY <1>1, <1>3, <2>1
  <2> QED
    BY <1>1, <1>3, <1>4, <2>1, <2>2 DEF Async
<1>7. ASSUME ReadReturns(c) PROVE CursorsApart'
  <2> DEFINE n == pos[reading[c].cursor] + Length(reading[c])
  <2>1. /\ pos' = [pos EXCEPT ![reading[c].cursor] = n]
        /\ pc[c] = "reading" /\ pc'[c] = "idle" /\ reading'[c] = NoRead /\ UNCHANGED shared
    BY <1>1, <1>7 DEF ReadReturns, Goto
  <2>2. reading[c] \in Reading /\ reading[c].cursor \in Cursors /\ pos[reading[c].cursor] \in Nat
    BY <1>1, <1>3, <2>1
  <2>3. n \in Nat
    BY <2>2, LengthFacts
  <2>4. ASSUME reading[c].cursor \notin shared PROVE n \in 0 .. Size
    <3>1. pos[reading[c].cursor] = reading[c].from /\ reading[c].from \in 0 .. Size
      BY <2>1, <2>2, <2>4
    <3>2. reading[c].from <= Size
      BY <1>1, <3>1
    <3> QED
      BY <2>2, <3>1, <3>2, LengthFacts
  <2> HIDE DEF n
  <2> QED
    BY <1>5, <2>1, <2>3, <2>4
<1>8. ASSUME ReadOfHttpFileReturns(c) PROVE CursorsApart'
  <2> DEFINE n == Min2(reading[c].from + reading[c].size, Size)
  <2>1. /\ pos' = [pos EXCEPT ![reading[c].cursor] = n]
        /\ pc[c] = "reading" /\ pc'[c] = "idle" /\ reading'[c] = NoRead /\ UNCHANGED shared
    BY <1>1, <1>8 DEF ReadOfHttpFileReturns, Goto
  <2>2. n \in 0 .. Size
    BY <1>1, LengthFacts
  <2>3. n \in Nat
    BY <1>1, <2>2
  <2> HIDE DEF n
  <2> QED
    BY <1>5, <2>1, <2>2, <2>3
<1>9. ASSUME ReadFails(c) PROVE CursorsApart'
  <2>1. /\ pc[c] = "reading" /\ pc'[c] = "idle" /\ reading'[c] = NoRead
        /\ UNCHANGED <<shared, pos>>
    BY <1>1, <1>9 DEF ReadFails, Goto
  <2> QED
    BY <1>2, <1>4, <2>1 DEF Async
<1>10. ASSUME NEW k \in Reachable(c), Read(c, k) PROVE CursorsApart'
  <2>1. k \in Cursors /\ k \in {c} \cup {g \in Opens : cache[g] # "none"}
    BY <1>1, ReachableFacts DEF MadeInOrder, TypeInv
  <2>2. /\ pc[c] = "idle" /\ pc'[c] = "reading" /\ UNCHANGED pos
        /\ reading'[c].cursor = k /\ reading'[c].from = pos[k]
        /\ shared' = IF InUse(k, c) THEN shared \cup {k} ELSE shared
    BY <1>1, <1>10 DEF Read, Mark, Free, Goto
  <2>3. ASSUME NEW d \in Callers \ {c}, reading[d].cursor = k
        PROVE  k \in shared'
    <3>1. pc[d] \in {"reading", "prefetching"}
      BY <1>1, <1>3, <2>1, <2>3
    <3> QED
      BY <2>2, <2>3, <3>1 DEF InUse
  <2>4. shared \subseteq shared'
    BY <2>2
  <2> QED
    BY <1>1, <1>4, <2>1, <2>2, <2>3, <2>4 DEF Async
<1>11. ASSUME NEW k \in Reachable(c), Seek(c, k) PROVE CursorsApart'
  <2>1. k \in Cursors /\ k \in {c} \cup {g \in Opens : cache[g] # "none"} /\ pos[k] \in Nat
    BY <1>1, ReachableFacts DEF MadeInOrder, TypeInv
  <2>2. PICK base \in {0, pos[k], Size}, offset \in Offsets :
          pos' = [pos EXCEPT ![k] = Clamped(base + offset)]
    BY <1>11 DEF Seek
  <2> DEFINE n == Clamped(base + offset)
  <2>3. n \in 0 .. Size
    BY <1>1, <2>1, ClampFacts, FileAssumption
  <2>4. pos' = [pos EXCEPT ![k] = n]
    BY <2>2
  <2> HIDE DEF n
  <2>5. /\ pc[c] = "idle" /\ UNCHANGED <<pc, reading>>
        /\ shared' = IF InUse(k, c) THEN shared \cup {k} ELSE shared
        /\ \A d \in Callers \ {c} : ~Async => pc[d] = "idle"
    BY <1>11 DEF Seek, Mark, Free
  <2>6. ASSUME NEW d \in Callers, reading[d].cursor = k
        PROVE  k \in shared'
    <3>1. pc[d] \in {"reading", "prefetching"} /\ d # c
      BY <1>1, <1>3, <2>1, <2>5, <2>6
    <3> QED
      BY <2>5, <2>6, <3>1 DEF InUse
  <2>7. shared \subseteq shared'
    BY <2>5
  <2>8. \A h \in Cursors \ {k} : pos'[h] = pos[h]
    BY <1>1, <2>4
  <2>9. /\ \A h \in Cursors \ shared' : pos'[h] \in 0 .. Size
        /\ \A h \in Opens : cache[h] = "none" => pos'[h] = 0
    BY <1>1, <2>1, <2>3, <2>4, <2>7
  <2>10. \A d \in Callers : ~(pc'[d] = "prefetching" /\ ~Async')
    BY <1>4, <2>5 DEF Async
  <2>11. \A d \in Callers :
           pc'[d] = "reading" /\ reading'[d].cursor \notin shared' =>
             pos'[reading'[d].cursor] = reading'[d].from
    BY <1>3, <2>5, <2>6, <2>7, <2>8
  <2> QED
    BY <1>4, <2>5, <2>7, <2>9, <2>10, <2>11
<1> QED
  BY <1>6, <1>7, <1>8, <1>9, <1>10, <1>11 DEF CursorStep

LEMMA CloseApart ==
  ASSUME IInv, TypeInv', NEW c \in Callers, CloseStep(c)
  PROVE  CursorsApart'
<1>1. /\ UNCHANGED <<file, pos, shared, reading>>
      /\ \A g \in Opens : cache'[g] = "none" <=> cache[g] = "none"
      /\ \A d \in Callers : pc'[d] # pc[d] => pc'[d] \in {"idle", "closing"}
      /\ \A d \in Callers : pc[d] = "prefetching" => gen'[d] = gen[d]
  <2>1. current # 0 => cache[current] # "none"
    BY DEF IInv, MadeInOrder
  <2> QED
    BY <2>1 DEF CloseStep, Close, CloseAtOnce, CloseAgain, CloseEnds, CloseIsCut, MayClose, Free, Goto,
                Leave, kept, vars, IInv, TypeInv, TypeOK
<1> QED
  BY <1>1 DEF IInv, CursorsApart, PositionsInFile, Async

-----------------------------------------------------------------------------

LEMMA InitIInv == Init => IInv
<1> SUFFICES ASSUME Init PROVE IInv
  OBVIOUS
<1>1. TypeInv
  BY InitTypes
<1>2. /\ opens = 0 /\ current = 0 /\ shared = {}
      /\ \A g \in Opens : fate[g] = "none" /\ cache[g] = "none" /\ transport[g] = "none"
      /\ \A k \in Cursors : pos[k] = 0
      /\ transport[0] = "open" /\ \A c \in Callers : pc[c] = "idle" /\ reading[c].cursor = 0
      /\ Size \in Nat
  BY FileAssumption, OpensAreNoCallers DEF Init, NoRead, Opens
<1>3. Exclusion
  BY <1>2 DEF Exclusion
<1>4. MadeInOrder /\ NothingElseLeaks
  BY <1>2 DEF MadeInOrder, NothingElseLeaks
<1>5. CursorsApart
  BY <1>2 DEF CursorsApart, PositionsInFile, Cursors
<1> QED
  BY <1>1, <1>3, <1>4, <1>5 DEF IInv

LEMMA NextIInv == IInv /\ [Next]_vars => IInv'
<1> SUFFICES ASSUME IInv, [Next]_vars PROVE IInv'
  OBVIOUS
<1>1. ASSUME NEW c \in Callers, OpenStep(c) \/ CursorStep(c) \/ CloseStep(c)
      PROVE  IInv'
  <2>1. TypeInv'
    BY <1>1, OpenTypes, CursorTypes, CloseTypes DEF IInv
  <2>2. Exclusion'
    BY <1>1, StepExclusion DEF IInv
  <2>3. MadeInOrder' /\ NothingElseLeaks'
    BY <1>1, <2>1, OpenHolds, CursorHolds, CloseHolds
  <2>4. CursorsApart'
    BY <1>1, <2>1, OpenApart, CursorApart, CloseApart
  <2> QED
    BY <2>1, <2>2, <2>3, <2>4 DEF IInv
<1>2. CASE UNCHANGED vars
  <2> USE <1>2 DEF vars, kept, Async, Owns
  <2>1. TypeInv'
    BY DEF IInv, TypeInv, TypeOK
  <2>2. Exclusion' /\ MadeInOrder'
    BY DEF IInv, Exclusion, MadeInOrder
  <2>3. NothingElseLeaks' /\ CursorsApart'
    BY DEF IInv, NothingElseLeaks, InHand, CursorsApart, PositionsInFile
  <2> QED
    BY <2>1, <2>2, <2>3 DEF IInv
<1> QED
  BY <1>1, <1>2 DEF Next

THEOREM Invariance == Spec => []IInv
BY InitIInv, NextIInv, PTL DEF Spec

-----------------------------------------------------------------------------
(* What follows from it.                                                   *)

\* Every open(), cursor and caller is in a state the two classes can name.
THEOREM TypeCorrect == Spec => []TypeOK
BY Invariance, PTL DEF IInv, TypeInv

\* close() never touches an injected transport, and what open() has made stays in
\* the hands of somebody who can close it, but for the two ways named there.
THEOREM Ownership == Spec => []NothingElseLeaks
BY Invariance, PTL DEF IInv

\* The clamps of seek() and of read() keep every cursor inside the file, as long as
\* no two calls use it at once: however many read the same file beside it.
THEOREM InFile == Spec => []PositionsInFile
BY Invariance, PTL DEF IInv, CursorsApart

\* _Cursor.read takes its position before it awaits the cache and adds to it after:
\* on a cursor of one's own that is the same position.
THEOREM ReadsFollow == Spec => ReadsFollowOneAnother
<1> DEFINE A == \A c \in Callers :
                  LET r == reading[c]
                  IN  pc[c] = "reading" /\ pc'[c] = "idle" /\ r.cursor \notin shared =>
                        pos[r.cursor] = r.from /\ pos'[r.cursor] \in {r.from, Min2(r.from + r.size, Size)}
<1>1. ASSUME IInv, [Next]_vars, NEW c \in Callers,
             pc[c] = "reading", pc'[c] = "idle", reading[c].cursor \notin shared
      PROVE  /\ pos[reading[c].cursor] = reading[c].from
             /\ pos'[reading[c].cursor] \in
                  {reading[c].from, Min2(reading[c].from + reading[c].size, Size)}
  <2> DEFINE k == reading[c].cursor
  <2>1. /\ pos[k] = reading[c].from /\ k \in Cursors /\ pos[k] \in 0 .. Size
        /\ reading[c] \in Reading /\ pos \in [Cursors -> Nat]
        /\ pc \in [Callers -> {"idle", "probing", "aborting", "prefetching", "reading", "closing"}]
    BY <1>1 DEF IInv, TypeInv, TypeOK, CursorsApart, PositionsInFile, Reading
  <2>2. ReadReturns(c) \/ ReadOfHttpFileReturns(c) \/ ReadFails(c)
    <3>1. ~ UNCHANGED vars
      BY <1>1 DEF vars
    <3>2. PICK d \in Callers : OpenStep(d) \/ CursorStep(d) \/ CloseStep(d)
      BY <1>1, <3>1 DEF Next
    <3>3. CASE OpenStep(d)
      BY <1>1, <2>1, <3>3 DEF OpenStep, Open, ProbeFails, AbortEnds, OpenIsCut, ProbeAnswers,
           PrefetchReturns, PrefetchFails, SizeArrives, CachePrefetchEnds, Free, Goto, Leave
    <3>4. CASE CursorStep(d)
      BY <1>1, <2>1, <3>4 DEF CursorStep, Clone, ReadReturns, ReadOfHttpFileReturns, ReadFails,
           Read, Seek, Free, Goto
    <3>5. CASE CloseStep(d)
      BY <1>1, <2>1, <3>5 DEF CloseStep, Close, CloseAtOnce, CloseAgain, CloseEnds, CloseIsCut,
           MayClose, Free, Goto, Leave, vars
    <3> QED
      BY <3>2, <3>3, <3>4, <3>5
  <2>3. pos[k] <= Size /\ pos[k] + Length(reading[c]) = Min2(reading[c].from + reading[c].size, Size)
    BY <2>1, LengthFacts, FileAssumption
  <2> QED
    BY <2>1, <2>2, <2>3 DEF ReadReturns, ReadOfHttpFileReturns, ReadFails
<1>2. IInv /\ [Next]_vars => [A]_vars
  BY <1>1
<1> QED
  BY <1>2, Invariance, PTL DEF Spec, ReadsFollowOneAnother

\* A transport of the file's own is open as long as an open() probes through it or the
\* cursor it was made for is the file's.
Connected ==
  Owns => /\ current # 0 => transport[current] = "open"
          /\ \A c \in Callers : pc[c] = "probing" => transport[gen[c]] = "open"

LEMMA NextConnected == IInv /\ Connected /\ [Next]_vars => Connected'
<1> SUFFICES ASSUME IInv, Connected, [Next]_vars
             PROVE  Connected'
  OBVIOUS
<1>0. Owns' <=> Owns
  <2>1. ASSUME NEW c \in Callers, OpenStep(c) PROVE file' = file
    BY <2>1 DEF OpenStep, Open, ProbeFails, AbortEnds, OpenIsCut, ProbeAnswers, PrefetchReturns,
         PrefetchFails, SizeArrives, CachePrefetchEnds, kept
  <2>2. ASSUME NEW c \in Callers, CursorStep(c) PROVE file' = file
    BY <2>2 DEF CursorStep, Clone, ReadReturns, ReadOfHttpFileReturns, ReadFails, Read, Seek, kept
  <2>3. ASSUME NEW c \in Callers, CloseStep(c) PROVE file' = file
    BY <2>3 DEF CloseStep, Close, CloseAtOnce, CloseAgain, CloseEnds, CloseIsCut, kept, vars
  <2>4. file' = file
    BY <2>1, <2>2, <2>3 DEF Next, vars, kept
  <2> QED
    BY <2>4 DEF Owns
<1> SUFFICES ASSUME Owns
             PROVE  /\ current' # 0 => transport'[current'] = "open"
                    /\ \A c \in Callers : pc'[c] = "probing" => transport'[gen'[c]] = "open"
  BY <1>0 DEF Connected
<1> USE DEF Connected, Goto, Leave
<1>1. /\ Async
      /\ pc \in [Callers -> {"idle", "probing", "aborting", "prefetching", "reading", "closing"}]
      /\ gen \in [Callers -> 0 .. opens] /\ current \in 0 .. opens /\ opens \in 0 .. MaxOpens
      /\ transport \in [0 .. MaxOpens -> {"none", "open", "closed"}]
      /\ \A c \in Callers : pc[c] \in Busy => gen[c] \in Opens
  BY FileAssumption DEF IInv, TypeInv, TypeOK, Owns, Async, Busy, Opens
<1>2. ASSUME NEW c \in Callers, OpenStep(c)
      PROVE  /\ current' # 0 => transport'[current'] = "open"
             /\ \A d \in Callers : pc'[d] = "probing" => transport'[gen'[d]] = "open"
  <2>1. CASE Open(c)
    <3>1. opens + 1 \in 0 .. MaxOpens /\ opens + 1 # current /\ \A d \in Callers : gen[d] # opens + 1
      BY <1>1, <2>1, FileAssumption DEF Open
    <3>2. /\ transport' = [transport EXCEPT ![opens + 1] = "open"] /\ current' = current
          /\ gen' = [gen EXCEPT ![c] = opens + 1] /\ pc' = [pc EXCEPT ![c] = "probing"]
      BY <2>1 DEF Open
    <3>3. \A d \in Callers \ {c} : gen'[d] = gen[d] /\ pc'[d] = pc[d]
      BY <1>1, <3>2
    <3>4. gen'[c] = opens + 1 /\ transport'[opens + 1] = "open"
      BY <1>1, <3>1, <3>2
    <3>5. \A g \in 0 .. MaxOpens : transport[g] = "open" => transport'[g] = "open"
      BY <1>1, <3>1, <3>2
    <3>6. current \in 0 .. MaxOpens /\ \A d \in Callers : gen[d] \in 0 .. MaxOpens
      BY <1>1, FileAssumption
    <3> QED
      BY <3>2, <3>3, <3>4, <3>5, <3>6
  <2>2. CASE AbortEnds(c)
    <3>1. gen[c] # current \/ current = 0
      BY <1>1, <2>2 DEF AbortEnds, IInv, MadeInOrder, Busy
    <3>2. \A d \in Callers : pc[d] # "probing"
      BY <1>1, <2>2 DEF AbortEnds, IInv, Exclusion, Busy
    <3>3. transport' = [transport EXCEPT ![gen[c]] = "closed"] /\ current' = current
      BY <2>2 DEF AbortEnds, TransportOf, Owns
    <3>4. pc' = [pc EXCEPT ![c] = "idle"]
      BY <2>2 DEF AbortEnds
    <3> QED
      BY <1>1, <3>1, <3>2, <3>3, <3>4
  <2>3. CASE ProbeAnswers(c)
    <3>1. /\ transport' = transport /\ current' = gen[c] /\ pc[c] = "probing" /\ pc'[c] # "probing"
          /\ \A d \in Callers \ {c} : gen'[d] = gen[d] /\ pc'[d] = pc[d]
      BY <1>1, <2>3 DEF ProbeAnswers, Hold
    <3> QED
      BY <3>1
  <2>4. CASE PrefetchReturns(c)
    <3>1. /\ transport' = transport /\ pc[c] = "prefetching" /\ pc'[c] = "idle"
          /\ \A d \in Callers \ {c} : gen'[d] = gen[d] /\ pc'[d] = pc[d]
          /\ current' = current \/ (current # 0 /\ current' = gen[c])
      BY <1>1, <2>4 DEF PrefetchReturns, Hold
    <3>2. current # 0 => gen[c] = current
      BY <1>1, <3>1 DEF IInv, MadeInOrder
    <3> QED
      BY <3>1, <3>2
  <2>5. CASE ProbeFails(c) \/ OpenIsCut(c) \/ PrefetchFails(c)
    <3>1. /\ transport' = transport /\ current' = current /\ pc'[c] # "probing"
          /\ \A d \in Callers \ {c} : gen'[d] = gen[d] /\ pc'[d] = pc[d]
      BY <1>1, <2>5 DEF ProbeFails, OpenIsCut, PrefetchFails
    <3> QED
      BY <3>1
  <2> QED
    BY <1>1, <1>2, <2>1, <2>2, <2>3, <2>4, <2>5 DEF OpenStep, SizeArrives, CachePrefetchEnds
<1>3. ASSUME NEW c \in Callers, CursorStep(c)
      PROVE  /\ current' # 0 => transport'[current'] = "open"
             /\ \A d \in Callers : pc'[d] = "probing" => transport'[gen'[d]] = "open"
  <2>1. /\ transport' = transport /\ current' = current /\ gen' = gen
        /\ \A d \in Callers : pc'[d] = "probing" => pc[d] = "probing"
    BY <1>1, <1>3 DEF CursorStep, Clone, ReadReturns, ReadOfHttpFileReturns, ReadFails, Read, Seek
  <2> QED
    BY <2>1
<1>4. ASSUME NEW c \in Callers, CloseStep(c)
      PROVE  /\ current' # 0 => transport'[current'] = "open"
             /\ \A d \in Callers : pc'[d] = "probing" => transport'[gen'[d]] = "open"
  <2>1. CASE CloseEnds(c)
    <3>1. \A d \in Callers : pc[d] # "probing"
      BY <1>1, <2>1 DEF CloseEnds, IInv, Exclusion, Busy
    <3>2. current' = 0 /\ pc' = [pc EXCEPT ![c] = "idle"]
      BY <2>1 DEF CloseEnds
    <3> QED
      BY <1>1, <3>1, <3>2
  <2>2. CASE Close(c) \/ CloseIsCut(c)
    <3>1. /\ transport' = transport /\ current' = current /\ pc'[c] # "probing"
          /\ \A d \in Callers \ {c} : gen'[d] = gen[d] /\ pc'[d] = pc[d]
      BY <1>1, <2>2 DEF Close, CloseIsCut
    <3> QED
      BY <3>1
  <2>3. CASE CloseAgain(c)
    BY <2>3 DEF CloseAgain, vars
  <2> QED
    BY <1>4, <2>1, <2>2, <2>3 DEF CloseStep, CloseAtOnce
<1>5. CASE UNCHANGED vars
  BY <1>5 DEF vars
<1> QED
  BY <1>2, <1>3, <1>4, <1>5 DEF Next

\* Neither an open() overtaken by a close() in its prefetch, nor a close() behind
\* another, nor an open() that fails leaves the file a cursor without a transport.
THEOREM StaysConnected == Spec => []OpenFileIsConnected
<1>1. Init => Connected
  BY DEF Init, Connected
<1>2. IInv /\ Connected => OpenFileIsConnected
  <2> SUFFICES ASSUME IInv, Connected, Async, current # 0
               PROVE  transport[TransportOf(current)] = "open"
    BY DEF OpenFileIsConnected
  <2>1. file.kind \in {"owned", "injected"} /\ transport[0] = "open"
    BY FileAssumption DEF IInv, TypeInv, TypeOK, NothingElseLeaks, Async
  <2> QED
    BY <2>1 DEF Connected, Owns, TransportOf
<1> QED
  BY <1>1, <1>2, NextConnected, Invariance, PTL DEF Spec

=============================================================================
