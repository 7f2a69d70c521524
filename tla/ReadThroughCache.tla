--------------------------- MODULE ReadThroughCache ---------------------------
(***************************************************************************)
(* What a block cache with room for its whole file promises the calls      *)
(* that go through it: a block once present stays, only blocks that are    *)
(* neither present nor on their way are fetched, and a read() ends with    *)
(* all its blocks present or with an exception of its fetches, never with  *)
(* one of its own blocks missing.                                          *)
(***************************************************************************)
EXTENDS FiniteSets

CONSTANTS
  Callers,  \* the coroutines or threads that use the cache
  Blocks    \* the blocks of the file

VARIABLES
  present,   \* blocks that reads are served from
  fetching,  \* blocks asked for and not answered
  calling,   \* callers inside read() or prefetch()
  wanted,    \* the blocks a read() in progress will return
  outcome    \* how a caller's last call ended

vars == <<present, fetching, calling, wanted, outcome>>

Raised == {"error", "cancelled"}

Init ==
  /\ present = {}
  /\ fetching = {}
  /\ calling = {}
  /\ wanted = [c \in Callers |-> {}]
  /\ outcome = [c \in Callers |-> "none"]

\* A call for the blocks W, which a prefetch() does not return.
Call(c, W) ==
  /\ c \notin calling
  /\ calling' = calling \cup {c}
  /\ \/ wanted' = [wanted EXCEPT ![c] = W]
     \/ UNCHANGED wanted
  /\ fetching' = fetching \cup (W \ present)
  /\ outcome' = [outcome EXCEPT ![c] = "none"]
  /\ UNCHANGED present

\* A call that ends at once: what it needs is present, or it asks for bytes
\* beyond the end of the file.
Hit(c) ==
  /\ c \notin calling
  /\ \E o \in {"ok", "error"} : outcome' = [outcome EXCEPT ![c] = o]
  /\ UNCHANGED <<present, fetching, calling, wanted>>

\* Requests for the blocks F end, having brought `got`.
Answer(F, got) ==
  /\ fetching' = fetching \ F
  /\ present' = present \cup got
  /\ UNCHANGED <<calling, wanted, outcome>>

\* The end of a call; one that raises may give requests up.
Return(c) ==
  /\ c \in calling
  /\ calling' = calling \ {c}
  /\ \E o \in Raised \cup {"ok"}, F \in SUBSET fetching :
       /\ o = "ok" => wanted[c] \subseteq present /\ F = {}
       /\ outcome' = [outcome EXCEPT ![c] = o]
       /\ fetching' = fetching \ F
  /\ wanted' = [wanted EXCEPT ![c] = {}]
  /\ UNCHANGED present

Next ==
  \/ \E c \in Callers, W \in SUBSET Blocks : Call(c, W)
  \/ \E c \in Callers : Hit(c) \/ Return(c)
  \/ \E F \in SUBSET fetching : \E got \in SUBSET F : Answer(F, got)

Spec == Init /\ [][Next]_vars

=============================================================================
