------------------------------ MODULE BlockMath ------------------------------
(***************************************************************************)
(* The arithmetic of _BlockStore (block_cache.py): which blocks a byte     *)
(* range needs, how missing blocks are grouped into requests, and which    *)
(* bytes a request for a group asks for.                                   *)
(***************************************************************************)
EXTENDS Integers, FiniteSets, Sequences

Smaller(m, n) == IF m < n THEN m ELSE n
Larger(m, n) == IF m < n THEN n ELSE m

\* The maximal group of adjacent members of S around b, and all such groups:
\* what _coalesce makes of the sorted list of S.  (Here and elsewhere, a form
\* with a longer name before the right one is wrong on purpose: a property of
\* the runs must tell them apart.)
RunOf(b, S) == {x \in S : x .. b \subseteq S /\ b .. x \subseteq S}

CoalesceNothing(S) == {{b} : b \in S}
Coalesce(S) == {RunOf(b, S) : b \in S}

\* _coalesce itself, on a sorted list: pairs of a first and a last block.  The next
\* index continues the last run or begins one.
WithIndex(runs, index) ==
  LET top == Len(runs)
  IN  IF top > 0 /\ index = runs[top][2] + 1
      THEN [runs EXCEPT ![top] = <<@[1], index>>]
      ELSE Append(runs, <<index, index>>)

CoalesceList(missing) ==
  LET runs[i \in 0 .. Len(missing)] ==
        IF i = 0 THEN <<>> ELSE WithIndex(runs[i - 1], missing[i])
  IN  runs[Len(missing)]

\* The members of a finite set of integers in order.
Sorted(S) ==
  [i \in 1 .. Cardinality(S) |-> CHOOSE x \in S : Cardinality({y \in S : y < x}) = i - 1]

\* A byte is known by its position in the file; a body is the positions it holds.
Positions(start, end) == [i \in 1 .. end - start |-> start + i - 1]

\* _block_indices
BlockIndices(start, end, size) ==
  IF end <= start THEN {} ELSE start \div size .. (end - 1) \div size

=============================================================================
