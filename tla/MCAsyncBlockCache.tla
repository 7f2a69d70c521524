-------------------------- MODULE MCAsyncBlockCache --------------------------
(* Instances of AsyncBlockCache for TLC.                                   *)
EXTENDS AsyncBlockCache, TLC

Symmetry == Permutations(Callers)

=============================================================================
