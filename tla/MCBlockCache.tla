----------------------------- MODULE MCBlockCache -----------------------------
(* Instances of BlockCache for TLC.                                        *)
EXTENDS BlockCache

\* From before the file, past its end, empty.
Ranges == {<<-2, 3>>, <<4, 9>>, <<3, 0>>}

=============================================================================
