---------------------------- MODULE MCFileObject ----------------------------
(* Instances of FileObject for TLC.                                        *)
EXTENDS FileObject, TLC

File(kind, prefetch, end) == [kind |-> kind, prefetch |-> prefetch, end |-> end]

\* With and without a prefetch, from either end; one longer than the file.
SomeFiles == {File("owned", 1, TRUE), File("owned", 0, TRUE), File("injected", 1, FALSE),
              File("sync", 9, TRUE), File("sync", 0, FALSE)}

OneFile == {File("owned", 1, TRUE)}

\* Back, and past the end.
SomeOffsets == {-1, 3}

Symmetry == Permutations(Callers)

=============================================================================
