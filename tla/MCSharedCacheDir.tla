--------------------------- MODULE MCSharedCacheDir ---------------------------
(* Instances of SharedCacheDir for TLC.                                    *)
EXTENDS SharedCacheDir

=============================================================================
