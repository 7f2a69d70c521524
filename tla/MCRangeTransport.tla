--------------------------- MODULE MCRangeTransport ---------------------------
(* Instances of RangeTransport for TLC.                                    *)
EXTENDS RangeTransport

\* None, one in the past, one longer than the first backoff.
Headers == {<<>>, <<-1>>, <<2>>}

=============================================================================
