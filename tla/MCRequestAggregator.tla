------------------------- MODULE MCRequestAggregator -------------------------
(* Small instances of RequestAggregator, without the example client.        *)
EXTENDS RequestAggregator
=============================================================================
