------------------------------ MODULE MCRawIbverbs ------------------------------
(***************************************************************************)
(* RawIbverbs for TLC: two addresses, and queue pairs that tell the bytes  *)
(* apart, one of them with more than 24 bits.                              *)
(***************************************************************************)
EXTENDS RawIbverbs

MCAddrs == {[mac |-> 1, ipv6 |-> 3], [mac |-> 2, ipv6 |-> 4]}
MCQueuePairs == {<<1, 2, 3, 0>>, <<4, 0, 0, 255>>}
================================================================================
