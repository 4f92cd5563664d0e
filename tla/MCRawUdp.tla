-------------------------------- MODULE MCRawUdp --------------------------------
(***************************************************************************)
(* RawUdp for TLC.  The addresses make sums of the header's words that     *)
(* carry not at all, once, and again in the first fold.                    *)
(***************************************************************************)
EXTENDS RawUdp

MCAddrs == {<<0, 1>>, <<65535, 51132>>, <<43200, 22068>>}
MCPorts == {4242, 70000}
================================================================================
