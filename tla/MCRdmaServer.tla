------------------------------ MODULE MCRdmaServer ------------------------------
(***************************************************************************)
(* RdmaServer for TLC; the constants are given in MCRdmaServer.cfg.        *)
(***************************************************************************)
EXTENDS RdmaServer
================================================================================
