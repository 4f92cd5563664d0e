------------------------------ MODULE MCRdmaClient ------------------------------
(***************************************************************************)
(* RdmaClient for TLC; the constants are given in MCRdmaClient.cfg.        *)
(***************************************************************************)
EXTENDS RdmaClient
================================================================================
