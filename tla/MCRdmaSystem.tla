----------------------------- MODULE MCRdmaSystem -----------------------------
(***************************************************************************)
(* RdmaSystem for TLC; the constants are given in MCRdmaSystem.cfg.        *)
(***************************************************************************)
EXTENDS RdmaSystem
================================================================================
