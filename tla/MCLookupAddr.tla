----------------------------- MODULE MCLookupAddr -----------------------------
(***************************************************************************)
(* LookupAddr for TLC; the constants are given in MCLookupAddr.cfg.        *)
(***************************************************************************)
EXTENDS LookupAddr
================================================================================
