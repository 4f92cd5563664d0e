------------------------------- MODULE MCFpgaSend -------------------------------
(***************************************************************************)
(* FpgaSend for TLC, with the sizes of the source (MCFpgaSend.cfg, and     *)
(* MCFpgaRace.cfg for what does not hold).                                 *)
(***************************************************************************)
EXTENDS FpgaSend
================================================================================
