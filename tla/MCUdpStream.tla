------------------------------ MODULE MCUdpStream ------------------------------
(***************************************************************************)
(* UdpStream for TLC; the constants are given in MCUdpStream.cfg.          *)
(***************************************************************************)
EXTENDS UdpStream
================================================================================
