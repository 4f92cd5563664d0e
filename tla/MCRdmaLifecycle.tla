----------------------------- MODULE MCRdmaLifecycle -----------------------------
(***************************************************************************)
(* RdmaLifecycle for TLC: both programs in MCRdmaLifecycle.cfg, and the    *)
(* use of the device pointer in MCRdmaLifecycleDevice.cfg.                 *)
(***************************************************************************)
EXTENDS RdmaLifecycle
================================================================================
