----------------------------- MODULE MessageStream -----------------------------
(***************************************************************************)
(* What every sending program of the repository promises: a stream of      *)
(* numbered messages, each put on the wire once, in order and with its own *)
(* payload.  At most Window messages are written ahead of those the sender *)
(* knows to be gone, and after a failure nothing more is transmitted.      *)
(*                                                                         *)
(* rdma_client (RdmaClient), raw_udp (RawUdp) and raw_ibverbs on the host  *)
(* (RawIbverbs) implement it with windows of completion_queue_size, 1 and  *)
(* 1 messages.                                                             *)
(***************************************************************************)
EXTENDS Naturals, Sequences

CONSTANTS
  Payload(_),  \* what message n, counted from 0, carries
  Window       \* messages written and not yet known to be gone, at most

VARIABLES
  written,   \* messages written so far
  released,  \* of these, the ones whose buffer may be used again
  wire,      \* the payloads transmitted, oldest first
  broken     \* a transmission has failed

vars == <<written, released, wire, broken>>

Init ==
  /\ written = 0
  /\ released = 0
  /\ wire = << >>
  /\ broken = FALSE

(* The next messages are written, as many as the window allows. *)
Write ==
  /\ written' \in written + 1 .. released + Window
  /\ UNCHANGED <<released, wire, broken>>

(* The oldest message that is not on the wire is transmitted. *)
Transmit ==
  /\ ~broken
  /\ Len(wire) < written
  /\ wire' = Append(wire, Payload(Len(wire)))
  /\ UNCHANGED <<written, released, broken>>

(* Buffers are released: of transmitted messages, or of any after a failure. *)
Release ==
  /\ released' \in released + 1 .. (IF broken THEN written ELSE Len(wire))
  /\ UNCHANGED <<written, wire, broken>>

Break ==
  /\ broken' = TRUE
  /\ UNCHANGED <<written, released, wire>>

Next == Write \/ Transmit \/ Release \/ Break

Spec == Init /\ [][Next]_vars

================================================================================
