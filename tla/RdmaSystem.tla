------------------------------- MODULE RdmaSystem -------------------------------
(***************************************************************************)
(* rdma_client and rdma_server together, over the network between their    *)
(* adapters.  Each process takes its own steps, as RdmaClient and          *)
(* RdmaServer have them; the one thing they share is the network: what the *)
(* client's adapter transmits enters it, and what arrives at the server's  *)
(* adapter comes out of it.                                                *)
(*                                                                         *)
(* The queue pairs are of the type IBV_QPT_UD: the network may lose a      *)
(* datagram.  It keeps the order of the others, as a single path does.     *)
(***************************************************************************)
EXTENDS Integers, SequencesExt

CONSTANTS
  ClientQueue,  \* completion_queue_size of the client, 20 in the code
  ServerQueue,  \* completion_queue_size of the server, 100 in the code
  PollBatch,    \* number of entries of wc[], 10 in both programs
  ByteRange,    \* values of a char, 256 in the code
  MaxSent,      \* bound: messages the client's adapter transmits
  MaxArrivals   \* bound: datagrams that arrive at the server

ASSUME SystemAssumption ==
  /\ ClientQueue \in Nat \ {0}
  /\ ServerQueue \in Nat \ {0}
  /\ PollBatch \in Nat \ {0}
  /\ ByteRange \in Nat \ {0}
  /\ MaxSent \in Nat
  /\ MaxArrivals \in Nat

VARIABLES
  c_next, c_last_idx, c_old, c_wr, c_wq, c_pc, client_loop, buffers, count, c_wc,
  c_i, c_result, c_cq, transmitted, c_qp_state, wire, polled,
  s_next, s_last_idx, s_old, s_wr, s_wq, s_pc, server_loop, data, s_wc, s_i,
  s_result, s_cq, s_qp_state, arrived, dropped, printed,
  net           \* datagrams under way, by their first byte, oldest first

Client == INSTANCE RdmaClient WITH
  QueueSize <- ClientQueue, next <- c_next, last_idx <- c_last_idx, old <- c_old,
  wr <- c_wr, wq <- c_wq, pc <- c_pc, wc <- c_wc, i <- c_i, result <- c_result,
  cq <- c_cq, qp_state <- c_qp_state

Server == INSTANCE RdmaServer WITH
  QueueSize <- ServerQueue, Payloads <- 0 .. ByteRange - 1, next <- s_next,
  last_idx <- s_last_idx, old <- s_old, wr <- s_wr, wq <- s_wq, pc <- s_pc,
  wc <- s_wc, i <- s_i, result <- s_result, cq <- s_cq, qp_state <- s_qp_state

clientVars ==
  <<c_next, c_last_idx, c_old, c_wr, c_wq, c_pc, client_loop, buffers, count, c_wc,
    c_i, c_result, c_cq, transmitted, c_qp_state, wire, polled>>

serverVars ==
  <<s_next, s_last_idx, s_old, s_wr, s_wq, s_pc, server_loop, data, s_wc, s_i,
    s_result, s_cq, s_qp_state, arrived, dropped, printed>>

vars == <<clientVars, serverVars, net>>

Init ==
  /\ Client!Init
  /\ Server!Init
  /\ net = << >>

--------------------------------------------------------------------------------
(* What has left the client's adapter is under way. *)
Enter == net' = net \o SubSeq(wire', Len(wire) + 1, Len(wire'))

ClientStep ==
  /\ Client!Program \/ Client!LibraryFails \/ Client!StopLoop \/ Client!Nic
  /\ Enter
  /\ UNCHANGED serverVars

ServerStep ==
  /\ Server!Program \/ Server!LibraryFails \/ Server!StopLoop \/ Server!NicFail
  /\ UNCHANGED <<clientVars, net>>

(* The oldest datagram under way reaches the server's adapter, which has a *)
(* request for it or drops it.                                             *)
Deliver ==
  /\ net # << >>
  /\ Len(arrived) + dropped < MaxArrivals
  /\ Server!NicReceive(Head(net)) \/ Server!NicDrop
  /\ net' = Tail(net)
  /\ UNCHANGED clientVars

Lose ==
  /\ \E k \in 1 .. Len(net) : net' = RemoveAt(net, k)
  /\ UNCHANGED <<clientVars, serverVars>>

(* Both processes are gone. *)
Exited == c_pc = "exited" /\ s_pc = "exited" /\ UNCHANGED vars

Next == ClientStep \/ ServerStep \/ Deliver \/ Lose \/ Exited

Spec == Init /\ [][Next]_vars

--------------------------------------------------------------------------------
(* The line the server prints for message n of the client. *)
Line(n) == Server!SignedChar(Client!Byte(n))

(* Lines that stand for a received datagram: a failed receive adds one,    *)
(* the last, that does not.                                                *)
Received == IF Len(printed) <= Len(arrived) THEN Len(printed) ELSE Len(arrived)

(* The lines are a subsequence of the messages: the server prints them in  *)
(* the order the client wrote them, each at most once and only after it    *)
(* was sent, whatever was lost or dropped on the way.                      *)
LinesInOrder ==
  \E f \in [1 .. Received -> 0 .. Len(wire) - 1] :
    /\ \A k \in 1 .. Received : printed[k].index = Line(f[k])
    /\ \A k \in 2 .. Received : f[k - 1] < f[k]

================================================================================
