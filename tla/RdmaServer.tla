------------------------------- MODULE RdmaServer -------------------------------
(***************************************************************************)
(* rdma_server: main() of rdma_server.c after rdma_init_server returned,   *)
(* post_recvs of rdma.c, and the adapter that places arriving datagrams    *)
(* into the posted buffers concurrently with the program.                  *)
(*                                                                         *)
(* The server posts all its receive requests, polls for completions, at    *)
(* most PollBatch at a time, prints the first payload byte of each, and    *)
(* posts "ne requests starting at the first completed one" again.  A       *)
(* datagram that finds no posted request is dropped: the queue pair is an  *)
(* Unreliable Datagram one.                                                *)
(***************************************************************************)
EXTENDS RequestRing

CONSTANTS
  PollBatch,   \* number of entries of wc[], 10 in the code
  ByteRange,   \* values of a char, 256 in the code
  Payloads,    \* first payload bytes of the datagrams that may arrive
  MaxArrivals  \* bound: datagrams that arrive, dropped ones included

ASSUME ServerAssumption ==
  /\ PollBatch \in Nat \ {0}
  /\ ByteRange \in Nat \ {0}
  /\ Payloads \subseteq 0 .. ByteRange - 1
  /\ MaxArrivals \in Nat

VARIABLES
  pc,           \* where main() stands
  server_loop,  \* cleared by the SIGINT handler
  data,         \* buffers[b].data_buffer[0]
  wc,           \* the completions of the last poll; Len(wc) is ne
  i,            \* index of the loop over wc
  result,       \* exit status
  cq,           \* the completion queue
  qp_state,     \* "RTR", or "ERR" once a receive has failed
  arrived,      \* history: payload bytes placed into buffers, oldest first
  dropped,      \* history: number of datagrams that found no request
  printed       \* history: the lines printed, as [wr_id, index]

vars == <<ringVars, pc, server_loop, data, wc, i, result, cq, qp_state, arrived,
          dropped, printed>>

nicVars == <<data, cq, qp_state, arrived, dropped>>

Completion == [wr_id: Slots, status: {"SUCCESS", "ERROR"}]

(* Mutant of SignedChar: the char is taken as unsigned. *)
UnsignedChar(b) == b

(* A char is signed where the program is built: printf("%d") shows the     *)
(* upper half of the bytes as negative numbers.                            *)
SignedChar(b) == IF 2 * b >= ByteRange THEN b - ByteRange ELSE b

Init ==
  /\ RingInit
  /\ pc = "post_first"
  /\ server_loop = TRUE
  /\ data = [b \in Slots |-> 0]
  /\ wc = << >>
  /\ i = 0
  /\ result = "EXIT_SUCCESS"
  /\ cq = << >>
  /\ qp_state = "RTR"
  /\ arrived = << >>
  /\ dropped = 0
  /\ printed = << >>

--------------------------------------------------------------------------------
(* The program. *)

(* post_recvs is entered ... *)
PostRecvs(start, n) ==
  /\ CutRing(start, n)
  /\ pc' = "walk"
  /\ UNCHANGED <<nicVars, server_loop, wc, i, result, printed>>

(* ... once for all buffers ... *)
PostAll ==
  /\ pc = "post_first"
  /\ PostRecvs(0, QueueSize)

(* Mutant of RepostStart: the request after the first completed one. *)
RepostSecond == (wc[1].wr_id + 1) % QueueSize

(* The request the server posts from: wc[0].wr_id. *)
RepostStart == wc[1].wr_id

(* Mutant of PostCompleted: the loop over wc is left after one message. *)
PostAfterFirst ==
  /\ pc = "check"
  /\ i >= 1
  /\ PostRecvs(RepostStart, Len(wc))

(* Mutant of PostCompleted: a batch that does not fill wc is not requeued. *)
PostFullBatches ==
  /\ pc = "check"
  /\ i = Len(wc)
  /\ \/ /\ Len(wc) = PollBatch
        /\ PostRecvs(RepostStart, Len(wc))
     \/ /\ Len(wc) # PollBatch
        /\ pc' = "loop"
        /\ UNCHANGED <<ringVars, nicVars, server_loop, wc, i, result, printed>>

(* ... and again after every poll that returned completions. *)
PostCompleted ==
  /\ pc = "check"
  /\ i = Len(wc)
  /\ PostRecvs(RepostStart, Len(wc))

(* ibv_post_recv queues one request; the queue has QueueSize places, one   *)
(* of which is freed when a completion is polled.                          *)
PostOne ==
  /\ pc = "walk"
  /\ Len(wq) + Len(cq) < QueueSize
  /\ LinkRequest
  /\ UNCHANGED <<nicVars, pc, server_loop, wc, i, result, printed>>

PostReturns ==
  /\ pc = "walk"
  /\ wr = NULL
  /\ RestoreRing
  /\ pc' = "loop"
  /\ UNCHANGED <<nicVars, server_loop, wc, i, result, printed>>

(* ibv_post_recv rejects the request wr; those before it stay posted.      *)
PostFails ==
  /\ pc = "walk"
  /\ wr # NULL
  /\ RestoreRing
  /\ result' = "EXIT_FAILURE"
  /\ pc' = "cleanup"
  /\ UNCHANGED <<nicVars, server_loop, wc, i, printed>>

(* What ibv_poll_cq(completion_queue, 10, wc) returns. *)
BatchSize == IF Len(cq) < PollBatch THEN Len(cq) ELSE PollBatch

(* Mutant of LoopAgain: the loop does not look at server_loop. *)
LoopForever == pc = "loop"

(* while (server_loop) *)
LoopAgain == pc = "loop" /\ server_loop

PollCq ==
  /\ LoopAgain
  /\ wc' = SubSeq(cq, 1, BatchSize)
  /\ cq' = SubSeq(cq, BatchSize + 1, Len(cq))
  /\ i' = 0
  /\ pc' = IF BatchSize = 0 THEN "sleep" ELSE "check"
  /\ UNCHANGED <<ringVars, server_loop, data, result, qp_state, arrived, dropped,
                 printed>>

PollFails ==
  /\ LoopAgain
  /\ result' = "EXIT_FAILURE"
  /\ pc' = "cleanup"
  /\ UNCHANGED <<ringVars, nicVars, server_loop, wc, i, printed>>

(* nanosleep; the two loops over no completion and the repost are skipped. *)
Sleep ==
  /\ pc = "sleep"
  /\ pc' = "loop"
  /\ UNCHANGED <<ringVars, nicVars, server_loop, wc, i, result, printed>>

(* The line for wc[i] is printed before its status is looked at. *)
PrintMessage ==
  LET slot == wc[i + 1].wr_id
      ok   == wc[i + 1].status = "SUCCESS"
  IN
    /\ pc = "check"
    /\ i < Len(wc)
    /\ printed' = Append(printed, [wr_id |-> slot, index |-> SignedChar(data[slot])])
    /\ \/ /\ ok
          /\ i' = i + 1
          /\ UNCHANGED <<pc, result>>
       \/ /\ ~ok
          /\ result' = "EXIT_FAILURE"
          /\ pc' = "cleanup"
          /\ UNCHANGED i
    /\ UNCHANGED <<ringVars, nicVars, server_loop, wc>>

(* while (server_loop) ends. *)
LeaveLoop ==
  /\ pc = "loop"
  /\ ~server_loop
  /\ pc' = "cleanup"
  /\ UNCHANGED <<ringVars, nicVars, server_loop, wc, i, result, printed>>

(* free(buffers), rdma_cleanup() and the return from main, as in           *)
(* RdmaClient; RdmaLifecycle has the single steps.                         *)
Cleanup ==
  /\ pc = "cleanup"
  /\ pc' = "exited"
  /\ result' \in {result, "EXIT_FAILURE"}
  /\ wq' = << >>
  /\ cq' = << >>
  /\ UNCHANGED <<next, last_idx, old, wr, server_loop, data, wc, i, qp_state,
                 arrived, dropped, printed>>

(* The SIGINT handler; installed before the queues exist. *)
StopLoop ==
  /\ pc # "exited"
  /\ server_loop
  /\ server_loop' = FALSE
  /\ UNCHANGED <<ringVars, nicVars, pc, wc, i, result, printed>>

--------------------------------------------------------------------------------
(* The adapter: a datagram consumes the oldest posted request. *)

NicReceive(payload) ==
  /\ qp_state = "RTR"
  /\ wq # << >>
  /\ data' = [data EXCEPT ![Head(wq)] = payload]
  /\ cq' = Append(cq, [wr_id |-> Head(wq), status |-> "SUCCESS"])
  /\ wq' = Tail(wq)
  /\ arrived' = Append(arrived, payload)
  /\ UNCHANGED <<next, last_idx, old, wr, pc, server_loop, wc, i, result, qp_state,
                 dropped, printed>>

NicDrop ==
  /\ pc # "exited"
  /\ qp_state = "RTR"
  /\ wq = << >>
  /\ dropped' = dropped + 1
  /\ UNCHANGED <<ringVars, pc, server_loop, data, wc, i, result, cq, qp_state,
                 arrived, printed>>

(* A receive fails (a datagram longer than its buffer, for one); the queue *)
(* pair leaves RTR and flushes the other requests.                         *)
NicFail ==
  /\ wq # << >>
  /\ cq' = Append(cq, [wr_id |-> Head(wq), status |-> "ERROR"])
  /\ wq' = Tail(wq)
  /\ qp_state' = "ERR"
  /\ UNCHANGED <<next, last_idx, old, wr, pc, server_loop, data, wc, i, result,
                 arrived, dropped, printed>>

(* A datagram addressed to the server arrives. *)
Arrive ==
  /\ Len(arrived) + dropped < MaxArrivals
  /\ \/ \E payload \in Payloads : NicReceive(payload)
     \/ NicDrop

--------------------------------------------------------------------------------
(* What the program does of itself, and the errors the library may return. *)
Program ==
  \/ PostAll \/ PostCompleted \/ PostOne \/ PostReturns \/ PollCq \/ Sleep
  \/ PrintMessage \/ LeaveLoop \/ Cleanup

LibraryFails == PostFails \/ PollFails

(* The process is gone. *)
Exited == pc = "exited" /\ UNCHANGED vars

Next == Program \/ LibraryFails \/ StopLoop \/ Arrive \/ NicFail \/ Exited

Spec == Init /\ [][Next]_vars

(* The operating system runs the program.  Nothing makes datagrams or      *)
(* SIGINT arrive, or a call or a receive fail.                             *)
Fairness == WF_vars(Program)

FairSpec == Spec /\ Fairness

--------------------------------------------------------------------------------
(* Every variable of the server and of the adapter keeps its type. *)
TypeOK ==
  /\ RingTypeOK
  /\ pc \in {"post_first", "walk", "loop", "check", "sleep", "cleanup", "exited"}
  /\ server_loop \in BOOLEAN
  /\ data \in [Slots -> 0 .. ByteRange - 1]
  /\ wc \in Seq(Completion)
  /\ i \in Nat
  /\ result \in {"EXIT_SUCCESS", "EXIT_FAILURE"}
  /\ cq \in Seq(Completion)
  /\ qp_state \in {"RTR", "ERR"}
  /\ arrived \in Seq(0 .. ByteRange - 1)
  /\ dropped \in Nat
  /\ printed \in Seq([wr_id: Slots, index: -(ByteRange \div 2) .. (ByteRange - 1) \div 2])

(* The requests of wq, and those that hold a message still to be printed.  *)
InQueue == {wq[k] : k \in 1 .. Len(wq)}
Unprinted ==
  {cq[k].wr_id : k \in 1 .. Len(cq)} \cup
  (IF pc = "check" THEN {wc[k].wr_id : k \in i + 1 .. Len(wc)} ELSE {})

(* The k-th line printed shows the k-th datagram placed into a buffer, and *)
(* names the request it was placed with: no message is printed twice, out  *)
(* of order, skipped or taken from a buffer the adapter has reused.  Only  *)
(* a failed receive adds a line without a datagram, the last one, since    *)
(* rdma_server.c prints before it checks the status.                       *)
PrintedAsDelivered ==
  /\ \A k \in 1 .. Len(printed) : k <= Len(arrived) =>
       printed[k] = [wr_id |-> (k - 1) % QueueSize, index |-> SignedChar(arrived[k])]
  /\ Len(printed) <= Len(arrived) + (IF result = "EXIT_FAILURE" THEN 1 ELSE 0)

(* The adapter never writes into a buffer whose message has not been       *)
(* printed yet.                                                            *)
NoOverwriteBeforePrint ==
  [][\A b \in Slots : data'[b] # data[b] => b \notin Unprinted]_vars

(* Between two rounds of the polling loop every receive request is posted  *)
(* or completed, exactly once: post_recvs loses none, so a datagram is     *)
(* dropped only when completion_queue_size messages wait to be polled.     *)
AllRequestsOutstanding ==
  pc \in {"loop", "sleep"} =>
    /\ Len(wq) + Len(cq) = QueueSize
    /\ InQueue \cup Unprinted = Slots

(* The provider always has room for the request it is handed, so neither   *)
(* the receive queue nor the completion queue can overflow.                *)
NoQueueOverrun ==
  /\ Len(wq) + Len(cq) <= QueueSize
  /\ pc = "walk" /\ wr # NULL => Len(wq) + Len(cq) < QueueSize

Stopping == pc \in {"cleanup", "exited"} \/ qp_state = "ERR"

(* Every datagram placed into a buffer is printed, unless the server stops. *)
EveryMessagePrinted ==
  \A k \in 1 .. MaxArrivals : Len(arrived) >= k ~> (Len(printed) >= k \/ Stopping)

(* The server never stays without a posted receive request: it becomes     *)
(* able to receive again, unless it stops.                                 *)
ReceivesAgain == wq = << >> ~> (wq # << >> \/ Stopping)

(* SIGINT makes the server clean up and exit.                              *)
SigintStops == ~server_loop ~> pc = "exited"

================================================================================
