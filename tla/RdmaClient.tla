------------------------------- MODULE RdmaClient -------------------------------
(***************************************************************************)
(* rdma_client: main() of rdma_client.c after rdma_init_client returned,   *)
(* post_sends of rdma.c, and the adapter that works off the send queue     *)
(* concurrently with the program.                                          *)
(*                                                                         *)
(* The client fills one buffer per request with the running value of count *)
(* and posts all of them.  It then polls for completions, at most          *)
(* PollBatch at a time, rewrites the buffers of the completed requests and *)
(* posts "ne requests starting at the first completed one" again.  It      *)
(* never looks at which requests completed beyond the first: that these    *)
(* ne are consecutive on the ring is what the properties are about.        *)
(***************************************************************************)
EXTENDS RequestRing

CONSTANTS
  PollBatch,  \* number of entries of wc[], 10 in the code
  ByteRange,  \* values of an unsigned char, 256 in the code
  MaxSent     \* bound: messages the adapter transmits; count grows with them

ASSUME ClientAssumption ==
  /\ PollBatch \in Nat \ {0}
  /\ ByteRange \in Nat \ {0}
  /\ MaxSent \in Nat

VARIABLES
  pc,           \* where main() stands
  client_loop,  \* cleared by the SIGINT handler
  buffers,      \* first byte of each send buffer (memset gives all the same)
  count,        \* messages written so far
  wc,           \* the completions of the last poll; Len(wc) is ne
  i,            \* index of the loop over wc
  result,       \* exit status
  cq,           \* the completion queue
  transmitted,  \* how many of the oldest entries of wq are on the wire already
  qp_state,     \* "RTS", or "SQE" once a request has failed
  wire,         \* history: payload bytes transmitted, oldest first
  polled        \* history: completions taken off cq

vars == <<ringVars, pc, client_loop, buffers, count, wc, i, result, cq,
          transmitted, qp_state, wire, polled>>

nicVars == <<cq, transmitted, qp_state, wire>>

Completion == [wr_id: Slots, status: {"SUCCESS", "ERROR"}]

(* memset(p, n, size) stores n converted to unsigned char. *)
Byte(n) == n % ByteRange

Init ==
  /\ RingInit
  /\ pc = "fill"
  /\ client_loop = TRUE
  /\ buffers = [b \in Slots |-> 0]
  /\ count = 0
  /\ wc = << >>
  /\ i = 0
  /\ result = "EXIT_SUCCESS"
  /\ cq = << >>
  /\ transmitted = 0
  /\ qp_state = "RTS"
  /\ wire = << >>
  /\ polled = 0

--------------------------------------------------------------------------------
(* The program. *)

(* Initialise the memory in each send buffer. *)
FillBuffers ==
  /\ pc = "fill"
  /\ buffers' = [b \in Slots |-> Byte(count + b)]
  /\ count' = count + QueueSize
  /\ pc' = "post_first"
  /\ UNCHANGED <<ringVars, nicVars, client_loop, wc, i, result, polled>>

(* post_sends is entered ... *)
PostSends(start, n) ==
  /\ CutRing(start, n)
  /\ pc' = "walk"
  /\ UNCHANGED <<nicVars, client_loop, buffers, count, wc, i, result, polled>>

(* ... once for all buffers ... *)
PostAll ==
  /\ pc = "post_first"
  /\ PostSends(0, QueueSize)

(* Mutant of RepostStart: the request after the first completed one. *)
RepostSecond == (wc[1].wr_id + 1) % QueueSize

(* The request the client posts from: wc[0].wr_id. *)
RepostStart == wc[1].wr_id

(* Mutant of PostCompleted: a batch that does not fill wc is not requeued. *)
PostFullBatches ==
  /\ pc = "check"
  /\ i = Len(wc)
  /\ \/ /\ Len(wc) = PollBatch
        /\ PostSends(RepostStart, Len(wc))
     \/ /\ Len(wc) # PollBatch
        /\ pc' = "sleep"
        /\ UNCHANGED <<ringVars, nicVars, client_loop, buffers, count, wc, i, result, polled>>

(* ... and again after every poll that returned completions. *)
PostCompleted ==
  /\ pc = "check"
  /\ i = Len(wc)
  /\ PostSends(RepostStart, Len(wc))

(* ibv_post_send queues one request.  The queue has QueueSize places; one  *)
(* is freed when the completion is polled.                                 *)
PostOne ==
  /\ pc = "walk"
  /\ Len(wq) + Len(cq) < QueueSize
  /\ LinkRequest
  /\ UNCHANGED <<nicVars, pc, client_loop, buffers, count, wc, i, result, polled>>

(* The list is exhausted, ibv_post_send returns 0 and post_sends too.  wc  *)
(* is empty on return from the first call only, which no sleep follows.    *)
PostReturns ==
  /\ pc = "walk"
  /\ wr = NULL
  /\ RestoreRing
  /\ pc' = IF wc = << >> THEN "loop" ELSE "sleep"
  /\ UNCHANGED <<nicVars, client_loop, buffers, count, wc, i, result, polled>>

(* ibv_post_send rejects the request wr; those before it stay posted.      *)
PostFails ==
  /\ pc = "walk"
  /\ wr # NULL
  /\ RestoreRing
  /\ result' = "EXIT_FAILURE"
  /\ pc' = "cleanup"
  /\ UNCHANGED <<nicVars, client_loop, buffers, count, wc, i, polled>>

(* Mutant of LoopAgain: the loop does not look at client_loop. *)
LoopForever == pc = "loop"

(* while (client_loop) *)
LoopAgain == pc = "loop" /\ client_loop

(* ibv_poll_cq(completion_queue, 10, wc): the oldest completions, at most  *)
(* PollBatch of them; with none, both if/for bodies are skipped.           *)
PollCq ==
  LET ne == IF Len(cq) < PollBatch THEN Len(cq) ELSE PollBatch IN
    /\ LoopAgain
    /\ wc' = SubSeq(cq, 1, ne)
    /\ cq' = SubSeq(cq, ne + 1, Len(cq))
    /\ polled' = polled + ne
    /\ i' = 0
    /\ pc' = IF ne = 0 THEN "sleep" ELSE "check"
    /\ UNCHANGED <<ringVars, client_loop, buffers, count, result, transmitted,
                   qp_state, wire>>

PollFails ==
  /\ LoopAgain
  /\ result' = "EXIT_FAILURE"
  /\ pc' = "cleanup"
  /\ UNCHANGED <<ringVars, nicVars, client_loop, buffers, count, wc, i, polled>>

(* Mutant of RewriteBuffer: the message is counted, but the buffer keeps   *)
(* the previous one.                                                       *)
CountOnly ==
  /\ pc = "check"
  /\ i < Len(wc)
  /\ wc[i + 1].status = "SUCCESS"
  /\ count' = count + 1
  /\ i' = i + 1
  /\ UNCHANGED <<ringVars, nicVars, pc, client_loop, buffers, wc, result, polled>>

(* Mutant of RewriteBuffer: the buffer after the completed one, which may  *)
(* still be posted.                                                        *)
RewriteNextBuffer ==
  /\ pc = "check"
  /\ i < Len(wc)
  /\ wc[i + 1].status = "SUCCESS"
  /\ buffers' = [buffers EXCEPT ![(wc[i + 1].wr_id + 1) % QueueSize] = Byte(count)]
  /\ count' = count + 1
  /\ i' = i + 1
  /\ UNCHANGED <<ringVars, nicVars, pc, client_loop, wc, result, polled>>

(* wc[i].status = IBV_WC_SUCCESS: change the contents of its buffer.       *)
RewriteBuffer ==
  /\ pc = "check"
  /\ i < Len(wc)
  /\ wc[i + 1].status = "SUCCESS"
  /\ buffers' = [buffers EXCEPT ![wc[i + 1].wr_id] = Byte(count)]
  /\ count' = count + 1
  /\ i' = i + 1
  /\ UNCHANGED <<ringVars, nicVars, pc, client_loop, wc, result, polled>>

(* Mutant of StatusFails: the exit status is not set. *)
StatusFailsSilently ==
  /\ pc = "check"
  /\ i < Len(wc)
  /\ wc[i + 1].status # "SUCCESS"
  /\ pc' = "cleanup"
  /\ UNCHANGED <<ringVars, nicVars, client_loop, buffers, count, wc, i, result, polled>>

(* wc[i].status # IBV_WC_SUCCESS *)
StatusFails ==
  /\ pc = "check"
  /\ i < Len(wc)
  /\ wc[i + 1].status # "SUCCESS"
  /\ result' = "EXIT_FAILURE"
  /\ pc' = "cleanup"
  /\ UNCHANGED <<ringVars, nicVars, client_loop, buffers, count, wc, i, polled>>

(* sleep(1), which a signal cuts short. *)
Sleep ==
  /\ pc = "sleep"
  /\ pc' = "loop"
  /\ UNCHANGED <<ringVars, nicVars, client_loop, buffers, count, wc, i, result, polled>>

(* while (client_loop) ends. *)
LeaveLoop ==
  /\ pc = "loop"
  /\ ~client_loop
  /\ pc' = "cleanup"
  /\ UNCHANGED <<ringVars, nicVars, client_loop, buffers, count, wc, i, result, polled>>

(* free(buffers), rdma_cleanup() and the return from main.  The queues go  *)
(* with the queue pair, whatever is still in them; a call that fails in    *)
(* rdma_cleanup ends the process with EXIT_FAILURE.  RdmaLifecycle has the *)
(* single steps.                                                           *)
Cleanup ==
  /\ pc = "cleanup"
  /\ pc' = "exited"
  /\ result' \in {result, "EXIT_FAILURE"}
  /\ wq' = << >>
  /\ cq' = << >>
  /\ transmitted' = 0
  /\ UNCHANGED <<next, last_idx, old, wr, client_loop, buffers, count, wc, i,
                 qp_state, wire, polled>>

(* The SIGINT handler; installed before the queues exist. *)
StopLoop ==
  /\ pc # "exited"
  /\ client_loop
  /\ client_loop' = FALSE
  /\ UNCHANGED <<ringVars, nicVars, pc, buffers, count, wc, i, result, polled>>

--------------------------------------------------------------------------------
(* The adapter: requests are worked off in the order they were posted and  *)
(* complete in that order (every request is signalled).                    *)

(* The oldest request that is not on the wire is read from its buffer.     *)
NicTransmit ==
  /\ pc # "exited"
  /\ qp_state = "RTS"
  /\ transmitted < Len(wq)
  /\ Len(wire) < MaxSent
  /\ wire' = Append(wire, buffers[wq[transmitted + 1]])
  /\ transmitted' = transmitted + 1
  /\ UNCHANGED <<ringVars, pc, client_loop, buffers, count, wc, i, result, cq,
                 qp_state, polled>>

NicComplete ==
  /\ transmitted > 0
  /\ cq' = Append(cq, [wr_id |-> Head(wq), status |-> "SUCCESS"])
  /\ wq' = Tail(wq)
  /\ transmitted' = transmitted - 1
  /\ UNCHANGED <<next, last_idx, old, wr, pc, client_loop, buffers, count, wc,
                 i, result, qp_state, wire, polled>>

(* A request fails; the queue pair leaves RTS and flushes what follows.    *)
NicFail ==
  /\ transmitted = 0
  /\ wq # << >>
  /\ cq' = Append(cq, [wr_id |-> Head(wq), status |-> "ERROR"])
  /\ wq' = Tail(wq)
  /\ qp_state' = "SQE"
  /\ UNCHANGED <<next, last_idx, old, wr, pc, client_loop, buffers, count, wc,
                 i, result, transmitted, wire, polled>>

--------------------------------------------------------------------------------
(* What the program does of itself, and the errors the library may return. *)
Program ==
  \/ FillBuffers \/ PostAll \/ PostCompleted \/ PostOne \/ PostReturns
  \/ PollCq \/ RewriteBuffer \/ StatusFails \/ Sleep \/ LeaveLoop \/ Cleanup

LibraryFails == PostFails \/ PollFails

Nic == NicTransmit \/ NicComplete \/ NicFail

(* The process is gone. *)
Exited == pc = "exited" /\ UNCHANGED vars

Next == Program \/ LibraryFails \/ StopLoop \/ Nic \/ Exited

Spec == Init /\ [][Next]_vars

(* The operating system runs the program and the adapter works as long as  *)
(* there is work.  Nothing makes SIGINT arrive or a call or request fail.  *)
Fairness ==
  /\ WF_vars(Program)
  /\ WF_vars(NicTransmit)
  /\ WF_vars(NicComplete)

FairSpec == Spec /\ Fairness

--------------------------------------------------------------------------------
(* Every variable of the client and of the adapter keeps its type. *)
TypeOK ==
  /\ RingTypeOK
  /\ pc \in {"fill", "post_first", "walk", "loop", "check", "sleep", "cleanup", "exited"}
  /\ client_loop \in BOOLEAN
  /\ buffers \in [Slots -> 0 .. ByteRange - 1]
  /\ count \in Nat
  /\ wc \in Seq(Completion)
  /\ i \in Nat
  /\ result \in {"EXIT_SUCCESS", "EXIT_FAILURE"}
  /\ cq \in Seq(Completion)
  /\ transmitted \in Nat
  /\ qp_state \in {"RTS", "SQE"}
  /\ wire \in Seq(0 .. ByteRange - 1)
  /\ polled \in Nat

(* The requests of wq and of cq. *)
InQueue == {wq[k] : k \in 1 .. Len(wq)}
InCompletions == {cq[k].wr_id : k \in 1 .. Len(cq)}

(* The k-th payload on the wire is the k-th value of count: the client     *)
(* sends every message once, in order, unmodified, however completions are *)
(* batched and wherever a batch wraps around the ring (rdma_client.c main, *)
(* rdma.c post_sends).                                                     *)
StreamInOrder == \A k \in 1 .. Len(wire) : wire[k] = Byte(k - 1)

(* The memset in the polling loop never touches a buffer whose request the *)
(* adapter still holds.                                                    *)
NoOverwriteInFlight ==
  [][\A b \in Slots : buffers'[b] # buffers[b] => b \notin InQueue]_vars

(* Between two rounds of the polling loop all requests are outstanding,    *)
(* each exactly once: post_sends neither loses a request nor posts one     *)
(* that is posted already.                                                 *)
AllRequestsOutstanding ==
  pc \in {"loop", "sleep"} =>
    /\ Len(wq) + Len(cq) = QueueSize
    /\ InQueue \cup InCompletions = Slots

(* The provider always has room for the request it is handed, so neither   *)
(* the send queue nor the completion queue, both of completion_queue_size  *)
(* entries, can overflow.                                                  *)
NoQueueOverrun ==
  /\ Len(wq) + Len(cq) <= QueueSize
  /\ pc = "walk" /\ wr # NULL => Len(wq) + Len(cq) < QueueSize

(* The client as a stream of messages: count are written, polled are       *)
(* released, and a failed request ends the stream.                         *)
Stream == INSTANCE MessageStream WITH
  Payload <- Byte, Window <- QueueSize, written <- count, released <- polled,
  wire <- wire, broken <- qp_state = "SQE"

(* The client implements MessageStream: no step of main(), of post_sends   *)
(* or of the adapter does anything but write the next messages into        *)
(* buffers known to be free, transmit the oldest unsent message with its   *)
(* own payload, or free the buffers of transmitted ones.                   *)
ImplementsStream == Stream!Spec

(* The client is on its way out, or the adapter has reported an error that *)
(* will send it there.                                                     *)
Stopping == pc \in {"cleanup", "exited"} \/ qp_state = "SQE"

(* Every message the client writes is transmitted, unless it stops.        *)
EveryMessageSent ==
  \A k \in 1 .. MaxSent : count >= k ~> (Len(wire) >= k \/ Stopping)

(* SIGINT makes the client clean up and exit.                              *)
SigintStops == ~client_loop ~> pc = "exited"

(* A failed request makes the client exit with EXIT_FAILURE, unless SIGINT *)
(* ends the loop before the completion is seen.                            *)
FailureReported ==
  qp_state = "SQE" ~> (pc = "exited" /\ (result = "EXIT_FAILURE" \/ ~client_loop))

--------------------------------------------------------------------------------
(* The inductive invariant behind the safety properties.  The messages and *)
(* the requests that carry them are numbered 0, 1, 2, ... as they are      *)
(* written and posted; number n belongs to slot n % QueueSize.             *)

(* The number of requests posted so far, and of the next one to be posted. *)
Posted == polled + Len(cq) + Len(wq)

(* The three queues hold consecutive requests: those polled last, the      *)
(* completed ones and the posted ones.                                     *)
Numbered ==
  /\ \A k \in 1 .. Len(wc) : wc[k].wr_id = (polled - Len(wc) + k - 1) % QueueSize
  /\ \A k \in 1 .. Len(cq) : cq[k].wr_id = (polled + k - 1) % QueueSize
  /\ \A k \in 1 .. Len(wq) : wq[k] = (polled + Len(cq) + k - 1) % QueueSize

(* The last QueueSize messages written are in the buffers. *)
Contents ==
  \A k \in 0 .. count - 1 : count <= k + QueueSize => buffers[k % QueueSize] = Byte(k)

(* A message is posted only when it is written, and written only when the  *)
(* message QueueSize before it has been polled.                            *)
Window ==
  /\ Posted <= count
  /\ count <= polled + QueueSize
  /\ transmitted <= Len(wq)
  /\ qp_state = "RTS" /\ pc # "exited" => Len(wire) = polled + Len(cq) + transmitted

(* The ring is whole, except that it is cut behind the newest message      *)
(* while post_sends runs; the provider stands on the next one to be posted. *)
RingShape ==
  /\ pc # "walk" => next = RingLinks
  /\ pc = "walk" =>
       /\ count = polled + QueueSize
       /\ last_idx = (count - 1) % QueueSize
       /\ old = RingLinks[last_idx]
       /\ next = [RingLinks EXCEPT ![last_idx] = NULL]
       /\ wr = IF Posted = count THEN NULL ELSE Posted % QueueSize

(* What main() has done at each place of the loop. *)
Phase ==
  /\ pc = "fill" => count = 0 /\ polled = 0 /\ wc = << >>
  /\ pc = "post_first" => count = QueueSize /\ Posted = 0 /\ wc = << >>
  /\ pc \in {"loop", "sleep"} => count = polled + QueueSize /\ Posted = count
  /\ pc = "check" => /\ wc # << >>
                     /\ i <= Len(wc)
                     /\ Posted = polled + QueueSize - Len(wc)
                     /\ count = Posted + i

(* The conjunction is preserved by every step (RdmaClientProofs). *)
IndInv ==
  /\ TypeOK
  /\ Numbered
  /\ Contents
  /\ Window
  /\ RingShape
  /\ Phase
  /\ StreamInOrder

================================================================================
