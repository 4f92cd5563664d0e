------------------------------ MODULE RequestRing ------------------------------
(***************************************************************************)
(* The circular list of work requests of rdma.c.                           *)
(*                                                                         *)
(* rdma_init_client and rdma_init_server allocate one request per entry of *)
(* the completion queue and link them into a ring through their next       *)
(* pointers.  post_sends and post_recvs hand a run of that ring to the     *)
(* provider: they cut the ring behind the last request, let the provider   *)
(* walk the list from the first one, and restore the link.  A pointer to   *)
(* request i is its index i.                                               *)
(*                                                                         *)
(* The module holds what the two functions have in common; the programs    *)
(* that call them (RdmaClient, RdmaServer) extend it.                      *)
(***************************************************************************)
EXTENDS Integers, Sequences

CONSTANT QueueSize      \* completion_queue_size: 20 in the client, 100 in the server

ASSUME QueueSizeAssumption == QueueSize \in Nat \ {0}

VARIABLES
  next,       \* {send,recv}_requests[i].next
  last_idx,   \* local of post_sends / post_recvs
  old,        \* local of post_sends / post_recvs: the link that was cut
  wr,         \* the provider's position in the list it was handed
  wq          \* work requests posted and not completed, oldest first

ringVars == <<next, last_idx, old, wr, wq>>

Slots == 0 .. QueueSize - 1

NULL == -1

(* The links as the initialisation loop leaves them. *)
RingLinks == [i \in Slots |-> IF i = QueueSize - 1 THEN 0 ELSE i + 1]

RingInit ==
  /\ next = RingLinks
  /\ last_idx = 0
  /\ old = NULL
  /\ wr = NULL
  /\ wq = << >>

RingTypeOK ==
  /\ next \in [Slots -> Slots \cup {NULL}]
  /\ last_idx \in Slots
  /\ old \in Slots \cup {NULL}
  /\ wr \in Slots \cup {NULL}
  /\ wq \in Seq(Slots)

--------------------------------------------------------------------------------
(* Mutant of LastIdx: the run is one request too long. *)
LastIdxOneTooFar(start, n) == (start + n) % QueueSize

(* The last of the n requests that begin at start. *)
LastIdx(start, n) == (start + n - 1) % QueueSize

(* Entry of post_*: save and cut the link behind the last request. *)
CutRing(start, n) ==
  LET last == LastIdx(start, n) IN
    /\ last_idx' = last
    /\ old' = next[last]
    /\ next' = [next EXCEPT ![last] = NULL]
    /\ wr' = start
    /\ UNCHANGED wq

(* The provider takes one request off the list and follows its next.       *)
LinkRequest ==
  /\ wr # NULL
  /\ wq' = Append(wq, wr)
  /\ wr' = next[wr]
  /\ UNCHANGED <<next, last_idx, old>>

(* Mutant of RestoredLinks: the link stays cut. *)
LinksLeftCut == next

(* The links after post_* has put the saved one back. *)
RestoredLinks == [next EXCEPT ![last_idx] = old]

(* Return of post_*, after success and after failure alike.                *)
RestoreRing ==
  /\ next' = RestoredLinks
  /\ wr' = NULL
  /\ UNCHANGED <<last_idx, old, wq>>

================================================================================
