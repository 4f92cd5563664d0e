---------------------------- MODULE RdmaClientProofs ----------------------------
(***************************************************************************)
(* Proofs about RdmaClient, for every QueueSize, PollBatch, ByteRange and  *)
(* MaxSent: IndInv is an inductive invariant, and the safety properties    *)
(* that TLC checks on a small instance follow from it.                     *)
(***************************************************************************)
EXTENDS RdmaClient, RequestRingProofs, SequenceTheorems

USE QueueSizeAssumption, ClientAssumption

(* A byte is a byte. *)
LEMMA ByteType ==
  ASSUME NEW n \in Nat
  PROVE  Byte(n) \in 0 .. ByteRange - 1
BY DEF Byte

(* The invariant holds initially. *)
LEMMA InitInv == Init => IndInv
<1> SUFFICES ASSUME Init PROVE IndInv
  OBVIOUS
<1>1. TypeOK
  BY RingLinksType DEF Init, RingInit, TypeOK, RingTypeOK, Slots, Completion
<1>2. Numbered /\ Contents /\ Window /\ StreamInOrder
  BY DEF Init, RingInit, Numbered, Contents, Window, StreamInOrder, Posted
<1>3. RingShape /\ Phase
  BY DEF Init, RingInit, RingShape, Phase, Posted
<1>4. QED BY <1>1, <1>2, <1>3 DEF IndInv

(* The first fill writes messages 0 .. QueueSize - 1, one per slot. *)
LEMMA FillBuffersInv == IndInv /\ FillBuffers => IndInv'
<1> SUFFICES ASSUME IndInv, FillBuffers PROVE IndInv'
  OBVIOUS
<1> USE DEF IndInv
<1>0. /\ count = 0 /\ polled = 0 /\ Len(cq) = 0 /\ Len(wq) = 0 /\ wc = << >>
      /\ count' = QueueSize
      /\ buffers' = [b \in Slots |-> Byte(b)]
  BY DEF FillBuffers, Phase, Window, Posted, TypeOK, RingTypeOK, Slots
<1>1. TypeOK'
  <2>1. buffers' \in [Slots -> 0 .. ByteRange - 1]
    <3>1. \A b \in Slots : Byte(b) \in 0 .. ByteRange - 1
      BY ByteType DEF Slots
    <3>2. QED BY <1>0, <3>1
  <2>2. /\ UNCHANGED <<next, last_idx, old, wr, wq, client_loop, wc, i, result, polled>>
        /\ UNCHANGED <<cq, transmitted, qp_state, wire>> /\ pc' = "post_first"
    BY DEF FillBuffers, ringVars, nicVars
  <2>3. count' \in Nat
    BY <1>0, QueueSizeAssumption
  <2>4. QED BY <2>1, <2>2, <2>3 DEF TypeOK, RingTypeOK
<1>2. Numbered' /\ StreamInOrder'
  BY DEF FillBuffers, Numbered, StreamInOrder, ringVars, nicVars
<1>3. Contents'
  <2> SUFFICES ASSUME NEW k \in 0 .. count' - 1
               PROVE  buffers'[k % QueueSize] = Byte(k)
    BY DEF Contents
  <2>1. k \in Slots
    BY <1>0 DEF Slots
  <2>2. QED BY <1>0, <2>1, ModOfSlot
<1>4. Window'
  BY <1>0 DEF FillBuffers, Window, Posted, ringVars, nicVars, TypeOK
<1>5. RingShape' /\ Phase'
  BY <1>0 DEF FillBuffers, RingShape, Phase, Posted, ringVars, nicVars, TypeOK
<1>6. QED BY <1>1, <1>2, <1>3, <1>4, <1>5

(* Entering post_sends cuts the ring behind the newest message, when it is *)
(* called for all messages that are written and not posted.                *)
LEMMA PostSendsInv ==
  ASSUME IndInv, pc \in {"post_first", "check"}, Posted < count, count = polled + QueueSize,
         NEW start, start = Posted % QueueSize,
         NEW n, LastIdx(start, n) = (count - 1) % QueueSize,
         PostSends(start, n)
  PROVE  IndInv'
<1> USE DEF IndInv
<1> DEFINE last == (count - 1) % QueueSize
<1>0. /\ start \in Slots /\ last \in Slots
      /\ next = RingLinks
      /\ last_idx' = last
      /\ old' = RingLinks[last]
      /\ next' = [RingLinks EXCEPT ![last] = NULL]
      /\ wr' = start
      /\ pc' = "walk"
      /\ UNCHANGED <<wq, nicVars, client_loop, buffers, count, wc, i, result, polled>>
  <2>1. start \in Slots /\ last \in Slots
    <3>1. Posted \in Int /\ count - 1 \in Int
      BY DEF TypeOK, RingTypeOK, Posted
    <3>2. QED BY <3>1, ModSlot
  <2>2. QED BY <2>1 DEF PostSends, CutRing, RingShape
<1>1. Posted' = Posted
  BY <1>0 DEF Posted, nicVars
<1>2. TypeOK'
  <2>1. /\ old' \in Slots \cup {NULL}
        /\ next' \in [Slots -> Slots \cup {NULL}]
    BY <1>0, RingLinksType
  <2>2. QED BY <1>0, <2>1 DEF TypeOK, RingTypeOK, nicVars
<1>3. Numbered' /\ StreamInOrder' /\ Contents'
  BY <1>0 DEF Numbered, StreamInOrder, Contents, nicVars
<1>4. Window'
  BY <1>0, <1>1 DEF Window, nicVars, TypeOK, RingTypeOK
<1>5. RingShape'
  BY <1>0, <1>1 DEF RingShape, TypeOK
<1>6. Phase'
  BY <1>0 DEF Phase
<1>7. QED BY <1>2, <1>3, <1>4, <1>5, <1>6

(* The first call of post_sends covers the whole ring. *)
LEMMA PostAllInv == IndInv /\ PostAll => IndInv'
<1> SUFFICES ASSUME IndInv, PostAll PROVE IndInv'
  OBVIOUS
<1>1. /\ pc \in {"post_first", "check"} /\ Posted < count /\ count = polled + QueueSize
      /\ Posted = 0 /\ count = QueueSize
  BY DEF PostAll, IndInv, Phase, Posted, TypeOK, RingTypeOK
<1>2. 0 = Posted % QueueSize
  BY <1>1, ModOfSlot DEF Slots
<1>3. LastIdx(0, QueueSize) = (count - 1) % QueueSize
  BY <1>1 DEF LastIdx
<1>4. PostSends(0, QueueSize)
  BY DEF PostAll
<1>5. QED BY <1>1, <1>2, <1>3, <1>4, PostSendsInv

(* Every later call begins with the first completed request, which is the  *)
(* next one to be posted, and ends with the newest message.                *)
LEMMA PostCompletedInv == IndInv /\ PostCompleted => IndInv'
<1> SUFFICES ASSUME IndInv, PostCompleted PROVE IndInv'
  OBVIOUS
<1> DEFINE ne == Len(wc)
<1>0. ne \in Nat /\ polled \in Nat /\ Len(wq) \in Nat /\ Len(cq) \in Nat /\ count \in Nat
  BY DEF IndInv, TypeOK, RingTypeOK
<1>1. ne > 0
  BY DEF PostCompleted, IndInv, Phase, TypeOK
<1>2. /\ pc \in {"post_first", "check"} /\ Posted < count /\ count = polled + QueueSize
      /\ Posted = (polled - ne) + QueueSize
  BY <1>0, <1>1 DEF PostCompleted, IndInv, Phase
<1>3. RepostStart = (polled - ne) % QueueSize
  BY <1>0, <1>1 DEF RepostStart, IndInv, Numbered
<1>4. RepostStart = Posted % QueueSize
  <2>1. polled - ne \in Int
    BY <1>0
  <2>2. QED BY <1>2, <1>3, <2>1, ModWrap
<1>5. LastIdx(RepostStart, ne) = (count - 1) % QueueSize
  <2>1. RepostStart \in Int
    BY <1>0, <1>3, ModSlot DEF Slots
  <2>2. LastIdx(RepostStart, ne) = (RepostStart + (ne - 1)) % QueueSize
    BY <1>0, <2>1 DEF LastIdx
  <2>3. (RepostStart + (ne - 1)) % QueueSize = ((polled - ne) + (ne - 1)) % QueueSize
    <3>1. polled - ne \in Int /\ ne - 1 \in Int
      BY <1>0
    <3>2. QED BY <1>3, <3>1, ModAdd
  <2>4. (polled - ne) + (ne - 1) = polled - 1 /\ count - 1 = (polled - 1) + QueueSize
    BY <1>0, <1>2
  <2>5. (polled - 1) % QueueSize = (count - 1) % QueueSize
    <3>1. polled - 1 \in Int
      BY <1>0
    <3>2. QED BY <2>4, <3>1, ModWrap
  <2>6. QED BY <2>2, <2>3, <2>4, <2>5
<1>6. PostSends(RepostStart, ne)
  BY DEF PostCompleted
<1>7. QED
  <2> HIDE DEF ne
  <2> QED BY <1>1, <1>2, <1>4, <1>5, <1>6, PostSendsInv

(* The request the provider takes is the next number; its link leads to    *)
(* the one after it, or is the cut one.                                    *)
LEMMA PostOneInv == IndInv /\ PostOne => IndInv'
<1> SUFFICES ASSUME IndInv, PostOne PROVE IndInv'
  OBVIOUS
<1> USE DEF IndInv
<1>0. /\ polled \in Nat /\ Len(wq) \in Nat /\ Len(cq) \in Nat /\ count \in Nat
      /\ Posted \in Nat /\ wq \in Seq(Slots) /\ next \in [Slots -> Slots \cup {NULL}]
  BY DEF TypeOK, RingTypeOK, Posted
<1>1. /\ count = polled + QueueSize
      /\ last_idx = (count - 1) % QueueSize
      /\ next = [RingLinks EXCEPT ![last_idx] = NULL]
      /\ wr # NULL
      /\ Posted # count
      /\ wr = Posted % QueueSize
      /\ Posted < count
      /\ count <= Posted + QueueSize
  <2>1. /\ pc = "walk" /\ wr # NULL
    BY DEF PostOne, LinkRequest
  <2>2. QED BY <1>0, <2>1 DEF RingShape, Window, Posted
<1>2. wr \in Slots
  <2>1. Posted \in Int
    BY <1>0
  <2>2. QED BY <1>1, <2>1, ModSlot
<1>3. /\ wq' = Append(wq, wr) /\ wr' = next[wr]
      /\ UNCHANGED <<next, last_idx, old>>
      /\ UNCHANGED <<nicVars, pc, client_loop, buffers, count, wc, i, result, polled>>
  BY DEF PostOne, LinkRequest
<1>4. Len(wq') = Len(wq) + 1 /\ Posted' = Posted + 1 /\ wq' \in Seq(Slots)
  BY <1>0, <1>2, <1>3 DEF Posted, nicVars
<1>5. wr' = IF Posted' = count THEN NULL ELSE Posted' % QueueSize
  <2>1. CASE Posted = count - 1
    <3>1. wr = last_idx
      BY <1>1, <2>1
    <3>2. wr' = NULL
      BY <1>1, <1>2, <1>3, <3>1, RingLinksType
    <3>3. QED BY <1>0, <1>4, <2>1, <3>2
  <2>2. CASE Posted < count - 1
    <3>1. Posted % QueueSize # (count - 1) % QueueSize
      <4>1. Posted \in Int /\ count - 1 \in Int /\ count - 1 < Posted + QueueSize
        BY <1>0, <1>1
      <4>2. QED BY <4>1, <2>2, ModDistinct
    <3>2. wr' = RingLinks[wr]
      BY <1>1, <1>2, <1>3, <3>1, RingLinksType
    <3>3. wr' = (Posted + 1) % QueueSize
      <4>1. Posted \in Int
        BY <1>0
      <4>2. QED BY <1>1, <3>2, <4>1, LinkIsSuccessor
    <3>4. QED BY <1>0, <1>4, <2>2, <3>3
  <2>3. QED BY <1>0, <1>1, <2>1, <2>2
<1>6. TypeOK'
  <2>1. wr' \in Slots \cup {NULL}
    BY <1>0, <1>2, <1>3
  <2>2. QED BY <1>3, <1>4, <2>1 DEF TypeOK, RingTypeOK, nicVars
<1>7. Numbered'
  <2>1. \A k \in 1 .. Len(wq') : wq'[k] = (polled + Len(cq) + k - 1) % QueueSize
    <3> SUFFICES ASSUME NEW k \in 1 .. Len(wq')
                 PROVE  wq'[k] = (polled + Len(cq) + k - 1) % QueueSize
      OBVIOUS
    <3>1. CASE k \in 1 .. Len(wq)
      <4>1. wq'[k] = wq[k]
        BY <1>0, <1>2, <1>3, <3>1
      <4>2. QED BY <4>1, <3>1 DEF Numbered
    <3>2. CASE k = Len(wq) + 1
      <4>1. wq'[k] = wr
        BY <1>0, <1>2, <1>3, <3>2
      <4>2. Posted = polled + Len(cq) + k - 1
        BY <1>0, <3>2 DEF Posted
      <4>3. QED BY <1>1, <4>1, <4>2
    <3>3. QED BY <1>0, <1>4, <3>1, <3>2
  <2>2. QED BY <1>3, <2>1 DEF Numbered, nicVars
<1>8. Contents' /\ StreamInOrder'
  BY <1>3 DEF Contents, StreamInOrder, nicVars
<1>9. Window'
  BY <1>0, <1>1, <1>3, <1>4 DEF Window, nicVars, TypeOK
<1>10. RingShape'
  BY <1>1, <1>3, <1>5 DEF RingShape, PostOne
<1>11. Phase'
  BY <1>3 DEF Phase, PostOne
<1>12. QED BY <1>6, <1>7, <1>8, <1>9, <1>10, <1>11

(* Leaving post_sends makes the ring whole again. *)
LEMMA Restored ==
  ASSUME IndInv, pc = "walk"
  PROVE  RestoredLinks = RingLinks
<1>1. /\ next = [RingLinks EXCEPT ![last_idx] = NULL]
      /\ old = RingLinks[last_idx]
      /\ last_idx \in Slots
  BY DEF IndInv, RingShape, TypeOK, RingTypeOK
<1>2. QED BY <1>1, RingLinksType DEF RestoredLinks

(* When post_sends returns successfully, everything written is posted.     *)
LEMMA PostReturnsInv == IndInv /\ PostReturns => IndInv'
<1> SUFFICES ASSUME IndInv, PostReturns PROVE IndInv'
  OBVIOUS
<1>1. /\ next' = RingLinks /\ wr' = NULL
      /\ UNCHANGED <<last_idx, old, wq>>
      /\ pc' \in {"loop", "sleep"}
      /\ UNCHANGED <<nicVars, client_loop, buffers, count, wc, i, result, polled>>
  BY Restored DEF PostReturns, RestoreRing
<1>2. /\ pc = "walk" /\ wr = NULL
      /\ count = polled + QueueSize
      /\ wr = IF Posted = count THEN NULL ELSE Posted % QueueSize
  BY DEF PostReturns, IndInv, RingShape
<1>3. Posted = count
  <2>1. Posted % QueueSize \in Slots
    <3>1. Posted \in Int
      BY DEF IndInv, TypeOK, RingTypeOK, Posted
    <3>2. QED BY <3>1, ModSlot
  <2>2. QED BY <1>2, <2>1 DEF NULL, Slots
<1>4. TypeOK'
  BY <1>1, RingLinksType DEF IndInv, TypeOK, RingTypeOK, nicVars
<1>5. (Numbered /\ Contents /\ StreamInOrder)'
  BY <1>1 DEF IndInv, Numbered, Contents, StreamInOrder, nicVars
<1>6. Posted' = Posted
  BY <1>1 DEF Posted, nicVars
<1>7. (Window /\ RingShape /\ Phase)'
  BY <1>1, <1>2, <1>3, <1>6 DEF IndInv, Window, RingShape, Phase, nicVars
<1>8. QED BY <1>4, <1>5, <1>7 DEF IndInv

(* A rejected request leaves the ring whole and the queues as they are.    *)
LEMMA PostFailsInv == IndInv /\ PostFails => IndInv'
<1> SUFFICES ASSUME IndInv, PostFails PROVE IndInv'
  OBVIOUS
<1>1. /\ next' = RingLinks /\ wr' = NULL
      /\ UNCHANGED <<last_idx, old, wq>>
      /\ pc = "walk" /\ pc' = "cleanup" /\ result' = "EXIT_FAILURE"
      /\ UNCHANGED <<nicVars, client_loop, buffers, count, wc, i, polled>>
  BY Restored DEF PostFails, RestoreRing
<1>2. TypeOK'
  BY <1>1, RingLinksType DEF IndInv, TypeOK, RingTypeOK, nicVars
<1>3. (Numbered /\ Contents /\ StreamInOrder)'
  BY <1>1 DEF IndInv, Numbered, Contents, StreamInOrder, nicVars
<1>4. Posted' = Posted
  BY <1>1 DEF Posted, nicVars
<1>5. (Window /\ RingShape /\ Phase)'
  BY <1>1, <1>4 DEF IndInv, Window, RingShape, Phase, nicVars
<1>6. QED BY <1>2, <1>3, <1>5 DEF IndInv

(* Steps that only move the program counter, or set result or client_loop. *)
LEMMA ControlInv ==
  ASSUME IndInv,
         UNCHANGED <<ringVars, nicVars, buffers, count, wc, i, polled>>,
         \/ pc' = pc
         \/ pc # "walk" /\ pc # "exited" /\ pc' = "cleanup"
         \/ pc = "sleep" /\ pc' = "loop",
         client_loop' \in BOOLEAN,
         result' \in {"EXIT_SUCCESS", "EXIT_FAILURE"}
  PROVE  IndInv'
<1>1. TypeOK'
  BY DEF IndInv, TypeOK, RingTypeOK, ringVars, nicVars
<1>2. (Numbered /\ Contents /\ StreamInOrder)'
  BY DEF IndInv, Numbered, Contents, StreamInOrder, ringVars, nicVars
<1>3. Posted' = Posted
  BY DEF Posted, ringVars, nicVars
<1>4. (Window /\ RingShape /\ Phase)'
  BY <1>3 DEF IndInv, Window, RingShape, Phase, ringVars, nicVars
<1>5. QED BY <1>1, <1>2, <1>4 DEF IndInv

(* Errors of the library, the sleep, the end of the loop and SIGINT change *)
(* nothing that the invariant relates.                                     *)
LEMMA ControlStepsInv ==
  IndInv /\ (PollFails \/ StatusFails \/ Sleep \/ LeaveLoop \/ StopLoop \/ UNCHANGED vars)
    => IndInv'
<1> SUFFICES ASSUME IndInv,
                    PollFails \/ StatusFails \/ Sleep \/ LeaveLoop \/ StopLoop \/ UNCHANGED vars
             PROVE  IndInv'
  OBVIOUS
<1>1. UNCHANGED <<ringVars, nicVars, buffers, count, wc, i, polled>>
  BY DEF PollFails, StatusFails, Sleep, LeaveLoop, StopLoop, vars, ringVars, nicVars
<1>2. \/ pc' = pc
      \/ pc # "walk" /\ pc # "exited" /\ pc' = "cleanup"
      \/ pc = "sleep" /\ pc' = "loop"
  BY DEF PollFails, LoopAgain, StatusFails, Sleep, LeaveLoop, StopLoop, vars
<1>3. client_loop' \in BOOLEAN /\ result' \in {"EXIT_SUCCESS", "EXIT_FAILURE"}
  BY DEF PollFails, StatusFails, Sleep, LeaveLoop, StopLoop, vars, IndInv, TypeOK
<1>4. QED BY <1>1, <1>2, <1>3, ControlInv

(* The poll moves the oldest completions from cq to wc. *)
LEMMA PollCqInv == IndInv /\ PollCq => IndInv'
<1> SUFFICES ASSUME IndInv, PollCq PROVE IndInv'
  OBVIOUS
<1> USE DEF IndInv
<1> DEFINE ne == IF Len(cq) < PollBatch THEN Len(cq) ELSE PollBatch
<1>0. /\ polled \in Nat /\ Len(wq) \in Nat /\ Len(cq) \in Nat /\ count \in Nat
      /\ ne \in 0 .. Len(cq)
      /\ cq \in Seq(Completion)
  BY DEF TypeOK, RingTypeOK
<1>1. /\ wc' = SubSeq(cq, 1, ne)
      /\ cq' = SubSeq(cq, ne + 1, Len(cq))
      /\ polled' = polled + ne
      /\ i' = 0
      /\ pc = "loop"
      /\ pc' = IF ne = 0 THEN "sleep" ELSE "check"
      /\ UNCHANGED <<ringVars, client_loop, buffers, count, result, transmitted,
                     qp_state, wire>>
  BY DEF PollCq, LoopAgain
<1> HIDE DEF ne
<1>2. /\ wc' \in Seq(Completion) /\ Len(wc') = ne
      /\ cq' \in Seq(Completion) /\ Len(cq') = Len(cq) - ne
      /\ \A k \in 1 .. ne : wc'[k] = cq[k]
      /\ \A k \in 1 .. Len(cq) - ne : cq'[k] = cq[ne + k]
  <2>1. cq \in Seq(Completion) /\ ne \in 0 .. Len(cq)
    BY <1>0
  <2>2. /\ SubSeq(cq, 1, ne) \in Seq(Completion)
        /\ Len(SubSeq(cq, 1, ne)) = ne
        /\ \A k \in 1 .. ne : SubSeq(cq, 1, ne)[k] = cq[k]
        /\ SubSeq(cq, ne + 1, Len(cq)) \in Seq(Completion)
        /\ Len(SubSeq(cq, ne + 1, Len(cq))) = Len(cq) - ne
        /\ \A k \in 1 .. Len(cq) - ne : SubSeq(cq, ne + 1, Len(cq))[k] = cq[ne + k]
    BY <2>1, SplitSeq, Zenon
  <2>3. QED BY <1>1, <2>2, Zenon
<1>3. Posted' = Posted
  <2>1. (polled + ne) + (Len(cq) - ne) + Len(wq) = polled + Len(cq) + Len(wq)
    BY <1>0
  <2>2. QED BY <1>1, <1>2, <2>1 DEF Posted, ringVars
<1>4. TypeOK'
  BY <1>0, <1>1, <1>2 DEF TypeOK, RingTypeOK, ringVars
<1>5. Numbered'
  <2>1. \A k \in 1 .. Len(wc') :
          wc'[k].wr_id = (polled' - Len(wc') + k - 1) % QueueSize
    <3> SUFFICES ASSUME NEW k \in 1 .. ne
                 PROVE  wc'[k].wr_id = (polled' - ne + k - 1) % QueueSize
      BY <1>2
    <3>1. k \in 1 .. Len(cq) /\ polled' - ne + k - 1 = polled + k - 1
      BY <1>0, <1>1
    <3>2. QED BY <1>2, <3>1 DEF Numbered
  <2>2. \A k \in 1 .. Len(cq') : cq'[k].wr_id = (polled' + k - 1) % QueueSize
    <3> SUFFICES ASSUME NEW k \in 1 .. Len(cq) - ne
                 PROVE  cq'[k].wr_id = (polled' + k - 1) % QueueSize
      BY <1>2
    <3>1. ne + k \in 1 .. Len(cq) /\ polled' + k - 1 = polled + (ne + k) - 1
      BY <1>0, <1>1
    <3>2. QED BY <1>2, <3>1 DEF Numbered
  <2>3. \A k \in 1 .. Len(wq') : wq'[k] = (polled' + Len(cq') + k - 1) % QueueSize
    <3>1. polled' + Len(cq') = polled + Len(cq) /\ wq' = wq
      BY <1>0, <1>1, <1>2 DEF ringVars
    <3>2. QED BY <3>1 DEF Numbered
  <2>4. QED BY <2>1, <2>2, <2>3 DEF Numbered
<1>6. Contents' /\ StreamInOrder'
  BY <1>1 DEF Contents, StreamInOrder
<1>7. Window'
  <2>1. polled' + Len(cq') = polled + Len(cq)
    <3>1. (polled + ne) + (Len(cq) - ne) = polled + Len(cq)
      BY <1>0
    <3>2. QED BY <1>1, <1>2, <3>1
  <2>2. /\ wq' = wq /\ transmitted' = transmitted /\ qp_state' = qp_state
        /\ wire' = wire /\ count' = count /\ pc # "exited"
    BY <1>1 DEF ringVars
  <2>3. Posted' <= count'
    BY <1>3, <2>2 DEF Window
  <2>4. count <= (polled + ne) + QueueSize
    BY <1>0 DEF Window
  <2>5. count' <= polled' + QueueSize
    BY <1>1, <2>4
  <2>6. QED BY <2>1, <2>2, <2>3, <2>5 DEF Window
<1>8. RingShape'
  BY <1>1 DEF RingShape, ringVars, TypeOK
<1>9. Phase'
  <2>1. ne # 0 => wc' # << >>
    BY <1>2
  <2>2. QED BY <1>0, <1>1, <1>2, <1>3, <2>1 DEF Phase
<1>10. QED BY <1>4, <1>5, <1>6, <1>7, <1>8, <1>9

(* The next message goes into the buffer of the message QueueSize before   *)
(* it, which is the buffer of the i-th polled completion.                  *)
LEMMA RewrittenSlot ==
  ASSUME IndInv, pc = "check", i < Len(wc)
  PROVE  /\ wc[i + 1].wr_id = count % QueueSize
         /\ wc[i + 1].wr_id \in Slots
<1>0. /\ polled \in Nat /\ Len(wc) \in Nat /\ count \in Nat /\ i \in Nat
      /\ count = polled + QueueSize - Len(wc) + i
  BY DEF IndInv, TypeOK, RingTypeOK, Phase
<1> DEFINE n == polled - Len(wc) + (i + 1) - 1
<1>1. i + 1 \in 1 .. Len(wc) /\ n \in Int /\ count = n + QueueSize
  BY <1>0
<1>2. wc[i + 1].wr_id = n % QueueSize
  <2>1. \A k \in 1 .. Len(wc) : wc[k].wr_id = (polled - Len(wc) + k - 1) % QueueSize
    BY DEF IndInv, Numbered
  <2>2. QED BY <1>1, <2>1
<1>3. QED
  <2> HIDE DEF n
  <2> QED BY <1>1, <1>2, ModWrap, ModSlot

(* The memset of the polling loop replaces the oldest message kept.        *)
LEMMA RewriteBufferInv == IndInv /\ RewriteBuffer => IndInv'
<1> SUFFICES ASSUME IndInv, RewriteBuffer PROVE IndInv'
  OBVIOUS
<1> USE DEF IndInv
<1> DEFINE s == wc[i + 1].wr_id
<1>0. /\ polled \in Nat /\ Len(wc) \in Nat /\ count \in Nat /\ i \in Nat
      /\ Len(wq) \in Nat /\ Len(cq) \in Nat
      /\ buffers \in [Slots -> 0 .. ByteRange - 1]
  BY DEF TypeOK, RingTypeOK
<1>1. /\ pc = "check" /\ i < Len(wc)
      /\ buffers' = [buffers EXCEPT ![s] = Byte(count)]
      /\ count' = count + 1
      /\ i' = i + 1
      /\ UNCHANGED <<ringVars, nicVars, pc, client_loop, wc, result, polled>>
  BY DEF RewriteBuffer
<1>2. s = count % QueueSize /\ s \in Slots
  BY <1>1, RewrittenSlot
<1> HIDE DEF s
<1>3. Posted' = Posted /\ Posted + i = count /\ Posted = polled + QueueSize - Len(wc)
  BY <1>1 DEF Posted, ringVars, nicVars, Phase
<1>4. TypeOK'
  <2>1. buffers' \in [Slots -> 0 .. ByteRange - 1]
    BY <1>0, <1>1, <1>2, ByteType
  <2>2. QED BY <1>0, <1>1, <2>1 DEF TypeOK, RingTypeOK, ringVars, nicVars
<1>5. Numbered' /\ StreamInOrder'
  BY <1>1 DEF Numbered, StreamInOrder, ringVars, nicVars
<1>6. Contents'
  <2> SUFFICES ASSUME NEW k \in 0 .. count' - 1, count' <= k + QueueSize
               PROVE  buffers'[k % QueueSize] = Byte(k)
    BY DEF Contents
  <2>1. CASE k = count
    BY <1>0, <1>1, <1>2, <2>1
  <2>2. CASE k < count
    <3>1. k \in Int /\ count \in Int /\ count < k + QueueSize
      BY <1>0, <1>1
    <3>2. k % QueueSize # count % QueueSize /\ k % QueueSize \in Slots
      BY <2>2, <3>1, ModDistinct, ModSlot
    <3>3. buffers'[k % QueueSize] = buffers[k % QueueSize]
      BY <1>0, <1>1, <1>2, <3>2
    <3>4. k \in 0 .. count - 1 /\ count <= k + QueueSize
      BY <1>0, <2>2, <3>1
    <3>5. buffers[k % QueueSize] = Byte(k)
      BY <3>4 DEF Contents
    <3>6. QED BY <3>3, <3>5
  <2>3. QED BY <1>0, <1>1, <2>1, <2>2
<1>7. Window'
  BY <1>0, <1>1, <1>3 DEF Window, ringVars, nicVars, TypeOK
<1>8. RingShape'
  BY <1>1 DEF RingShape, ringVars
<1>9. Phase'
  BY <1>0, <1>1, <1>3 DEF Phase
<1>10. QED BY <1>4, <1>5, <1>6, <1>7, <1>8, <1>9

(* Cleanup discards the queues. *)
LEMMA CleanupInv == IndInv /\ Cleanup => IndInv'
<1> SUFFICES ASSUME IndInv, Cleanup PROVE IndInv'
  OBVIOUS
<1> USE DEF IndInv
<1>1. /\ wq' = << >> /\ cq' = << >> /\ transmitted' = 0
      /\ pc = "cleanup" /\ pc' = "exited"
      /\ result' \in {"EXIT_SUCCESS", "EXIT_FAILURE"}
      /\ UNCHANGED <<next, last_idx, old, wr, client_loop, buffers, count, wc, i,
                     qp_state, wire, polled>>
  BY DEF Cleanup, TypeOK
<1>2. TypeOK'
  BY <1>1 DEF TypeOK, RingTypeOK
<1>3. (Numbered /\ Contents /\ StreamInOrder)'
  BY <1>1 DEF Numbered, Contents, StreamInOrder
<1>4. Posted' = polled /\ polled <= Posted /\ Posted \in Nat
  BY <1>1 DEF Posted, TypeOK, RingTypeOK
<1>5. Window'
  BY <1>1, <1>4 DEF Window, TypeOK
<1>6. (RingShape /\ Phase)'
  BY <1>1 DEF RingShape, Phase
<1>7. QED BY <1>2, <1>3, <1>5, <1>6

(* The message put on the wire is the oldest one that is not there yet:    *)
(* its buffer still holds it.                                              *)
LEMMA NicTransmitInv == IndInv /\ NicTransmit => IndInv'
<1> SUFFICES ASSUME IndInv, NicTransmit PROVE IndInv'
  OBVIOUS
<1> USE DEF IndInv
<1> DEFINE n == Len(wire)
           b == wq[transmitted + 1]
<1>0. /\ polled \in Nat /\ Len(wq) \in Nat /\ Len(cq) \in Nat /\ count \in Nat
      /\ transmitted \in Nat /\ n \in Nat
      /\ wire \in Seq(0 .. ByteRange - 1)
  BY DEF TypeOK, RingTypeOK
<1>1. /\ transmitted < Len(wq) /\ pc # "exited" /\ qp_state = "RTS"
      /\ wire' = Append(wire, buffers[b])
      /\ transmitted' = transmitted + 1
      /\ UNCHANGED <<ringVars, pc, client_loop, buffers, count, wc, i, result, cq,
                     qp_state, polled>>
  BY DEF NicTransmit
<1>2. n = polled + Len(cq) + transmitted /\ n \in 0 .. count - 1 /\ count <= n + QueueSize
  BY <1>0, <1>1 DEF Window, Posted
<1>3. b = n % QueueSize
  <2>1. /\ transmitted + 1 \in 1 .. Len(wq)
        /\ polled + Len(cq) + (transmitted + 1) - 1 = n
    BY <1>0, <1>1, <1>2
  <2>2. \A k \in 1 .. Len(wq) : wq[k] = (polled + Len(cq) + k - 1) % QueueSize
    BY DEF Numbered
  <2>3. QED BY <2>1, <2>2
<1>4. buffers[b] = Byte(n)
  BY <1>2, <1>3 DEF Contents
<1>5. /\ wire' \in Seq(0 .. ByteRange - 1)
      /\ Len(wire') = n + 1
      /\ \A k \in 1 .. n : wire'[k] = wire[k]
      /\ wire'[n + 1] = Byte(n)
  <2>1. buffers[b] \in 0 .. ByteRange - 1
    BY <1>0, <1>4, ByteType
  <2>2. QED BY <1>0, <1>1, <1>4, <2>1, AppendProperties
<1> HIDE DEF n, b
<1>6. StreamInOrder'
  <2> SUFFICES ASSUME NEW k \in 1 .. n + 1
               PROVE  wire'[k] = Byte(k - 1)
    BY <1>5 DEF StreamInOrder
  <2>1. CASE k \in 1 .. n
    BY <1>5, <2>1 DEF StreamInOrder, n
  <2>2. CASE k = n + 1
    <3>1. k - 1 = n
      BY <1>0, <2>2
    <3>2. QED BY <1>5, <2>2, <3>1
  <2>3. QED BY <1>0, <2>1, <2>2
<1>7. TypeOK'
  BY <1>0, <1>1, <1>5 DEF TypeOK, RingTypeOK, ringVars
<1>8. Numbered' /\ Contents'
  BY <1>1 DEF Numbered, Contents, ringVars
<1>9. Posted' = Posted
  BY <1>1 DEF Posted, ringVars
<1>10. Window'
  <2>1. Len(wire') = polled + Len(cq) + (transmitted + 1) /\ transmitted + 1 <= Len(wq)
    BY <1>0, <1>1, <1>2, <1>5
  <2>2. QED BY <1>1, <1>9, <2>1 DEF Window, ringVars
<1>11. (RingShape /\ Phase)'
  BY <1>1, <1>9 DEF RingShape, Phase, ringVars
<1>12. QED BY <1>6, <1>7, <1>8, <1>10, <1>11

(* A request that completes moves from the head of wq to the tail of cq    *)
(* and keeps its number.                                                   *)
LEMMA CompletionMoves ==
  ASSUME IndInv, wq # << >>, NEW status \in {"SUCCESS", "ERROR"},
         cq' = Append(cq, [wr_id |-> Head(wq), status |-> status]),
         wq' = Tail(wq),
         UNCHANGED <<wc, polled>>
  PROVE  /\ cq' \in Seq(Completion) /\ wq' \in Seq(Slots)
         /\ Len(cq') = Len(cq) + 1 /\ Len(wq') = Len(wq) - 1
         /\ Posted' = Posted
         /\ Numbered'
<1> DEFINE c == [wr_id |-> Head(wq), status |-> status]
<1>0. /\ polled \in Nat /\ Len(wq) \in Nat /\ Len(cq) \in Nat
      /\ wq \in Seq(Slots) /\ cq \in Seq(Completion)
  BY DEF IndInv, TypeOK, RingTypeOK
<1>1. /\ Head(wq) \in Slots /\ wq' \in Seq(Slots)
      /\ Len(wq') = Len(wq) - 1
      /\ \A k \in 1 .. Len(wq') : wq'[k] = wq[k + 1]
  BY <1>0, HeadTailProperties
<1>2. c \in Completion /\ c.wr_id = Head(wq) /\ Head(wq) = wq[1] /\ 1 \in 1 .. Len(wq)
  BY <1>0, <1>1 DEF Completion
<1>3. /\ cq' \in Seq(Completion)
      /\ Len(cq') = Len(cq) + 1
      /\ \A k \in 1 .. Len(cq) : cq'[k] = cq[k]
      /\ cq'[Len(cq) + 1] = c
  BY <1>0, <1>2, AppendProperties
<1>4. Posted' = Posted
  BY <1>0, <1>1, <1>3 DEF Posted
<1> HIDE DEF c
<1>5. \A k \in 1 .. Len(wq) : wq[k] = (polled + Len(cq) + k - 1) % QueueSize
  BY DEF IndInv, Numbered
<1>6. \A k \in 1 .. Len(cq') : cq'[k].wr_id = (polled + k - 1) % QueueSize
  <2> SUFFICES ASSUME NEW k \in 1 .. Len(cq) + 1
               PROVE  cq'[k].wr_id = (polled + k - 1) % QueueSize
    BY <1>3
  <2>1. CASE k \in 1 .. Len(cq)
    BY <1>3, <2>1 DEF IndInv, Numbered
  <2>2. CASE k = Len(cq) + 1
    <3>1. polled + Len(cq) + 1 - 1 = polled + k - 1
      BY <1>0, <2>2
    <3>2. QED BY <1>2, <1>3, <1>5, <2>2, <3>1
  <2>3. QED BY <1>0, <2>1, <2>2
<1>7. \A k \in 1 .. Len(wq') : wq'[k] = (polled + Len(cq') + k - 1) % QueueSize
  <2> SUFFICES ASSUME NEW k \in 1 .. Len(wq')
               PROVE  wq'[k] = (polled + Len(cq') + k - 1) % QueueSize
    OBVIOUS
  <2>1. /\ k + 1 \in 1 .. Len(wq)
        /\ polled + Len(cq) + (k + 1) - 1 = polled + Len(cq') + k - 1
    BY <1>0, <1>1, <1>3
  <2>2. QED BY <1>1, <1>5, <2>1
<1>8. QED BY <1>1, <1>3, <1>4, <1>6, <1>7 DEF IndInv, Numbered

(* A request completes after its message went on the wire.                 *)
LEMMA NicCompleteInv == IndInv /\ NicComplete => IndInv'
<1> SUFFICES ASSUME IndInv, NicComplete PROVE IndInv'
  OBVIOUS
<1> USE DEF IndInv
<1>0. /\ polled \in Nat /\ Len(wq) \in Nat /\ Len(cq) \in Nat
      /\ transmitted \in Nat /\ transmitted <= Len(wq) /\ transmitted > 0
      /\ wq \in Seq(Slots)
  <2>1. transmitted > 0
    BY DEF NicComplete
  <2>2. /\ polled \in Nat /\ wq \in Seq(Slots) /\ cq \in Seq(Completion)
        /\ transmitted \in Nat
    BY DEF TypeOK, RingTypeOK
  <2>3. transmitted <= Len(wq)
    BY DEF Window
  <2>4. QED BY <2>1, <2>2, <2>3
<1>1. /\ transmitted' = transmitted - 1
      /\ UNCHANGED <<next, last_idx, old, wr, pc, client_loop, buffers, count, wc,
                     i, result, qp_state, wire, polled>>
  BY DEF NicComplete
<1>2. /\ cq' \in Seq(Completion) /\ wq' \in Seq(Slots)
      /\ Len(cq') = Len(cq) + 1 /\ Len(wq') = Len(wq) - 1
      /\ Posted' = Posted
      /\ Numbered'
  <2>1. wq # << >>
    BY <1>0
  <2>2. QED BY <2>1, CompletionMoves DEF NicComplete
<1>3. TypeOK'
  <2>1. transmitted' \in Nat
    BY <1>0, <1>1
  <2>2. QED BY <1>1, <1>2, <2>1 DEF TypeOK, RingTypeOK
<1>4. (Contents /\ StreamInOrder)'
  BY <1>1 DEF Contents, StreamInOrder
<1>5. Window'
  <2>1. /\ polled + Len(cq') + transmitted' = polled + Len(cq) + transmitted
        /\ transmitted' <= Len(wq')
    BY <1>0, <1>1, <1>2
  <2>2. QED BY <1>1, <1>2, <2>1 DEF Window
<1>6. (RingShape /\ Phase)'
  <2>1. Len(cq') \in Nat /\ Len(wq') \in Nat
    BY <1>0, <1>2
  <2>2. QED BY <1>1, <1>2 DEF RingShape, Phase
<1>7. QED BY <1>2, <1>3, <1>4, <1>5, <1>6

(* A request fails; nothing is transmitted from then on.                   *)
LEMMA NicFailInv == IndInv /\ NicFail => IndInv'
<1> SUFFICES ASSUME IndInv, NicFail PROVE IndInv'
  OBVIOUS
<1> USE DEF IndInv
<1>0. /\ polled \in Nat /\ Len(wq) \in Nat /\ Len(cq) \in Nat
      /\ transmitted = 0 /\ wq # << >> /\ wq \in Seq(Slots)
  BY DEF TypeOK, RingTypeOK, NicFail
<1>1. /\ qp_state' = "SQE"
      /\ UNCHANGED <<next, last_idx, old, wr, pc, client_loop, buffers, count, wc,
                     i, result, transmitted, wire, polled>>
  BY DEF NicFail
<1>2. /\ cq' \in Seq(Completion) /\ wq' \in Seq(Slots)
      /\ Len(cq') = Len(cq) + 1 /\ Len(wq') = Len(wq) - 1
      /\ Posted' = Posted
      /\ Numbered'
  BY <1>0, CompletionMoves DEF NicFail
<1>3. TypeOK'
  BY <1>0, <1>1, <1>2 DEF TypeOK, RingTypeOK
<1>4. (Contents /\ StreamInOrder)'
  BY <1>1 DEF Contents, StreamInOrder
<1>5. Window'
  <2>1. transmitted' <= Len(wq')
    BY <1>0, <1>1, <1>2
  <2>2. QED BY <1>1, <1>2, <2>1 DEF Window
<1>6. (RingShape /\ Phase)'
  BY <1>1, <1>2 DEF RingShape, Phase
<1>7. QED BY <1>2, <1>3, <1>4, <1>5, <1>6

--------------------------------------------------------------------------------
(* Every step of the client, of the adapter and of SIGINT preserves the    *)
(* inductive invariant.                                                    *)
LEMMA NextInv == IndInv /\ [Next]_vars => IndInv'
<1> SUFFICES ASSUME IndInv, [Next]_vars PROVE IndInv'
  OBVIOUS
<1>1. CASE Program
  BY <1>1, FillBuffersInv, PostAllInv, PostCompletedInv, PostOneInv, PostReturnsInv,
     PollCqInv, RewriteBufferInv, ControlStepsInv, CleanupInv DEF Program
<1>2. CASE LibraryFails
  BY <1>2, PostFailsInv, ControlStepsInv DEF LibraryFails
<1>3. CASE StopLoop
  BY <1>3, ControlStepsInv
<1>4. CASE Nic
  BY <1>4, NicTransmitInv, NicCompleteInv, NicFailInv DEF Nic
<1>5. CASE Exited \/ UNCHANGED vars
  BY <1>5, ControlStepsInv DEF Exited
<1>6. QED BY <1>1, <1>2, <1>3, <1>4, <1>5 DEF Next

(* The queues, the buffers, the ring and the loop of rdma_client.c stay in *)
(* step (IndInv), for every ring size and every batch size.                *)
THEOREM Invariance == Spec => []IndInv
<1>1. QED BY InitInv, NextInv, PTL DEF Spec

(* Every variable of the client keeps its type. *)
THEOREM TypeCorrect == Spec => []TypeOK
<1>1. IndInv => TypeOK
  BY DEF IndInv
<1>2. QED BY Invariance, <1>1, PTL

(* rdma_client puts the messages on the wire in order, each once and as it *)
(* was written.                                                            *)
THEOREM StreamCorrect == Spec => []StreamInOrder
<1>1. IndInv => StreamInOrder
  BY DEF IndInv
<1>2. QED BY Invariance, <1>1, PTL

(* The send queue and the completion queue never overflow: the provider    *)
(* has room for every request post_sends hands it.                         *)
THEOREM QueuesBounded == Spec => []NoQueueOverrun
<1>1. IndInv => NoQueueOverrun
  <2> SUFFICES ASSUME IndInv PROVE NoQueueOverrun
    OBVIOUS
  <2>1. polled \in Nat /\ Len(wq) \in Nat /\ Len(cq) \in Nat /\ count \in Nat
    BY DEF IndInv, TypeOK, RingTypeOK
  <2>2. Len(wq) + Len(cq) <= QueueSize
    BY <2>1 DEF IndInv, Window, Posted
  <2>3. ASSUME pc = "walk", wr # NULL
        PROVE  Len(wq) + Len(cq) < QueueSize
    <3>1. Posted # count /\ Posted <= count /\ count = polled + QueueSize
      BY <2>3 DEF IndInv, RingShape, Window
    <3>2. QED BY <2>1, <3>1 DEF Posted
  <2>4. QED BY <2>2, <2>3 DEF NoQueueOverrun
<1>2. QED BY Invariance, <1>1, PTL

(* Between two rounds of the polling loop every request of the ring is     *)
(* outstanding, exactly once.                                              *)
THEOREM RequestsConserved == Spec => []AllRequestsOutstanding
<1>1. IndInv => AllRequestsOutstanding
  <2> SUFFICES ASSUME IndInv, pc \in {"loop", "sleep"}
               PROVE  /\ Len(wq) + Len(cq) = QueueSize
                      /\ InQueue \cup InCompletions = Slots
    BY DEF AllRequestsOutstanding
  <2>1. /\ polled \in Nat /\ Len(wq) \in Nat /\ Len(cq) \in Nat
        /\ wq \in Seq(Slots) /\ cq \in Seq(Completion)
    BY DEF IndInv, TypeOK, RingTypeOK
  <2>2. Len(wq) + Len(cq) = QueueSize
    BY <2>1 DEF IndInv, Phase, Posted
  <2>3. InQueue \cup InCompletions \subseteq Slots
    <3>1. \A k \in 1 .. Len(wq) : wq[k] \in Slots
      BY <2>1
    <3>2. \A k \in 1 .. Len(cq) : cq[k].wr_id \in Slots
      <4>1. \A k \in 1 .. Len(cq) : cq[k] \in Completion
        BY <2>1
      <4>2. \A c \in Completion : c.wr_id \in Slots
        BY DEF Completion
      <4>3. QED BY <4>1, <4>2
    <3>3. QED BY <3>1, <3>2 DEF InQueue, InCompletions
  <2>4. ASSUME NEW s \in Slots
        PROVE  s \in InQueue \cup InCompletions
    <3> DEFINE d == (s - polled) % QueueSize
    <3>1. s \in Int /\ s - polled \in Int /\ d \in Slots
      <4>1. s \in Int /\ s - polled \in Int
        BY <2>1 DEF Slots
      <4>2. QED BY <4>1, ModSlot
    <3>2. (polled + d) % QueueSize = s
      <4>1. (d + polled) % QueueSize = ((s - polled) + polled) % QueueSize
        <5>1. polled \in Int
          BY <2>1
        <5>2. QED BY <3>1, <5>1, ModAdd
      <4>2. (s - polled) + polled = s
        BY <2>1, <3>1
      <4>3. d + polled = polled + d
        BY <2>1, <3>1 DEF Slots
      <4>4. QED BY <4>1, <4>2, <4>3, ModOfSlot
    <3> HIDE DEF d
    <3>3. CASE d < Len(cq)
      <4>1. d + 1 \in 1 .. Len(cq) /\ polled + (d + 1) - 1 = polled + d
        BY <2>1, <3>1, <3>3 DEF Slots
      <4>2. \A k \in 1 .. Len(cq) : cq[k].wr_id = (polled + k - 1) % QueueSize
        BY DEF IndInv, Numbered
      <4>3. cq[d + 1].wr_id = s
        BY <3>2, <4>1, <4>2
      <4>4. QED BY <4>1, <4>3 DEF InCompletions
    <3>4. CASE d >= Len(cq)
      <4> DEFINE k == d + 1 - Len(cq)
      <4>1. k \in 1 .. Len(wq) /\ polled + Len(cq) + k - 1 = polled + d
        BY <2>1, <2>2, <3>1, <3>4 DEF Slots
      <4>2. \A m \in 1 .. Len(wq) : wq[m] = (polled + Len(cq) + m - 1) % QueueSize
        BY DEF IndInv, Numbered
      <4>3. wq[k] = s
        BY <3>2, <4>1, <4>2
      <4>4. QED BY <4>1, <4>3 DEF InQueue
    <3>5. QED BY <2>1, <3>1, <3>3, <3>4 DEF Slots
  <2>5. QED BY <2>2, <2>3, <2>4
<1>2. QED BY Invariance, <1>1, PTL

(* The memset of the polling loop never touches a buffer whose request is  *)
(* posted: the adapter reads what the program wrote.                       *)
THEOREM InFlightUntouched == Spec => NoOverwriteInFlight
<1> DEFINE Safe == \A b \in Slots : buffers'[b] # buffers[b] => b \notin InQueue
<1>1. IndInv /\ [Next]_vars => [Safe]_vars
  <2> SUFFICES ASSUME IndInv, Next,
                      NEW b \in Slots, buffers'[b] # buffers[b], b \in InQueue
               PROVE  FALSE
    BY DEF NoOverwriteInFlight
  <2>0. /\ polled \in Nat /\ Len(wq) \in Nat /\ Len(cq) \in Nat /\ count \in Nat
        /\ Len(wc) \in Nat /\ i \in Nat
        /\ wq \in Seq(Slots) /\ buffers \in [Slots -> 0 .. ByteRange - 1]
    BY DEF IndInv, TypeOK, RingTypeOK
  <2>1. FillBuffers \/ RewriteBuffer
    BY DEF Next, Program, LibraryFails, Nic, Exited, vars, PostAll, PostCompleted,
           PostSends, PostOne, PostReturns, PollCq, StatusFails, Sleep, LeaveLoop,
           Cleanup, PostFails, PollFails, StopLoop, NicTransmit, NicComplete, NicFail
  <2>2. PICK k \in 1 .. Len(wq) : b = wq[k]
    BY DEF InQueue
  <2>3. CASE FillBuffers
    BY <2>0, <2>2, <2>3 DEF FillBuffers, IndInv, Phase, Window, Posted
  <2>4. CASE RewriteBuffer
    <3>1. b = wc[i + 1].wr_id
      BY <2>0, <2>4 DEF RewriteBuffer
    <3>2. pc = "check" /\ i < Len(wc)
      BY <2>4 DEF RewriteBuffer
    <3>3. b = count % QueueSize
      BY <3>1, <3>2, RewrittenSlot
    <3> DEFINE n == polled + Len(cq) + k - 1
    <3>4. b = n % QueueSize
      BY <2>2 DEF IndInv, Numbered
    <3>5. n \in Int /\ count \in Int /\ n < count /\ count < n + QueueSize
      <4>1. /\ Posted = polled + QueueSize - Len(wc)
            /\ count = Posted + i
        BY <3>2 DEF IndInv, Phase
      <4>2. QED BY <2>0, <2>2, <3>2, <4>1 DEF Posted
    <3>6. QED
      <4> HIDE DEF n
      <4> QED BY <3>3, <3>4, <3>5, ModDistinct
  <2>5. QED BY <2>1, <2>3, <2>4
<1>2. QED BY Invariance, <1>1, PTL DEF Spec, NoOverwriteInFlight

--------------------------------------------------------------------------------
(* rdma_client implements MessageStream: every step of main(), post_sends  *)
(* and the adapter is a step of the abstract stream of messages, or leaves *)
(* it alone.                                                               *)

(* Buffers are filled for the first time: as many messages as the window   *)
(* holds are written.                                                      *)
LEMMA FillWrites == IndInv /\ FillBuffers => Stream!Write
<1> SUFFICES ASSUME IndInv, FillBuffers
             PROVE  Stream!Write
  OBVIOUS
<1>1. count = 0 /\ polled = 0
  BY DEF IndInv, Phase, FillBuffers
<1>2. count' = QueueSize /\ UNCHANGED <<polled, wire, qp_state>>
  BY <1>1, QueueSizeAssumption DEF FillBuffers, nicVars
<1>3. count' \in count + 1 .. polled + QueueSize
  BY <1>1, <1>2, QueueSizeAssumption
<1>4. QED
  BY <1>2, <1>3 DEF Stream!Write

(* A completed buffer is rewritten: one message, within the window. *)
LEMMA RewriteWrites == IndInv /\ RewriteBuffer => Stream!Write
<1> SUFFICES ASSUME IndInv, RewriteBuffer
             PROVE  Stream!Write
  OBVIOUS
<1>1. IndInv'
  BY RewriteBufferInv
<1>2. count \in Nat /\ polled \in Nat
  BY DEF IndInv, TypeOK
<1>3. count' = count + 1 /\ UNCHANGED <<polled, wire, qp_state>>
  BY DEF RewriteBuffer, nicVars
<1>4. count' <= polled' + QueueSize
  BY <1>1 DEF IndInv, Window
<1>5. count' \in count + 1 .. polled + QueueSize
  BY <1>2, <1>3, <1>4, QueueSizeAssumption
<1>6. QED
  BY <1>3, <1>5 DEF Stream!Write

(* The adapter transmits the oldest unsent message. *)
LEMMA TransmitTransmits == IndInv /\ NicTransmit => Stream!Transmit
<1> SUFFICES ASSUME IndInv, NicTransmit
             PROVE  Stream!Transmit
  OBVIOUS
<1>1. IndInv'
  BY NicTransmitInv
<1>2. /\ wire \in Seq(0 .. ByteRange - 1) /\ polled \in Nat /\ count \in Nat
      /\ transmitted \in Nat /\ Len(cq) \in Nat /\ Len(wq) \in Nat
  BY DEF IndInv, TypeOK, RingTypeOK
<1> DEFINE x == buffers[wq[transmitted + 1]]
<1>3. /\ wire' = Append(wire, x) /\ qp_state = "RTS" /\ pc # "exited"
      /\ transmitted < Len(wq)
      /\ UNCHANGED <<count, polled, qp_state>>
  BY DEF NicTransmit
<1> HIDE DEF x
<1>4. Len(wire) < count
  <2>1. Len(wire) = polled + Len(cq) + transmitted
    BY <1>3 DEF IndInv, Window
  <2>2. polled + Len(cq) + Len(wq) <= count
    BY DEF IndInv, Window, Posted
  <2>3. QED
    BY <1>2, <1>3, <2>1, <2>2
<1>5. x = Byte(Len(wire))
  <2>1. \A k \in 1 .. Len(wire') : wire'[k] = Byte(k - 1)
    BY <1>1 DEF IndInv, StreamInOrder, Byte
  <2>2. /\ Len(wire') = Len(wire) + 1 /\ Len(wire) \in Nat
    BY <1>2, <1>3
  <2>3. wire'[Len(wire) + 1] = x
    BY <1>2, <1>3
  <2>4. wire'[Len(wire) + 1] = Byte((Len(wire) + 1) - 1)
    BY <2>1, <2>2
  <2>5. (Len(wire) + 1) - 1 = Len(wire)
    BY <2>2
  <2>6. QED
    BY <2>3, <2>4, <2>5
<1>6. QED
  BY <1>3, <1>4, <1>5 DEF Stream!Transmit

(* Completions are polled: their buffers are released. *)
LEMMA PollReleases == IndInv /\ PollCq => Stream!Release \/ UNCHANGED Stream!vars
<1> SUFFICES ASSUME IndInv, PollCq
             PROVE  Stream!Release \/ UNCHANGED Stream!vars
  OBVIOUS
<1> DEFINE ne == IF Len(cq) < PollBatch THEN Len(cq) ELSE PollBatch
<1>1. IndInv'
  BY PollCqInv
<1>2. /\ polled \in Nat /\ count \in Nat /\ Len(cq) \in Nat /\ Len(wq) \in Nat
      /\ transmitted \in Nat /\ Len(wire) \in Nat /\ qp_state \in {"RTS", "SQE"}
  BY DEF IndInv, TypeOK, RingTypeOK
<1>3. ne \in Nat /\ ne <= Len(cq)
  BY <1>2, ClientAssumption
<1>4. polled' = polled + ne /\ UNCHANGED <<count, wire, qp_state>> /\ pc # "exited"
  BY DEF PollCq, LoopAgain
<1> HIDE DEF ne
<1>5. CASE ne = 0
  BY <1>2, <1>4, <1>5 DEF Stream!vars
<1>6. CASE ne # 0
  <2>1. polled + ne <= (IF qp_state = "SQE" THEN count ELSE Len(wire))
    <3>1. CASE qp_state = "SQE"
      BY <1>2, <1>3, <3>1 DEF IndInv, Window, Posted
    <3>2. CASE qp_state = "RTS"
      BY <1>2, <1>3, <1>4, <3>2 DEF IndInv, Window
    <3>3. QED
      BY <1>2, <3>1, <3>2
  <2>2. polled' \in polled + 1 .. (IF qp_state = "SQE" THEN count ELSE Len(wire))
    BY <1>2, <1>3, <1>4, <1>6, <2>1
  <2>3. QED
    BY <1>4, <2>2 DEF Stream!Release
<1>7. QED
  BY <1>5, <1>6

(* A failed request breaks the stream. *)
LEMMA FailBreaks == NicFail => Stream!Break
BY DEF NicFail, Stream!Break

(* The other steps move requests and control, and no message. *)
LEMMA OthersStutter ==
  ASSUME \/ PostAll \/ PostCompleted \/ PostOne \/ PostReturns \/ StatusFails \/ Sleep
         \/ LeaveLoop \/ Cleanup \/ LibraryFails \/ StopLoop \/ NicComplete \/ Exited
         \/ UNCHANGED vars
  PROVE  UNCHANGED Stream!vars
<1>1. UNCHANGED <<count, polled, wire, qp_state>>
  BY DEF PostAll, PostCompleted, PostSends, PostOne, PostReturns, StatusFails, Sleep,
         LeaveLoop, Cleanup, LibraryFails, PostFails, PollFails, StopLoop, NicComplete,
         Exited, vars, nicVars
<1>2. QED
  BY <1>1 DEF Stream!vars

LEMMA StreamInit == Init => Stream!Init
BY DEF Init, Stream!Init

LEMMA StreamStep == IndInv /\ [Next]_vars => [Stream!Next]_(Stream!vars)
<1> SUFFICES ASSUME IndInv, [Next]_vars
             PROVE  Stream!Next \/ UNCHANGED Stream!vars
  OBVIOUS
<1>1. CASE FillBuffers
  BY <1>1, FillWrites DEF Stream!Next
<1>2. CASE RewriteBuffer
  BY <1>2, RewriteWrites DEF Stream!Next
<1>3. CASE NicTransmit
  BY <1>3, TransmitTransmits DEF Stream!Next
<1>4. CASE PollCq
  BY <1>4, PollReleases DEF Stream!Next
<1>5. CASE NicFail
  BY <1>5, FailBreaks DEF Stream!Next
<1>6. CASE \/ PostAll \/ PostCompleted \/ PostOne \/ PostReturns \/ StatusFails \/ Sleep
           \/ LeaveLoop \/ Cleanup \/ LibraryFails \/ StopLoop \/ NicComplete \/ Exited
           \/ UNCHANGED vars
  BY <1>6, OthersStutter
<1>7. QED
  BY <1>1, <1>2, <1>3, <1>4, <1>5, <1>6 DEF Next, Program, Nic

(* For every ring and batch size the client implements the stream of       *)
(* messages: what rdma_client.c and post_sends do with requests, rings and *)
(* completions amounts to writing the next messages into free buffers,     *)
(* transmitting the oldest one and releasing transmitted ones.             *)
THEOREM Refinement == Spec => ImplementsStream
<1>1. Init => Stream!Init
  BY StreamInit
<1>2. IndInv /\ [Next]_vars => [Stream!Next]_(Stream!vars)
  BY StreamStep
<1>3. Spec => []IndInv
  BY Invariance
<1>4. QED
  BY <1>1, <1>2, <1>3, PTL DEF Spec, ImplementsStream, Stream!Spec

--------------------------------------------------------------------------------
(* What the liveness properties rest on.  That the client takes its next   *)
(* step is a matter of fairness; that the step is there to be taken, and   *)
(* that the exit it leads to is the right one, is not.                     *)

(* Between two rounds every message that is written and not on the wire is *)
(* a request the adapter still has to work off: none is left in a buffer   *)
(* nobody will send from.                                                  *)
UnsentAreQueued ==
  pc \in {"loop", "sleep"} /\ qp_state = "RTS" =>
    count = Len(wire) + (Len(wq) - transmitted)

THEOREM NothingLeftUnsent == Spec => []UnsentAreQueued
<1>1. IndInv => UnsentAreQueued
  <2> SUFFICES ASSUME IndInv, pc \in {"loop", "sleep"}, qp_state = "RTS"
               PROVE  count = Len(wire) + (Len(wq) - transmitted)
    BY DEF UnsentAreQueued
  <2>1. /\ polled \in Nat /\ Len(wq) \in Nat /\ Len(cq) \in Nat /\ count \in Nat
        /\ transmitted \in Nat
    BY DEF IndInv, TypeOK, RingTypeOK
  <2>2. Len(wire) = polled + Len(cq) + transmitted
    BY DEF IndInv, Window
  <2>3. count = polled + Len(cq) + Len(wq)
    BY DEF IndInv, Phase, Posted
  <2>4. QED BY <2>1, <2>2, <2>3
<1>2. QED BY Invariance, <1>1, PTL

(* The client gives up with EXIT_FAILURE or because of SIGINT: a failed    *)
(* call or request is never taken for the end of the work.                 *)
ExitExplained == pc = "exited" => result = "EXIT_FAILURE" \/ ~client_loop

THEOREM ClientExitExplained == Spec => []ExitExplained
<1> DEFINE Explained == pc \in {"cleanup", "exited"} => result = "EXIT_FAILURE" \/ ~client_loop
<1>1. Init => Explained
  BY DEF Init
<1>2. Explained /\ [Next]_vars => Explained'
  <2> SUFFICES ASSUME Explained, [Next]_vars PROVE Explained'
    OBVIOUS
  <2>1. CASE PostFails \/ PollFails \/ StatusFails \/ LeaveLoop \/ StopLoop
    BY <2>1 DEF PostFails, PollFails, StatusFails, LeaveLoop, StopLoop
  <2>2. CASE Cleanup
    BY <2>2 DEF Cleanup
  <2>3. CASE FillBuffers \/ PostAll \/ PostCompleted \/ PostOne \/ PostReturns \/ PollCq
             \/ RewriteBuffer \/ Sleep
    <3>1. pc' \notin {"cleanup", "exited"}
      BY <2>3 DEF FillBuffers, PostAll, PostCompleted, PostSends, PostOne, PostReturns,
         PollCq, RewriteBuffer, Sleep
    <3>2. QED BY <3>1
  <2>4. CASE Nic \/ Exited \/ UNCHANGED vars
    BY <2>4 DEF Nic, NicTransmit, NicComplete, NicFail, Exited, vars
  <2>5. QED BY <2>1, <2>2, <2>3, <2>4 DEF Next, Program, LibraryFails
<1>3. Explained => ExitExplained
  BY DEF ExitExplained
<1>4. QED BY <1>1, <1>2, <1>3, PTL DEF Spec

================================================================================
