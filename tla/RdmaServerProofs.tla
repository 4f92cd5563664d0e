---------------------------- MODULE RdmaServerProofs ----------------------------
(***************************************************************************)
(* Proofs about RdmaServer, for every QueueSize, PollBatch, ByteRange,     *)
(* set of Payloads and MaxArrivals: IndInv is an inductive invariant, and  *)
(* the safety properties that TLC checks on a small instance follow.       *)
(*                                                                         *)
(* Requests are numbered in the order in which they are posted: request n  *)
(* lives in slot n % QueueSize and receives datagram n.                    *)
(***************************************************************************)
EXTENDS RdmaServer, RequestRingProofs

USE QueueSizeAssumption, ServerAssumption

(* Completions polled so far, and requests posted so far.  While wc is     *)
(* worked off, its first i messages have been printed.                     *)
Polled == IF pc = "check" THEN Len(printed) - i + Len(wc) ELSE Len(printed)
Posted == Polled + Len(cq) + Len(wq)

(* The line of a failed receive has been printed. *)
Failed == Len(printed) > Len(arrived)

(* The completion of request number n when a datagrams have arrived: it    *)
(* succeeded if datagram n is one of them.                                 *)
Done(n, a) == [wr_id |-> n % QueueSize, status |-> IF n < a THEN "SUCCESS" ELSE "ERROR"]

(* The three queues hold consecutive requests: those polled last, the      *)
(* completed ones and the posted ones.                                     *)
Numbered ==
  ~Failed =>
    /\ pc = "check" => \A k \in 1 .. Len(wc) :
                         wc[k] = Done(Polled - Len(wc) + k - 1, Len(arrived))
    /\ \A k \in 1 .. Len(cq) : cq[k] = Done(Polled + k - 1, Len(arrived))
    /\ \A k \in 1 .. Len(wq) : wq[k] = (Polled + Len(cq) + k - 1) % QueueSize

(* The datagrams that are not printed yet are in the buffers. *)
Contents ==
  \A n \in Len(printed) .. Len(arrived) - 1 : data[n % QueueSize] = arrived[n + 1]

(* A request is posted only when the message QueueSize before it has been  *)
(* printed; up to a failure every completion is that of a datagram, and    *)
(* the line of a failed receive is the last thing the loop does.           *)
Window ==
  /\ Len(wq) + Len(cq) <= QueueSize
  /\ ~Failed => Posted <= Len(printed) + QueueSize
  /\ pc # "exited" => /\ Polled + Len(cq) >= Len(arrived)
                      /\ qp_state = "RTR" => Polled + Len(cq) = Len(arrived)
  /\ Failed => /\ pc \in {"cleanup", "exited"}
               /\ qp_state = "ERR"
               /\ result = "EXIT_FAILURE"
               /\ Len(printed) = Len(arrived) + 1

(* The ring is whole, except that it is cut behind the last request while  *)
(* post_recvs runs; the provider stands on the next one to be posted.      *)
RingShape ==
  /\ pc # "walk" => next = RingLinks
  /\ pc = "walk" =>
       /\ last_idx = (Polled + QueueSize - 1) % QueueSize
       /\ old = RingLinks[last_idx]
       /\ next = [RingLinks EXCEPT ![last_idx] = NULL]
       /\ wr = IF Posted = Polled + QueueSize THEN NULL ELSE Posted % QueueSize

(* What main() has done at each place of the loop. *)
Phase ==
  /\ pc = "post_first" => Posted = 0
  /\ pc \in {"loop", "sleep"} => Posted = Polled + QueueSize
  /\ pc = "check" => /\ wc # << >>
                     /\ i <= Len(wc)
                     /\ Posted = Polled + QueueSize - Len(wc)
  /\ pc = "exited" => wq = << >> /\ cq = << >>

IndInv ==
  /\ TypeOK
  /\ Numbered
  /\ Contents
  /\ Window
  /\ RingShape
  /\ Phase
  /\ PrintedAsDelivered

--------------------------------------------------------------------------------
(* The types the steps below keep needing. *)
LEMMA Types ==
  ASSUME TypeOK
  PROVE  /\ wq \in Seq(Slots) /\ cq \in Seq(Completion) /\ wc \in Seq(Completion)
         /\ Len(wq) \in Nat /\ Len(cq) \in Nat /\ Len(wc) \in Nat /\ i \in Nat
         /\ Len(printed) \in Nat /\ Len(arrived) \in Nat
         /\ Polled \in Int /\ Posted \in Int
         /\ data \in [Slots -> 0 .. ByteRange - 1]
         /\ arrived \in Seq(0 .. ByteRange - 1)
BY DEF TypeOK, RingTypeOK, Polled, Posted

(* What printf shows of a byte fits a signed char. *)
LEMMA SignedCharType ==
  ASSUME NEW b \in 0 .. ByteRange - 1
  PROVE  SignedChar(b) \in -(ByteRange \div 2) .. (ByteRange - 1) \div 2
<1>1. CASE 2 * b >= ByteRange
  BY <1>1 DEF SignedChar
<1>2. CASE 2 * b < ByteRange
  BY <1>2 DEF SignedChar
<1>3. QED BY <1>1, <1>2

(* The invariant holds initially. *)
LEMMA InitInv == Init => IndInv
<1> SUFFICES ASSUME Init PROVE IndInv
  OBVIOUS
<1>1. TypeOK
  <2>1. data \in [Slots -> 0 .. ByteRange - 1]
    BY DEF Init
  <2>2. QED BY <2>1, RingLinksType DEF Init, RingInit, TypeOK, RingTypeOK, Slots
<1>2. /\ Len(printed) = 0 /\ Len(arrived) = 0 /\ Len(wq) = 0 /\ Len(cq) = 0
      /\ pc = "post_first" /\ next = RingLinks
  BY DEF Init, RingInit
<1>3. Polled = 0 /\ Posted = 0 /\ ~Failed
  BY <1>2 DEF Polled, Posted, Failed
<1>4. Numbered /\ Contents /\ Window /\ PrintedAsDelivered
  BY <1>2, <1>3 DEF Numbered, Contents, Window, PrintedAsDelivered
<1>5. RingShape /\ Phase
  BY <1>2, <1>3 DEF RingShape, Phase
<1>6. QED BY <1>1, <1>4, <1>5 DEF IndInv

(* The parts of the invariant that speak of messages depend on the         *)
(* variables listed here only.                                             *)
LEMMA MessagesUnchanged ==
  ASSUME IndInv, UNCHANGED <<data, wc, i, cq, wq, qp_state, arrived, printed>>,
         Polled' = Polled, pc # "check" => pc' # "check", pc = "exited" => pc' = "exited",
         \/ result' = result
         \/ result' = "EXIT_FAILURE",
         pc \in {"cleanup", "exited"} => pc' \in {"cleanup", "exited"}
  PROVE  /\ Posted' = Posted
         /\ Numbered' /\ Contents' /\ Window' /\ PrintedAsDelivered'
<1>1. Posted' = Posted /\ Failed' = Failed
  BY DEF Posted, Failed
<1>2. Len(arrived') = Len(arrived)
  OBVIOUS
<1>3. Numbered' /\ Contents'
  BY <1>1, <1>2 DEF IndInv, Numbered, Contents
<1>4. Window'
  BY <1>1 DEF IndInv, Window
<1>5. PrintedAsDelivered'
  <2>1. Len(printed) \in Nat /\ Len(arrived) \in Nat
    BY Types DEF IndInv
  <2>2. QED BY <2>1 DEF IndInv, PrintedAsDelivered
<1>6. QED BY <1>1, <1>3, <1>4, <1>5

--------------------------------------------------------------------------------
(* post_recvs. *)

(* Entering post_recvs cuts the ring behind the last free request, when it *)
(* is called for all requests that are not outstanding.                    *)
LEMMA PostRecvsInv ==
  ASSUME IndInv, pc \in {"post_first", "check"}, Polled = Len(printed),
         Posted < Polled + QueueSize,
         NEW start, start = Posted % QueueSize,
         NEW n, LastIdx(start, n) = (Polled + QueueSize - 1) % QueueSize,
         PostRecvs(start, n)
  PROVE  IndInv'
<1> USE DEF IndInv
<1> DEFINE last == (Polled + QueueSize - 1) % QueueSize
<1>0. /\ start \in Slots /\ last \in Slots
      /\ next = RingLinks
      /\ last_idx' = last
      /\ old' = RingLinks[last]
      /\ next' = [RingLinks EXCEPT ![last] = NULL]
      /\ wr' = start
      /\ pc' = "walk"
      /\ UNCHANGED <<wq, nicVars, server_loop, wc, i, result, printed>>
  <2>1. start \in Slots /\ last \in Slots
    <3>1. Posted \in Int /\ Polled + QueueSize - 1 \in Int
      BY Types
    <3>2. QED BY <3>1, ModSlot
  <2>2. QED BY <2>1 DEF PostRecvs, CutRing, RingShape
<1>1. Polled' = Polled
  BY <1>0 DEF Polled
<1>2. Posted' = Posted /\ Numbered' /\ Contents' /\ Window' /\ PrintedAsDelivered'
  BY <1>0, <1>1, MessagesUnchanged DEF nicVars
<1>3. TypeOK'
  <2>1. /\ old' \in Slots \cup {NULL}
        /\ next' \in [Slots -> Slots \cup {NULL}]
    BY <1>0, RingLinksType
  <2>2. QED BY <1>0, <2>1 DEF TypeOK, RingTypeOK, nicVars
<1>4. RingShape'
  <2>1. Posted' # Polled' + QueueSize
    BY <1>1, <1>2, Types
  <2>2. QED BY <1>0, <1>1, <1>2, <2>1 DEF RingShape
<1>5. Phase'
  BY <1>0 DEF Phase
<1>6. QED BY <1>2, <1>3, <1>4, <1>5

(* The first call of post_recvs covers the whole ring. *)
LEMMA PostAllInv == IndInv /\ PostAll => IndInv'
<1> SUFFICES ASSUME IndInv, PostAll PROVE IndInv'
  OBVIOUS
<1>1. pc = "post_first" /\ Posted = 0 /\ PostRecvs(0, QueueSize)
  BY DEF PostAll, IndInv, Phase
<1>2. Polled = Len(printed) /\ Polled = 0
  BY <1>1, Types DEF IndInv, Polled, Posted
<1>3. 0 = Posted % QueueSize
  BY <1>1, ModOfSlot DEF Slots
<1>4. LastIdx(0, QueueSize) = (Polled + QueueSize - 1) % QueueSize
  BY <1>2 DEF LastIdx
<1>5. Posted < Polled + QueueSize
  BY <1>1, <1>2
<1>6. QED BY <1>1, <1>2, <1>3, <1>4, <1>5, PostRecvsInv

(* Every later call begins with the first completed request, which is the  *)
(* next one to be posted, and ends where the ring is full.                 *)
LEMMA PostCompletedInv == IndInv /\ PostCompleted => IndInv'
<1> SUFFICES ASSUME IndInv, PostCompleted PROVE IndInv'
  OBVIOUS
<1> DEFINE ne == Len(wc)
<1>0. /\ ne \in Nat /\ Polled \in Int /\ Posted \in Int /\ Len(printed) \in Nat
      /\ wc \in Seq(Completion)
  BY Types DEF IndInv
<1>1. /\ pc = "check" /\ i = ne /\ PostRecvs(RepostStart, ne)
      /\ wc # << >> /\ Posted = (Polled - ne) + QueueSize
  BY <1>0 DEF PostCompleted, IndInv, Phase
<1>2. ne > 0
  BY <1>0, <1>1
<1>3. Polled = Len(printed) /\ Posted < Polled + QueueSize
  BY <1>0, <1>1, <1>2 DEF Polled
<1>4. RepostStart = (Polled - ne) % QueueSize
  <2>1. ~Failed
    BY <1>1 DEF IndInv, Window
  <2>2. wc[1] = Done(Polled - ne + 1 - 1, Len(arrived))
    BY <1>0, <1>1, <1>2, <2>1 DEF IndInv, Numbered
  <2>3. Polled - ne + 1 - 1 = Polled - ne
    BY <1>0
  <2>4. QED BY <2>2, <2>3 DEF RepostStart, Done
<1>5. RepostStart = Posted % QueueSize
  <2>1. Polled - ne \in Int
    BY <1>0
  <2>2. QED BY <1>1, <1>4, <2>1, ModWrap
<1>6. LastIdx(RepostStart, ne) = (Polled + QueueSize - 1) % QueueSize
  <2>1. RepostStart \in Int
    BY <1>0, <1>4, ModSlot DEF Slots
  <2>2. LastIdx(RepostStart, ne) = (RepostStart + (ne - 1)) % QueueSize
    BY <1>0, <2>1 DEF LastIdx
  <2>3. (RepostStart + (ne - 1)) % QueueSize = ((Polled - ne) + (ne - 1)) % QueueSize
    <3>1. Polled - ne \in Int /\ ne - 1 \in Int
      BY <1>0
    <3>2. QED BY <1>4, <3>1, ModAdd
  <2>4. /\ (Polled - ne) + (ne - 1) = Polled - 1
        /\ Polled + QueueSize - 1 = (Polled - 1) + QueueSize
    BY <1>0
  <2>5. (Polled - 1) % QueueSize = (Polled + QueueSize - 1) % QueueSize
    <3>1. Polled - 1 \in Int
      BY <1>0
    <3>2. QED BY <2>4, <3>1, ModWrap
  <2>6. QED BY <2>2, <2>3, <2>4, <2>5
<1>7. QED
  <2> HIDE DEF ne
  <2> QED BY <1>1, <1>3, <1>5, <1>6, PostRecvsInv

(* The request the provider takes is the next number; its link leads to    *)
(* the one after it, or is the cut one.                                    *)
LEMMA PostOneInv == IndInv /\ PostOne => IndInv'
<1> SUFFICES ASSUME IndInv, PostOne PROVE IndInv'
  OBVIOUS
<1> USE DEF IndInv
<1> DEFINE end == Polled + QueueSize
<1>0. /\ Len(wq) \in Nat /\ Len(cq) \in Nat /\ Len(printed) \in Nat
      /\ Polled \in Int /\ Posted \in Int /\ end \in Int
      /\ wq \in Seq(Slots) /\ next \in [Slots -> Slots \cup {NULL}]
  BY Types DEF TypeOK, RingTypeOK
<1>1. /\ pc = "walk" /\ wr # NULL /\ ~Failed /\ Polled = Len(printed)
      /\ Len(wq) + Len(cq) < QueueSize
      /\ last_idx = (end - 1) % QueueSize
      /\ next = [RingLinks EXCEPT ![last_idx] = NULL]
      /\ wr = Posted % QueueSize
      /\ Posted < end /\ end <= Posted + QueueSize
  <2>1. /\ pc = "walk" /\ wr # NULL /\ Len(wq) + Len(cq) < QueueSize
    BY DEF PostOne, LinkRequest
  <2>2. ~Failed /\ Polled = Len(printed)
    BY <2>1 DEF Window, Polled
  <2>3. Posted < end /\ end <= Posted + QueueSize
    BY <1>0, <2>1 DEF Posted
  <2>4. QED BY <1>0, <2>1, <2>2, <2>3 DEF RingShape
<1>2. wr \in Slots
  BY <1>0, <1>1, ModSlot
<1>3. /\ wq' = Append(wq, wr) /\ wr' = next[wr]
      /\ UNCHANGED <<next, last_idx, old>>
      /\ UNCHANGED <<nicVars, pc, server_loop, wc, i, result, printed>>
  BY DEF PostOne, LinkRequest
<1>4. /\ Len(wq') = Len(wq) + 1 /\ wq' \in Seq(Slots)
      /\ \A k \in 1 .. Len(wq) : wq'[k] = wq[k]
      /\ wq'[Len(wq) + 1] = wr
  BY <1>0, <1>2, <1>3, AppendProperties
<1>5. Polled' = Polled /\ Failed' = Failed
  BY <1>3 DEF Polled, Failed, nicVars
<1>6. Posted' = Posted + 1
  BY <1>0, <1>3, <1>4, <1>5 DEF Posted, nicVars
<1> HIDE DEF end
<1>7. wr' = IF Posted' = end THEN NULL ELSE Posted' % QueueSize
  <2>1. CASE Posted = end - 1
    <3>1. wr = last_idx
      BY <1>1, <2>1
    <3>2. wr' = NULL
      BY <1>1, <1>2, <1>3, <3>1, RingLinksType
    <3>3. QED BY <1>0, <1>6, <2>1, <3>2
  <2>2. CASE Posted < end - 1
    <3>1. Posted % QueueSize # (end - 1) % QueueSize
      <4>1. end - 1 \in Int /\ end - 1 < Posted + QueueSize
        BY <1>0, <1>1
      <4>2. QED BY <1>0, <4>1, <2>2, ModDistinct
    <3>2. wr' = RingLinks[wr]
      BY <1>1, <1>2, <1>3, <3>1, RingLinksType
    <3>3. wr' = (Posted + 1) % QueueSize
      BY <1>0, <1>1, <3>2, LinkIsSuccessor
    <3>4. QED BY <1>0, <1>6, <2>2, <3>3
  <2>3. QED BY <1>0, <1>1, <2>1, <2>2
<1>8. TypeOK'
  <2>1. wr' \in Slots \cup {NULL}
    BY <1>0, <1>2, <1>3
  <2>2. QED BY <1>3, <1>4, <2>1 DEF TypeOK, RingTypeOK, nicVars
<1>9. Numbered'
  <2>1. \A k \in 1 .. Len(wq') : wq'[k] = (Polled + Len(cq) + k - 1) % QueueSize
    <3> SUFFICES ASSUME NEW k \in 1 .. Len(wq')
                 PROVE  wq'[k] = (Polled + Len(cq) + k - 1) % QueueSize
      OBVIOUS
    <3>1. CASE k \in 1 .. Len(wq)
      BY <1>1, <1>4, <3>1 DEF Numbered
    <3>2. CASE k = Len(wq) + 1
      <4>1. Posted = Polled + Len(cq) + k - 1
        BY <1>0, <3>2 DEF Posted
      <4>2. QED BY <1>1, <1>4, <3>2, <4>1
    <3>3. QED BY <1>0, <1>4, <3>1, <3>2
  <2>2. Len(arrived') = Len(arrived)
    BY <1>3 DEF nicVars
  <2>3. QED BY <1>1, <1>3, <1>5, <2>1, <2>2 DEF Numbered, nicVars
<1>10. Contents' /\ PrintedAsDelivered'
  BY <1>3 DEF Contents, PrintedAsDelivered, nicVars
<1>11. Window'
  <2>1. Posted' <= Len(printed') + QueueSize
    BY <1>0, <1>1, <1>3, <1>6 DEF end
  <2>2. Len(wq') + Len(cq') <= QueueSize
    BY <1>0, <1>1, <1>3, <1>4 DEF nicVars
  <2>3. QED BY <1>1, <1>3, <1>5, <2>1, <2>2 DEF Window, nicVars
<1>12. RingShape'
  BY <1>1, <1>3, <1>5, <1>7 DEF RingShape, end
<1>13. Phase'
  BY <1>1, <1>3 DEF Phase
<1>14. QED BY <1>8, <1>9, <1>10, <1>11, <1>12, <1>13

(* Leaving post_recvs makes the ring whole again. *)
LEMMA Restored ==
  ASSUME IndInv, pc = "walk"
  PROVE  RestoredLinks = RingLinks
<1>1. /\ next = [RingLinks EXCEPT ![last_idx] = NULL]
      /\ old = RingLinks[last_idx]
      /\ last_idx \in Slots
  BY DEF IndInv, RingShape, TypeOK, RingTypeOK
<1>2. QED BY <1>1, RingLinksType DEF RestoredLinks

(* post_recvs returns, with all requests outstanding, or fails.            *)
LEMMA PostEndsInv == IndInv /\ (PostReturns \/ PostFails) => IndInv'
<1> SUFFICES ASSUME IndInv, PostReturns \/ PostFails PROVE IndInv'
  OBVIOUS
<1>1. /\ pc = "walk"
      /\ next' = RingLinks /\ wr' = NULL
      /\ UNCHANGED <<last_idx, old, wq, nicVars, server_loop, wc, i, printed>>
      /\ pc' \in {"loop", "cleanup"}
      /\ result' = result \/ result' = "EXIT_FAILURE"
  BY Restored DEF PostReturns, PostFails, RestoreRing
<1>2. Polled' = Polled
  BY <1>1 DEF Polled
<1>3. Posted' = Posted /\ Numbered' /\ Contents' /\ Window' /\ PrintedAsDelivered'
  BY <1>1, <1>2, MessagesUnchanged DEF nicVars
<1>4. pc' = "loop" => Posted = Polled + QueueSize
  <2> SUFFICES ASSUME pc' = "loop", Posted # Polled + QueueSize PROVE FALSE
    OBVIOUS
  <2>1. wr = NULL /\ wr = Posted % QueueSize
    BY <1>1 DEF PostReturns, PostFails, IndInv, RingShape
  <2>2. Posted % QueueSize \in Slots
    BY Types, ModSlot DEF IndInv
  <2>3. QED BY <2>1, <2>2 DEF NULL, Slots
<1>5. TypeOK'
  BY <1>1, RingLinksType DEF IndInv, TypeOK, RingTypeOK, nicVars
<1>6. (RingShape /\ Phase)'
  BY <1>1, <1>2, <1>3, <1>4 DEF RingShape, Phase
<1>7. QED BY <1>3, <1>5, <1>6 DEF IndInv

--------------------------------------------------------------------------------
(* The polling loop. *)

(* Errors of the library, the sleep, the end of the loop and SIGINT change *)
(* nothing that the invariant relates.                                     *)
LEMMA ControlInv ==
  IndInv /\ (PollFails \/ Sleep \/ LeaveLoop \/ StopLoop \/ UNCHANGED vars) => IndInv'
<1> SUFFICES ASSUME IndInv,
                    PollFails \/ Sleep \/ LeaveLoop \/ StopLoop \/ UNCHANGED vars
             PROVE  IndInv'
  OBVIOUS
<1>1. UNCHANGED <<ringVars, nicVars, wc, i, printed>>
  BY DEF PollFails, Sleep, LeaveLoop, StopLoop, vars, ringVars, nicVars
<1>2. \/ pc' = pc
      \/ pc \in {"loop", "sleep"} /\ pc' \in {"loop", "cleanup"}
  BY DEF PollFails, LoopAgain, Sleep, LeaveLoop, StopLoop, vars
<1>3. server_loop' \in BOOLEAN /\ (result' = result \/ result' = "EXIT_FAILURE")
  BY DEF PollFails, Sleep, LeaveLoop, StopLoop, vars, IndInv, TypeOK
<1>4. Polled' = Polled
  BY <1>1, <1>2 DEF Polled
<1>5. Posted' = Posted /\ Numbered' /\ Contents' /\ Window' /\ PrintedAsDelivered'
  BY <1>1, <1>2, <1>3, <1>4, MessagesUnchanged DEF ringVars, nicVars
<1>6. TypeOK'
  BY <1>1, <1>2, <1>3 DEF IndInv, TypeOK, RingTypeOK, ringVars, nicVars
<1>7. (RingShape /\ Phase)'
  BY <1>1, <1>2, <1>4, <1>5 DEF IndInv, RingShape, Phase, ringVars, nicVars
<1>8. QED BY <1>5, <1>6, <1>7 DEF IndInv

(* The poll moves the oldest completions from cq to wc. *)
LEMMA PollCqInv == IndInv /\ PollCq => IndInv'
<1> SUFFICES ASSUME IndInv, PollCq PROVE IndInv'
  OBVIOUS
<1> USE DEF IndInv
<1> DEFINE ne == BatchSize
<1>0. /\ Len(wq) \in Nat /\ Len(cq) \in Nat /\ cq \in Seq(Completion)
      /\ Len(printed) \in Nat /\ ne \in 0 .. Len(cq) /\ Posted \in Int
  BY Types DEF BatchSize
<1>1. /\ wc' = SubSeq(cq, 1, ne)
      /\ cq' = SubSeq(cq, ne + 1, Len(cq))
      /\ i' = 0
      /\ pc = "loop"
      /\ pc' = IF ne = 0 THEN "sleep" ELSE "check"
      /\ UNCHANGED <<ringVars, server_loop, data, result, qp_state, arrived, dropped,
                     printed>>
  BY DEF PollCq, LoopAgain
<1> HIDE DEF ne
<1>2. /\ wc' \in Seq(Completion) /\ Len(wc') = ne
      /\ cq' \in Seq(Completion) /\ Len(cq') = Len(cq) - ne
      /\ \A k \in 1 .. ne : wc'[k] = cq[k]
      /\ \A k \in 1 .. Len(cq) - ne : cq'[k] = cq[ne + k]
  <2>1. cq \in Seq(Completion) /\ ne \in 0 .. Len(cq)
    BY <1>0
  <2>2. /\ SubSeq(cq, 1, ne) \in Seq(Completion)
        /\ Len(SubSeq(cq, 1, ne)) = ne
        /\ \A k \in 1 .. ne : SubSeq(cq, 1, ne)[k] = cq[k]
        /\ SubSeq(cq, ne + 1, Len(cq)) \in Seq(Completion)
        /\ Len(SubSeq(cq, ne + 1, Len(cq))) = Len(cq) - ne
        /\ \A k \in 1 .. Len(cq) - ne : SubSeq(cq, ne + 1, Len(cq))[k] = cq[ne + k]
    BY <2>1, SplitSeq, Zenon
  <2>3. QED BY <1>1, <2>2, Zenon
<1>3. Polled = Len(printed) /\ Polled' = Polled + ne /\ ~Failed /\ Failed' = Failed
  <2>1. ~Failed /\ Failed' = Failed
    BY <1>1 DEF Failed, Window
  <2>2. Polled = Len(printed)
    BY <1>1 DEF Polled
  <2>3. Polled' = IF ne = 0 THEN Len(printed) ELSE Len(printed) - 0 + ne
    BY <1>1, <1>2 DEF Polled
  <2>4. QED BY <1>0, <2>1, <2>2, <2>3
<1>4. Polled' + Len(cq') = Polled + Len(cq) /\ wq' = wq /\ Posted' = Posted
  <2>1. Polled' + Len(cq') = Polled + Len(cq)
    BY <1>0, <1>2, <1>3
  <2>2. wq' = wq
    BY <1>1 DEF ringVars
  <2>3. QED BY <2>1, <2>2 DEF Posted
<1>5. TypeOK'
  BY <1>0, <1>1, <1>2 DEF TypeOK, RingTypeOK, ringVars
<1>6. Numbered'
  <2>1. Len(arrived') = Len(arrived)
    BY <1>1
  <2>2. \A k \in 1 .. Len(cq) : cq[k] = Done(Polled + k - 1, Len(arrived))
    BY <1>3 DEF Numbered
  <2>3. \A k \in 1 .. Len(wc') : wc'[k] = Done(Polled' - Len(wc') + k - 1, Len(arrived))
    <3> SUFFICES ASSUME NEW k \in 1 .. ne
                 PROVE  wc'[k] = Done(Polled' - ne + k - 1, Len(arrived))
      BY <1>2
    <3>1. k \in 1 .. Len(cq) /\ Polled' - ne + k - 1 = Polled + k - 1
      BY <1>0, <1>3
    <3>2. QED BY <1>2, <2>2, <3>1
  <2>4. \A k \in 1 .. Len(cq') : cq'[k] = Done(Polled' + k - 1, Len(arrived))
    <3> SUFFICES ASSUME NEW k \in 1 .. Len(cq) - ne
                 PROVE  cq'[k] = Done(Polled' + k - 1, Len(arrived))
      BY <1>2
    <3>1. ne + k \in 1 .. Len(cq) /\ Polled' + k - 1 = Polled + (ne + k) - 1
      BY <1>0, <1>3
    <3>2. QED BY <1>2, <2>2, <3>1
  <2>5. \A k \in 1 .. Len(wq') : wq'[k] = (Polled' + Len(cq') + k - 1) % QueueSize
    BY <1>3, <1>4 DEF Numbered
  <2>6. QED BY <2>1, <2>3, <2>4, <2>5 DEF Numbered
<1>7. Contents' /\ PrintedAsDelivered'
  BY <1>1 DEF Contents, PrintedAsDelivered
<1>8. Window'
  <2>1. Len(wq') + Len(cq') <= QueueSize
    BY <1>0, <1>2, <1>4 DEF Window
  <2>2. QED BY <1>1, <1>3, <1>4, <2>1 DEF Window
<1>9. RingShape'
  BY <1>1 DEF RingShape, ringVars
<1>10. Phase'
  <2>1. Posted = Polled + QueueSize
    BY <1>1 DEF Phase
  <2>2. ne # 0 => wc' # << >>
    BY <1>2
  <2>3. Posted' = Polled' + QueueSize - ne
    BY <1>0, <1>3, <1>4, <2>1
  <2>4. Posted' = Polled' + QueueSize \/ ne # 0
    BY <1>0, <2>3
  <2>5. pc' \in {"sleep", "check"} /\ (pc' = "check" => ne # 0) /\ (pc' = "sleep" => ne = 0)
    BY <1>1
  <2>6. i' <= Len(wc')
    BY <1>0, <1>1, <1>2
  <2>7. QED BY <1>2, <2>2, <2>3, <2>4, <2>5, <2>6 DEF Phase
<1>11. QED BY <1>5, <1>6, <1>7, <1>8, <1>9, <1>10

(* The completion whose line is printed next is that of the request whose  *)
(* number is the number of lines printed.                                  *)
LEMMA PrintedCompletion ==
  ASSUME IndInv, pc = "check", i < Len(wc)
  PROVE  /\ wc[i + 1] = Done(Len(printed), Len(arrived))
         /\ Len(printed) <= Len(arrived)
         /\ qp_state = "RTR" => Len(printed) < Len(arrived)
<1>0. /\ Len(wc) \in Nat /\ i \in Nat /\ Len(printed) \in Nat /\ Len(arrived) \in Nat
      /\ Len(cq) \in Nat
  BY Types DEF IndInv
<1>1. ~Failed
  BY DEF IndInv, Window
<1>2. /\ i + 1 \in 1 .. Len(wc) /\ Polled - Len(wc) + (i + 1) - 1 = Len(printed)
      /\ Len(printed) < Polled
  BY <1>0 DEF Polled
<1>3. wc[i + 1] = Done(Polled - Len(wc) + (i + 1) - 1, Len(arrived))
  BY <1>1, <1>2 DEF IndInv, Numbered
<1>4. qp_state = "RTR" => Polled + Len(cq) = Len(arrived)
  BY DEF IndInv, Window
<1>5. Polled \in Int
  BY Types DEF IndInv
<1>6. QED BY <1>0, <1>1, <1>2, <1>3, <1>4, <1>5 DEF Failed

(* The line printed shows the oldest datagram that has not been printed;   *)
(* that of a failed receive ends the loop.                                 *)
LEMMA PrintMessageInv == IndInv /\ PrintMessage => IndInv'
<1> SUFFICES ASSUME IndInv, PrintMessage PROVE IndInv'
  OBVIOUS
<1> USE DEF IndInv
<1> DEFINE n    == Len(printed)
           slot == wc[i + 1].wr_id
           line == [wr_id |-> slot, index |-> SignedChar(data[slot])]
           ok   == wc[i + 1].status = "SUCCESS"
<1>0. /\ Len(wc) \in Nat /\ i \in Nat /\ n \in Nat /\ Len(arrived) \in Nat
      /\ Len(cq) \in Nat /\ Len(wq) \in Nat /\ Polled \in Int /\ Posted \in Int
      /\ data \in [Slots -> 0 .. ByteRange - 1]
  BY Types
<1>1. /\ pc = "check" /\ i < Len(wc)
      /\ printed' = Append(printed, line)
      /\ \/ ok /\ i' = i + 1 /\ pc' = pc /\ result' = result
         \/ ~ok /\ result' = "EXIT_FAILURE" /\ pc' = "cleanup" /\ i' = i
      /\ UNCHANGED <<ringVars, nicVars, server_loop, wc>>
  BY DEF PrintMessage
<1>2. /\ slot = n % QueueSize /\ slot \in Slots
      /\ ok <=> n < Len(arrived)
      /\ n <= Len(arrived)
      /\ qp_state = "RTR" => n < Len(arrived)
  <2>1. /\ wc[i + 1] = Done(n, Len(arrived))
        /\ n <= Len(arrived)
        /\ qp_state = "RTR" => n < Len(arrived)
    BY <1>1, PrintedCompletion
  <2>2. n % QueueSize \in Slots
    BY <1>0, ModSlot
  <2>3. slot = n % QueueSize /\ (ok <=> n < Len(arrived))
    BY <2>1 DEF Done
  <2>4. QED BY <2>1, <2>2, <2>3
<1>3. /\ line \in [wr_id: Slots, index: -(ByteRange \div 2) .. (ByteRange - 1) \div 2]
      /\ ok => line = [wr_id |-> n % QueueSize, index |-> SignedChar(arrived[n + 1])]
  <2>1. data[slot] \in 0 .. ByteRange - 1
    BY <1>0, <1>2
  <2>2. SignedChar(data[slot]) \in -(ByteRange \div 2) .. (ByteRange - 1) \div 2
    BY <2>1, SignedCharType
  <2>3. ok => data[slot] = arrived[n + 1]
    <3>1. ok => n \in Len(printed) .. Len(arrived) - 1
      BY <1>0, <1>2
    <3>2. \A m \in Len(printed) .. Len(arrived) - 1 : data[m % QueueSize] = arrived[m + 1]
      BY DEF Contents
    <3>3. QED BY <1>2, <3>1, <3>2
  <2>4. QED BY <1>2, <2>2, <2>3
<1> HIDE DEF line, slot, ok
<1>4. /\ printed' \in Seq([wr_id: Slots, index: -(ByteRange \div 2) .. (ByteRange - 1) \div 2])
      /\ Len(printed') = n + 1
      /\ \A k \in 1 .. n : printed'[k] = printed[k]
      /\ printed'[n + 1] = line
  <2> DEFINE L == [wr_id: Slots, index: -(ByteRange \div 2) .. (ByteRange - 1) \div 2]
  <2>1. printed \in Seq(L) /\ line \in L
    BY <1>3 DEF TypeOK
  <2> HIDE DEF L
  <2>2. printed' \in Seq(L) /\ Len(printed') = n + 1
        /\ (\A k \in 1 .. n : printed'[k] = printed[k]) /\ printed'[n + 1] = line
    BY <1>1, <2>1, AppendProperties
  <2>3. QED BY <2>2 DEF L
<1>5. TypeOK'
  <2>1. /\ UNCHANGED <<next, last_idx, old, wr, wq>>
        /\ UNCHANGED <<cq, wc, data, qp_state, arrived, dropped, server_loop>>
    BY <1>1 DEF ringVars, nicVars
  <2>2. i' \in Nat /\ pc' \in {"check", "cleanup"}
        /\ result' \in {"EXIT_SUCCESS", "EXIT_FAILURE"}
    BY <1>0, <1>1 DEF TypeOK
  <2>3. QED BY <1>4, <2>1, <2>2 DEF TypeOK, RingTypeOK
<1>6. UNCHANGED <<wq, cq, wc, data, arrived, qp_state, next>>
  BY <1>1 DEF ringVars, nicVars
<1>7. ~Failed
  BY <1>0, <1>2 DEF Failed
<1>8. PrintedAsDelivered'
  <2>1. ASSUME NEW k \in 1 .. Len(printed'), k <= Len(arrived')
        PROVE  printed'[k] = [wr_id |-> (k - 1) % QueueSize,
                              index |-> SignedChar(arrived'[k])]
    <3>1. CASE k \in 1 .. n
      BY <1>4, <1>6, <2>1, <3>1 DEF PrintedAsDelivered
    <3>2. CASE k = n + 1
      <4>1. ok /\ k - 1 = n
        BY <1>0, <1>2, <1>6, <2>1, <3>2
      <4>2. line = [wr_id |-> (k - 1) % QueueSize, index |-> SignedChar(arrived[k])]
        BY <1>3, <3>2, <4>1
      <4>3. SignedChar(arrived'[k]) = SignedChar(arrived[k])
        BY <1>6
      <4>4. printed'[k] = line
        BY <1>4, <3>2
      <4>5. QED BY <4>2, <4>3, <4>4, Zenon
    <3>3. k \in 1 .. n \/ k = n + 1
      BY <1>0, <1>4
    <3>4. QED BY <3>1, <3>2, <3>3, Zenon
  <2>2. Len(printed') <= Len(arrived') + (IF result' = "EXIT_FAILURE" THEN 1 ELSE 0)
    <3>1. Len(arrived') = Len(arrived)
      BY <1>6
    <3>2. ~ok => result' = "EXIT_FAILURE"
      BY <1>1
    <3>3. Len(printed') = n + 1 /\ (ok => n + 1 <= Len(arrived)) /\ n + 1 <= Len(arrived) + 1
      BY <1>0, <1>2, <1>4
    <3>4. QED BY <1>0, <3>1, <3>2, <3>3
  <2>3. QED BY <2>1, <2>2 DEF PrintedAsDelivered
<1>9. Contents'
  <2>1. \A m \in n .. Len(arrived) - 1 : data[m % QueueSize] = arrived[m + 1]
    BY DEF Contents
  <2>2. \A m \in n + 1 .. Len(arrived) - 1 : m \in n .. Len(arrived) - 1
    BY <1>0
  <2>3. \A m \in Len(printed') .. Len(arrived') - 1 : data'[m % QueueSize] = arrived'[m + 1]
    BY <1>4, <1>6, <2>1, <2>2
  <2>4. QED BY <2>3 DEF Contents
<1>10. CASE ok
  <2>1. i' = i + 1 /\ pc' = "check" /\ result' = result
    BY <1>1, <1>10
  <2>2. Polled' = Polled /\ ~Failed' /\ n < Len(arrived)
    <3>1. Len(printed') - i' + Len(wc') = n - i + Len(wc)
      BY <1>0, <1>4, <1>6, <2>1
    <3>2. QED BY <1>0, <1>1, <1>2, <1>4, <1>6, <1>10, <2>1, <3>1 DEF Polled, Failed
  <2>3. Posted' = Posted
    BY <1>6, <2>2 DEF Posted
  <2>4. Numbered'
    <3>1. Len(arrived') = Len(arrived)
      BY <1>6
    <3>2. QED BY <1>1, <1>6, <1>7, <2>2, <3>1 DEF Numbered
  <2>5. Window'
    <3>1. Len(printed') = n + 1 /\ UNCHANGED <<wq, cq, qp_state>> /\ Len(arrived') = Len(arrived)
      BY <1>4, <1>6
    <3>2. Posted <= n + QueueSize /\ n + QueueSize <= (n + 1) + QueueSize
      BY <1>0, <1>7 DEF Window
    <3>3. ~Failed' => Posted' <= Len(printed') + QueueSize
      BY <1>0, <2>3, <3>1, <3>2
    <3>4. QED BY <1>1, <2>1, <2>2, <3>1, <3>3 DEF Window
  <2>6. (RingShape /\ Phase)'
    BY <1>0, <1>1, <1>6, <2>1, <2>2, <2>3 DEF RingShape, Phase
  <2>7. QED BY <1>5, <1>8, <1>9, <2>4, <2>5, <2>6
<1>11. CASE ~ok
  <2>1. pc' = "cleanup" /\ result' = "EXIT_FAILURE" /\ n = Len(arrived) /\ qp_state = "ERR"
    BY <1>0, <1>1, <1>2, <1>11 DEF TypeOK
  <2>2. Failed' /\ Polled' = n + 1
    BY <1>0, <1>4, <1>6, <2>1 DEF Failed, Polled
  <2>3. Numbered'
    BY <2>2 DEF Numbered
  <2>4. Window'
    BY <1>0, <1>4, <1>6, <2>1, <2>2 DEF Window
  <2>5. (RingShape /\ Phase)'
    BY <1>1, <1>6, <2>1 DEF RingShape, Phase
  <2>6. QED BY <1>5, <1>8, <1>9, <2>3, <2>4, <2>5
<1>12. QED BY <1>10, <1>11

(* Cleanup discards the queues. *)
LEMMA CleanupInv == IndInv /\ Cleanup => IndInv'
<1> SUFFICES ASSUME IndInv, Cleanup PROVE IndInv'
  OBVIOUS
<1> USE DEF IndInv
<1>0. /\ Len(wq) \in Nat /\ Len(cq) \in Nat /\ Len(printed) \in Nat /\ Len(arrived) \in Nat
  BY Types
<1>1. /\ wq' = << >> /\ cq' = << >> /\ Len(wq') = 0 /\ Len(cq') = 0
      /\ pc = "cleanup" /\ pc' = "exited"
      /\ result' = result \/ result' = "EXIT_FAILURE"
      /\ UNCHANGED <<next, last_idx, old, wr, server_loop, data, wc, i, qp_state,
                     arrived, dropped, printed>>
  BY DEF Cleanup
<1>2. TypeOK'
  BY <1>1 DEF TypeOK, RingTypeOK
<1>3. Polled' = Len(printed) /\ Posted' = Len(printed) /\ Failed' = Failed
  BY <1>0, <1>1 DEF Polled, Posted, Failed
<1>4. (Numbered /\ Contents)'
  BY <1>1 DEF Numbered, Contents
<1>5. PrintedAsDelivered'
  BY <1>0, <1>1 DEF PrintedAsDelivered
<1>6. Window'
  BY <1>0, <1>1, <1>3 DEF Window
<1>7. (RingShape /\ Phase)'
  BY <1>1 DEF RingShape, Phase
<1>8. QED BY <1>2, <1>4, <1>5, <1>6, <1>7

--------------------------------------------------------------------------------
(* The adapter. *)

(* A request that completes moves from the head of wq to the tail of cq    *)
(* and keeps its number.                                                   *)
LEMMA CompletionMoves ==
  ASSUME IndInv, wq # << >>, NEW status \in {"SUCCESS", "ERROR"},
         cq' = Append(cq, [wr_id |-> Head(wq), status |-> status]),
         wq' = Tail(wq),
         UNCHANGED <<pc, printed, wc, i>>
  PROVE  /\ cq' \in Seq(Completion) /\ wq' \in Seq(Slots)
         /\ Len(cq') = Len(cq) + 1 /\ Len(wq') = Len(wq) - 1
         /\ \A k \in 1 .. Len(cq) : cq'[k] = cq[k]
         /\ cq'[Len(cq) + 1] = [wr_id |-> Head(wq), status |-> status]
         /\ \A k \in 1 .. Len(wq') : wq'[k] = wq[k + 1]
         /\ Head(wq) = wq[1] /\ 1 \in 1 .. Len(wq)
         /\ Polled' = Polled /\ Posted' = Posted
<1> DEFINE c == [wr_id |-> Head(wq), status |-> status]
<1>0. /\ Len(wq) \in Nat /\ Len(cq) \in Nat /\ Polled \in Int
      /\ wq \in Seq(Slots) /\ cq \in Seq(Completion)
  BY Types DEF IndInv
<1>1. /\ Head(wq) \in Slots /\ wq' \in Seq(Slots)
      /\ Len(wq') = Len(wq) - 1
      /\ \A k \in 1 .. Len(wq') : wq'[k] = wq[k + 1]
  BY <1>0, HeadTailProperties
<1>2. c \in Completion /\ Head(wq) = wq[1] /\ 1 \in 1 .. Len(wq)
  BY <1>0, <1>1 DEF Completion
<1>3. /\ cq' \in Seq(Completion)
      /\ Len(cq') = Len(cq) + 1
      /\ \A k \in 1 .. Len(cq) : cq'[k] = cq[k]
      /\ cq'[Len(cq) + 1] = c
  BY <1>0, <1>2, AppendProperties
<1>4. Polled' = Polled
  BY DEF Polled
<1>5. Posted' = Posted
  BY <1>0, <1>1, <1>3, <1>4 DEF Posted
<1>6. QED BY <1>1, <1>2, <1>3, <1>4, <1>5

(* The head of wq is the request that follows those of cq.                 *)
LEMMA HeadNumber ==
  ASSUME IndInv, wq # << >>, ~Failed
  PROVE  /\ Head(wq) = (Polled + Len(cq)) % QueueSize
         /\ Polled + Len(cq) < Posted
<1>0. /\ Len(wq) \in Nat /\ Len(cq) \in Nat /\ Polled \in Int /\ wq \in Seq(Slots)
  BY Types DEF IndInv
<1>1. 1 \in 1 .. Len(wq) /\ Head(wq) = wq[1] /\ Polled + Len(cq) + 1 - 1 = Polled + Len(cq)
  BY <1>0
<1>2. wq[1] = (Polled + Len(cq) + 1 - 1) % QueueSize
  BY <1>1 DEF IndInv, Numbered
<1>3. QED BY <1>0, <1>1, <1>2 DEF Posted

(* The numbering of the queues after a completion, if the completions that *)
(* were there keep their meaning and the new one has the right status.     *)
LEMMA NumberingKept ==
  ASSUME IndInv, wq # << >>, NEW status \in {"SUCCESS", "ERROR"},
         cq' = Append(cq, [wr_id |-> Head(wq), status |-> status]),
         wq' = Tail(wq),
         UNCHANGED <<pc, printed, wc, i>>,
         ~Failed,
         \A n \in Int : n < Polled + Len(cq) =>
                          Done(n, Len(arrived')) = Done(n, Len(arrived)),
         Done(Polled + Len(cq), Len(arrived')).status = status
  PROVE  Numbered'
<1> DEFINE a == Len(arrived)
           b == Len(arrived')
<1>0. /\ Len(wq) \in Nat /\ Len(cq) \in Nat /\ Len(wc) \in Nat /\ Polled \in Int
  BY Types DEF IndInv
<1>1. /\ Len(cq') = Len(cq) + 1 /\ Len(wq') = Len(wq) - 1
      /\ \A k \in 1 .. Len(cq) : cq'[k] = cq[k]
      /\ cq'[Len(cq) + 1] = [wr_id |-> Head(wq), status |-> status]
      /\ \A k \in 1 .. Len(wq') : wq'[k] = wq[k + 1]
      /\ Polled' = Polled
  BY CompletionMoves
<1>2. cq'[Len(cq) + 1] = Done(Polled + Len(cq), b)
  <2>1. Head(wq) = (Polled + Len(cq)) % QueueSize
    BY HeadNumber
  <2>2. QED BY <1>1, <2>1 DEF Done
<1>3. ASSUME pc' = "check", NEW k \in 1 .. Len(wc')
      PROVE  wc'[k] = Done(Polled' - Len(wc') + k - 1, b)
  <2> DEFINE n == Polled - Len(wc) + k - 1
  <2>1. k \in 1 .. Len(wc) /\ n \in Int /\ n < Polled + Len(cq)
    BY <1>0, <1>3
  <2>2. wc[k] = Done(n, a)
    BY <1>3, <2>1 DEF IndInv, Numbered
  <2>3. Done(n, b) = Done(n, a)
    BY <2>1
  <2>4. n = Polled' - Len(wc') + k - 1
    BY <1>1
  <2>5. QED BY <2>2, <2>3, <2>4
<1>4. ASSUME NEW k \in 1 .. Len(cq')
      PROVE  cq'[k] = Done(Polled' + k - 1, b)
  <2> DEFINE n == Polled + k - 1
  <2>1. n = Polled' + k - 1
    BY <1>1
  <2>2. CASE k \in 1 .. Len(cq)
    <3>1. n \in Int /\ n < Polled + Len(cq)
      BY <1>0, <2>2
    <3>2. cq[k] = Done(n, a)
      BY <2>2 DEF IndInv, Numbered
    <3>3. Done(n, b) = Done(n, a)
      BY <3>1
    <3>4. cq'[k] = cq[k]
      BY <1>1, <2>2
    <3>5. QED BY <2>1, <3>2, <3>3, <3>4
  <2>3. CASE k = Len(cq) + 1
    <3>1. n = Polled + Len(cq)
      BY <1>0, <2>3
    <3>2. QED BY <1>2, <2>1, <2>3, <3>1
  <2>4. k \in 1 .. Len(cq) \/ k = Len(cq) + 1
    BY <1>0, <1>1
  <2>5. QED BY <2>2, <2>3, <2>4
<1>5. ASSUME NEW k \in 1 .. Len(wq')
      PROVE  wq'[k] = (Polled' + Len(cq') + k - 1) % QueueSize
  <2>1. /\ k + 1 \in 1 .. Len(wq)
        /\ Polled + Len(cq) + (k + 1) - 1 = Polled' + Len(cq') + k - 1
    <3>1. Len(cq') = Len(cq) + 1 /\ Len(wq') = Len(wq) - 1 /\ Polled' = Polled
      BY <1>1
    <3>2. k \in 1 .. Len(wq) - 1
      BY <3>1
    <3>3. QED BY <1>0, <3>1, <3>2
  <2>2. wq[k + 1] = (Polled + Len(cq) + (k + 1) - 1) % QueueSize
    BY <2>1 DEF IndInv, Numbered
  <2>3. QED BY <1>1, <2>1, <2>2
<1>6. QED BY <1>3, <1>4, <1>5 DEF Numbered

(* A datagram goes into the buffer of a message that has been printed, and *)
(* is the next one to be completed.                                        *)
LEMMA NicReceiveInv ==
  ASSUME IndInv, NEW payload \in Payloads, NicReceive(payload)
  PROVE  IndInv'
<1> USE DEF IndInv
<1> DEFINE n == Len(arrived)
           b == Head(wq)
<1>0. /\ Len(wq) \in Nat /\ Len(cq) \in Nat /\ Len(wc) \in Nat /\ i \in Nat
      /\ Len(printed) \in Nat /\ n \in Nat
      /\ Polled \in Int /\ Posted \in Int
      /\ data \in [Slots -> 0 .. ByteRange - 1] /\ arrived \in Seq(0 .. ByteRange - 1)
      /\ payload \in 0 .. ByteRange - 1
  BY Types
<1>1. /\ qp_state = "RTR" /\ wq # << >>
      /\ data' = [data EXCEPT ![b] = payload]
      /\ cq' = Append(cq, [wr_id |-> b, status |-> "SUCCESS"])
      /\ wq' = Tail(wq)
      /\ arrived' = Append(arrived, payload)
      /\ UNCHANGED <<next, last_idx, old, wr, pc, server_loop, wc, i, result, qp_state,
                     dropped, printed>>
  BY DEF NicReceive
<1>2. /\ ~Failed /\ pc # "exited" /\ Polled + Len(cq) = n
      /\ b = n % QueueSize /\ b \in Slots
      /\ n < Len(printed) + QueueSize
  <2>1. ~Failed /\ pc # "exited"
    BY <1>1 DEF Window, Phase
  <2>2. Polled + Len(cq) = n /\ Posted <= Len(printed) + QueueSize
    BY <1>1, <2>1 DEF Window
  <2>3. b = n % QueueSize /\ n < Posted
    BY <1>1, <2>1, <2>2, HeadNumber
  <2>4. n % QueueSize \in Slots
    BY <1>0, ModSlot
  <2>5. QED BY <1>0, <2>1, <2>2, <2>3, <2>4
<1>3. /\ cq' \in Seq(Completion) /\ wq' \in Seq(Slots)
      /\ Len(cq') = Len(cq) + 1 /\ Len(wq') = Len(wq) - 1
      /\ Polled' = Polled /\ Posted' = Posted
  BY <1>1, CompletionMoves
<1>4. /\ arrived' \in Seq(0 .. ByteRange - 1) /\ Len(arrived') = n + 1
      /\ \A k \in 1 .. n : arrived'[k] = arrived[k]
      /\ arrived'[n + 1] = payload
  BY <1>0, <1>1, AppendProperties
<1>5. TypeOK'
  <2>1. data' \in [Slots -> 0 .. ByteRange - 1]
    BY <1>0, <1>1
  <2>2. QED BY <1>1, <1>3, <1>4, <2>1 DEF TypeOK, RingTypeOK
<1>6. ~Failed'
  BY <1>0, <1>1, <1>2, <1>4 DEF Failed
<1>7. Numbered'
  <2>1. \A m \in Int : m < n => Done(m, n + 1) = Done(m, n)
    BY <1>0 DEF Done
  <2>2. Done(n, n + 1).status = "SUCCESS"
    BY <1>0 DEF Done
  <2>3. /\ \A m \in Int : m < Polled + Len(cq) =>
                            Done(m, Len(arrived')) = Done(m, Len(arrived))
        /\ Done(Polled + Len(cq), Len(arrived')).status = "SUCCESS"
    BY <1>2, <1>4, <2>1, <2>2
  <2>4. QED BY <1>1, <1>2, <2>3, NumberingKept
<1>8. Contents'
  <2> SUFFICES ASSUME NEW m \in Len(printed') .. Len(arrived') - 1
               PROVE  data'[m % QueueSize] = arrived'[m + 1]
    BY DEF Contents
  <2>1. CASE m = n
    BY <1>0, <1>1, <1>2, <1>4, <2>1
  <2>2. CASE m # n
    <3>1. m \in Int /\ m < n /\ n < m + QueueSize /\ m \in Len(printed) .. n - 1
      <4>1. m \in Len(printed) .. n + 1 - 1 /\ n < Len(printed) + QueueSize
        BY <1>1, <1>2, <1>4
      <4> DEFINE a == Len(printed)
      <4>2. a \in Nat /\ n \in Int /\ m \in a .. n + 1 - 1 /\ n < a + QueueSize
        BY <1>0, <4>1
      <4> HIDE DEF a
      <4>3. m \in Int /\ a <= m /\ m < n /\ n < m + QueueSize
        BY <2>2, <4>2, QueueSizeAssumption
      <4>4. QED BY <4>2, <4>3 DEF a
    <3>2. m % QueueSize # n % QueueSize /\ m % QueueSize \in Slots
      BY <1>0, <3>1, ModDistinct, ModSlot
    <3>3. data'[m % QueueSize] = data[m % QueueSize]
      BY <1>0, <1>1, <1>2, <3>2
    <3>4. data[m % QueueSize] = arrived[m + 1]
      BY <3>1 DEF Contents
    <3>5. arrived'[m + 1] = arrived[m + 1]
      BY <1>0, <1>4, <3>1
    <3>6. QED BY <3>3, <3>4, <3>5
  <2>3. QED BY <2>1, <2>2
<1>9. Window'
  <2>1. Polled' + Len(cq') = Len(arrived') /\ Len(wq') + Len(cq') <= QueueSize
    <3>1. /\ Len(cq') = Len(cq) + 1 /\ Len(wq') = Len(wq) - 1 /\ Polled' = Polled
          /\ Len(arrived') = n + 1 /\ Polled + Len(cq) = n
      BY <1>2, <1>3, <1>4
    <3>2. Len(wq) + Len(cq) <= QueueSize
      BY DEF Window
    <3>3. /\ Polled + (Len(cq) + 1) = Polled + Len(cq) + 1
          /\ (Len(wq) - 1) + (Len(cq) + 1) = Len(wq) + Len(cq)
      BY <1>0
    <3>4. QED BY <3>1, <3>2, <3>3
  <2>2. Posted' <= Len(printed') + QueueSize
    BY <1>1, <1>2, <1>3 DEF Window
  <2>3. Len(arrived') \in Int
    BY <1>0, <1>4
  <2>4. QED BY <1>6, <2>1, <2>2, <2>3 DEF Window
<1>10. (RingShape /\ Phase)'
  BY <1>1, <1>2, <1>3 DEF RingShape, Phase
<1>11. PrintedAsDelivered'
  <2>1. ASSUME NEW k \in 1 .. Len(printed')
        PROVE  printed'[k] = [wr_id |-> (k - 1) % QueueSize,
                              index |-> SignedChar(arrived'[k])]
    <3>1. k \in 1 .. Len(printed) /\ k <= n /\ k \in 1 .. n
      BY <1>0, <1>1, <1>2 DEF Failed
    <3>2. printed[k] = [wr_id |-> (k - 1) % QueueSize, index |-> SignedChar(arrived[k])]
      BY <3>1 DEF PrintedAsDelivered
    <3>3. printed'[k] = printed[k] /\ arrived'[k] = arrived[k]
      BY <1>1, <1>4, <3>1
    <3>4. QED BY <3>2, <3>3
  <2>2. Len(printed') <= Len(arrived') + (IF result' = "EXIT_FAILURE" THEN 1 ELSE 0)
    BY <1>0, <1>1, <1>2, <1>4 DEF Failed
  <2>3. QED BY <2>1, <2>2 DEF PrintedAsDelivered
<1>12. QED BY <1>5, <1>7, <1>8, <1>9, <1>10, <1>11

(* A dropped datagram changes nothing but the count of them. *)
LEMMA NicDropInv == IndInv /\ NicDrop => IndInv'
<1> SUFFICES ASSUME IndInv, NicDrop PROVE IndInv'
  OBVIOUS
<1>1. /\ dropped' = dropped + 1
      /\ UNCHANGED <<ringVars, pc, server_loop, data, wc, i, result, cq, qp_state,
                     arrived, printed>>
  BY DEF NicDrop
<1>2. Polled' = Polled
  BY <1>1 DEF Polled
<1>3. Posted' = Posted /\ Numbered' /\ Contents' /\ Window' /\ PrintedAsDelivered'
  BY <1>1, <1>2, MessagesUnchanged DEF ringVars
<1>4. TypeOK'
  BY <1>1 DEF IndInv, TypeOK, RingTypeOK, ringVars
<1>5. (RingShape /\ Phase)'
  BY <1>1, <1>2, <1>3 DEF IndInv, RingShape, Phase, ringVars
<1>6. QED BY <1>3, <1>4, <1>5 DEF IndInv

(* A failed receive is completed without a datagram, and no datagram       *)
(* arrives after it.                                                       *)
LEMMA NicFailInv == IndInv /\ NicFail => IndInv'
<1> SUFFICES ASSUME IndInv, NicFail PROVE IndInv'
  OBVIOUS
<1> USE DEF IndInv
<1>0. /\ Len(wq) \in Nat /\ Len(cq) \in Nat /\ Len(printed) \in Nat
      /\ Len(arrived) \in Nat /\ Polled \in Int /\ Posted \in Int
  BY Types
<1>1. /\ wq # << >>
      /\ cq' = Append(cq, [wr_id |-> Head(wq), status |-> "ERROR"])
      /\ wq' = Tail(wq)
      /\ qp_state' = "ERR"
      /\ UNCHANGED <<next, last_idx, old, wr, pc, server_loop, data, wc, i, result,
                     arrived, dropped, printed>>
  BY DEF NicFail
<1>2. /\ cq' \in Seq(Completion) /\ wq' \in Seq(Slots)
      /\ Len(cq') = Len(cq) + 1 /\ Len(wq') = Len(wq) - 1
      /\ Polled' = Polled /\ Posted' = Posted
  BY <1>1, CompletionMoves
<1>3. pc # "exited" /\ Polled + Len(cq) >= Len(arrived) /\ Failed' = Failed
  BY <1>1 DEF Window, Phase, Failed
<1>4. TypeOK'
  BY <1>1, <1>2 DEF TypeOK, RingTypeOK
<1>5. Numbered'
  <2>1. CASE Failed
    BY <1>3, <2>1 DEF Numbered
  <2>2. CASE ~Failed
    <3>1. Done(Polled + Len(cq), Len(arrived')).status = "ERROR"
      BY <1>0, <1>1, <1>3 DEF Done
    <3>2. QED BY <1>1, <2>2, <3>1, NumberingKept
  <2>3. QED BY <2>1, <2>2
<1>6. (Contents /\ PrintedAsDelivered)'
  BY <1>1 DEF Contents, PrintedAsDelivered
<1>7. Window'
  <2>1. Len(wq') + Len(cq') <= QueueSize /\ Polled' + Len(cq') >= Len(arrived')
    BY <1>0, <1>1, <1>2, <1>3 DEF Window
  <2>2. QED BY <1>1, <1>2, <1>3, <2>1 DEF Window
<1>8. (RingShape /\ Phase)'
  BY <1>1, <1>2, <1>3 DEF RingShape, Phase
<1>9. QED BY <1>4, <1>5, <1>6, <1>7, <1>8

--------------------------------------------------------------------------------
(* Every step of the server, of the adapter and of SIGINT preserves the    *)
(* inductive invariant.                                                    *)
LEMMA NextInv == IndInv /\ [Next]_vars => IndInv'
<1> SUFFICES ASSUME IndInv, [Next]_vars PROVE IndInv'
  OBVIOUS
<1>1. CASE Program
  BY <1>1, PostAllInv, PostCompletedInv, PostOneInv, PostEndsInv, PollCqInv,
     PrintMessageInv, ControlInv, CleanupInv DEF Program
<1>2. CASE LibraryFails
  BY <1>2, PostEndsInv, ControlInv DEF LibraryFails
<1>3. CASE StopLoop
  BY <1>3, ControlInv
<1>4. CASE Arrive
  BY <1>4, NicReceiveInv, NicDropInv DEF Arrive
<1>5. CASE NicFail
  BY <1>5, NicFailInv
<1>6. CASE Exited \/ UNCHANGED vars
  BY <1>6, ControlInv DEF Exited
<1>7. QED BY <1>1, <1>2, <1>3, <1>4, <1>5, <1>6 DEF Next

(* The queues, the buffers, the ring and the loop of rdma_server.c stay in *)
(* step (IndInv), for every ring size and every batch size.                *)
THEOREM ServerInvariance == Spec => []IndInv
<1>1. QED BY InitInv, NextInv, PTL DEF Spec

(* Every variable of the server and of its adapter keeps its type. *)
THEOREM ServerTypeCorrect == Spec => []TypeOK
<1>1. IndInv => TypeOK
  BY DEF IndInv
<1>2. QED BY ServerInvariance, <1>1, PTL

(* rdma_server prints the datagrams placed into its buffers in order, each *)
(* once and as it arrived; only a failed receive adds a line, the last.    *)
THEOREM PrintsCorrect == Spec => []PrintedAsDelivered
<1>1. IndInv => PrintedAsDelivered
  BY DEF IndInv
<1>2. QED BY ServerInvariance, <1>1, PTL

(* The receive queue and the completion queue never overflow: the provider *)
(* has room for every request post_recvs hands it.                         *)
THEOREM ServerQueuesBounded == Spec => []NoQueueOverrun
<1>1. IndInv => NoQueueOverrun
  <2> SUFFICES ASSUME IndInv PROVE NoQueueOverrun
    OBVIOUS
  <2>1. Len(wq) \in Nat /\ Len(cq) \in Nat /\ Polled \in Int
    BY Types DEF IndInv
  <2>2. Len(wq) + Len(cq) <= QueueSize
    BY DEF IndInv, Window
  <2>3. ASSUME pc = "walk", wr # NULL
        PROVE  Len(wq) + Len(cq) < QueueSize
    <3>1. Posted # Polled + QueueSize
      BY <2>3 DEF IndInv, RingShape
    <3>2. QED BY <2>1, <2>2, <3>1 DEF Posted
  <2>4. QED BY <2>2, <2>3 DEF NoQueueOverrun
<1>2. QED BY ServerInvariance, <1>1, PTL

(* Between two rounds of the polling loop every receive request is posted  *)
(* or completed, exactly once.                                             *)
THEOREM ServerRequestsConserved == Spec => []AllRequestsOutstanding
<1>1. IndInv => AllRequestsOutstanding
  <2> SUFFICES ASSUME IndInv, pc \in {"loop", "sleep"}
               PROVE  /\ Len(wq) + Len(cq) = QueueSize
                      /\ InQueue \cup Unprinted = Slots
    BY DEF AllRequestsOutstanding
  <2>1. /\ Len(wq) \in Nat /\ Len(cq) \in Nat /\ Polled \in Int /\ Posted \in Int
        /\ wq \in Seq(Slots) /\ cq \in Seq(Completion)
    BY Types DEF IndInv
  <2>2. Len(wq) + Len(cq) = QueueSize
    BY <2>1 DEF IndInv, Phase, Posted
  <2>3. /\ ~Failed
        /\ Unprinted = {cq[k].wr_id : k \in 1 .. Len(cq)}
    BY DEF IndInv, Window, Unprinted
  <2>4. InQueue \cup Unprinted \subseteq Slots
    <3>1. \A k \in 1 .. Len(wq) : wq[k] \in Slots
      BY <2>1
    <3>2. \A k \in 1 .. Len(cq) : cq[k].wr_id \in Slots
      <4>1. \A k \in 1 .. Len(cq) : cq[k] \in Completion
        BY <2>1
      <4>2. \A c \in Completion : c.wr_id \in Slots
        BY DEF Completion
      <4>3. QED BY <4>1, <4>2
    <3>3. QED BY <2>3, <3>1, <3>2 DEF InQueue
  <2>5. ASSUME NEW s \in Slots
        PROVE  s \in InQueue \cup Unprinted
    <3> DEFINE d == (s - Polled) % QueueSize
    <3>1. s \in Int /\ s - Polled \in Int /\ d \in Slots
      <4>1. s \in Int /\ s - Polled \in Int
        BY <2>1 DEF Slots
      <4>2. QED BY <4>1, ModSlot
    <3>2. (Polled + d) % QueueSize = s
      <4>1. (d + Polled) % QueueSize = ((s - Polled) + Polled) % QueueSize
        BY <2>1, <3>1, ModAdd
      <4>2. (s - Polled) + Polled = s
        BY <2>1, <3>1
      <4>3. d + Polled = Polled + d
        BY <2>1, <3>1 DEF Slots
      <4>4. QED BY <4>1, <4>2, <4>3, ModOfSlot
    <3> HIDE DEF d
    <3>3. CASE d < Len(cq)
      <4>1. d + 1 \in 1 .. Len(cq) /\ Polled + (d + 1) - 1 = Polled + d
        BY <2>1, <3>1, <3>3 DEF Slots
      <4>2. cq[d + 1] = Done(Polled + (d + 1) - 1, Len(arrived))
        BY <2>3, <4>1 DEF IndInv, Numbered
      <4>3. cq[d + 1].wr_id = s
        BY <3>2, <4>1, <4>2 DEF Done
      <4>4. QED BY <2>3, <4>1, <4>3
    <3>4. CASE d >= Len(cq)
      <4> DEFINE k == d + 1 - Len(cq)
      <4>1. k \in 1 .. Len(wq) /\ Polled + Len(cq) + k - 1 = Polled + d
        BY <2>1, <2>2, <3>1, <3>4 DEF Slots
      <4>2. \A m \in 1 .. Len(wq) : wq[m] = (Polled + Len(cq) + m - 1) % QueueSize
        BY <2>3 DEF IndInv, Numbered
      <4>3. wq[k] = s
        BY <3>2, <4>1, <4>2
      <4>4. QED BY <4>1, <4>3 DEF InQueue
    <3>5. QED BY <2>1, <3>1, <3>3, <3>4 DEF Slots
  <2>6. QED BY <2>2, <2>4, <2>5
<1>2. QED BY ServerInvariance, <1>1, PTL

(* The adapter never writes into a buffer whose message has not been       *)
(* printed yet: the request it uses is fewer than QueueSize numbers after  *)
(* every message that waits.                                               *)
THEOREM UnprintedUntouched == Spec => NoOverwriteBeforePrint
<1> DEFINE Safe == \A b \in Slots : data'[b] # data[b] => b \notin Unprinted
<1>1. IndInv /\ [Next]_vars => [Safe]_vars
  <2> SUFFICES ASSUME IndInv, Next,
                      NEW b \in Slots, data'[b] # data[b], b \in Unprinted
               PROVE  FALSE
    OBVIOUS
  <2> DEFINE n == Polled + Len(cq)
  <2>0. /\ Len(wq) \in Nat /\ Len(cq) \in Nat /\ Len(wc) \in Nat /\ i \in Nat
        /\ Len(printed) \in Nat /\ Polled \in Int /\ Posted \in Int
        /\ data \in [Slots -> 0 .. ByteRange - 1]
    BY Types DEF IndInv
  <2>1. PICK payload \in Payloads : NicReceive(payload)
    BY DEF Next, Program, LibraryFails, Arrive, Exited, vars, nicVars, PostAll,
           PostCompleted, PostRecvs, PostOne, PostReturns, PollCq, Sleep, PrintMessage,
           LeaveLoop, Cleanup, PostFails, PollFails, StopLoop, NicDrop, NicFail
  <2>2. wq # << >> /\ ~Failed /\ b = Head(wq)
    BY <2>0, <2>1 DEF NicReceive, IndInv, Window
  <2>3. b = n % QueueSize /\ n < Posted /\ Posted <= Len(printed) + QueueSize
    BY <2>2, HeadNumber DEF IndInv, Window
  <2>4. \/ \E k \in 1 .. Len(cq) : b = cq[k].wr_id
        \/ pc = "check" /\ \E k \in i + 1 .. Len(wc) : b = wc[k].wr_id
    BY DEF Unprinted
  <2>5. PICK m \in Int : /\ b = m % QueueSize
                         /\ Len(printed) <= m /\ m < n
    <3>1. CASE \E k \in 1 .. Len(cq) : b = cq[k].wr_id
      <4>1. PICK k \in 1 .. Len(cq) : b = cq[k].wr_id
        BY <3>1
      <4>2. cq[k] = Done(Polled + k - 1, Len(arrived))
        BY <2>2 DEF IndInv, Numbered
      <4>3. b = (Polled + k - 1) % QueueSize
        BY <4>1, <4>2 DEF Done
      <4>4. Len(printed) <= Polled
        BY <2>0 DEF Polled, IndInv, Phase
      <4>5. Polled + k - 1 \in Int /\ Len(printed) <= Polled + k - 1 /\ Polled + k - 1 < n
        BY <2>0, <4>4
      <4>6. QED BY <4>3, <4>5
    <3>2. CASE pc = "check" /\ \E k \in i + 1 .. Len(wc) : b = wc[k].wr_id
      <4>1. PICK k \in i + 1 .. Len(wc) : b = wc[k].wr_id
        BY <3>2
      <4> DEFINE m == Polled - Len(wc) + k - 1
      <4>2. k \in 1 .. Len(wc) /\ m \in Int /\ m < n
        BY <2>0
      <4>3. wc[k] = Done(m, Len(arrived))
        BY <2>2, <3>2, <4>2 DEF IndInv, Numbered
      <4>4. b = m % QueueSize
        BY <4>1, <4>3 DEF Done
      <4>5. Len(printed) <= m
        <5>1. Polled = Len(printed) - i + Len(wc)
          BY <3>2 DEF Polled
        <5>2. k >= i + 1
          BY <2>0
        <5>3. QED BY <2>0, <5>1, <5>2
      <4>6. QED BY <4>2, <4>4, <4>5
    <3>3. QED BY <2>4, <3>1, <3>2
  <2>6. n \in Int /\ n < m + QueueSize
    BY <2>0, <2>3, <2>5
  <2>7. QED
    <3> HIDE DEF n
    <3> QED BY <2>3, <2>5, <2>6, ModDistinct
<1>2. QED BY ServerInvariance, <1>1, PTL DEF Spec, NoOverwriteBeforePrint

--------------------------------------------------------------------------------
(* What the liveness properties rest on, as for the client. *)

(* Between two rounds every datagram that is in a buffer and not printed   *)
(* is a completion the next polls return.                                  *)
UnprintedAreCompleted ==
  pc \in {"loop", "sleep"} /\ qp_state = "RTR" => Len(arrived) = Len(printed) + Len(cq)

THEOREM NothingLeftUnprinted == Spec => []UnprintedAreCompleted
<1>1. IndInv => UnprintedAreCompleted
  BY DEF IndInv, Window, Polled, UnprintedAreCompleted
<1>2. QED BY ServerInvariance, <1>1, PTL

(* A datagram is dropped only if the program is behind: between two rounds *)
(* all QueueSize requests are completions it has not polled, and while it  *)
(* prints they are those and the ones it has in hand.                      *)
DropsOnlyWhenFull ==
  [][dropped' # dropped =>
       /\ pc \in {"loop", "sleep"} => Len(cq) = QueueSize
       /\ pc = "check" => Len(cq) + Len(wc) = QueueSize]_vars

THEOREM DropsExplained == Spec => DropsOnlyWhenFull
<1> DEFINE Full == dropped' # dropped =>
                     /\ pc \in {"loop", "sleep"} => Len(cq) = QueueSize
                     /\ pc = "check" => Len(cq) + Len(wc) = QueueSize
<1>1. IndInv /\ [Next]_vars => [Full]_vars
  <2> SUFFICES ASSUME IndInv, Next, dropped' # dropped
               PROVE  /\ pc \in {"loop", "sleep"} => Len(cq) = QueueSize
                      /\ pc = "check" => Len(cq) + Len(wc) = QueueSize
    OBVIOUS
  <2>1. wq = << >>
    BY DEF Next, Program, LibraryFails, Arrive, Exited, vars, nicVars, PostAll,
           PostCompleted, PostRecvs, PostOne, PostReturns, PollCq, Sleep, PrintMessage,
           LeaveLoop, Cleanup, PostFails, PollFails, StopLoop, NicReceive, NicDrop, NicFail
  <2>2. /\ Len(wq) = 0 /\ Len(cq) \in Nat /\ Len(wc) \in Nat /\ Polled \in Int
    BY <2>1, Types DEF IndInv
  <2>3. Posted = Polled + Len(cq)
    BY <2>2 DEF Posted
  <2>4. QED
    BY <2>2, <2>3 DEF IndInv, Phase
<1>2. QED BY ServerInvariance, <1>1, PTL DEF Spec, DropsOnlyWhenFull

(* The server gives up with EXIT_FAILURE or because of SIGINT. *)
ExitExplained == pc = "exited" => result = "EXIT_FAILURE" \/ ~server_loop

THEOREM ServerExitExplained == Spec => []ExitExplained
<1> DEFINE Explained == pc \in {"cleanup", "exited"} => result = "EXIT_FAILURE" \/ ~server_loop
<1>1. Init => Explained
  BY DEF Init
<1>2. Explained /\ [Next]_vars => Explained'
  <2> SUFFICES ASSUME Explained, [Next]_vars PROVE Explained'
    OBVIOUS
  <2>1. CASE PostFails \/ PollFails \/ LeaveLoop \/ StopLoop
    BY <2>1 DEF PostFails, PollFails, LeaveLoop, StopLoop
  <2>2. CASE PrintMessage
    <3>1. pc = "check" /\ (pc' = pc \/ result' = "EXIT_FAILURE")
      BY <2>2 DEF PrintMessage
    <3>2. QED BY <3>1
  <2>3. CASE Cleanup
    BY <2>3 DEF Cleanup
  <2>4. CASE PostAll \/ PostCompleted \/ PostOne \/ PostReturns \/ PollCq \/ Sleep
    <3>1. pc' \notin {"cleanup", "exited"}
      BY <2>4 DEF PostAll, PostCompleted, PostRecvs, PostOne, PostReturns, PollCq, Sleep
    <3>2. QED BY <3>1
  <2>5. CASE Arrive \/ NicFail \/ Exited \/ UNCHANGED vars
    BY <2>5 DEF Arrive, NicReceive, NicDrop, NicFail, Exited, vars
  <2>6. QED BY <2>1, <2>2, <2>3, <2>4, <2>5 DEF Next, Program, LibraryFails
<1>3. Explained => ExitExplained
  BY DEF ExitExplained
<1>4. QED BY <1>1, <1>2, <1>3, PTL DEF Spec

================================================================================
