---------------------------- MODULE RdmaSystemProofs ----------------------------
(***************************************************************************)
(* Proof that the lines rdma_server prints are a subsequence of the        *)
(* messages rdma_client wrote, for all queue and batch sizes and whatever  *)
(* the network loses.  The invariants of the two programs are taken from   *)
(* RdmaClientProofs and RdmaServerProofs; what is added here is the        *)
(* network between them.                                                   *)
(***************************************************************************)
EXTENDS RdmaSystem, SequenceTheorems, TLAPS

C == INSTANCE RdmaClientProofs WITH
  QueueSize <- ClientQueue, next <- c_next, last_idx <- c_last_idx, old <- c_old,
  wr <- c_wr, wq <- c_wq, pc <- c_pc, wc <- c_wc, i <- c_i, result <- c_result,
  cq <- c_cq, qp_state <- c_qp_state

S == INSTANCE RdmaServerProofs WITH
  QueueSize <- ServerQueue, Payloads <- 0 .. ByteRange - 1, next <- s_next,
  last_idx <- s_last_idx, old <- s_old, wr <- s_wr, wq <- s_wq, pc <- s_pc,
  wc <- s_wc, i <- s_i, result <- s_result, cq <- s_cq, qp_state <- s_qp_state

Bytes == 0 .. ByteRange - 1

(* s is what remains of t when some elements are taken out.                *)
Embeds(s, t) ==
  \E g \in [1 .. Len(s) -> 1 .. Len(t)] :
    /\ \A k \in 1 .. Len(s) : s[k] = t[g[k]]
    /\ \A j, k \in 1 .. Len(s) : j < k => g[j] < g[k]

(* What has arrived, followed by what is under way, is what was sent       *)
(* without the datagrams that were lost or dropped.                        *)
Flow == net \in Seq(Bytes) /\ Embeds(arrived \o net, wire)

SystemInv == C!IndInv /\ S!IndInv /\ Flow

--------------------------------------------------------------------------------
(* Subsequences. *)

LEMMA EmbedsEmpty ==
  ASSUME NEW t
  PROVE  Embeds(<< >>, t)
<1> DEFINE e == << >>
           g == [k \in 1 .. Len(e) |-> 1]
<1>1. Len(e) = 0
  OBVIOUS
<1>2. g \in [1 .. Len(e) -> 1 .. Len(t)] /\ \A k \in 1 .. Len(e) : FALSE
  BY <1>1
<1> HIDE DEF e, g
<1>3. Embeds(e, t)
  BY <1>2 DEF Embeds
<1>4. QED BY <1>3 DEF e

(* The same element is added to both ends. *)
LEMMA EmbedsAppend ==
  ASSUME NEW T, NEW s \in Seq(T), NEW t \in Seq(T), NEW x \in T, Embeds(s, t)
  PROVE  Embeds(Append(s, x), Append(t, x))
<1>1. PICK g \in [1 .. Len(s) -> 1 .. Len(t)] :
         /\ \A k \in 1 .. Len(s) : s[k] = t[g[k]]
         /\ \A j, k \in 1 .. Len(s) : j < k => g[j] < g[k]
  BY DEF Embeds
<1> DEFINE u == Append(s, x)
           v == Append(t, x)
           m == Len(s)
           n == Len(t)
           h == [k \in 1 .. m + 1 |-> IF k = m + 1 THEN n + 1 ELSE g[k]]
<1>2. /\ m \in Nat /\ n \in Nat
      /\ Len(u) = m + 1 /\ (\A k \in 1 .. m : u[k] = s[k]) /\ u[m + 1] = x
      /\ Len(v) = n + 1 /\ (\A k \in 1 .. n : v[k] = t[k]) /\ v[n + 1] = x
  BY AppendProperties
<1>3. \A k \in 1 .. m : g[k] \in 1 .. n
  OBVIOUS
<1> HIDE DEF u, v, m, n
<1>4. h \in [1 .. m + 1 -> 1 .. n + 1]
  BY <1>2, <1>3
<1>5. \A k \in 1 .. m + 1 : u[k] = v[h[k]]
  <2> SUFFICES ASSUME NEW k \in 1 .. m + 1 PROVE u[k] = v[h[k]]
    OBVIOUS
  <2>1. CASE k = m + 1
    BY <1>2, <2>1
  <2>2. CASE k \in 1 .. m
    <3>1. h[k] = g[k] /\ g[k] \in 1 .. n
      BY <1>2, <1>3, <2>2
    <3>2. u[k] = s[k] /\ v[g[k]] = t[g[k]] /\ s[k] = t[g[k]]
      BY <1>1, <1>2, <2>2, <3>1 DEF m
    <3>3. QED BY <3>1, <3>2
  <2>3. QED BY <1>2, <2>1, <2>2
<1>6. \A j, k \in 1 .. m + 1 : j < k => h[j] < h[k]
  <2> SUFFICES ASSUME NEW j \in 1 .. m + 1, NEW k \in 1 .. m + 1, j < k
               PROVE  h[j] < h[k]
    OBVIOUS
  <2>1. j \in 1 .. m /\ h[j] = g[j] /\ g[j] \in 1 .. n
    BY <1>2, <1>3
  <2>2. CASE k = m + 1
    BY <1>2, <2>1, <2>2
  <2>3. CASE k \in 1 .. m
    <3>1. h[k] = g[k] /\ g[j] < g[k]
      BY <1>1, <1>2, <2>1, <2>3 DEF m
    <3>2. QED BY <2>1, <3>1
  <2>4. QED BY <1>2, <2>2, <2>3
<1>7. QED
  <2>1. Embeds(u, v)
    BY <1>2, <1>4, <1>5, <1>6 DEF Embeds
  <2>2. QED BY <2>1 DEF u, v

(* An element is taken out of the subsequence. *)
LEMMA EmbedsRemoved ==
  ASSUME NEW T, NEW s \in Seq(T), NEW r \in Seq(T), NEW t \in Seq(T), Embeds(s, t),
         NEW p \in 1 .. Len(s), Len(r) = Len(s) - 1,
         \A k \in 1 .. Len(r) : r[k] = s[IF k < p THEN k ELSE k + 1]
  PROVE  Embeds(r, t)
<1>1. PICK g \in [1 .. Len(s) -> 1 .. Len(t)] :
         /\ \A k \in 1 .. Len(s) : s[k] = t[g[k]]
         /\ \A j, k \in 1 .. Len(s) : j < k => g[j] < g[k]
  BY DEF Embeds
<1> DEFINE at(k) == IF k < p THEN k ELSE k + 1
           h     == [k \in 1 .. Len(r) |-> g[at(k)]]
<1>2. /\ Len(s) \in Nat /\ Len(r) \in Nat
      /\ \A k \in 1 .. Len(r) : at(k) \in 1 .. Len(s)
      /\ \A j, k \in 1 .. Len(r) : j < k => at(j) < at(k)
  OBVIOUS
<1>3. \A k \in 1 .. Len(r) : r[k] = s[at(k)]
  OBVIOUS
<1> HIDE DEF at
<1>4. h \in [1 .. Len(r) -> 1 .. Len(t)]
  BY <1>1, <1>2
<1>5. \A k \in 1 .. Len(r) : r[k] = t[h[k]]
  BY <1>1, <1>2, <1>3
<1>6. \A j, k \in 1 .. Len(r) : j < k => h[j] < h[k]
  BY <1>1, <1>2
<1>7. QED
  <2> HIDE DEF h
  <2> QED BY <1>4, <1>5, <1>6 DEF Embeds

--------------------------------------------------------------------------------
(* The invariants of the two programs, in the names of this module.        *)

LEMMA ClientInit == Client!Init => C!IndInv
<1>1. Client!Init => C!Init
  BY DEF C!Init, Client!Init, C!RingInit, Client!RingInit, C!RingLinks,
         Client!RingLinks, C!Slots, Client!Slots, C!NULL, Client!NULL
<1>2. C!Init => C!IndInv
  BY SystemAssumption, C!InitInv DEF C!QueueSizeAssumption, C!ClientAssumption
<1>3. QED BY <1>1, <1>2

LEMMA ServerInit == Server!Init => S!IndInv
<1>1. Server!Init => S!Init
  BY DEF S!Init, Server!Init, S!RingInit, Server!RingInit, S!RingLinks,
         Server!RingLinks, S!Slots, Server!Slots, S!NULL, Server!NULL
<1>2. S!Init => S!IndInv
  BY SystemAssumption, S!InitInv DEF S!QueueSizeAssumption, S!ServerAssumption
<1>3. QED BY <1>1, <1>2

(* The actions of Client are those of C: both instantiate RdmaClient in    *)
(* the same way.                                                           *)
LEMMA ClientActions ==
  ASSUME Client!Program \/ Client!LibraryFails \/ Client!StopLoop \/ Client!Nic
  PROVE  C!Next
<1> USE DEF C!ringVars, Client!ringVars, C!nicVars, Client!nicVars, C!NULL, Client!NULL,
            C!Slots, Client!Slots, C!Byte, Client!Byte
<1>1. CASE Client!Program
  <2>1. CASE \/ Client!FillBuffers \/ Client!PollCq \/ Client!RewriteBuffer
             \/ Client!StatusFails \/ Client!Sleep \/ Client!LeaveLoop \/ Client!Cleanup
    BY <2>1 DEF C!Next, C!Program, Client!FillBuffers, C!FillBuffers, Client!PollCq,
       C!PollCq, Client!LoopAgain, C!LoopAgain, Client!RewriteBuffer, C!RewriteBuffer,
       Client!StatusFails, C!StatusFails, Client!Sleep, C!Sleep, Client!LeaveLoop,
       C!LeaveLoop, Client!Cleanup, C!Cleanup
  <2>2. CASE \/ Client!PostAll \/ Client!PostCompleted \/ Client!PostOne
             \/ Client!PostReturns
    BY <2>2 DEF C!Next, C!Program, Client!PostAll, C!PostAll, Client!PostCompleted,
       C!PostCompleted, Client!PostSends, C!PostSends, Client!CutRing, C!CutRing,
       Client!LastIdx, C!LastIdx, Client!RepostStart, C!RepostStart, Client!PostOne,
       C!PostOne, Client!LinkRequest, C!LinkRequest, Client!PostReturns, C!PostReturns,
       Client!RestoreRing, C!RestoreRing, Client!RestoredLinks, C!RestoredLinks
  <2>3. QED BY <1>1, <2>1, <2>2 DEF Client!Program
<1>2. CASE Client!LibraryFails
  BY <1>2 DEF C!Next, Client!LibraryFails, C!LibraryFails, Client!PostFails, C!PostFails,
     Client!RestoreRing, C!RestoreRing, Client!RestoredLinks, C!RestoredLinks,
     Client!PollFails, C!PollFails, Client!LoopAgain, C!LoopAgain
<1>3. CASE Client!StopLoop
  BY <1>3 DEF C!Next, Client!StopLoop, C!StopLoop
<1>4. CASE Client!Nic
  BY <1>4 DEF C!Next, Client!Nic, C!Nic, Client!NicTransmit, C!NicTransmit,
     Client!NicComplete, C!NicComplete, Client!NicFail, C!NicFail
<1>5. QED BY <1>1, <1>2, <1>3, <1>4

(* The same for the server; a datagram that arrives carries a byte.        *)
LEMMA ServerActions ==
  ASSUME \/ Server!Program \/ Server!LibraryFails \/ Server!StopLoop \/ Server!NicFail
         \/ /\ Len(arrived) + dropped < MaxArrivals
            /\ Server!NicDrop \/ \E b \in Bytes : Server!NicReceive(b)
  PROVE  S!Next
<1> USE DEF S!ringVars, Server!ringVars, S!nicVars, Server!nicVars, S!NULL, Server!NULL,
            S!Slots, Server!Slots
<1>1. CASE Server!Program
  <2>1. CASE \/ Server!PollCq \/ Server!Sleep \/ Server!PrintMessage
             \/ Server!LeaveLoop \/ Server!Cleanup
    BY <2>1 DEF S!Next, S!Program, Server!PollCq, S!PollCq, Server!LoopAgain, S!LoopAgain,
       Server!BatchSize, S!BatchSize, Server!Sleep, S!Sleep, Server!PrintMessage,
       S!PrintMessage, Server!SignedChar, S!SignedChar, Server!LeaveLoop, S!LeaveLoop,
       Server!Cleanup, S!Cleanup
  <2>2. CASE \/ Server!PostAll \/ Server!PostCompleted \/ Server!PostOne
             \/ Server!PostReturns
    BY <2>2 DEF S!Next, S!Program, Server!PostAll, S!PostAll, Server!PostCompleted,
       S!PostCompleted, Server!PostRecvs, S!PostRecvs, Server!CutRing, S!CutRing,
       Server!LastIdx, S!LastIdx, Server!RepostStart, S!RepostStart, Server!PostOne,
       S!PostOne, Server!LinkRequest, S!LinkRequest, Server!PostReturns, S!PostReturns,
       Server!RestoreRing, S!RestoreRing, Server!RestoredLinks, S!RestoredLinks
  <2>3. QED BY <1>1, <2>1, <2>2 DEF Server!Program
<1>2. CASE Server!LibraryFails
  BY <1>2 DEF S!Next, Server!LibraryFails, S!LibraryFails, Server!PostFails, S!PostFails,
     Server!RestoreRing, S!RestoreRing, Server!RestoredLinks, S!RestoredLinks,
     Server!PollFails, S!PollFails, Server!LoopAgain, S!LoopAgain
<1>3. CASE Server!StopLoop
  BY <1>3 DEF S!Next, Server!StopLoop, S!StopLoop
<1>4. CASE Server!NicFail
  BY <1>4 DEF S!Next, Server!NicFail, S!NicFail
<1>5. CASE /\ Len(arrived) + dropped < MaxArrivals
           /\ Server!NicDrop \/ \E b \in Bytes : Server!NicReceive(b)
  BY <1>5 DEF S!Next, S!Arrive, Server!NicDrop, S!NicDrop, Server!NicReceive,
     S!NicReceive, Bytes
<1>6. QED BY <1>1, <1>2, <1>3, <1>4, <1>5

LEMMA ClientKeeps ==
  ASSUME C!IndInv, C!Next \/ UNCHANGED clientVars
  PROVE  C!IndInv'
<1>1. [C!Next]_(C!vars)
  BY DEF C!vars, C!ringVars, clientVars
<1>2. QED
  BY <1>1, SystemAssumption, C!NextInv DEF C!QueueSizeAssumption, C!ClientAssumption

LEMMA ServerKeeps ==
  ASSUME S!IndInv, S!Next \/ UNCHANGED serverVars
  PROVE  S!IndInv'
<1>1. [S!Next]_(S!vars)
  BY DEF S!vars, S!ringVars, serverVars
<1>2. QED
  BY <1>1, SystemAssumption, S!NextInv DEF S!QueueSizeAssumption, S!ServerAssumption

--------------------------------------------------------------------------------
(* The network. *)

(* What enters when the client's adapter has transmitted nothing, and one  *)
(* message.                                                                *)
LEMMA EnterNothing ==
  ASSUME NEW w \in Seq(Bytes), NEW q \in Seq(Bytes)
  PROVE  q \o SubSeq(w, Len(w) + 1, Len(w)) = q
<1>1. SubSeq(w, Len(w) + 1, Len(w)) = << >>
  <2>1. Len(w) \in Int /\ Len(w) + 1 \in Int /\ Len(w) < Len(w) + 1
    OBVIOUS
  <2>2. QED BY <2>1, SubSeqEmpty
<1>2. QED BY <1>1, ConcatEmptySeq

LEMMA EnterOne ==
  ASSUME NEW w \in Seq(Bytes), NEW q \in Seq(Bytes), NEW x \in Bytes
  PROVE  q \o SubSeq(Append(w, x), Len(w) + 1, Len(Append(w, x))) = Append(q, x)
<1> DEFINE v == Append(w, x)
           e == SubSeq(v, Len(w) + 1, Len(v))
           n == Len(w) + 1
<1>1. n \in Int /\ Len(v) = n /\ v[n] = x
  BY AppendProperties
<1> HIDE DEF v
<1>2. \A j \in n .. Len(v) : v[j] \in Bytes
  BY <1>1
<1>3. /\ e \in Seq(Bytes)
      /\ Len(e) = IF n <= n THEN n - n + 1 ELSE 0
      /\ \A j \in 1 .. n - n + 1 : e[j] = v[n + j - 1]
  BY <1>1, <1>2, SubSeqProperties
<1> HIDE DEF e
<1>4. Len(e) = 1 /\ e[1] = x
  <2>1. n - n + 1 = 1 /\ n + 1 - 1 = n
    BY <1>1
  <2>2. QED BY <1>1, <1>3, <2>1
<1>5. e = <<x>>
  BY <1>3, <1>4, SeqEqual
<1>6. q \o e = Append(q, x)
  BY <1>5, AppendIsConcat
<1>7. QED BY <1>6 DEF e, v

(* Elements of a concatenation. *)
LEMMA Joined ==
  ASSUME NEW s \in Seq(Bytes), NEW t \in Seq(Bytes)
  PROVE  /\ s \o t \in Seq(Bytes)
         /\ Len(s \o t) = Len(s) + Len(t)
         /\ Len(s) \in Nat /\ Len(t) \in Nat
         /\ \A k \in 1 .. Len(s) : (s \o t)[k] = s[k]
         /\ \A k \in 1 .. Len(t) : (s \o t)[Len(s) + k] = t[k]
<1>1. /\ s \o t \in Seq(Bytes)
      /\ Len(s \o t) = Len(s) + Len(t)
      /\ \A k \in 1 .. Len(s) + Len(t) : (s \o t)[k] =
           IF k <= Len(s) THEN s[k] ELSE t[k - Len(s)]
  BY ConcatProperties
<1>2. Len(s) \in Nat /\ Len(t) \in Nat
  OBVIOUS
<1>3. \A k \in 1 .. Len(s) : (s \o t)[k] = s[k]
  BY <1>1, <1>2
<1>4. ASSUME NEW k \in 1 .. Len(t) PROVE (s \o t)[Len(s) + k] = t[k]
  <2>1. /\ Len(s) + k \in 1 .. Len(s) + Len(t) /\ ~(Len(s) + k <= Len(s))
        /\ (Len(s) + k) - Len(s) = k
    BY <1>2
  <2>2. QED BY <1>1, <2>1
<1>5. QED BY <1>1, <1>2, <1>3, <1>4

(* The first datagram under way becomes the last that arrived. *)
LEMMA HeadMoves ==
  ASSUME NEW a \in Seq(Bytes), NEW q \in Seq(Bytes), q # << >>
  PROVE  Append(a, Head(q)) \o Tail(q) = a \o q
<1>1. Head(q) \in Bytes /\ Tail(q) \in Seq(Bytes) /\ <<Head(q)>> \in Seq(Bytes)
  BY HeadTailProperties
<1>2. <<Head(q)>> \o Tail(q) = q
  <2> DEFINE h == <<Head(q)>>
  <2>1. /\ Len(q) \in Nat /\ Len(q) > 0 /\ Head(q) = q[1] /\ Len(h) = 1 /\ h[1] = q[1]
        /\ Len(Tail(q)) = Len(q) - 1
        /\ \A k \in 1 .. Len(Tail(q)) : Tail(q)[k] = q[k + 1]
    BY HeadTailProperties
  <2>2. /\ h \o Tail(q) \in Seq(Bytes)
        /\ Len(h \o Tail(q)) = Len(h) + Len(Tail(q))
        /\ \A k \in 1 .. Len(h) + Len(Tail(q)) : (h \o Tail(q))[k] =
             IF k <= Len(h) THEN h[k] ELSE Tail(q)[k - Len(h)]
    BY <1>1, ConcatProperties
  <2> HIDE DEF h
  <2>3. Len(h \o Tail(q)) = Len(q)
    BY <2>1, <2>2
  <2>4. ASSUME NEW k \in 1 .. Len(q) PROVE (h \o Tail(q))[k] = q[k]
    <3>1. CASE k = 1
      BY <2>1, <2>2, <3>1
    <3>2. CASE k # 1
      <4>1. k - 1 \in 1 .. Len(Tail(q)) /\ ~(k <= Len(h)) /\ (k - 1) + 1 = k
        BY <2>1, <3>2
      <4>2. (h \o Tail(q))[k] = Tail(q)[k - 1]
        BY <2>1, <2>2, <4>1
      <4>3. QED BY <2>1, <4>1, <4>2
    <3>3. QED BY <3>1, <3>2
  <2>5. h \o Tail(q) = q
    BY <2>2, <2>3, <2>4, SeqEqual
  <2>6. QED BY <2>5 DEF h
<1>3. Append(a, Head(q)) = a \o <<Head(q)>>
  BY <1>1, AppendIsConcat
<1>4. (a \o <<Head(q)>>) \o Tail(q) = a \o (<<Head(q)>> \o Tail(q))
  BY <1>1, ConcatAssociative
<1>5. QED BY <1>2, <1>3, <1>4

(* A datagram under way is taken out. *)
LEMMA EmbedsLost ==
  ASSUME NEW a \in Seq(Bytes), NEW q \in Seq(Bytes), NEW r \in Seq(Bytes),
         NEW w \in Seq(Bytes), Embeds(a \o q, w),
         NEW p \in 1 .. Len(q), Len(r) = Len(q) - 1,
         \A k \in 1 .. Len(r) : r[k] = q[IF k < p THEN k ELSE k + 1]
  PROVE  Embeds(a \o r, w)
<1> DEFINE s == a \o q
           t == a \o r
           m == Len(a)
<1>1. /\ s \in Seq(Bytes) /\ Len(s) = m + Len(q) /\ m \in Nat /\ Len(q) \in Nat
      /\ \A k \in 1 .. m : s[k] = a[k]
      /\ \A k \in 1 .. Len(q) : s[m + k] = q[k]
  BY Joined
<1>2. /\ t \in Seq(Bytes) /\ Len(t) = m + Len(r) /\ Len(r) \in Nat
      /\ \A k \in 1 .. m : t[k] = a[k]
      /\ \A k \in 1 .. Len(r) : t[m + k] = r[k]
  BY Joined
<1> HIDE DEF s, t, m
<1>3. m + p \in 1 .. Len(s) /\ Len(t) = Len(s) - 1
  BY <1>1, <1>2
<1>4. ASSUME NEW k \in 1 .. Len(t)
      PROVE  t[k] = s[IF k < m + p THEN k ELSE k + 1]
  <2>1. CASE k <= m
    <3>1. k \in 1 .. m /\ k < m + p
      BY <1>1, <2>1
    <3>2. QED BY <1>1, <1>2, <3>1
  <2>2. CASE k > m
    <3> DEFINE j == k - m
    <3>1. j \in 1 .. Len(r) /\ k = m + j /\ k + 1 = m + (j + 1)
      BY <1>1, <1>2, <2>2
    <3> HIDE DEF j
    <3>2. t[k] = r[j] /\ r[j] = q[IF j < p THEN j ELSE j + 1]
      BY <1>2, <3>1
    <3>3. CASE j < p
      <4>1. j \in 1 .. Len(q) /\ k < m + p
        <5>1. j \in Int /\ 1 <= j /\ p \in Int /\ p <= Len(q)
          BY <1>1, <1>2, <3>1
        <5>2. m \in Int /\ Len(q) \in Int
          BY <1>1
        <5>3. j \in 1 .. Len(q)
          BY <3>3, <5>1, <5>2
        <5>4. k < m + p
          BY <3>1, <3>3, <5>1, <5>2
        <5>5. QED BY <5>3, <5>4
      <4>2. QED BY <1>1, <3>1, <3>2, <3>3, <4>1
    <3>4. CASE ~(j < p)
      <4>1. j + 1 \in 1 .. Len(q) /\ ~(k < m + p)
        BY <1>1, <3>1, <3>4
      <4>2. QED BY <1>1, <3>1, <3>2, <3>4, <4>1
    <3>5. QED BY <3>3, <3>4
  <2>3. k <= m \/ k > m
    BY <1>1
  <2>4. QED BY <2>1, <2>2, <2>3, Zenon
<1>5. Embeds(s, w)
  BY DEF s
<1>6. Embeds(t, w)
  BY <1>1, <1>2, <1>3, <1>4, <1>5, EmbedsRemoved
<1>7. QED BY <1>6 DEF t

(* What RemoveAt returns. *)
LEMMA RemoveAtElements ==
  ASSUME NEW q \in Seq(Bytes), NEW p \in 1 .. Len(q)
  PROVE  /\ RemoveAt(q, p) \in Seq(Bytes)
         /\ Len(RemoveAt(q, p)) = Len(q) - 1
         /\ \A k \in 1 .. Len(q) - 1 : RemoveAt(q, p)[k] = q[IF k < p THEN k ELSE k + 1]
<1> DEFINE u == SubSeq(q, 1, p - 1)
           v == SubSeq(q, p + 1, Len(q))
           n == Len(q)
<1>0. n \in Nat /\ p \in Int /\ (\A k \in 1 .. n : q[k] \in Bytes) /\ n \in Int
      /\ p - 1 \in Int /\ p + 1 \in Int /\ 1 \in Int /\ 1 <= p /\ p <= n
  OBVIOUS
<1>1. /\ \A k \in 1 .. p - 1 : q[k] \in Bytes
      /\ \A k \in p + 1 .. n : q[k] \in Bytes
  BY <1>0
<1>2. /\ u \in Seq(Bytes) /\ Len(u) = IF 1 <= p - 1 THEN (p - 1) - 1 + 1 ELSE 0
      /\ \A k \in 1 .. (p - 1) - 1 + 1 : u[k] = q[1 + k - 1]
  BY <1>0, <1>1, SubSeqProperties
<1>3. /\ v \in Seq(Bytes) /\ Len(v) = IF p + 1 <= n THEN n - (p + 1) + 1 ELSE 0
      /\ \A k \in 1 .. n - (p + 1) + 1 : v[k] = q[(p + 1) + k - 1]
  BY <1>0, <1>1, SubSeqProperties
<1> HIDE DEF u, v, n
<1>4. Len(u) = p - 1 /\ Len(v) = n - p
  BY <1>0, <1>2, <1>3
<1>5. /\ u \o v \in Seq(Bytes) /\ Len(u \o v) = Len(u) + Len(v)
      /\ \A k \in 1 .. Len(u) : (u \o v)[k] = u[k]
      /\ \A k \in 1 .. Len(v) : (u \o v)[Len(u) + k] = v[k]
  BY <1>2, <1>3, Joined
<1>6. ASSUME NEW k \in 1 .. n - 1
      PROVE  (u \o v)[k] = q[IF k < p THEN k ELSE k + 1]
  <2>1. CASE k < p
    <3>1. k \in 1 .. (p - 1) - 1 + 1 /\ 1 + k - 1 = k /\ k \in 1 .. Len(u)
      BY <1>0, <1>4, <2>1
    <3>2. QED BY <1>2, <1>5, <2>1, <3>1
  <2>2. CASE ~(k < p)
    <3> DEFINE j == k - (p - 1)
    <3>1. /\ j \in 1 .. n - (p + 1) + 1 /\ (p + 1) + j - 1 = k + 1
          /\ j \in 1 .. Len(v) /\ Len(u) + j = k
      BY <1>0, <1>4, <2>2
    <3> HIDE DEF j
    <3>2. QED BY <1>3, <1>5, <2>2, <3>1
  <2>3. QED BY <2>1, <2>2
<1>7. RemoveAt(q, p) = u \o v
  BY DEF RemoveAt, u, v, n
<1>8. Len(u) + Len(v) = n - 1
  BY <1>0, <1>4
<1>9. QED BY <1>5, <1>6, <1>7, <1>8 DEF n

--------------------------------------------------------------------------------
(* The types of the histories, from the invariants of the two programs.    *)
LEMMA HistoryTypes ==
  /\ C!IndInv => wire \in Seq(Bytes)
  /\ S!IndInv => arrived \in Seq(Bytes)
BY DEF C!IndInv, C!TypeOK, S!IndInv, S!TypeOK, Bytes

(* A step of the client puts at most one message on the wire. *)
LEMMA ClientWire ==
  ASSUME C!Next
  PROVE  wire' = wire \/ \E x : wire' = Append(wire, x)
<1> USE DEF C!nicVars
<1>1. CASE C!Program
  BY <1>1 DEF C!Program, C!FillBuffers, C!PostAll, C!PostCompleted, C!PostSends, C!PostOne,
     C!PostReturns, C!PollCq, C!RewriteBuffer, C!StatusFails, C!Sleep, C!LeaveLoop,
     C!Cleanup
<1>2. CASE C!LibraryFails \/ C!StopLoop \/ C!Exited
  BY <1>2 DEF C!LibraryFails, C!PostFails, C!PollFails, C!StopLoop, C!Exited, C!vars
<1>3. CASE C!Nic
  BY <1>3 DEF C!Nic, C!NicTransmit, C!NicComplete, C!NicFail
<1>4. QED BY <1>1, <1>2, <1>3 DEF C!Next

(* A step of the server that is not an arrival leaves what arrived alone.  *)
LEMMA ServerArrived ==
  ASSUME Server!Program \/ Server!LibraryFails \/ Server!StopLoop \/ Server!NicFail
  PROVE  arrived' = arrived
BY DEF Server!nicVars, Server!Program, Server!PostAll, Server!PostCompleted,
       Server!PostRecvs, Server!PostOne, Server!PostReturns, Server!PollCq, Server!Sleep,
       Server!PrintMessage, Server!LeaveLoop, Server!Cleanup, Server!LibraryFails,
       Server!PostFails, Server!PollFails, Server!StopLoop, Server!NicFail

LEMMA ClientStepInv == SystemInv /\ ClientStep => SystemInv'
<1> SUFFICES ASSUME SystemInv, ClientStep PROVE SystemInv'
  OBVIOUS
<1>1. C!Next /\ Enter /\ UNCHANGED serverVars
  BY ClientActions DEF ClientStep
<1>2. C!IndInv' /\ S!IndInv'
  BY <1>1, ClientKeeps, ServerKeeps DEF SystemInv
<1>3. /\ wire \in Seq(Bytes) /\ wire' \in Seq(Bytes) /\ arrived \in Seq(Bytes)
      /\ net \in Seq(Bytes) /\ Embeds(arrived \o net, wire)
      /\ arrived' = arrived
  <2>1. wire' \in Seq(Bytes)
    BY <1>2 DEF C!IndInv, C!TypeOK, Bytes
  <2>2. QED BY <1>1, <2>1, HistoryTypes DEF SystemInv, Flow, serverVars
<1>4. CASE wire' = wire
  <2>1. net' = net
    BY <1>1, <1>3, <1>4, EnterNothing DEF Enter
  <2>2. Flow'
    BY <1>3, <1>4, <2>1 DEF Flow, Embeds, Bytes
  <2>3. QED BY <1>2, <2>2 DEF SystemInv
<1>5. CASE \E x : wire' = Append(wire, x)
  <2>1. PICK x : wire' = Append(wire, x)
    BY <1>5
  <2>2. x \in Bytes
    <3>1. Len(wire') = Len(wire) + 1 /\ wire'[Len(wire) + 1] = x /\ Len(wire) \in Nat
      BY <1>3, <2>1
    <3>2. Len(wire) + 1 \in 1 .. Len(wire')
      BY <3>1
    <3>3. QED BY <1>3, <3>1, <3>2
  <2>3. net' = Append(net, x)
    BY <1>1, <1>3, <2>1, <2>2, EnterOne DEF Enter
  <2>4. net' \in Seq(Bytes)
    BY <1>3, <2>2, <2>3
  <2>5. arrived \o Append(net, x) = Append(arrived \o net, x)
    <3>1. arrived \o net \in Seq(Bytes) /\ <<x>> \in Seq(Bytes)
      BY <1>3, <2>2, ConcatProperties
    <3>2. /\ Append(net, x) = net \o <<x>>
          /\ Append(arrived \o net, x) = (arrived \o net) \o <<x>>
      BY <1>3, <2>2, <3>1, AppendIsConcat
    <3>3. (arrived \o net) \o <<x>> = arrived \o (net \o <<x>>)
      <4>1. arrived \in Seq(Bytes) /\ net \in Seq(Bytes) /\ <<x>> \in Seq(Bytes)
        BY <1>3, <3>1
      <4>2. QED BY <4>1, ConcatAssociative
    <3>4. QED BY <3>2, <3>3
  <2>6. Embeds(Append(arrived \o net, x), Append(wire, x))
    <3>1. arrived \o net \in Seq(Bytes)
      BY <1>3, ConcatProperties
    <3>2. QED BY <1>3, <2>2, <3>1, EmbedsAppend
  <2>7. arrived' \o net' = Append(arrived \o net, x)
    BY <1>3, <2>3, <2>5
  <2>8. Flow'
    BY <2>1, <2>4, <2>6, <2>7 DEF Flow, Embeds, Bytes
  <2>9. QED BY <1>2, <2>8 DEF SystemInv
<1>6. QED BY <1>1, <1>4, <1>5, ClientWire

LEMMA ServerStepInv == SystemInv /\ ServerStep => SystemInv'
<1> SUFFICES ASSUME SystemInv, ServerStep PROVE SystemInv'
  OBVIOUS
<1>1. S!Next /\ arrived' = arrived /\ UNCHANGED <<clientVars, net>>
  BY ServerActions, ServerArrived DEF ServerStep
<1>2. C!IndInv' /\ S!IndInv'
  BY <1>1, ClientKeeps, ServerKeeps DEF SystemInv
<1>3. wire' = wire
  BY <1>1 DEF clientVars
<1>4. Flow'
  BY <1>1, <1>3 DEF SystemInv, Flow, Embeds, Bytes
<1>5. QED BY <1>2, <1>4 DEF SystemInv

(* The oldest datagram is received, or dropped for want of a request. *)
LEMMA DeliverInv == SystemInv /\ Deliver => SystemInv'
<1> SUFFICES ASSUME SystemInv, Deliver PROVE SystemInv'
  OBVIOUS
<1>1. /\ net # << >> /\ Len(arrived) + dropped < MaxArrivals
      /\ Server!NicReceive(Head(net)) \/ Server!NicDrop
      /\ net' = Tail(net)
      /\ UNCHANGED clientVars
  BY DEF Deliver
<1>2. /\ wire \in Seq(Bytes) /\ arrived \in Seq(Bytes)
      /\ net \in Seq(Bytes) /\ Embeds(arrived \o net, wire)
      /\ wire' = wire
  BY <1>1, HistoryTypes DEF SystemInv, Flow, clientVars
<1>3. /\ Head(net) \in Bytes /\ Tail(net) \in Seq(Bytes) /\ Len(Tail(net)) = Len(net) - 1
      /\ \A k \in 1 .. Len(Tail(net)) : Tail(net)[k] = net[k + 1]
  BY <1>1, <1>2, HeadTailProperties
<1>4. C!IndInv' /\ S!IndInv'
  <2>1. S!Next
    BY <1>1, <1>3, ServerActions
  <2>2. QED BY <1>1, <2>1, ClientKeeps, ServerKeeps DEF SystemInv
<1>5. Embeds(arrived' \o net', wire)
  <2>1. CASE Server!NicReceive(Head(net))
    <3>1. arrived' = Append(arrived, Head(net))
      BY <2>1 DEF Server!NicReceive
    <3>2. arrived' \o net' = arrived \o net
      BY <1>1, <1>2, <3>1, HeadMoves
    <3>3. QED BY <1>2, <3>2
  <2>2. CASE Server!NicDrop
    <3>1. arrived' = arrived
      BY <2>2 DEF Server!NicDrop
    <3> DEFINE r == Tail(net)
    <3>2. r \in Seq(Bytes) /\ 1 \in 1 .. Len(net) /\ Len(r) = Len(net) - 1
      BY <1>1, <1>2, <1>3
    <3>3. \A k \in 1 .. Len(r) : r[k] = net[IF k < 1 THEN k ELSE k + 1]
      BY <1>3
    <3>4. Embeds(arrived \o r, wire)
      <4> HIDE DEF r
      <4> QED BY <1>2, <3>2, <3>3, EmbedsLost
    <3>5. QED BY <1>1, <3>1, <3>4
  <2>3. QED BY <1>1, <2>1, <2>2
<1>6. Flow'
  <2>1. net' \in Seq(Bytes)
    BY <1>1, <1>3
  <2>2. Embeds(arrived' \o net', wire')
    BY <1>2, <1>5
  <2>3. QED BY <2>1, <2>2, Zenon DEF Flow, Embeds, Bytes
<1>7. QED BY <1>4, <1>6 DEF SystemInv

LEMMA LoseInv == SystemInv /\ Lose => SystemInv'
<1> SUFFICES ASSUME SystemInv, Lose PROVE SystemInv'
  OBVIOUS
<1>1. PICK p \in 1 .. Len(net) : net' = RemoveAt(net, p)
  BY DEF Lose
<1>2. UNCHANGED <<clientVars, serverVars>> /\ wire' = wire /\ arrived' = arrived
  BY DEF Lose, clientVars, serverVars
<1>3. /\ wire \in Seq(Bytes) /\ arrived \in Seq(Bytes)
      /\ net \in Seq(Bytes) /\ Embeds(arrived \o net, wire)
  BY HistoryTypes DEF SystemInv, Flow
<1>4. C!IndInv' /\ S!IndInv'
  BY <1>2, ClientKeeps, ServerKeeps DEF SystemInv
<1> DEFINE r == RemoveAt(net, p)
<1>5. /\ r \in Seq(Bytes) /\ Len(r) = Len(net) - 1
      /\ \A k \in 1 .. Len(r) : r[k] = net[IF k < p THEN k ELSE k + 1]
  BY <1>3, RemoveAtElements
<1> HIDE DEF r
<1>6. Embeds(arrived \o r, wire)
  BY <1>3, <1>5, EmbedsLost
<1>7. net' = r
  BY <1>1 DEF r
<1>8. Flow'
  <2>1. net' \in Seq(Bytes) /\ Embeds(arrived' \o net', wire')
    BY <1>2, <1>5, <1>6, <1>7
  <2>2. QED BY <2>1, Zenon DEF Flow, Embeds, Bytes
<1>9. QED BY <1>4, <1>8 DEF SystemInv

(* Every step of the system preserves the invariant. *)
LEMMA SystemNextInv == SystemInv /\ [Next]_vars => SystemInv'
<1> SUFFICES ASSUME SystemInv, [Next]_vars PROVE SystemInv'
  OBVIOUS
<1>1. CASE UNCHANGED vars
  <2>1. UNCHANGED <<clientVars, serverVars, net, wire, arrived>>
    BY <1>1 DEF vars, clientVars, serverVars
  <2>2. C!IndInv' /\ S!IndInv'
    BY <2>1, ClientKeeps, ServerKeeps DEF SystemInv
  <2>3. Flow'
    BY <2>1 DEF SystemInv, Flow, Embeds, Bytes
  <2>4. QED BY <2>2, <2>3 DEF SystemInv
<1>2. QED
  BY <1>1, ClientStepInv, ServerStepInv, DeliverInv, LoseInv DEF Next, Exited

LEMMA SystemInitInv == Init => SystemInv
<1> SUFFICES ASSUME Init PROVE SystemInv
  OBVIOUS
<1>1. C!IndInv /\ S!IndInv /\ net = << >> /\ arrived = << >>
  BY ClientInit, ServerInit DEF Init, Server!Init
<1>2. arrived \o net = << >>
  BY <1>1
<1>3. Flow
  BY <1>1, <1>2, EmbedsEmpty DEF Flow
<1>4. QED BY <1>1, <1>3 DEF SystemInv

(* The invariant implies the property: the k-th line shows the k-th        *)
(* datagram that arrived, which is a message of the client.                *)
LEMMA LinesFromInv == SystemInv => LinesInOrder
<1> SUFFICES ASSUME SystemInv PROVE LinesInOrder
  OBVIOUS
<1>1. /\ wire \in Seq(Bytes) /\ arrived \in Seq(Bytes) /\ net \in Seq(Bytes)
      /\ Embeds(arrived \o net, wire)
  BY HistoryTypes DEF SystemInv, Flow
<1>2. /\ Len(arrived) \in Nat /\ Len(wire) \in Nat /\ Len(printed) \in Nat
      /\ Received \in Nat /\ Received <= Len(arrived) /\ Received <= Len(printed)
  <2>1. Len(printed) \in Nat
    BY DEF SystemInv, S!IndInv, S!TypeOK
  <2>2. QED BY <1>1, <2>1 DEF Received
<1> DEFINE s == arrived \o net
<1>3. PICK g \in [1 .. Len(s) -> 1 .. Len(wire)] :
         /\ \A k \in 1 .. Len(s) : s[k] = wire[g[k]]
         /\ \A j, k \in 1 .. Len(s) : j < k => g[j] < g[k]
  BY <1>1 DEF Embeds
<1>4. /\ \A k \in 1 .. Received : k \in 1 .. Len(s) /\ k \in 1 .. Len(arrived)
      /\ \A k \in 1 .. Received : s[k] = arrived[k]
  BY <1>1, <1>2, Joined
<1> HIDE DEF s
<1> DEFINE f == [k \in 1 .. Received |-> g[k] - 1]
<1>5. f \in [1 .. Received -> 0 .. Len(wire) - 1]
  BY <1>2, <1>3, <1>4
<1>6. ASSUME NEW k \in 1 .. Received
      PROVE  printed[k].index = Line(f[k])
  <2>1. k \in 1 .. Len(printed) /\ k <= Len(arrived)
    BY <1>2
  <2>2. printed[k].index = S!SignedChar(arrived[k])
    <3>1. S!PrintedAsDelivered
      BY DEF SystemInv, S!IndInv
    <3>2. printed[k] = [wr_id |-> (k - 1) % ServerQueue,
                        index |-> S!SignedChar(arrived[k])]
      BY <2>1, <3>1 DEF S!PrintedAsDelivered
    <3>3. QED BY <3>2
  <2>3. arrived[k] = wire[g[k]] /\ g[k] \in 1 .. Len(wire)
    BY <1>3, <1>4
  <2>4. wire[g[k]] = C!Byte(g[k] - 1)
    BY <2>3 DEF SystemInv, C!IndInv, C!StreamInOrder
  <2>5. f[k] = g[k] - 1
    OBVIOUS
  <2> HIDE DEF f
  <2>6. printed[k].index = S!SignedChar(C!Byte(f[k]))
    BY <2>2, <2>3, <2>4, <2>5
  <2>7. QED
    BY <2>6 DEF Line, S!SignedChar, Server!SignedChar, C!Byte, Client!Byte
<1>7. ASSUME NEW k \in 2 .. Received
      PROVE  f[k - 1] < f[k]
  <2>1. k - 1 \in 1 .. Received /\ k \in 1 .. Received /\ k - 1 < k
    BY <1>2
  <2>2. g[k - 1] < g[k] /\ g[k - 1] \in Int /\ g[k] \in Int
    BY <1>3, <1>4, <2>1
  <2>3. QED BY <2>1, <2>2
<1>8. QED
  <2> HIDE DEF f
  <2> QED BY <1>5, <1>6, <1>7 DEF LinesInOrder

(* Client, network and server together: the lines the server prints are    *)
(* messages of the client, in the order it wrote them and each at most     *)
(* once, for all queue and batch sizes and whatever is lost or dropped.    *)
THEOREM EndToEnd == Spec => []LinesInOrder
<1>1. QED BY SystemInitInv, SystemNextInv, LinesFromInv, PTL DEF Spec

--------------------------------------------------------------------------------
(* The composition leaves each program what it is: a step of the system is *)
(* a step of the program or leaves it alone, so that whatever is proved of *)
(* the programs by themselves holds of them in the system.                 *)

LEMMA SystemClientStep ==
  ASSUME [Next]_vars
  PROVE  [Client!Next]_(Client!vars)
<1>1. CASE ClientStep
  BY <1>1 DEF ClientStep, Client!Next
<1>2. CASE UNCHANGED clientVars
  BY <1>2 DEF clientVars, Client!vars, Client!ringVars
<1>3. QED
  BY <1>1, <1>2 DEF Next, ServerStep, Deliver, Lose, Exited, vars

(* What the network delivers is a byte, as RdmaServer has it. *)
LEMMA SystemServerStep ==
  ASSUME SystemInv, [Next]_vars
  PROVE  [Server!Next]_(Server!vars)
<1>1. CASE ServerStep
  BY <1>1 DEF ServerStep, Server!Next
<1>2. CASE Deliver
  <2>1. net # << >> /\ net \in Seq(Bytes)
    BY <1>2 DEF Deliver, SystemInv, Flow
  <2>2. Head(net) \in 0 .. ByteRange - 1
    BY <2>1, HeadTailProperties DEF Bytes
  <2>3. Server!Arrive
    BY <1>2, <2>2 DEF Deliver, Server!Arrive
  <2>4. QED BY <2>3 DEF Server!Next
<1>3. CASE UNCHANGED serverVars
  BY <1>3 DEF serverVars, Server!vars, Server!ringVars
<1>4. QED
  BY <1>1, <1>2, <1>3 DEF Next, ClientStep, Lose, Exited, vars

(* In the system the two programs behave as RdmaClient and RdmaServer say: *)
(* the network adds no behaviour to either of them.                        *)
THEOREM SystemRunsPrograms == Spec => Client!Spec /\ Server!Spec
<1>1. Init => Client!Init /\ Server!Init
  BY DEF Init
<1>2. QED
  BY <1>1, SystemInitInv, SystemNextInv, SystemClientStep, SystemServerStep, PTL
     DEF Spec, Client!Spec, Server!Spec

================================================================================
