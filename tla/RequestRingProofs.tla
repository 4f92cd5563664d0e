--------------------------- MODULE RequestRingProofs ---------------------------
(***************************************************************************)
(* Arithmetic on ring positions: request number n of a stream lives in     *)
(* slot n % QueueSize.  The lemmas state what the proofs about RdmaClient  *)
(* and RdmaServer need of remainders, of the ring's links and of the       *)
(* sequences that stand for the queues.                                    *)
(***************************************************************************)
EXTENDS RequestRing, SequenceTheorems, TLAPS

(* Division with remainder. *)
LEMMA DivMod ==
  ASSUME NEW n \in Int
  PROVE  /\ n \div QueueSize \in Int
         /\ n % QueueSize \in Int
         /\ n = QueueSize * (n \div QueueSize) + (n % QueueSize)
         /\ 0 <= n % QueueSize
         /\ n % QueueSize < QueueSize
BY QueueSizeAssumption

(* A nonzero multiple of QueueSize is at least QueueSize away from 0. *)
LEMMA MultipleIsFar ==
  ASSUME NEW d \in Int, -QueueSize < QueueSize * d, QueueSize * d < QueueSize
  PROVE  d = 0
<1>1. CASE d >= 1
  <2>1. QueueSize * d >= QueueSize
    BY <1>1, QueueSizeAssumption
  <2>2. QED BY <2>1, QueueSizeAssumption
<1>2. CASE d <= -1
  <2>1. QueueSize * d <= -QueueSize
    BY <1>2, QueueSizeAssumption
  <2>2. QED BY <2>1, QueueSizeAssumption
<1>3. QED BY <1>1, <1>2

(* Quotient and remainder are unique. *)
LEMMA ModUnique ==
  ASSUME NEW n \in Int, NEW q \in Int, NEW r \in Int,
         n = QueueSize * q + r, 0 <= r, r < QueueSize
  PROVE  n % QueueSize = r
<1> DEFINE e == n \div QueueSize
           s == n % QueueSize
<1>1. /\ e \in Int /\ s \in Int
      /\ n = QueueSize * e + s /\ 0 <= s /\ s < QueueSize
  BY DivMod
<1> HIDE DEF e, s
<1>2. QueueSize * (e - q) = QueueSize * e - QueueSize * q
  BY <1>1, QueueSizeAssumption
<1>3. QueueSize * (e - q) = r - s
  BY <1>1, <1>2, QueueSizeAssumption
<1>4. e - q = 0
  BY <1>1, <1>3, MultipleIsFar, QueueSizeAssumption
<1>5. s = r
  BY <1>1, <1>4, QueueSizeAssumption
<1>6. QED BY <1>5 DEF s

(* A remainder is a slot. *)
LEMMA ModSlot ==
  ASSUME NEW n \in Int
  PROVE  n % QueueSize \in Slots
BY DivMod, QueueSizeAssumption DEF Slots

(* A slot is its own remainder. *)
LEMMA ModOfSlot ==
  ASSUME NEW n \in Slots
  PROVE  n % QueueSize = n
<1>1. n = QueueSize * 0 + n
  BY QueueSizeAssumption DEF Slots
<1>2. QED
  BY <1>1, ModUnique, QueueSizeAssumption DEF Slots

(* Two numbers less than QueueSize apart live in different slots. *)
LEMMA ModDistinct ==
  ASSUME NEW a \in Int, NEW b \in Int, a < b, b < a + QueueSize
  PROVE  a % QueueSize # b % QueueSize
<1> DEFINE qa == a \div QueueSize
           qb == b \div QueueSize
           r  == a % QueueSize
<1> SUFFICES ASSUME b % QueueSize = r
             PROVE  FALSE
  OBVIOUS
<1>1. /\ qa \in Int /\ qb \in Int /\ r \in Int
      /\ a = QueueSize * qa + r
      /\ b = QueueSize * qb + r
  BY DivMod
<1> HIDE DEF qa, qb, r
<1>2. QueueSize * (qb - qa) = QueueSize * qb - QueueSize * qa
  BY <1>1, QueueSizeAssumption
<1>3. QueueSize * (qb - qa) = b - a
  BY <1>1, <1>2, QueueSizeAssumption
<1>4. qb - qa = 0
  BY <1>1, <1>3, MultipleIsFar, QueueSizeAssumption
<1>5. QED
  BY <1>1, <1>3, <1>4, QueueSizeAssumption

(* Adding to a remainder and taking the remainder again. *)
LEMMA ModAdd ==
  ASSUME NEW a \in Int, NEW b \in Int
  PROVE  ((a % QueueSize) + b) % QueueSize = (a + b) % QueueSize
<1> DEFINE qa == a \div QueueSize
           ra == a % QueueSize
           q  == (ra + b) \div QueueSize
           r  == (ra + b) % QueueSize
<1>1. /\ qa \in Int /\ ra \in Int
      /\ a = QueueSize * qa + ra
  BY DivMod
<1> HIDE DEF qa, ra
<1>2. /\ q \in Int /\ r \in Int
      /\ ra + b = QueueSize * q + r
      /\ 0 <= r /\ r < QueueSize
  BY <1>1, DivMod
<1> HIDE DEF q, r
<1>3. QueueSize * (qa + q) = QueueSize * qa + QueueSize * q
  BY <1>1, <1>2, QueueSizeAssumption
<1>4. a + b = QueueSize * (qa + q) + r
  BY <1>1, <1>2, <1>3, QueueSizeAssumption
<1>5. (a + b) % QueueSize = r
  BY <1>1, <1>2, <1>4, ModUnique
<1>6. QED
  BY <1>5 DEF r, ra

(* Going once around the ring. *)
LEMMA ModWrap ==
  ASSUME NEW a \in Int
  PROVE  (a + QueueSize) % QueueSize = a % QueueSize
<1>1. /\ a \div QueueSize \in Int /\ a % QueueSize \in Int
      /\ a = QueueSize * (a \div QueueSize) + (a % QueueSize)
      /\ 0 <= a % QueueSize /\ a % QueueSize < QueueSize
  BY DivMod
<1>2. QueueSize * (a \div QueueSize + 1) = QueueSize * (a \div QueueSize) + QueueSize
  BY <1>1, QueueSizeAssumption
<1>3. a + QueueSize = QueueSize * (a \div QueueSize + 1) + (a % QueueSize)
  BY <1>1, <1>2, QueueSizeAssumption
<1>4. QED
  BY <1>1, <1>3, ModUnique, QueueSizeAssumption

(* RingLinks leads from the slot of a number to the slot of the next one.  *)
LEMMA LinkIsSuccessor ==
  ASSUME NEW a \in Int
  PROVE  RingLinks[a % QueueSize] = (a + 1) % QueueSize
<1> DEFINE r == a % QueueSize
<1>1. r \in Slots /\ (r + 1) % QueueSize = (a + 1) % QueueSize
  BY ModSlot, ModAdd
<1> HIDE DEF r
<1>2. CASE r = QueueSize - 1
  <2>1. (r + 1) % QueueSize = 0
    <3>1. r + 1 = QueueSize * 1 + 0
      BY <1>2, QueueSizeAssumption
    <3>2. QED BY <3>1, <1>2, ModUnique, QueueSizeAssumption
  <2>2. QED BY <2>1, <1>1, <1>2 DEF RingLinks, r
<1>3. CASE r # QueueSize - 1
  <2>1. r + 1 \in Slots
    BY <1>1, <1>3, QueueSizeAssumption DEF Slots
  <2>2. QED BY <2>1, <1>1, <1>3, ModOfSlot DEF RingLinks, r
<1>4. QED BY <1>2, <1>3

(* The ring links are slots. *)
LEMMA RingLinksType == RingLinks \in [Slots -> Slots]
BY QueueSizeAssumption DEF RingLinks, Slots

(* A sequence cut in two, as ibv_poll_cq does with the completions. *)
LEMMA SplitSeq ==
  ASSUME NEW S, NEW s \in Seq(S), NEW n \in 0 .. Len(s)
  PROVE  /\ SubSeq(s, 1, n) \in Seq(S)
         /\ Len(SubSeq(s, 1, n)) = n
         /\ \A k \in 1 .. n : SubSeq(s, 1, n)[k] = s[k]
         /\ SubSeq(s, n + 1, Len(s)) \in Seq(S)
         /\ Len(SubSeq(s, n + 1, Len(s))) = Len(s) - n
         /\ \A k \in 1 .. Len(s) - n : SubSeq(s, n + 1, Len(s))[k] = s[n + k]
<1> DEFINE p == SubSeq(s, 1, n)
           q == SubSeq(s, n + 1, Len(s))
<1>0. /\ Len(s) \in Nat /\ n \in Int /\ n + 1 \in Int /\ Len(s) \in Int /\ 1 \in Int
      /\ \A k \in 1 .. Len(s) : s[k] \in S
  OBVIOUS
<1>1. /\ \A k \in 1 .. n : s[k] \in S
      /\ \A k \in n + 1 .. Len(s) : s[k] \in S
  BY <1>0
<1>2. /\ p \in Seq(S)
      /\ Len(p) = IF 1 <= n THEN n - 1 + 1 ELSE 0
      /\ \A k \in 1 .. n - 1 + 1 : p[k] = s[1 + k - 1]
  BY <1>0, <1>1, SubSeqProperties
<1>3. /\ q \in Seq(S)
      /\ Len(q) = IF n + 1 <= Len(s) THEN Len(s) - (n + 1) + 1 ELSE 0
      /\ \A k \in 1 .. Len(s) - (n + 1) + 1 : q[k] = s[(n + 1) + k - 1]
  BY <1>0, <1>1, SubSeqProperties
<1> HIDE DEF p, q
<1>4. Len(p) = n /\ n - 1 + 1 = n
  BY <1>0, <1>2
<1>5. Len(q) = Len(s) - n /\ Len(s) - (n + 1) + 1 = Len(s) - n
  BY <1>0, <1>3
<1>6. \A k \in 1 .. n : p[k] = s[k]
  <2> SUFFICES ASSUME NEW k \in 1 .. n PROVE p[k] = s[k]
    OBVIOUS
  <2>1. 1 + k - 1 = k
    OBVIOUS
  <2>2. QED BY <1>2, <1>4, <2>1
<1>7. \A k \in 1 .. Len(s) - n : q[k] = s[n + k]
  <2> SUFFICES ASSUME NEW k \in 1 .. Len(s) - n PROVE q[k] = s[n + k]
    OBVIOUS
  <2>1. (n + 1) + k - 1 = n + k
    BY <1>0
  <2>2. QED BY <1>3, <1>5, <2>1
<1>8. QED BY <1>2, <1>3, <1>4, <1>5, <1>6, <1>7 DEF p, q
================================================================================
