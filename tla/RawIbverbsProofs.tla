----------------------------- MODULE RawIbverbsProofs -----------------------------
(***************************************************************************)
(* The frames of ib_host_send_loop (raw_ibverbs.c): a receiver computes    *)
(* the checksum each of them carries, whatever a switch has changed on the *)
(* way, they name the queue pair of the command line, and the loop         *)
(* implements MessageStream.  The last part is about lookup_addr.c, where  *)
(* the addresses in the headers come from.                                 *)
(***************************************************************************)
EXTENDS RawIbverbs, LookupAddr, SequenceTheorems, TLAPS

(* The length that init_invariant_headers puts into a uint16_t field fits. *)
PayloadFits == MsgSize + TransportHeaderSize + ChecksumSize < 65536

(* The fields of a frame that a switch may change. *)
MutableGrh == {"hop_limit", "flow_label", "traffic_class"}
MutableBth == {"reserved1"}

(* f is a frame that was sent with the headers h, as it arrives. *)
Arrived(f, h) ==
  /\ {"header", "data", "checksum", "bytes"} \subseteq DOMAIN f
  /\ {"ether", "grh", "bth", "deth"} \subseteq DOMAIN f.header
  /\ f.header.deth = h.deth
  /\ DOMAIN f.header.grh = DOMAIN h.grh
  /\ \A x \in DOMAIN h.grh : x \notin MutableGrh => f.header.grh[x] = h.grh[x]
  /\ DOMAIN f.header.bth = DOMAIN h.bth
  /\ \A x \in DOMAIN h.bth : x \notin MutableBth => f.header.bth[x] = h.bth[x]

(* The frame carries the checksum that continues that of the headers over  *)
(* its own payload, and it is as long as sendto was told.                  *)
Complete(f) ==
  /\ f.checksum = crc32(header_crc, Block(f.data, MsgSize))
  /\ f.bytes = FrameLength

(* What init_invariant_headers leaves behind. *)
Prepared ==
  /\ DOMAIN header = {"ether", "grh", "bth", "deth"}
  /\ "payload_length" \in DOMAIN header.grh
  /\ header.grh.payload_length = PayloadLength
  /\ "destination_qp" \in DOMAIN header.bth
  /\ header.bth.destination_qp = << queue_pair[3], queue_pair[2], queue_pair[1] >>
  /\ header_crc = ib_header_checksum(header)

IsSeq(s) == \E S : s \in Seq(S)

(* The inductive invariant: the headers and their part of the checksum are *)
(* the ones of the setup, the bytes behind full_packet belong to the       *)
(* message in it when sendto is called, what was printed last is what the  *)
(* headers say, and so every frame on the wire is complete.                *)
FrameInv ==
  /\ IsSeq(wire)
  /\ pc = "setup" => header = ZeroHeaders
  /\ pc \in {"setup", "fpga", "socket", "not_started"} => wire = << >>
  /\ pc \notin {"setup", "not_started"} => Prepared
  /\ pc = "send" => checksum = crc32(header_crc, Block(data, MsgSize))
  /\ pc = "send" \/ wire # << >> => shown = print_ib_headers(header)
  /\ \A k \in 1 .. Len(wire) : Arrived(wire[k], header) /\ Complete(wire[k])

--------------------------------------------------------------------------------
(* What the conversions do to two, three and four bytes. *)
LEMMA ReversedPair ==
  ASSUME NEW a, NEW b
  PROVE  Reversed(<< a, b >>) = << b, a >>
<1>1. Len(<< a, b >>) = 2
  OBVIOUS
<1>2. QED
  BY <1>1 DEF Reversed

LEMMA ReversedTriple ==
  ASSUME NEW a, NEW b, NEW c
  PROVE  Reversed(<< a, b, c >>) = << c, b, a >>
<1>1. Len(<< a, b, c >>) = 3
  OBVIOUS
<1>2. QED
  BY <1>1 DEF Reversed

LEMMA ReversedQuadruple ==
  ASSUME NEW a, NEW b, NEW c, NEW d
  PROVE  Reversed(<< a, b, c, d >>) = << d, c, b, a >>
<1>1. Len(<< a, b, c, d >>) = 4
  OBVIOUS
<1>2. QED
  BY <1>1 DEF Reversed

(* The queue pair is stored most significant byte first, without its upper *)
(* byte, and shown as the number it is.                                    *)
LEMMA StoredQp ==
  ASSUME NEW qp
  PROVE  DestinationQp(qp) = << qp[3], qp[2], qp[1] >>
<1>1. htonl(ShiftLeft8(qp)) = << qp[3], qp[2], qp[1], 0 >>
  BY ReversedQuadruple DEF htonl, ShiftLeft8
<1>2. QED
  BY <1>1, SMT DEF DestinationQp, Field24

LEMMA ShownQp ==
  ASSUME NEW a, NEW b, NEW c
  PROVE  ShiftRight8(htonl(Widened(<< c, b, a >>))) = Widened(<< a, b, c >>)
<1>1. Widened(<< c, b, a >>) = << c, b, a, 0 >> /\ Widened(<< a, b, c >>) = << a, b, c, 0 >>
  BY DEF Widened
<1>2. htonl(<< c, b, a, 0 >>) = << 0, a, b, c >>
  BY ReversedQuadruple DEF htonl
<1>3. ShiftRight8(<< 0, a, b, c >>) = << a, b, c, 0 >>
  BY DEF ShiftRight8
<1>4. QED
  BY <1>1, <1>2, <1>3

(* What init_invariant_headers makes of the zeroed packet. *)
LEMMA InitialHeaders ==
  ASSUME NEW src, NEW dest, NEW qp, NEW h,
         h = init_invariant_headers(ZeroHeaders, src, dest, qp)
  PROVE  /\ DOMAIN h = {"ether", "grh", "bth", "deth"}
         /\ "payload_length" \in DOMAIN h.grh
         /\ h.grh.payload_length = PayloadLength
         /\ "destination_qp" \in DOMAIN h.bth
         /\ h.bth.destination_qp = << qp[3], qp[2], qp[1] >>
<1>1. DOMAIN h = {"ether", "grh", "bth", "deth"}
  BY DEF init_invariant_headers, ZeroHeaders
<1>2. "payload_length" \in DOMAIN h.grh
  BY DEF init_invariant_headers, ZeroHeaders, ZeroGrh
<1>3. h.grh.payload_length = PayloadLength
  BY DEF init_invariant_headers, ZeroHeaders, ZeroGrh
<1>4. "destination_qp" \in DOMAIN h.bth /\ h.bth.destination_qp = DestinationQp(qp)
  BY ZenonT(60) DEF init_invariant_headers, ZeroHeaders, ZeroBth
<1>5. QED
  BY <1>1, <1>2, <1>3, <1>4, StoredQp

(* The length that a receiver reads in the header. *)
LEMMA StatedLength ==
  ASSUME PayloadFits
  PROVE  Value16(htons(PayloadLength)) = MsgSize + TransportHeaderSize + ChecksumSize
<1> DEFINE n == MsgSize + TransportHeaderSize + ChecksumSize
           l == n % 256
           h == (n \div 256) % 256
<1>1. n \in Nat /\ n < 65536
  BY MsgSizeAssumption, SMT DEF PayloadFits, TransportHeaderSize, ChecksumSize
<1>2. PayloadLength = htons(<< l, h >>)
  BY DEF PayloadLength, Uint16
<1> HIDE DEF n
<1>3. l + (256 * h) = n
  BY <1>1, SMT
<1> HIDE DEF l, h
<1>4. htons(PayloadLength) = << l, h >>
  BY <1>2, ReversedPair DEF htons
<1>5. Value16(<< l, h >>) = l + (256 * h)
  BY DEF Value16
<1>6. QED
  BY <1>3, <1>4, <1>5 DEF n

(* A checksum over the headers leaves out the fields a switch may change.  *)
LEMMA ArrivedChecksum ==
  ASSUME NEW f, NEW h, Arrived(f, h)
  PROVE  ib_header_checksum(f.header) = ib_header_checksum(h)
<1> DEFINE g == f.header.grh
           t == f.header.bth
<1>1. /\ DOMAIN g = DOMAIN h.grh
      /\ \A x \in DOMAIN h.grh : x \notin MutableGrh => g[x] = h.grh[x]
      /\ DOMAIN t = DOMAIN h.bth
      /\ \A x \in DOMAIN h.bth : x \notin MutableBth => t[x] = h.bth[x]
  BY DEF Arrived
<1> HIDE DEF g, t
<1>2. MaskedGrh(g) = MaskedGrh(h.grh)
  BY <1>1 DEF MaskedGrh, MutableGrh
<1>3. MaskedBth(t) = MaskedBth(h.bth)
  BY <1>1 DEF MaskedBth, MutableBth
<1>4. QED
  BY <1>2, <1>3 DEF ib_header_checksum, Arrived, g, t

--------------------------------------------------------------------------------
(* A switch changes the newest frame into one that still has arrived. *)
LEMMA SwitchPasses ==
  ASSUME IsSeq(wire), Switch, NEW h, Len(wire) > 0 => Arrived(wire[Len(wire)], h)
  PROVE  \E n, b :
           /\ n \in 1 .. Len(wire) /\ wire' = [wire EXCEPT ![n] = b] /\ Arrived(b, h)
           /\ b.data = wire[n].data /\ b.checksum = wire[n].checksum
           /\ b.bytes = wire[n].bytes
<1> DEFINE n == Len(wire)
           a == wire[n]
<1>1. PICK S : wire \in Seq(S)
  BY DEF IsSeq
<1>2. n \in 1 .. n
  BY <1>1 DEF Switch
<1>3. PICK hops \in {0, 1}, label \in {0, 1}, class \in {0, 1}, congestion \in {0, 1} :
        wire' = [wire EXCEPT ![n].header =
                   [a.header EXCEPT !.grh = [a.header.grh EXCEPT !.hop_limit = hops,
                                                                 !.flow_label = label,
                                                                 !.traffic_class = class],
                                    !.bth = [a.header.bth EXCEPT !.reserved1 = congestion]]]
  BY ZenonT(60) DEF Switch
<1> DEFINE g == [a.header.grh EXCEPT !.hop_limit = hops, !.flow_label = label,
                                     !.traffic_class = class]
           t == [a.header.bth EXCEPT !.reserved1 = congestion]
           c == [a.header EXCEPT !.grh = g, !.bth = t]
           b == [a EXCEPT !.header = c]
<1>4. wire' = [wire EXCEPT ![n] = b]
  BY <1>3
<1> HIDE DEF n
<1>5. Arrived(a, h)
  BY <1>2 DEF n
<1> HIDE DEF a
<1>6. /\ DOMAIN g = DOMAIN a.header.grh
      /\ \A x \in DOMAIN a.header.grh : x \notin MutableGrh => g[x] = a.header.grh[x]
  BY DEF MutableGrh
<1>7. /\ DOMAIN t = DOMAIN a.header.bth
      /\ \A x \in DOMAIN a.header.bth : x \notin MutableBth => t[x] = a.header.bth[x]
  BY DEF MutableBth
<1> HIDE DEF g, t
<1>8. c.grh = g /\ c.bth = t /\ c.deth = a.header.deth /\ DOMAIN c = DOMAIN a.header
  BY <1>5 DEF Arrived
<1> HIDE DEF c
<1>9. /\ b.header = c /\ b.data = a.data /\ b.checksum = a.checksum /\ b.bytes = a.bytes
      /\ DOMAIN b = DOMAIN a
  BY <1>5 DEF Arrived
<1> HIDE DEF b
<1>10. Arrived(b, h)
  BY <1>5, <1>6, <1>7, <1>8, <1>9 DEF Arrived
<1>11. QED
  BY <1>2, <1>4, <1>9, <1>10 DEF a, n

LEMMA FrameInit == Init => FrameInv
<1> SUFFICES ASSUME Init
             PROVE  FrameInv
  OBVIOUS
<1>1. wire = << >> /\ pc = "setup" /\ header = ZeroHeaders
  BY DEF Init
<1>2. IsSeq(wire) /\ Len(wire) = 0
  BY <1>1 DEF IsSeq
<1>3. QED
  BY <1>1, <1>2 DEF FrameInv

LEMMA SetUpPrepares ==
  ASSUME FrameInv, SetUp
  PROVE  FrameInv'
<1>1. PICK sender \in Addrs, receiver \in Addrs :
        /\ header' = init_invariant_headers(header, sender, receiver, queue_pair)
        /\ header_crc' = ib_header_checksum(header')
  BY DEF SetUp
<1>2. /\ pc = "setup" /\ pc' \in {"fpga", "socket"}
      /\ UNCHANGED <<packet_loop, queue_pair, count, data, checksum, shown, wire>>
  BY DEF SetUp
<1>3. header = ZeroHeaders /\ wire = << >> /\ IsSeq(wire)
  BY <1>2 DEF FrameInv
<1>4. Prepared'
  BY <1>1, <1>2, <1>3, InitialHeaders DEF Prepared
<1>5. Len(wire') = 0 /\ wire' = << >> /\ IsSeq(wire')
  BY <1>2, <1>3
<1>6. QED
  BY <1>2, <1>4, <1>5 DEF FrameInv

LEMMA StoreChecksumKeeps ==
  ASSUME FrameInv, StoreChecksum
  PROVE  FrameInv'
<1>1. /\ pc = "checksum" /\ pc' = "send"
      /\ checksum' = crc32(header_crc, Block(data, MsgSize))
      /\ shown' = print_ib_headers(header)
      /\ UNCHANGED <<queue_pair, header, header_crc, data, wire>>
  BY DEF StoreChecksum, packetVars
<1>2. Prepared'
  BY <1>1 DEF FrameInv, Prepared
<1>3. \A k \in 1 .. Len(wire') : Arrived(wire'[k], header') /\ Complete(wire[k])'
  BY <1>1 DEF FrameInv, Complete
<1>4. QED
  BY <1>1, <1>2, <1>3 DEF FrameInv

(* sendto: the frame is complete. *)
LEMMA SendToSends ==
  ASSUME FrameInv, SendTo
  PROVE  /\ FrameInv'
         /\ Len(wire) \in Nat /\ Len(wire') = Len(wire) + 1
         /\ wire'[Len(wire) + 1].data = data
         /\ \A k \in 1 .. Len(wire) : wire'[k] = wire[k]
<1> DEFINE f == [header |-> header, data |-> data, checksum |-> checksum,
                 bytes |-> FrameLength]
           n == Len(wire)
<1>1. /\ pc = "send" /\ pc' = "sleep" /\ wire' = Append(wire, f)
      /\ UNCHANGED <<queue_pair, header, header_crc, data, checksum, shown>>
  BY DEF SendTo, packetVars
<1>2. PICK S : wire \in Seq(S)
  BY DEF FrameInv, IsSeq
<1>3. Prepared /\ checksum = crc32(header_crc, Block(data, MsgSize))
      /\ shown = print_ib_headers(header)
  BY <1>1 DEF FrameInv
<1>4. f.data = data /\ Arrived(f, header) /\ Complete(f)
  BY <1>3 DEF Prepared, Arrived, Complete
<1> HIDE DEF f
<1>5. /\ wire' \in Seq(S \cup {f}) /\ n \in Nat /\ Len(wire') = n + 1
      /\ wire'[n + 1] = f
      /\ \A k \in 1 .. n : wire'[k] = wire[k]
  <2>1. wire \in Seq(S \cup {f}) /\ f \in S \cup {f}
    BY <1>2
  <2> DEFINE T == S \cup {f}
  <2> HIDE DEF T
  <2>2. wire \in Seq(T) /\ f \in T
    BY <2>1 DEF T
  <2>3. wire' \in Seq(T) /\ n \in Nat /\ Len(wire') = n + 1 /\ wire'[n + 1] = f
    BY <1>1, <2>2
  <2>4. \A k \in 1 .. n : wire'[k] = wire[k]
    BY <1>1, <2>2
  <2>5. QED
    BY <2>3, <2>4 DEF T
<1>6. IsSeq(wire')
  BY <1>5 DEF IsSeq
<1>7. ASSUME NEW k \in 1 .. Len(wire') PROVE Arrived(wire'[k], header') /\ Complete(wire[k])'
  <2>1. CASE k \in 1 .. n
    <3>1. Arrived(wire[k], header) /\ Complete(wire[k]) /\ wire'[k] = wire[k]
      BY <1>5, <2>1 DEF FrameInv
    <3>2. QED
      BY <1>1, <3>1 DEF Complete
  <2>2. CASE k = n + 1
    <3>1. wire'[k] = f
      BY <1>5, <2>2
    <3>2. QED
      BY <1>1, <1>4, <3>1 DEF Complete
  <2>3. QED
    BY <1>5, <2>1, <2>2
<1>8. Prepared' /\ shown' = print_ib_headers(header')
  BY <1>1, <1>3 DEF Prepared
<1>9. FrameInv'
  BY <1>1, <1>6, <1>7, <1>8 DEF FrameInv
<1>10. QED
  BY <1>4, <1>5, <1>9

LEMMA SwitchKeeps ==
  ASSUME FrameInv, Switch
  PROVE  /\ FrameInv' /\ Len(wire') = Len(wire)
         /\ \A k \in 1 .. Len(wire) : wire'[k].data = wire[k].data
<1>1. PICK S : wire \in Seq(S)
  BY DEF FrameInv, IsSeq
<1>2. Len(wire) \in Nat /\ \A k \in 1 .. Len(wire) : Arrived(wire[k], header) /\ Complete(wire[k])
  BY <1>1 DEF FrameInv
<1>3. Len(wire) > 0 => Arrived(wire[Len(wire)], header)
  BY <1>2
<1>4. PICK n, b :
        /\ n \in 1 .. Len(wire) /\ wire' = [wire EXCEPT ![n] = b] /\ Arrived(b, header)
        /\ b.data = wire[n].data /\ b.checksum = wire[n].checksum /\ b.bytes = wire[n].bytes
  BY <1>3, SwitchPasses DEF FrameInv
<1>5. /\ wire # << >>
      /\ UNCHANGED <<queue_pair, header, header_crc, pc, data, checksum, shown>>
  BY DEF Switch, packetVars
<1>6. /\ wire' \in Seq(S \cup {b}) /\ Len(wire') = Len(wire) /\ wire'[n] = b
      /\ \A k \in 1 .. Len(wire) : k # n => wire'[k] = wire[k]
  BY <1>1, <1>4
<1>7. IsSeq(wire')
  BY <1>6 DEF IsSeq
<1>8. Complete(b)
  BY <1>2, <1>4 DEF Complete
<1>9. ASSUME NEW k \in 1 .. Len(wire)
      PROVE  /\ Arrived(wire'[k], header') /\ Complete(wire[k])'
             /\ wire'[k].data = wire[k].data
  <2>1. CASE k = n
    BY <1>4, <1>5, <1>6, <1>8, <2>1 DEF Complete
  <2>2. CASE k # n
    BY <1>2, <1>5, <1>6, <2>2 DEF Complete
  <2>3. QED
    BY <2>1, <2>2
<1>10. Prepared <=> Prepared'
  BY <1>5 DEF Prepared
<1>11. pc \notin {"setup", "fpga", "socket", "not_started"}
  BY <1>5 DEF FrameInv
<1>12. FrameInv'
  BY <1>5, <1>6, <1>7, <1>9, <1>10, <1>11 DEF FrameInv
<1>13. QED
  BY <1>6, <1>9, <1>12

(* The other steps leave the packet, the printed headers and the wire      *)
(* alone.                                                                  *)
LEMMA OthersKeep ==
  ASSUME FrameInv, UNCHANGED <<packetVars, checksum, shown, wire>>,
         \/ UNCHANGED <<pc, data>>
         \/ /\ pc' \notin {"setup", "send", "fpga", "socket"}
            /\ pc' = "not_started" \/ pc \notin {"setup", "not_started"}
            /\ pc' = "not_started" => wire = << >>
  PROVE  FrameInv'
<1>1. UNCHANGED <<queue_pair, header, header_crc>>
  BY DEF packetVars
<1>2. Prepared <=> Prepared'
  BY <1>1 DEF Prepared
<1>3. \A k \in 1 .. Len(wire') : Arrived(wire'[k], header') /\ Complete(wire[k])'
  BY <1>1 DEF FrameInv, Complete
<1>4. CASE UNCHANGED <<pc, data>>
  BY <1>1, <1>2, <1>3, <1>4 DEF FrameInv
<1>5. CASE /\ pc' \notin {"setup", "send", "fpga", "socket", "not_started"}
           /\ pc \notin {"setup", "not_started"}
  BY <1>1, <1>2, <1>3, <1>5 DEF FrameInv
<1>6. CASE pc' = "not_started" /\ wire = << >>
  BY <1>1, <1>2, <1>3, <1>6 DEF FrameInv
<1>7. QED
  BY <1>4, <1>5, <1>6

LEMMA FrameStep ==
  ASSUME FrameInv, [Next]_vars
  PROVE  FrameInv'
<1>1. CASE SetUp
  BY <1>1, SetUpPrepares
<1>2. CASE StoreChecksum
  BY <1>2, StoreChecksumKeeps
<1>3. CASE SendTo
  BY <1>3, SendToSends
<1>4. CASE Switch
  BY <1>4, SwitchKeeps
<1>5. CASE SetUpFails \/ FpgaSendLoop \/ OpenSocket
  <2>1. wire = << >> /\ pc \in {"setup", "fpga", "socket"}
    BY <1>5 DEF FrameInv, SetUpFails, FpgaSendLoop, OpenSocket
  <2>2. pc' \in {"returned", "not_started", "loop"} /\ (pc = "setup" => pc' = "not_started")
    BY <1>5, <2>1 DEF SetUpFails, FpgaSendLoop, OpenSocket
  <2>3. UNCHANGED <<packetVars, checksum, shown, wire>>
    BY <1>5 DEF SetUpFails, FpgaSendLoop, OpenSocket
  <2>4. QED
    BY <2>1, <2>2, <2>3, OthersKeep
<1>6. CASE LoopTest \/ Format \/ SendToFails \/ Sleep
  <2>1. pc \in {"loop", "format", "send", "sleep"}
    BY <1>6 DEF LoopTest, Format, SendToFails, Sleep
  <2>2. pc' \in {"format", "returned", "checksum", "failed", "loop"}
    BY <1>6 DEF LoopTest, Format, SendToFails, Sleep
  <2>3. UNCHANGED <<packetVars, checksum, shown, wire>>
    BY <1>6 DEF LoopTest, Format, SendToFails, Sleep
  <2>4. QED
    BY <2>1, <2>2, <2>3, OthersKeep
<1>7. CASE StopLoop \/ UNCHANGED vars
  BY <1>7, OthersKeep DEF StopLoop, vars, packetVars
<1>8. QED
  BY <1>1, <1>2, <1>3, <1>4, <1>5, <1>6, <1>7 DEF Next, Program, Failures, Ended

(* The invariant gives the two properties. *)
LEMMA FramesFromInv ==
  ASSUME PayloadFits, FrameInv
  PROVE  FramesVerify
<1> SUFFICES ASSUME NEW k \in 1 .. Len(wire)
             PROVE  /\ wire[k].checksum = ib_checksum(wire[k].header, wire[k].data)
                    /\ LengthsAgree(wire[k])
  BY DEF FramesVerify
<1> DEFINE f == wire[k]
<1>1. Arrived(f, header) /\ Complete(f)
  BY DEF FrameInv
<1>2. Prepared
  <2>1. wire # << >>
    <3>1. PICK S : wire \in Seq(S)
      BY DEF FrameInv, IsSeq
    <3>2. QED
      BY <3>1
  <2>2. QED
    BY <2>1 DEF FrameInv
<1> HIDE DEF f
<1>3. ib_header_checksum(f.header) = header_crc
  BY <1>1, <1>2, ArrivedChecksum DEF Prepared
<1>4. f.header.grh.payload_length = PayloadLength
  BY <1>1, <1>2 DEF Arrived, Prepared, MutableGrh
<1>5. Value16(htons(f.header.grh.payload_length)) = MsgSize + TransportHeaderSize + ChecksumSize
  BY <1>4, StatedLength
<1>6. Value16(htons(f.header.grh.payload_length)) - TransportHeaderSize - ChecksumSize = MsgSize
  BY <1>5, MsgSizeAssumption DEF TransportHeaderSize, ChecksumSize
<1>7. ib_checksum(f.header, f.data) = f.checksum
  BY <1>1, <1>3, <1>6 DEF ib_checksum, Complete
<1>8. FrameLength = EtherSize + GrhSize + (MsgSize + TransportHeaderSize + ChecksumSize)
  BY MsgSizeAssumption DEF FrameLength, TotalHeaderSize, EtherSize, GrhSize, TransportHeaderSize,
     ChecksumSize
<1>9. LengthsAgree(f)
  BY <1>1, <1>5, <1>8 DEF LengthsAgree, Complete
<1>10. QED
  BY <1>7, <1>9 DEF f

LEMMA QueuePairFromInv ==
  ASSUME FrameInv
  PROVE  ReachesQueuePair
<1> DEFINE qp == << queue_pair[1], queue_pair[2], queue_pair[3] >>
           r == << queue_pair[3], queue_pair[2], queue_pair[1] >>
<1> SUFFICES ASSUME NEW k \in 1 .. Len(wire)
             PROVE  /\ Reversed(wire[k].header.bth.destination_qp) = qp
                    /\ shown.bth.destination_qp = Widened(qp)
  BY DEF ReachesQueuePair
<1>1. Arrived(wire[k], header)
  BY DEF FrameInv
<1>2. wire # << >>
  <2>1. PICK S : wire \in Seq(S)
    BY DEF FrameInv, IsSeq
  <2>2. QED
    BY <2>1
<1>3. Prepared /\ shown = print_ib_headers(header)
  BY <1>2 DEF FrameInv
<1>4. /\ header.bth.destination_qp = r
      /\ wire[k].header.bth.destination_qp = header.bth.destination_qp
  BY <1>1, <1>3 DEF Prepared, Arrived, MutableBth
<1>5. Reversed(r) = qp
  BY ReversedTriple
<1>6. ShiftRight8(htonl(Widened(r))) = Widened(qp)
  BY ShownQp
<1>7. shown.bth.destination_qp = ShiftRight8(htonl(Widened(header.bth.destination_qp)))
  BY <1>3 DEF print_ib_headers, PrintBth
<1> HIDE DEF qp, r
<1>8. QED
  BY <1>4, <1>5, <1>6, <1>7

(* FrameInv is inductive: no round of ib_host_send_loop, and no switch,    *)
(* separates the headers sent from the checksum computed before the loop.  *)
THEOREM FrameInvariance == Spec => []FrameInv
<1>1. FrameInv /\ [Next]_vars => FrameInv'
  BY FrameStep
<1>2. QED
  BY <1>1, FrameInit, PTL DEF Spec

(* A receiver gets the checksum that every frame of ib_host_send_loop      *)
(* carries, and the length it states, for every payload size that a        *)
(* uint16_t length can state: the header part, computed once before the    *)
(* loop, survives the rounds and the switches on the way.                  *)
THEOREM ReceiversVerify ==
  ASSUME PayloadFits
  PROVE  Spec => []FramesVerify
<1>1. FrameInv => FramesVerify
  BY FramesFromInv
<1>2. QED
  BY <1>1, FrameInvariance, PTL

(* Every frame names the queue pair of the command line, and this is the   *)
(* number that print_bth shows, for every queue pair.                      *)
THEOREM QueuePairReached == Spec => []ReachesQueuePair
<1>1. FrameInv => ReachesQueuePair
  BY QueuePairFromInv
<1>2. QED
  BY <1>1, FrameInvariance, PTL

--------------------------------------------------------------------------------
(* The host loop implements MessageStream.                                 *)

(* The three parts of the refinement mapping. *)
Written  == Len(wire) + (IF pc \in {"checksum", "send", "failed"} THEN 1 ELSE 0)
Released == Len(wire) - (IF pc = "sleep" THEN 1 ELSE 0)
Payloads == [k \in 1 .. Len(wire) |-> wire[k].data]

(* count is the number of messages written, as an int that overflows, and  *)
(* full_packet holds the message that is not yet on the wire.              *)
CountInv ==
  /\ count = CountValue(Written)
  /\ pc \in {"checksum", "send"} => data = CountValue(Len(wire))
  /\ \A k \in 1 .. Len(wire) : wire[k].data = CountValue(k - 1)

(* Quotient and remainder, for any divisor. *)
LEMMA Remainder ==
  ASSUME NEW M \in Nat, M > 0, NEW n \in Nat
  PROVE  /\ n % M \in 0 .. M - 1
         /\ (n + 1) % M = IF (n % M) + 1 = M THEN 0 ELSE (n % M) + 1
<1> DEFINE q == n \div M
           r == n % M
<1>1. q \in Nat /\ r \in 0 .. M - 1 /\ n = (M * q) + r
  BY Z3
<1> HIDE DEF q, r
<1>2. CASE r + 1 = M
  <2>1. n + 1 = (M * (q + 1)) + 0
    BY <1>1, <1>2, Z3
  <2>2. (n + 1) % M = 0
    BY <1>1, <2>1, Z3
  <2>3. QED
    BY <1>1, <1>2, <2>2 DEF r
<1>3. CASE r + 1 # M
  <2>1. n + 1 = (M * q) + (r + 1) /\ r + 1 \in 0 .. M - 1
    BY <1>1, <1>3, Z3
  <2>2. (n + 1) % M = r + 1
    BY <1>1, <2>1, Z3
  <2>3. QED
    BY <1>1, <1>3, <2>2 DEF r
<1>4. QED
  BY <1>2, <1>3

(* count++ takes the int from one of its values to the next, also when it  *)
(* overflows.                                                              *)
LEMMA CountsOn ==
  ASSUME NEW n \in Nat
  PROVE  CountValue(n + 1) = NextCount(CountValue(n))
<1> DEFINE M == 2 * (IntMax + 1)
           m == n % M
           p == (n + 1) % M
<1>1. M \in Nat /\ M > 0 /\ IntMax \in Nat
  BY RawIbverbsAssumption
<1>2. m \in 0 .. M - 1 /\ p = IF m + 1 = M THEN 0 ELSE m + 1
  BY <1>1, Remainder
<1>3. /\ CountValue(n) = IF m <= IntMax THEN m ELSE m - M
      /\ CountValue(n + 1) = IF p <= IntMax THEN p ELSE p - M
  BY DEF CountValue
<1> HIDE DEF m, p
<1>4. CASE m < IntMax
  BY <1>1, <1>2, <1>3, <1>4 DEF NextCount
<1>5. CASE m = IntMax
  BY <1>1, <1>2, <1>3, <1>5 DEF NextCount
<1>6. CASE m > IntMax
  BY <1>1, <1>2, <1>3, <1>6 DEF NextCount
<1>7. QED
  BY <1>1, <1>2, <1>4, <1>5, <1>6

LEMMA CountInit == Init => CountInv
<1> SUFFICES ASSUME Init
             PROVE  CountInv
  OBVIOUS
<1>1. wire = << >> /\ count = 0 /\ pc = "setup"
  BY DEF Init
<1>2. Len(wire) = 0 /\ Written = 0
  BY <1>1 DEF Written
<1>3. CountValue(0) = 0
  <2> DEFINE M == 2 * (IntMax + 1)
  <2>1. M \in Nat /\ M > 0 /\ IntMax \in Nat
    BY RawIbverbsAssumption
  <2>2. 0 % M = 0
    BY <2>1, Z3
  <2>3. QED
    BY <2>1, <2>2 DEF CountValue
<1>4. QED
  BY <1>1, <1>2, <1>3 DEF CountInv

(* The steps that leave count and the data on the wire alone. *)
LEMMA CountKept ==
  ASSUME CountInv, count' = count, Len(wire') = Len(wire),
         \A k \in 1 .. Len(wire) : wire'[k].data = wire[k].data,
         Written' = Written,
         pc' \in {"checksum", "send"} => pc \in {"checksum", "send"} /\ data' = data
  PROVE  CountInv'
BY DEF CountInv, CountValue

LEMMA FormatCounts ==
  ASSUME FrameInv, CountInv, Format
  PROVE  CountInv'
<1>1. /\ pc = "format" /\ pc' = "checksum" /\ data' = count /\ count' = NextCount(count)
      /\ wire' = wire
  BY DEF Format
<1>2. Len(wire) \in Nat
  BY DEF FrameInv, IsSeq
<1>3. Written = Len(wire) /\ Written' = Len(wire) + 1
  BY <1>1, <1>2 DEF Written
<1>4. count = CountValue(Len(wire))
  BY <1>3 DEF CountInv
<1>5. count' = CountValue(Len(wire) + 1)
  BY <1>1, <1>2, <1>4, CountsOn
<1>6. QED
  BY <1>1, <1>3, <1>4, <1>5 DEF CountInv, CountValue

LEMMA SendToCounts ==
  ASSUME FrameInv, CountInv, SendTo
  PROVE  CountInv' /\ Payloads' = Append(Payloads, CountValue(Len(wire)))
<1> DEFINE n == Len(wire)
           x == CountValue(n)
<1>1. /\ n \in Nat /\ Len(wire') = n + 1 /\ wire'[n + 1].data = data
      /\ \A k \in 1 .. n : wire'[k] = wire[k]
  BY SendToSends
<1>2. pc = "send" /\ pc' = "sleep" /\ count' = count
  BY DEF SendTo
<1>3. data = x
  BY <1>2 DEF CountInv
<1>4. Written' = Written
  BY <1>1, <1>2 DEF Written
<1>5. ASSUME NEW k \in 1 .. n + 1 PROVE wire'[k].data = CountValue(k - 1)
  <2>1. CASE k \in 1 .. n
    BY <1>1, <2>1 DEF CountInv
  <2>2. CASE k = n + 1
    BY <1>1, <1>3, <2>2
  <2>3. QED
    BY <1>1, <2>1, <2>2
<1>6. CountInv'
  BY <1>1, <1>2, <1>4, <1>5 DEF CountInv, CountValue
<1> HIDE DEF x
<1>7. Payloads' = [k \in 1 .. n + 1 |-> wire'[k].data]
  BY <1>1 DEF Payloads
<1> DEFINE T == {wire[k].data : k \in 1 .. n} \cup {x}
<1>8. x \in T /\ \A k \in 1 .. n : wire[k].data \in T
  OBVIOUS
<1> HIDE DEF T
<1>9. Payloads \in Seq(T) /\ Len(Payloads) = n
  <2>1. Payloads \in [1 .. n -> T]
    BY <1>8 DEF Payloads
  <2>2. QED
    BY <1>1, <2>1, SeqDef, LenProperties
<1>10. Payloads' = Append(Payloads, x)
  <2> DEFINE a == Append(Payloads, x)
  <2>1. a \in Seq(T) /\ Len(a) = n + 1 /\ a[n + 1] = x
    BY <1>8, <1>9
  <2>2. \A k \in 1 .. n : a[k] = Payloads[k] /\ Payloads[k] = wire[k].data
    BY <1>8, <1>9 DEF Payloads
  <2> HIDE DEF a
  <2>3. DOMAIN a = 1 .. n + 1 /\ a = [k \in 1 .. n + 1 |-> a[k]]
    BY <2>1
  <2>4. \A k \in 1 .. n + 1 : a[k] = wire'[k].data
    BY <1>1, <1>3, <2>1, <2>2
  <2>5. a = [k \in 1 .. n + 1 |-> wire'[k].data]
    BY <2>3, <2>4
  <2>6. QED
    BY <1>7, <2>5 DEF a
<1>11. QED
  BY <1>6, <1>10 DEF x

LEMMA CountStep ==
  ASSUME FrameInv, CountInv, [Next]_vars
  PROVE  CountInv'
<1>1. CASE Format
  BY <1>1, FormatCounts
<1>2. CASE SendTo
  BY <1>2, SendToCounts
<1>3. CASE Switch
  <2>1. UNCHANGED <<pc, count, data>>
    BY <1>3 DEF Switch
  <2>2. Len(wire') = Len(wire) /\ \A k \in 1 .. Len(wire) : wire'[k].data = wire[k].data
    BY <1>3, SwitchKeeps
  <2>3. Written' = Written
    BY <2>1, <2>2 DEF Written
  <2>4. QED
    BY <2>1, <2>2, <2>3, CountKept
<1>4. CASE SetUp
  BY <1>4, CountKept DEF SetUp, Written
<1>5. CASE LoopTest
  BY <1>5, CountKept DEF LoopTest, Written
<1>6. CASE StoreChecksum
  BY <1>6, CountKept DEF StoreChecksum, Written
<1>7. CASE SetUpFails \/ FpgaSendLoop \/ OpenSocket
  BY <1>7, CountKept DEF SetUpFails, FpgaSendLoop, OpenSocket, Written
<1>8. CASE SendToFails \/ Sleep
  BY <1>8, CountKept DEF SendToFails, Sleep, Written
<1>9. CASE StopLoop
  BY <1>9, CountKept DEF StopLoop, Written
<1>10. CASE UNCHANGED vars
  BY <1>10, CountKept DEF vars, Written
<1>11. QED
  BY <1>1, <1>2, <1>3, <1>4, <1>5, <1>6, <1>7, <1>8, <1>9, <1>10
     DEF Next, Program, Failures, Ended

(* snprintf writes the next message, into the packet that is free. *)
LEMMA FormatWrites ==
  ASSUME FrameInv, Format
  PROVE  Stream!Write
<1>1. pc = "format" /\ pc' = "checksum" /\ wire' = wire /\ Len(wire) \in Nat
  BY DEF Format, FrameInv, IsSeq
<1>2. Written' = Written + 1 /\ Released' = Released /\ Payloads' = Payloads
  BY <1>1 DEF Written, Released, Payloads
<1>3. Written' \in Written + 1 .. Released + 1
  BY <1>1 DEF Written, Released
<1>4. QED
  BY <1>2, <1>3 DEF Stream!Write, Written, Released, Payloads

(* sendto transmits it, with the value of count it was written with. *)
LEMMA SendToTransmits ==
  ASSUME FrameInv, CountInv, SendTo
  PROVE  Stream!Transmit
<1>1. pc = "send" /\ pc' = "sleep" /\ Len(wire) \in Nat /\ Len(wire') = Len(wire) + 1
  BY SendToSends DEF SendTo
<1>2. Payloads' = Append(Payloads, CountValue(Len(wire)))
  BY SendToCounts
<1>3. Written' = Written /\ Released' = Released
  BY <1>1 DEF Written, Released
<1>4. Len(Payloads) = Len(wire)
  BY <1>1 DEF Payloads
<1>5. Len(Payloads) < Written
  BY <1>1, <1>4 DEF Written
<1>6. QED
  BY <1>2, <1>3, <1>4, <1>5 DEF Stream!Transmit, Written, Released, Payloads

(* At the end of the round the packet is free again. *)
LEMMA SleepReleases ==
  ASSUME FrameInv, Sleep
  PROVE  Stream!Release
<1>1. pc = "sleep" /\ pc' = "loop" /\ wire' = wire /\ Len(wire) \in Nat
  BY DEF Sleep, FrameInv, IsSeq
<1>2. Written' = Written /\ Payloads' = Payloads
  BY <1>1 DEF Written, Payloads
<1>3. Released' \in Released + 1 .. Len(wire)
  BY <1>1 DEF Released
<1>4. Len(Payloads) = Len(wire)
  BY <1>1 DEF Payloads
<1>5. QED
  BY <1>2, <1>3, <1>4 DEF Stream!Release, Written, Released, Payloads

(* A switch changes no message, and the other steps move none. *)
LEMMA SwitchStutters ==
  ASSUME FrameInv, Switch
  PROVE  UNCHANGED Stream!vars
<1>1. pc' = pc /\ Len(wire') = Len(wire)
      /\ \A k \in 1 .. Len(wire) : wire'[k].data = wire[k].data
  BY SwitchKeeps DEF Switch
<1>2. UNCHANGED <<Written, Released, Payloads>>
  BY <1>1 DEF Written, Released, Payloads
<1>3. QED
  BY <1>2 DEF Stream!vars, Written, Released, Payloads

LEMMA OtherStutters ==
  ASSUME SetUp \/ SetUpFails \/ FpgaSendLoop \/ OpenSocket \/ LoopTest \/ StoreChecksum
         \/ SendToFails \/ StopLoop \/ UNCHANGED vars
  PROVE  UNCHANGED Stream!vars
<1>1. UNCHANGED <<Written, Released, Payloads>>
  BY DEF SetUp, SetUpFails, FpgaSendLoop, OpenSocket, LoopTest, StoreChecksum, SendToFails,
         StopLoop, vars, Written, Released, Payloads
<1>2. QED
  BY <1>1 DEF Stream!vars, Written, Released, Payloads

LEMMA HostStreamInit == Init => Stream!Init
<1> SUFFICES ASSUME Init
             PROVE  Stream!Init
  OBVIOUS
<1>1. wire = << >> /\ pc = "setup"
  BY DEF Init
<1>2. Written = 0 /\ Released = 0 /\ Payloads = << >>
  BY <1>1 DEF Written, Released, Payloads
<1>3. QED
  BY <1>2 DEF Stream!Init, Written, Released, Payloads

LEMMA HostStreamStep ==
  ASSUME FrameInv, CountInv, [Next]_vars
  PROVE  Stream!Next \/ UNCHANGED Stream!vars
<1>1. CASE Format
  BY <1>1, FormatWrites DEF Stream!Next
<1>2. CASE SendTo
  BY <1>2, SendToTransmits DEF Stream!Next
<1>3. CASE Sleep
  BY <1>3, SleepReleases DEF Stream!Next
<1>4. CASE Switch
  BY <1>4, SwitchStutters
<1>5. CASE SetUp \/ SetUpFails \/ FpgaSendLoop \/ OpenSocket \/ LoopTest \/ StoreChecksum
           \/ SendToFails \/ StopLoop \/ UNCHANGED vars
  BY <1>5, OtherStutters
<1>6. QED
  BY <1>1, <1>2, <1>3, <1>4, <1>5 DEF Next, Program, Failures, Ended

(* raw_ibverbs on the host implements the same stream of messages as       *)
(* rdma_client does, with a window of one: each value of count goes out    *)
(* once, in the order count takes them across its overflow, and before the *)
(* packet is written again.                                                *)
THEOREM HostRefinement == Spec => ImplementsStream
<1>1. FrameInv /\ CountInv /\ [Next]_vars => CountInv'
  BY CountStep
<1>2. FrameInv /\ CountInv /\ [Next]_vars => [Stream!Next]_(Stream!vars)
  BY HostStreamStep
<1>3. QED
  BY <1>1, <1>2, FrameInvariance, CountInit, HostStreamInit, PTL
     DEF Spec, ImplementsStream, Stream!Spec

--------------------------------------------------------------------------------
(* lookup_addr.c, which gives main() the addresses it puts into the        *)
(* headers.                                                                *)

(* The places of a family among the entries before c, and the address at   *)
(* the last of a set of places.                                            *)
Scanned(family, c) == {k \in Places(family) : k < c}

LastIn(P) ==
  IF P = {} THEN 0 ELSE if_addrs[CHOOSE k \in P : \A j \in P : j <= k].value

(* struct addr with these addresses. *)
AddrOf(m, v4, v6) == [mac |-> m, ipv4 |-> v4, ipv6 |-> v6]

(* The inductive invariant: while the list is scanned the sender's address *)
(* holds the last entries of the part that was scanned, and res, once it   *)
(* is used, is the host's address or was never set.                        *)
LookupInv ==
  /\ if_addrs \in Seq(Entries)
  /\ lookup_pc = "main" => curr = 1 /\ if_addrs = << >> /\ local = AddrOf(0, 0, 0)
  /\ lookup_pc \in {"main", "local", "resolve"} => ~resolved
  /\ lookup_pc = "local" =>
       /\ curr \in Nat /\ curr >= 1
       /\ local = AddrOf(LastIn(Scanned("AF_PACKET", curr)), LastIn(Scanned("AF_INET", curr)),
                           LastIn(Scanned("AF_INET6", curr)))
  /\ LocalIsLastListed
  /\ lookup_pc = "arp" => (resolved => res = host)
  /\ RemoteIsNamedHost

(* The last of some places and a later one is the later one. *)
LEMMA LastIsLatest ==
  ASSUME NEW P, P \subseteq Nat, NEW c \in Nat, \A j \in P : j < c
  PROVE  LastIn(P \cup {c}) = if_addrs[c].value
<1> DEFINE Q == P \cup {c}
           k == CHOOSE x \in Q : \A j \in Q : j <= x
<1>1. c \in Q /\ \A j \in Q : j <= c
  OBVIOUS
<1>2. k \in Q /\ \A j \in Q : j <= k
  BY <1>1
<1>3. k = c
  <2>1. k \in Nat /\ c <= k /\ k <= c
    BY <1>1, <1>2
  <2> HIDE DEF k
  <2>2. QED
    BY <2>1
<1>4. LastIn(Q) = if_addrs[k].value
  BY <1>1 DEF LastIn
<1>5. QED
  BY <1>3, <1>4

(* One more entry. *)
LEMMA ScanOne ==
  ASSUME NEW n \in Nat, n >= 1, n <= Len(if_addrs), if_addrs \in Seq(Entries),
         NEW family
  PROVE  LastIn(Scanned(family, n + 1)) =
           IF if_addrs[n].name = Interface /\ if_addrs[n].family = family
           THEN if_addrs[n].value ELSE LastIn(Scanned(family, n))
<1>1. Len(if_addrs) \in Nat
  OBVIOUS
<1>2. n \in 1 .. Len(if_addrs)
  BY <1>1
<1>3. Scanned(family, n) \subseteq Nat /\ \A j \in Scanned(family, n) : j < n
  BY <1>1 DEF Scanned, Places
<1>4. CASE if_addrs[n].name = Interface /\ if_addrs[n].family = family
  <2>1. Scanned(family, n + 1) = Scanned(family, n) \cup {n}
    BY <1>1, <1>2, <1>4 DEF Scanned, Places
  <2>2. QED
    BY <1>3, <1>4, <2>1, LastIsLatest
<1>5. CASE ~(if_addrs[n].name = Interface /\ if_addrs[n].family = family)
  <2>1. Scanned(family, n + 1) = Scanned(family, n)
    BY <1>1, <1>2, <1>5 DEF Scanned, Places
  <2>2. QED
    BY <1>5, <2>1
<1>6. QED
  BY <1>4, <1>5

(* The switch over the family replaces one of the three addresses. *)
LEMMA FilledAddr ==
  ASSUME NEW m, NEW v4, NEW v6, NEW e, e.family \in Families, e.family # "NULL"
  PROVE  Filled(AddrOf(m, v4, v6), e) =
           AddrOf(IF e.family = "AF_PACKET" THEN e.value ELSE m,
                  IF e.family = "AF_INET" THEN e.value ELSE v4,
                  IF e.family = "AF_INET6" THEN e.value ELSE v6)
<1>1. ASSUME NEW x
      PROVE  /\ [AddrOf(m, v4, v6) EXCEPT !.ipv4 = x] = AddrOf(m, x, v6)
             /\ [AddrOf(m, v4, v6) EXCEPT !.ipv6 = x] = AddrOf(m, v4, x)
             /\ [AddrOf(m, v4, v6) EXCEPT !.mac = x] = AddrOf(x, v4, v6)
  BY DEF AddrOf
<1>2. CASE e.family = "AF_INET"
  BY <1>1, <1>2 DEF Filled
<1>3. CASE e.family = "AF_INET6"
  BY <1>1, <1>3 DEF Filled
<1>4. CASE e.family = "AF_PACKET"
  BY <1>1, <1>4 DEF Filled
<1>5. CASE e.family = "other"
  BY <1>5 DEF Filled
<1>6. QED
  BY <1>2, <1>3, <1>4, <1>5 DEF Families

LEMMA LookupInvInit ==
  ASSUME LookupInit
  PROVE  LookupInv
BY DEF LookupInit, ZeroAddr, LookupInv, AddrOf, LocalIsLastListed,
       RemoteIsNamedHost

LEMMA GetIfAddrsStep ==
  ASSUME LookupInv, GetIfAddrs
  PROVE  LookupInv'
<1>1. /\ lookup_pc = "main" /\ curr = 1 /\ local = AddrOf(0, 0, 0) /\ ~resolved
      /\ UNCHANGED <<curr, host, res, resolved, arp, local, remote>>
  BY DEF LookupInv, GetIfAddrs
<1>2. CASE if_addrs' \in IfLists /\ lookup_pc' = "local"
  <2>1. if_addrs' \in Seq(Entries)
    <3>1. PICK n \in 0 .. MaxEntries : if_addrs' \in [1 .. n -> Entries]
      BY <1>2 DEF IfLists
    <3>2. n \in Nat
      BY <3>1
    <3>3. QED
      BY <3>1, <3>2, SeqDef
  <2>2. \A family : Scanned(family, curr)' = {}
    <3>1. Len(if_addrs') \in Nat
      BY <2>1
    <3>2. QED
      BY <1>1, <3>1 DEF Scanned, Places
  <2>3. \A family : LastIn(Scanned(family, curr))' = 0
    BY <2>2 DEF LastIn
  <2>4. local' = AddrOf(LastIn(Scanned("AF_PACKET", curr)), LastIn(Scanned("AF_INET", curr)),
                          LastIn(Scanned("AF_INET6", curr)))'
    BY <1>1, <2>3 DEF AddrOf
  <2>5. QED
    BY <1>1, <1>2, <2>1, <2>4 DEF LookupInv, LocalIsLastListed,
       RemoteIsNamedHost
<1>3. CASE lookup_pc' = "exited" /\ UNCHANGED if_addrs
  BY <1>1, <1>3 DEF LookupInv, LocalIsLastListed, RemoteIsNamedHost
<1>4. QED
  BY <1>2, <1>3 DEF GetIfAddrs

LEMMA ScanEntryStep ==
  ASSUME LookupInv, ScanEntry
  PROVE  LookupInv'
<1> DEFINE e == if_addrs[curr]
           M(c) == LastIn(Scanned("AF_PACKET", c))
           F(c) == LastIn(Scanned("AF_INET", c))
           S(c) == LastIn(Scanned("AF_INET6", c))
<1>1. /\ lookup_pc = "local" /\ curr <= Len(if_addrs)
      /\ e.name = Interface => e.family # "NULL"
      /\ local' = IF e.name = Interface THEN Filled(local, e) ELSE local
      /\ curr' = curr + 1
      /\ UNCHANGED <<lookup_pc, if_addrs, host, res, resolved, arp, remote>>
  BY DEF ScanEntry
<1>2. /\ if_addrs \in Seq(Entries) /\ curr \in Nat /\ curr >= 1 /\ ~resolved
      /\ local = AddrOf(M(curr), F(curr), S(curr))
  BY <1>1 DEF LookupInv
<1>3. e.family \in Families
  <2>1. e \in Entries
    BY <1>1, <1>2
  <2>2. QED
    BY <2>1 DEF Entries
<1>4. /\ M(curr + 1) = IF e.name = Interface /\ e.family = "AF_PACKET" THEN e.value ELSE M(curr)
      /\ F(curr + 1) = IF e.name = Interface /\ e.family = "AF_INET" THEN e.value ELSE F(curr)
      /\ S(curr + 1) = IF e.name = Interface /\ e.family = "AF_INET6" THEN e.value ELSE S(curr)
  BY <1>1, <1>2, ScanOne
<1>5. local' = AddrOf(M(curr + 1), F(curr + 1), S(curr + 1))
  <2> HIDE DEF M, F, S, e
  <2>1. CASE e.name = Interface
    <3>1. local' = AddrOf(IF e.family = "AF_PACKET" THEN e.value ELSE M(curr),
                            IF e.family = "AF_INET" THEN e.value ELSE F(curr),
                            IF e.family = "AF_INET6" THEN e.value ELSE S(curr))
      BY <1>1, <1>2, <1>3, <2>1, FilledAddr
    <3>2. QED
      BY <1>4, <2>1, <3>1
  <2>2. CASE e.name # Interface
    BY <1>1, <1>2, <1>4, <2>2
  <2>3. QED
    BY <2>1, <2>2
<1>6. \A family : LastIn(Scanned(family, curr))' = LastIn(Scanned(family, curr + 1))
  BY <1>1 DEF LastIn, Scanned, Places
<1>7. local' = AddrOf(LastIn(Scanned("AF_PACKET", curr)), LastIn(Scanned("AF_INET", curr)),
                        LastIn(Scanned("AF_INET6", curr)))'
  BY <1>5, <1>6 DEF AddrOf
<1>8. curr' \in Nat /\ curr' >= 1
  BY <1>1, <1>2
<1>9. QED
  BY <1>1, <1>2, <1>7, <1>8 DEF LookupInv, LocalIsLastListed, RemoteIsNamedHost

LEMMA EndOfListStep ==
  ASSUME LookupInv, EndOfList
  PROVE  LookupInv'
<1>1. /\ lookup_pc = "local" /\ curr > Len(if_addrs) /\ lookup_pc' = "resolve"
      /\ UNCHANGED <<if_addrs, curr, host, res, resolved, arp, local, remote>>
  BY DEF EndOfList
<1>2. if_addrs \in Seq(Entries) /\ curr \in Nat /\ ~resolved
  BY <1>1 DEF LookupInv
<1>3. \A family : Scanned(family, curr) = Places(family)
  BY <1>1, <1>2 DEF Scanned, Places
<1>4. ASSUME NEW family PROVE LastIn(Scanned(family, curr)) = LastOf(family)
  <2>1. LastIn(Places(family)) = LastOf(family)
    BY DEF LastIn, LastOf
  <2>2. QED
    BY <1>3, <2>1
<1>5. local = [mac |-> LastOf("AF_PACKET"), ipv4 |-> LastOf("AF_INET"),
                 ipv6 |-> LastOf("AF_INET6")]
  BY <1>1, <1>4 DEF LookupInv, AddrOf
<1>6. \A family : LastOf(family)' = LastOf(family)
  BY <1>1 DEF LastOf, Places
<1>7. LocalIsLastListed'
  BY <1>1, <1>5, <1>6 DEF LocalIsLastListed
<1>8. RemoteIsNamedHost'
  BY <1>1 DEF RemoteIsNamedHost
<1>9. QED
  BY <1>1, <1>2, <1>7, <1>8 DEF LookupInv

(* getaddrinfo and the ARP table. *)
LEMMA RemoteStep ==
  ASSUME LookupInv, GetAddrInfo \/ FollowRes \/ ArpFails
                    \/ ArpAnswers \/ ScanNull
  PROVE  LookupInv'
<1>1. UNCHANGED <<if_addrs, curr, host, local>>
  BY DEF GetAddrInfo, FollowRes, ArpFails, ArpAnswers,
         ScanNull
<1>2. LocalIsLastListed'
  <2>1. \A family : LastOf(family)' = LastOf(family)
    BY <1>1 DEF LastOf, Places
  <2>2. lookup_pc' \in {"resolve", "arp"} => lookup_pc \in {"resolve", "arp"}
    BY DEF GetAddrInfo, FollowRes, ArpFails, ArpAnswers,
           ScanNull
  <2>3. QED
    BY <1>1, <2>1, <2>2 DEF LookupInv, LocalIsLastListed
<1>3. CASE GetAddrInfo
  BY <1>1, <1>2, <1>3 DEF GetAddrInfo, LookupInv, RemoteIsNamedHost
<1>4. CASE FollowRes \/ ArpFails \/ ScanNull
  BY <1>1, <1>2, <1>4 DEF FollowRes, ArpFails, ScanNull, LookupInv,
     RemoteIsNamedHost
<1>5. CASE ArpAnswers
  <2>1. PICK ipv6 \in Values \cup {0} :
          remote' = [mac |-> arp[<<Interface, res>>], ipv4 |-> res, ipv6 |-> ipv6]
    BY <1>5 DEF ArpAnswers
  <2>2. /\ lookup_pc = "arp" /\ <<Interface, res>> \in DOMAIN arp /\ lookup_pc' = "found"
        /\ UNCHANGED <<res, resolved, arp>>
    BY <1>5 DEF ArpAnswers
  <2>3. remote'.mac = arp[<<Interface, res>>] /\ remote'.ipv4 = res
    BY <2>1
  <2>4. RemoteIsNamedHost'
    BY <1>1, <2>2, <2>3 DEF LookupInv, RemoteIsNamedHost
  <2>5. QED
    BY <1>1, <1>2, <2>2, <2>4 DEF LookupInv
<1>6. QED
  BY <1>3, <1>4, <1>5

LEMMA LookupStep ==
  ASSUME LookupInv, [LookupNext]_lookupVars
  PROVE  LookupInv'
<1>1. CASE FromStrings
  BY <1>1 DEF FromStrings, LookupInv, LocalIsLastListed,
     RemoteIsNamedHost
<1>2. CASE UNCHANGED lookupVars
  <2>1. UNCHANGED <<lookup_pc, if_addrs, curr, host, res, resolved, arp, local, remote>>
    BY <1>2 DEF lookupVars
  <2>2. /\ \A family : LastOf(family)' = LastOf(family)
        /\ \A family : LastIn(Scanned(family, curr))' = LastIn(Scanned(family, curr))
    BY <2>1 DEF LastIn, Scanned, LastOf, Places
  <2>3. LocalIsLastListed'
    BY <2>1, <2>2 DEF LookupInv, LocalIsLastListed
  <2>4. RemoteIsNamedHost'
    BY <2>1 DEF LookupInv, RemoteIsNamedHost
  <2>5. lookup_pc' = "local" =>
          local' = AddrOf(LastIn(Scanned("AF_PACKET", curr)), LastIn(Scanned("AF_INET", curr)),
                            LastIn(Scanned("AF_INET6", curr)))'
    BY <2>1, <2>2 DEF LookupInv, AddrOf
  <2>6. QED
    BY <2>1, <2>3, <2>4, <2>5 DEF LookupInv, AddrOf
<1>3. QED
  BY <1>1, <1>2, GetIfAddrsStep, ScanEntryStep, EndOfListStep, RemoteStep
     DEF LookupNext, Lookup, LookupEnded

(* The sender's addresses are the last ones listed for its interface, for  *)
(* every list that getifaddrs returns.                                     *)
THEOREM LocalAddress == LookupSpec => []LocalIsLastListed
<1>1. LookupInit => LookupInv
  BY LookupInvInit
<1>2. LookupInv /\ [LookupNext]_lookupVars => LookupInv'
  BY LookupStep
<1>3. LookupInv => LocalIsLastListed
  BY DEF LookupInv
<1>4. QED
  BY <1>1, <1>2, <1>3, PTL DEF LookupSpec

(* The receiver that lookup_remote_addr finds over a resolved name is the  *)
(* host the user named, with the MAC address that the ARP table of the     *)
(* sender's interface, and of no other, has for it, for all interfaces,    *)
(* addresses and ARP tables.                                               *)
THEOREM RemoteStation == LookupSpec => []RemoteIsNamedHost
<1>1. LookupInit => LookupInv
  BY LookupInvInit
<1>2. LookupInv /\ [LookupNext]_lookupVars => LookupInv'
  BY LookupStep
<1>3. LookupInv => RemoteIsNamedHost
  BY DEF LookupInv
<1>4. QED
  BY <1>1, <1>2, <1>3, PTL DEF LookupSpec

==================================================================================
