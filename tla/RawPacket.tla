------------------------------- MODULE RawPacket -------------------------------
(***************************************************************************)
(* The RoCE frames of raw_ibverbs: the headers of raw_packet.h as          *)
(* init_invariant_headers fills them, the functions of raw_packet.c that   *)
(* show them, and the InfiniBand checksum.                                 *)
(*                                                                         *)
(* A field that is more than a byte wide and passes through htonl or htons *)
(* is the sequence of its bytes in memory (little endian), so both         *)
(* conversions reverse a sequence.  A checksum is represented by what it   *)
(* was computed over, a sequence of blocks: crc32 called on one block      *)
(* after the other is crc32 of their concatenation (Crc32).  Collisions of *)
(* CRC-32 are left out.                                                    *)
(***************************************************************************)
EXTENDS Integers, Sequences

CONSTANT MsgSize   \* MSG_SIZE, 8940 in the code

ASSUME MsgSizeAssumption == MsgSize \in Nat

Bytes == 0 .. 255

Reversed(v) == [k \in 1 .. Len(v) |-> v[Len(v) + 1 - k]]

(* The conversions, each its own inverse: htonl and ntohl, htons and ntohs. *)
htonl(v) == Reversed(v)
htons(v) == Reversed(v)

(* A uint16_t, and back. *)
Uint16(n) == << n % 256, (n \div 256) % 256 >>
Value16(v) == v[1] + (256 * v[2])

(* A uint32_t shifted by one byte, cut to a bit field of 24 bits, and a    *)
(* bit field of 24 bits read as a uint32_t.                                *)
ShiftLeft8(v)  == << 0, v[1], v[2], v[3] >>
ShiftRight8(v) == << v[2], v[3], v[4], 0 >>
Field24(v)     == << v[1], v[2], v[3] >>
Widened(f)     == << f[1], f[2], f[3], 0 >>

--------------------------------------------------------------------------------
(* ib_transport_header_size, sizeof (struct ib_headers), checksum_size and *)
(* total_header_size, of the packed structures.                            *)
EtherSize           == 14
GrhSize             == 40
TransportHeaderSize == 12 + 8
ChecksumSize        == 4
TotalHeaderSize     == EtherSize + GrhSize + TransportHeaderSize

Ones == -1   \* ~0, every bit of a field set

(* Mutant of DestinationQp: the queue pair is not shifted. *)
UnshiftedQp(qp) == Field24(htonl(qp))

(* bth.destination_qp = htonl(qp << 8), a bit field of 24 bits behind the  *)
(* eight reserved ones.                                                    *)
DestinationQp(qp) == Field24(htonl(ShiftLeft8(qp)))

(* grh.payload_length: payload, transport headers and checksum. *)
PayloadLength == htons(Uint16(MsgSize + TransportHeaderSize + ChecksumSize))

(* struct ib_grh, ib_bth and ib_deth behind an Ethernet header, all zero   *)
(* as in the static full_packet.  The traffic class is one field here and  *)
(* two parts there.                                                        *)
ZeroGrh ==
  [ip_version |-> 0, traffic_class |-> 0, flow_label |-> 0, payload_length |-> << 0, 0 >>,
   next_header |-> 0, hop_limit |-> 0, source |-> 0, dest |-> 0]

ZeroBth ==
  [opcode |-> 0, transport_hdr_version |-> 0, pad_count |-> 0, migration_request |-> 0,
   sollicited_event |-> 0, partition_key |-> << 0, 0 >>, reserved1 |-> 0,
   destination_qp |-> << 0, 0, 0 >>, acknowledge_req |-> 0, reserved2 |-> 0,
   packet_sequence |-> << 0, 0, 0 >>]

ZeroDeth == [queue_key |-> << 0, 0, 0, 0 >>, reserved |-> 0, source_qp |-> << 0, 0, 0 >>]

ZeroHeaders ==
  [ether |-> [proto |-> << 0, 0 >>, dest |-> 0, source |-> 0],
   grh |-> ZeroGrh, bth |-> ZeroBth, deth |-> ZeroDeth]

(* init_invariant_headers: EtherType 0x8915, opcode 0x64, partition key    *)
(* 0xFFFF, queue key 0x11111111 and source queue pair 0x182.               *)
init_invariant_headers(packet, src, dest, qp) ==
  [packet EXCEPT
     !.ether = [proto |-> htons(<< 21, 137 >>), dest |-> dest.mac, source |-> src.mac],
     !.grh = [@ EXCEPT !.ip_version = 6, !.next_header = 27, !.hop_limit = 1,
                       !.source = src.ipv6, !.dest = dest.ipv6,
                       !.payload_length = PayloadLength],
     !.bth = [@ EXCEPT !.opcode = 100, !.sollicited_event = 0, !.migration_request = 1,
                       !.partition_key = htons(<< 255, 255 >>),
                       !.destination_qp = DestinationQp(qp)],
     !.deth = [@ EXCEPT !.queue_key = htonl(<< 17, 17, 17, 17 >>),
                        !.source_qp = Field24(htonl(ShiftLeft8(<< 130, 1, 0, 0 >>)))]]

(* crc32, continued over one more block. *)
crc32(crc, block) == Append(crc, block)

(* Mutant of MaskedGrh: the hop limit is covered as it is. *)
MaskedGrhNotHops(grh) == [grh EXCEPT !.traffic_class = Ones, !.flow_label = Ones]

(* The fields a switch may change count as ones. *)
MaskedGrh(grh) ==
  [grh EXCEPT !.traffic_class = Ones, !.flow_label = Ones, !.hop_limit = Ones]

MaskedBth(bth) == [bth EXCEPT !.reserved1 = Ones]

ib_header_checksum(h) ==
  crc32(crc32(crc32(crc32(<< >>, Ones), MaskedGrh(h.grh)), MaskedBth(h.bth)), h.deth)

(* The bytes of a payload buffer a checksum covers. *)
Block(data, length) == [data |-> data, length |-> length]

(* The checksum of a frame, from the frame alone. *)
ib_checksum(h, data) ==
  crc32(ib_header_checksum(h),
        Block(data, Value16(htons(h.grh.payload_length)) - TransportHeaderSize - ChecksumSize))

--------------------------------------------------------------------------------
(* What print_grh, print_bth and print_deth show of the fields that are    *)
(* converted; the packet sequence number is shown without a conversion.    *)
PrintGrh(grh) == [length |-> Value16(htons(grh.payload_length))]

PrintBth(bth) ==
  [destination_qp |-> ShiftRight8(htonl(Widened(bth.destination_qp))),
   partition_key |-> Value16(htons(bth.partition_key)),
   packet_sequence |-> Widened(bth.packet_sequence)]

PrintDeth(deth) ==
  [queue_key |-> htonl(deth.queue_key),
   source_qp |-> ShiftRight8(htonl(Widened(deth.source_qp)))]

print_ib_headers(h) ==
  [grh |-> PrintGrh(h.grh), bth |-> PrintBth(h.bth), deth |-> PrintDeth(h.deth)]

================================================================================
