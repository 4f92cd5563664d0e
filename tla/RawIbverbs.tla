------------------------------- MODULE RawIbverbs -------------------------------
(***************************************************************************)
(* raw_ibverbs.c: main() and ib_host_send_loop, which sends the messages   *)
(* of rdma_client as RoCE frames over a raw socket.  With the argument     *)
(* "fpga" main() hands the headers over to ib_fpga_send_loop instead       *)
(* (FpgaSend).                                                             *)
(*                                                                         *)
(* The headers and their part of the checksum are computed once; every     *)
(* round writes a message, continues the checksum over it and stores the   *)
(* result in the four bytes behind full_packet, which struct packet does   *)
(* not include but sendto sends.  In the builds of the Makefile nothing    *)
(* that is used lies there, so checksum is a variable of its own.  On the  *)
(* way a switch may change the fields the checksum leaves out.             *)
(***************************************************************************)
EXTENDS RawPacket

CONSTANTS
  IntMax,      \* largest value of the int count, 2^31 - 1 in the code
  Addrs,       \* records [mac, ipv6] that the address lookups may return
  QueuePairs,  \* queue pair numbers on the command line, as four bytes
  MaxSent      \* bound: frames sent

ASSUME RawIbverbsAssumption ==
  /\ IntMax \in Nat
  /\ QueuePairs \subseteq [1 .. 4 -> Bytes]
  /\ MaxSent \in Nat

VARIABLES
  pc,           \* where main() stands
  packet_loop,  \* cleared by the SIGINT handler
  queue_pair,   \* from the command line
  header,       \* the headers of full_packet
  header_crc,   \* what init_invariant_headers returned
  count,        \* number of the next message
  data,         \* the number in the message in full_packet.data
  checksum,     \* the four bytes behind full_packet
  shown,        \* what print_ib_headers printed last
  wire          \* history: the frames sent, oldest first, as they arrive

vars == <<pc, packet_loop, queue_pair, header, header_crc, count, data, checksum,
          shown, wire>>

packetVars == <<queue_pair, header, header_crc>>

(* Where the process has ended: exit before the loop, exit in it, return. *)
Gone == {"not_started", "failed", "returned"}

Init ==
  /\ pc = "setup"
  /\ packet_loop = TRUE
  /\ queue_pair \in QueuePairs
  /\ header = ZeroHeaders
  /\ header_crc = << >>
  /\ count = 0
  /\ data = 0
  /\ checksum = << >>
  /\ shown = print_ib_headers(ZeroHeaders)
  /\ wire = << >>

--------------------------------------------------------------------------------
(* main() up to the send loop, for either way of sending. *)
SetUp ==
  \E local \in Addrs, remote \in Addrs, use_fpga \in BOOLEAN :
    LET h == init_invariant_headers(header, local, remote, queue_pair) IN
      /\ pc = "setup"
      /\ header' = h
      /\ header_crc' = ib_header_checksum(h)
      /\ pc' = IF use_fpga THEN "fpga" ELSE "socket"
      /\ UNCHANGED <<packet_loop, queue_pair, count, data, checksum, shown, wire>>

(* sigaction, the arguments, a lookup or if_nametoindex fails. *)
SetUpFails ==
  /\ pc = "setup"
  /\ pc' = "not_started"
  /\ UNCHANGED <<packetVars, packet_loop, count, data, checksum, shown, wire>>

(* ib_fpga_send_loop, which FpgaSend has in detail: it returns or ends the *)
(* process.                                                                *)
FpgaSendLoop ==
  /\ pc = "fpga"
  /\ pc' \in {"returned", "not_started"}
  /\ UNCHANGED <<packetVars, packet_loop, count, data, checksum, shown, wire>>

(* socket() succeeds or fails. *)
OpenSocket ==
  /\ pc = "socket"
  /\ pc' \in {"loop", "not_started"}
  /\ UNCHANGED <<packetVars, packet_loop, count, data, checksum, shown, wire>>

(* while (packet_loop); at the bound the program waits here for SIGINT. *)
LoopTest ==
  /\ pc = "loop"
  /\ packet_loop => Len(wire) < MaxSent
  /\ pc' = IF packet_loop THEN "format" ELSE "returned"
  /\ UNCHANGED <<packetVars, packet_loop, count, data, checksum, shown, wire>>

(* count++, as the build's two's complement int does it. *)
NextCount(n) == IF n = IntMax THEN -IntMax - 1 ELSE n + 1

(* Mutant of Format: ++count instead of count++. *)
FormatPreIncrement ==
  /\ pc = "format"
  /\ data' = NextCount(count)
  /\ count' = NextCount(count)
  /\ pc' = "checksum"
  /\ UNCHANGED <<packetVars, packet_loop, checksum, shown, wire>>

(* snprintf; the text always fits into MSG_SIZE characters. *)
Format ==
  /\ pc = "format"
  /\ data' = count
  /\ count' = NextCount(count)
  /\ pc' = "checksum"
  /\ UNCHANGED <<packetVars, packet_loop, checksum, shown, wire>>

(* The checksum is continued over the payload and stored behind it, and    *)
(* the headers are printed.                                                *)
StoreChecksum ==
  /\ pc = "checksum"
  /\ checksum' = crc32(header_crc, Block(data, MsgSize))
  /\ shown' = print_ib_headers(header)
  /\ pc' = "send"
  /\ UNCHANGED <<packetVars, packet_loop, count, data, wire>>

(* uint32_t length, what sendto is told to send. *)
FrameLength == MsgSize + TotalHeaderSize + ChecksumSize

SendTo ==
  /\ pc = "send"
  /\ wire' = Append(wire, [header |-> header, data |-> data, checksum |-> checksum,
                           bytes |-> FrameLength])
  /\ pc' = "sleep"
  /\ UNCHANGED <<packetVars, packet_loop, count, data, checksum, shown>>

SendToFails ==
  /\ pc = "send"
  /\ pc' = "failed"
  /\ UNCHANGED <<packetVars, packet_loop, count, data, checksum, shown, wire>>

(* sleep(1), which a signal cuts short. *)
Sleep ==
  /\ pc = "sleep"
  /\ pc' = "loop"
  /\ UNCHANGED <<packetVars, packet_loop, count, data, checksum, shown, wire>>

(* The SIGINT handler. *)
StopLoop ==
  /\ pc \notin Gone
  /\ packet_loop
  /\ packet_loop' = FALSE
  /\ UNCHANGED <<packetVars, pc, count, data, checksum, shown, wire>>

(* A switch changes the fields of the newest frame that it may change. *)
Switch ==
  \E hops \in {0, 1}, label \in {0, 1}, class \in {0, 1}, congestion \in {0, 1} :
    LET newest == Len(wire)
        h      == wire[newest].header
    IN
      /\ wire # << >>
      /\ wire' = [wire EXCEPT ![newest].header =
                    [h EXCEPT !.grh = [h.grh EXCEPT !.hop_limit = hops, !.flow_label = label,
                                                    !.traffic_class = class],
                              !.bth = [h.bth EXCEPT !.reserved1 = congestion]]]
      /\ UNCHANGED <<packetVars, pc, packet_loop, count, data, checksum, shown>>

--------------------------------------------------------------------------------
Program ==
  \/ SetUp \/ FpgaSendLoop \/ OpenSocket \/ LoopTest \/ Format \/ StoreChecksum
  \/ SendTo \/ Sleep

Failures == SetUpFails \/ SendToFails

(* The process is gone, or has sent as many frames as the bound allows. *)
Ended == (pc \in Gone \/ Len(wire) = MaxSent) /\ UNCHANGED vars

Next == Program \/ Failures \/ StopLoop \/ Switch \/ Ended

Spec == Init /\ [][Next]_vars

--------------------------------------------------------------------------------
(* The length of a frame agrees with the length its header states: the     *)
(* checksum that lies behind struct packet is part of both.                *)
LengthsAgree(f) ==
  f.bytes = EtherSize + GrhSize + Value16(htons(f.header.grh.payload_length))

(* A receiver that computes the checksum of an arriving frame as           *)
(* ib_checksum does, over the length the frame states and whatever a       *)
(* switch has changed on the way, gets the checksum the frame carries:     *)
(* the header part, computed once, still belongs to the headers sent, and  *)
(* the payload part to this payload and not to an earlier one.             *)
FramesVerify ==
  \A k \in 1 .. Len(wire) :
    /\ wire[k].checksum = ib_checksum(wire[k].header, wire[k].data)
    /\ LengthsAgree(wire[k])

(* The three bytes of a frame that name the queue pair hold, most          *)
(* significant byte first, the number from the command line, and this is   *)
(* the number print_bth shows.                                             *)
ReachesQueuePair ==
  \A k \in 1 .. Len(wire) :
    LET qp == << queue_pair[1], queue_pair[2], queue_pair[3] >> IN
      /\ Reversed(wire[k].header.bth.destination_qp) = qp
      /\ shown.bth.destination_qp = Widened(qp)

(* The n-th value that count takes. *)
CountValue(n) ==
  LET m == n % (2 * (IntMax + 1)) IN IF m <= IntMax THEN m ELSE m - 2 * (IntMax + 1)

(* The host loop as a stream of messages with one buffer. *)
Stream == INSTANCE MessageStream WITH
  Payload <- CountValue, Window <- 1, broken <- FALSE,
  written <- Len(wire) + (IF pc \in {"checksum", "send", "failed"} THEN 1 ELSE 0),
  released <- Len(wire) - (IF pc = "sleep" THEN 1 ELSE 0),
  wire <- [k \in 1 .. Len(wire) |-> wire[k].data]

(* raw_ibverbs on the host implements MessageStream, as rdma_client does.  *)
ImplementsStream == Stream!Spec

================================================================================
