--------------------------------- MODULE RawUdp ---------------------------------
(***************************************************************************)
(* raw_udp.c: the client of udp.c on a raw socket.  The program builds the *)
(* Ethernet, IPv4 and UDP headers itself, in front of the message in one   *)
(* static buffer, and reuses that buffer for every frame: the lengths and  *)
(* the header checksum of a frame are the ones of its own message only if  *)
(* every round brings all of them up to date.                              *)
(*                                                                         *)
(* A 16-bit field is the number its bytes make in the memory of a little   *)
(* endian machine, so htons swaps the bytes.                               *)
(***************************************************************************)
EXTENDS Ipv4Check, FiniteSets

CONSTANTS
  IntMax,   \* largest value of the int count, 2^31 - 1 in the code
  Addrs,    \* IPv4 addresses, each a pair of words, that the lookups may return
  Ports,    \* values of atoi(argv[1])
  MaxSent   \* bound: frames sent

ASSUME RawUdpAssumption ==
  /\ IntMax \in Nat
  /\ Addrs \subseteq Words \X Words
  /\ Ports \subseteq Nat
  /\ MaxSent \in Nat

VARIABLES
  pc,           \* where main() stands
  packet_loop,  \* cleared by the SIGINT handler
  count,        \* number of the next message
  ip_header,    \* the ten words of *ip_header
  udp_header,   \* *udp_header
  udp_data,     \* the number in the message that is in the buffer
  wire          \* history: the frames sent, oldest first

vars == <<pc, packet_loop, count, ip_header, udp_header, udp_data, wire>>

(* Sizes of struct ethhdr, iphdr and udphdr. *)
EtherSize == 14
IpSize    == 20
UdpSize   == 8

(* header_size *)
HeaderSize == EtherSize + IpSize + UdpSize

(* htons, and ntohs, of a number that is first cut to 16 bits.             *)
htons(n) == ((n % 256) * 256) + ((n \div 256) % 256)

(* The low 16 bits of htonl(n), which holds the four bytes of n in reverse *)
(* order: these are the upper two bytes of n, swapped.                     *)
htonlLow16(n) == htons(n \div 65536)

(* Places of fields among the words of an IPv4 header. *)
TotLen == 2
Check  == 6

(* Number of decimal digits of n; an int has at most ten. *)
Digits(n) ==
  1 + Cardinality({p \in {10, 100, 1000, 10000, 100000, 1000000, 10000000, 100000000,
                          1000000000} : p <= n})

(* Characters of "Message: %d", without the terminator. *)
TextLen(n) == 9 + (IF n < 0 THEN 1 + Digits(-n) ELSE Digits(n))

(* Where the process has ended: exit before the loop, exit in it, return. *)
Gone == {"not_started", "failed", "returned"}

Init ==
  /\ pc = "setup"
  /\ packet_loop = TRUE
  /\ count = 0
  /\ ip_header = [w \in 1 .. 10 |-> 0]
  /\ udp_header = [source |-> 0, dest |-> 0, len |-> 0, check |-> 0]
  /\ udp_data = 0
  /\ wire = << >>

--------------------------------------------------------------------------------
(* The fields of the IPv4 header that stay as they are: length and version *)
(* (0x45) with the type of service, the id, the fragment offset, time to   *)
(* live (255) with the protocol (17), and the addresses.                   *)
InvariantIpHeader(saddr, daddr) ==
  << 69, 0, htonlLow16(54321), 0, 17 * 256 + 255, 0,
     saddr[1], saddr[2], daddr[1], daddr[2] >>

(* Everything before the loop.  An address the lookup does not find stays  *)
(* zero (LookupAddr).                                                      *)
SetUp ==
  \E local \in Addrs \cup {<<0, 0>>}, remote \in Addrs, port \in Ports :
    /\ pc = "setup"
    /\ ip_header' = InvariantIpHeader(local, remote)
    /\ udp_header' = [source |-> htons(4242), dest |-> htons(port), len |-> 0, check |-> 0]
    /\ pc' = "loop"
    /\ UNCHANGED <<packet_loop, count, udp_data, wire>>

(* sigaction, the arguments, a lookup, if_nametoindex or socket fails. *)
SetUpFails ==
  /\ pc = "setup"
  /\ pc' = "not_started"
  /\ UNCHANGED <<packet_loop, count, ip_header, udp_header, udp_data, wire>>

(* while (packet_loop); at the bound the program waits here for SIGINT. *)
LoopTest ==
  /\ pc = "loop"
  /\ packet_loop => Len(wire) < MaxSent
  /\ pc' = IF packet_loop THEN "format" ELSE "returned"
  /\ UNCHANGED <<packet_loop, count, ip_header, udp_header, udp_data, wire>>

(* count++, as the build's two's complement int does it. *)
NextCount(n) == IF n = IntMax THEN -IntMax - 1 ELSE n + 1

(* Mutant of Format: ++count instead of count++. *)
FormatPreIncrement ==
  /\ pc = "format"
  /\ udp_data' = NextCount(count)
  /\ count' = NextCount(count)
  /\ pc' = "headers"
  /\ UNCHANGED <<packet_loop, ip_header, udp_header, wire>>

(* snprintf; the text always fits into max_msg_size characters. *)
Format ==
  /\ pc = "format"
  /\ udp_data' = count
  /\ count' = NextCount(count)
  /\ pc' = "headers"
  /\ UNCHANGED <<packet_loop, ip_header, udp_header, wire>>

(* ip_header->check = 0; ip_header->check = ipv4check(...) *)
Checked(hdr) ==
  LET cleared == [hdr EXCEPT ![Check] = 0] IN
    [cleared EXCEPT ![Check] = ipv4check(cleared, IpSize)]

(* 8 + msg_size *)
UdpLength(msg_size) == 8 + msg_size

(* uint16_t total_length, for the message in the buffer. *)
TotalLength == (HeaderSize + TextLen(udp_data)) % 65536

(* The fields of the headers that depend on the message. *)
UpdateHeaders ==
  /\ pc = "headers"
  /\ ip_header' = Checked([ip_header EXCEPT ![TotLen] = htons(TotalLength - EtherSize)])
  /\ udp_header' = [udp_header EXCEPT !.len = htons(UdpLength(TextLen(udp_data)))]
  /\ pc' = "send"
  /\ UNCHANGED <<packet_loop, count, udp_data, wire>>

(* sendto hands total_length bytes of the buffer to the interface. *)
SendTo ==
  /\ pc = "send"
  /\ wire' = Append(wire, [ip |-> ip_header, udp |-> udp_header, msg |-> udp_data,
                           bytes |-> TotalLength])
  /\ pc' = "sleep"
  /\ UNCHANGED <<packet_loop, count, ip_header, udp_header, udp_data>>

SendToFails ==
  /\ pc = "send"
  /\ pc' = "failed"
  /\ UNCHANGED <<packet_loop, count, ip_header, udp_header, udp_data, wire>>

(* sleep(1), which a signal cuts short. *)
Sleep ==
  /\ pc = "sleep"
  /\ pc' = "loop"
  /\ UNCHANGED <<packet_loop, count, ip_header, udp_header, udp_data, wire>>

(* The SIGINT handler. *)
StopLoop ==
  /\ pc \notin Gone
  /\ packet_loop
  /\ packet_loop' = FALSE
  /\ UNCHANGED <<pc, count, ip_header, udp_header, udp_data, wire>>

--------------------------------------------------------------------------------
Program == SetUp \/ LoopTest \/ Format \/ UpdateHeaders \/ SendTo \/ Sleep

Failures == SetUpFails \/ SendToFails

(* The process is gone, or has sent as many frames as the bound allows. *)
Ended == (pc \in Gone \/ Len(wire) = MaxSent) /\ UNCHANGED vars

Next == Program \/ Failures \/ StopLoop \/ Ended

Spec == Init /\ [][Next]_vars

--------------------------------------------------------------------------------
(* The lengths of a frame agree with each other and with the text of the   *)
(* message it carries.                                                     *)
LengthsAgree(f) ==
  /\ f.bytes = HeaderSize + TextLen(f.msg)
  /\ htons(f.ip[TotLen]) = f.bytes - EtherSize
  /\ htons(f.udp.len) = htons(f.ip[TotLen]) - IpSize

(* A receiver accepts every frame on the wire, although the header is      *)
(* reused from frame to frame with the previous checksum and lengths in    *)
(* it: its words, the checksum computed by ipv4check included, add up to   *)
(* ones in the arithmetic of RFC 791, and its lengths are the ones of its  *)
(* own message, also when that is shorter than the one before it (count    *)
(* has overflowed).                                                        *)
HeadersVerify == \A k \in 1 .. Len(wire) : Verifies(wire[k].ip) /\ LengthsAgree(wire[k])

(* The n-th value that count takes. *)
CountValue(n) ==
  LET m == n % (2 * (IntMax + 1)) IN IF m <= IntMax THEN m ELSE m - 2 * (IntMax + 1)

(* raw_udp as a stream of messages with one buffer: a message is written   *)
(* between snprintf and sendto, and the buffer is free from then on.       *)
Stream == INSTANCE MessageStream WITH
  Payload <- CountValue, Window <- 1, broken <- FALSE,
  written <- Len(wire) + (IF pc \in {"headers", "send", "failed"} THEN 1 ELSE 0),
  released <- Len(wire) - (IF pc = "sleep" THEN 1 ELSE 0),
  wire <- [k \in 1 .. Len(wire) |-> wire[k].msg]

(* raw_udp implements MessageStream: every message goes out once, in order *)
(* and before the buffer is written again.                                 *)
ImplementsStream == Stream!Spec

================================================================================
