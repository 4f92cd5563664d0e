# A TLA+ model of ibverb-prototype

The repository contains five small network programs: two ibverbs programs that
stream Unreliable Datagrams (`rdma_client`, `rdma_server`), a program that
builds the same packets itself on a raw socket or on an FPGA (`raw_ibverbs`),
and two UDP programs used for debugging (`udp`, `raw_udp`).  This directory
models them in TLA+, checks the models with TLC and proves the main results
with TLAPS.

## 1. Inventory

| part | state it keeps | operations | interacts with |
|------|----------------|------------|----------------|
| request rings, `rdma.c` | `send_requests`/`recv_requests` linked into a ring by `next` | ring set-up in `rdma_init_*`, `post_sends`, `post_recvs` | the provider walks the list it is handed |
| `rdma_client.c` | send buffers, `count`, `wc[10]`, `client_loop`, exit status | fill, post all, poll, rewrite, post again, clean up; SIGINT handler | ring, send queue, completion queue; the adapter reads the buffers concurrently |
| `rdma_server.c` | receive buffers, `wc[10]`, `server_loop`, exit status | post all, poll, print, post again, clean up; SIGINT handler | ring, receive queue, completion queue; the adapter writes the buffers concurrently |
| resources of `rdma.c` | the global handles, the state of the queue pair | `rdma_init`, `rdma_init_server`, `rdma_init_client`, `allocate_buf`, `rdma_cleanup`, `internal_rdma_cleanup` | every call of the verbs library may fail |
| `raw_ibverbs.c`, `raw_packet.*` | one `struct packet`, the header CRC, `packet_loop` | header set-up, header CRC, send loop | raw socket, or the FPGA |
| `crc32.h` | a table | `crc32` | used by `raw_ibverbs` and the kernel |
| `ibverbs.cl`, `fpga_host.cc` | the packet in the kernel, two OpenCL queues | copy header, run kernel, write lines to the channel | host and device run concurrently |
| `udp.c` | `packet_loop`, one buffer | `server_loop`, `client_loop`, SIGINT handler | UDP sockets |
| `raw_udp.c` | one Ethernet frame | header set-up, `ipv4check`, send loop | raw socket |
| `lookup_addr.*` | none | look up and format addresses | resolver, kernel tables |
| `opencl_utils.*` | none | context, program, kernel call | OpenCL |
| `sys/verbs.h` | none | declarations of libibverbs, vendored | |

What is hard to get right here, and hard to test:

* the adapter works on the same buffers as the program, at its own pace;
* both ibverbs programs requeue "`ne` requests beginning with the first
  completed one" and never look at the other completions; this is right only
  if completions are always consecutive on the ring, also where a batch wraps
  around it;
* the ring is cut and restored around every post, and a post may fail in the
  middle of the list;
* the queues have exactly as many entries as the ring has requests;
* SIGINT may arrive at any time; completions may report errors in the middle of
  a batch;
* some twenty calls of the initialisation may each fail, after which exactly
  what was acquired must be released, in an order the library accepts;
* the raw programs reuse one buffer and headers computed once: what a frame
  carries besides its message must be brought up to date in every round;
* checksums, byte orders, bit fields and the padding of lines go wrong at a few
  values only;
* the FPGA's copy and its kernel are on two command queues nobody orders, and the
  copy reads a buffer that is still mapped for writing;
* the address lookups use results they do not check.

`PROJECT.json` lists these hazards at their lines, each with the properties that
would catch it going wrong.

## 2. Modules

| module | models | used by |
|--------|--------|---------|
| `RequestRing` | the ring of work requests, `post_*` up to the library call, its return | `RdmaClient`, `RdmaServer` |
| `RdmaClient` | `rdma_client.c` and the adapter on the sending side | `RdmaSystem`, `RdmaClientProofs` |
| `RdmaServer` | `rdma_server.c` and the adapter on the receiving side | `RdmaSystem`, `RdmaServerProofs` |
| `RdmaSystem` | client and server over the network between them | `RdmaSystemProofs` |
| `RdmaLifecycle` | what `rdma.c` acquires and releases, with every failure | `RdmaLifecycleProofs` |
| `UdpStream` | both loops of `udp.c`, SIGINT, the network between them | `RawUdpProofs` |
| `MessageStream` | abstract: what every sending program promises | `RdmaClient`, `RawUdp`, `RawIbverbs` |
| `Ipv4Check` | `ipv4check`, and the ones' complement sum it stands for | `RawUdp` |
| `RawUdp` | `raw_udp.c` | `RawUdpProofs` |
| `RawPacket` | `raw_packet.*`, the header and checksum functions of `raw_ibverbs.c` | `RawIbverbs` |
| `RawIbverbs` | `main` and the send loop of `raw_ibverbs.c`, a switch on the way | `RawIbverbsProofs` |
| `Crc32` | `crc32.h`, and the bitwise definition of CRC-32 | `FpgaSendProofs` |
| `FpgaKernel` | the arithmetic of lines, flags and padding of `ibverbs.cl` | `FpgaSend` |
| `FpgaSend` | `fpga_host.cc`, `opencl_utils`, the two queues, the kernel | `FpgaSendProofs` |
| `LookupAddr` | `lookup_addr.c` and what the system may answer | `RawIbverbsProofs` |
| `RequestRingProofs` | lemmas about numbers, slots and ring links | `RdmaClientProofs`, `RdmaServerProofs` |
| `RdmaClientProofs` | the inductive invariant of `RdmaClient`, its consequences, the refinement of `MessageStream` | `RdmaSystemProofs` |
| `RdmaServerProofs` | the inductive invariant of `RdmaServer` and its consequences | `RdmaSystemProofs` |
| `RdmaSystemProofs` | the stream from the client's buffers to the server's lines; each program in the system is itself | |
| `RdmaLifecycleProofs` | what is held at every place of `rdma.c`, and its consequences | |
| `FpgaSendProofs` | framing, lines inside `data[]`, and checksum of `FpgaSend`; `Crc32` | |
| `RawUdpProofs` | `ipv4check`, the frames and the stream of `RawUdp`; `UdpStream` | |
| `RawIbverbsProofs` | the frames and the stream of `RawIbverbs`; `LookupAddr` | |

Each `MC` module instantiates the module it is named after.

### RequestRing

A pointer to request `i` is the number `i`, `NULL` is -1.  `next` is the array of
links.  `CutRing` is the entry of `post_sends`/`post_recvs` (lines 471-476 and
495-500 of `rdma.c`); `LinkRequest` is one step of the provider, which queues the
request it stands on and follows `next`; `RestoreRing` is the rest of the
function.  The provider's walk is split into single steps because the adapter
may transmit and complete the first requests of a list before the last one is
queued.

### RdmaClient

`pc` names the place in `main`: `fill` (lines 82-85), `post_first` (88), `walk`
(inside `ibv_post_send`), `loop` (the test of `client_loop`), `check` (107-122),
`sleep`, `cleanup`, `exited`.  A buffer is its first byte, since `memset` gives
all bytes the same value; `Byte` is the conversion of `count` to unsigned char.
`wq` holds the posted requests, of which the first `transmitted` are on the wire;
`cq` holds the completions.  The adapter is the environment (external): it
transmits and completes in the order of posting, or fails a request, after which
the queue pair no longer transmits and the other requests fail too.  The model
reads a buffer when its datagram is transmitted.  With inline sends
(`rdma.c:146`) the library reads it at the post; since no buffer changes while its
request is posted (`NoOverwriteInFlight`), the datagram is the same.

`polled` and `wire` are history variables.  The payload is
compared with the running number modulo `ByteRange`.

### RdmaServer

The same skeleton.  `data` is the first payload byte of every buffer; an
arriving datagram consumes the oldest posted request, writes its buffer and
completes in one step, or is dropped when no request is posted.  `PrintMessage`
prints before it looks at the status, as the code does; `SignedChar` is what
`printf("%d")` makes of a `char`.

### RdmaLifecycle

A function is a table of its calls.  `CallFrom` takes one acquiring call, which
succeeds or fails; `ReleaseFrom` takes one releasing call, which succeeds, fails
(and exits, or is ignored, as in the code) or is skipped because its pointer is
`NULL`.  The calls up to `ibv_open_device` are actions of their own, because of
the device list.  `live` is what exists, `ptrs` which pointers are set: they
differ, since most functions do not reset a pointer they released.

### UdpStream

Both roles of `udp.c`, with the prefix `c_` for the client and `s_` for the
server.  A datagram is its number; `CountRange` stands for the 2^32 values of
`count`, so the model needs no bound on the number of messages.  `net` is a set:
datagrams may be delivered in any order, more than once, or lost.  `recvfrom` is
split: the call finds a datagram, or the process waits in it (`blocked`).
`sigaction` installs the handler without `SA_RESTART`, so SIGINT ends a wait with
`EINTR`, which the code treats as any other error; at every other place it only
clears `packet_loop`.  `s_owed` is a history variable: datagrams received less lines
printed.

### RdmaSystem

`RdmaClient` and `RdmaServer` are instantiated with variables of their own and take
their own steps; `net` holds the datagrams under way.  A step of the client's
adapter that transmits puts its datagram into `net`, and one of the server's
adapter that receives or drops takes it out.  The network loses datagrams and keeps
the order of the others, as a single path does.

### MessageStream and its implementations

The abstract specification has a count of messages written, a count of those whose
buffer is free again, the payloads on the wire, and a flag for a failure.  Three
programs implement it (`ImplementsStream` in each module):

| program | written | released | window |
|---------|---------|----------|--------|
| `rdma_client` | `count` | completions polled | `completion_queue_size` |
| `raw_udp` | frames sent, and the message between `snprintf` and `sendto` | frames sent and slept after | 1 |
| `raw_ibverbs host` | the same | the same | 1 |

`raw_ibverbs fpga` is not a stream: it sends one frame (section 6).

### RawUdp, Ipv4Check

The IPv4 header is the sequence of its ten 16-bit words as they lie in memory on a
little endian machine; `htons` swaps the bytes of a word.  The text of a message is
its number, of which the length of the text is a function (`TextLen`).  `count` is
an `int` with a small `IntMax`, so that it overflows and messages become shorter as
well as longer.  `ipv4check` is translated assignment by assignment; the reference
is the addition with end-around carry of RFC 791.

### RawPacket, RawIbverbs, Crc32

Fields that pass through `htonl` or `htons` are the sequences of their bytes in
memory, the others numbers.  A checksum is the sequence of blocks it was computed
over: `Crc32` checks that chained calls compute the CRC of the concatenation, and
`RawPacket` uses it.  The four bytes behind `struct packet`, where the checksum is
stored, are a variable of their own; no variable the program uses lies there in
the builds of the Makefile.  `Switch` changes the fields of a frame on the wire
that the checksum treats as ones, `bth.reserved1` among them.  `PrintGrh`, `PrintBth` and `PrintDeth` keep the
fields that are converted for printing; the others are printed as they are.

`Crc32` has the table of the source, each entry as two 16-bit halves since TLC's
integers are signed 32-bit ones.  A register, and a byte, is the set of the places of
its one bits: `^` is the symmetric difference, `>>` moves the places, `& 0xFF` keeps
those below 8.  The register of the bitwise definition runs along in the variable
`reference`.

### FpgaKernel, FpgaSend

Three processes: the host, the queue with the copy, the kernel.  The headers are
two parts, so that a copy may be half done; a part is the packet's or stale.
`host_buf` is unmapped only when the kernel has finished (`fpga_host.cc:42`), so the
copy always reads a buffer that is mapped for writing.  OpenCL leaves undefined what
it then finds: `CopyPart` takes what `memcpy` wrote or what was there before, and
`coherent` remembers which.  `in_order` remembers whether the copy was complete when
the kernel began.  The payload in the kernel's `data[]` is never written and takes any value of
`Contents`.  The lines are the bytes of flags written to the channel.

### LookupAddr

An address is a number, 0 if it was not filled in.  The system's answers (list of
interfaces, resolver, ARP table) are arbitrary.  The ARP table has entries for an
interface and an IPv4 address; `SIOCGARP` answers with an incomplete entry too, whose
MAC address is 0.  Four results are not checked: those of `getaddrinfo`, `ether_aton`
and `ifa_addr` may lead to the state `crashed`, and `arp_flags` to a receiver without a
MAC address.

## 3. Runs

| run | configuration | what it checks |
|-----|---------------|----------------|
| `client` | ring 4, batch 3, 13 messages | types (in the inductive invariant), order of the stream, no rewriting in flight, every request outstanding once, queues in bounds, the inductive invariant, the refinement of `MessageStream`; every message sent, SIGINT stops, failures reported |
| `server` | ring 3, batch 2, 6 datagrams with 2 payloads | lines printed are the messages delivered, no overwriting before printing, requests conserved, queues in bounds; every delivered message printed, requests posted again, SIGINT stops |
| `lifecycle` | both programs, every failure | order of releases, no double or missing release, what is left at exit, state at the start of the loop |
| `udp_stream` | numbers 0..2, receive buffer 2 | at most one message after SIGINT, one line per datagram received, the client stops, the server stops while datagrams arrive |
| `rdma_system` | rings of 2, 3 messages | the lines are a subsequence of the messages |
| `raw_udp` | 26 frames, `IntMax` 11 | a receiver accepts checksum and lengths of every frame, stream |
| `raw_ibverbs` | 3 frames, `IntMax` 1 | a receiver accepts checksum and length of every frame, queue pair, stream |
| `crc32` | 3 bytes in 2 calls, the first one any byte | the table and the chaining are right |
| `fpga_send` | the sizes of the code | framing, lines inside `data[]`, checksum if the headers were copied in time, the host ends |
| `lookup_addr` | lists of up to 2 entries of 2 interfaces, 2 addresses, every ARP table | the sender's addresses are the last listed ones, the receiver is the named host |
| `lifecycle_device`, `fpga_race` | as `lifecycle` and `fpga_send` | expected violations, section 6 |

Bounds.  The batch is smaller than the ring and does not divide it, so that runs of
every length start at every slot and wrap around the ring at every place.  13
messages are three turns of a ring of 4, and more than two of a byte with 5 values;
5 and 4 have no common divisor, so that a message never has the byte its slot
already holds, and a buffer that was not rewritten, or too early, shows.  6 datagrams are two turns of a ring of 3.  `MaxSent` and `MaxArrivals`
only bound the adapter; the program then idles in its loop, which is a behaviour
of the code too.  `RdmaLifecycle` and `UdpStream` need no bound; a receive buffer
of 2 is full while the server holds a third datagram.

In `RdmaSystem` the third message reuses the first one's slot on both sides; the
component runs have the larger rings.  26 frames of `raw_udp` take `count` through all 24 values of
an `int` with `IntMax` 11, from one digit to two, to negative numbers and back; the
addresses make sums that carry not at all, once, and again in the first fold.  In
`raw_ibverbs` the queue pairs have different bytes, one of them more than 24 bits.
The first byte of `crc32` takes all values, and with it the index into the table.
Two interface entries are enough for one to replace the other.  `fpga_send` has one
size of a frame, the code's; the other sizes, multiples of the line size among them,
are covered by the theorem `FramesWell`.

Fairness.  `WF_vars(Program)`: the operating system runs the process, and every
call it makes returns (`sleep`, `nanosleep`, `ibv_poll_cq` and `ibv_post_*` do not
wait for anything).  For the client also `WF_vars(NicTransmit)` and
`WF_vars(NicComplete)`: the adapter works as long as it has work.  In `UdpStream`
each process is fair, the network is not: that datagrams keep arriving is a
hypothesis of `ServerStops`.  `FpgaSend` has a fair host and two fair queues: OpenCL
works off what has been enqueued, and the board takes the lines from the channel.  Of the raw
programs and the lookups only safety is checked.  Nothing is
assumed of SIGINT, of arriving datagrams, and of failures of calls or requests.

Deadlock is checked in all runs; a process that has ended stutters (`Exited`,
`Gone`).

Every property has a mutant: a definition changed the way a plausible bug would
change the code (`LastIdxOneTooFar`, `LinksLeftCut`, `RepostSecond`, ...), with
which TLC finds the property violated.  The mutated forms stand before the
definitions they replace and are used nowhere else.

## 4. Proofs

`RdmaClientProofs` proves, for every `QueueSize`, `PollBatch`, `ByteRange` that is a
positive number and every `MaxSent`:

| theorem | statement |
|---------|-----------|
| `Invariance` | `Spec => []IndInv` |
| `TypeCorrect` | `Spec => []TypeOK` |
| `StreamCorrect` | `Spec => []StreamInOrder` |
| `QueuesBounded` | `Spec => []NoQueueOverrun` |
| `RequestsConserved` | `Spec => []AllRequestsOutstanding` |
| `InFlightUntouched` | `Spec => NoOverwriteInFlight` |
| `NothingLeftUnsent` | `Spec => []UnsentAreQueued` |
| `ClientExitExplained` | `Spec => []ExitExplained` |

The assumptions are `QueueSizeAssumption` and `ClientAssumption`; in particular
nothing is assumed of how `PollBatch` and `QueueSize` compare.

The argument.  None of the properties is inductive: that the client posts the
right requests depends on where the three queues stand relative to each other.
`IndInv` numbers the messages 0, 1, 2, ... and gives number n the slot
`n % QueueSize`.  Then `wc`, `cq` and `wq` hold consecutive numbers (`Numbered`), the
buffers hold the last `QueueSize` messages (`Contents`), what is posted has been
written and what is written had its predecessor in the slot polled (`Window`),
the ring is whole or cut behind the newest message, with the provider on the
next number (`RingShape`), and each place of the loop fixes how many messages
are written and posted (`Phase`).

The arithmetic is in `RequestRingProofs`: two different numbers less than
`QueueSize` apart have different slots (`ModDistinct`), numbers `QueueSize` apart
the same (`ModWrap`), and the ring link leads from the slot of n to the slot of
n + 1 (`LinkIsSuccessor`).  They are what makes the client's shortcut right: the
first completed request has the number `QueueSize` before the next one to be
posted (`ModWrap`), the last request of the run is the newest message
(`ModAdd`), the provider meets the cut link exactly there (`ModDistinct`), and the
buffer rewritten is not the one of any posted number (`ModDistinct`).

`RdmaClientProofs` has one lemma per action, and for each action one step per
conjunct it can disturb.

The same module proves `Refinement`, `Spec => ImplementsStream`, under the same
assumptions: each action is a step of `MessageStream` or leaves its variables alone.
The conjuncts of `IndInv` that are needed are `Phase` (the first filling writes a
whole window), `Window` (a rewritten buffer had been released, a transmitted message
had been written, a polled one transmitted) and `StreamInOrder` (the payload is the
message's own).

`UnsentAreQueued` and `ExitExplained` are what `EveryMessageSent` and
`FailureReported` rest on besides fairness: between two rounds every message that is
written and not on the wire is a request in the send queue, and the client ends with
`EXIT_FAILURE` or after SIGINT.  They have no run of their own; the runs check the
liveness properties.

The other modules prove the following.  A hypothesis of a theorem is given with it;
otherwise only the named assumptions of the model are used, which TLC evaluates in
the runs.

| module | theorem | statement |
|--------|---------|-----------|
| `RdmaServerProofs` | `ServerInvariance` | `Spec => []IndInv` |
| | `ServerTypeCorrect` | `Spec => []TypeOK` |
| | `PrintsCorrect` | `Spec => []PrintedAsDelivered` |
| | `ServerQueuesBounded` | `Spec => []NoQueueOverrun` |
| | `ServerRequestsConserved` | `Spec => []AllRequestsOutstanding` |
| | `UnprintedUntouched` | `Spec => NoOverwriteBeforePrint` |
| | `NothingLeftUnprinted` | `Spec => []UnprintedAreCompleted` |
| | `DropsExplained` | `Spec => DropsOnlyWhenFull` |
| | `ServerExitExplained` | `Spec => []ExitExplained` |
| `RdmaSystemProofs` | `EndToEnd` | `Spec => []LinesInOrder` |
| | `SystemRunsPrograms` | `Spec => Client!Spec /\ Server!Spec` |
| `RdmaLifecycleProofs` | `LifecycleInvariance` | `Spec => []LifeInv` |
| | `LifecycleTypeCorrect` | `Spec => []TypeOK` |
| | `BasesOutlive` | `Spec => []NothingOutlivesItsBase` |
| | `ReleasesLiveHandles` | `Spec => []ReleasesOnlyLiveHandles` |
| | `NothingElseLeft` | `Spec => []LeftAtExit` |
| | `RunsReady` | `Spec => []ReadyToRun` |
| `FpgaSendProofs` | `FramesWell` | `Spec => []WellFramed` |
| | `LinesFit` | `Spec => []LinesInsideData`, if `HeaderSize + Padding(FrameSize) <= 96` |
| | `LinesFitInCode` | the same, for the sizes of the code |
| | `CoversFrame` | `Spec => []CoversFrameIfCopied` |
| | `TableStepIsByteStep` | `TableStep(r, byte) = ByteStep(r, byte)` for every register and byte |
| | `ComputesCrc32` | `CrcSpec => []IsCrc32` |
| `RawUdpProofs` | `FoldsSuffice`, `CheckCompletes`, `ChecksumVerifies` | about `ipv4check`, below |
| | `FramesVerifyHeaders` | `Spec => []HeadersVerify`, if words have at least 16 bits |
| | `RawRefinement` | `Spec => ImplementsStream`, if words have at least 16 bits |
| | `UdpTypeCorrect` | `UdpSpec => []TypeOK` |
| | `StopsAfterOne` | `UdpSpec => []AtMostOneAfterSigint` |
| | `PrintsEachDatagram` | `UdpSpec => []OneLinePerDatagram` |
| | `SigintStopsClient` | `UdpInit /\ [][UdpNext]_udpVars /\ ClientScheduled => ClientStops` |
| | `SigintStopsServer` | `UdpInit /\ [][UdpNext]_udpVars /\ ServerScheduled => ServerStops` |
| `RawIbverbsProofs` | `FrameInvariance` | `Spec => []FrameInv` |
| | `ReceiversVerify` | `Spec => []FramesVerify`, if the length of a frame fits into its 16-bit field |
| | `QueuePairReached` | `Spec => []ReachesQueuePair` |
| | `HostRefinement` | `Spec => ImplementsStream` |
| | `LocalAddress` | `LookupSpec => []LocalIsLastListed` |
| | `RemoteStation` | `LookupSpec => []RemoteIsNamedHost` |

**Server.**  The argument is the client's, seen from the other end.  Receive requests
are numbered in the order of posting; request n has the slot `n % QueueSize` and gets
datagram n.  `wc`, `cq` and `wq` hold consecutive numbers (`Numbered`), a buffer whose
number has arrived and is not printed holds that datagram (`Contents`), and
`Window`, `RingShape` and `Phase` are as above.  The `ne` receives posted again
beginning with the first completed one are therefore the next `ne` numbers, which is
why the adapter never meets a buffer that has not been printed.  Here too nothing is
assumed of how `PollBatch` and `QueueSize` compare.  `DropsOnlyWhenFull` says when a
datagram may be dropped for want of a request: between two rounds only if the program
is a whole ring of messages behind.

**System.**  `SystemInv` is the conjunction of the two programs' invariants, whose
step lemmas are used as they are, and of `Flow`: what has arrived, followed by what
is under way, embeds into what was sent.  `Embeds` is stated with an increasing
function, for which losing, appending and moving a datagram have a lemma each; that
`LinesInOrder` follows is the composition of two embeddings.  `SystemRunsPrograms` says
that the composition adds no behaviour to either program; for the server this needs
`Flow`, since what the network delivers must be a byte.

**Lifecycle.**  The properties are about releases, and whether a release is right
depends on what the calls before it acquired.  `LifeInv` therefore says for every
place of the initialisation exactly what is live (`Acquired`, `AcquiredAfter`) and
what state the queue pair is in (`QueuePair`); for every label of `rdma_init` and
every call of the cleanups that what is live is what remains to be released
from there on, plus what the code leaks (`AtLabels`, `CleaningUp`, `Leak`).  The
actions are instances of two patterns, an acquiring call (`Called`) and a releasing one
(`Released`); the cases are the entries of the tables.

**FPGA.**  `FramesWell` holds for every `MsgSize`, positive `HeaderSize` and `LineSize` in
1..32, from `FpgaAssumption` and `LineSizeAssumption` (the padding has five bits in the
flags).  `WellFramed` alone is not inductive, since it does not say which lines have
been written; `FramingInv` says that they are the first lines of the frame with the
flags the kernel gives them.  The arithmetic is in `LinesAndPadding`:
`(size - 1) / 32` and `-size % 32` come from the same division.  `LinesFit` has a
hypothesis: `data[]` is 100 bytes longer than the message, of which the checksum
takes 4, so the headers and the padding must fit into 96; for some sizes of a
message they would not, and nothing in the code says so.  `LinesFitInCode` evaluates
the hypothesis for lines of 32 bytes, 74 bytes of headers and messages of 8940 bytes.
`CopyInv` follows the two parts of the headers through host, device and kernel; a part
that is not the packet's comes from a copy that was late or not `coherent`.

**CRC-32.**  The proof is in `FpgaSendProofs`, since the kernel computes its checksum
with `crc32.h` too.  A step of the bitwise definition is linear over `^`
(`BitStepLinear`), so the eight steps for a byte can be taken separately for the low
byte of the register and for the rest; the rest is only shifted (`EightStepsShift`),
and for the low byte the table has the result.  That it has is `TableIsRight`, an
assumption without parameters about the 256 entries: TLC evaluates it in the run
`crc32`, which settles it.  `IsCrc32` follows with the types of the two registers
(`CrcInv`), for any bytes, any number of them and any division into calls.

**raw_udp.**  `FoldsSuffice` says that adding a word before the two folds of `ipv4check` is
adding it with end-around carry after them, `CheckCompletes` that the checksum
completes the folded sum to ones, both for words of every width (`WordAssumption`).
`ChecksumVerifies` joins them: a header in which `ipv4check` has put its checksum adds
up to ones, for headers of every length below `WordRange - 2` words.  It is an induction
over the words, and the library's induction theorems take an operator as a parameter;
`SetInduction` is the same principle with a set in place of the operator, proved
from the well-foundedness of `<` on the naturals.  `HeaderInv` carries the result to
`sendto`.  The hypothesis `WideWords` says that the 16-bit numbers the code puts into
a header, and its ten words, fit the width of a word; `uint16_t` does.  `CountInv` relates `count` to
the number of frames, across the overflow of `count`.

**raw_ibverbs.**  `FrameInv` says that from `init_invariant_headers` on the headers
are the ones the header checksum was computed over, and that each frame on the wire
differs from them only in fields a switch may change; the checksum covers those as
ones.  `PayloadFits`, the hypothesis of `ReceiversVerify`, says that the length fits
into `uint16_t`; it holds for `MSG_SIZE`.

**udp and lookup_addr.**  Their proofs are in the modules of the programs they belong
with.  `SigintInv` adds to `AtMostOneAfterSigint` the places from which a message or a
line may still follow.  `LookupInv` says what the loop over the interfaces has found
among the entries it has passed.

**udp stops.**  The prover cannot look into `ENABLED`, and with it into weak fairness.
`ClientStops` and `ServerStops` are therefore proved from what weak fairness amounts to
here: a process takes steps for ever, unless it has ended (`ClientScheduled`), or waits
in `recvfrom` on an empty socket (`ServerScheduled`).  TLC checks both properties under
the weak fairness of `UdpSpec`.  After SIGINT a process only goes the way of its last
round (`ClientStays`, `ServerStays`), each step of its own takes it on
(`ClientGoesOn`, `ServerGoesOn`), and a server that waits is woken by the next
datagram (`DeliverWakes`); the round has a fixed number of places, so that temporal
propositional logic puts the steps together.

Only model-checked: the other liveness properties (`EveryMessageSent`,
`EveryMessagePrinted`, `ReceivesAgain`, `SigintStops` of both programs,
`FailureReported`, `HostEnds`).  In those programs a round contains loops over
completions, requests or lines whose length is a constant of the model, so that their
termination needs an induction over temporal formulas, which is out of the prover's
reach.

## 5. What is not modelled

* The contents of the Global Routing Header, `byte_len`, the messages on stderr.
* Parsing of the command line and the installation of the signal handler, which
  fail before anything is acquired.
* Buffer sizes: `MSG_SIZE` (8940) is taken as acceptable to the adapter.
* `count` as a 32-bit `int`: it would overflow after 2^31 messages, at 10 messages
  a second at most.
* `errorMessage` of `opencl_utils` and `print_addr` of `lookup_addr`: they change no
  state and only print.
* The Ethernet header of `raw_udp`, and the channel `ch_out0`, which is not used.
* Collisions of CRC-32: `RawPacket` compares what checksums were computed over.
* `sys/verbs.h`: vendored.  What the programs use of the library is part of the
  models that use it.
* Makefile, licence and citation files.

## 6. Findings

`lifecycle_device`: when `ibv_open_device` fails, `rdma_init` calls
`ibv_get_device_name(ib_dev)` (`rdma.c:102`) after `ibv_free_device_list`
(`rdma.c:100`), although `sys/verbs.h:1735` says that pointers to devices that were
not opened are then no longer valid.  The run is expected to violate
`DeviceValidWhenNamed`.

`fpga_race`: the copy of the headers and the kernel are on two command queues with
no event between them (`fpga_host.cc:37`, `opencl_utils.hpp:54`), so the kernel may
send headers that its checksum does not cover.  Even in order the copy is not sure to
have the headers: it reads `host_buf` between its mapping for writing
(`fpga_host.cc:31`) and its unmapping (`fpga_host.cc:42`), which OpenCL leaves
undefined.  `CoversFrameIfCopied` shows that these two are all that can go wrong with
the checksum.

Four facts that were met on the way and have no run, since each is one expression
and no sequence of steps:

* `gid_string` (`rdma.c:210`) has 33 bytes, the text of a GID up to 39 characters and
  a NUL.  For such a GID `inet_ntop` fails and the server exits (`rdma.c:281`), an
  outcome `RdmaLifecycle` has.
* `htonl(54321)` stored in the 16-bit field `id` (`raw_udp.c:106`) is 0; no frame
  carries the id the line chooses (`htonlLow16` in `RawUdp`).
* The kernel runs once and sends a payload nobody wrote (`ibverbs.cl:27`), so
  `raw_ibverbs fpga` sends no stream of numbered messages, unlike `rdma_client`
  (`README.rst:79` says "same functionality").
* `lookup_remote_addr` goes on when `getaddrinfo` has failed (`lookup_addr.c:57`), and
  takes the MAC address of an incomplete ARP entry (`lookup_addr.c:79`): the sender
  then crashes, or sends to a station nobody named or to the MAC address zero.

The limits of `udp.c` under SIGINT are stated by `ServerStops` and its comment: no
text of the repository promises more.

`LeftAtExit` records two smaller ones as what the code does: the context stays
open when `ibv_alloc_pd` fails, since `rdma.c:117` jumps past `clean_device`, and
the result array is not freed when one of the two allocations after it fails
(`rdma.c:231`, `237`, `336`, `342`).

## 7. State and plan

Modelled: every program of the repository.  Proved: every safety invariant, action
property and refinement the runs check, and the liveness of `udp.c`.  Left:

1. The liveness of the programs whose rounds contain loops, once a prover for
   `ENABLED` and for induction over leads-to formulas can be used.
2. Shorter proofs: the client's and the server's share their shape, and more of
   it could move to `RequestRingProofs`.
