------------------------------- MODULE UdpStream -------------------------------
(***************************************************************************)
(* udp.c: the process started with a destination sends "Message: <count>"  *)
(* once a second (client_loop), the process started without one prints     *)
(* what arrives (server_loop).  Between them are a network that loses,     *)
(* duplicates and reorders datagrams, and the receive buffer of the        *)
(* server's socket.                                                        *)
(*                                                                         *)
(* What is hard here is SIGINT.  The handler, installed without            *)
(* SA_RESTART, only clears packet_loop: a signal inside recvfrom makes it  *)
(* fail and the server exits with EXIT_FAILURE; a signal between the test  *)
(* of packet_loop and recvfrom goes unnoticed until a datagram arrives.    *)
(***************************************************************************)
EXTENDS Naturals, Sequences

CONSTANTS
  CountRange,  \* values of the int count, 2^32 in the code
  SockCap      \* datagrams the receive buffer of the socket holds

ASSUME UdpAssumption ==
  /\ CountRange \in Nat \ {0}
  /\ SockCap \in Nat \ {0}

VARIABLES
  c_pc,      \* where the client stands
  c_loop,    \* packet_loop of the client
  c_count,   \* count of the client: number of the next message
  c_buffer,  \* the number in the client's udp_buffer
  s_pc,      \* where the server stands
  s_loop,    \* packet_loop of the server
  s_buffer,  \* the number in the server's udp_buffer
  sock,      \* the receive buffer of the server's socket
  net,       \* the datagrams under way
  c_after,   \* history: messages the client sent after its SIGINT
  s_after,   \* history: lines the server printed after its SIGINT
  s_owed     \* history: datagrams the server has received less lines printed

cVars == <<c_pc, c_loop, c_count, c_buffer, c_after>>
sVars == <<s_pc, s_loop, s_buffer, s_after, s_owed>>
udpVars == <<cVars, sVars, sock, net>>

Messages == 0 .. CountRange - 1

UdpEnded == {"returned", "failed"}   \* return 0, exit(EXIT_FAILURE)

(* One more event after SIGINT; two are as many as the properties tell     *)
(* apart.                                                                  *)
CountAfter(loop, n) == IF loop \/ n = 2 THEN n ELSE n + 1

UdpInit ==
  /\ c_pc = "setup" /\ s_pc = "setup"
  /\ c_loop = TRUE  /\ s_loop = TRUE
  /\ c_count = 0
  /\ c_buffer = 0   /\ s_buffer = 0
  /\ sock = << >>
  /\ net = {}
  /\ c_after = 0    /\ s_after = 0
  /\ s_owed = 0

--------------------------------------------------------------------------------
(* The client: main, then client_loop. *)

ClientSetUp ==
  /\ c_pc = "setup"
  /\ c_pc' = "test"
  /\ UNCHANGED <<sVars, sock, net, c_loop, c_count, c_buffer, c_after>>

(* getaddrinfo, socket or bind fails, in main or in client_loop. *)
ClientSetUpFails ==
  /\ c_pc = "setup"
  /\ c_pc' = "failed"
  /\ UNCHANGED <<sVars, sock, net, c_loop, c_count, c_buffer, c_after>>

(* Mutant of ClientTest: the loop does not look at packet_loop. *)
ClientTestsNothing ==
  /\ c_pc = "test"
  /\ c_pc' = "format"
  /\ UNCHANGED <<sVars, sock, net, c_loop, c_count, c_buffer, c_after>>

ClientTest ==
  /\ c_pc = "test"
  /\ c_pc' = IF c_loop THEN "format" ELSE "returned"
  /\ UNCHANGED <<sVars, sock, net, c_loop, c_count, c_buffer, c_after>>

(* count++, as the build's two's complement int does it. *)
NextMessage(n) == (n + 1) % CountRange

(* snprintf; the text always fits. *)
ClientFormat ==
  /\ c_pc = "format"
  /\ c_buffer' = c_count
  /\ c_count' = NextMessage(c_count)
  /\ c_pc' = "send"
  /\ UNCHANGED <<sVars, sock, net, c_loop, c_after>>

ClientSend ==
  /\ c_pc = "send"
  /\ net' = net \cup {c_buffer}
  /\ c_after' = CountAfter(c_loop, c_after)
  /\ c_pc' = "sleep"
  /\ UNCHANGED <<sVars, sock, c_loop, c_count, c_buffer>>

ClientSendFails ==
  /\ c_pc = "send"
  /\ c_pc' = "failed"
  /\ UNCHANGED <<sVars, sock, net, c_loop, c_count, c_buffer, c_after>>

ClientSleep ==
  /\ c_pc = "sleep"
  /\ c_pc' = "test"
  /\ UNCHANGED <<sVars, sock, net, c_loop, c_count, c_buffer, c_after>>

ClientSigint ==
  /\ c_pc \notin UdpEnded
  /\ c_loop
  /\ c_loop' = FALSE
  /\ UNCHANGED <<sVars, sock, net, c_pc, c_count, c_buffer, c_after>>

--------------------------------------------------------------------------------
(* The server: main, then server_loop. *)

ServerSetUp ==
  /\ s_pc = "setup"
  /\ s_pc' = "test"
  /\ UNCHANGED <<cVars, sock, net, s_loop, s_buffer, s_after, s_owed>>

ServerSetUpFails ==
  /\ s_pc = "setup"
  /\ s_pc' = "failed"
  /\ UNCHANGED <<cVars, sock, net, s_loop, s_buffer, s_after, s_owed>>

(* Mutant of ServerTest: the loop does not look at packet_loop. *)
ServerTestsNothing ==
  /\ s_pc = "test"
  /\ s_pc' = "recv"
  /\ UNCHANGED <<cVars, net, s_loop, s_buffer, s_after, s_owed, sock>>

(* The socket is closed when the process ends, with what it holds. *)
ServerTest ==
  /\ s_pc = "test"
  /\ s_pc' = IF s_loop THEN "recv" ELSE "returned"
  /\ sock' = IF s_loop THEN sock ELSE << >>
  /\ UNCHANGED <<cVars, net, s_loop, s_buffer, s_after, s_owed>>

(* recvfrom finds nothing and waits. *)
ServerBlocks ==
  /\ s_pc = "recv"
  /\ sock = << >>
  /\ s_pc' = "blocked"
  /\ UNCHANGED <<cVars, sock, net, s_loop, s_buffer, s_after, s_owed>>

(* recvfrom returns a datagram, which is terminated in the buffer. *)
ServerReceives ==
  /\ s_pc \in {"recv", "blocked"}
  /\ sock # << >>
  /\ s_buffer' = Head(sock)
  /\ sock' = Tail(sock)
  /\ s_owed' = s_owed + 1
  /\ s_pc' = "print"
  /\ UNCHANGED <<cVars, net, s_loop, s_after>>

(* recvfrom fails for a reason other than a signal. *)
ServerReceiveFails ==
  /\ s_pc \in {"recv", "blocked"}
  /\ s_pc' = "failed"
  /\ sock' = << >>
  /\ UNCHANGED <<cVars, net, s_loop, s_buffer, s_after, s_owed>>

(* Mutant of ServerPrints: the switch over the sender's address family     *)
(* goes on with the next datagram where it should print this one.          *)
ServerSkips ==
  /\ s_pc = "print"
  /\ s_pc' = "test"
  /\ UNCHANGED <<cVars, sock, net, s_loop, s_buffer, s_after, s_owed>>

(* The sender's address and the message are printed. *)
ServerPrints ==
  /\ s_pc = "print"
  /\ s_after' = CountAfter(s_loop, s_after)
  /\ s_owed' = s_owed - 1
  /\ s_pc' = "test"
  /\ UNCHANGED <<cVars, sock, net, s_loop, s_buffer>>

(* SIGINT while the program runs, or recvfrom has a datagram to return ... *)
ServerSigint ==
  /\ s_pc \notin UdpEnded
  /\ s_pc = "blocked" => sock # << >>
  /\ s_loop
  /\ s_loop' = FALSE
  /\ UNCHANGED <<cVars, sock, net, s_pc, s_buffer, s_after, s_owed>>

(* Mutant of ServerSigintInRecv: the result of recvfrom is not tested. *)
InterruptedPrints ==
  /\ s_pc = "blocked"
  /\ s_loop' = FALSE
  /\ s_pc' = "print"
  /\ UNCHANGED <<cVars, sock, net, s_buffer, s_after, s_owed>>

(* ... and while it waits in recvfrom, which fails with EINTR: a second    *)
(* SIGINT helps where the first one came too early.                        *)
ServerSigintInRecv ==
  /\ s_pc = "blocked"
  /\ s_loop' = FALSE
  /\ s_pc' = "failed"
  /\ sock' = << >>
  /\ UNCHANGED <<cVars, net, s_buffer, s_after, s_owed>>

--------------------------------------------------------------------------------
(* The network. *)

(* A datagram reaches the server's socket; the network may keep a copy.    *)
Deliver ==
  \E m \in net :
    /\ s_pc \notin UdpEnded \cup {"setup"}
    /\ Len(sock) < SockCap
    /\ sock' = Append(sock, m)
    /\ net' \in {net, net \ {m}}
    /\ UNCHANGED <<cVars, sVars>>

(* A datagram is lost, or finds the receive buffer full or no socket.      *)
Lose ==
  \E m \in net :
    /\ net' = net \ {m}
    /\ UNCHANGED <<cVars, sVars, sock>>

--------------------------------------------------------------------------------
Client == ClientSetUp \/ ClientTest \/ ClientFormat \/ ClientSend \/ ClientSleep

Server == ServerSetUp \/ ServerTest \/ ServerBlocks \/ ServerReceives \/ ServerPrints

UdpFailures ==
  ClientSetUpFails \/ ClientSendFails \/ ServerSetUpFails \/ ServerReceiveFails

Sigint == ClientSigint \/ ServerSigint \/ ServerSigintInRecv

(* Both processes are gone. *)
AllEnded == c_pc \in UdpEnded /\ s_pc \in UdpEnded /\ UNCHANGED udpVars

UdpNext == Client \/ Server \/ UdpFailures \/ Sigint \/ Deliver \/ Lose \/ AllEnded

(* The operating system runs both processes.  Nothing is assumed of the    *)
(* network, of SIGINT and of failing calls.                                *)
UdpSpec == UdpInit /\ [][UdpNext]_udpVars /\ WF_udpVars(Client) /\ WF_udpVars(Server)

--------------------------------------------------------------------------------
(* Every variable of the two processes and of the network keeps its type.  *)
TypeOK ==
  /\ c_pc \in {"setup", "test", "format", "send", "sleep"} \cup UdpEnded
  /\ s_pc \in {"setup", "test", "recv", "blocked", "print"} \cup UdpEnded
  /\ c_loop \in BOOLEAN /\ s_loop \in BOOLEAN
  /\ c_count \in Messages /\ c_buffer \in Messages /\ s_buffer \in Messages
  /\ sock \in Seq(Messages) /\ Len(sock) <= SockCap
  /\ net \subseteq Messages
  /\ c_after \in 0 .. 2 /\ s_after \in 0 .. 2
  /\ s_owed \in 0 .. 1

(* After SIGINT the server prints at most the datagram it was about to     *)
(* receive or to print, and the client sends at most the message it was    *)
(* about to send, wherever in its loop the signal caught it.               *)
AtMostOneAfterSigint == s_after <= 1 /\ c_after <= 1

(* Every line the server prints is a datagram received since the line      *)
(* before, and every datagram it receives is printed: also when SIGINT     *)
(* comes between recvfrom and printf, or interrupts recvfrom, which then   *)
(* leaves an old message in udp_buffer and a size of -1.                   *)
OneLinePerDatagram == s_owed = IF s_pc = "print" THEN 1 ELSE 0

(* SIGINT makes the client leave its loop, which never waits for anyone.   *)
ClientStops == ~c_loop ~> c_pc \in UdpEnded

(* SIGINT ends the server as long as datagrams keep arriving.  Without     *)
(* them it does not: the signal may come between the test of packet_loop   *)
(* and the call of recvfrom, which then waits.                             *)
ServerStops == []<><<Deliver>>_udpVars => (~s_loop ~> s_pc \in UdpEnded)

================================================================================
