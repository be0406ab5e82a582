----------------------------- MODULE DoIpServer -----------------------------
(***************************************************************************)
(* DoIpServer (src/src/doip/doip_server.hpp, doip_server.cpp) running in   *)
(* the event loop, with the kernel's TCP sockets and the testers that      *)
(* connect to it.                                                          *)
(*                                                                         *)
(* The loop's variables and steps are those of EventLoop; the callbacks of *)
(* the listening socket and of the connections are spelled out, one step   *)
(* per system call or per iteration of the reassembly loop, so that bytes, *)
(* disconnections and SIGINT arrive between any two of them.               *)
(*                                                                         *)
(* A tester's byte stream is the sequence of its messages, each with the   *)
(* offset of its first byte.  recv_buf holds stream offsets instead of     *)
(* byte values: an offset names a byte, and what the bytes of a header say *)
(* is looked up in the stream.                                             *)
(*                                                                         *)
(* A name with an underscore suffix (Complete_Strict) is a faulty variant  *)
(* of the definition that follows it; see the README.                      *)
(***************************************************************************)
EXTENDS DoIpMessages, FiniteSetsExt, Functions

CONSTANTS
  Fds, ListenFd, NoFd, MAX_EVENTS, MaxGen,   \* as in EventLoop
  Clients,      \* testers; each makes one TCP connection
  NoClient,
  RECV_BUF,     \* sizeof(recv_buf), 4096 in the code
  BACKLOG,      \* listen(listen_fd_, 10)
  Msgs,         \* messages a tester may send
  MaxMsgs,      \* bound: messages on one connection
  Chunks,       \* sizes of the pieces in which the network delivers bytes
  SlowClients   \* testers that do not drain their receive window

ASSUME ServerAssumption ==
  /\ ListenFd \in Fds /\ NoFd \notin Fds /\ NoClient \notin Clients
  /\ MAX_EVENTS \in Nat \ {0} /\ MaxGen \in Nat /\ BACKLOG \in Nat /\ MaxMsgs \in Nat
  /\ RECV_BUF \in Nat /\ RECV_BUF >= DOIP_HEADER_SIZE
  /\ Chunks \subseteq Nat \ {0} /\ SlowClients \subseteq Clients
  /\ \A m \in Msgs : m.type \in PayloadTypes /\ m.len \in Nat /\ m.src \in Nat
  /\ IsFiniteSet(Clients) /\ Cardinality(Clients) <= MaxGen   \* so MaxGen cuts nothing off

VARIABLES
  pc, running, readers, epoll, open, gen, batch, cur, sigint, late,   \* EventLoop
  connections,  \* connections_: DoIpConnection by descriptor
  step,         \* how far the running callback has come
  owed,         \* the UDS response still to be sent by handle_diagnostic_message
  backlog,      \* kernel: established connections not accepted yet
  sock,         \* kernel: the tester at the other end of a descriptor
  tcp,          \* kernel: each tester's connection
  seen,         \* history: messages handled, by tester
  out           \* history: replies, by tester, with what send() made of them

loopVars == <<pc, running, readers, epoll, open, gen, batch, cur, sigint, late>>
doipVars == <<connections, step, owed, backlog, sock, tcp, seen, out>>
vars == <<loopVars, doipVars>>

(***************************************************************************)
(* EPOLLIN holds on the listener when the backlog is not empty and on a    *)
(* connection when bytes are waiting or the tester has ended it.           *)
(***************************************************************************)
Ready ==
  {fd \in open :
     IF fd = ListenFd THEN backlog # <<>>
     ELSE tcp[sock[fd]].arr > tcp[sock[fd]].read \/ tcp[sock[fd]].peer # "up"}

L == INSTANCE EventLoop WITH StaticFds <- {ListenFd}, ready <- Ready, err <- {}

StreamEnd(s) == IF s = <<>> THEN 0 ELSE s[Len(s)].at + Total(s[Len(s)].msg)

Init ==
  /\ pc = "setup" /\ running = FALSE
  /\ gen = [fd \in Fds |-> IF fd = ListenFd THEN 1 ELSE 0] /\ readers = gen
  /\ epoll = {ListenFd} /\ open = {ListenFd}
  /\ batch = {} /\ cur = NoFd /\ sigint = FALSE /\ late = 0
  /\ connections = <<>> /\ step = "none" /\ owed = <<>>
  /\ backlog = <<>>
  /\ sock = [fd \in Fds |-> NoClient]
  /\ tcp = [c \in Clients |-> [phase |-> "new", peer |-> "up", stream |-> <<>>,
                               arr |-> 0, read |-> 0]]
  /\ seen = [c \in Clients |-> <<>>] /\ out = [c \in Clients |-> <<>>]

-----------------------------------------------------------------------------
(***************************************************************************)
(* The loop around the callbacks.                                          *)
(***************************************************************************)
LoopStep ==
  /\ UNCHANGED doipVars
  /\ L!SetGLoop \/ L!Run \/ L!Test \/ L!Block \/ L!EndBatch

EpollWait(B) == UNCHANGED doipVars /\ L!EpollWait(B)

Dispatch ==
  /\ UNCHANGED <<connections, owed, backlog, sock, tcp, seen, out>>
  /\ \E e \in batch : L!Dispatch(e)
  /\ step' = IF pc' = "callback" THEN "enter" ELSE step

Return ==
  /\ UNCHANGED <<connections, owed, backlog, sock, tcp, seen, out>>
  /\ step = "done" /\ L!CbReturn
  /\ step' = "none"

Sigint == UNCHANGED doipVars /\ L!Sigint

-----------------------------------------------------------------------------
(***************************************************************************)
(* The listener's callback (register_with_loop).                           *)
(***************************************************************************)
NewConnection_Activated == [activated |-> TRUE, tester_addr |-> 0, recv_buf |-> <<>>]

NewConnection == [activated |-> FALSE, tester_addr |-> 0, recv_buf |-> <<>>]

Accept ==
  /\ pc = "callback" /\ cur = ListenFd /\ step = "enter"
  /\ \E fd \in Fds \ open :
       /\ L!accept(fd)
       /\ connections' = [f \in DOMAIN connections \cup {fd} |->
                             IF f = fd THEN NewConnection ELSE connections[f]]
       /\ sock' = [sock EXCEPT ![fd] = Head(backlog)]
  /\ backlog' = Tail(backlog)
  /\ tcp' = [tcp EXCEPT ![Head(backlog)].phase = "accepted"]
  /\ step' = "done"
  /\ UNCHANGED <<owed, seen, out>>

(***************************************************************************)
(* accept() < 0.  It happens whenever the process has no descriptor left,  *)
(* and may happen when the system has none, or no memory.  The connection  *)
(* stays in the backlog and the listener ready.                            *)
(***************************************************************************)
AcceptFails ==
  /\ pc = "callback" /\ cur = ListenFd /\ step = "enter"
  /\ step' = "done"
  /\ UNCHANGED <<loopVars, connections, owed, backlog, sock, tcp, seen, out>>

-----------------------------------------------------------------------------
(***************************************************************************)
(* on_client_data, up to the loop: recv() into the free part of recv_buf.  *)
(* It returns 0 when the tester has closed or the buffer has no room and   *)
(* -1 after a reset; the three are handled alike.  The reader is not       *)
(* removed from the loop.                                                  *)
(***************************************************************************)
Peer == sock[cur]
Buf == connections[cur].recv_buf

Received_NoRoom == tcp[Peer].arr - tcp[Peer].read

Received == Min({RECV_BUF - Len(Buf), tcp[Peer].arr - tcp[Peer].read})

CloseConnection_NoErase ==
  /\ L!close(cur) /\ UNCHANGED connections
  /\ sock' = [sock EXCEPT ![cur] = NoClient]
  /\ tcp' = [tcp EXCEPT ![Peer].phase = "closed"]
  /\ step' = "done"

CloseConnection_Remove ==
  /\ L!close_Remove(cur)
  /\ connections' = Restrict(connections, DOMAIN connections \ {cur})
  /\ sock' = [sock EXCEPT ![cur] = NoClient]
  /\ tcp' = [tcp EXCEPT ![Peer].phase = "closed"]
  /\ step' = "done"

CloseConnection ==
  /\ L!close(cur)
  /\ connections' = Restrict(connections, DOMAIN connections \ {cur})
  /\ sock' = [sock EXCEPT ![cur] = NoClient]
  /\ tcp' = [tcp EXCEPT ![Peer].phase = "closed"]
  /\ step' = "done"

Receive ==
  /\ connections' = [connections EXCEPT ![cur].recv_buf =
                       @ \o [i \in 1..Received |-> tcp[Peer].read + i - 1]]
  /\ tcp' = [tcp EXCEPT ![Peer].read = @ + Received]
  /\ step' = "parse"
  /\ UNCHANGED <<loopVars, sock>>

OnClientData ==
  /\ pc = "callback" /\ cur # ListenFd /\ step = "enter"
  /\ IF cur \notin DOMAIN connections
       THEN step' = "done" /\ UNCHANGED <<loopVars, connections, sock, tcp>>
       ELSE IF Received = 0 THEN CloseConnection ELSE Receive
  /\ UNCHANGED <<owed, backlog, seen, out>>

-----------------------------------------------------------------------------
(***************************************************************************)
(* send_to_client.  send() takes all of the reply while the tester drains  *)
(* its window, also after the tester has closed its side.  A tester that   *)
(* does not drain lets it take a part or nothing, and the rest is dropped. *)
(* After a reset the first send() fails and the next one raises SIGPIPE,   *)
(* which is neither blocked nor ignored: the process is killed.            *)
(***************************************************************************)
Sends(c) ==
  CASE tcp[c].peer = "rst" -> {"none"}
    [] tcp[c].peer = "up" /\ c \in SlowClients -> {"whole", "part", "none"}
    [] OTHER -> {"whole"}

send_to_client(c, replies) ==
  IF replies = <<>> THEN UNCHANGED <<out, tcp>>
  ELSE /\ \E s \in Sends(c) : out' = [out EXCEPT ![c] = Append(@, [reply |-> replies[1], sent |-> s])]
       /\ tcp' = [tcp EXCEPT ![c].peer = IF @ = "rst" THEN "dead" ELSE @]

(***************************************************************************)
(* The header at the front of recv_buf, and the message it announces.      *)
(***************************************************************************)
Front ==
  LET s == tcp[Peer].stream IN
    s[CHOOSE i \in DOMAIN s : s[i].at <= Buf[1] /\ Buf[1] < s[i].at + Total(s[i].msg)].msg

(***************************************************************************)
(* handle_doip_message, handle_routing_activation and the first half of    *)
(* handle_diagnostic_message.                                              *)
(***************************************************************************)
Activates_Full(m) == m.type = "ROUTING_ACTIVATION_REQ" /\ m.len >= 11

Activates(m) == m.type = "ROUTING_ACTIVATION_REQ" /\ m.len >= 2

IsDiagnostic_NoActivation(m) == m.type = "DIAGNOSTIC_MESSAGE" /\ m.len >= 4

IsDiagnostic(m) == m.type = "DIAGNOSTIC_MESSAGE" /\ connections[cur].activated /\ m.len >= 4

FirstReply(m) ==
  CASE Activates(m)                  -> <<RoutingActivationRes(m)>>
    [] IsDiagnostic(m)               -> <<DiagnosticAck(m)>>
    [] m.type = "ALIVE_CHECK_REQ"    -> <<AliveCheckRes>>
    [] OTHER                         -> <<>>

Activate(conn, m) ==
  IF Activates(m) THEN [conn EXCEPT !.activated = TRUE, !.tester_addr = m.src] ELSE conn

Consume_Payload(conn, m) ==
  [conn EXCEPT !.recv_buf = SubSeq(@, m.len + 1, Len(@))]

Consume(conn, m) ==                             \* recv_len -= total; memmove
  [conn EXCEPT !.recv_buf = SubSeq(@, Total(m) + 1, Len(@))]

Complete_Strict == Len(Buf) >= DOIP_HEADER_SIZE /\ Len(Buf) > Total(Front)

Complete == Len(Buf) >= DOIP_HEADER_SIZE /\ Len(Buf) >= Total(Front)

ParseBreak ==                                   \* the loop ends, the callback returns
  /\ pc = "callback" /\ step = "parse" /\ ~Complete
  /\ step' = "done"
  /\ UNCHANGED <<loopVars, connections, owed, backlog, sock, tcp, seen, out>>

Killed ==                                       \* SIGPIPE
  /\ pc = "callback"
  /\ \/ step = "parse" /\ Complete /\ FirstReply(Front) # <<>>
     \/ step = "respond"
  /\ tcp[Peer].peer = "dead"
  /\ L!CbKilled
  /\ UNCHANGED doipVars

HandleMessage ==
  /\ pc = "callback" /\ step = "parse" /\ Complete
  /\ tcp[Peer].peer = "dead" => FirstReply(Front) = <<>>
  /\ LET m == Front
         conn == Activate(connections[cur], m)
     IN /\ send_to_client(Peer, FirstReply(m))
        /\ seen' = [seen EXCEPT ![Peer] = Append(@, m)]
        /\ IF IsDiagnostic(m)
             THEN /\ owed' = <<DiagnosticRes(m)>> /\ step' = "respond"
                  /\ connections' = [connections EXCEPT ![cur] = conn]
             ELSE /\ connections' = [connections EXCEPT ![cur] = Consume(conn, m)]
                  /\ UNCHANGED <<owed, step>>
  /\ UNCHANGED <<loopVars, backlog, sock>>

(***************************************************************************)
(* The second half of handle_diagnostic_message: the UDS response.         *)
(***************************************************************************)
Respond ==
  /\ pc = "callback" /\ step = "respond" /\ tcp[Peer].peer # "dead"
  /\ send_to_client(Peer, owed)
  /\ connections' = [connections EXCEPT ![cur] = Consume(@, Front)]
  /\ owed' = <<>> /\ step' = "parse"
  /\ UNCHANGED <<loopVars, backlog, sock, seen>>

-----------------------------------------------------------------------------
(***************************************************************************)
(* Testers and the network.                                                *)
(***************************************************************************)
Live(c) == ~L!Terminated /\ tcp[c].phase \in {"backlog", "accepted"}
Network == UNCHANGED <<loopVars, connections, step, owed, sock, seen, out>>

Connect(c) ==
  /\ ~L!Terminated /\ tcp[c].phase = "new" /\ Len(backlog) < BACKLOG
  /\ backlog' = Append(backlog, c)
  /\ tcp' = [tcp EXCEPT ![c].phase = "backlog"]
  /\ Network

SendMsg(c, m) ==
  /\ Live(c) /\ tcp[c].peer = "up" /\ Len(tcp[c].stream) < MaxMsgs
  /\ tcp' = [tcp EXCEPT ![c].stream = Append(@, [msg |-> m, at |-> StreamEnd(@)])]
  /\ UNCHANGED backlog /\ Network

Deliver(c) ==                                   \* TCP: in order, in pieces of any size
  /\ Live(c) /\ tcp[c].peer = "up"
  /\ \E n \in Chunks :
       /\ tcp[c].arr < StreamEnd(tcp[c].stream)
       /\ tcp' = [tcp EXCEPT ![c].arr = Min({@ + n, StreamEnd(tcp[c].stream)})]
  /\ UNCHANGED backlog /\ Network

Fin(c) ==                                       \* orderly close, after all the bytes
  /\ Live(c) /\ tcp[c].peer = "up" /\ tcp[c].arr = StreamEnd(tcp[c].stream)
  /\ tcp' = [tcp EXCEPT ![c].peer = "fin"]
  /\ UNCHANGED backlog /\ Network

(***************************************************************************)
(* The tester aborts, or answers a reply that reaches its closed socket.   *)
(* Unread bytes may be lost with it.  A reset that follows an orderly      *)
(* close leaves EPIPE behind, so that the very next send() raises SIGPIPE. *)
(***************************************************************************)
Reset(c) ==
  /\ Live(c) /\ tcp[c].peer \in {"up", "fin"}
  /\ \E a \in {tcp[c].arr, tcp[c].read} :
       tcp' = [tcp EXCEPT ![c].peer = IF @ = "up" THEN "rst" ELSE "dead", ![c].arr = a]
  /\ UNCHANGED backlog /\ Network

Server ==
  \/ LoopStep \/ Dispatch \/ Return
  \/ \E B \in SUBSET L!Reportable : EpollWait(B)
  \/ Accept \/ AcceptFails \/ OnClientData
  \/ ParseBreak \/ HandleMessage \/ Respond \/ Killed
Tester ==
  \E c \in Clients :
    \/ Connect(c) \/ Deliver(c) \/ Fin(c) \/ Reset(c)
    \/ \E m \in Msgs : SendMsg(c, m)

Next == Server \/ Sigint \/ Tester

Spec == Init /\ [][Next]_vars

(***************************************************************************)
(* The thread is scheduled, and a descriptor that stays ready is reported  *)
(* (see EventLoop).  Nothing is assumed of the testers or the network.     *)
(***************************************************************************)
FairSpec ==
  /\ Spec /\ WF_vars(Server)
  /\ \A fd \in Fds :
       SF_vars(\E B \in SUBSET L!Reportable : fd \in B /\ EpollWait(B))

-----------------------------------------------------------------------------
(***************************************************************************)
(* Types; recv_len never exceeds the size of recv_buf (on_client_data).    *)
(***************************************************************************)
TypeOK ==
  /\ L!TypeOK
  /\ DOMAIN connections \subseteq Fds
  /\ \A fd \in DOMAIN connections :
       /\ connections[fd].activated \in BOOLEAN /\ connections[fd].tester_addr \in Nat
       /\ connections[fd].recv_buf \in Seq(Nat) /\ Len(connections[fd].recv_buf) <= RECV_BUF
  /\ step \in {"none", "enter", "parse", "respond", "done"}
  /\ sock \in [Fds -> Clients \cup {NoClient}]
  /\ \A c \in Clients :
       /\ tcp[c].phase \in {"new", "backlog", "accepted", "closed"}
       /\ tcp[c].peer \in {"up", "fin", "rst", "dead"}
       /\ tcp[c].read <= tcp[c].arr /\ tcp[c].arr <= StreamEnd(tcp[c].stream)

(***************************************************************************)
(* connections_ is the kernel's table of open connections, through         *)
(* accepts, closes and reuse of descriptors: an entry per accepted         *)
(* connection, none left behind by close() (register_with_loop and         *)
(* on_client_data).                                                        *)
(***************************************************************************)
ConnectionsMatchKernel ==
  /\ DOMAIN connections = open \ {ListenFd}
  /\ \A fd \in Fds : sock[fd] # NoClient <=> fd \in DOMAIN connections
  /\ \A f, g \in DOMAIN connections : sock[f] = sock[g] => f = g
  /\ Range(sock) \ {NoClient} = {c \in Clients : tcp[c].phase = "accepted"}

(***************************************************************************)
(* Reassembly is exact, however the bytes are cut up: the messages handled *)
(* are the messages the tester sent, in order and without repetition, and  *)
(* recv_buf holds precisely the bytes received after the last of them (the *)
(* while loop of on_client_data and its memmove).                          *)
(***************************************************************************)
ReassemblyExact ==
  \A fd \in DOMAIN connections :
    LET c == sock[fd]
        s == tcp[c].stream
        inHand == IF step = "respond" /\ cur = fd THEN 1 ELSE 0
        base == StreamEnd(SubSeq(s, 1, Len(seen[c]) - inHand))
    IN /\ Len(seen[c]) <= Len(s) /\ \A i \in DOMAIN seen[c] : seen[c][i] = s[i].msg
       /\ connections[fd].recv_buf = [i \in 1..(tcp[c].read - base) |-> base + i - 1]

(***************************************************************************)
(* The server closes a connection only after the tester ended it or when   *)
(* the next message cannot fit in recv_buf, and in the first case not      *)
(* before every message that arrived whole was handled; in particular a    *)
(* buffer filled by messages that fit never ends a connection (n <= 0 in   *)
(* on_client_data).                                                        *)
(***************************************************************************)
ClosedOnlyWhenDone ==
  \A c \in Clients : tcp[c].phase = "closed" =>
    LET s == tcp[c].stream
        k == Len(seen[c])
    IN \/ k < Len(s) /\ Total(s[k + 1].msg) > RECV_BUF
       \/ tcp[c].peer # "up" /\ (k = Len(s) \/ s[k + 1].at + Total(s[k + 1].msg) > tcp[c].arr)

(***************************************************************************)
(* The callbacks do to the loop and the kernel only what EventLoop allows  *)
(* a callback to do, so what is proved of EventLoop holds here.            *)
(***************************************************************************)
ImplementsEventLoop == L!Spec

S == INSTANCE DoIpSession WITH
       state <- [c \in Clients |-> CASE tcp[c].phase = "new" -> "none"
                                     [] tcp[c].phase = "closed" -> "over"
                                     [] OTHER -> "open"],
       sent <- [c \in Clients |-> [i \in DOMAIN tcp[c].stream |-> tcp[c].stream[i].msg]],
       handled <- [c \in Clients |-> Len(seen[c])],
       active <- [c \in Clients |->
                    \E fd \in DOMAIN connections : sock[fd] = c /\ connections[fd].activated],
       said <- [c \in Clients |-> [i \in DOMAIN out[c] |-> out[c][i].reply]],
       owed <- [c \in Clients |->
                  IF step = "respond" /\ sock[cur] = c THEN owed ELSE <<>>]

(***************************************************************************)
(* Every tester gets the service DoIpSession describes, whatever the       *)
(* fragmentation, the interleaving with other testers and the reuse of     *)
(* descriptors; in particular a diagnostic request is never answered on    *)
(* the strength of another connection's activation.                        *)
(***************************************************************************)
ImplementsSession == S!Spec

(***************************************************************************)
(* A message that has arrived whole on an accepted connection is handled,  *)
(* unless the connection or the process ends first, even while another     *)
(* tester is refused for want of descriptors and the listener stays ready  *)
(* for ever (run(), register_with_loop and on_client_data together).       *)
(***************************************************************************)
ArrivedIsHandled ==
  \A c \in Clients, i \in 1..MaxMsgs :
    (/\ tcp[c].phase = "accepted" /\ tcp[c].peer = "up" /\ i <= Len(tcp[c].stream)
     /\ tcp[c].arr >= StreamEnd(SubSeq(tcp[c].stream, 1, i)))
      ~> (Len(seen[c]) >= i \/ tcp[c].phase = "closed" \/ tcp[c].peer # "up" \/ L!Terminated)

(***************************************************************************)
(* What send_to_client is written for: a failed send() is reported ("[DOIP]*)
(* send failed") and the server goes on.                                   *)
(***************************************************************************)
SendFailureSurvived == pc # "killed"
=============================================================================
