----------------------------- MODULE DoIpClient -----------------------------
(***************************************************************************)
(* The diagnostic client of the repository, src/tools/doip_client.cpp,     *)
(* talking to DoIpServer while other testers compete for descriptors.      *)
(*                                                                         *)
(* The tool sends a routing activation and then a fixed list of UDS        *)
(* requests.  For each of them it calls recv() once and displays the first *)
(* message of what it got, although the server answers every request with  *)
(* two messages, an acknowledgement and a response.                        *)
(*                                                                         *)
(* What the tool does to its connection are the testers' actions of        *)
(* DoIpServer, conjoined with its own state, so that this is DoIpServer    *)
(* with one tester that follows a program; the replies that have reached   *)
(* it are those of out[Tool] that send() took.                             *)
(*                                                                         *)
(* A name with an underscore suffix is a faulty variant of the definition  *)
(* that follows it; see the README.                                        *)
(***************************************************************************)
EXTENDS DoIpServer

CONSTANTS
  Tool,       \* the tester that is doip_client
  Requests,   \* the UDS requests of main(), in order
  OtherMsgs,  \* messages the other testers may send
  Pieces      \* sizes recv() may return other than all that has arrived

VARIABLES
  place,      \* where the tool is in main()
  asked,      \* UDS requests sent
  taken,      \* bytes of replies the tool has received
  hangup,     \* what its close() makes of the connection
  shown       \* history: what it displayed as the UDS response, by request

toolVars == <<place, asked, taken, hangup, shown>>
clientVars == <<vars, toolVars>>

ClientInit ==
  /\ Init
  /\ place = "connect" /\ asked = 0 /\ taken = 0 /\ hangup = "open" /\ shown = <<>>

Ended == place \in {"done", "failed", "refused", "killed"}

-----------------------------------------------------------------------------
TESTER_ADDR == 3584     \* 0x0E00

routing_msg == [type |-> "ROUTING_ACTIVATION_REQ", len |-> 7, src |-> TESTER_ADDR, tgt |-> 0,
                uds |-> <<>>]
diag_msg(uds_req) == [type |-> "DIAGNOSTIC_MESSAGE", len |-> 4 + Len(uds_req),
                      src |-> TESTER_ADDR, tgt |-> DOIP_ECU_ADDRESS, uds |-> uds_req]

ASSUME ClientAssumption ==
  /\ Tool \in Clients \ SlowClients
  /\ Requests \in Seq(Seq(0..255)) /\ MaxMsgs > Len(Requests)
  /\ OtherMsgs \subseteq Msgs /\ routing_msg \in Msgs
  /\ \A k \in DOMAIN Requests : diag_msg(Requests[k]) \in Msgs
  /\ Pieces \subseteq Nat \ {0}

(***************************************************************************)
(* The bytes that have reached the tool: the replies send() took, in       *)
(* order.  Starts says where in them each reply begins.                    *)
(***************************************************************************)
PayloadLength(r) ==
  CASE r.type = "ROUTING_ACTIVATION_RES" -> 9
    [] r.type = "DIAGNOSTIC_ACK"         -> 5
    [] r.type = "DIAGNOSTIC_MESSAGE"     -> 4 + Len(r.payload.uds.bytes)
    [] OTHER                             -> 2
Size(r) == DOIP_HEADER_SIZE + PayloadLength(r)

Took(r) == IF r.sent = "whole" THEN Size(r.reply) ELSE 0

Starts(replies) ==
  LET at[i \in 1..(Len(replies) + 1)] == IF i = 1 THEN 0 ELSE at[i - 1] + Took(replies[i - 1])
  IN at
Start(i) == Starts(out[Tool])[i]
Unread == Start(Len(out[Tool]) + 1) - taken

RecvSizes == {n \in Pieces : n < Unread} \cup ({Unread} \ {0})

(***************************************************************************)
(* The first message of n received bytes, when they start with one and     *)
(* hold all of it; "UDS Response:" shows what follows its addresses.  For  *)
(* an acknowledgement that is its code.  Bytes that start inside a message *)
(* have no length where the tool reads one: it displays nothing or         *)
(* rubbish, which is not told apart.                                       *)
(***************************************************************************)
AtFront(i) == out[Tool][i].sent = "whole" /\ Start(i) = taken

Displayed(n) ==
  IF \E i \in DOMAIN out[Tool] : AtFront(i) /\ Took(out[Tool][i]) <= n
    THEN <<out[Tool][CHOOSE i \in DOMAIN out[Tool] : AtFront(i)].reply>> ELSE <<>>

-----------------------------------------------------------------------------
(***************************************************************************)
(* connect().                                                              *)
(***************************************************************************)
ToolConnect ==
  /\ place = "connect" /\ Connect(Tool)
  /\ place' = "activate"
  /\ UNCHANGED <<asked, taken, hangup, shown>>

ToolRefused ==
  /\ place = "connect" /\ L!Terminated
  /\ place' = "refused"
  /\ UNCHANGED <<vars, asked, taken, hangup, shown>>

(***************************************************************************)
(* Step 1: routing activation.                                             *)
(***************************************************************************)
SendActivation ==
  /\ place = "activate" /\ SendMsg(Tool, routing_msg)
  /\ place' = "await"
  /\ UNCHANGED <<asked, taken, hangup, shown>>

RecvActivation_Peek ==
  /\ place = "await" /\ Unread >= DOIP_HEADER_SIZE + 5
  /\ place' = "request"
  /\ UNCHANGED <<vars, asked, taken, hangup, shown>>

RecvActivation ==                       \* n >= 13 && buf[12] == 0x10
  /\ place = "await"
  /\ \E n \in RecvSizes :
       /\ taken' = taken + n
       /\ place' = IF /\ n >= DOIP_HEADER_SIZE + 5
                       /\ \E i \in DOMAIN out[Tool] :
                            AtFront(i) /\ out[Tool][i].reply.type = "ROUTING_ACTIVATION_RES"
                     THEN "request" ELSE "reject"
  /\ UNCHANGED <<vars, asked, hangup, shown>>

(***************************************************************************)
(* send_uds.                                                               *)
(***************************************************************************)
SendRequest ==
  /\ place = "request" /\ asked < Len(Requests)
  /\ SendMsg(Tool, diag_msg(Requests[asked + 1]))
  /\ asked' = asked + 1 /\ place' = "response"
  /\ UNCHANGED <<taken, hangup, shown>>

RecvResponse ==
  /\ place = "response"
  /\ \E n \in RecvSizes :
       /\ shown' = Append(shown, Displayed(n))
       /\ taken' = taken + n
  /\ place' = "request"
  /\ UNCHANGED <<vars, asked, hangup>>

(***************************************************************************)
(* The server's process is gone: recv() returns 0 or -1, send() fails or   *)
(* raises SIGPIPE.  send_uds then returns and main() goes on.              *)
(***************************************************************************)
ServerGone ==
  /\ L!Terminated
  /\ \/ place = "activate" /\ place' \in {"await", "killed"} /\ UNCHANGED <<asked, shown>>
     \/ place = "await" /\ place' = "reject" /\ UNCHANGED <<asked, shown>>
     \/ /\ place = "request" /\ asked < Len(Requests)
        /\ asked' = asked + 1 /\ place' \in {"response", "killed"} /\ UNCHANGED shown
     \/ /\ place = "response" /\ place' = "request"
        /\ shown' = Append(shown, <<>>) /\ UNCHANGED asked
  /\ UNCHANGED <<vars, taken, hangup>>

(***************************************************************************)
(* close(): with unread bytes the kernel resets the connection, otherwise  *)
(* it sends a FIN, and a reset once a reply reaches the closed socket.     *)
(***************************************************************************)
Close ==
  /\ \/ place = "request" /\ asked = Len(Requests) /\ place' = "done"
     \/ place = "reject" /\ place' = "failed"
  /\ hangup' = IF Unread > 0 THEN "rst" ELSE "fin"
  /\ UNCHANGED <<vars, asked, taken, shown>>

Hangup ==
  /\ \/ hangup = "fin" /\ Fin(Tool)
     \/ (hangup = "rst" \/ (tcp[Tool].peer = "fin" /\ Unread > 0)) /\ Reset(Tool)
  /\ UNCHANGED toolVars

ToolStep ==
  \/ ToolConnect \/ ToolRefused \/ SendActivation \/ RecvActivation
  \/ SendRequest \/ RecvResponse \/ ServerGone \/ Close

Gateway == Server /\ UNCHANGED toolVars
Others ==
  \E c \in Clients \ {Tool} :
    /\ Connect(c) \/ Deliver(c) \/ Fin(c) \/ Reset(c) \/ \E m \in OtherMsgs : SendMsg(c, m)
    /\ UNCHANGED toolVars
Delivery == Deliver(Tool) /\ UNCHANGED toolVars

ClientNext ==
  \/ Gateway \/ (Sigint /\ UNCHANGED toolVars)
  \/ ToolStep \/ Delivery \/ Hangup \/ Others

ClientSpec == ClientInit /\ [][ClientNext]_clientVars

(***************************************************************************)
(* The server's fairness is that of DoIpServer; the tool's process is      *)
(* scheduled and TCP delivers what the tool has sent.                      *)
(***************************************************************************)
ClientFairSpec ==
  /\ ClientSpec /\ WF_clientVars(Gateway)
  /\ \A fd \in Fds :
       SF_clientVars(\E B \in SUBSET L!Reportable : fd \in B /\ EpollWait(B) /\ UNCHANGED toolVars)
  /\ WF_clientVars(ToolStep) /\ WF_clientVars(Delivery)

-----------------------------------------------------------------------------
Diagnosed == Cardinality({i \in DOMAIN seen[Tool] : seen[Tool][i].type = "DIAGNOSTIC_MESSAGE"})

(***************************************************************************)
(* The tool's messages are never ignored: each one the server has handled  *)
(* was answered, a request twice, whatever the other testers do, so the    *)
(* server had activated this connection before (main() of the client with  *)
(* handle_diagnostic_message).                                             *)
(***************************************************************************)
EveryRequestAnswered ==
  Len(out[Tool]) + (IF step = "respond" /\ Peer = Tool THEN 1 ELSE 0) =
    Len(seen[Tool]) + Diagnosed

(***************************************************************************)
(* One recv() a request for two answers lets the tool run ahead of the     *)
(* server, but by half of its requests at most: when each recv() brought a *)
(* message, the server has handled at least half of the requests the tool  *)
(* has finished with (send_uds).                                           *)
(***************************************************************************)
NeverFarAhead ==
  (\A k \in DOMAIN shown : shown[k] # <<>>) => Len(shown) <= 2 * Diagnosed

(***************************************************************************)
(* Client and server never wait for each other: once accepted, the tool    *)
(* runs to its end, though it blocks in every recv() and the server is     *)
(* polling a listener that is always ready (main() of the client, run()).  *)
(***************************************************************************)
ToolFinishes == tcp[Tool].phase = "accepted" ~> Ended

(***************************************************************************)
(* "UDS Response: " and the README's expected output of doip_client: what  *)
(* the tool displays for a request is the server's response to it.         *)
(***************************************************************************)
ShownIsResponse ==
  \A k \in DOMAIN shown : \A i \in DOMAIN shown[k] :
    shown[k][i] = DiagnosticRes(diag_msg(Requests[k]))
=============================================================================
