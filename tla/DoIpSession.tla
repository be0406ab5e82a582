---------------------------- MODULE DoIpSession ----------------------------
(***************************************************************************)
(* What the DoIP server promises each tester, without sockets, buffers or  *)
(* an event loop: the messages of a connection are handled one at a time,  *)
(* in the order they were sent and once each; a diagnostic message is      *)
(* answered, by an acknowledgement and then by the UDS response, only in a *)
(* connection on which this tester activated routing before; activation    *)
(* belongs to the connection and ends with it.  DoIpServer is checked to   *)
(* implement this.                                                         *)
(***************************************************************************)
EXTENDS DoIpMessages

CONSTANTS Clients, Msgs

VARIABLES
  state,    \* of each tester's connection: "none", "open", "over"
  sent,     \* messages the tester has sent
  handled,  \* how many of them the server has handled
  active,   \* routing is activated on the connection
  said,     \* replies of the server, in order
  owed      \* the UDS response still to follow an acknowledgement

vars == <<state, sent, handled, active, said, owed>>

Init ==
  /\ state = [c \in Clients |-> "none"]
  /\ sent = [c \in Clients |-> <<>>]
  /\ handled = [c \in Clients |-> 0]
  /\ active = [c \in Clients |-> FALSE]
  /\ said = [c \in Clients |-> <<>>]
  /\ owed = [c \in Clients |-> <<>>]

Open(c) ==
  /\ state[c] = "none" /\ state' = [state EXCEPT ![c] = "open"]
  /\ UNCHANGED <<sent, handled, active, said, owed>>

Request(c, m) ==
  /\ state[c] = "open" /\ sent' = [sent EXCEPT ![c] = Append(@, m)]
  /\ UNCHANGED <<state, handled, active, said, owed>>

Activates(m) == m.type = "ROUTING_ACTIVATION_REQ" /\ m.len >= 2
Accepted(c, m) == m.type = "DIAGNOSTIC_MESSAGE" /\ active[c] /\ m.len >= 4

Answers(c, m) ==
  IF Activates(m) THEN <<RoutingActivationRes(m)>>
  ELSE IF Accepted(c, m) THEN <<DiagnosticAck(m)>>
  ELSE IF m.type = "ALIVE_CHECK_REQ" THEN <<AliveCheckRes>>
  ELSE <<>>

Serve(c) ==
  /\ state[c] = "open" /\ owed[c] = <<>> /\ handled[c] < Len(sent[c])
  /\ LET m == sent[c][handled[c] + 1] IN
       /\ active' = [active EXCEPT ![c] = @ \/ Activates(m)]
       /\ said' = [said EXCEPT ![c] = @ \o Answers(c, m)]
       /\ owed' = [owed EXCEPT ![c] = IF Accepted(c, m) THEN <<DiagnosticRes(m)>> ELSE <<>>]
  /\ handled' = [handled EXCEPT ![c] = @ + 1]
  /\ UNCHANGED <<state, sent>>

Answer(c) ==
  /\ state[c] = "open" /\ owed[c] # <<>>
  /\ said' = [said EXCEPT ![c] = @ \o owed[c]]
  /\ owed' = [owed EXCEPT ![c] = <<>>]
  /\ UNCHANGED <<state, sent, handled, active>>

Over(c) ==                                       \* nothing is owed at the end
  /\ state[c] = "open" /\ owed[c] = <<>>
  /\ state' = [state EXCEPT ![c] = "over"]
  /\ active' = [active EXCEPT ![c] = FALSE]
  /\ UNCHANGED <<sent, handled, said, owed>>

Next ==
  \E c \in Clients :
    \/ Open(c) \/ Serve(c) \/ Answer(c) \/ Over(c)
    \/ \E m \in Msgs : Request(c, m)

Spec == Init /\ [][Next]_vars
=============================================================================
