-------------------------- MODULE DoIpClientProofs --------------------------
(***************************************************************************)
(* Proofs about doip_client and the server together, for every list of     *)
(* requests, any other testers with any messages, and any sizes in which   *)
(* recv() returns the replies.                                             *)
(***************************************************************************)
EXTENDS DoIpClient, DoIpServerProofs

SL == INSTANCE SharedLemmas

-----------------------------------------------------------------------------
AskedOK == asked \in 0..Len(Requests)

LEMMA AskedKept ==
  ASSUME AskedOK, [ClientNext]_clientVars
  PROVE  AskedOK'
<1>1. Len(Requests) \in Nat
  BY ClientAssumption
<1>2. asked' = asked \/ (asked < Len(Requests) /\ asked' = asked + 1)
  BY DEF ClientNext, ToolStep, Gateway, Others, Delivery, Hangup, ToolConnect, ToolRefused,
         SendActivation, RecvActivation, SendRequest, RecvResponse, ServerGone, Close, toolVars,
         clientVars
<1> QED
  BY <1>1, <1>2 DEF AskedOK

(***************************************************************************)
(* The tool is one of the server's testers: whatever it does is a step of  *)
(* DoIpServer or leaves the server alone.                                  *)
(***************************************************************************)
LEMMA ToolIsTester ==
  ASSUME AskedOK, [ClientNext]_clientVars
  PROVE  [Next]_vars
<1>1. /\ Tool \in Clients /\ OtherMsgs \subseteq Msgs /\ routing_msg \in Msgs
      /\ \A k \in DOMAIN Requests : diag_msg(Requests[k]) \in Msgs
  BY ClientAssumption
<1>2. ASSUME NEW c \in Clients,
             Connect(c) \/ Deliver(c) \/ Fin(c) \/ Reset(c) \/ (\E m \in Msgs : SendMsg(c, m))
      PROVE  Next
  BY <1>2, Zenon DEF Next, Tester
<1>3. CASE Gateway \/ (Sigint /\ UNCHANGED toolVars)
  BY <1>3 DEF Gateway, Next
<1>4. CASE Others
  BY <1>1, <1>2, <1>4, Zenon DEF Others
<1>5. CASE Delivery \/ Hangup
  BY <1>1, <1>2, <1>5, Zenon DEF Delivery, Hangup
<1>6. CASE ToolConnect \/ SendActivation
  BY <1>1, <1>2, <1>6, Zenon DEF ToolConnect, SendActivation
<1>7. CASE SendRequest
  <2>1. PICK k \in DOMAIN Requests : SendMsg(Tool, diag_msg(Requests[k]))
    <3>1. asked + 1 \in DOMAIN Requests
      BY <1>7, ClientAssumption DEF SendRequest, AskedOK
    <3> QED BY <1>7, <3>1 DEF SendRequest
  <2> QED BY <1>1, <1>2, <2>1, Zenon
<1>8. CASE ToolRefused \/ RecvActivation \/ RecvResponse \/ ServerGone \/ Close
  BY <1>8 DEF ToolRefused, RecvActivation, RecvResponse, ServerGone, Close
<1>9. CASE UNCHANGED clientVars
  BY <1>9 DEF clientVars
<1> QED
  BY <1>3, <1>4, <1>5, <1>6, <1>7, <1>8, <1>9, Zenon DEF ClientNext, ToolStep

-----------------------------------------------------------------------------
(***************************************************************************)
(* What a step of DoIpSession does to one tester.                          *)
(***************************************************************************)
LEMMA SessionMoves ==
  ASSUME SessionNext, NEW c \in Clients
  PROVE  \/ /\ HandledMap'[c] = HandledMap[c] /\ SaidMap'[c] = SaidMap[c] /\ OwedMap'[c] = OwedMap[c]
            /\ \/ StateMap'[c] = "over"
               \/ StateMap[c] = "none"
               \/ StateMap'[c] = StateMap[c] /\ ActiveMap'[c] = ActiveMap[c]
         \/ /\ OwedMap[c] # <<>> /\ OwedMap'[c] = <<>> /\ SaidMap'[c] = SaidMap[c] \o OwedMap[c]
            /\ HandledMap'[c] = HandledMap[c] /\ ActiveMap'[c] = ActiveMap[c]
            /\ StateMap'[c] = StateMap[c]
         \/ /\ StateMap[c] = "open" /\ OwedMap[c] = <<>> /\ HandledMap[c] < Len(SentMap[c])
            /\ HandledMap'[c] = HandledMap[c] + 1
            /\ \E m : /\ m = SentMap[c][HandledMap[c] + 1]
                      /\ ActiveMap'[c] = (ActiveMap[c] \/ S!Activates(m))
                      /\ SaidMap'[c] = SaidMap[c] \o S!Answers(c, m)
                      /\ OwedMap'[c] = IF S!Accepted(c, m) THEN <<S!DiagnosticRes(m)>> ELSE <<>>
<1> USE DEF StateOf, SentBy, IsActive, SaidTo, OwedTo
<1>0. /\ DOMAIN StateMap = Clients /\ DOMAIN SentMap = Clients /\ DOMAIN HandledMap = Clients
      /\ DOMAIN ActiveMap = Clients /\ DOMAIN SaidMap = Clients /\ DOMAIN OwedMap = Clients
  BY DEF StateMap, SentMap, HandledMap, ActiveMap, SaidMap, OwedMap
<1>1. CASE UNCHANGED S!vars
  <2>1. UNCHANGED <<StateMap, SentMap, HandledMap, ActiveMap, SaidMap, OwedMap>>
    BY <1>1 DEF S!vars, StateMap, SentMap, HandledMap, ActiveMap, SaidMap, OwedMap
  <2> QED BY <2>1
<1>2. ASSUME NEW d \in Clients, S!Open(d)
      PROVE  /\ StateMap[d] = "none" /\ StateMap' = [StateMap EXCEPT ![d] = "open"]
             /\ UNCHANGED <<SentMap, HandledMap, ActiveMap, SaidMap, OwedMap>>
  BY <1>2, Zenon DEF S!Open, StateMap, SentMap, HandledMap, ActiveMap, SaidMap, OwedMap
<1>3. ASSUME NEW d \in Clients, NEW m, S!Request(d, m)
      PROVE  UNCHANGED <<StateMap, HandledMap, ActiveMap, SaidMap, OwedMap>>
  BY <1>3, Zenon DEF S!Request, StateMap, SentMap, HandledMap, ActiveMap, SaidMap, OwedMap
<1>4. ASSUME NEW d \in Clients, S!Answer(d)
      PROVE  /\ OwedMap[d] # <<>> /\ SaidMap' = [SaidMap EXCEPT ![d] = @ \o OwedMap[d]]
             /\ OwedMap' = [OwedMap EXCEPT ![d] = <<>>]
             /\ UNCHANGED <<StateMap, SentMap, HandledMap, ActiveMap>>
  BY <1>4, Zenon DEF S!Answer, StateMap, SentMap, HandledMap, ActiveMap, SaidMap, OwedMap
<1>5. ASSUME NEW d \in Clients, S!Over(d)
      PROVE  /\ StateMap' = [StateMap EXCEPT ![d] = "over"]
             /\ ActiveMap' = [ActiveMap EXCEPT ![d] = FALSE]
             /\ UNCHANGED <<SentMap, HandledMap, SaidMap, OwedMap>>
  BY <1>5, Zenon DEF S!Over, StateMap, SentMap, HandledMap, ActiveMap, SaidMap, OwedMap
<1>6. ASSUME NEW d \in Clients, S!Serve(d)
      PROVE  /\ StateMap[d] = "open" /\ OwedMap[d] = <<>> /\ HandledMap[d] < Len(SentMap[d])
             /\ HandledMap' = [HandledMap EXCEPT ![d] = @ + 1]
             /\ UNCHANGED <<StateMap, SentMap>>
             /\ \E m : /\ m = SentMap[d][HandledMap[d] + 1]
                       /\ ActiveMap' = [ActiveMap EXCEPT ![d] = @ \/ S!Activates(m)]
                       /\ SaidMap' = [SaidMap EXCEPT ![d] = @ \o S!Answers(d, m)]
                       /\ OwedMap' = [OwedMap EXCEPT ![d] = IF S!Accepted(d, m)
                                        THEN <<S!DiagnosticRes(m)>> ELSE <<>>]
  BY <1>6, Zenon DEF S!Serve, StateMap, SentMap, HandledMap, ActiveMap, SaidMap, OwedMap
<1>7. ASSUME NEW d \in Clients, S!Open(d) PROVE
         /\ HandledMap'[c] = HandledMap[c] /\ SaidMap'[c] = SaidMap[c] /\ OwedMap'[c] = OwedMap[c]
         /\ StateMap[c] = "none" \/ (StateMap'[c] = StateMap[c] /\ ActiveMap'[c] = ActiveMap[c])
  BY <1>0, <1>2, <1>7
<1>8. ASSUME NEW d \in Clients, S!Over(d) PROVE
         /\ HandledMap'[c] = HandledMap[c] /\ SaidMap'[c] = SaidMap[c] /\ OwedMap'[c] = OwedMap[c]
         /\ StateMap'[c] = "over" \/ (StateMap'[c] = StateMap[c] /\ ActiveMap'[c] = ActiveMap[c])
  BY <1>0, <1>5, <1>8
<1>9. ASSUME NEW d \in Clients, d # c, S!Answer(d) \/ S!Serve(d) PROVE
         /\ HandledMap'[c] = HandledMap[c] /\ SaidMap'[c] = SaidMap[c] /\ OwedMap'[c] = OwedMap[c]
         /\ StateMap'[c] = StateMap[c] /\ ActiveMap'[c] = ActiveMap[c]
  <2>1. CASE S!Answer(d)
    BY <1>0, <1>4, <1>9, <2>1
  <2>2. CASE S!Serve(d)
    <3>1. PICK m : /\ ActiveMap' = [ActiveMap EXCEPT ![d] = @ \/ S!Activates(m)]
                   /\ SaidMap' = [SaidMap EXCEPT ![d] = @ \o S!Answers(d, m)]
                   /\ OwedMap' = [OwedMap EXCEPT ![d] = IF S!Accepted(d, m)
                                    THEN <<S!DiagnosticRes(m)>> ELSE <<>>]
      BY <1>6, <2>2, Zenon
    <3>2. HandledMap' = [HandledMap EXCEPT ![d] = @ + 1] /\ StateMap' = StateMap
      BY <1>6, <2>2, Zenon
    <3>3. ActiveMap'[c] = ActiveMap[c]
      BY <1>0, <1>9, <3>1, Zenon
    <3>4. SaidMap'[c] = SaidMap[c]
      BY <1>0, <1>9, <3>1, Zenon
    <3>5. OwedMap'[c] = OwedMap[c]
      BY <1>0, <1>9, <3>1, Zenon
    <3> QED BY <1>0, <1>9, <3>2, <3>3, <3>4, <3>5
  <2> QED BY <1>9, <2>1, <2>2
<1>10. ASSUME S!Answer(c)
       PROVE  /\ OwedMap[c] # <<>> /\ OwedMap'[c] = <<>> /\ SaidMap'[c] = SaidMap[c] \o OwedMap[c]
              /\ HandledMap'[c] = HandledMap[c] /\ ActiveMap'[c] = ActiveMap[c]
              /\ StateMap'[c] = StateMap[c]
  BY <1>0, <1>4, <1>10
<1>11. ASSUME S!Serve(c)
       PROVE  /\ StateMap[c] = "open" /\ OwedMap[c] = <<>> /\ HandledMap[c] < Len(SentMap[c])
              /\ HandledMap'[c] = HandledMap[c] + 1
              /\ \E m : /\ m = SentMap[c][HandledMap[c] + 1]
                        /\ ActiveMap'[c] = (ActiveMap[c] \/ S!Activates(m))
                        /\ SaidMap'[c] = SaidMap[c] \o S!Answers(c, m)
                        /\ OwedMap'[c] = IF S!Accepted(c, m) THEN <<S!DiagnosticRes(m)>> ELSE <<>>
  <2>1. PICK m : /\ m = SentMap[c][HandledMap[c] + 1]
                 /\ ActiveMap' = [ActiveMap EXCEPT ![c] = @ \/ S!Activates(m)]
                 /\ SaidMap' = [SaidMap EXCEPT ![c] = @ \o S!Answers(c, m)]
                 /\ OwedMap' = [OwedMap EXCEPT ![c] = IF S!Accepted(c, m)
                                  THEN <<S!DiagnosticRes(m)>> ELSE <<>>]
    BY <1>6, <1>11, Zenon
  <2>2. /\ StateMap[c] = "open" /\ OwedMap[c] = <<>> /\ HandledMap[c] < Len(SentMap[c])
        /\ HandledMap' = [HandledMap EXCEPT ![c] = @ + 1]
    BY <1>6, <1>11, Zenon
  <2>3. HandledMap'[c] = HandledMap[c] + 1
    BY <1>0, <2>2
  <2>4. ActiveMap'[c] = (ActiveMap[c] \/ S!Activates(m))
    BY <1>0, <2>1, Zenon
  <2>5. SaidMap'[c] = SaidMap[c] \o S!Answers(c, m)
    BY <1>0, <2>1, Zenon
  <2>6. OwedMap'[c] = IF S!Accepted(c, m) THEN <<S!DiagnosticRes(m)>> ELSE <<>>
    BY <1>0, <2>1, Zenon
  <2>7. m = SentMap[c][HandledMap[c] + 1]
    BY <2>1
  <2>8. \E x : /\ x = SentMap[c][HandledMap[c] + 1]
               /\ ActiveMap'[c] = (ActiveMap[c] \/ S!Activates(x))
               /\ SaidMap'[c] = SaidMap[c] \o S!Answers(c, x)
               /\ OwedMap'[c] = IF S!Accepted(c, x) THEN <<S!DiagnosticRes(x)>> ELSE <<>>
    <3> WITNESS m
    <3> QED BY <2>4, <2>5, <2>6, <2>7, Zenon
  <2> QED BY <2>2, <2>3, <2>8, Zenon
<1>12. ASSUME S!Next
       PROVE  \E d \in Clients : \/ S!Open(d) \/ S!Serve(d) \/ S!Answer(d) \/ S!Over(d)
                                 \/ \E m \in Msgs : S!Request(d, m)
  BY <1>12, Zenon DEF S!Next
<1> QED
  BY <1>1, <1>3, <1>7, <1>8, <1>9, <1>10, <1>11, <1>12, Zenon DEF SessionNext

-----------------------------------------------------------------------------
(***************************************************************************)
(* What the tool has sent: a routing activation, then requests.  It cannot *)
(* get past the activation without having sent it, unless the server is    *)
(* gone.                                                                   *)
(***************************************************************************)
DiagMsgs == {diag_msg(Requests[k]) : k \in DOMAIN Requests}

ToolStream ==
  /\ place \in {"connect", "activate"} => tcp[Tool].stream = <<>>
  /\ place \in {"await", "request", "response"} => tcp[Tool].stream # <<>> \/ L!Terminated
  /\ \A i \in 1..Len(tcp[Tool].stream) :
       tcp[Tool].stream[i].msg \in (IF i = 1 THEN {routing_msg} ELSE DiagMsgs)

LEMMA TerminatedStays ==
  ASSUME L!Terminated, [Next]_vars
  PROVE  L!Terminated'
<1>1. CASE LoopStep \/ (\E B \in SUBSET L!Reportable : EpollWait(B)) \/ Sigint
  BY <1>1 DEF LoopStep, EpollWait, Sigint, L!SetGLoop, L!Run, L!Test, L!Block, L!EndBatch,
              L!EpollWait, L!Sigint, L!Terminated
<1>2. CASE Dispatch \/ Return
  BY <1>2 DEF Dispatch, Return, L!Dispatch, L!CbReturn, L!Terminated
<1>3. CASE \/ Accept \/ AcceptFails \/ OnClientData \/ ParseBreak \/ HandleMessage \/ Respond \/ Killed
  BY <1>3 DEF Accept, AcceptFails, OnClientData, ParseBreak, HandleMessage, Respond, Killed,
              L!Terminated
<1>4. CASE Tester
  BY <1>4 DEF Tester, Connect, Deliver, Fin, Reset, SendMsg, Network, loopVars, L!Terminated
<1>5. CASE UNCHANGED vars
  BY <1>5 DEF vars, loopVars, L!Terminated
<1> QED
  BY <1>1, <1>2, <1>3, <1>4, <1>5, Zenon DEF Next, Server

(***************************************************************************)
(* Only SendMsg adds to a stream.                                          *)
(***************************************************************************)
LEMMA StreamKept ==
  ASSUME ServerTypes, Tool \in Clients,
         \/ Server \/ Sigint \/ (\E c \in Clients : Connect(c) \/ Deliver(c) \/ Fin(c) \/ Reset(c))
         \/ (\E c \in Clients \ {Tool} : \E m \in OtherMsgs : SendMsg(c, m))
  PROVE  tcp'[Tool].stream = tcp[Tool].stream
<1>1. tcp \in [Clients -> Tcp]
  BY DEF ServerTypes
<1>3. CASE \/ LoopStep \/ Dispatch \/ Return \/ (\E B \in SUBSET L!Reportable : EpollWait(B))
           \/ AcceptFails \/ ParseBreak \/ Killed \/ Sigint
  BY <1>3 DEF LoopStep, Dispatch, Return, EpollWait, AcceptFails, ParseBreak, Killed, Sigint, doipVars
<1>4. CASE Accept
  BY <1>1, <1>4 DEF Accept, Tcp
<1>5. CASE OnClientData
  BY <1>1, <1>5 DEF OnClientData, CloseConnection, Receive, Tcp
<1>6. CASE HandleMessage \/ Respond
  <2>1. PICK r : send_to_client(Peer, r)
    BY <1>6, Zenon DEF HandleMessage, Respond
  <2>2. tcp' = tcp \/ (\E v : tcp' = [tcp EXCEPT ![Peer].peer = v])
    BY <2>1 DEF send_to_client
  <2> QED BY <1>1, <2>2 DEF Tcp
<1>7. ASSUME NEW c \in Clients, Connect(c) \/ Deliver(c) \/ Fin(c) \/ Reset(c)
      PROVE  tcp'[Tool].stream = tcp[Tool].stream
  <2>1. CASE Connect(c)
    BY <1>1, <2>1 DEF Connect, Tcp
  <2>2. CASE Deliver(c)
    <3>1. PICK v : tcp' = [tcp EXCEPT ![c].arr = v]
      BY <2>2, Zenon DEF Deliver
    <3> QED BY <1>1, <3>1 DEF Tcp
  <2>3. CASE Fin(c)
    BY <1>1, <2>3 DEF Fin, Tcp
  <2>4. CASE Reset(c)
    <3>1. PICK v, a : tcp' = [tcp EXCEPT ![c].peer = v, ![c].arr = a]
      BY <2>4 DEF Reset
    <3> QED BY <1>1, <3>1 DEF Tcp
  <2> QED BY <1>7, <2>1, <2>2, <2>3, <2>4
<1>8. ASSUME NEW c \in Clients \ {Tool}, NEW m, SendMsg(c, m)
      PROVE  tcp'[Tool].stream = tcp[Tool].stream
  BY <1>1, <1>8 DEF SendMsg, Tcp
<1> QED
  BY <1>3, <1>4, <1>5, <1>6, <1>7, <1>8, Zenon DEF Server

LEMMA StreamGrown ==
  ASSUME ServerTypes, Tool \in Clients, NEW m \in Msgs, SendMsg(Tool, m),
         NEW J, tcp[Tool].stream = <<>> => m \in J,
         NEW K, tcp[Tool].stream # <<>> => m \in K,
         \A i \in 1..Len(tcp[Tool].stream) : tcp[Tool].stream[i].msg \in (IF i = 1 THEN J ELSE K)
  PROVE  /\ tcp'[Tool].stream # <<>>
         /\ \A i \in 1..Len(tcp'[Tool].stream) :
              tcp'[Tool].stream[i].msg \in (IF i = 1 THEN J ELSE K)
<1>1. PICK s \in Streams : s = tcp[Tool].stream
  BY DEF ServerTypes, Tcp
<1>2. tcp'[Tool].stream = Append(s, [msg |-> m, at |-> StreamEnd(s)])
  BY <1>1 DEF SendMsg, ServerTypes, Tcp
<1>3. PICK e : e = [msg |-> m, at |-> StreamEnd(s)]
  OBVIOUS
<1>4. e.msg = m
  BY <1>3
<1>5. s \in Seq([msg : Msgs, at : Nat]) /\ Len(s) \in Nat
  BY DEF Streams
<1>6. /\ Len(Append(s, e)) = Len(s) + 1 /\ Append(s, e)[Len(s) + 1] = e
      /\ \A i \in 1..Len(s) : Append(s, e)[i] = s[i]
  BY <1>5
<1>7. ASSUME NEW i \in 1..(Len(s) + 1)
      PROVE  Append(s, e)[i].msg \in (IF i = 1 THEN J ELSE K)
  <2>1. CASE i = Len(s) + 1
    <3>1. i = 1 <=> s = <<>>
      BY <1>5, <2>1
    <3> QED BY <1>1, <1>4, <1>6, <2>1, <3>1
  <2>2. CASE i # Len(s) + 1
    <3>1. i \in 1..Len(s)
      BY <1>5, <2>2
    <3> QED BY <1>1, <1>6, <3>1
  <2> QED BY <2>1, <2>2
<1>8. Append(s, e) # <<>>
  BY <1>5, <1>6
<1> QED
  BY <1>2, <1>3, <1>6, <1>7, <1>8

LEMMA ToolStreamStep ==
  ASSUME SessionInv, AskedOK, ToolStream, [ClientNext]_clientVars
  PROVE  ToolStream'
<1>0. /\ Tool \in Clients /\ ServerTypes /\ routing_msg \in Msgs
      /\ \A k \in DOMAIN Requests : diag_msg(Requests[k]) \in Msgs
  BY ClientAssumption DEF SessionInv, IInv, ServerInv
<1>1. L!Terminated => L!Terminated'
  BY ToolIsTester, TerminatedStays
<1>2. ASSUME tcp'[Tool].stream = tcp[Tool].stream, place' = place
      PROVE  ToolStream'
  BY <1>1, <1>2, Zenon DEF ToolStream
<1>3. CASE Gateway \/ (Sigint /\ UNCHANGED toolVars) \/ Others \/ Delivery \/ Hangup
  <2>1. place' = place
    BY <1>3, Zenon DEF Gateway, Others, Delivery, Hangup, toolVars
  <2>2. \/ Server \/ Sigint \/ (\E c \in Clients : Connect(c) \/ Deliver(c) \/ Fin(c) \/ Reset(c))
        \/ (\E c \in Clients \ {Tool} : \E m \in OtherMsgs : SendMsg(c, m))
    BY <1>0, <1>3, Zenon DEF Gateway, Others, Delivery, Hangup
  <2>3. tcp'[Tool].stream = tcp[Tool].stream
    BY <1>0, <2>2, StreamKept
  <2> QED BY <1>2, <2>1, <2>3
<1>4. CASE UNCHANGED clientVars
  <2>1. tcp' = tcp /\ place' = place
    BY <1>4 DEF clientVars, vars, doipVars, toolVars
  <2> QED BY <1>2, <2>1
<1>5. CASE ToolConnect
  <2>1. \E c \in Clients : Connect(c) \/ Deliver(c) \/ Fin(c) \/ Reset(c)
    BY <1>0, <1>5, Zenon DEF ToolConnect
  <2>2. tcp'[Tool].stream = tcp[Tool].stream
    BY <1>0, <2>1, StreamKept
  <2> QED BY <1>5, <2>2 DEF ToolConnect, ToolStream
<1>6. CASE SendActivation
  <2>1. place = "activate" /\ SendMsg(Tool, routing_msg) /\ place' = "await"
    BY <1>6 DEF SendActivation
  <2>2. PICK J, K : J = {routing_msg} /\ K = DiagMsgs
    OBVIOUS
  <2>3. /\ tcp[Tool].stream = <<>>
        /\ \A i \in 1..Len(tcp[Tool].stream) : tcp[Tool].stream[i].msg \in (IF i = 1 THEN J ELSE K)
    BY <2>1, <2>2 DEF ToolStream
  <2>4. /\ tcp'[Tool].stream # <<>>
        /\ \A i \in 1..Len(tcp'[Tool].stream) : tcp'[Tool].stream[i].msg \in (IF i = 1 THEN J ELSE K)
    <3>1. routing_msg \in J
      BY <2>2
    <3> QED BY <1>0, <2>1, <2>3, <3>1, StreamGrown
  <2> QED BY <2>1, <2>2, <2>4 DEF ToolStream, DiagMsgs, diag_msg, routing_msg
<1>7. CASE SendRequest
  <2>1. PICK k \in DOMAIN Requests : SendMsg(Tool, diag_msg(Requests[k]))
    <3>1. asked + 1 \in DOMAIN Requests
      BY <1>7, ClientAssumption DEF SendRequest, AskedOK
    <3> QED BY <1>7, <3>1 DEF SendRequest
  <2>2. place = "request" /\ place' = "response" /\ ~L!Terminated
    BY <1>7 DEF SendRequest, SendMsg, Live
  <2>3. PICK J, K : J = {routing_msg} /\ K = DiagMsgs
    OBVIOUS
  <2>4. /\ tcp[Tool].stream # <<>>
        /\ \A i \in 1..Len(tcp[Tool].stream) : tcp[Tool].stream[i].msg \in (IF i = 1 THEN J ELSE K)
    BY <2>2, <2>3 DEF ToolStream
  <2>5. /\ tcp'[Tool].stream # <<>>
        /\ \A i \in 1..Len(tcp'[Tool].stream) : tcp'[Tool].stream[i].msg \in (IF i = 1 THEN J ELSE K)
    <3>1. diag_msg(Requests[k]) \in K
      BY <2>3 DEF DiagMsgs
    <3> QED BY <1>0, <2>1, <2>4, <3>1, StreamGrown
  <2> QED BY <2>2, <2>3, <2>5 DEF ToolStream, DiagMsgs, diag_msg, routing_msg
<1>8. CASE ToolRefused \/ RecvActivation \/ RecvResponse \/ ServerGone \/ Close
  <2>1. tcp' = tcp /\ (L!Terminated' <=> L!Terminated)
    BY <1>8 DEF ToolRefused, RecvActivation, RecvResponse, ServerGone, Close, vars, doipVars, loopVars,
                L!Terminated
  <2>2. place' \notin {"connect", "activate"}
    BY <1>8 DEF ToolRefused, RecvActivation, RecvResponse, ServerGone, Close
  <2>3. place' \in {"await", "request", "response"}
          => place \in {"await", "request", "response"} \/ L!Terminated
    BY <1>8 DEF ToolRefused, RecvActivation, RecvResponse, ServerGone, Close
  <2> QED BY <2>1, <2>2, <2>3 DEF ToolStream, DiagMsgs, diag_msg, routing_msg
<1> QED
  BY <1>3, <1>4, <1>5, <1>6, <1>7, <1>8, Zenon DEF ClientNext, ToolStep

-----------------------------------------------------------------------------
(***************************************************************************)
(* Each message of the tool that the server has handled was answered, the  *)
(* activation once and a request twice; the second answer may be the one   *)
(* in hand.  Only the promises of DoIpSession are used, and that requests  *)
(* follow an activation.                                                   *)
(***************************************************************************)
Answered ==
  /\ Len(out[Tool]) + Len(OwedTo(Tool)) =
       (IF Len(seen[Tool]) = 0 THEN 0 ELSE 2 * Len(seen[Tool]) - 1)
  /\ StateOf(Tool) = "open" /\ Len(seen[Tool]) > 0 => IsActive(Tool)

LEMMA OwedLength ==
  ASSUME OwedOK
  PROVE  /\ OwedTo(Tool) = <<>> => Len(OwedTo(Tool)) = 0
         /\ OwedTo(Tool) # <<>> => Len(OwedTo(Tool)) = 1 /\ step = "respond" /\ Peer = Tool
         /\ OwedTo(Tool) = <<>> => ~(step = "respond" /\ Peer = Tool)
         /\ OwedTo(Tool) = <<>> \/ \E x : OwedTo(Tool) = <<x>>
<1>1. CASE step = "respond" /\ Peer = Tool
  <2>1. PICK m : owed = <<DiagnosticRes(m)>>
    BY <1>1 DEF OwedOK
  <2>2. OwedTo(Tool) = <<DiagnosticRes(m)>>
    BY <1>1, <2>1 DEF OwedTo, Peer
  <2> QED BY <1>1, <2>2
<1>2. CASE ~(step = "respond" /\ Peer = Tool)
  <2>1. OwedTo(Tool) = <<>>
    BY <1>2, Zenon DEF OwedTo, Peer
  <2> QED BY <1>2, <2>1
<1> QED
  BY <1>1, <1>2

LEMMA SaidLength ==
  ASSUME NEW s \in Seq(Sent)
  PROVE  /\ [i \in DOMAIN s |-> s[i].reply] \in Seq(Replies)
         /\ Len([i \in DOMAIN s |-> s[i].reply]) = Len(s)
<1>1. Len(s) \in Nat /\ DOMAIN s = 1..Len(s) /\ \A i \in 1..Len(s) : s[i] \in Sent
  BY LenProperties, ElementOfSeq
<1>2. \A i \in 1..Len(s) : s[i].reply \in Replies
  BY <1>1 DEF Sent
<1>3. [i \in DOMAIN s |-> s[i].reply] \in [1..Len(s) -> Replies]
  BY <1>1, <1>2
<1> QED
  BY <1>1, <1>3, SL!SeqByDomain

LEMMA AnsweredStep ==
  ASSUME SessionInv, SessionInv', SessionNext, ToolStream, Answered
  PROVE  Answered'
<1>0. /\ Tool \in Clients /\ ServerTypes /\ StreamsOK /\ OwedOK
      /\ ServerTypes' /\ StreamsOK' /\ OwedOK'
      /\ out[Tool] \in Seq(Sent) /\ out'[Tool] \in Seq(Sent)
  BY ClientAssumption DEF SessionInv, IInv, ServerInv
<1>1. /\ HandledMap[Tool] = Len(seen[Tool]) /\ HandledMap'[Tool] = Len(seen'[Tool])
      /\ Len(seen[Tool]) \in Nat /\ Len(seen'[Tool]) \in Nat
  BY <1>0 DEF HandledMap, ServerTypes
<1>2. /\ SaidMap[Tool] = SaidTo(Tool) /\ SaidMap'[Tool] = SaidTo(Tool)'
      /\ StateMap[Tool] = StateOf(Tool) /\ StateMap'[Tool] = StateOf(Tool)'
      /\ OwedMap[Tool] = OwedTo(Tool) /\ OwedMap'[Tool] = OwedTo(Tool)'
      /\ SentMap[Tool] = SentBy(Tool)
  BY <1>0, Zenon DEF SaidMap, StateMap, OwedMap, SentMap
<1>3. /\ ActiveMap[Tool] = IsActive(Tool) /\ ActiveMap'[Tool] = IsActive(Tool)'
  BY <1>0, Zenon DEF ActiveMap
<1>4. /\ SaidTo(Tool) \in Seq(Replies) /\ Len(SaidTo(Tool)) = Len(out[Tool])
      /\ SaidTo(Tool)' \in Seq(Replies) /\ Len(SaidTo(Tool)') = Len(out'[Tool])
  BY <1>0, SaidLength, Zenon DEF SaidTo
<1>5. Len(out[Tool]) \in Nat /\ Len(out'[Tool]) \in Nat
  BY <1>0, LenProperties
<1>6. CASE /\ HandledMap'[Tool] = HandledMap[Tool] /\ SaidMap'[Tool] = SaidMap[Tool]
           /\ OwedMap'[Tool] = OwedMap[Tool]
           /\ \/ StateMap'[Tool] = "over"
              \/ StateMap[Tool] = "none"
              \/ StateMap'[Tool] = StateMap[Tool] /\ ActiveMap'[Tool] = ActiveMap[Tool]
  <2>1. /\ Len(seen'[Tool]) = Len(seen[Tool]) /\ Len(out'[Tool]) = Len(out[Tool])
        /\ OwedTo(Tool)' = OwedTo(Tool)
    BY <1>1, <1>2, <1>4, <1>6, Zenon
  <2>2. StateOf(Tool) = "none" => Len(seen[Tool]) = 0
    BY <1>0 DEF StateOf, StreamsOK, StreamOK
  <2>3. StateOf(Tool)' = "open" /\ Len(seen'[Tool]) > 0 => IsActive(Tool)'
    <3> SUFFICES ASSUME StateOf(Tool)' = "open", Len(seen'[Tool]) > 0 PROVE IsActive(Tool)'
      OBVIOUS
    <3>1. StateMap[Tool] # "none"
      BY <1>1, <1>2, <2>1, <2>2
    <3>2. StateMap'[Tool] = StateMap[Tool] /\ ActiveMap'[Tool] = ActiveMap[Tool]
      BY <1>2, <1>6, <3>1
    <3>3. StateOf(Tool) = "open" /\ Len(seen[Tool]) > 0
      BY <1>2, <2>1, <3>2
    <3> QED BY <1>3, <3>2, <3>3, Zenon DEF Answered
  <2>4. Len(OwedTo(Tool)') = Len(OwedTo(Tool))
    BY <2>1
  <2> QED BY <2>1, <2>3, <2>4 DEF Answered
<1>7. CASE /\ OwedMap[Tool] # <<>> /\ OwedMap'[Tool] = <<>>
           /\ SaidMap'[Tool] = SaidMap[Tool] \o OwedMap[Tool]
           /\ HandledMap'[Tool] = HandledMap[Tool] /\ ActiveMap'[Tool] = ActiveMap[Tool]
           /\ StateMap'[Tool] = StateMap[Tool]
  <2>1. PICK x : OwedTo(Tool) = <<x>>
    BY <1>0, <1>2, <1>7, OwedLength
  <2>2. SaidTo(Tool)' = SaidTo(Tool) \o <<x>> /\ Len(OwedTo(Tool)) = 1 /\ Len(OwedTo(Tool)') = 0
    BY <1>2, <1>7, <2>1
  <2>3. Len(out'[Tool]) = Len(out[Tool]) + 1
    <3>1. PICK s, t : s = SaidTo(Tool) /\ t = SaidTo(Tool)'
      OBVIOUS
    <3>2. s \in Seq(Replies) /\ t = s \o <<x>>
      BY <1>4, <2>2, <3>1
    <3>3. Len(t) = Len(s) + 1
      BY <3>2, Z3
    <3> QED BY <1>4, <3>1, <3>3
  <2>4. Len(seen'[Tool]) = Len(seen[Tool]) /\ StateOf(Tool)' = StateOf(Tool)
    BY <1>1, <1>2, <1>7
  <2>5. IsActive(Tool)' = IsActive(Tool)
    BY <1>3, <1>7, Zenon
  <2> QED BY <1>1, <1>5, <2>2, <2>3, <2>4, <2>5 DEF Answered
<1>8. CASE /\ StateMap[Tool] = "open" /\ OwedMap[Tool] = <<>> /\ HandledMap[Tool] < Len(SentMap[Tool])
           /\ HandledMap'[Tool] = HandledMap[Tool] + 1
           /\ \E m : /\ m = SentMap[Tool][HandledMap[Tool] + 1]
                     /\ ActiveMap'[Tool] = (ActiveMap[Tool] \/ S!Activates(m))
                     /\ SaidMap'[Tool] = SaidMap[Tool] \o S!Answers(Tool, m)
                     /\ OwedMap'[Tool] = IF S!Accepted(Tool, m) THEN <<S!DiagnosticRes(m)>> ELSE <<>>
  <2>1. PICK m : /\ m = SentMap[Tool][HandledMap[Tool] + 1]
                 /\ ActiveMap'[Tool] = (ActiveMap[Tool] \/ S!Activates(m))
                 /\ SaidMap'[Tool] = SaidMap[Tool] \o S!Answers(Tool, m)
                 /\ OwedMap'[Tool] = IF S!Accepted(Tool, m) THEN <<S!DiagnosticRes(m)>> ELSE <<>>
    BY <1>8, Zenon
  <2>2. PICK n \in Nat : n = Len(seen[Tool])
    BY <1>1
  <2>3. /\ StateOf(Tool) = "open" /\ OwedTo(Tool) = <<>> /\ Len(seen'[Tool]) = n + 1
        /\ m = SentBy(Tool)[n + 1] /\ n < Len(SentBy(Tool))
    BY <1>1, <1>2, <1>8, <2>1, <2>2
  <2>4. /\ n + 1 \in 1..Len(tcp[Tool].stream) /\ m = tcp[Tool].stream[n + 1].msg
    <3>1. tcp[Tool].stream \in Streams
      BY <1>0 DEF ServerTypes, Tcp
    <3>2. PICK s \in Streams : s = tcp[Tool].stream
      BY <3>1
    <3>3. SentBy(Tool) = [i \in DOMAIN s |-> s[i].msg]
      BY <3>2 DEF SentBy
    <3>4. Len(s) \in Nat /\ DOMAIN s = 1..Len(s)
      BY LenProperties DEF Streams
    <3>5. Len(SentBy(Tool)) = Len(s)
      <4>1. ASSUME NEW i \in 1..Len(s) PROVE s[i].msg \in Msgs
        <5>1. s[i] \in [msg : Msgs, at : Nat]
          BY ElementOfSeq DEF Streams
        <5> QED BY <5>1
      <4>2. [i \in DOMAIN s |-> s[i].msg] \in [1..Len(s) -> Msgs]
        BY <3>4, <4>1
      <4> QED BY <3>3, <3>4, <4>2, SL!SeqByDomain
    <3>6. n + 1 \in 1..Len(s)
      BY <2>3, <3>4, <3>5
    <3>7. m = s[n + 1].msg
      BY <2>3, <3>3, <3>4, <3>6
    <3> QED BY <3>2, <3>6, <3>7
  <2>5. CASE n = 0
    <3>1. m = routing_msg
      BY <2>4, <2>5 DEF ToolStream
    <3>2. S!Activates(m) /\ ~S!Accepted(Tool, m)
      <4>1. m.type = "ROUTING_ACTIVATION_REQ" /\ m.len = 7
        BY <3>1 DEF routing_msg
      <4> QED BY <4>1 DEF S!Activates, S!Accepted
    <3>3. PICK x : S!Answers(Tool, m) = <<x>>
      BY <3>2, Zenon DEF S!Answers
    <3>4. IsActive(Tool)'
      BY <1>3, <2>1, <3>2, Zenon
    <3>5. OwedTo(Tool)' = <<>> /\ SaidTo(Tool)' = SaidTo(Tool) \o <<x>>
      BY <1>2, <2>1, <3>2, <3>3, Zenon
    <3>6. Len(out'[Tool]) = Len(out[Tool]) + 1
      <4>1. PICK s, t : s = SaidTo(Tool) /\ t = SaidTo(Tool)'
        OBVIOUS
      <4>2. s \in Seq(Replies) /\ t = s \o <<x>>
        BY <1>4, <3>5, <4>1
      <4>3. Len(t) = Len(s) + 1
        BY <4>2, Z3
      <4> QED BY <1>4, <4>1, <4>3
    <3>7. Len(OwedTo(Tool)) = 0 /\ Len(OwedTo(Tool)') = 0
      BY <2>3, <3>5
    <3> QED BY <1>5, <2>2, <2>3, <2>5, <3>4, <3>6, <3>7 DEF Answered
  <2>6. CASE n # 0
    <3>1. PICK k \in DOMAIN Requests : m = diag_msg(Requests[k])
      <4>1. n + 1 # 1
        BY <2>6
      <4>2. m \in DiagMsgs
        BY <2>4, <4>1 DEF ToolStream
      <4> QED BY <4>2 DEF DiagMsgs
    <3>2. m.type = "DIAGNOSTIC_MESSAGE" /\ m.len >= 4
      <4>1. Len(Requests[k]) \in Nat
        BY ClientAssumption
      <4> QED BY <3>1, <4>1 DEF diag_msg
    <3>3. IsActive(Tool)
      BY <2>2, <2>3, <2>6 DEF Answered
    <3>4. S!Accepted(Tool, m)
      <4>1. S!Accepted(Tool, m) = (m.type = "DIAGNOSTIC_MESSAGE" /\ ActiveMap[Tool] /\ m.len >= 4)
        BY Zenon DEF S!Accepted, ActiveMap, IsActive
      <4> QED BY <1>3, <3>2, <3>3, <4>1, Zenon
    <3>5. ~S!Activates(m)
      BY <3>2 DEF S!Activates
    <3>6. PICK x : S!Answers(Tool, m) = <<x>>
      BY <3>4, <3>5, Zenon DEF S!Answers
    <3>7. PICK y : OwedTo(Tool)' = <<y>>
      BY <1>2, <2>1, <3>4, Zenon
    <3>8. IsActive(Tool)'
      BY <1>3, <2>1, <3>3, Zenon
    <3>9. SaidTo(Tool)' = SaidTo(Tool) \o <<x>>
      BY <1>2, <2>1, <3>6, Zenon
    <3>10. Len(out'[Tool]) = Len(out[Tool]) + 1
      <4>1. PICK s, t : s = SaidTo(Tool) /\ t = SaidTo(Tool)'
        OBVIOUS
      <4>2. s \in Seq(Replies) /\ t = s \o <<x>>
        BY <1>4, <3>9, <4>1
      <4>3. Len(t) = Len(s) + 1
        BY <4>2, Z3
      <4> QED BY <1>4, <4>1, <4>3
    <3>11. Len(OwedTo(Tool)) = 0 /\ Len(OwedTo(Tool)') = 1
      BY <2>3, <3>7
    <3>12. PICK a \in Nat : a = Len(out[Tool])
      BY <1>5
    <3>13. a = 2 * n - 1
      <4>1. Len(out[Tool]) + Len(OwedTo(Tool)) = 2 * n - 1
        BY <2>2, <2>6 DEF Answered
      <4> QED BY <3>11, <3>12, <4>1
    <3>14. Len(out'[Tool]) + Len(OwedTo(Tool)') = 2 * (n + 1) - 1
      BY <3>10, <3>11, <3>12, <3>13
    <3>15. Len(seen'[Tool]) = n + 1 /\ n + 1 # 0
      BY <2>3
    <3>16. Len(out'[Tool]) + Len(OwedTo(Tool)') =
             (IF Len(seen'[Tool]) = 0 THEN 0 ELSE 2 * Len(seen'[Tool]) - 1)
      BY <3>14, <3>15
    <3> QED BY <3>8, <3>16 DEF Answered
  <2> QED BY <2>5, <2>6
<1> QED
  BY <1>0, <1>6, <1>7, <1>8, SessionMoves, Zenon

LEMMA AnsweredCounts ==
  ASSUME SessionInv, ToolStream, Answered
  PROVE  /\ Diagnosed = IF Len(seen[Tool]) = 0 THEN 0 ELSE Len(seen[Tool]) - 1
         /\ Diagnosed \in Nat
         /\ EveryRequestAnswered
         /\ out[Tool] # <<>> => Len(out[Tool]) <= 2 * Diagnosed + 1
<1>0. /\ Tool \in Clients /\ ServerTypes /\ StreamsOK /\ OwedOK /\ out[Tool] \in Seq(Sent)
  BY ClientAssumption DEF SessionInv, IInv, ServerInv
<1>1. PICK n \in Nat : n = Len(seen[Tool])
  BY <1>0 DEF ServerTypes
<1>2. DOMAIN seen[Tool] = 1..n /\ n <= Len(tcp[Tool].stream) /\ Len(tcp[Tool].stream) \in Nat
  BY <1>0, <1>1 DEF ServerTypes, StreamsOK, StreamOK, Tcp, Streams
<1>3. \A i \in 1..n : seen[Tool][i] = tcp[Tool].stream[i].msg
  BY <1>0, <1>1 DEF StreamsOK, StreamOK
<1>4. ASSUME NEW i \in 1..n
      PROVE  seen[Tool][i].type = "DIAGNOSTIC_MESSAGE" <=> i # 1
  <2>1. seen[Tool][i] \in (IF i = 1 THEN {routing_msg} ELSE DiagMsgs)
    BY <1>2, <1>3 DEF ToolStream
  <2>2. routing_msg.type # "DIAGNOSTIC_MESSAGE" /\ \A m \in DiagMsgs : m.type = "DIAGNOSTIC_MESSAGE"
    BY DEF routing_msg, DiagMsgs, diag_msg
  <2> QED BY <2>1, <2>2
<1>5. {i \in DOMAIN seen[Tool] : seen[Tool][i].type = "DIAGNOSTIC_MESSAGE"} = 2..n
  BY <1>2, <1>4
<1>6. Diagnosed = IF n = 0 THEN 0 ELSE n - 1
  <2>1. Cardinality(2..n) = IF 2 > n THEN 0 ELSE n - 2 + 1
    BY FS_Interval
  <2>2. Diagnosed = Cardinality(2..n)
    BY <1>5, Zenon DEF Diagnosed
  <2> QED BY <2>1, <2>2
<1>7. Len(out[Tool]) \in Nat
  BY <1>0, LenProperties
<1>8. PICK w \in {0, 1} : /\ w = IF step = "respond" /\ Peer = Tool THEN 1 ELSE 0
                         /\ Len(OwedTo(Tool)) = w
  BY <1>0, OwedLength
<1>9. Len(out[Tool]) + w = IF n = 0 THEN 0 ELSE 2 * n - 1
  BY <1>1, <1>8 DEF Answered
<1>10. EveryRequestAnswered
  <2>1. Len(out[Tool]) + w = n + Diagnosed
    BY <1>6, <1>7, <1>9
  <2> QED BY <1>1, <1>8, <2>1, Zenon DEF EveryRequestAnswered
<1>11. out[Tool] # <<>> => Len(out[Tool]) > 0
  BY <1>0, <1>7, EmptySeq
<1>12. out[Tool] # <<>> => Len(out[Tool]) <= 2 * Diagnosed + 1
  BY <1>6, <1>7, <1>9, <1>11
<1> QED BY <1>1, <1>6, <1>10, <1>12

-----------------------------------------------------------------------------
(***************************************************************************)
(* The lengths of the replies: whatever it answers, handle returns some    *)
(* bytes, so a reply that send() took adds to the tool's stream.           *)
(***************************************************************************)
LEMMA HandleLength == \A req : Len(handle(req).bytes) \in Nat
<1>1. \A a, b : Len(negative_response(a, b).bytes) = 3
  BY DEF negative_response, Response
<1>2. \A r : Len(handle_session_control(r).bytes) \in {2, 3}
  BY <1>1 DEF handle_session_control, Response
<1>3. \A r : Len(handle_ecu_reset(r).bytes) \in {2, 3}
  BY <1>1 DEF handle_ecu_reset, Response
<1>4. \A r : Len(handle_read_dtc(r).bytes) \in {3, 6}
  BY <1>1 DEF handle_read_dtc, Response
<1>5. \A r : Len(handle_read_data_by_id(r).bytes) = 3
  BY <1>1 DEF handle_read_data_by_id, Response
<1> TAKE req
<1>6. \/ \E a, b : handle(req) = negative_response(a, b)
      \/ handle(req) = handle_session_control(req) \/ handle(req) = handle_read_dtc(req)
      \/ handle(req) = handle_read_data_by_id(req) \/ handle(req) = handle_ecu_reset(req)
  BY DEF handle
<1> QED
  BY <1>1, <1>2, <1>3, <1>4, <1>5, <1>6

LEMMA TookType ==
  ASSUME NEW r \in Sent
  PROVE  Took(r) \in Nat /\ (r.sent = "whole" => Took(r) > 0)
<1>1. ASSUME NEW q \in Replies PROVE PayloadLength(q) \in Nat
  <2>1. CASE q = AliveCheckRes
    <3>1. q.type = "ALIVE_CHECK_RES"
      BY <2>1 DEF AliveCheckRes, make_doip_message
    <3> QED BY <3>1 DEF PayloadLength
  <2>2. CASE \E m \in Msgs : q = RoutingActivationRes(m)
    <3>1. q.type = "ROUTING_ACTIVATION_RES"
      BY <2>2 DEF RoutingActivationRes, make_doip_message
    <3> QED BY <3>1 DEF PayloadLength
  <2>3. CASE \E m \in Msgs : q = DiagnosticAck(m)
    <3>1. q.type = "DIAGNOSTIC_ACK"
      BY <2>3 DEF DiagnosticAck, make_doip_message
    <3> QED BY <3>1 DEF PayloadLength
  <2>4. CASE \E m \in Msgs : q = DiagnosticRes(m)
    <3>1. PICK m \in Msgs : q = DiagnosticRes(m)
      BY <2>4
    <3>2. q.type = "DIAGNOSTIC_MESSAGE" /\ q.payload.uds = handle(m.uds)
      BY <3>1 DEF DiagnosticRes, make_doip_message
    <3>3. PayloadLength(q) = 4 + Len(handle(m.uds).bytes)
      BY <3>2 DEF PayloadLength
    <3> QED BY <3>3, HandleLength
  <2> QED BY <2>1, <2>2, <2>3, <2>4 DEF Replies
<1>2. r.reply \in Replies
  BY DEF Sent
<1> QED
  BY <1>1, <1>2, HeaderAssumption DEF Took, Size

(***************************************************************************)
(* Starts, by its equations.                                               *)
(***************************************************************************)
StartsFrom(s, f) ==
  f = [i \in 1..(Len(s) + 1) |-> IF i = 1 THEN 0 ELSE f[i - 1] + Took(s[i - 1])]

LEMMA StartsExist ==
  ASSUME NEW s \in Seq(Sent)
  PROVE  \E f : StartsFrom(s, f)
<1> DEFINE n == Len(s)
           Value(f, i) == IF i = 1 THEN 0 ELSE f[i - 1] + Took(s[i - 1])
           Partial(k, f) == f = [i \in 1..(k + 1) |-> f[i]] /\ \A i \in 1..(k + 1) : f[i] = Value(f, i)
           Good == {k \in 0..n : \E f : Partial(k, f)}
<1>1. n \in Nat
  BY LenProperties
<1>2. 0 \in Good
  <2> DEFINE f == [i \in 1..(0 + 1) |-> 0]
  <2>1. Partial(0, f)
    OBVIOUS
  <2> HIDE DEF f, Partial
  <2> QED BY <1>1, <2>1
<1>3. ASSUME NEW k \in 0..(n - 1), k \in Good PROVE k + 1 \in Good
  <2>0. k \in Nat /\ k + 1 \in 0..n
    BY <1>1
  <2>1. PICK f : Partial(k, f)
    BY <1>3
  <2> DEFINE g == [i \in 1..((k + 1) + 1) |-> IF i = k + 2 THEN Value(f, i) ELSE f[i]]
  <2>2. ASSUME NEW i \in 1..((k + 1) + 1) PROVE g[i] = Value(g, i)
    <3>1. /\ i # k + 2 => i \in 1..(k + 1)
          /\ i # 1 => i - 1 \in 1..((k + 1) + 1) /\ i - 1 # k + 2
      BY <2>0
    <3>2. g[i] = Value(f, i)
      <4> HIDE DEF Value
      <4>1. CASE i = k + 2
        BY <4>1
      <4>2. CASE i # k + 2
        BY <2>1, <3>1, <4>2
      <4> QED BY <4>1, <4>2
    <3>3. i # 1 => g[i - 1] = f[i - 1]
      <4> HIDE DEF Value
      <4> QED BY <3>1
    <3> HIDE DEF g
    <3> QED BY <3>2, <3>3
  <2>3. Partial(k + 1, g)
    <3>1. g = [i \in 1..((k + 1) + 1) |-> g[i]]
      OBVIOUS
    <3> HIDE DEF g, Value
    <3> QED BY <2>2, <3>1
  <2> HIDE DEF g, Partial
  <2> QED BY <2>0, <2>3
<1>4. n \in Good
  <2> HIDE DEF Good, n
  <2>1. \A k \in 0..n : k \in Good
    BY <1>1, <1>2, <1>3, SL!UpTo
  <2> QED BY <1>1, <2>1
<1>5. PICK f : Partial(n, f)
  BY <1>4
<1>6. StartsFrom(s, f)
  <2> DEFINE v(i) == Value(f, i)
  <2>1. f = [i \in 1..(n + 1) |-> f[i]] /\ \A i \in 1..(n + 1) : f[i] = v(i)
    BY <1>5
  <2> HIDE DEF v, n
  <2>2. f = [i \in 1..(n + 1) |-> v(i)]
    BY <2>1
  <2> QED BY <2>2, Zenon DEF StartsFrom, v, n
<1> QED
  BY <1>6

LEMMA StartsAre ==
  ASSUME NEW s \in Seq(Sent)
  PROVE  /\ Starts(s)[1] = 0
         /\ \A i \in 1..Len(s) : Starts(s)[i + 1] = Starts(s)[i] + Took(s[i])
         /\ \A i \in 1..(Len(s) + 1) : Starts(s)[i] \in Nat
<1> DEFINE f == CHOOSE f : StartsFrom(s, f)
           n == Len(s)
           Value(i) == IF i = 1 THEN 0 ELSE f[i - 1] + Took(s[i - 1])
<1>1. n \in Nat /\ \A i \in 1..n : s[i] \in Sent
  BY LenProperties, ElementOfSeq
<1>2. StartsFrom(s, f)
  BY StartsExist, Zenon
<1>3. f = [i \in 1..(n + 1) |-> Value(i)]
  BY <1>2, Zenon DEF StartsFrom
<1>4. Starts(s) = f
  BY Zenon DEF Starts, StartsFrom
<1> HIDE DEF f
<1>5. \A i \in 1..(n + 1) : f[i] = Value(i)
  <2> HIDE DEF Value
  <2> QED BY <1>3
<1>6. f[1] = 0
  <2>1. 1 \in 1..(n + 1)
    BY <1>1
  <2> QED BY <1>5, <2>1
<1>7. ASSUME NEW i \in 1..n PROVE f[i + 1] = f[i] + Took(s[i])
  <2>1. i + 1 \in 1..(n + 1) /\ i + 1 # 1 /\ (i + 1) - 1 = i
    BY <1>1
  <2>2. f[i + 1] = f[(i + 1) - 1] + Took(s[(i + 1) - 1])
    BY <1>5, <2>1
  <2> QED BY <2>1, <2>2
<1> DEFINE Good == {k \in 0..n : f[k + 1] \in Nat}
<1>8. 0 \in Good
  BY <1>1, <1>6
<1>9. ASSUME NEW k \in 0..(n - 1), k \in Good PROVE k + 1 \in Good
  <2>1. k + 1 \in 1..n /\ k + 1 \in 0..n
    BY <1>1
  <2>2. f[(k + 1) + 1] = f[k + 1] + Took(s[k + 1]) /\ Took(s[k + 1]) \in Nat
    BY <1>1, <1>7, <2>1, TookType
  <2> QED BY <1>9, <2>1, <2>2
<1>10. \A k \in 0..n : k \in Good
  <2> HIDE DEF Good
  <2> QED BY <1>1, <1>8, <1>9, SL!UpTo
<1>11. ASSUME NEW i \in 1..(n + 1) PROVE f[i] \in Nat
  <2>1. i - 1 \in 0..n /\ (i - 1) + 1 = i
    BY <1>1
  <2>2. f[(i - 1) + 1] \in Nat
    BY <1>10, <2>1
  <2> QED BY <2>1, <2>2
<1> QED
  BY <1>4, <1>6, <1>7, <1>11

(***************************************************************************)
(* A later reply starts later, and a reply that arrives moves none.        *)
(***************************************************************************)
LEMMA StartsOrder ==
  ASSUME NEW s \in Seq(Sent), NEW i \in 1..(Len(s) + 1), NEW j \in i..(Len(s) + 1)
  PROVE  Starts(s)[i] <= Starts(s)[j]
<1> DEFINE n == Len(s)
           f == Starts(s)
<1>1. n \in Nat /\ \A k \in 1..n : s[k] \in Sent
  BY LenProperties, ElementOfSeq
<1>2. /\ \A k \in 1..n : f[k + 1] = f[k] + Took(s[k])
      /\ \A k \in 1..(n + 1) : f[k] \in Nat
  BY StartsAre
<1> HIDE DEF f
<1> DEFINE Good == {k \in 0..(n + 1 - i) : f[i] <= f[i + k]}
<1>3. 0 \in Good
  BY <1>1, <1>2
<1>4. ASSUME NEW k \in 0..((n + 1 - i) - 1), k \in Good PROVE k + 1 \in Good
  <2>1. /\ i + k \in 1..n /\ i + k \in 1..(n + 1) /\ k + 1 \in 0..(n + 1 - i)
        /\ i + (k + 1) = (i + k) + 1
    BY <1>1
  <2>2. f[(i + k) + 1] = f[i + k] + Took(s[i + k]) /\ Took(s[i + k]) \in Nat /\ f[i + k] \in Nat
    BY <1>1, <1>2, <2>1, TookType
  <2>3. f[i] <= f[i + k] /\ f[i] \in Nat
    BY <1>2, <1>4
  <2>4. f[i] <= f[(i + k) + 1]
    BY <2>2, <2>3
  <2> QED BY <2>1, <2>4
<1>5. n + 1 - i \in Nat
  BY <1>1
<1>6. \A k \in 0..(n + 1 - i) : k \in Good
  <2> HIDE DEF Good
  <2> QED BY <1>3, <1>4, <1>5, SL!UpTo
<1>7. j - i \in 0..(n + 1 - i) /\ i + (j - i) = j
  BY <1>1
<1>8. f[i] <= f[i + (j - i)]
  BY <1>6, <1>7
<1> QED
  BY <1>7, <1>8 DEF f

LEMMA StartsGrow ==
  ASSUME NEW s \in Seq(Sent), NEW x \in Sent
  PROVE  \A i \in 1..(Len(s) + 1) : Starts(Append(s, x))[i] = Starts(s)[i]
<1>1. PICK t \in Seq(Sent) : t = Append(s, x)
  BY AppendProperties
<1>2. /\ Len(s) \in Nat /\ Len(t) = Len(s) + 1 /\ \A i \in 1..Len(s) : t[i] = s[i]
  BY <1>1, LenProperties, AppendProperties
<1>3. PICK n \in Nat : n = Len(s)
  BY <1>2
<1>4. PICK f, g : f = Starts(s) /\ g = Starts(t)
  OBVIOUS
<1>5. f[1] = 0 /\ \A i \in 1..n : f[i + 1] = f[i] + Took(s[i])
  BY <1>3, <1>4, StartsAre
<1>6. g[1] = 0 /\ \A i \in 1..(n + 1) : g[i + 1] = g[i] + Took(t[i])
  BY <1>2, <1>3, <1>4, StartsAre
<1> DEFINE Good == {k \in 0..n : g[k + 1] = f[k + 1]}
<1>7. 0 \in Good
  BY <1>5, <1>6
<1>8. ASSUME NEW k \in 0..(n - 1), k \in Good PROVE k + 1 \in Good
  <2>1. k + 1 \in 1..n /\ k + 1 \in 0..n /\ k + 1 \in 1..(n + 1)
    OBVIOUS
  <2>2. g[k + 1] = f[k + 1] /\ t[k + 1] = s[k + 1]
    BY <1>2, <1>3, <1>8, <2>1
  <2>3. g[(k + 1) + 1] = f[(k + 1) + 1]
    BY <1>5, <1>6, <2>1, <2>2
  <2> QED BY <2>1, <2>3
<1>9. \A k \in 0..n : k \in Good
  <2> HIDE DEF Good
  <2> QED BY <1>7, <1>8, SL!UpTo
<1>10. ASSUME NEW i \in 1..(n + 1) PROVE g[i] = f[i]
  <2>1. i - 1 \in 0..n /\ (i - 1) + 1 = i
    OBVIOUS
  <2>2. g[(i - 1) + 1] = f[(i - 1) + 1]
    BY <1>9, <2>1
  <2> QED BY <2>1, <2>2
<1> QED
  BY <1>1, <1>3, <1>4, <1>10

-----------------------------------------------------------------------------
(***************************************************************************)
(* What the tool has read.  After k requests that each displayed a message *)
(* it is past at least k + 1 replies: a reply is displayed from its first  *)
(* byte on, so only once, and the one before the first of them was the     *)
(* answer to the activation.                                               *)
(***************************************************************************)
Past(replies, k, t) ==
  k = 0 \/ \E j \in 1..Len(replies) : j > k /\ Starts(replies)[j + 1] <= t

ReadOK ==
  /\ taken \in Nat /\ taken <= Start(Len(out[Tool]) + 1)
  /\ place \in {"request", "response"} => taken > 0
  /\ shown \in Seq(Seq(Replies))
  /\ (\A k \in DOMAIN shown : shown[k] # <<>>) => Past(out[Tool], Len(shown), taken)

LEMMA PastKept ==
  ASSUME NEW s \in Seq(Sent), NEW x \in Sent, NEW k \in Nat, NEW t \in Nat, Past(s, k, t)
  PROVE  Past(Append(s, x), k, t)
<1>1. Len(Append(s, x)) = Len(s) + 1 /\ Len(s) \in Nat
  BY LenProperties, AppendProperties
<1>2. CASE k = 0
  BY <1>2 DEF Past
<1>3. CASE k # 0
  <2>1. PICK j \in 1..Len(s) : j > k /\ Starts(s)[j + 1] <= t
    BY <1>3 DEF Past
  <2>2. j + 1 \in 1..(Len(s) + 1) /\ j \in 1..Len(Append(s, x))
    BY <1>1
  <2>3. Starts(Append(s, x))[j + 1] = Starts(s)[j + 1]
    BY <2>2, StartsGrow
  <2> QED BY <2>1, <2>2, <2>3 DEF Past
<1> QED
  BY <1>2, <1>3

LEMMA PastNext ==
  ASSUME NEW s \in Seq(Sent), NEW k \in Nat, NEW t \in Nat, NEW n \in Nat, t > 0, Past(s, k, t),
         NEW i \in 1..Len(s), s[i].sent = "whole", Starts(s)[i] = t, Took(s[i]) <= n
  PROVE  Past(s, k + 1, t + n)
<1>1. Len(s) \in Nat /\ s[i] \in Sent /\ i \in 1..(Len(s) + 1) /\ i + 1 \in 1..(Len(s) + 1)
  BY LenProperties, ElementOfSeq
<1>2. Took(s[i]) \in Nat /\ Took(s[i]) > 0
  BY <1>1, TookType
<1>3. PICK f : f = Starts(s)
  OBVIOUS
<1>4. f[1] = 0 /\ f[i] = t /\ f[i + 1] = t + Took(s[i])
  BY <1>3, StartsAre
<1>5. f[i + 1] <= t + n
  BY <1>2, <1>4
<1>6. i > k + 1
  <2>1. CASE k = 0
    <3>1. i # 1
      BY <1>4
    <3> QED BY <2>1, <3>1
  <2>2. CASE k # 0
    <3>1. PICK j \in 1..Len(s) : j > k /\ f[j + 1] <= t
      BY <1>3, <2>2 DEF Past
    <3>2. ASSUME i <= j PROVE FALSE
      <4>1. j + 1 \in (i + 1)..(Len(s) + 1)
        BY <1>1, <3>2
      <4>2. f[i + 1] <= f[j + 1]
        BY <1>1, <1>3, <4>1, StartsOrder
      <4>3. f[j + 1] \in Nat
        <5>1. j + 1 \in 1..(Len(s) + 1)
          BY <1>1
        <5> QED BY <1>3, <5>1, StartsAre
      <4> QED BY <1>2, <1>4, <3>1, <4>2, <4>3
    <3> QED BY <3>1, <3>2
  <2> QED BY <2>1, <2>2
<1> QED
  BY <1>3, <1>5, <1>6 DEF Past

LEMMA OutGrows ==
  ASSUME [Next]_vars, Tool \in Clients, NEW s, s = out[Tool], DOMAIN out = Clients
  PROVE  out'[Tool] = s \/ \E x : out'[Tool] = Append(s, x)
<1>1. CASE \/ LoopStep \/ (\E B \in SUBSET L!Reportable : EpollWait(B)) \/ Sigint
           \/ Dispatch \/ Return \/ Accept \/ AcceptFails \/ OnClientData \/ ParseBreak \/ Killed
           \/ UNCHANGED vars
  BY <1>1 DEF LoopStep, EpollWait, Sigint, Dispatch, Return, Accept, AcceptFails, OnClientData,
              ParseBreak, Killed, vars, doipVars
<1>2. CASE HandleMessage \/ Respond
  <2>1. PICK r : send_to_client(Peer, r)
    BY <1>2, Zenon DEF HandleMessage, Respond
  <2>2. out' = out \/ \E x : out' = [out EXCEPT ![Peer] = Append(@, x)]
    BY <2>1, Zenon DEF send_to_client
  <2> QED BY <2>2
<1>3. CASE Tester
  BY <1>3 DEF Tester, Connect, Deliver, Fin, Reset, SendMsg, Network
<1> QED
  BY <1>1, <1>2, <1>3, Zenon DEF Next, Server

LEMMA DisplayedType ==
  ASSUME out[Tool] \in Seq(Sent), NEW n
  PROVE  /\ Displayed(n) \in Seq(Replies)
         /\ Displayed(n) # <<>> => \E i \in 1..Len(out[Tool]) :
              out[Tool][i].sent = "whole" /\ Start(i) = taken /\ Took(out[Tool][i]) <= n
<1>1. DOMAIN out[Tool] = 1..Len(out[Tool]) /\ \A i \in DOMAIN out[Tool] : out[Tool][i].reply \in Replies
  <2>1. DOMAIN out[Tool] = 1..Len(out[Tool])
    BY LenProperties
  <2>2. \A i \in 1..Len(out[Tool]) : out[Tool][i] \in Sent
    BY ElementOfSeq
  <2> QED BY <2>1, <2>2 DEF Sent
<1>2. CASE \E i \in DOMAIN out[Tool] : AtFront(i) /\ Took(out[Tool][i]) <= n
  <2>1. PICK d : d = CHOOSE i \in DOMAIN out[Tool] : AtFront(i)
    OBVIOUS
  <2>2. d \in DOMAIN out[Tool]
    BY <1>2, <2>1, Zenon
  <2>3. PICK x \in Replies : x = out[Tool][d].reply
    BY <1>1, <2>2
  <2>4. Displayed(n) = <<x>>
    BY <1>2, <2>1, <2>3, Zenon DEF Displayed
  <2>5. \E i \in 1..Len(out[Tool]) :
              out[Tool][i].sent = "whole" /\ Start(i) = taken /\ Took(out[Tool][i]) <= n
    BY <1>1, <1>2, Zenon DEF AtFront
  <2> QED BY <2>4, <2>5
<1>3. CASE ~(\E i \in DOMAIN out[Tool] : AtFront(i) /\ Took(out[Tool][i]) <= n)
  BY <1>3 DEF Displayed
<1> QED
  BY <1>2, <1>3

(***************************************************************************)
(* recv() returns some of what is there.                                   *)
(***************************************************************************)
LEMMA RecvBound ==
  ASSUME out[Tool] \in Seq(Sent), ReadOK, NEW n \in RecvSizes
  PROVE  n \in Nat /\ n > 0 /\ taken + n <= Start(Len(out[Tool]) + 1)
<1>1. PICK e \in Nat : e = Start(Len(out[Tool]) + 1)
  <2>1. Len(out[Tool]) \in Nat /\ Len(out[Tool]) + 1 \in 1..(Len(out[Tool]) + 1)
    BY LenProperties
  <2> QED BY <2>1, StartsAre DEF Start
<1>2. taken \in Nat /\ taken <= e /\ Unread = e - taken
  BY <1>1 DEF ReadOK, Unread
<1>3. (n \in Pieces /\ n < Unread) \/ (n = Unread /\ n # 0)
  BY Zenon DEF RecvSizes
<1>4. PICK t \in Nat : t = taken
  BY <1>2
<1>5. CASE n \in Pieces /\ n < Unread
  <2>1. n \in Nat \ {0}
    BY <1>5, ClientAssumption
  <2>2. n < e - t /\ t <= e
    BY <1>2, <1>4, <1>5
  <2>3. t + n <= e
    BY <2>1, <2>2
  <2> QED BY <1>1, <1>4, <2>1, <2>3
<1>6. CASE n = Unread /\ n # 0
  <2>1. n = e - t /\ n # 0 /\ t <= e
    BY <1>2, <1>4, <1>6
  <2>2. n \in Nat /\ n > 0 /\ t + n = e
    BY <2>1
  <2>3. t + n <= e
    BY <2>2
  <2> QED BY <1>1, <1>4, <2>2, <2>3
<1> QED
  BY <1>3, <1>5, <1>6

LEMMA ReadStep ==
  ASSUME SessionInv, SessionInv', AskedOK, ReadOK, [ClientNext]_clientVars
  PROVE  ReadOK'
<1>0. /\ Tool \in Clients /\ out[Tool] \in Seq(Sent) /\ out'[Tool] \in Seq(Sent) /\ DOMAIN out = Clients
  BY ClientAssumption DEF SessionInv
<1>1. PICK s \in Seq(Sent) : s = out[Tool]
  BY <1>0
<1>2. ASSUME UNCHANGED <<taken, shown>>, place' = place \/ place' \notin {"request", "response"}
      PROVE  ReadOK'
  <2>1. PICK t \in Nat : t = taken
    BY DEF ReadOK
  <2>2. /\ place' \in {"request", "response"} => taken' > 0
        /\ shown' \in Seq(Seq(Replies))
    BY <1>2 DEF ReadOK
  <2>3. CASE out'[Tool] = s
    BY <1>1, <1>2, <2>2, <2>3 DEF ReadOK, Start
  <2>4. CASE \E x : out'[Tool] = Append(s, x)
    <3>1. PICK x : out'[Tool] = Append(s, x)
      BY <2>4
    <3>2. x \in Sent /\ Len(Append(s, x)) = Len(s) + 1 /\ Len(s) \in Nat
      <4>1. Len(s) \in Nat /\ Len(Append(s, x)) = Len(s) + 1 /\ Append(s, x)[Len(s) + 1] = x
        BY LenProperties
      <4>2. Append(s, x) \in Seq(Sent) /\ Len(s) + 1 \in 1..Len(Append(s, x))
        BY <1>0, <3>1, <4>1
      <4>3. Append(s, x)[Len(s) + 1] \in Sent
        BY <4>2, ElementOfSeq
      <4> QED BY <4>1, <4>3
    <3>3. PICK u \in Seq(Sent) : u = Append(s, x)
      BY <1>0, <3>1
    <3>4. t <= Starts(u)[Len(u) + 1]
      <4>1. t <= Starts(s)[Len(s) + 1]
        BY <1>1, <2>1 DEF ReadOK, Start
      <4>2. /\ Len(s) + 1 \in 1..(Len(u) + 1) /\ Len(u) + 1 \in (Len(s) + 1)..(Len(u) + 1)
            /\ Len(s) + 1 \in 1..(Len(s) + 1) /\ Len(u) + 1 \in 1..(Len(u) + 1)
        BY <3>2, <3>3
      <4>3. Starts(u)[Len(s) + 1] = Starts(s)[Len(s) + 1]
        BY <3>2, <3>3, <4>2, StartsGrow
      <4>4. Starts(u)[Len(s) + 1] <= Starts(u)[Len(u) + 1]
        BY <4>2, StartsOrder
      <4>5. Starts(u)[Len(s) + 1] \in Nat /\ Starts(u)[Len(u) + 1] \in Nat
        BY <4>2, StartsAre
      <4> QED BY <4>1, <4>3, <4>4, <4>5
    <3>5. Len(shown) \in Nat
      BY LenProperties DEF ReadOK
    <3>6. (\A k \in DOMAIN shown : shown[k] # <<>>) => Past(u, Len(shown), t)
      BY <1>1, <2>1, <3>2, <3>3, <3>5, PastKept DEF ReadOK
    <3>7. out'[Tool] = u /\ taken' = t /\ shown' = shown
      BY <1>2, <2>1, <3>1, <3>3
    <3> QED BY <2>1, <2>2, <3>4, <3>6, <3>7, Zenon DEF ReadOK, Start
  <2> QED BY <1>0, <1>1, <2>3, <2>4, ToolIsTester, OutGrows
<1>3. CASE \/ Gateway \/ (Sigint /\ UNCHANGED toolVars) \/ Others \/ Delivery \/ Hangup
           \/ UNCHANGED clientVars
  BY <1>2, <1>3 DEF Gateway, Others, Delivery, Hangup, toolVars, clientVars
<1>4. CASE ToolConnect \/ ToolRefused \/ SendActivation \/ Close
  BY <1>2, <1>4 DEF ToolConnect, ToolRefused, SendActivation, Close
<1>5. CASE SendRequest
  <2>1. place = "request" /\ place' = "response" /\ UNCHANGED <<taken, shown>> /\ out' = out
    BY <1>5 DEF SendRequest, SendMsg, Network
  <2> QED BY <2>1 DEF ReadOK, Start
<1>6. CASE RecvActivation
  <2>1. PICK n \in RecvSizes : taken' = taken + n
    BY <1>6 DEF RecvActivation
  <2>2. out' = out /\ shown' = shown
    BY <1>6 DEF RecvActivation, vars, doipVars
  <2>3. PICK t \in Nat : t = taken
    BY DEF ReadOK
  <2>4. n \in Nat /\ n > 0 /\ t + n <= Start(Len(out[Tool]) + 1)
    BY <1>0, <2>3, RecvBound
  <2>5. Past(s, Len(shown), t) => Past(s, Len(shown), t + n)
    <3>1. ASSUME NEW j \in 1..Len(s), Starts(s)[j + 1] <= t PROVE Starts(s)[j + 1] <= t + n
      <4>1. j + 1 \in 1..(Len(s) + 1)
        BY LenProperties
      <4>2. Starts(s)[j + 1] \in Nat
        BY <4>1, StartsAre
      <4> QED BY <2>4, <3>1, <4>2
    <3> QED BY <3>1, Zenon DEF Past
  <2>6. taken' = t + n /\ t + n \in Nat /\ t + n > 0
    BY <2>1, <2>3, <2>4
  <2>7. t + n <= Start(Len(out[Tool]) + 1)'
    BY <2>2, <2>4 DEF Start
  <2>8. (\A k \in DOMAIN shown : shown[k] # <<>>) => Past(out[Tool], Len(shown), taken)'
    <3>1. Past(out[Tool], Len(shown), taken)' = Past(s, Len(shown), t + n)
      BY <1>1, <2>2, <2>6 DEF Past
    <3> QED BY <1>1, <2>3, <2>5, <3>1 DEF ReadOK
  <2>9. shown \in Seq(Seq(Replies))
    BY DEF ReadOK
  <2>10. /\ taken' \in Nat /\ taken' <= Start(Len(out[Tool]) + 1)'
         /\ place' \in {"request", "response"} => taken' > 0
    BY <2>6, <2>7
  <2> QED BY <2>2, <2>8, <2>9, <2>10, Zenon DEF ReadOK
<1>7. CASE RecvResponse
  <2>1. PICK n \in RecvSizes : taken' = taken + n /\ shown' = Append(shown, Displayed(n))
    BY <1>7 DEF RecvResponse
  <2>2. out' = out /\ place = "response" /\ place' = "request"
    BY <1>7 DEF RecvResponse, vars, doipVars
  <2>3. PICK t \in Nat : t = taken /\ t > 0
    BY <2>2 DEF ReadOK
  <2>4. n \in Nat /\ n > 0 /\ t + n <= Start(Len(out[Tool]) + 1)
    BY <1>0, <2>3, RecvBound
  <2>5. PICK d \in Seq(Replies) : d = Displayed(n)
    BY <1>0, DisplayedType
  <2>6. PICK h \in Seq(Seq(Replies)) : h = shown
    BY DEF ReadOK
  <2>7. PICK g \in Seq(Seq(Replies)) : g = Append(h, d)
    BY AppendProperties
  <2>8. /\ Len(h) \in Nat /\ Len(g) = Len(h) + 1 /\ g[Len(h) + 1] = d
        /\ \A k \in 1..Len(h) : g[k] = h[k]
        /\ DOMAIN h = 1..Len(h) /\ DOMAIN g = 1..Len(g)
    BY <2>7, LenProperties, AppendProperties
  <2>9. ASSUME \A k \in DOMAIN g : g[k] # <<>> PROVE Past(s, Len(g), t + n)
    <3>1. Len(h) + 1 \in DOMAIN g /\ \A k \in DOMAIN h : k \in DOMAIN g
      BY <2>8
    <3>2. d # <<>> /\ \A k \in DOMAIN h : h[k] # <<>>
      BY <2>8, <2>9, <3>1
    <3>3. Past(s, Len(h), t)
      BY <1>1, <2>3, <2>6, <3>2 DEF ReadOK
    <3>4. PICK i \in 1..Len(s) : s[i].sent = "whole" /\ Starts(s)[i] = t /\ Took(s[i]) <= n
      BY <1>0, <1>1, <2>3, <2>5, <3>2, DisplayedType DEF Start
    <3> QED BY <2>3, <2>4, <2>8, <3>3, <3>4, PastNext
  <2>10. taken' = t + n /\ shown' = g /\ out'[Tool] = s
    BY <1>1, <2>1, <2>2, <2>3, <2>5, <2>6, <2>7
  <2>11. t + n \in Nat /\ t + n > 0 /\ t + n <= Start(Len(out[Tool]) + 1)'
    BY <2>2, <2>3, <2>4 DEF Start
  <2> QED BY <2>9, <2>10, <2>11, Zenon DEF ReadOK
<1>8. CASE ServerGone
  <2>1. out' = out /\ taken' = taken
    BY <1>8 DEF ServerGone, vars, doipVars
  <2>2. \/ UNCHANGED shown /\ place' = "response" /\ place = "request"
        \/ UNCHANGED shown /\ place' \notin {"request", "response"}
        \/ shown' = Append(shown, <<>>) /\ place = "response" /\ place' = "request"
    BY <1>8 DEF ServerGone
  <2>3. CASE UNCHANGED shown
    BY <2>1, <2>2, <2>3 DEF ReadOK, Start
  <2>4. CASE shown' = Append(shown, <<>>) /\ place = "response" /\ place' = "request"
    <3>1. PICK h \in Seq(Seq(Replies)) : h = shown
      BY DEF ReadOK
    <3>2. PICK g \in Seq(Seq(Replies)) : g = Append(h, <<>>)
      <4>1. <<>> \in Seq(Replies)
        BY EmptySeq
      <4> QED BY <4>1, AppendProperties
    <3>3. Len(h) + 1 \in DOMAIN g /\ g[Len(h) + 1] = <<>>
      BY <3>2, LenProperties, AppendProperties
    <3>4. shown' = g /\ ~(\A k \in DOMAIN g : g[k] # <<>>)
      BY <2>4, <3>1, <3>2, <3>3
    <3>5. /\ taken' \in Nat /\ taken' <= Start(Len(out[Tool]) + 1)' /\ taken' > 0
      BY <2>1, <2>4 DEF ReadOK, Start
    <3> QED BY <3>4, <3>5, Zenon DEF ReadOK
  <2> QED BY <2>2, <2>3, <2>4
<1> QED
  BY <1>3, <1>4, <1>5, <1>6, <1>7, <1>8, Zenon DEF ClientNext, ToolStep

LEMMA HalfAtLeast ==
  ASSUME SessionInv, ToolStream, Answered, ReadOK
  PROVE  NeverFarAhead
<1> SUFFICES ASSUME \A k \in DOMAIN shown : shown[k] # <<>>
             PROVE  Len(shown) <= 2 * Diagnosed
  BY DEF NeverFarAhead
<1>1. Tool \in Clients /\ out[Tool] \in Seq(Sent)
  BY ClientAssumption DEF SessionInv
<1>2. PICK k \in Nat : k = Len(shown)
  BY LenProperties DEF ReadOK
<1>3. PICK d \in Nat : d = Diagnosed
  BY AnsweredCounts
<1>4. Past(out[Tool], k, taken)
  BY <1>2 DEF ReadOK
<1>5. CASE k = 0
  BY <1>2, <1>3, <1>5
<1>6. CASE k # 0
  <2>1. PICK j \in 1..Len(out[Tool]) : j > k
    BY <1>4, <1>6 DEF Past
  <2>2. Len(out[Tool]) \in Nat /\ out[Tool] # <<>>
    BY <1>1, <2>1, LenProperties
  <2>3. Len(out[Tool]) <= 2 * d + 1
    BY <1>3, <2>2, AnsweredCounts
  <2>4. k <= 2 * d
    BY <2>1, <2>2, <2>3
  <2> QED BY <1>2, <1>3, <2>4
<1> QED
  BY <1>5, <1>6

-----------------------------------------------------------------------------
ClientInv == SessionInv /\ AskedOK /\ ToolStream /\ Answered /\ ReadOK

LEMMA ClientStarts == ClientInit => ClientInv
<1> SUFFICES ASSUME ClientInit PROVE ClientInv
  OBVIOUS
<1>1. Init /\ place = "connect" /\ asked = 0 /\ taken = 0 /\ shown = <<>> /\ Tool \in Clients
  BY ClientAssumption DEF ClientInit
<1>2. SessionInv
  BY <1>1, SessionInit
<1>3. AskedOK
  BY <1>1, ClientAssumption DEF AskedOK
<1>4. /\ tcp[Tool].stream = <<>> /\ tcp[Tool].phase = "new"
      /\ seen[Tool] = <<>> /\ out[Tool] = <<>> /\ step = "none"
  BY <1>1 DEF Init
<1>5. ToolStream
  BY <1>1, <1>4 DEF ToolStream
<1>6. Answered
  BY <1>4 DEF Answered, OwedTo
<1>7. ReadOK
  <2>1. Starts(<<>>)[1] = 0
    <3>1. <<>> \in Seq(Sent)
      BY EmptySeq
    <3> QED BY <3>1, StartsAre
  <2>2. 0 <= Start(Len(out[Tool]) + 1)
    BY <1>4, <2>1 DEF Start
  <2> QED BY <1>1, <2>2 DEF ReadOK, Past
<1> QED
  BY <1>2, <1>3, <1>5, <1>6, <1>7 DEF ClientInv

LEMMA ClientKeeps ==
  ASSUME ClientInv, [ClientNext]_clientVars
  PROVE  ClientInv' /\ [Next]_vars
<1>1. [Next]_vars /\ AskedOK'
  BY ToolIsTester, AskedKept DEF ClientInv
<1>2. SessionNext /\ SessionInv'
  BY <1>1, SessionStep DEF ClientInv
<1>3. ToolStream'
  BY ToolStreamStep DEF ClientInv
<1>4. Answered'
  BY <1>2, AnsweredStep DEF ClientInv
<1>5. ReadOK'
  BY <1>2, ReadStep DEF ClientInv
<1> QED
  BY <1>1, <1>2, <1>3, <1>4, <1>5 DEF ClientInv

(***************************************************************************)
(* doip_client and the gateway together are a run of DoIpServer, so all    *)
(* that is proved of the server holds while it talks to the tool.          *)
(***************************************************************************)
THEOREM ToolRunsOnServer == ClientSpec => Spec
<1>1. ClientInit => ClientInv /\ Init
  BY ClientStarts DEF ClientInit
<1>2. ClientInv /\ [ClientNext]_clientVars => ClientInv' /\ [Next]_vars
  BY ClientKeeps
<1> QED
  BY <1>1, <1>2, PTL DEF ClientSpec, Spec

(***************************************************************************)
(* For every list of requests, whatever the other testers send and however *)
(* the bytes are cut up, each message of the tool that the server has      *)
(* handled was answered, a request twice (handle_diagnostic_message).      *)
(***************************************************************************)
THEOREM RequestsAlwaysAnswered == ClientSpec => []EveryRequestAnswered
<1>1. ClientInit => ClientInv
  BY ClientStarts
<1>2. ClientInv /\ [ClientNext]_clientVars => ClientInv'
  BY ClientKeeps
<1>3. ClientInv => EveryRequestAnswered
  BY AnsweredCounts DEF ClientInv
<1> QED
  BY <1>1, <1>2, <1>3, PTL DEF ClientSpec

(***************************************************************************)
(* However recv() cuts the replies up, the tool gets ahead of the server   *)
(* by half of its requests at most (send_uds).                             *)
(***************************************************************************)
THEOREM ToolNeverFarAhead == ClientSpec => []NeverFarAhead
<1>1. ClientInit => ClientInv
  BY ClientStarts
<1>2. ClientInv /\ [ClientNext]_clientVars => ClientInv'
  BY ClientKeeps
<1>3. ClientInv => NeverFarAhead
  BY HalfAtLeast DEF ClientInv
<1> QED
  BY <1>1, <1>2, <1>3, PTL DEF ClientSpec
=============================================================================
