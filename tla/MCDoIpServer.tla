---------------------------- MODULE MCDoIpServer ----------------------------
(***************************************************************************)
(* DoIpServer for TLC.  The header is 2 bytes and recv_buf 8, so that a    *)
(* message of 8 bytes fits exactly and one of 9 does not; payload lengths  *)
(* sit on both sides of the limits 2 and 4 of the handlers.                *)
(*                                                                         *)
(* A behaviour keeps to one of two scenarios, which together are small     *)
(* enough to be explored and each of which is hard in its own way:         *)
(*   stream   one tester, every kind of message, two of them in pieces of  *)
(*            any size, replies that do not fit its window                 *)
(*   reuse    two testers that come and go on two descriptors, each with   *)
(*            one message that arrives whole                               *)
(***************************************************************************)
EXTENDS DoIpServer

Msg(type, len, src, uds) == [type |-> type, len |-> len, src |-> src, tgt |-> 1, uds |-> uds]

Activation      == Msg("ROUTING_ACTIVATION_REQ", 2, 14, <<>>)
ShortActivation == Msg("ROUTING_ACTIVATION_REQ", 1, 0, <<>>)
Session         == Msg("DIAGNOSTIC_MESSAGE", 6, 14, <<16, 3>>)
NoUds           == Msg("DIAGNOSTIC_MESSAGE", 4, 14, <<>>)
ShortDiagnostic == Msg("DIAGNOSTIC_MESSAGE", 3, 14, <<>>)
TooLong         == Msg("DIAGNOSTIC_MESSAGE", 7, 14, <<16, 3, 0>>)
Alive           == Msg("ALIVE_CHECK_REQ", 0, 0, <<>>)
Unknown         == Msg("unknown", 1, 0, <<>>)

AllMsgs    == {Activation, ShortActivation, Session, NoUds, ShortDiagnostic, TooLong,
               Alive, Unknown}
ReuseMsgs  == {Activation, NoUds}

CONSTANTS SecondFd, SecondClient    \* not used by the stream scenario

VARIABLE scenario

mcVars == <<vars, scenario>>

Whole(c) ==
  /\ tcp[c].arr \in {0, StreamEnd(tcp[c].stream)}
  /\ tcp[c].peer = "up" => \A i \in DOMAIN out[c] : out[c][i].sent = "whole"

Stays ==
  IF scenario = "stream" THEN SecondFd \notin open /\ tcp[SecondClient].phase = "new"
  ELSE \A c \in Clients :
         /\ Len(tcp[c].stream) <= 1 /\ \A i \in DOMAIN tcp[c].stream : tcp[c].stream[i].msg \in ReuseMsgs
         /\ Whole(c)

MCInit == Init /\ scenario \in {"stream", "reuse"}

MCNext == Next /\ UNCHANGED scenario /\ Stays'

MCSpec == MCInit /\ [][MCNext]_mcVars
=============================================================================
