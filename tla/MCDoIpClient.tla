---------------------------- MODULE MCDoIpClient ----------------------------
(***************************************************************************)
(* DoIpClient for TLC.  The header is 2 bytes; the requests are the first  *)
(* ones of main(), and the second tester only connects and leaves.         *)
(***************************************************************************)
EXTENDS DoIpClient

AllRequests == << <<16, 3>>, <<25, 2, 255>>, <<34, 241, 144>>, <<34, 241, 140>>,
                  <<34, 241, 135>>, <<17, 1>> >>
TwoRequests == SubSeq(AllRequests, 1, 2)
ToolMsgs    == {routing_msg} \cup {diag_msg(AllRequests[k]) : k \in DOMAIN AllRequests}
=============================================================================
