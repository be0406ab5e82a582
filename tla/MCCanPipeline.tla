--------------------------- MODULE MCCanPipeline ---------------------------
(***************************************************************************)
(* CanPipeline for TLC: two known messages, one of them with a signal that *)
(* has no route and the other sent with a flag above its identifier, and   *)
(* an identifier the DBC file does not have.  Identifiers have 3 bits, the *)
(* session counter wraps after 3 and the periods are 2 and 3 frames.       *)
(***************************************************************************)
EXTENDS CanPipeline

DbcSignals == [id \in {1, 2} |->
                 IF id = 1 THEN <<"rpm", "load", "temp">> ELSE <<"pressure">>]
BusIds     == {1, 8 + 2, 3}
RouteNames == {"rpm", "temp", "pressure"}
=============================================================================
