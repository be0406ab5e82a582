---------------------------- MODULE DoIpMessages ----------------------------
(***************************************************************************)
(* DoIP messages (src/src/doip/doip_message.hpp, doip_message.cpp) and the *)
(* replies doip_server.cpp builds.  A request is what its bytes say: the   *)
(* payload type and payload_length of its header, and the addresses and    *)
(* UDS bytes of its payload as far as the payload is long enough to hold   *)
(* them.  Payload types keep their names instead of their 16-bit codes.    *)
(***************************************************************************)
EXTENDS UdsHandler

CONSTANT DOIP_HEADER_SIZE   \* 8 in the code
ASSUME HeaderAssumption == DOIP_HEADER_SIZE \in Nat \ {0}

DOIP_ECU_ADDRESS == 1

PayloadTypes == {"ROUTING_ACTIVATION_REQ", "DIAGNOSTIC_MESSAGE", "ALIVE_CHECK_REQ", "unknown"}

(***************************************************************************)
(* total, in on_client_data.  Messages are taken to be so short that the   *)
(* sum does not wrap, also where size_t has 32 bits.                       *)
(***************************************************************************)
Total(m) == DOIP_HEADER_SIZE + m.len

-----------------------------------------------------------------------------
\* make_doip_message: a reply is its payload type and the fields of its payload
make_doip_message(type, payload) == [type |-> type, payload |-> payload]

RoutingActivationRes(m) ==                       \* res[9]; the code is DOIP_ROUTING_OK
  make_doip_message("ROUTING_ACTIVATION_RES", [tester |-> m.src, ecu |-> DOIP_ECU_ADDRESS])

AliveCheckRes ==
  make_doip_message("ALIVE_CHECK_RES", [ecu |-> DOIP_ECU_ADDRESS])

DiagnosticAck(m) ==                              \* ack[5]; the code is DOIP_ACK_OK
  make_doip_message("DIAGNOSTIC_ACK", [src |-> m.src, tgt |-> m.tgt])

DiagnosticRes(m) ==                              \* addresses swapped
  make_doip_message("DIAGNOSTIC_MESSAGE",
                    [src |-> m.tgt, tgt |-> m.src, uds |-> handle(m.uds)])
=============================================================================
