----------------------------- MODULE UdsHandler -----------------------------
(***************************************************************************)
(* UdsHandler (src/src/doip/uds_handler.hpp, uds_handler.cpp): a stateless *)
(* map from the bytes of a request to a response.  A response is the bytes *)
(* that depend on the request, and the name of the stored data appended to *)
(* them; the text of the VIN, serial number, version and trouble codes is  *)
(* not spelled out.                                                        *)
(*                                                                         *)
(* A name with an underscore suffix is a faulty variant of the definition  *)
(* that follows it; see the README.                                        *)
(***************************************************************************)
EXTENDS Naturals, Sequences

UDS_SESSION_CONTROL   == 16    \* 0x10
UDS_ECU_RESET         == 17    \* 0x11
UDS_READ_DTC          == 25    \* 0x19
UDS_READ_DATA_BY_ID   == 34    \* 0x22
UDS_NEGATIVE_RESPONSE == 127   \* 0x7F

UDS_NRC_SERVICE_NOT_SUPPORTED == 17   \* 0x11
UDS_NRC_REQUEST_OUT_OF_RANGE  == 49   \* 0x31

NumDtcs == 3                          \* dtcs_.size() after the constructor

Response(b, d) == [bytes |-> b, data |-> d]

negative_response(service_id, nrc) ==
  Response(<<UDS_NEGATIVE_RESPONSE, service_id, nrc>>, "none")

handle_session_control(req) ==
  IF Len(req) < 2 THEN negative_response(UDS_SESSION_CONTROL, UDS_NRC_REQUEST_OUT_OF_RANGE)
  ELSE Response(<<80, req[2]>>, "none")                       \* 0x50

handle_read_dtc(req) ==
  IF Len(req) < 2 THEN negative_response(UDS_READ_DTC, UDS_NRC_REQUEST_OUT_OF_RANGE)
  ELSE Response(<<89, req[2], 255, 9, 0, NumDtcs>>, "dtcs")   \* 0x59

StoredData(did) ==
  CASE did = <<241, 144>> -> "VIN"                            \* 0xF190
    [] did = <<241, 140>> -> "serial"                         \* 0xF18C
    [] did = <<241, 135>> -> "version"                        \* 0xF187
    [] OTHER -> "none"

handle_read_data_by_id_NoNegative(req) ==
  IF Len(req) < 3 THEN negative_response(UDS_READ_DATA_BY_ID, UDS_NRC_REQUEST_OUT_OF_RANGE)
  ELSE Response(<<98, req[2], req[3]>>, StoredData(<<req[2], req[3]>>))

handle_read_data_by_id(req) ==
  IF Len(req) < 3 \/ StoredData(<<req[2], req[3]>>) = "none"
    THEN negative_response(UDS_READ_DATA_BY_ID, UDS_NRC_REQUEST_OUT_OF_RANGE)
    ELSE Response(<<98, req[2], req[3]>>, StoredData(<<req[2], req[3]>>))  \* 0x62

handle_ecu_reset(req) ==
  IF Len(req) < 2 THEN negative_response(UDS_ECU_RESET, UDS_NRC_REQUEST_OUT_OF_RANGE)
  ELSE Response(<<81, req[2]>>, "none")                       \* 0x51

handle(req) ==
  IF Len(req) < 1 THEN negative_response(0, UDS_NRC_SERVICE_NOT_SUPPORTED)
  ELSE CASE req[1] = UDS_SESSION_CONTROL -> handle_session_control(req)
         [] req[1] = UDS_READ_DTC        -> handle_read_dtc(req)
         [] req[1] = UDS_READ_DATA_BY_ID -> handle_read_data_by_id(req)
         [] req[1] = UDS_ECU_RESET       -> handle_ecu_reset(req)
         [] OTHER -> negative_response(req[1], UDS_NRC_SERVICE_NOT_SUPPORTED)

-----------------------------------------------------------------------------
Supported == {UDS_SESSION_CONTROL, UDS_READ_DTC, UDS_READ_DATA_BY_ID, UDS_ECU_RESET}

(***************************************************************************)
(* A response can be matched with its request by the tester: a positive    *)
(* one starts with the service id plus 0x40 and repeats the sub-function   *)
(* or the data identifier, a negative one is 0x7F, the service id and a    *)
(* code.  A service is refused as unsupported only if it is; a positive    *)
(* data-by-id response always carries data (UdsHandler::handle and its     *)
(* four handlers).                                                         *)
(***************************************************************************)
ResponseMatch(req) ==
  LET r == handle(req)
      sid == IF req = <<>> THEN 0 ELSE req[1]
      keyLen == IF sid = UDS_READ_DATA_BY_ID THEN 2 ELSE 1
  IN \/ /\ r.bytes[1] = UDS_NEGATIVE_RESPONSE
        /\ Len(r.bytes) = 3 /\ r.bytes[2] = sid /\ r.data = "none"
        /\ r.bytes[3] = UDS_NRC_SERVICE_NOT_SUPPORTED <=> sid \notin Supported
     \/ /\ sid \in Supported /\ r.bytes[1] = sid + 64
        /\ Len(req) > keyLen
        /\ SubSeq(r.bytes, 2, keyLen + 1) = SubSeq(req, 2, keyLen + 1)
        /\ sid = UDS_READ_DATA_BY_ID => r.data # "none"
=============================================================================
