----------------------------- MODULE MCSomeIpSd -----------------------------
(***************************************************************************)
(* SomeIpSd for TLC.  The other stack sends subscribe entries: in an array *)
(* that ends before the last of them; on either side of the end of the     *)
(* receive buffer, in an array that claims more than the datagram has; and *)
(* in an array whose claimed length wraps.  To the data group it sends a   *)
(* notification of its own.                                                *)
(***************************************************************************)
EXTENDS SomeIpSd

MCServices == <<257, 258, 259>>

MCRoutes == [s \in {"EngineRPM", "BrakeActive"} |->
               IF s = "EngineRPM" THEN <<257, 32769>> ELSE <<259, 32770>>]

MCValues == {<<64, 73, 15, 219>>}

To(addr, m) == [to |-> addr, len |-> m.len, at |-> m.at]

Subscribe(service, group) == Entry(SD_ENTRY_SUBSCRIBE_EVENTGRP, service, group)

Find == Entry(SD_ENTRY_FIND_SERVICE, 257, 0)

ThreeEntries == serialize(<<Find, Subscribe(257, 1), Subscribe(258, 2)>>, 0, 1)

Claims(m, length) == [m EXCEPT !.at = [@ EXCEPT ![20] = length]]

ShortArray == Claims(ThreeEntries, 32)

TooLong == Claims(serialize(<<Subscribe(257, 3), Subscribe(259, 3), Find, Find, Find,
                              Subscribe(258, 3)>>, 0, 1), 112)

Wraps == Claims(ThreeEntries, SIZE_MOD - 8)

Foreign == NotificationDatagram(<<257, 32769>>, <<1, 2, 3, 4>>, 1)

MCPeerDatagrams ==
  {To(SdGroup, ShortArray), To(SdAddr, TooLong), To(SdAddr, Wraps), To(DataGroup, Foreign)}
=============================================================================
