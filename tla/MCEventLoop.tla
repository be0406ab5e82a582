---------------------------- MODULE MCEventLoop ----------------------------
(***************************************************************************)
(* EventLoop for TLC: one or two static descriptors (the listener and the  *)
(* CAN socket), and reusable client descriptors.                           *)
(***************************************************************************)
EXTENDS EventLoop
=============================================================================
