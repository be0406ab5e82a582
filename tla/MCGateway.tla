----------------------------- MODULE MCGateway -----------------------------
(***************************************************************************)
(* What happens between the loop and the network, for TLC: MCSequential    *)
(* with one more part,                                                     *)
(*   can       CanPipeline, over every mix of frames, subscriptions,       *)
(*             ticks and SIGINT                                            *)
(***************************************************************************)
EXTENDS MCSequential, MCCanPipeline

OnlyCan ==
  /\ part = "can" /\ StartInit /\ BenchInit
  /\ req = <<>> /\ probe = <<>> /\ drive = <<>>

GatewayInit == CanInit /\ (Init \/ OnlyCan)

GatewayNext ==
  \/ Next /\ UNCHANGED canVars
  \/ part = "can" /\ CanNext /\ UNCHANGED vars

GatewaySpec == GatewayInit /\ [][GatewayNext]_<<vars, canVars>>
=============================================================================
