---------------------------- MODULE MCSequential ----------------------------
(***************************************************************************)
(* The parts of the gateway that run without interleaving, for TLC.  They  *)
(* share no state; part says which of them a behaviour exercises:          *)
(*   files     Startup, over every pair of files of bounded length         *)
(*   bench     Benchmark, from an empty collector and from two that have   *)
(*             seen enough for the percentiles to differ from the maximum  *)
(*   uds       UdsHandler, over every request of bounded length            *)
(*   decode    SignalDecoder, over signals at every position and length of *)
(*             a frame of two bytes                                        *)
(*   simulate  the frames of can_simulator, decoded as vehicle.dbc says    *)
(***************************************************************************)
EXTENDS Startup, Benchmark, SignalDecoder, UdsHandler

CONSTANTS
  MaxLines,                    \* bound: lines of both files together
  Bytes, MaxLen,               \* requests
  MaxRecords,                  \* bound: latencies recorded
  DataBytes, Starts, Lengths   \* frames and signals

ASSUME InputAssumption ==
  /\ Bytes \subseteq 0..255 /\ DataBytes \subseteq 0..255
  /\ Starts \subseteq 0..255 /\ Lengths \subseteq 0..255      \* uint8_t all

VARIABLES
  part,
  req,       \* a UDS request
  probe,     \* a frame and a signal, when chosen
  drive      \* what the simulator computes, when chosen

vars == <<part, startVars, benchVars, req, probe, drive>>

\* the collector after n latencies of one event, all different for n <= 100
Warm(n) ==
  LET s == [i \in 1..n |-> (37 * i) % 101] IN
    /\ histograms = [e \in {"end_to_end"} |-> [samples |-> s, total_count |-> n]]
    /\ total_messages = n
    /\ log = [e \in EventNames |-> IF e = "end_to_end" THEN s ELSE <<>>]

Init ==
  /\ part \in {"files", "bench", "uds", "decode", "simulate"}
  /\ StartInit
  /\ BenchInit \/ (part = "bench" /\ (Warm(19) \/ Warm(99)))
  /\ req = <<>> /\ probe = <<>> /\ drive = <<>>

Files ==
  /\ part = "files" /\ StartNext
  /\ Len(conf') + Len(dbc') <= MaxLines
  /\ UNCHANGED <<part, benchVars, req, probe, drive>>

Bench ==
  /\ part = "bench" /\ total_messages \notin {MaxRecords, 19 + MaxRecords, 99 + MaxRecords}
  /\ BenchNext
  /\ UNCHANGED <<part, startVars, req, probe, drive>>

Request ==
  /\ part = "uds" /\ Len(req) < MaxLen /\ \E b \in Bytes : req' = Append(req, b)
  /\ UNCHANGED <<part, startVars, benchVars, probe, drive>>

ProbeSig(start, length, signed) ==
  [Sig(start, length, 3, -40, -1000, 50000) EXCEPT !.is_signed = signed]

Probe ==
  /\ part = "decode" /\ probe = <<>>
  /\ \E a, b \in DataBytes, start \in Starts, length \in Lengths, signed \in BOOLEAN :
       probe' = <<[data |-> <<a, b>>, sig |-> ProbeSig(start, length, signed)]>>
  /\ UNCHANGED <<part, startVars, benchVars, req, drive>>

Drives ==
  [rpm : {800000, 800249, 2400000, 3999999, 4000000}, temp : {80000, 80749, 90000},
   throttle : {5000000, 20000001, 35000000}, speed : {40000, 59999, 60005, 80000},
   braking : BOOLEAN]

Drive ==
  /\ part = "simulate" /\ drive = <<>>
  /\ \E d \in Drives : drive' = <<d>>
  /\ UNCHANGED <<part, startVars, benchVars, req, probe>>

Next == Files \/ Bench \/ Request \/ Probe \/ Drive

Spec == Init /\ [][Next]_vars

-----------------------------------------------------------------------------
(***************************************************************************)
(* A response can be matched with its request by the tester (ResponseMatch *)
(* of UdsHandler), for every request of bounded length.                    *)
(***************************************************************************)
ResponseMatchesRequest == ResponseMatch(req)

(***************************************************************************)
(* Decoding is exact (DecodesExactly of SignalDecoder) at every position   *)
(* and length, 0 and, for a signed signal, the whole frame included.       *)
(***************************************************************************)
DecodedExact ==
  \A i \in DOMAIN probe :
    Decodable(probe[i].data, probe[i].sig) => DecodesExactly(probe[i].data, probe[i].sig)

(***************************************************************************)
(* What the simulator drives the bus with is what the gateway reads from   *)
(* it (ReadsBack of SignalDecoder), at the ends of the ranges the          *)
(* simulator computes and between them.                                    *)
(***************************************************************************)
SimulatedIsDecoded == \A i \in DOMAIN drive : ReadsBack(drive[i])

-----------------------------------------------------------------------------
Bo(fault, id, length) == [kind |-> "BO_", fault |-> fault, id |-> id, length |-> length]
Sg(fault, name, start, length) ==
  [kind |-> "SG_", fault |-> fault, name |-> name, start_bit |-> start, length |-> length]
RouteLine(name, service, method) ==
  [kind |-> "route", name |-> name, service |-> service, method |-> method]

MCConfLines ==
  {[kind |-> "skip"], [kind |-> "bad"], RouteLine("RPM", 257, 32769),
   RouteLine("RPM", 65794, 32770), RouteLine("Temp", 257, 32770)}
MCDbcLines ==
  {[kind |-> "blank"], [kind |-> "other"],
   Bo("none", 291, 8), Bo("none", 292, 264), Bo("words", 293, 8),
   Sg("none", "RPM", 0, 16), Sg("none", "Temp", 272, 300), Sg("range_info", "Bad", 0, 8)}
MCEventNames == {"dbc_lookup", "end_to_end"}
=============================================================================
