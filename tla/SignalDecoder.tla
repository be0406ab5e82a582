--------------------------- MODULE SignalDecoder ---------------------------
(***************************************************************************)
(* SignalDecoder (src/src/can/signal_decoder.cpp): from the bytes of a CAN *)
(* frame to physical values, and the encoder at the other end of the bus,  *)
(* src/tools/can_simulator.cpp.                                            *)
(*                                                                         *)
(* A frame's data has eight bytes in the code, and as many bits as the     *)
(* uint64_t in which a signal is assembled.  Both are Len(data) bytes      *)
(* here, so that TLC can check every position and length on a frame of two *)
(* bytes.  Scales, offsets and limits are integers: the rounding of        *)
(* doubles is left out.                                                    *)
(*                                                                         *)
(* A name with an underscore suffix is a faulty variant of the definition  *)
(* that follows it; see the README.                                        *)
(***************************************************************************)
EXTENDS Integers, Sequences

Bits(data) == 8 * Len(data)

pow2[i \in Nat] == IF i = 0 THEN 1 ELSE 2 * pow2[i - 1]      \* 1 << i

Bit(data, pos) == (data[pos \div 8 + 1] \div pow2[pos % 8]) % 2

(***************************************************************************)
(* extract_bits: the loop over i.  bit_pos is a uint8_t; the signal is cut *)
(* off at the end of the frame.  The byte order of the signal is not asked *)
(* for.                                                                    *)
(***************************************************************************)
extract_bits(data, start_bit, length) ==
  LET from[i \in 0..length] ==
        LET bit_pos == (start_bit + i) % 256 IN
          IF i = length \/ bit_pos >= Bits(data) THEN 0
          ELSE Bit(data, bit_pos) * pow2[i] + from[i + 1]
  IN from[0]

(***************************************************************************)
(* Step 2.  The cast to int64_t changes only a value that fills the word.  *)
(* With length 0 the shift that makes sign_bit is undefined, and raw is 0: *)
(* the test fails whatever sign_bit is.                                    *)
(***************************************************************************)
raw_signed_Short(data, sig) ==
  LET raw == extract_bits(data, sig.start_bit, sig.length) IN
    IF sig.is_signed /\ sig.length \in 2..(Bits(data) - 1) /\ raw \div pow2[sig.length - 2] >= 1
      THEN raw - pow2[sig.length] ELSE raw

raw_signed(data, sig) ==
  LET raw == extract_bits(data, sig.start_bit, sig.length)
      n   == IF sig.length < Bits(data) THEN sig.length ELSE Bits(data)
  IN IF /\ sig.is_signed \/ n = Bits(data)
        /\ n > 0 /\ raw \div pow2[n - 1] = 1
       THEN raw - pow2[n] ELSE raw

clamp(lo, hi, v) ==                     \* std::max(lo, std::min(hi, v))
  LET below == IF hi < v THEN hi ELSE v IN IF lo < below THEN below ELSE lo

decode(data, sig) ==                    \* one result of SignalDecoder::decode
  clamp(sig.min_val, sig.max_val, raw_signed(data, sig) * sig.scale + sig.offset)

-----------------------------------------------------------------------------
(***************************************************************************)
(* can_simulator: pack_u16, and the data of its three frames.  A value     *)
(* divided by the scale is cut to an integer of 8 or 16 bits.  Values are  *)
(* in thousandths of their unit (ThrottlePos in 10^-6, its scale being     *)
(* 0.392157).                                                              *)
(***************************************************************************)
pack_u16_BigEndian(data, byte_offset, value) ==
  [data EXCEPT ![byte_offset + 2] = value % 256, ![byte_offset + 1] = (value \div 256) % 256]

pack_u16(data, byte_offset, value) ==
  [data EXCEPT ![byte_offset + 1] = value % 256, ![byte_offset + 2] = (value \div 256) % 256]

NoData == [i \in 1..8 |-> 0]

engine_frame(rpm, temp, throttle) ==    \* can_id 291
  [pack_u16(NoData, 0, (rpm \div 250) % 65536) EXCEPT
     ![3] = ((temp + 40000) \div 750) % 256, ![4] = (throttle \div 392157) % 256]

speed_frame(speed) ==                   \* can_id 292; the wheels differ by 1 km/h
  pack_u16(pack_u16(pack_u16(NoData, 0, (speed \div 10) % 65536),
                    2, ((speed + 1000) \div 10) % 65536),
           4, ((speed - 1000) \div 10) % 65536)

brake_frame(pressure, braking) ==       \* can_id 293
  [NoData EXCEPT ![1] = (pressure \div 1000) % 256, ![2] = IF braking THEN 1 ELSE 0]

(***************************************************************************)
(* The signals of config/vehicle.dbc, in the same units.                   *)
(***************************************************************************)
Sig(start_bit, length, scale, offset, min_val, max_val) ==
  [start_bit |-> start_bit, length |-> length, is_signed |-> FALSE, is_little_endian |-> TRUE,
   scale |-> scale, offset |-> offset, min_val |-> min_val, max_val |-> max_val]

EngineRPM     == Sig(0, 16, 250, 0, 0, 16383750)
EngineTemp    == Sig(16, 8, 750, -40000, -40000, 148750)
ThrottlePos   == Sig(24, 8, 392157, 0, 0, 100000000)
VehicleSpeed  == Sig(0, 16, 10, 0, 0, 655350)
WheelSpeed_FL == Sig(16, 16, 10, 0, 0, 655350)
WheelSpeed_FR == Sig(32, 16, 10, 0, 0, 655350)
BrakePressure == Sig(0, 8, 1000, 0, 0, 255000)
BrakeActive   == Sig(8, 1, 1, 0, 0, 1)

-----------------------------------------------------------------------------
(***************************************************************************)
(* The bytes from k on as one little-endian number; from 0, the frame.     *)
(***************************************************************************)
number(data) ==
  LET above[k \in 0..Len(data)] ==
        IF k = Len(data) THEN 0 ELSE data[k + 1] + 256 * above[k + 1]
  IN above[0]

(***************************************************************************)
(* Decoding is exact: the frame is one little-endian number, a signal is   *)
(* the bits of it that exist from its start bit on, a signed one is the    *)
(* number in two's complement that has those bits, and an unsigned one is  *)
(* those bits (extract_bits and steps 2 to 4 of decode).                   *)
(***************************************************************************)
DecodesExactly(data, sig) ==
  LET width == Bits(data)
      n == IF sig.length < width THEN sig.length ELSE width
      there == IF sig.start_bit >= width THEN 0
               ELSE (number(data) \div pow2[sig.start_bit]) % pow2[n]
      value == CHOOSE v \in {there, there - pow2[n]} :
                 IF sig.is_signed /\ n > 0
                   THEN -pow2[n - 1] <= v /\ v < pow2[n - 1] ELSE v = there
      physical == value * sig.scale + sig.offset
  IN decode(data, sig) = (IF physical < sig.min_val THEN sig.min_val
                          ELSE IF physical > sig.max_val THEN sig.max_val ELSE physical)

(***************************************************************************)
(* The signals of which that can be said.  Two kinds that SignalDef can    *)
(* describe are decoded wrongly: Motorola byte order is ignored, and an    *)
(* unsigned signal as long as the frame goes through int64_t and comes out *)
(* negative when its top bit is set.                                       *)
(***************************************************************************)
Decodable(data, sig) == sig.is_little_endian /\ (sig.is_signed \/ sig.length < Bits(data))

(***************************************************************************)
(* What the simulator drives the bus with is what the gateway reads from   *)
(* it, signal by signal, less than one step of the signal's scale below    *)
(* the value that was put in (the frames of can_simulator, vehicle.dbc and *)
(* decode).                                                                *)
(***************************************************************************)
ReadsBack(d) ==
  LET engine == engine_frame(d.rpm, d.temp, d.throttle)
      wheels == speed_frame(d.speed)
      pressure == IF d.braking THEN 40000 ELSE 0
      brake  == brake_frame(pressure, d.braking)
      Reads(data, sig, v) == decode(data, sig) \in (v - sig.scale + 1)..v
  IN /\ Reads(engine, EngineRPM, d.rpm) /\ Reads(engine, EngineTemp, d.temp)
     /\ Reads(engine, ThrottlePos, d.throttle)
     /\ Reads(wheels, VehicleSpeed, d.speed)
     /\ Reads(wheels, WheelSpeed_FL, d.speed + 1000)
     /\ Reads(wheels, WheelSpeed_FR, d.speed - 1000)
     /\ Reads(brake, BrakePressure, pressure)
     /\ Reads(brake, BrakeActive, IF d.braking THEN 1 ELSE 0)
=============================================================================
