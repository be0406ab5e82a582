---------------------------- MODULE CanPipeline ----------------------------
(***************************************************************************)
(* The CAN to SOME/IP path: the callback main() gives to the CAN socket    *)
(* (src/src/main.cpp), with CanSocket::on_readable, the watchdog, the      *)
(* publisher's session counter, the benchmark counters and the periodic    *)
(* service discovery offer, whose session counter it shares with the       *)
(* acknowledgements of SomeIpSdService::on_readable.                       *)
(*                                                                         *)
(* The callback is cut where time can pass or SIGINT can strike with an    *)
(* effect: at every reading of the clock, and inside                       *)
(* BenchmarkCollector::record at every change it makes, because the SIGINT *)
(* handler prints a report from the same objects.  The loop around the     *)
(* callback is EventLoop; here it is the location "idle".                  *)
(*                                                                         *)
(* Signal values and latencies are left out; a frame is its can_id, flags  *)
(* included.  The statistics table that ends every tenth callback only     *)
(* reads.                                                                  *)
(*                                                                         *)
(* A name with an underscore suffix (OfferDue_Late) is a faulty variant of *)
(* the definition that follows it; see the README.                         *)
(***************************************************************************)
EXTENDS Integers, Sequences, SequencesExt

CONSTANTS
  Ids,               \* can_ids on the bus: an identifier and flags above it
  CAN_EFF,           \* CAN_EFF_MASK + 1: 2^29
  Signals,           \* DbcParser's table: signal names by known identifier
  Routes,            \* signal_map_: the signals of gateway.conf
  SESSION_MOD,       \* session_ is a uint16_t: 65536
  SD_OFFER_EVERY_N,  \* 100
  CHECK_EVERY,       \* 50: frames between calls of watchdog.check()
  SAMPLES_MAX,       \* max_samples_: 10000
  TIMEOUT,           \* timeout_us_, in ticks of the clock
  RX_QUEUE,          \* frames the kernel queues for the socket
  MaxEntries,        \* subscribe entries in one SD datagram
  MaxFrames,         \* bound: frames on the bus
  MaxSubs,           \* bound: subscriptions
  MaxTime            \* bound: ticks

ASSUME PipelineAssumption ==
  /\ Ids \subseteq Nat /\ CAN_EFF \in Nat \ {0} /\ SAMPLES_MAX \in Nat \ {0}
  /\ \A id \in DOMAIN Signals : Signals[id] \in Seq(STRING)
  /\ SESSION_MOD \in Nat \ {0} /\ SD_OFFER_EVERY_N \in Nat \ {0}
  /\ CHECK_EVERY \in Nat \ {0}
  /\ TIMEOUT \in Nat /\ RX_QUEUE \in Nat /\ MaxTime \in Nat
  /\ MaxEntries \in Nat /\ MaxFrames \in Nat /\ MaxSubs \in Nat

Stages == {"dbc_lookup", "signal_decode", "someip_publish", "end_to_end"}

VARIABLES
  pc,                \* place in the callback
  frame,             \* the frame in hand
  todo,              \* decoded signals still to be published
  rx,                \* kernel: receive queue of the CAN socket
  now,               \* CLOCK_MONOTONIC
  last_feed, fired,  \* Watchdog: last_feed_ns_, fired_
  session,           \* SomeIpPublisher::session_
  rows,              \* events that have a histogram in histograms_
  samples, count,    \* samples_.size() and total_count_ of each
  total,             \* BenchmarkCollector::total_messages_
  stage, rec,        \* the event record() was called for, and how far it is
  frame_count, last_offer_frame,
  sd_session,        \* SomeIpSdService::session_
  subscribers,       \* length of subscribers_
  bus,               \* history: frames sent on the bus
  handled,           \* history: known frames the callback has looked up
  sent,              \* history: notifications sent
  offers,            \* history: send_offers() calls, the one of main() included
  report             \* history: what the SIGINT handler printed, or <<>>

watchdog == <<last_feed, fired>>
bench == <<rows, samples, count, total, stage, rec>>
offering == <<frame_count, last_offer_frame, sd_session, subscribers, offers>>
canVars == <<pc, frame, todo, rx, now, watchdog, session, bench, offering, bus, handled, sent, report>>

CanInit ==
  /\ pc = "idle" /\ frame = <<>> /\ todo = <<>> /\ rx = <<>>
  /\ now = 1 /\ last_feed = 0 /\ fired = FALSE
  /\ session = 1 % SESSION_MOD
  /\ rows = {} /\ samples = [s \in Stages |-> 0] /\ count = [s \in Stages |-> 0]
  /\ total = 0 /\ stage = "end_to_end" /\ rec = "no"
  /\ frame_count = 0 /\ last_offer_frame = 0 /\ subscribers = 0
  /\ offers = 1 /\ sd_session = 2 % SESSION_MOD      \* main() has sent the first offer
  /\ bus = 0 /\ handled = <<>> /\ sent = <<>> /\ report = <<>>

-----------------------------------------------------------------------------
feed == last_feed' = now /\ fired' = FALSE

can_id(raw) == raw % CAN_EFF                    \* frame.can_id & CAN_EFF_MASK

(***************************************************************************)
(* on_readable: one frame per call; the callback begins with feed().       *)
(***************************************************************************)
OnReadable ==
  /\ pc = "idle" /\ rx # <<>>
  /\ frame' = <<can_id(Head(rx))>> /\ rx' = Tail(rx)
  /\ feed
  /\ pc' = "lookup"
  /\ UNCHANGED <<todo, now, session, bench, offering, bus, handled, sent, report>>

(***************************************************************************)
(* BenchmarkCollector::record: histograms_[event] is found or inserted,    *)
(* LatencyHistogram::record stores the sample while there is room and      *)
(* counts it, and total_messages_ goes up.                                 *)
(***************************************************************************)
CallRecord(event) ==
  /\ rec = "no" /\ rec' = IF event \in rows THEN "push" ELSE "insert"
  /\ stage' = event
  /\ UNCHANGED <<rows, samples, count, total>>

Insert ==                                       \* a new node, with no sample
  /\ rec = "insert" /\ rec' = "push"
  /\ rows' = rows \cup {stage}
  /\ UNCHANGED <<samples, count, total>>

PushBack ==
  /\ rec = "push" /\ rec' = "count"
  /\ samples' = [samples EXCEPT ![stage] = IF @ < SAMPLES_MAX THEN @ + 1 ELSE @]
  /\ UNCHANGED <<rows, count, total>>

CountSample ==                                  \* total_count_++
  /\ rec = "count" /\ rec' = "total"
  /\ count' = [count EXCEPT ![stage] = @ + 1]
  /\ UNCHANGED <<rows, samples, total>>

CountTotal ==                                   \* total_messages_++
  /\ rec = "total" /\ rec' = "no"
  /\ total' = total + 1
  /\ UNCHANGED <<rows, samples, count>>

RecordStep ==
  /\ Insert \/ PushBack \/ CountSample \/ CountTotal
  /\ UNCHANGED <<pc, frame, todo, rx, now, watchdog, session, stage, offering, bus,
                 handled, sent, report>>

Known(id) == id \in DOMAIN Signals

Unknown_Record ==
  /\ pc = "lookup" /\ ~Known(frame[1])
  /\ CallRecord("dbc_lookup")
  /\ pc' = "idle" /\ frame' = <<>>
  /\ UNCHANGED <<todo, rx, now, watchdog, session, offering, bus, handled, sent, report>>

Unknown ==                                      \* find_message returns null
  /\ pc = "lookup" /\ ~Known(frame[1])
  /\ pc' = "idle" /\ frame' = <<>>
  /\ UNCHANGED <<todo, rx, now, watchdog, session, bench, offering, bus, handled, sent, report>>

Lookup ==
  /\ pc = "lookup" /\ Known(frame[1])
  /\ CallRecord("dbc_lookup")
  /\ handled' = Append(handled, frame[1])
  /\ pc' = "decode"
  /\ UNCHANGED <<frame, todo, rx, now, watchdog, session, offering, bus, sent, report>>

Decode ==
  /\ pc = "decode"
  /\ todo' = Signals[frame[1]]                   \* one result per signal, in order
  /\ CallRecord("signal_decode")
  /\ pc' = "publish"
  /\ UNCHANGED <<frame, rx, now, watchdog, session, offering, bus, handled, sent, report>>

send_message(sig) ==                            \* a sendto that fails is only logged
  sent' = Append(sent, [signal |-> sig, session |-> session])

publish_Wide(sig) ==
  IF sig \in Routes THEN session' = session + 1 /\ send_message(sig)
  ELSE UNCHANGED <<session, sent>>

publish_Always(sig) ==
  /\ session' = (session + 1) % SESSION_MOD
  /\ IF sig \in Routes THEN send_message(sig) ELSE UNCHANGED sent

publish(sig) ==
  IF sig \in Routes THEN session' = (session + 1) % SESSION_MOD /\ send_message(sig)
  ELSE UNCHANGED <<session, sent>>

Publish ==
  /\ pc = "publish" /\ rec = "no" /\ todo # <<>>
  /\ publish(Head(todo))
  /\ todo' = Tail(todo)
  /\ UNCHANGED <<pc, frame, rx, now, watchdog, bench, offering, bus, handled, report>>

Published ==
  /\ pc = "publish" /\ todo = <<>>
  /\ CallRecord("someip_publish")
  /\ pc' = "published"
  /\ UNCHANGED <<frame, todo, rx, now, watchdog, session, offering, bus, handled, sent, report>>

EndToEnd ==
  /\ pc = "published"
  /\ CallRecord("end_to_end")
  /\ pc' = "count"
  /\ UNCHANGED <<frame, todo, rx, now, watchdog, session, offering, bus, handled, sent, report>>

Count ==
  /\ pc = "count" /\ rec = "no"
  /\ frame_count' = frame_count + 1
  /\ pc' = "check"
  /\ UNCHANGED <<frame, todo, rx, now, watchdog, session, bench, last_offer_frame,
                 sd_session, subscribers, offers, bus, handled, sent, report>>

(***************************************************************************)
(* Watchdog::check(), every CHECK_EVERY frames.                            *)
(***************************************************************************)
check == fired' = (fired \/ (last_feed # 0 /\ now - last_feed > TIMEOUT))

Check ==
  /\ pc = "check"
  /\ IF frame_count % CHECK_EVERY = 0 THEN check ELSE UNCHANGED fired
  /\ pc' = "offer"
  /\ UNCHANGED <<frame, todo, rx, now, last_feed, session, bench, offering, bus, handled,
                 sent, report>>

send_offers ==
  /\ offers' = offers + 1
  /\ sd_session' = (sd_session + 1) % SESSION_MOD

OfferDue_Late == frame_count - last_offer_frame > SD_OFFER_EVERY_N

OfferDue == frame_count - last_offer_frame >= SD_OFFER_EVERY_N

(***************************************************************************)
(* The periodic offer; the statistics table that may follow reads the      *)
(* counters and changes nothing.                                           *)
(***************************************************************************)
Offer ==
  /\ pc = "offer"
  /\ IF OfferDue THEN send_offers /\ last_offer_frame' = frame_count
                 ELSE UNCHANGED <<offers, sd_session, last_offer_frame>>
  /\ pc' = "idle" /\ frame' = <<>>
  /\ UNCHANGED <<todo, rx, now, watchdog, session, bench, frame_count, subscribers, bus, handled,
                 sent, report>>

(***************************************************************************)
(* SomeIpSdService::on_readable with a datagram that holds n subscribe     *)
(* entries: each is appended to subscribers_, known or not, and            *)
(* acknowledged.                                                           *)
(***************************************************************************)
Subscribe(n) ==
  /\ pc = "idle" /\ subscribers + n <= MaxSubs
  /\ subscribers' = subscribers + n
  /\ sd_session' = (sd_session + n) % SESSION_MOD
  /\ UNCHANGED <<pc, frame, todo, rx, now, watchdog, session, bench, frame_count,
                 last_offer_frame, offers, bus, handled, sent, report>>

-----------------------------------------------------------------------------
(***************************************************************************)
(* handle_sigint: print_table shows the histograms as they are now, and    *)
(* the table of the first SIGINT is kept.  While an insertion relinks the  *)
(* map, the walk over it may or may not meet the new event, and the lookup *)
(* by name may miss the event that was in front of it.  That the loop then *)
(* stops is in EventLoop.                                                  *)
(***************************************************************************)
Met ==
  IF rec = "insert"
    THEN {(rows \cup new) \ lost : new \in SUBSET {stage}, lost \in {{}} \cup {{r} : r \in rows}}
    ELSE {rows}

Sigint ==
  /\ report = <<>>
  /\ \E met \in Met :
       report' = <<[row |-> [s \in {r \in met : count[r] # 0} |->
                               [count |-> count[s], samples |-> samples[s]]],
                    total |-> total]>>
  /\ UNCHANGED <<pc, frame, todo, rx, now, watchdog, session, bench, offering, bus, handled, sent>>

Bus(id) ==                                      \* a frame the queue has room for
  /\ bus < MaxFrames /\ Len(rx) < RX_QUEUE
  /\ rx' = Append(rx, id) /\ bus' = bus + 1
  /\ UNCHANGED <<pc, frame, todo, now, watchdog, session, bench, offering, handled, sent, report>>

Tick ==
  /\ now < MaxTime /\ now' = now + 1
  /\ UNCHANGED <<pc, frame, todo, rx, watchdog, session, bench, offering, bus, handled, sent, report>>

Callback ==
  \/ OnReadable \/ RecordStep \/ Unknown \/ Lookup \/ Decode \/ Publish \/ Published
  \/ EndToEnd \/ Count \/ Check \/ Offer
CanNext ==
  \/ Callback \/ Sigint \/ Tick
  \/ \E id \in Ids : Bus(id)
  \/ \E n \in 1..MaxEntries : Subscribe(n)

CanSpec == CanInit /\ [][CanNext]_canVars
CanFairSpec == CanSpec /\ WF_canVars(Callback) /\ WF_canVars(Tick)

-----------------------------------------------------------------------------
(***************************************************************************)
(* Types of the callback's variables and of the objects it uses.           *)
(***************************************************************************)
CanTypeOK ==
  /\ pc \in {"idle", "lookup", "decode", "publish", "published", "count", "check", "offer"}
  /\ pc = "idle" <=> frame = <<>>
  /\ Len(rx) <= RX_QUEUE /\ last_feed <= now /\ fired \in BOOLEAN
  /\ session \in 0..(SESSION_MOD - 1) /\ sd_session \in 0..(SESSION_MOD - 1)
  /\ rows \subseteq Stages /\ count \in [Stages -> Nat] /\ samples \in [Stages -> 0..SAMPLES_MAX]
  /\ total \in Nat /\ stage \in Stages /\ rec \in {"no", "insert", "push", "count", "total"}
  /\ frame_count \in Nat /\ last_offer_frame \in Nat /\ offers \in Nat
  /\ subscribers \in Nat

(***************************************************************************)
(* Offers keep their rhythm over any mix of frames: one at the start and   *)
(* one after every SD_OFFER_EVERY_N known frames, so that the distance to  *)
(* the last one never exceeds that number; the SD session counter numbers  *)
(* offers and acknowledgements together, through its wrap-around (the end  *)
(* of the callback in main.cpp, send_offers, send_subscribe_ack).          *)
(***************************************************************************)
OfferCadence ==
  /\ last_offer_frame = SD_OFFER_EVERY_N * (offers - 1)
  /\ frame_count - last_offer_frame <=
       (IF pc \in {"check", "offer"} THEN SD_OFFER_EVERY_N ELSE SD_OFFER_EVERY_N - 1)
  /\ sd_session = (offers + subscribers + 1) % SESSION_MOD

Routed(s) == FlattenSeq([i \in DOMAIN s |-> IF s[i] \in Routes THEN <<s[i]>> ELSE <<>>])
Due(frames) == FlattenSeq([n \in DOMAIN frames |-> Routed(Signals[frames[n]])])

(***************************************************************************)
(* What goes out is what came in: the notifications sent are the routed    *)
(* signals of the known frames, frame by frame and in DBC order, none      *)
(* twice and none left out, and their session numbers count up by one      *)
(* through the wrap-around of session_ (publish and the loop around it).   *)
(***************************************************************************)
PublishedInOrder ==
  LET pending == IF pc = "decode" THEN Routed(Signals[frame[1]]) ELSE Routed(todo)
  IN /\ [i \in DOMAIN sent |-> sent[i].signal] \o pending = Due(handled)
     /\ \A i \in DOMAIN sent : sent[i].session = i % SESSION_MOD

Kept(n) == IF n < SAMPLES_MAX THEN n ELSE SAMPLES_MAX

(***************************************************************************)
(* Between two frames, and where the periodic table is printed, the        *)
(* counters agree with each other and with frame_count: every known frame  *)
(* counts once in each stage and in the total, one that the DBC file does  *)
(* not have counts nowhere, and each histogram stores as many samples as   *)
(* it has room for (the callback of main.cpp, BenchmarkCollector::record). *)
(***************************************************************************)
CountersAgree ==
  pc \in {"idle", "lookup", "check", "offer"} =>
    /\ rows = IF frame_count = 0 THEN {} ELSE Stages
    /\ \A s \in Stages : count[s] = frame_count /\ samples[s] = Kept(frame_count)
    /\ total = 4 * frame_count

(***************************************************************************)
(* "No threads. No mutexes. No race conditions." (README): the report that *)
(* SIGINT prints is one the counters have between two frames, with the     *)
(* same count in every stage and a total that is their sum.                *)
(***************************************************************************)
ReportConsistent ==
  \A i \in DOMAIN report :
    LET row == report[i].row IN
      /\ DOMAIN row = IF report[i].total = 0 THEN {} ELSE Stages
      /\ \A s \in DOMAIN row : /\ 4 * row[s].count = report[i].total
                               /\ row[s].samples = Kept(row[s].count)

Silent == pc = "idle" /\ rx = <<>> /\ last_feed # 0 /\ now - last_feed > TIMEOUT

(***************************************************************************)
(* "Watchdog - detects CAN bus silence and alerts after configurable       *)
(* timeout" (README): a silent bus raises the alert unless a frame comes.  *)
(***************************************************************************)
SilenceIsReported == Silent ~> (fired \/ rx # <<>>)
=============================================================================
