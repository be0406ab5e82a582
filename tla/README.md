# TLA+ models of the automotive gateway

The gateway is one process with one thread. An epoll loop runs callbacks that
read CAN frames and publish them as SOME/IP notifications, answer SOME/IP
service discovery, and serve diagnostics over TCP (DoIP and UDS). This
directory holds TLA+ models of its parts, TLC configurations that check them
on small instances, and TLAPS proofs. Paths below are relative to the
repository; `src/` in PROJECT.json is the repository root.

## Inventory

| Component | State | Operations | Correct when |
|---|---|---|---|
| `EventLoop` (src/event) | `running_`, `readers_`, the kernel's epoll set | `add_reader`, `remove`, `run`, `stop` | every event reaches the callback of the connection it is about; no running callback is erased; nothing starves; `stop` ends the loop |
| `DoIpServer` (src/doip) | `connections_`: per descriptor `activated`, `tester_addr`, `recv_buf`, `recv_len` | accept callback, `on_client_data`, message handlers, `send_to_client` | messages are reassembled exactly and served once, in order; diagnostics only after activation on the same connection |
| `DoIpHeader`, `make_doip_message` | none | parse, serialize | replies carry the right addresses and payload |
| `UdsHandler` | the DTC list, constant | `handle` and one handler per service | a response can be matched with its request |
| CAN callback in `main()` | `frame_count`, `last_offer_frame` | one callback per frame | notifications are the routed signals of known frames, in order; an offer every 100 frames |
| `CanSocket` | its descriptor | `on_readable`; `send` and `add_filter` unused | one frame per callback |
| `Watchdog` | `last_feed_ns_`, `fired_` | `feed`, `check`, `reset` (unused) | silence of the bus is reported |
| `SomeIpPublisher` | `session_`, `signal_map_` | `register_signal`, `publish` | consecutive session numbers through the wrap |
| `SomeIpSdService`, `SomeIpSdMessage` | `offered_`, `subscribers_`, `session_` | `offer_service`, `send_offers`, `on_readable` | services stay offered; each subscription is acknowledged |
| `BenchmarkCollector`, `LatencyHistogram` | counters and samples per stage | `record`, percentiles | counts and total agree |
| `StatsReporter` | none | `print_table`, `to_json` | a report is a consistent picture |
| `DbcParser`, `ConfigLoader` | message table; routes | line by line parsing before the loop starts | signals belong to the message they follow |
| `SignalDecoder` | none | `decode`, `extract_bits` | physical values of little-endian signals, with sign |
| `handle_sigint` and `main()` | `g_loop`, `g_bench` | report, then `stop()` | shuts down whenever it strikes |
| tools/ | separate programs | DoIP client, SD subscriber, listeners, load generators | they agree with the gateway on the protocol |

The components share no memory except through `main()`: the CAN callback calls
the decoder, the publisher, the collector, the watchdog and `send_offers`; the
loop calls the three static callbacks (SD, CAN, DoIP listener) and one callback
per DoIP connection. The DoIP accept callback calls back into the loop
(`add_reader`).

What is hard here: callbacks change the set of callbacks while the loop walks
over a batch of events; the kernel reuses descriptor numbers that `readers_`
still mentions; a TCP stream is cut anywhere; a tester may vanish between two
sends; and SIGINT runs a handler that prints and stops, between any two
instructions of everything else. PROJECT.json lists each of these hazards at its
line.

## Modules

| Module | Models | Notes |
|---|---|---|
| `EventLoop` | event_loop.hpp, arming and stopping it in main.cpp | callbacks abstract: read, accept and register, close |
| `EventLoopProofs` | | TLAPS proofs about `EventLoop` |
| `DoIpClient` | tools/doip_client.cpp against the server | extends `DoIpServer` |
| `DoIpClientProofs` | | TLAPS proofs about `DoIpClient` |
| `UdsHandler` | uds_handler.{hpp,cpp} | constant-level operators |
| `DoIpMessages` | doip_message.{hpp,cpp}, the replies of doip_server.cpp | constant-level operators |
| `DoIpSession` | | abstract specification: what the server promises a tester |
| `DoIpServer` | doip_server.{hpp,cpp} inside the loop, TCP, testers | instantiates `EventLoop` and `DoIpSession` |
| `DoIpServerProofs` | | TLAPS proofs about `DoIpServer`; instantiates `EventLoopProofs` |
| `CanPipeline` | the CAN callback, watchdog, publisher, counters, offers | |
| `CanPipelineProofs` | | TLAPS proofs about `CanPipeline` |
| `SomeIpSd` | someip_sd.{hpp,cpp}, someip_sd_service.{hpp,cpp}, someip_message.cpp, tools/someip_sd_subscriber.cpp, tools/someip_subscriber.cpp, UDP | |
| `SomeIpSdProofs` | | TLAPS proofs about `SomeIpSd` |
| `Startup` | dbc_parser.{hpp,cpp}, config_loader.{hpp,cpp}, `register_signal`, the start of `main()` | |
| `StartupProofs` | | TLAPS proofs about `Startup` |
| `Benchmark` | benchmark.hpp, stats_reporter.cpp | |
| `SignalDecoder` | signal_decoder.{hpp,cpp}, the frames of tools/can_simulator.cpp, the signals of config/vehicle.dbc | constant-level operators |
| `SharedLemmas` | | TLAPS: induction over naturals, remainders, sequences, `FlattenSeq` |
| `MCSequential` | | `Startup`, `Benchmark`, `SignalDecoder` and `UdsHandler` in one instance |
| `MCGateway` | | `MCSequential` with `CanPipeline` as one more part |
| `SequentialProofs` | | TLAPS proofs about `Benchmark`, `UdsHandler`, `SignalDecoder` and `MCSequential` |
| other `MC*` | | values for TLC |

**EventLoop.** `pc` is where the thread is: before `g_loop` is set (`setup`),
before `run()` (`armed`), at the test of `running_` (`test`), between the test
and `epoll_wait` (`enter`), asleep in it (`blocked`), in the `for` loop
(`batch`), in a callback, or ended (`exited` by stop, `fatal` by an exception,
`killed` by SIGPIPE). `readers` maps a descriptor to the *incarnation* whose
callback is stored, `gen` counts incarnations, so a callback left over from an
earlier connection with the same number can be told from the present one.
`close` removes a descriptor from the epoll set and leaves `readers` alone, as
`on_client_data` does. `epoll_wait` may report any non-empty set of at most
`MAX_EVENTS` ready descriptors, handled in any order. `err` is a socket that
reports `EPOLLERR` without `EPOLLIN`: the code skips it. `remove` has no caller
in the program; it is modelled for descriptors other than the one being served.

**DoIpServer.** The loop's actions come from `EventLoop` by `INSTANCE`, with
the set of ready descriptors defined from the TCP state. A callback proceeds by
`step`: `enter`, then for a connection one `recv` (`OnClientData`), then one
iteration of the reassembly loop at a time (`HandleMessage`, `ParseBreak`), with
the UDS response as a step of its own (`Respond`) after the acknowledgement. A
tester's stream is its messages with their byte offsets; `recv_buf` is a
sequence of such offsets, so lost, repeated or shifted bytes are visible.
`send()` succeeds, or takes a part or nothing if the tester does not drain its
window, fails once after a reset and raises SIGPIPE the next time (at once if
the tester had closed before); these rules, and that bytes queued before a reset
may or may not still be readable, are the kernel's and marked external.
`accept` may fail at any time (descriptors of the process or of the system,
memory); the listener then stays ready. Messages are so short that the sum of
length and header does not wrap, also in the BeagleBone's 32-bit `size_t`.

**DoIpClient.** The tool is one of `DoIpServer`'s testers whose actions are
conjoined with its own state: where it is in `main()`, how many requests it has
sent and how many bytes of replies it has received. A `recv` returns any piece
of what has arrived, and the tool looks at the start of it. `close` resets the
connection if replies are unread. `Starts` says at which byte of the tool's
stream each reply begins. `OtherMsgs` is what the other testers send; in the runs
they only connect, for the descriptor, and `ToolMsgs` is what the tool sends. Bytes that begin in the middle of a message
make the tool display nothing or rubbish; the model has nothing there.

**DoIpSession.** Per tester: messages sent, how many are handled, whether
routing is activated, the replies, and the UDS response that is owed between an
acknowledgement and its response. It knows nothing of descriptors, buffers or
other testers.

**CanPipeline.** The callback is cut at every reading of the clock and, inside
`BenchmarkCollector::record`, at every change it makes (a new row, a stored
sample, the count, the total), since that is where time and SIGINT have an
effect. A SIGINT during the insertion of a row may or may not meet that row and
may miss the one it is linked in front of. A frame is its `can_id` with flags,
which `can_id` masks off. Signal values and latencies are left out.
Subscriptions are included as far as they advance the session counter that
offers use.

**SomeIpSd.** `net` is the set of all datagrams sent; receiving does not remove
one, so loss, repetition and reordering are all covered. A datagram's content
maps byte offsets to fields, as the encoders write them, and the decoders read
at the offsets they use: the two ends agree only if they use the same ones. A
handler runs in one step, since it shares no state with anything that could
interleave. Which sockets a multicast datagram reaches is the kernel's business
and marked external: a socket bound to `INADDR_ANY` also gets the datagrams of
groups other processes of the host have joined, and notifications use the port
of service discovery, so every receiver must filter. The other stack sends to
the gateway, to the groups and to the tools; what a tool displays is recorded
with its sender, since neither tool asks who sent it. A datagram longer than the
receive buffer is cut, and the end of the entries array is computed in the
target board's `size_t`. The gateway and the tools have addresses of their own:
on one host, where they share the port through `SO_REUSEADDR`, a datagram to one
of them may reach another.

**Startup.** A line of a file is a record that says what the parsers make of
its text: for a DBC line its keyword, which early return of
`parse_message_line` or `parse_signal_line` it runs into, if any, and its
numbers before the casts to 8 bits; for a configuration line whether it is
skipped, refused by `std::stoul`, or a route. `conf` and `dbc` keep the lines
read, and signals and routes carry the number of their line, so that the tables
can be compared with the files without repeating the parser. The tables are what
`CanPipeline` has as constants.

**Benchmark.** `record` and `reset` with the limit on stored samples; the rows
that `print_table` and `to_json` make of a histogram are operators. `log` keeps
every latency since the last reset. What `std::sort` leaves is said by the place
of each sample (`Place`, `sorted`), not by a sorting algorithm. That SIGINT may print in the middle of
`record` is in `CanPipeline`.

**SignalDecoder.** Bit extraction, sign extension, scaling and clamping, with
the 8-bit arithmetic of `bit_pos`. The frame's length is a parameter, since all
64 bits are beyond enumeration; scales are integers. The frames of
`can_simulator` have their real eight bytes. Powers of two are a recursive
function (`pow2`), which proofs can unfold; the provers know nothing of `^`.
`DecodesExactly` is what decoding should give, and `Decodable` says for which
signals it does: not for Motorola byte order, which `decode` ignores, and not
for an unsigned signal as long as the frame. See "What the runs found".

Definitions with an underscore suffix (`Test_NoCheck`, `Consume_Payload`) are
faulty variants of the definition they precede: a dropped guard, an off-by-one,
a missing reset. They are not part of any specification. PROJECT.json pairs each
with the property that TLC finds violated when the variant takes the place of
the original, which shows that the property can tell the difference.

## Runs

| Run | Shows | Bounds |
|---|---|---|
| `event_loop` | the five safety properties of the loop and `EveryReadyServed` | 1 static and 2 reusable descriptors, 2 incarnations each, batches of 2: enough for close, reuse and a second event in one batch, and for one ready descriptor more than events[] holds |
| `event_loop_stop` | **violated**: SIGINT between the test and `epoll_wait` is slept over | 2 descriptors |
| `gateway` | `StartTypeOK`, `TableIsFile`, `RoutesAreFile`; `KeepsFirstSamples`, `RowsAreStatistics`; `ResponseMatchesRequest`; `DecodedExact`, `SimulatedIsDecoded`; `CanTypeOK`, `OfferCadence`, `PublishedInOrder`, `CountersAgree` | every pair of files with together 6 lines (at most 3 and 5), refused, blank and repeated lines and numbers beyond the casts among them; collectors that are empty or hold 19 or 99 samples and get 4 more with a limit of 101, since the 95th and 99th percentile leave the maximum at 20 and 100 samples; all UDS requests of up to 4 bytes over the 12 byte values that matter; signals at 10 positions with 12 lengths in a frame of 2 bytes, 0, the last bit and beyond included; 360 settings of the simulator; 5 CAN frames with flags above a 3-bit identifier, session counters modulo 3, offers every 2 frames, 2 samples kept, so that every counter passes its limit |
| `doip_server` | `TypeOK`, `ReassemblyExact`, `ClosedOnlyWhenDone`, `ConnectionsMatchKernel`, `ImplementsEventLoop`, `ImplementsSession` | two scenarios, one of which every behaviour keeps to. *stream*: 1 tester that may stop reading, 2 messages of 8 kinds on both sides of each length limit, pieces of 1, 5 and 8 bytes, buffer of 8 with a header of 2: messages that fit exactly, by one byte not, two to a buffer, cut in header and payload. *reuse*: 2 testers on 2 descriptor numbers, batches of 2: both connected at once, or the second on the number of the first |
| `doip_client` | `EveryRequestAnswered`, `NeverFarAhead`, `ToolFinishes`, `ArrivedIsHandled` | the tool with its first two requests and a second tester on 1 descriptor, so that one is refused while the other is connected; replies whole or in pieces of 3 and 7 bytes, which end inside messages: the activation reply is accepted at 7 bytes and refused at 3 |
| `doip_sigpipe` | **violated**: the tool, closing, ends the gateway's process | the tool with all six requests |
| `doip_client_shown` | **violated**: the tool displays an acknowledgement or an earlier answer as the response | the tool with all six requests |
| `can_report` | **violated**: the report of a SIGINT shows stages that disagree, or a total that is not their sum | as the CAN part of `gateway` |
| `can_silence` | **violated**: a silent bus is never reported | 3 frames, timeout of 1 tick |
| `someip_sd` | `TypeOK`, `RegisteredAsReceived`, `AcksMatchRecords`, `ShownWasPublished` | 1 SD subscriber and the plain one; 2 of 4 datagrams of another stack (an array that ends before its last entry, entries on both sides of the end of the receive buffer, an array whose end wraps, a notification to the data group); 2 offers, 1 notification, 3 subscriptions; a buffer of 112 bytes and a `size_t` modulo 256, the first shorter than a datagram of six entries (124 bytes), the second passed by the length an array claims |
| `sd_eventgroup` | **violated**: a tool's subscription is recorded for another eventgroup | as `someip_sd`, 1 datagram of the other stack |
| `subscriber_value` | **violated**: the plain subscriber displays a value that was not published | as `sd_eventgroup` |

The scaled constants (header 8, buffer 4096, 32 events, counter 65536, periods
of 50 and 100 frames) enter the models only through comparisons and sums, and
the small values keep all the orders between them that occur.
Deadlock is not checked: testers, frames and incarnations are bounded, and the
process may end.

**What the runs found.** Seven statements of the repository are not true of the
code; PROJECT.json quotes them. A SIGINT in the window before `epoll_wait` is
not acted on until the next input. A send to a tester that has reset its
connection kills the gateway by SIGPIPE, although `send_to_client` has code for
a failed send; one run of the repository's own client can do it, as it may close
while its last requests are being served. That client displays the
acknowledgement, or the answer to an earlier request, as the UDS response, since
it receives once for the two messages that answer a request. The watchdog is
consulted only from the callback of a frame, just after `feed`, so it never
notices silence. `someip_sd_subscriber` writes the eventgroup of a subscription
into the options length, where the gateway does not look for it.
`someip_subscriber` swaps the bytes of a value that it has already assembled
from network order. And in a program that claims "No race conditions"
(README.md:55) a SIGINT during `record`, or between two calls of it, prints a
report whose counts disagree; between two frames they agree (`CountersAgree`).

Two more need no state space to be seen and have no run. `SignalDef` speaks of a
"signed or unsigned value" (src/can/dbc_parser.hpp:14) and README.md:304 of
"Full — message and signal parsing, bit extraction, scaling", but `decode` keeps the raw
value in an `int64_t` and extends the sign only of signed signals
(src/can/signal_decoder.cpp:15-25): an unsigned signal of all 64 bits comes out
negative when its top bit is set. And the byte order that the parser stores is
never asked for. `Decodable` leaves exactly these signals out of `DecodedExact`
and of the theorem behind it; config/vehicle.dbc has none of them.

**Fairness.** `FairSpec` of `EventLoop` assumes that the thread is scheduled
(weak fairness of the loop's own steps), that callbacks return (all descriptors
they use are non-blocking), and that a descriptor that stays ready is reported
by some later `epoll_wait` (strong fairness per descriptor): the kernel's ready
list is a queue to whose tail a level-triggered descriptor returns.
`DoIpServer` assumes the same of the thread and nothing of testers or network.
`CanPipeline` assumes that the callback proceeds and that time passes.
`DoIpClient` assumes of the server what `DoIpServer` does, that the tool's
process is scheduled, and that TCP delivers what the tool has sent while both
ends exist; nothing is assumed of the other tester. `ToolFinishes` starts when
the tool is accepted: a tester that is not accepted for want of descriptors may
wait for ever.

## Proofs

`EventLoopProofs` proves, for every set of descriptors, every size of events[]
and every number of connections, that `EventLoop`'s specification implies
`TypeOK`, `NoStaleDispatch`, `CallbackAlive`, `RegistrationCurrent` and
`StopTakesEffect`. The only assumption is `LoopAssumption` (static descriptors
are descriptors, the bounds are numbers).

None of these is inductive by itself. That a batch holds no stale event depends
on the callback being served not appearing in it again (`ServedOnce`), which
depends on `epoll_wait` reporting a descriptor once (`OneEventPerFd`); that a
newly accepted number is not in the batch depends on batch events naming open
descriptors (`NoStaleDispatch` itself) and that it is not the running callback's
on the listener being open (`StaticOpen`). `DispatchInv` is the conjunction.
`LateOnce` says that a late return can only happen once because `running_` is
false from then on and the next stop of the thread is the test. `IInv` is their
conjunction with `TypeOK`; TLC checks it on the instance of the `event_loop` run.

`DoIpServerProofs` proves `TypeOK`, `ConnectionsMatchKernel`, `ReassemblyExact`
and `ClosedOnlyWhenDone` for any number of testers and descriptors, any messages,
any buffer that holds a header, and every cutting of the streams, and that the
server implements `EventLoop` (`ServerRunsInLoop`) and `DoIpSession`
(`ServerServesSessions`). `ServerAssumption` says that the constants are
numbers, that a message has one of the payload types, a length and a source
address, and that there are at least as many incarnations of a descriptor
(`MaxGen`) as testers: each tester connects once, so that this bound of
`EventLoop` cuts no behaviour of the server off.

- The invariant of `EventLoop` is part of the server's (`LP!IInv`, through an
  instance of `EventLoopProofs`), and a step of the server is shown to be a step
  of the loop first. The enabling conditions the loop asks of `accept` and
  `close` are what `StepOK` is for: a descriptor that `epoll_wait` reported is
  still ready when its callback is entered, because nobody else reads it.
- `KernelOK` has who is connected where, by descriptor and by tester, and that
  testers in the backlog are distinct and connected nowhere yet. `GenOK` bounds
  the incarnations of a number by the testers taken so far.
- `StreamsOK`: a stream is its messages back to back (`Chained`), and the
  messages handled are its first ones. `BuffersOK`: a buffer is the bytes from
  the end of the last message it is done with to the last byte read; between
  callbacks the next message is incomplete (`NextPartial`), and in the middle of
  a diagnostic message it is complete (`NextWhole`). The first is why a
  connection with a full buffer is closed only for a message that cannot fit.
- `FrontIs` is the step from bytes to messages: the message whose header is at
  the front of the buffer is the next one of the stream, so what the code reads
  as a length is one.
- For `DoIpSession` the mapping is taken apart by tester (`StateOf`, `SentBy`,
  `IsActive`, `SaidTo`, `OwedTo`), and each action is one abstract step of one
  tester or a stutter. Beyond the server's invariant it takes `OwedOK`: a
  response is owed in the middle of a diagnostic message and at no other time,
  and it is the one to that message.

`DoIpClientProofs` proves that the client with the gateway is a behaviour of
`DoIpServer` (`ToolRunsOnServer`), so that the theorems above hold of it, and
`EveryRequestAnswered` and `NeverFarAhead` for every list of requests, whatever
other testers send and in whatever pieces `recv()` returns the replies.
`ClientAssumption` says that requests are byte strings, that the tool's messages
are among those testers may send, and that the bounds leave room for them. The
tool has sent an activation and then only requests (`ToolStream`), which rests on
its not getting past the activation otherwise unless the server is gone. How
often it was answered (`Answered`) then follows from the steps of `DoIpSession`
alone, not from the server's: the activation made the connection active, and it
stays active until it is over. `ReadOK` is about the tool's bytes: it has taken
no more than has arrived, something before its first request, and after k
requests that each displayed a message it is past more than k replies, since a
reply is displayed from its first byte on and has at least one.

`SomeIpSdProofs` proves `TypeOK`, `RegisteredAsReceived`, `AcksMatchRecords` and
`ShownWasPublished` for any number of tools, any datagrams of the other stack and
every loss, repetition and order. `SdAssumption`: what is on the wire are
numbers. `RoutesAssumption`: the configuration routes a signal to the
identifiers under which someip_sd_subscriber knows it; the tool has a table of
its own, and the `gateway.conf` of the repository agrees with it for all eight
signals. The invariant says of every datagram on the network which
of five kinds it is (offer, acknowledgement, notification, a tool's
subscription, another stack's) and of each kind which fields it has, so that
what a receiver's filter lets through is known; for `AcksMatchRecords`, that the
gateway's datagrams carry the sessions from 1 to the present one, each once
until the counter wraps. `RegisteredAsReceived` compares the entry loop, a
recursive function that stops at the first entry that does not fit, with a set
of entries; what the loop returns is shown by induction over the entries
(`ScanCollects`). That a datagram cut to the receive buffer asks for no more
than the whole one, and for the same inside the buffer, is `Cut` and
`TakenIsAsked`; that an end which wraps lies before the true one, `EndType`.
The values the plain subscriber prints are in no theorem, since they are wrong.

`CanPipelineProofs` proves `CanTypeOK`, `OfferCadence`, `CountersAgree` and
`PublishedInOrder` of `CanPipeline` for every offer period, counter width, sample
limit, table of signals and number of frames (`PipelineAssumption` says that the constants are numbers, positive
where the code divides by them, and that signals have names). `OfferCadence` is inductive with the types: the
distance to the last offer reaches the period only between `Count` and `Offer`,
which resets it. That a counter cut to its width at every increment still
numbers everything sent is the lemma `ModAdd`, from the uniqueness of remainders
(`SmallMultiple`). For `CountersAgree` the invariant `CountsFollowPc` ties the
count of each stage to the place in the callback and in `record`, and the total to
all four; `SamplesFollowCounts` ties the samples stored to the count, one ahead
while a sample is stored and not yet counted, and a row to its first sample.
`PublishedInOrder` compares what was
sent and is pending with the concatenation of the signals of all known frames,
and needs to know that nothing is pending outside the publishing loop and that
the session is the number of messages sent (`SignalKinds`); a step then moves
the boundary between sent and pending (`FlattenHead`) or appends a frame to both
sides (`FlattenAppend`).

`SequentialProofs` is about the parts that compute.

- `Benchmark`: `KeepsFirstSamples` and `RowsAreStatistics` for every sample
  limit, set of event names and sequence of calls. `BenchInv` is inductive:
  `log` holds sequences of latencies, the histograms keep their first samples,
  the events seen are finitely many, and the total is the sum of the counts.
  `RecordKeeps` is the step for the samples: appending to a log shorter than the
  limit appends to its prefix, appending to a longer one leaves the prefix as it
  is (`PrefixOfAppend`). For the total, the library's fold over a function is
  shown to grow by the difference when one value does. For a row, places are
  pairwise different and fill 1..n, so `sorted` is a permutation in order, and
  fewer than p% of the samples are below the percentile and more than p% are not
  above it wherever the cut index falls; the first and the last are the minimum
  and the maximum, both samples, and the loop's sum is the library's fold of the
  samples (`SumIsTotal`), so the mean is theirs. `BenchmarkAssumption`: latencies are
  numbers, the limit is positive.
- `UdsHandler`: `ResponsesAlwaysMatch`, for requests of any length and any bytes,
  by the cases of `handle`.
- `SignalDecoder`: `DecodingIsExact`, for every frame of up to 31 bytes (below
  the 256 bits at which `bit_pos` wraps; a CAN frame has 8), every start bit and
  length, signed or not, with any integer scale and offset and limits that are in
  order, as far as it is `Decodable`. A frame is one number (`number`). Shifted by whole bytes it is the bytes
  above (`AboveShift`), so the bit the loop tests is that bit of the number
  (`BitIs`); from the last bit down, the loop's result is a quotient's remainder
  (`ExtractWithin`), also where the frame cuts the signal off (`ExtractExact`);
  and sign extension by subtracting a power of two is two's complement
  (`SignExtends`).
- `SimulatorReadsBack`: for every value within the limits of the signal in
  vehicle.dbc (the speed of the wheels included, which differs by 1 km/h),
  `decode` finds in the simulator's frame what was put in, less than one step of
  the scale below. `ExtractAligned` is extraction at a byte boundary,
  `PackedType` what `pack_u16` writes, `Quantised` that cutting to the scale and
  clamping lose less than a step.
- The last three again as invariants of `MCSequential` (`RequestsAlwaysMatched`,
  `DecodedAlwaysExact`, `SimulatedAlwaysDecoded`), whose inputs are within the
  ranges above (`InputsOK`, from `InputAssumption`: bytes, start bits and lengths
  fit 8 bits).

`StartupProofs` proves `StartTypeOK`, `TableIsFile` and `RoutesAreFile` for files
of any length, with any lines that `StartupAssumption` allows (a line has the
fields of its kind, and they are numbers where they are cast). `TableIsFile`
says of a finished prefix of the file what the table is; to extend it by a line
one must know which message the parser would put a signal into. `OpenIsCurrent`
ties `in_message` and `current_id` to the file: `in_message` holds exactly when
some header is still open, that is, neither a blank line nor another header
comes after it, and `current_id` is its identifier. `ParserInv` is the
conjunction with the types. Two facts carry the proof: an appended line changes
nothing about which lines before it are headers or follow one (`FileGrows`), and
a line changes at most one entry of the table, whose description is kept, made
new or extended at its end (`DescribesKept`, `DescribesNew`, `DescribesGrown`).
For the routes, `RoutesAreLines` says that `routes_` lists the usable lines in
order, `MapIsRoutes` that `signal_map_` is what the routes registered so far say
with the last winning, and `RoutesFirst` that `main()` gets past the
configuration file only with a route and to the loop only with all of them
registered. `CastsApplied` is the part of `StartTypeOK` about widths: every start
bit, length and DLC in the table fits 8 bits and every service and method 16,
which the parsers' casts bring about and nothing in the lines does. The
`gateway` run checks the three properties.

`SharedLemmas` has the facts several proofs use. The induction theorems of the
library take a predicate as a parameter, which the installed provers cannot
instantiate. `LeastNatural` (every non-empty set of naturals has a least
element) and `UpTo` (a set with 0 that contains k + 1 with k, up to n, contains
0..n) take a set instead, so a proof by induction defines the set of the numbers
for which its claim holds. A recursive function `f[i \in S] == ...` is by
definition some function with that equation; that there is one is proved in this
way, too (`FlatExists`, `StartsExist`, `PowExists`, `DownRec`), and then its
values follow.

Only model-checked: the liveness properties `EveryReadyServed`,
`ArrivedIsHandled` and `ToolFinishes`, since fairness is out of the prover's
reach. Every safety invariant and every refinement that a passing run checks is
also a theorem.

## Not modelled

- Terminal output and its layout; `can_printer.hpp`, which nothing calls.
- Socket set-up and the construction of the objects in `main()`: an error there
  ends the process before the loop runs. A SIGINT that arrives while `main()`
  returns reads destroyed objects through `g_loop` and `g_bench`.
- The cutting of a text line into words, and the rounding of doubles: the model
  has what the parsers conclude, and integer scales.
- What a double makes of a raw value of more than 53 bits.
- What the SIGINT handler may break besides the counters: it allocates memory and
  prints through streams, neither of which may be done in a signal handler, so it
  can find the allocator or `std::cout` half way through a call. A map in the
  middle of a rehash is modelled only as rows that are met or missed.
- Lengths near 2^32 in a DoIP header, where the sum with the header size wraps
  on a 32-bit target, and the byte layout of that header.
- `stress_test`, which counts what it writes; when frames arrive is free in
  `CanPipeline`.
- Functions without a caller: `CanSocket::send` and `add_filter`,
  `Watchdog::reset`, `publish_float`, `make_uint32_notification`.

## Plan

All modules of the plan exist, and all that the runs check and the prover can
state is proved. What could follow:

1. That the client displays nothing but replies the server gave it, in order.
2. The byte layout of the DoIP header and the width of its length field.
