----------------------------- MODULE Benchmark -----------------------------
(***************************************************************************)
(* LatencyHistogram and BenchmarkCollector (src/src/bench/benchmark.hpp)   *)
(* with what StatsReporter (src/src/utils/stats_reporter.cpp) shows of     *)
(* them.  Calls come one at a time, from the CAN callback; that SIGINT can *)
(* print a report inside record() is in CanPipeline.                       *)
(*                                                                         *)
(* A histogram stores its first max_samples_ latencies and only counts the *)
(* rest.  log is a history variable with all of them.                      *)
(*                                                                         *)
(* A name with an underscore suffix is a faulty variant of the definition  *)
(* that follows it; see the README.                                        *)
(***************************************************************************)
EXTENDS Integers, Sequences, FiniteSets, Functions

CONSTANTS
  EventNames,    \* the names main() records under
  Latencies,     \* microseconds
  MAX_SAMPLES    \* max_samples_: 10000

ASSUME BenchmarkAssumption == Latencies \subseteq Nat /\ MAX_SAMPLES \in Nat \ {0}

VARIABLES
  histograms,      \* histograms_: samples_ and total_count_ by event name
  total_messages,  \* total_messages_
  log              \* history: the latencies recorded since reset(), by event name

benchVars == <<histograms, total_messages, log>>

NewHistogram == [samples |-> <<>>, total_count |-> 0]

BenchInit ==
  /\ histograms = <<>> /\ total_messages = 0
  /\ log = [e \in EventNames |-> <<>>]

-----------------------------------------------------------------------------
record_Ring(h, us) ==
  [samples     |-> IF Len(h.samples) < MAX_SAMPLES THEN Append(h.samples, us)
                   ELSE Append(Tail(h.samples), us),
   total_count |-> h.total_count + 1]

record(h, us) ==                         \* LatencyHistogram::record
  [samples     |-> IF Len(h.samples) < MAX_SAMPLES THEN Append(h.samples, us) ELSE h.samples,
   total_count |-> h.total_count + 1]

Record(e, us) ==                         \* histograms_[event] is made when it is missing
  /\ histograms' =
       [f \in DOMAIN histograms \cup {e} |->
          LET h == IF f \in DOMAIN histograms THEN histograms[f] ELSE NewHistogram
          IN IF f = e THEN record(h, us) ELSE h]
  /\ total_messages' = total_messages + 1
  /\ log' = [log EXCEPT ![e] = Append(@, us)]

reset(h) == NewHistogram                 \* LatencyHistogram::reset

Reset ==
  /\ histograms' = [e \in DOMAIN histograms |-> reset(histograms[e])]
  /\ total_messages' = 0
  /\ log' = [e \in EventNames |-> <<>>]

BenchNext == Reset \/ \E e \in EventNames, us \in Latencies : Record(e, us)

BenchSpec == BenchInit /\ [][BenchNext]_benchVars

-----------------------------------------------------------------------------
(***************************************************************************)
(* The queries, for s not empty.                                           *)
(***************************************************************************)
min(s) == CHOOSE v \in {s[i] : i \in DOMAIN s} : \A i \in DOMAIN s : v <= s[i]
max(s) == CHOOSE v \in {s[i] : i \in DOMAIN s} : \A i \in DOMAIN s : v >= s[i]

sum(s) ==
  LET upto[i \in 0..Len(s)] == IF i = 0 THEN 0 ELSE upto[i - 1] + s[i] IN upto[Len(s)]

mean(s) == [sum |-> sum(s), size |-> Len(s)]      \* their quotient

(***************************************************************************)
(* What std::sort leaves: a sample comes after those that are smaller and  *)
(* after equal ones before it.                                             *)
(***************************************************************************)
Place(s, i) == Cardinality({j \in DOMAIN s : s[j] < s[i] \/ (s[j] = s[i] /\ j <= i)})

sorted(s) == [k \in DOMAIN s |-> s[CHOOSE i \in DOMAIN s : Place(s, i) = k]]

percentile_Floor(s, p) == sorted(s)[(p * Len(s)) \div 100]

(***************************************************************************)
(* idx = p / 100.0 * size, cut to an integer and to the last index.  For   *)
(* p = 50, 95 and 99 the arithmetic of doubles gives the exact quotient    *)
(* for every size up to 10000.                                             *)
(***************************************************************************)
percentile(s, p) ==
  LET idx == (p * Len(s)) \div 100
  IN sorted(s)[(IF idx >= Len(s) THEN Len(s) - 1 ELSE idx) + 1]

(***************************************************************************)
(* One row of print_table and to_json; the queries answer 0 for no sample. *)
(* The table leaves out an event that counts none, which only reset()      *)
(* leaves behind.                                                          *)
(***************************************************************************)
Row(h) ==
  LET s == h.samples IN
    IF s = <<>> THEN [count |-> h.total_count, min |-> 0, mean |-> [sum |-> 0, size |-> 1],
                      p50 |-> 0, p95 |-> 0, p99 |-> 0, max |-> 0]
    ELSE [count |-> h.total_count, min |-> min(s), mean |-> mean(s), p50 |-> percentile(s, 50),
          p95 |-> percentile(s, 95), p99 |-> percentile(s, 99), max |-> max(s)]

to_json == [e \in DOMAIN histograms |-> Row(histograms[e])]

print_table == [e \in {f \in DOMAIN histograms : histograms[f].total_count # 0} |->
                  Row(histograms[e])]

-----------------------------------------------------------------------------
(***************************************************************************)
(* A histogram holds the first MAX_SAMPLES latencies since the last        *)
(* reset(), in order, and counts all of them (record and reset of both     *)
(* classes).                                                               *)
(***************************************************************************)
KeepsFirstSamples ==
  /\ \A e \in EventNames :
       LET h == IF e \in DOMAIN histograms THEN histograms[e] ELSE NewHistogram
           n == Len(log[e])
       IN /\ h.total_count = n
          /\ h.samples = SubSeq(log[e], 1, IF n < MAX_SAMPLES THEN n ELSE MAX_SAMPLES)
  /\ DOMAIN histograms \subseteq EventNames

(***************************************************************************)
(* What a row r should say of the first n of the latencies s: a percentile *)
(* p has at most p% of them below it and more than p% at or below it, the  *)
(* minimum and the maximum are among them with none beyond, and the mean   *)
(* is their total over their number.                                       *)
(***************************************************************************)
Below(s, n, v) == Cardinality({i \in 1..n : s[i] < v})
UpTo(s, n, v)  == Cardinality({i \in 1..n : s[i] <= v})

Quantile(s, n, v, p) == 100 * Below(s, n, v) <= p * n /\ 100 * UpTo(s, n, v) > p * n

TellsTruth(r, s, n) ==
  /\ r.count = Len(s)
  /\ Quantile(s, n, r.p50, 50) /\ Quantile(s, n, r.p95, 95) /\ Quantile(s, n, r.p99, 99)
  /\ r.min <= r.p50 /\ r.p50 <= r.p95 /\ r.p95 <= r.p99 /\ r.p99 <= r.max
  /\ r.min \in {s[i] : i \in 1..n} /\ Below(s, n, r.min) = 0
  /\ r.max \in {s[i] : i \in 1..n} /\ UpTo(s, n, r.max) = n
  /\ r.mean = [sum |-> FoldFunction(+, 0, [i \in 1..n |-> s[i]]), size |-> n]

(***************************************************************************)
(* Every row of the table tells the truth about the samples it is made     *)
(* from, which are the first MAX_SAMPLES of the count it shows: the        *)
(* percentiles are right at every size down to one sample, minimum and     *)
(* maximum are samples, the mean is exact, the columns are ordered and the *)
(* counts add up to the total (percentile, min, max, mean, print_table).   *)
(***************************************************************************)
RowsAreStatistics ==
  /\ \A e \in DOMAIN print_table :
       TellsTruth(print_table[e], log[e],
                  IF Len(log[e]) < MAX_SAMPLES THEN Len(log[e]) ELSE MAX_SAMPLES)
  /\ total_messages = FoldFunction(+, 0, [e \in DOMAIN print_table |-> print_table[e].count])
  /\ \A e \in DOMAIN to_json : e \notin DOMAIN print_table => log[e] = <<>>
=============================================================================
