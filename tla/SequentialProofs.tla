-------------------------- MODULE SequentialProofs --------------------------
(***************************************************************************)
(* Proofs about the parts of the gateway that run without interleaving,    *)
(* for every value of their constants and inputs of any size:              *)
(*   Benchmark      the histograms keep the first samples, and what is     *)
(*                  reported of them are their statistics                  *)
(*   UdsHandler     every request gets a response that matches it          *)
(*   SignalDecoder  decoding is exact for every frame and signal, and it   *)
(*                  reads back what can_simulator sends                    *)
(*   MCSequential   the same of the states of that specification           *)
(* Startup has a module of its own, StartupProofs.                         *)
(***************************************************************************)
EXTENDS MCSequential, SequenceTheorems, FiniteSetTheorems, TLAPS

SL == INSTANCE SharedLemmas

-----------------------------------------------------------------------------
Kept(n) == IF n < MAX_SAMPLES THEN n ELSE MAX_SAMPLES

-----------------------------------------------------------------------------
(***************************************************************************)
(* Appending at the end does not change a beginning: the limit cuts off    *)
(* what is new, never what is old.                                         *)
(***************************************************************************)
LEMMA PrefixOfAppend ==
  ASSUME NEW S, NEW s \in Seq(S), NEW v \in S, NEW n \in 0..Len(s)
  PROVE  SubSeq(Append(s, v), 1, n) = SubSeq(s, 1, n)
<1>1. /\ Append(s, v) \in Seq(S) /\ Len(Append(s, v)) = Len(s) + 1
      /\ \A i \in 1..Len(s) : Append(s, v)[i] = s[i]
  BY AppendProperties
<1>2. Len(s) \in Nat
  BY LenProperties
<1>3. /\ \A i \in 1..n : s[i] \in S
      /\ \A i \in 1..n : Append(s, v)[i] \in S
  BY <1>1, <1>2, ElementOfSeq
<1>4. /\ SubSeq(s, 1, n) \in Seq(S) /\ Len(SubSeq(s, 1, n)) = n
      /\ \A i \in 1..n : SubSeq(s, 1, n)[i] = s[i]
  BY <1>2, <1>3, SubSeqProperties
<1>5. /\ SubSeq(Append(s, v), 1, n) \in Seq(S) /\ Len(SubSeq(Append(s, v), 1, n)) = n
      /\ \A i \in 1..n : SubSeq(Append(s, v), 1, n)[i] = Append(s, v)[i]
  BY <1>2, <1>3, SubSeqProperties
<1>6. \A i \in 1..n : Append(s, v)[i] = s[i]
  BY <1>1, <1>2
<1> QED BY <1>4, <1>5, <1>6, SeqEqual

(***************************************************************************)
(* LatencyHistogram::record keeps the relation between a histogram and the *)
(* latencies it was given.                                                 *)
(***************************************************************************)
LEMMA RecordKeeps ==
  ASSUME NEW h, NEW s \in Seq(Latencies), NEW us \in Latencies,
         h.total_count = Len(s), h.samples = SubSeq(s, 1, Kept(Len(s)))
  PROVE  /\ record(h, us).total_count = Len(Append(s, us))
         /\ record(h, us).samples = SubSeq(Append(s, us), 1, Kept(Len(Append(s, us))))
<1> USE BenchmarkAssumption
<1>1. Len(s) \in Nat
  BY LenProperties
<1>2. Append(s, us) \in Seq(Latencies) /\ Len(Append(s, us)) = Len(s) + 1
  BY AppendProperties
<1>3. record(h, us).total_count = Len(s) + 1
  BY DEF record
<1>4. CASE Len(s) < MAX_SAMPLES
  <2>1. h.samples = s
    BY <1>4, SubSeqFull DEF Kept
  <2>2. record(h, us).samples = Append(s, us)
    BY <2>1, <1>4 DEF record
  <2>3. Kept(Len(Append(s, us))) = Len(Append(s, us))
    BY <1>1, <1>2, <1>4 DEF Kept
  <2>4. SubSeq(Append(s, us), 1, Len(Append(s, us))) = Append(s, us)
    BY <1>2, SubSeqFull
  <2> QED BY <1>2, <1>3, <2>2, <2>3, <2>4
<1>5. CASE ~(Len(s) < MAX_SAMPLES)
  <2>1. MAX_SAMPLES \in 0..Len(s)
    BY <1>1, <1>5
  <2>2. h.samples = SubSeq(s, 1, MAX_SAMPLES)
    BY <1>5 DEF Kept
  <2>3. Len(h.samples) = MAX_SAMPLES
    <3>1. \A i \in 1..MAX_SAMPLES : s[i] \in Latencies
      BY <1>1, <2>1, ElementOfSeq
    <3>2. MAX_SAMPLES \in Int /\ 1 <= MAX_SAMPLES
      OBVIOUS
    <3>3. Len(SubSeq(s, 1, MAX_SAMPLES)) = MAX_SAMPLES
      BY <3>1, <3>2, SubSeqProperties
    <3> QED BY Zenon, <2>2, <3>3
  <2>4. record(h, us).samples = h.samples
    <3>1. ~(MAX_SAMPLES < MAX_SAMPLES)
      OBVIOUS
    <3> QED BY Zenon, <2>3, <3>1 DEF record
  <2>5. Kept(Len(Append(s, us))) = MAX_SAMPLES
    BY <1>1, <1>2, <1>5 DEF Kept
  <2> QED BY <1>2, <1>3, <2>1, <2>2, <2>4, <2>5, PrefixOfAppend
<1> QED BY <1>4, <1>5

-----------------------------------------------------------------------------
(***************************************************************************)
(* The histogram of an event, made or not, and KeepsFirstSamples in these  *)
(* words.                                                                  *)
(***************************************************************************)
Hist(e) == IF e \in DOMAIN histograms THEN histograms[e] ELSE NewHistogram

LEMMA KeepsByEvent ==
  KeepsFirstSamples <=>
    /\ \A e \in EventNames : /\ Hist(e).total_count = Len(log[e])
                             /\ Hist(e).samples = SubSeq(log[e], 1, Kept(Len(log[e])))
    /\ DOMAIN histograms \subseteq EventNames
BY DEF KeepsFirstSamples, Hist, Kept

LEMMA EmptyKeeps ==
  /\ NewHistogram.total_count = Len(<<>>)
  /\ NewHistogram.samples = SubSeq(<<>>, 1, Kept(Len(<<>>)))
<1>1. Kept(Len(<<>>)) = 0
  BY BenchmarkAssumption DEF Kept
<1>2. SubSeq(<<>>, 1, 0) = <<>>
  BY SubSeqEmpty
<1> QED BY <1>1, <1>2 DEF NewHistogram

-----------------------------------------------------------------------------
(***************************************************************************)
(* The samples that come no later than sample i in the sorted copy.        *)
(***************************************************************************)
Before(s, i) == {j \in DOMAIN s : s[j] < s[i] \/ (s[j] = s[i] /\ j <= i)}

LEMMA SampleType ==
  ASSUME NEW s \in Seq(Nat)
  PROVE  /\ Len(s) \in Nat /\ DOMAIN s = 1..Len(s)
         /\ \A i \in 1..Len(s) : s[i] \in Nat
BY LenProperties, ElementOfSeq

LEMMA OneTo ==
  ASSUME NEW n \in Nat
  PROVE  IsFiniteSet(1..n) /\ Cardinality(1..n) = n
<1>1. /\ IsFiniteSet(1..n)
      /\ Cardinality(1..n) = IF 1 > n THEN 0 ELSE n - 1 + 1
  BY FS_Interval
<1>2. (IF 1 > n THEN 0 ELSE n - 1 + 1) = n
  OBVIOUS
<1> QED BY <1>1, <1>2

LEMMA BeforeIs ==
  ASSUME NEW s \in Seq(Nat), NEW i \in 1..Len(s)
  PROVE  /\ i \in Before(s, i) /\ Before(s, i) \in SUBSET (1..Len(s))
         /\ IsFiniteSet(Before(s, i)) /\ Place(s, i) = Cardinality(Before(s, i))
         /\ Place(s, i) \in 1..Len(s)
<1>1. Len(s) \in Nat /\ DOMAIN s = 1..Len(s) /\ s[i] \in Nat
  BY SampleType
<1>2. i \in Before(s, i) /\ Before(s, i) \in SUBSET (1..Len(s))
  BY <1>1 DEF Before
<1>3. IsFiniteSet(1..Len(s)) /\ Cardinality(1..Len(s)) = Len(s)
  BY <1>1, OneTo
<1>4. IsFiniteSet(Before(s, i)) /\ Cardinality(Before(s, i)) <= Len(s)
  BY <1>2, <1>3, FS_Subset
<1>5. Cardinality(Before(s, i)) \in Nat /\ Cardinality(Before(s, i)) # 0
  BY <1>2, <1>4, FS_CardinalityType, FS_EmptySet
<1>6. Place(s, i) = Cardinality(Before(s, i))
  BY Zenon DEF Place, Before
<1> QED BY <1>1, <1>2, <1>4, <1>5, <1>6

(***************************************************************************)
(* A smaller sample, and an equal one that was recorded earlier, has the   *)
(* smaller place.                                                          *)
(***************************************************************************)
LEMMA PlaceGrows ==
  ASSUME NEW s \in Seq(Nat), NEW i \in 1..Len(s), NEW j \in 1..Len(s),
         s[i] < s[j] \/ (s[i] = s[j] /\ i < j)
  PROVE  Place(s, i) < Place(s, j)
<1>1. /\ Len(s) \in Nat /\ DOMAIN s = 1..Len(s)
      /\ \A k \in 1..Len(s) : s[k] \in Nat
  BY SampleType
<1>2. j \in Before(s, j) /\ j \notin Before(s, i)
  BY <1>1, BeforeIs DEF Before
<1>3. Before(s, i) \in SUBSET Before(s, j)
  BY <1>1 DEF Before
<1>4. IsFiniteSet(Before(s, j)) /\ Before(s, i) # Before(s, j)
  BY <1>2, BeforeIs
<1>5. /\ Cardinality(Before(s, i)) <= Cardinality(Before(s, j))
      /\ Cardinality(Before(s, i)) # Cardinality(Before(s, j))
  BY <1>3, <1>4, FS_Subset
<1>6. /\ Place(s, i) = Cardinality(Before(s, i)) /\ Place(s, i) \in 1..Len(s)
      /\ Place(s, j) = Cardinality(Before(s, j)) /\ Place(s, j) \in 1..Len(s)
  BY BeforeIs
<1> QED BY <1>1, <1>5, <1>6

(***************************************************************************)
(* Every place is taken: as many samples as places, and no two share one.  *)
(***************************************************************************)
LEMMA PlaceOnto ==
  ASSUME NEW s \in Seq(Nat), NEW k \in 1..Len(s)
  PROVE  \E i \in 1..Len(s) : Place(s, i) = k
<1> DEFINE f == [i \in 1..Len(s) |-> Place(s, i)]
<1>1. /\ Len(s) \in Nat
      /\ \A i \in 1..Len(s) : s[i] \in Nat
  BY SampleType
<1>2. f \in [1..Len(s) -> 1..Len(s)]
  BY BeforeIs
<1>3. ASSUME NEW i \in 1..Len(s), NEW j \in 1..Len(s), f[i] = f[j] PROVE i = j
  <2>1. Place(s, i) = Place(s, j) /\ Place(s, i) \in 1..Len(s)
    BY <1>3, BeforeIs
  <2>2. ~(Place(s, i) < Place(s, j)) /\ ~(Place(s, j) < Place(s, i))
    BY <1>1, <2>1
  <2>3. /\ ~(s[i] < s[j] \/ (s[i] = s[j] /\ i < j))
        /\ ~(s[j] < s[i] \/ (s[j] = s[i] /\ j < i))
    BY <2>2, PlaceGrows
  <2>4. s[i] \in Nat /\ s[j] \in Nat
    BY <1>1
  <2> QED BY <2>3, <2>4
<1>4. f \in Injection(1..Len(s), 1..Len(s))
  BY <1>2, <1>3 DEF Injection, IsInjective
<1>5. IsFiniteSet(1..Len(s))
  BY <1>1, FS_Interval
<1>6. f \in Surjection(1..Len(s), 1..Len(s))
  BY <1>4, <1>5, FS_Injection
<1>7. PICK i \in 1..Len(s) : f[i] = k
  BY <1>6 DEF Surjection
<1> QED BY <1>7

(***************************************************************************)
(* What stands at index k of the sorted copy is the sample of place k.     *)
(***************************************************************************)
LEMMA SortedIs ==
  ASSUME NEW s \in Seq(Nat), NEW k \in 1..Len(s)
  PROVE  \E i \in 1..Len(s) : sorted(s)[k] = s[i] /\ Place(s, i) = k
<1>1. DOMAIN s = 1..Len(s)
  BY SampleType
<1>2. PICK i : i = CHOOSE j \in DOMAIN s : Place(s, j) = k
  OBVIOUS
<1>3. i \in 1..Len(s) /\ Place(s, i) = k
  BY <1>1, <1>2, PlaceOnto, Zenon
<1>4. sorted(s)[k] = s[i]
  BY <1>1, <1>2, Zenon DEF sorted
<1> QED BY <1>3, <1>4

(***************************************************************************)
(* The sample a percentile is, and the place it has: the index is cut to   *)
(* an integer, one more than it is the place, and for p below 100 the      *)
(* index never has to be cut to the last one.                              *)
(***************************************************************************)
LEMMA PercentileIs ==
  ASSUME NEW s \in Seq(Nat), s # <<>>, NEW p \in 0..99
  PROVE  \E i \in 1..Len(s) :
           /\ percentile(s, p) = s[i]
           /\ Place(s, i) = (p * Len(s)) \div 100 + 1
           /\ 100 * (Place(s, i) - 1) <= p * Len(s) /\ p * Len(s) < 100 * Place(s, i)
<1>1. PICK n \in Nat : n = Len(s) /\ n > 0
  BY SampleType, EmptySeq
<1>2. PICK m \in Nat : m = p * n
  BY Z3
<1>3. PICK idx \in Nat : idx = m \div 100 /\ 100 * idx <= m /\ m < 100 * (idx + 1)
  <2>1. m \div 100 \in Nat /\ 100 * (m \div 100) <= m /\ m < 100 * (m \div 100 + 1)
    OBVIOUS
  <2> QED BY <2>1
<1>4. m < 100 * n
  <2>1. PICK q \in Nat : p = 99 - q
    <3>1. 99 - p \in Nat /\ p = 99 - (99 - p)
      OBVIOUS
    <3> QED BY <3>1
  <2>2. m = 99 * n - q * n /\ q * n >= 0
    BY <1>2, <2>1, Z3
  <2> QED BY <1>1, <2>2
<1>5. idx + 1 \in 1..n /\ ~(idx >= n)
  BY <1>1, <1>3, <1>4
<1>6. percentile(s, p) = sorted(s)[idx + 1]
  <2>1. idx = (p * Len(s)) \div 100
    BY <1>1, <1>2, <1>3
  <2> QED BY <1>1, <1>5, <2>1, Zenon DEF percentile
<1>7. PICK i \in 1..Len(s) : sorted(s)[idx + 1] = s[i] /\ Place(s, i) = idx + 1
  BY <1>1, <1>5, SortedIs
<1>8. Place(s, i) - 1 = idx
  BY <1>7
<1> QED BY <1>1, <1>2, <1>3, <1>6, <1>7, <1>8

(***************************************************************************)
(* In place order the samples do not decrease.                             *)
(***************************************************************************)
LEMMA PlaceOrder ==
  ASSUME NEW s \in Seq(Nat), NEW i \in 1..Len(s), NEW j \in 1..Len(s),
         Place(s, i) <= Place(s, j)
  PROVE  s[i] <= s[j]
<1>1. s[i] \in Nat /\ s[j] \in Nat /\ Len(s) \in Nat
  BY SampleType
<1>2. Place(s, i) \in 1..Len(s) /\ Place(s, j) \in 1..Len(s)
  BY BeforeIs
<1>3. ~(s[j] < s[i])
  BY <1>1, <1>2, PlaceGrows
<1> QED BY <1>1, <1>3

LEMMA SameCounts ==
  ASSUME NEW s, NEW t, NEW n, NEW v, \A i \in 1..n : s[i] = t[i]
  PROVE  Below(s, n, v) = Below(t, n, v) /\ UpTo(s, n, v) = UpTo(t, n, v)
<1>1. /\ {i \in 1..n : s[i] < v} = {i \in 1..n : t[i] < v}
      /\ {i \in 1..n : s[i] <= v} = {i \in 1..n : t[i] <= v}
  OBVIOUS
<1> QED BY <1>1, Zenon DEF Below, UpTo

(***************************************************************************)
(* The samples below a sample are fewer than its place, and those up to it *)
(* at least as many.                                                       *)
(***************************************************************************)
LEMMA PlaceCounts ==
  ASSUME NEW s \in Seq(Nat), NEW i \in 1..Len(s)
  PROVE  /\ Below(s, Len(s), s[i]) \in 0..(Place(s, i) - 1)
         /\ UpTo(s, Len(s), s[i]) \in Place(s, i)..Len(s)
<1> DEFINE B == {j \in 1..Len(s) : s[j] < s[i]}
           U == {j \in 1..Len(s) : s[j] <= s[i]}
<1>1. /\ Len(s) \in Nat /\ DOMAIN s = 1..Len(s)
      /\ \A k \in 1..Len(s) : s[k] \in Nat
  BY SampleType
<1>2. /\ IsFiniteSet(Before(s, i)) /\ Place(s, i) = Cardinality(Before(s, i))
      /\ Place(s, i) \in 1..Len(s) /\ i \in Before(s, i)
  BY BeforeIs
<1>3. IsFiniteSet(1..Len(s)) /\ Cardinality(1..Len(s)) = Len(s)
  BY <1>1, OneTo
<1>4. B \in SUBSET Before(s, i) /\ i \notin B
  BY <1>1 DEF Before
<1>5. Before(s, i) \in SUBSET U /\ U \in SUBSET (1..Len(s))
  BY <1>1 DEF Before
<1> HIDE DEF B, U
<1>6. /\ IsFiniteSet(B) /\ Cardinality(B) <= Cardinality(Before(s, i))
      /\ Cardinality(B) # Cardinality(Before(s, i))
  BY <1>2, <1>4, FS_Subset
<1>7. IsFiniteSet(U) /\ Cardinality(U) <= Len(s)
  BY <1>3, <1>5, FS_Subset
<1>8. Cardinality(Before(s, i)) <= Cardinality(U)
  BY <1>5, <1>7, FS_Subset
<1>9. Cardinality(B) \in Nat /\ Cardinality(U) \in Nat
  BY <1>6, <1>7, FS_CardinalityType
<1>10. Cardinality(B) \in 0..(Place(s, i) - 1) /\ Cardinality(U) \in Place(s, i)..Len(s)
  BY <1>1, <1>2, <1>6, <1>7, <1>8, <1>9
<1> QED BY <1>10 DEF B, U, Below, UpTo

(***************************************************************************)
(* The smallest and the largest sample: those of the first and last place. *)
(***************************************************************************)
LEMMA MinIs ==
  ASSUME NEW s \in Seq(Nat), s # <<>>
  PROVE  /\ min(s) \in Nat /\ \A i \in 1..Len(s) : min(s) <= s[i]
         /\ \E i \in 1..Len(s) : min(s) = s[i]
<1>1. /\ Len(s) \in Nat /\ DOMAIN s = 1..Len(s) /\ Len(s) # 0
      /\ \A k \in 1..Len(s) : s[k] \in Nat
  BY SampleType, EmptySeq
<1>2. PICK m \in 1..Len(s) : Place(s, m) = 1
  <2>1. 1 \in 1..Len(s)
    BY <1>1
  <2> QED BY <2>1, PlaceOnto
<1>3. ASSUME NEW i \in 1..Len(s) PROVE s[m] <= s[i]
  <2>1. Place(s, i) \in 1..Len(s)
    BY BeforeIs
  <2>2. Place(s, m) <= Place(s, i)
    BY <1>1, <1>2, <2>1
  <2>3. s[m] <= s[i]
    BY <2>2, PlaceOrder
  <2> QED BY <1>1, <2>3
<1>4. \E v \in {s[i] : i \in DOMAIN s} : \A i \in DOMAIN s : v <= s[i]
  BY <1>1, <1>3
<1>5. min(s) \in {s[i] : i \in DOMAIN s} /\ \A i \in DOMAIN s : min(s) <= s[i]
  BY <1>4, Zenon DEF min
<1> QED BY <1>1, <1>5

LEMMA MaxIs ==
  ASSUME NEW s \in Seq(Nat), s # <<>>
  PROVE  /\ max(s) \in Nat /\ \A i \in 1..Len(s) : s[i] <= max(s)
         /\ \E i \in 1..Len(s) : max(s) = s[i]
<1>1. /\ Len(s) \in Nat /\ DOMAIN s = 1..Len(s) /\ Len(s) # 0
      /\ \A k \in 1..Len(s) : s[k] \in Nat
  BY SampleType, EmptySeq
<1>2. PICK m \in 1..Len(s) : Place(s, m) = Len(s)
  <2>1. Len(s) \in 1..Len(s)
    BY <1>1
  <2> QED BY <2>1, PlaceOnto
<1>3. ASSUME NEW i \in 1..Len(s) PROVE s[m] >= s[i]
  <2>1. Place(s, i) \in 1..Len(s)
    BY BeforeIs
  <2>2. Place(s, i) <= Place(s, m)
    BY <1>1, <1>2, <2>1
  <2>3. s[i] <= s[m]
    BY <2>2, PlaceOrder
  <2> QED BY <1>1, <2>3
<1>4. \E v \in {s[i] : i \in DOMAIN s} : \A i \in DOMAIN s : v >= s[i]
  BY <1>1, <1>3
<1>5. max(s) \in {s[i] : i \in DOMAIN s} /\ \A i \in DOMAIN s : max(s) >= s[i]
  BY <1>4, Zenon DEF max
<1> QED BY <1>1, <1>5

-----------------------------------------------------------------------------
(***************************************************************************)
(* The loop of mean() as one function of how far it has come.              *)
(***************************************************************************)
SumBody(s, f) == [i \in 0..Len(s) |-> IF i = 0 THEN 0 ELSE f[i - 1] + s[i]]

LEMMA SumChoice ==
  ASSUME NEW s PROVE sum(s) = (CHOOSE f : f = SumBody(s, f))[Len(s)]
BY Zenon DEF sum, SumBody

LEMMA SumExists ==
  ASSUME NEW s \in Seq(Nat)
  PROVE  \E f : f = SumBody(s, f)
<1> DEFINE Part(n, f) == f = [i \in 0..n |-> IF i = 0 THEN 0 ELSE f[i - 1] + s[i]]
           Good == {n \in 0..Len(s) : \E f : Part(n, f)}
<1>1. Len(s) \in Nat
  BY LenProperties
<1>2. 0 \in Good
  <2>1. Part(0, [i \in 0..0 |-> 0])
    OBVIOUS
  <2> HIDE DEF Part
  <2> QED BY <1>1, <2>1
<1>3. ASSUME NEW n \in 0..(Len(s) - 1), n \in Good PROVE n + 1 \in Good
  <2>1. PICK f : Part(n, f)
    BY <1>3
  <2>2. PICK g : g = [i \in 0..(n + 1) |-> IF i <= n THEN f[i] ELSE f[n] + s[n + 1]]
    OBVIOUS
  <2>3. Part(n + 1, g)
    <3>1. ASSUME NEW i \in 0..(n + 1)
          PROVE  g[i] = IF i = 0 THEN 0 ELSE g[i - 1] + s[i]
      <4>1. CASE i = 0
        BY <1>1, <2>1, <2>2, <4>1
      <4>2. CASE i # 0 /\ i <= n
        <5>1. i \in 0..n /\ i - 1 \in 0..(n + 1) /\ i - 1 <= n
          BY <1>1, <4>2
        <5>2. g[i] = f[i] /\ g[i - 1] = f[i - 1]
          BY <2>2, <5>1, <4>2
        <5>3. f[i] = f[i - 1] + s[i]
          BY <2>1, <5>1, <4>2
        <5> QED BY <4>2, <5>2, <5>3
      <4>3. CASE i = n + 1
        <5>1. n \in 0..(n + 1) /\ n <= n /\ ~(n + 1 <= n) /\ n + 1 # 0 /\ (n + 1) - 1 = n
          BY <1>1
        <5>2. g[n + 1] = f[n] + s[n + 1] /\ g[n] = f[n]
          BY <2>2, <5>1
        <5> QED BY <4>3, <5>1, <5>2
      <4> QED BY <1>1, <4>1, <4>2, <4>3
    <3>2. g = [i \in 0..(n + 1) |-> g[i]]
      BY <2>2
    <3> QED BY <3>1, <3>2
  <2>4. n + 1 \in 0..Len(s)
    BY <1>1
  <2> QED BY <2>3, <2>4
<1>4. \A k \in 0..Len(s) : k \in Good
  <2> HIDE DEF Good
  <2> QED BY <1>1, <1>2, <1>3, SL!UpTo
<1>5. Len(s) \in Good
  BY <1>1, <1>4
<1> QED BY <1>5 DEF SumBody

-----------------------------------------------------------------------------
(***************************************************************************)
(* The sum of a function over the subsets of its domain, and its value at  *)
(* the whole domain, which is what FoldFunction gives for addition.        *)
(***************************************************************************)
SumOf(f) == FoldFunction(+, 0, f)

Taken(T) == CHOOSE x \in T : TRUE

TotalBody(f, h) ==
  [T \in SUBSET DOMAIN f |-> IF T = {} THEN 0 ELSE f[Taken(T)] + h[T \ {Taken(T)}]]

Totals(f) == CHOOSE h : h = TotalBody(f, h)

LEMMA TotalIsFold ==
  ASSUME NEW f PROVE SumOf(f) = Totals(f)[DOMAIN f]
BY Zenon DEF SumOf, FoldFunction, FoldFunctionOnSet, MapThenFoldSet, Totals, TotalBody, Taken

LEMMA TakenIs ==
  ASSUME NEW S, IsFiniteSet(S), NEW T \in SUBSET S, T # {}
  PROVE  /\ Taken(T) \in T /\ T \ {Taken(T)} \in SUBSET S
         /\ IsFiniteSet(T) /\ Cardinality(T) \in Nat
         /\ Cardinality(T \ {Taken(T)}) = Cardinality(T) - 1
<1>1. Taken(T) \in T
  BY Zenon DEF Taken
<1>2. IsFiniteSet(T)
  BY FS_Subset
<1> QED BY <1>1, <1>2, FS_CardinalityType, FS_RemoveElement

LEMMA SmallSubsets ==
  ASSUME NEW S, IsFiniteSet(S), NEW T \in SUBSET S
  PROVE  /\ IsFiniteSet(T) /\ Cardinality(T) \in 0..Cardinality(S) /\ Cardinality(S) \in Nat
         /\ Cardinality(T) = 0 <=> T = {}
BY FS_Subset, FS_CardinalityType, FS_EmptySet

LEMMA TotalsExist ==
  ASSUME NEW f, IsFiniteSet(DOMAIN f)
  PROVE  \E h : h = TotalBody(f, h)
<1> DEFINE D == DOMAIN f
           Small(n) == {T \in SUBSET D : Cardinality(T) <= n}
           Part(n, h) == h = [T \in Small(n) |->
                                IF T = {} THEN 0 ELSE f[Taken(T)] + h[T \ {Taken(T)}]]
           Good == {n \in 0..Cardinality(D) : \E h : Part(n, h)}
<1>1. Cardinality(D) \in Nat
  BY FS_CardinalityType
<1>2. 0 \in Good
  <2>1. PICK h : h = [T \in Small(0) |-> 0]
    OBVIOUS
  <2>2. ASSUME NEW T \in Small(0) PROVE T = {}
    BY SmallSubsets
  <2>3. Part(0, h)
    BY <2>1, <2>2
  <2> HIDE DEF Part, D
  <2> QED BY <1>1, <2>3
<1>3. ASSUME NEW n \in 0..(Cardinality(D) - 1), n \in Good PROVE n + 1 \in Good
  <2>1. PICK h : Part(n, h)
    BY <1>3
  <2>2. PICK g : g = [T \in Small(n + 1) |->
                        IF Cardinality(T) <= n THEN h[T]
                        ELSE IF T = {} THEN 0 ELSE f[Taken(T)] + h[T \ {Taken(T)}]]
    OBVIOUS
  <2>3. ASSUME NEW T \in Small(n + 1)
        PROVE  g[T] = IF T = {} THEN 0 ELSE f[Taken(T)] + g[T \ {Taken(T)}]
    <3>1. T \in SUBSET D /\ Cardinality(T) \in Nat /\ Cardinality(T) <= n + 1 /\ n \in Nat
      BY <1>1, SmallSubsets
    <3>2. CASE T = {}
      <4>1. Cardinality(T) = 0
        BY <3>1, <3>2, SmallSubsets
      <4>2. T \in Small(n)
        BY <3>1, <4>1
      <4>3. h[T] = 0
        BY <2>1, <3>2, <4>2
      <4> QED BY <2>2, <3>1, <3>2, <4>1, <4>3
    <3>3. CASE T # {}
      <4>1. PICK R : R = T \ {Taken(T)}
        OBVIOUS
      <4>2. R \in SUBSET D /\ Cardinality(R) = Cardinality(T) - 1
        BY <3>1, <3>3, <4>1, TakenIs
      <4>3. Cardinality(R) <= n /\ R \in Small(n + 1)
        BY <3>1, <4>2
      <4>4. g[R] = h[R]
        BY <2>2, <4>3
      <4>5. CASE Cardinality(T) <= n
        <5>1. T \in Small(n)
          BY <3>1, <4>5
        <5>2. h[T] = f[Taken(T)] + h[R]
          BY <2>1, <3>3, <4>1, <5>1
        <5> QED BY <2>2, <3>3, <4>1, <4>4, <4>5, <5>2
      <4>6. CASE ~(Cardinality(T) <= n)
        BY <2>2, <3>3, <4>1, <4>4, <4>6
      <4> QED BY <4>5, <4>6
    <3> QED BY <3>2, <3>3
  <2>4. Part(n + 1, g)
    BY <2>2, <2>3
  <2>5. n + 1 \in 0..Cardinality(D)
    BY <1>1
  <2> QED BY <2>4, <2>5
<1>4. \A k \in 0..Cardinality(D) : k \in Good
  <2> HIDE DEF Good, D
  <2> QED BY <1>1, <1>2, <1>3, SL!UpTo
<1>5. PICK h : Part(Cardinality(D), h)
  <2>1. Cardinality(D) \in Good
    <3> HIDE DEF Good, D
    <3> QED BY <1>1, <1>4
  <2> QED BY <2>1
<1>6. Small(Cardinality(D)) = SUBSET D
  BY SmallSubsets
<1>7. h = TotalBody(f, h)
  BY <1>5, <1>6 DEF TotalBody
<1> QED BY <1>7

LEMMA TotalsStep ==
  ASSUME NEW f, IsFiniteSet(DOMAIN f), NEW T \in SUBSET DOMAIN f
  PROVE  Totals(f)[T] = IF T = {} THEN 0 ELSE f[Taken(T)] + Totals(f)[T \ {Taken(T)}]
<1>1. PICK h : h = Totals(f)
  OBVIOUS
<1>2. h = TotalBody(f, h)
  BY <1>1, TotalsExist, Zenon DEF Totals
<1>3. h[T] = IF T = {} THEN 0 ELSE f[Taken(T)] + h[T \ {Taken(T)}]
  BY <1>2, Zenon DEF TotalBody
<1> QED BY <1>1, <1>3

(***************************************************************************)
(* The total over T depends on the values on T only.                       *)
(***************************************************************************)
LEMMA TotalsAgree ==
  ASSUME NEW f, NEW g, IsFiniteSet(DOMAIN f), IsFiniteSet(DOMAIN g),
         NEW S \in SUBSET DOMAIN f, S \in SUBSET DOMAIN g, \A x \in S : f[x] = g[x]
  PROVE  Totals(f)[S] = Totals(g)[S]
<1> DEFINE Good == {n \in 0..Cardinality(S) :
                      \A T \in SUBSET S : Cardinality(T) = n => Totals(f)[T] = Totals(g)[T]}
<1>1. IsFiniteSet(S) /\ Cardinality(S) \in Nat
  BY FS_Subset, FS_CardinalityType
<1>2. 0 \in Good
  <2>1. ASSUME NEW T \in SUBSET S, Cardinality(T) = 0 PROVE Totals(f)[T] = Totals(g)[T]
    <3>1. T = {} /\ T \in SUBSET DOMAIN f /\ T \in SUBSET DOMAIN g
      BY <1>1, <2>1, SmallSubsets
    <3> QED BY <3>1, TotalsStep
  <2> QED BY <1>1, <2>1
<1>3. ASSUME NEW n \in 0..(Cardinality(S) - 1), n \in Good PROVE n + 1 \in Good
  <2>1. ASSUME NEW T \in SUBSET S, Cardinality(T) = n + 1 PROVE Totals(f)[T] = Totals(g)[T]
    <3>1. n \in Nat /\ n + 1 # 0
      BY <1>1
    <3>2. T # {}
      BY <1>1, <2>1, <3>1, SmallSubsets
    <3>3. PICK x, R : x = Taken(T) /\ R = T \ {x}
      OBVIOUS
    <3>4. x \in T /\ R \in SUBSET S /\ Cardinality(R) = n
      BY <1>1, <2>1, <3>1, <3>2, <3>3, TakenIs
    <3>5. Totals(f)[R] = Totals(g)[R]
      BY <1>3, <3>4
    <3>6. T \in SUBSET DOMAIN f /\ T \in SUBSET DOMAIN g
      OBVIOUS
    <3>7. Totals(f)[T] = f[x] + Totals(f)[R] /\ Totals(g)[T] = g[x] + Totals(g)[R]
      BY <3>2, <3>3, <3>6, TotalsStep
    <3>8. f[x] = g[x]
      BY <3>4
    <3> QED BY <3>5, <3>7, <3>8
  <2>2. n + 1 \in 0..Cardinality(S)
    BY <1>1
  <2> QED BY <2>1, <2>2
<1>4. \A k \in 0..Cardinality(S) : k \in Good
  <2> HIDE DEF Good
  <2> QED BY <1>1, <1>2, <1>3, SL!UpTo
<1>5. Cardinality(S) \in Good
  <2> HIDE DEF Good
  <2> QED BY <1>1, <1>4
<1> QED BY <1>5

LEMMA TotalsType ==
  ASSUME NEW f, NEW S, IsFiniteSet(S), f \in [S -> Nat]
  PROVE  \A T \in SUBSET S : Totals(f)[T] \in Nat
<1> DEFINE Good == {n \in 0..Cardinality(S) :
                      \A T \in SUBSET S : Cardinality(T) = n => Totals(f)[T] \in Nat}
<1>0. DOMAIN f = S
  OBVIOUS
<1>1. Cardinality(S) \in Nat
  BY FS_CardinalityType
<1>2. 0 \in Good
  <2>1. ASSUME NEW T \in SUBSET S, Cardinality(T) = 0 PROVE Totals(f)[T] \in Nat
    <3>1. T = {}
      BY <2>1, SmallSubsets
    <3>2. Totals(f)[T] = 0
      BY <1>0, <3>1, TotalsStep
    <3> QED BY <3>2
  <2> QED BY <1>1, <2>1
<1>3. ASSUME NEW n \in 0..(Cardinality(S) - 1), n \in Good PROVE n + 1 \in Good
  <2>1. ASSUME NEW T \in SUBSET S, Cardinality(T) = n + 1 PROVE Totals(f)[T] \in Nat
    <3>1. n \in Nat /\ n + 1 # 0
      BY <1>1
    <3>2. T # {}
      BY <2>1, <3>1, SmallSubsets
    <3>3. PICK x, R : x = Taken(T) /\ R = T \ {x}
      OBVIOUS
    <3>4. x \in T /\ R \in SUBSET S /\ Cardinality(R) = n
      BY <2>1, <3>1, <3>2, <3>3, TakenIs
    <3>5. Totals(f)[R] \in Nat /\ f[x] \in Nat
      BY <1>3, <3>4
    <3>6. Totals(f)[T] = f[x] + Totals(f)[R]
      BY <1>0, <3>2, <3>3, TotalsStep
    <3> QED BY <3>5, <3>6
  <2>2. n + 1 \in 0..Cardinality(S)
    BY <1>1
  <2> QED BY <2>1, <2>2
<1>4. \A k \in 0..Cardinality(S) : k \in Good
  <2> HIDE DEF Good
  <2> QED BY <1>1, <1>2, <1>3, SL!UpTo
<1>5. ASSUME NEW T \in SUBSET S PROVE Totals(f)[T] \in Nat
  <2>1. Cardinality(T) \in 0..Cardinality(S)
    BY SmallSubsets
  <2>2. Cardinality(T) \in Good
    <3> HIDE DEF Good
    <3> QED BY <1>4, <2>1
  <2> QED BY <2>2
<1> QED BY <1>5

(***************************************************************************)
(* Any element may be taken first.                                         *)
(***************************************************************************)
LEMMA TotalsAnyFirst ==
  ASSUME NEW f, NEW S, IsFiniteSet(S), f \in [S -> Nat]
  PROVE  \A T \in SUBSET S : \A y \in T : Totals(f)[T] = f[y] + Totals(f)[T \ {y}]
<1> DEFINE Fine(T) == \A y \in T : Totals(f)[T] = f[y] + Totals(f)[T \ {y}]
           Good == {n \in 0..Cardinality(S) : \A T \in SUBSET S : Cardinality(T) = n => Fine(T)}
<1>0. DOMAIN f = S
  OBVIOUS
<1>1. Cardinality(S) \in Nat
  BY FS_CardinalityType
<1>2. 0 \in Good
  <2>1. ASSUME NEW T \in SUBSET S, Cardinality(T) = 0 PROVE Fine(T)
    <3>1. T = {}
      BY <2>1, SmallSubsets
    <3> QED BY <3>1
  <2> HIDE DEF Fine
  <2> QED BY <1>1, <2>1
<1>3. ASSUME NEW n \in 0..(Cardinality(S) - 1), n \in Good PROVE n + 1 \in Good
  <2>1. ASSUME NEW T \in SUBSET S, Cardinality(T) = n + 1 PROVE Fine(T)
    <3>1. n \in Nat /\ n + 1 # 0
      BY <1>1
    <3>2. T # {} /\ IsFiniteSet(T)
      BY <2>1, <3>1, SmallSubsets
    <3>3. PICK x : x = Taken(T)
      OBVIOUS
    <3>4. x \in T
      BY <3>2, <3>3, TakenIs
    <3>5. ASSUME NEW y \in T PROVE T \ {y} \in SUBSET S /\ Cardinality(T \ {y}) = n
      <4>1. Cardinality(T \ {y}) = Cardinality(T) - 1
        BY <3>2, FS_RemoveElement
      <4> QED BY <2>1, <3>1, <4>1
    <3>6. ASSUME NEW y \in T PROVE Fine(T \ {y})
      <4> HIDE DEF Fine
      <4> QED BY <1>3, <3>5
    <3>7. Totals(f)[T] = f[x] + Totals(f)[T \ {x}]
      BY <1>0, <3>2, <3>3, TotalsStep
    <3>9. ASSUME NEW y \in T PROVE Totals(f)[T] = f[y] + Totals(f)[T \ {y}]
      <4>1. CASE y = x
        BY <3>7, <4>1
      <4>2. CASE y # x
        <5>1. PICK R : R = (T \ {x}) \ {y} /\ R = (T \ {y}) \ {x}
          OBVIOUS
        <5>2. y \in T \ {x} /\ x \in T \ {y}
          BY <3>4, <4>2
        <5>3. Totals(f)[T \ {x}] = f[y] + Totals(f)[R]
          BY <3>4, <3>6, <5>1, <5>2
        <5>4. Totals(f)[T \ {y}] = f[x] + Totals(f)[R]
          BY <3>6, <5>1, <5>2
        <5>5. f[x] \in Nat /\ f[y] \in Nat /\ Totals(f)[R] \in Nat
          <6>1. R \in SUBSET S
            BY <5>1
          <6> QED BY <3>4, <6>1, TotalsType
        <5> QED BY <3>7, <5>3, <5>4, <5>5
      <4> QED BY <4>1, <4>2
    <3> QED BY <3>9
  <2>2. n + 1 \in 0..Cardinality(S)
    BY <1>1
  <2> HIDE DEF Fine
  <2> QED BY <2>1, <2>2
<1>4. \A k \in 0..Cardinality(S) : k \in Good
  <2> HIDE DEF Good
  <2> QED BY <1>1, <1>2, <1>3, SL!UpTo
<1>5. ASSUME NEW T \in SUBSET S PROVE Fine(T)
  <2>1. Cardinality(T) \in 0..Cardinality(S)
    BY SmallSubsets
  <2>2. Cardinality(T) \in Good
    <3> HIDE DEF Good
    <3> QED BY <1>4, <2>1
  <2> HIDE DEF Fine
  <2> QED BY <2>2
<1> QED BY <1>5

(***************************************************************************)
(* The loop of mean() computes the total of the samples, in whatever order *)
(* they are added.                                                         *)
(***************************************************************************)
LEMMA SumIsTotal ==
  ASSUME NEW s \in Seq(Nat)
  PROVE  sum(s) = SumOf([i \in 1..Len(s) |-> s[i]])
<1>1. /\ Len(s) \in Nat
      /\ \A i \in 1..Len(s) : s[i] \in Nat
  BY SampleType
<1>2. PICK f : f = SumBody(s, f) /\ sum(s) = f[Len(s)]
  <2>1. PICK f : f = CHOOSE g : g = SumBody(s, g)
    OBVIOUS
  <2>2. f = SumBody(s, f)
    BY <2>1, SumExists, Zenon
  <2> QED BY <2>1, <2>2, SumChoice
<1>3. PICK h : h = [i \in 1..Len(s) |-> s[i]]
  OBVIOUS
<1>4. h \in [1..Len(s) -> Nat] /\ DOMAIN h = 1..Len(s) /\ IsFiniteSet(1..Len(s))
  BY <1>1, <1>3, OneTo
<1> DEFINE Good == {k \in 0..Len(s) : f[k] = Totals(h)[1..k]}
<1>5. 0 \in Good
  <2>1. f[0] = 0
    BY <1>1, <1>2 DEF SumBody
  <2>2. 1..0 = {} /\ {} \in SUBSET DOMAIN h
    OBVIOUS
  <2>3. Totals(h)[{}] = 0
    BY <1>4, <2>2, TotalsStep
  <2> QED BY <1>1, <2>1, <2>2, <2>3
<1>6. ASSUME NEW k \in 0..(Len(s) - 1), k \in Good PROVE k + 1 \in Good
  <2>1. k + 1 \in 1..Len(s) /\ k + 1 \in 0..Len(s) /\ k + 1 # 0 /\ (k + 1) - 1 = k
    BY <1>1
  <2>2. f[k + 1] = f[k] + s[k + 1]
    BY <1>2, <2>1 DEF SumBody
  <2>3. PICK T, y : T = 1..(k + 1) /\ y = k + 1
    OBVIOUS
  <2>4. T \in SUBSET (1..Len(s)) /\ y \in T /\ T \ {y} = 1..k /\ 1..k \in SUBSET (1..Len(s))
    BY <1>1, <2>3
  <2>5. Totals(h)[T] = h[y] + Totals(h)[1..k]
    <3>1. \A R \in SUBSET (1..Len(s)) : \A z \in R : Totals(h)[R] = h[z] + Totals(h)[R \ {z}]
      BY <1>4, TotalsAnyFirst, Zenon
    <3>2. Totals(h)[T] = h[y] + Totals(h)[T \ {y}]
      BY <2>4, <3>1
    <3> QED BY <2>4, <3>2
  <2>6. Totals(h)[1..k] \in Nat /\ h[y] = s[k + 1] /\ s[k + 1] \in Nat
    BY <1>1, <1>3, <1>4, <2>1, <2>3, <2>4, TotalsType
  <2>7. f[k] = Totals(h)[1..k]
    BY <1>6
  <2>8. f[k + 1] = Totals(h)[1..(k + 1)]
    <3>1. PICK a \in Nat, b \in Nat : a = Totals(h)[1..k] /\ b = s[k + 1]
      BY <2>6
    <3>2. f[k + 1] = a + b /\ Totals(h)[T] = b + a
      BY <2>2, <2>5, <2>6, <2>7, <3>1
    <3>3. a + b = b + a
      OBVIOUS
    <3> QED BY <2>3, <3>2, <3>3
  <2> QED BY <2>1, <2>8
<1>7. \A k \in 0..Len(s) : k \in Good
  <2> HIDE DEF Good
  <2> QED BY <1>1, <1>5, <1>6, SL!UpTo
<1>8. f[Len(s)] = Totals(h)[1..Len(s)]
  <2>1. Len(s) \in Good
    BY <1>1, <1>7
  <2> QED BY <2>1
<1> QED BY <1>2, <1>3, <1>4, <1>8, TotalIsFold

(***************************************************************************)
(* The total of the table's counts when one of them, or a new one, grows   *)
(* by one.                                                                 *)
(***************************************************************************)
LEMMA TotalsRemove ==
  ASSUME NEW U, IsFiniteSet(U), NEW h \in [U -> Nat], NEW y \in U
  PROVE  Totals(h)[U] = h[y] + Totals(h)[U \ {y}]
<1>1. \A T \in SUBSET U : \A z \in T : Totals(h)[T] = h[z] + Totals(h)[T \ {z}]
  BY TotalsAnyFirst, Zenon
<1> QED BY <1>1

LEMMA FoldEmpty ==
  ASSUME NEW f, DOMAIN f = {} PROVE SumOf(f) = 0
BY FS_EmptySet, TotalIsFold, TotalsStep

LEMMA TotalsSwap ==
  ASSUME NEW U, IsFiniteSet(U), NEW S, IsFiniteSet(S), NEW g \in [U -> Nat], NEW f \in [S -> Nat],
         NEW e \in U, U \ {e} = S \ {e}, \A x \in S \ {e} : f[x] = g[x]
  PROVE  Totals(g)[U] = g[e] + Totals(f)[S \ {e}]
<1>1. Totals(g)[U] = g[e] + Totals(g)[U \ {e}]
  BY TotalsRemove, Zenon
<1>2. PICK W : W = S \ {e}
  OBVIOUS
<1>3. /\ IsFiniteSet(DOMAIN f) /\ IsFiniteSet(DOMAIN g)
      /\ W \in SUBSET DOMAIN f /\ W \in SUBSET DOMAIN g /\ \A x \in W : f[x] = g[x]
  BY <1>2
<1>4. Totals(f)[W] = Totals(g)[W]
  BY <1>3, TotalsAgree
<1> QED BY <1>1, <1>2, <1>4

LEMMA FoldGrows ==
  ASSUME NEW S, IsFiniteSet(S), NEW f \in [S -> Nat], NEW e, NEW g \in [S \cup {e} -> Nat],
         g[e] = (IF e \in S THEN f[e] ELSE 0) + 1, \A x \in S \ {e} : g[x] = f[x]
  PROVE  SumOf(g) = SumOf(f) + 1
<1>1. PICK U : U = S \cup {e}
  OBVIOUS
<1>2. IsFiniteSet(U) /\ e \in U /\ U \ {e} = S \ {e}
  BY <1>1, FS_AddElement
<1>3. DOMAIN f = S /\ DOMAIN g = U /\ g \in [U -> Nat]
  BY <1>1
<1>4. Totals(g)[U] = g[e] + Totals(f)[S \ {e}]
  BY <1>2, <1>3, TotalsSwap
<1>5. Totals(f)[S \ {e}] \in Nat /\ Totals(f)[S] \in Nat
  BY TotalsType
<1>6. CASE e \in S
  <2>1. Totals(f)[S] = f[e] + Totals(f)[S \ {e}] /\ g[e] = f[e] + 1 /\ f[e] \in Nat
    BY <1>6, TotalsRemove
  <2>2. Totals(g)[U] = Totals(f)[S] + 1
    BY <1>4, <1>5, <2>1
  <2> QED BY <1>3, <2>2, TotalIsFold
<1>7. CASE e \notin S
  <2>1. S \ {e} = S /\ g[e] = 1
    BY <1>7
  <2>2. Totals(g)[U] = Totals(f)[S] + 1
    BY <1>4, <1>5, <2>1
  <2> QED BY <1>3, <2>2, TotalIsFold
<1> QED BY <1>6, <1>7

-----------------------------------------------------------------------------
(***************************************************************************)
(* A row made from samples that are not none tells the truth about them.   *)
(***************************************************************************)
LEMMA PercentileTrue ==
  ASSUME NEW s \in Seq(Nat), s # <<>>, NEW p \in 0..99, NEW n, n = Len(s), NEW v, v = percentile(s, p)
  PROVE  /\ 100 * Below(s, n, v) <= p * n /\ 100 * UpTo(s, n, v) > p * n
         /\ v \in Nat /\ min(s) <= v /\ v <= max(s)
<1>1. PICK k \in 1..Len(s) :
        /\ v = s[k]
        /\ 100 * (Place(s, k) - 1) <= p * Len(s) /\ p * Len(s) < 100 * Place(s, k)
  BY PercentileIs
<1>2. n \in Nat /\ s[k] \in Nat /\ p * n \in Nat
  <2>1. n \in Nat /\ s[k] \in Nat
    BY SampleType
  <2>2. p * n \in Nat
    BY <2>1, Z3
  <2> QED BY <2>1, <2>2
<1>3. PICK b, u, q, m :
        /\ b = Below(s, n, v) /\ u = UpTo(s, n, v)
        /\ q = Place(s, k) /\ m = p * n
  OBVIOUS
<1>4. 100 * b <= m /\ 100 * u > m
  <2>1. b \in 0..(q - 1) /\ u \in q..n
    BY <1>1, <1>3, PlaceCounts
  <2>2. q \in 1..n /\ m \in Nat
    BY <1>2, <1>3, BeforeIs
  <2>3. 100 * (q - 1) <= m /\ m < 100 * q
    BY <1>1, <1>3
  <2>4. q \in Nat /\ b \in Nat /\ u \in Nat /\ b <= q - 1 /\ q <= u
    BY <1>2, <2>1, <2>2
  <2> QED BY <2>2, <2>3, <2>4
<1>5. min(s) <= v /\ v <= max(s)
  BY <1>1, MinIs, MaxIs
<1> QED BY <1>1, <1>2, <1>3, <1>4, <1>5

LEMMA PercentilesOrdered ==
  ASSUME NEW s \in Seq(Nat), s # <<>>, NEW p \in 0..99, NEW q \in 0..99, p <= q
  PROVE  percentile(s, p) <= percentile(s, q)
<1>1. PICK n \in Nat : n = Len(s)
  BY SampleType
<1>2. PICK i \in 1..n : percentile(s, p) = s[i] /\ Place(s, i) = (p * n) \div 100 + 1
  BY <1>1, PercentileIs
<1>3. PICK j \in 1..n : percentile(s, q) = s[j] /\ Place(s, j) = (q * n) \div 100 + 1
  BY <1>1, PercentileIs
<1>4. p * n \in Nat /\ q * n \in Nat /\ p * n <= q * n
  <2>1. PICK d \in Nat : q = p + d
    <3>1. q - p \in Nat /\ q = p + (q - p)
      OBVIOUS
    <3> QED BY <3>1
  <2>2. q * n = p * n + d * n /\ d * n \in Nat /\ p * n \in Nat
    BY <2>1, Z3
  <2> QED BY <2>2
<1>5. (p * n) \div 100 + 1 <= (q * n) \div 100 + 1
  <2>1. PICK a \in Nat, b \in Nat : a = p * n /\ b = q * n /\ a <= b
    BY <1>4
  <2>2. a \div 100 + 1 <= b \div 100 + 1
    BY <2>1
  <2> QED BY <2>1, <2>2
<1>6. Place(s, i) <= Place(s, j)
  BY <1>2, <1>3, <1>5
<1> QED BY <1>1, <1>2, <1>3, <1>6, PlaceOrder

LEMMA EndsCounted ==
  ASSUME NEW s \in Seq(Nat), s # <<>>, NEW n, n = Len(s)
  PROVE  Below(s, n, min(s)) = 0 /\ UpTo(s, n, max(s)) = n
<1>1. n \in Nat /\ \A i \in 1..n : s[i] \in Nat
  BY SampleType
<1>2. {i \in 1..n : s[i] < min(s)} = {}
  <2>1. ASSUME NEW i \in 1..n PROVE ~(s[i] < min(s))
    <3>1. min(s) \in Nat /\ min(s) <= s[i] /\ s[i] \in Nat
      BY <1>1, MinIs
    <3> QED BY <3>1
  <2> QED BY <2>1
<1>3. {i \in 1..n : s[i] <= max(s)} = 1..n
  BY MaxIs
<1> QED BY <1>1, <1>2, <1>3, OneTo, FS_EmptySet DEF Below, UpTo

-----------------------------------------------------------------------------
(***************************************************************************)
(* The inductive invariant: besides KeepsFirstSamples, the types it needs, *)
(* that only finitely many events were ever recorded, and that the total   *)
(* is that of the counts that print_table shows.                           *)
(***************************************************************************)
Shown == {e \in DOMAIN histograms : histograms[e].total_count # 0}

Counts == [e \in Shown |-> histograms[e].total_count]

BenchInv ==
  /\ log \in [EventNames -> Seq(Latencies)] /\ KeepsFirstSamples
  /\ IsFiniteSet(DOMAIN histograms)
  /\ total_messages = SumOf(Counts)

LEMMA CountsType ==
  ASSUME BenchInv
  PROVE  Counts \in [Shown -> Nat] /\ IsFiniteSet(Shown) /\ total_messages = SumOf(Counts)
<1>1. ASSUME NEW e \in DOMAIN histograms PROVE histograms[e].total_count \in Nat
  <2>1. e \in EventNames /\ log[e] \in Seq(Latencies) /\ Hist(e) = histograms[e]
    BY KeepsByEvent DEF BenchInv, Hist
  <2>2. histograms[e].total_count = Len(log[e])
    BY <2>1, KeepsByEvent DEF BenchInv
  <2> QED BY <2>1, <2>2, LenProperties
<1>2. Shown \in SUBSET DOMAIN histograms
  BY DEF Shown
<1>3. IsFiniteSet(Shown)
  BY <1>2, FS_Subset DEF BenchInv
<1>4. Counts \in [Shown -> Nat]
  BY <1>1, <1>2 DEF Counts
<1> QED BY <1>3, <1>4 DEF BenchInv

LEMMA BenchInitInv == BenchInit => BenchInv
<1> SUFFICES ASSUME BenchInit PROVE BenchInv
  OBVIOUS
<1>1. \A e \in EventNames : log[e] = <<>> /\ Hist(e) = NewHistogram
  BY DEF BenchInit, Hist
<1>2. DOMAIN histograms = {}
  BY DEF BenchInit
<1>3. KeepsFirstSamples
  BY <1>1, <1>2, EmptyKeeps, KeepsByEvent
<1>4. log \in [EventNames -> Seq(Latencies)]
  BY DEF BenchInit
<1>5. DOMAIN Counts = {}
  BY <1>2 DEF Counts, Shown
<1>6. total_messages = 0
  BY DEF BenchInit
<1> QED BY <1>2, <1>3, <1>4, <1>5, <1>6, FoldEmpty, FS_EmptySet DEF BenchInv

(***************************************************************************)
(* record() raises one count by one, or makes one that is one.             *)
(***************************************************************************)
LEMMA RecordCounts ==
  ASSUME BenchInv, NEW e \in EventNames, NEW us \in Latencies, Record(e, us)
  PROVE  total_messages' = SumOf(Counts')
<1>1. Counts \in [Shown -> Nat] /\ IsFiniteSet(Shown) /\ total_messages = SumOf(Counts)
  BY CountsType
<1>2. Hist(e).total_count = IF e \in Shown THEN Counts[e] ELSE 0
  BY DEF Hist, Shown, Counts, NewHistogram
<1>3. (IF e \in Shown THEN Counts[e] ELSE 0) \in Nat
  BY <1>1
<1>4. DOMAIN histograms' = DOMAIN histograms \cup {e}
  BY DEF Record
<1>5. histograms'[e].total_count = (IF e \in Shown THEN Counts[e] ELSE 0) + 1
  <2>1. histograms'[e] = record(Hist(e), us)
    BY DEF Record, Hist
  <2> QED BY <1>2, <2>1 DEF record
<1>6. ASSUME NEW f \in DOMAIN histograms, f # e PROVE histograms'[f] = histograms[f]
  BY <1>6 DEF Record
<1>7. Shown' = Shown \cup {e}
  <2>1. histograms'[e].total_count # 0
    <3>1. PICK c \in Nat : c = IF e \in Shown THEN Counts[e] ELSE 0
      BY <1>3
    <3> QED BY <1>5, <3>1
  <2> QED BY <1>4, <1>6, <2>1 DEF Shown
<1>8. /\ Counts'[e] = (IF e \in Shown THEN Counts[e] ELSE 0) + 1
      /\ \A x \in Shown \ {e} : Counts'[x] = Counts[x]
  BY <1>5, <1>6, <1>7 DEF Counts, Shown
<1>9. Counts' \in [Shown \cup {e} -> Nat]
  <2>1. DOMAIN Counts' = Shown \cup {e} /\ Counts' = [x \in Shown \cup {e} |-> Counts'[x]]
    BY <1>7 DEF Counts
  <2>2. ASSUME NEW x \in Shown \cup {e} PROVE Counts'[x] \in Nat
    <3>1. CASE x = e
      <4>1. PICK c \in Nat : c = IF e \in Shown THEN Counts[e] ELSE 0
        BY <1>3
      <4> QED BY <1>8, <3>1, <4>1
    <3>2. CASE x # e
      BY <1>1, <1>8, <3>2
    <3> QED BY <3>1, <3>2
  <2> QED BY <2>1, <2>2
<1>10. SumOf(Counts') = SumOf(Counts) + 1
  BY <1>1, <1>8, <1>9, FoldGrows
<1> QED BY <1>1, <1>10 DEF Record

LEMMA BenchNextInv == BenchInv /\ [BenchNext]_benchVars => BenchInv'
<1> SUFFICES ASSUME BenchInv, [BenchNext]_benchVars PROVE BenchInv'
  OBVIOUS
<1>t. log \in [EventNames -> Seq(Latencies)]
  BY DEF BenchInv
<1>k. /\ \A e \in EventNames : /\ Hist(e).total_count = Len(log[e])
                               /\ Hist(e).samples = SubSeq(log[e], 1, Kept(Len(log[e])))
      /\ DOMAIN histograms \subseteq EventNames
  BY KeepsByEvent DEF BenchInv
<1>p. KeepsFirstSamples' <=>
        /\ \A e \in EventNames : /\ Hist(e)'.total_count = Len(log'[e])
                                 /\ Hist(e)'.samples = SubSeq(log'[e], 1, Kept(Len(log'[e])))
        /\ DOMAIN histograms' \subseteq EventNames
  BY DEF KeepsFirstSamples, Hist, Kept, NewHistogram
<1>1. ASSUME NEW e \in EventNames, NEW us \in Latencies, Record(e, us) PROVE BenchInv'
  <2>1. log' \in [EventNames -> Seq(Latencies)]
    BY <1>1, <1>t, AppendProperties DEF Record
  <2>2. DOMAIN histograms' = DOMAIN histograms \cup {e}
    BY <1>1 DEF Record
  <2>3. ASSUME NEW f \in EventNames
        PROVE  /\ Hist(f)'.total_count = Len(log'[f])
               /\ Hist(f)'.samples = SubSeq(log'[f], 1, Kept(Len(log'[f])))
    <3>1. CASE f = e
      <4>1. Hist(f)' = record(Hist(f), us)
        BY <1>1, <2>2, <3>1 DEF Record, Hist
      <4>2. log'[f] = Append(log[f], us)
        BY <1>1, <1>t, <3>1 DEF Record
      <4>3. log[f] \in Seq(Latencies)
        BY <1>t
      <4> QED BY <4>1, <4>2, <4>3, <1>k, RecordKeeps
    <3>2. CASE f # e
      <4>1. Hist(f)' = Hist(f)
        BY <1>1, <2>2, <3>2 DEF Record, Hist, NewHistogram
      <4>2. log'[f] = log[f]
        BY <1>1, <1>t, <3>2 DEF Record
      <4> QED BY <4>1, <4>2, <1>k
    <3> QED BY <3>1, <3>2
  <2>4. IsFiniteSet(DOMAIN histograms')
    BY <2>2, FS_AddElement DEF BenchInv
  <2>5. total_messages' = SumOf(Counts')
    BY <1>1, RecordCounts
  <2> QED BY <1>k, <1>p, <2>1, <2>2, <2>3, <2>4, <2>5 DEF BenchInv
<1>2. CASE Reset
  <2>1. log' \in [EventNames -> Seq(Latencies)] /\ \A f \in EventNames : log'[f] = <<>>
    BY <1>2 DEF Reset
  <2>2. DOMAIN histograms' = DOMAIN histograms
    BY <1>2 DEF Reset
  <2>3. \A f \in EventNames : Hist(f)' = NewHistogram
    BY <1>2, <2>2 DEF Reset, Hist, reset, NewHistogram
  <2>4. DOMAIN Counts' = {}
    BY <1>2, <2>2 DEF Counts, Shown, Reset, reset, NewHistogram
  <2>5. total_messages' = SumOf(Counts')
    BY <1>2, <2>4, FoldEmpty DEF Reset
  <2> QED BY <1>k, <1>p, <2>1, <2>2, <2>3, <2>5, EmptyKeeps DEF BenchInv
<1>3. CASE UNCHANGED benchVars
  <2>1. Counts' = Counts
    BY <1>3 DEF benchVars, Counts, Shown
  <2> QED BY <1>3, <1>t, <1>k, <1>p, <2>1 DEF benchVars, BenchInv, Hist, NewHistogram
<1> QED BY <1>1, <1>2, <1>3 DEF BenchNext

(***************************************************************************)
(* A histogram holds the first MAX_SAMPLES latencies since the last        *)
(* reset() and counts all of them, whatever the limit and the calls of     *)
(* record() and reset().                                                   *)
(***************************************************************************)
THEOREM FirstSamplesKept == BenchSpec => []KeepsFirstSamples
<1>1. BenchInv => KeepsFirstSamples
  BY DEF BenchInv
<1> QED BY <1>1, BenchInitInv, BenchNextInv, PTL DEF BenchSpec

(***************************************************************************)
(* One row tells the truth about the samples that the histogram keeps.     *)
(***************************************************************************)
LEMMA RowTrue ==
  ASSUME BenchInv, NEW e \in Shown, NEW r, r = Row(histograms[e]), NEW n, n = Kept(Len(log[e]))
  PROVE  TellsTruth(r, log[e], n)
<1> USE BenchmarkAssumption
<1>1. e \in EventNames /\ log[e] \in Seq(Latencies) /\ Hist(e) = histograms[e]
  BY KeepsByEvent DEF BenchInv, Hist, Shown
<1>2. PICK s : s = histograms[e].samples
  OBVIOUS
<1>3. /\ histograms[e].total_count = Len(log[e]) /\ Len(log[e]) # 0
      /\ s = SubSeq(log[e], 1, n)
  BY <1>1, <1>2, KeepsByEvent DEF BenchInv, Shown
<1>4. Len(log[e]) \in Nat /\ n \in 1..Len(log[e]) /\ n \in Nat
  BY <1>1, <1>3, LenProperties DEF Kept
<1>5. \A i \in 1..n : log[e][i] \in Latencies
  BY <1>1, <1>4, ElementOfSeq
<1>6. s \in Seq(Nat) /\ Len(s) = n /\ \A i \in 1..n : s[i] = log[e][i]
  <2>1. /\ SubSeq(log[e], 1, n) \in Seq(Latencies) /\ Len(SubSeq(log[e], 1, n)) = n
        /\ \A i \in 1..n : SubSeq(log[e], 1, n)[i] = log[e][i]
    BY <1>1, <1>4, <1>5, SubSeqProperties
  <2>2. Seq(Latencies) \subseteq Seq(Nat)
    BY SL!SeqWider
  <2> QED BY <1>3, <2>1, <2>2
<1>7. s # <<>>
  BY <1>4, <1>6, EmptySeq
<1>8. r = [count |-> Len(log[e]), min |-> min(s), mean |-> mean(s), p50 |-> percentile(s, 50),
           p95 |-> percentile(s, 95), p99 |-> percentile(s, 99), max |-> max(s)]
  BY <1>2, <1>3, <1>7, Zenon DEF Row
<1>9. /\ r.count = Len(log[e]) /\ r.min = min(s) /\ r.mean = mean(s) /\ r.max = max(s)
      /\ r.p50 = percentile(s, 50) /\ r.p95 = percentile(s, 95) /\ r.p99 = percentile(s, 99)
  BY <1>8
<1>10. ASSUME NEW v PROVE Below(log[e], n, v) = Below(s, n, v) /\ UpTo(log[e], n, v) = UpTo(s, n, v)
  BY <1>6, SameCounts
<1>11. ASSUME NEW p \in 0..99 PROVE Quantile(log[e], n, percentile(s, p), p)
  <2>1. PICK v : v = percentile(s, p)
    OBVIOUS
  <2>2. 100 * Below(s, n, v) <= p * n /\ 100 * UpTo(s, n, v) > p * n
    BY <1>6, <1>7, <2>1, PercentileTrue
  <2>3. Quantile(log[e], n, v, p)
    BY <1>10, <2>2 DEF Quantile
  <2> QED BY <2>1, <2>3
<1>12. /\ min(s) <= percentile(s, 50) /\ percentile(s, 50) <= percentile(s, 95)
       /\ percentile(s, 95) <= percentile(s, 99) /\ percentile(s, 99) <= max(s)
  <2>1. 50 \in 0..99 /\ 95 \in 0..99 /\ 99 \in 0..99 /\ 50 <= 95 /\ 95 <= 99
    OBVIOUS
  <2>2. min(s) <= percentile(s, 50) /\ percentile(s, 99) <= max(s)
    BY <1>6, <1>7, <2>1, PercentileTrue
  <2>3. percentile(s, 50) <= percentile(s, 95) /\ percentile(s, 95) <= percentile(s, 99)
    BY <1>6, <1>7, <2>1, PercentilesOrdered
  <2> QED BY <2>2, <2>3
<1>13. Below(log[e], n, min(s)) = 0 /\ UpTo(log[e], n, max(s)) = n
  BY <1>6, <1>7, <1>10, EndsCounted
<1>14. /\ min(s) \in {log[e][i] : i \in 1..n} /\ max(s) \in {log[e][i] : i \in 1..n}
       /\ mean(s) = [sum |-> FoldFunction(+, 0, [i \in 1..n |-> log[e][i]]), size |-> n]
  <2>1. /\ \E i \in 1..n : min(s) = log[e][i]
        /\ \E i \in 1..n : max(s) = log[e][i]
    BY <1>6, <1>7, MinIs, MaxIs
  <2>2. [i \in 1..n |-> s[i]] = [i \in 1..n |-> log[e][i]]
    BY <1>6
  <2>3. sum(s) = SumOf([i \in 1..n |-> s[i]])
    BY <1>6, SumIsTotal
  <2>4. sum(s) = FoldFunction(+, 0, [i \in 1..n |-> log[e][i]])
    BY <2>2, <2>3, Zenon DEF SumOf
  <2>5. mean(s) = [sum |-> FoldFunction(+, 0, [i \in 1..n |-> log[e][i]]), size |-> n]
    BY <1>6, <2>4, Zenon DEF mean
  <2>6. min(s) \in {log[e][i] : i \in 1..n} /\ max(s) \in {log[e][i] : i \in 1..n}
    BY <2>1
  <2> QED BY <2>5, <2>6
<1>15. /\ Quantile(log[e], n, r.p50, 50) /\ Quantile(log[e], n, r.p95, 95)
       /\ Quantile(log[e], n, r.p99, 99)
  BY <1>9, <1>11
<1>16. /\ r.min <= r.p50 /\ r.p50 <= r.p95 /\ r.p95 <= r.p99 /\ r.p99 <= r.max
  BY <1>9, <1>12
<1>17. /\ r.min \in {log[e][i] : i \in 1..n} /\ Below(log[e], n, r.min) = 0
       /\ r.max \in {log[e][i] : i \in 1..n} /\ UpTo(log[e], n, r.max) = n
  BY <1>9, <1>13, <1>14, Zenon
<1>18. r.mean = [sum |-> FoldFunction(+, 0, [i \in 1..n |-> log[e][i]]), size |-> n]
  BY <1>9, <1>14, Zenon
<1> QED BY <1>9, <1>15, <1>16, <1>17, <1>18, Zenon DEF TellsTruth

(***************************************************************************)
(* Every row of the table tells the truth about its samples, for every     *)
(* sample limit, set of latencies and number of calls: count, percentiles, *)
(* ends and mean, and the counts add up to total_messages (percentile,     *)
(* min, max, mean, print_table).                                           *)
(***************************************************************************)
THEOREM RowsAlwaysStatistics == BenchSpec => []RowsAreStatistics
<1>1. ASSUME BenchInv PROVE RowsAreStatistics
  <2>1. DOMAIN print_table = Shown /\ \A e \in Shown : print_table[e] = Row(histograms[e])
    BY DEF print_table, Shown
  <2>2. ASSUME NEW e \in Shown PROVE print_table[e].count = histograms[e].total_count
    <3>1. Row(histograms[e]).count = histograms[e].total_count
      BY DEF Row
    <3> QED BY <2>1, <3>1
  <2>3. [e \in DOMAIN print_table |-> print_table[e].count] = Counts
    BY <2>1, <2>2 DEF Counts
  <2>4. total_messages = FoldFunction(+, 0, [e \in DOMAIN print_table |-> print_table[e].count])
    BY <1>1, <2>3, Zenon DEF BenchInv, SumOf
  <2>5. ASSUME NEW e \in DOMAIN to_json, e \notin DOMAIN print_table PROVE log[e] = <<>>
    <3>1. e \in DOMAIN histograms /\ histograms[e].total_count = 0
      BY <2>1, <2>5 DEF to_json, Shown
    <3>2. e \in EventNames /\ log[e] \in Seq(Latencies) /\ Hist(e) = histograms[e]
      BY <1>1, <3>1, KeepsByEvent DEF BenchInv, Hist
    <3>3. Len(log[e]) = 0
      BY <1>1, <3>1, <3>2, KeepsByEvent DEF BenchInv
    <3> QED BY <3>2, <3>3, EmptySeq
  <2>6. ASSUME NEW e \in DOMAIN print_table
        PROVE  TellsTruth(print_table[e], log[e], Kept(Len(log[e])))
    BY <1>1, <2>1, RowTrue
  <2> QED BY <2>4, <2>5, <2>6, Zenon DEF RowsAreStatistics, Kept
<1> QED BY <1>1, BenchInitInv, BenchNextInv, PTL DEF BenchSpec

-----------------------------------------------------------------------------
(***************************************************************************)
(* The answer to a request, by the kinds of answer handle gives.           *)
(***************************************************************************)
LEMMA NegativeMatches ==
  ASSUME NEW rq \in Seq(0..255), NEW nrc \in Nat,
         handle(rq) = negative_response(IF rq = <<>> THEN 0 ELSE rq[1], nrc),
         nrc = UDS_NRC_SERVICE_NOT_SUPPORTED <=> (IF rq = <<>> THEN 0 ELSE rq[1]) \notin Supported
  PROVE  ResponseMatch(rq)
<1>1. PICK sid : sid = IF rq = <<>> THEN 0 ELSE rq[1]
  OBVIOUS
<1>2. PICK b : b = <<UDS_NEGATIVE_RESPONSE, sid, nrc>>
  OBVIOUS
<1>3. b[1] = UDS_NEGATIVE_RESPONSE /\ b[2] = sid /\ b[3] = nrc /\ Len(b) = 3
  BY <1>2
<1>4. handle(rq).bytes = b /\ handle(rq).data = "none"
  BY <1>1, <1>2 DEF negative_response, Response
<1> QED
  BY <1>1, <1>3, <1>4, Zenon DEF ResponseMatch

LEMMA PositiveMatches ==
  ASSUME NEW rq \in Seq(0..255), rq # <<>>, rq[1] \in Supported,
         NEW b, handle(rq).bytes = b, b \in Seq(Nat), b[1] = rq[1] + 64,
         NEW k \in {1, 2}, k = IF rq[1] = UDS_READ_DATA_BY_ID THEN 2 ELSE 1,
         Len(rq) > k, Len(b) > k, \A i \in 2..(k + 1) : b[i] = rq[i],
         rq[1] = UDS_READ_DATA_BY_ID => handle(rq).data # "none"
  PROVE  ResponseMatch(rq)
<1>1. Len(rq) \in Nat /\ Len(b) \in Nat
  BY LenProperties
<1>2. SubSeq(b, 2, k + 1) = [i \in 1..((k + 1) - 2 + 1) |-> b[i + 2 - 1]]
  BY <1>1
<1>3. SubSeq(rq, 2, k + 1) = [i \in 1..((k + 1) - 2 + 1) |-> rq[i + 2 - 1]]
  BY <1>1
<1>4. \A i \in 1..((k + 1) - 2 + 1) : b[i + 2 - 1] = rq[i + 2 - 1]
  OBVIOUS
<1>5. SubSeq(b, 2, k + 1) = SubSeq(rq, 2, k + 1)
  BY <1>2, <1>3, <1>4
<1>6. PICK r : r = handle(rq)
  OBVIOUS
<1>7. r.bytes = b
  BY <1>6
<1> QED
  BY <1>5, <1>6, <1>7, Zenon DEF ResponseMatch

(***************************************************************************)
(* Every request of any length, whatever its bytes, gets a response that   *)
(* can be matched with it (UdsHandler::handle).                            *)
(***************************************************************************)
THEOREM ResponsesAlwaysMatch == \A rq \in Seq(0..255) : ResponseMatch(rq)
<1> SUFFICES ASSUME NEW rq \in Seq(0..255) PROVE ResponseMatch(rq)
  OBVIOUS
<1> USE DEF UDS_SESSION_CONTROL, UDS_ECU_RESET, UDS_READ_DTC, UDS_READ_DATA_BY_ID,
            UDS_NRC_SERVICE_NOT_SUPPORTED, UDS_NRC_REQUEST_OUT_OF_RANGE
<1>1. Len(rq) \in Nat /\ (rq = <<>> <=> Len(rq) = 0)
  BY LenProperties, EmptySeq
<1>2. ASSUME NEW i \in 1..Len(rq) PROVE rq[i] \in Nat
  <2>1. PICK v \in 0..255 : v = rq[i]
    BY ElementOfSeq
  <2>2. v \in Nat
    OBVIOUS
  <2> QED BY <2>1, <2>2
<1>3. CASE rq = <<>>
  <2>1. handle(rq) = negative_response(0, UDS_NRC_SERVICE_NOT_SUPPORTED)
    BY <1>1, <1>3 DEF handle
  <2>2. 0 \notin Supported
    BY DEF Supported
  <2>3. UDS_NRC_SERVICE_NOT_SUPPORTED \in Nat
    OBVIOUS
  <2>4. (IF rq = <<>> THEN 0 ELSE rq[1]) = 0
    BY <1>3
  <2> QED BY <2>1, <2>2, <2>3, <2>4, NegativeMatches
<1>4. CASE rq # <<>> /\ rq[1] \notin Supported
  <2>1. handle(rq) = negative_response(rq[1], UDS_NRC_SERVICE_NOT_SUPPORTED)
    BY <1>1, <1>4 DEF handle, Supported
  <2> QED BY <1>4, <2>1, NegativeMatches
<1>5. ASSUME rq # <<>>, rq[1] \in Supported,
             handle(rq) = negative_response(rq[1], UDS_NRC_REQUEST_OUT_OF_RANGE)
      PROVE  ResponseMatch(rq)
  BY <1>5, NegativeMatches
<1>6. ASSUME rq # <<>>, rq[1] \in Supported, Len(rq) > 1, rq[1] # UDS_READ_DATA_BY_ID,
             NEW b \in {<<rq[1] + 64, rq[2]>>, <<rq[1] + 64, rq[2], 255, 9, 0, NumDtcs>>},
             handle(rq).bytes = b
      PROVE  ResponseMatch(rq)
  <2>1. PICK x \in Nat, y \in Nat : x = rq[1] + 64 /\ y = rq[2]
    <3>1. 1 \in 1..Len(rq) /\ 2 \in 1..Len(rq)
      BY <1>1, <1>6
    <3> QED BY <1>2, <3>1
  <2>2. b \in Seq(Nat) /\ b[1] = x /\ b[2] = y /\ Len(b) > 1
    <3>1. CASE b = <<x, y>>
      BY <3>1
    <3>2. CASE b = <<x, y, 255, 9, 0, NumDtcs>>
      BY <3>2 DEF NumDtcs
    <3> QED BY <1>6, <2>1, <3>1, <3>2
  <2>3. \A i \in 2..(1 + 1) : b[i] = rq[i]
    BY <2>1, <2>2
  <2> QED BY <1>6, <2>1, <2>2, <2>3, PositiveMatches, SMTT(30)
<1>7. CASE rq # <<>> /\ rq[1] = UDS_SESSION_CONTROL
  <2>1. handle(rq) = handle_session_control(rq) /\ rq[1] \in Supported /\ rq[1] # UDS_READ_DATA_BY_ID
    BY <1>1, <1>7 DEF handle, Supported
  <2>2. CASE Len(rq) < 2
    BY <1>5, <1>7, <2>1, <2>2 DEF handle_session_control
  <2>3. CASE ~(Len(rq) < 2)
    <3>1. handle(rq).bytes = <<rq[1] + 64, rq[2]>>
      BY <1>7, <2>1, <2>3 DEF handle_session_control, Response
    <3>2. Len(rq) > 1
      BY <1>1, <2>3
    <3> QED BY <1>6, <1>7, <2>1, <3>1, <3>2
  <2> QED BY <2>2, <2>3
<1>8. CASE rq # <<>> /\ rq[1] = UDS_READ_DTC
  <2>1. handle(rq) = handle_read_dtc(rq) /\ rq[1] \in Supported /\ rq[1] # UDS_READ_DATA_BY_ID
    BY <1>1, <1>8 DEF handle, Supported
  <2>2. CASE Len(rq) < 2
    BY <1>5, <1>8, <2>1, <2>2 DEF handle_read_dtc
  <2>3. CASE ~(Len(rq) < 2)
    <3>1. handle(rq).bytes = <<rq[1] + 64, rq[2], 255, 9, 0, NumDtcs>>
      BY <1>8, <2>1, <2>3 DEF handle_read_dtc, Response
    <3>2. Len(rq) > 1
      BY <1>1, <2>3
    <3> QED BY <1>6, <1>8, <2>1, <3>1, <3>2
  <2> QED BY <2>2, <2>3
<1>9. CASE rq # <<>> /\ rq[1] = UDS_ECU_RESET
  <2>1. handle(rq) = handle_ecu_reset(rq) /\ rq[1] \in Supported /\ rq[1] # UDS_READ_DATA_BY_ID
    BY <1>1, <1>9 DEF handle, Supported
  <2>2. CASE Len(rq) < 2
    BY <1>5, <1>9, <2>1, <2>2 DEF handle_ecu_reset
  <2>3. CASE ~(Len(rq) < 2)
    <3>1. handle(rq).bytes = <<rq[1] + 64, rq[2]>>
      BY <1>9, <2>1, <2>3 DEF handle_ecu_reset, Response
    <3>2. Len(rq) > 1
      BY <1>1, <2>3
    <3> QED BY <1>6, <1>9, <2>1, <3>1, <3>2
  <2> QED BY <2>2, <2>3
<1>10. CASE rq # <<>> /\ rq[1] = UDS_READ_DATA_BY_ID
  <2>1. handle(rq) = handle_read_data_by_id(rq) /\ rq[1] \in Supported
    BY <1>1, <1>10 DEF handle, Supported
  <2>2. CASE Len(rq) < 3 \/ StoredData(<<rq[2], rq[3]>>) = "none"
    BY <1>5, <1>10, <2>1, <2>2 DEF handle_read_data_by_id
  <2>3. CASE ~(Len(rq) < 3 \/ StoredData(<<rq[2], rq[3]>>) = "none")
    <3>1. PICK x \in Nat, y \in Nat : x = rq[2] /\ y = rq[3]
      <4>1. 2 \in 1..Len(rq) /\ 3 \in 1..Len(rq)
        BY <1>1, <2>3
      <4> QED BY <1>2, <4>1
    <3>2. PICK b : b = <<98, x, y>>
      OBVIOUS
    <3>3. handle(rq).bytes = b /\ handle(rq).data # "none"
      BY <2>1, <2>3, <3>1, <3>2 DEF handle_read_data_by_id, Response
    <3>4. b \in Seq(Nat) /\ b[1] = 98 /\ b[2] = x /\ b[3] = y /\ Len(b) = 3
      BY <3>2
    <3>5. \A i \in 2..(2 + 1) : b[i] = rq[i]
      BY <3>1, <3>4
    <3>6. Len(rq) > 2 /\ Len(b) > 2 /\ b[1] = rq[1] + 64
      BY <1>1, <1>10, <2>3, <3>4
    <3> QED BY <1>10, <2>1, <3>3, <3>4, <3>5, <3>6, PositiveMatches, ZenonT(60)
  <2> QED BY <2>2, <2>3
<1> QED
  BY <1>3, <1>4, <1>7, <1>8, <1>9, <1>10 DEF Supported

-----------------------------------------------------------------------------
(***************************************************************************)
(* Quotient and remainder are the only pair that fits.                     *)
(***************************************************************************)
LEMMA DivUnique ==
  ASSUME NEW M \in Nat \ {0}, NEW q \in Int, NEW r \in 0..(M - 1), NEW a \in Int, a = M * q + r
  PROVE  a \div M = q /\ a % M = r
<1>1. PICK p \in Int, s \in 0..(M - 1) : p = a \div M /\ s = a % M /\ a = M * p + s
  <2>1. a \div M \in Int /\ a % M \in 0..(M - 1) /\ a = M * (a \div M) + (a % M)
    OBVIOUS
  <2> QED BY <2>1
<1>2. M * (q - p) = s - r
  BY <1>1, Z3
<1>3. q - p \in Int /\ M * (q - p) < M /\ -M < M * (q - p)
  BY <1>2
<1>4. q - p = 0
  BY <1>3, SL!SmallMultiple
<1>5. q = p
  BY <1>4
<1>6. r = s
  BY <1>1, <1>5
<1> QED BY <1>1, <1>5, <1>6

LEMMA DivSplit ==
  ASSUME NEW M \in Nat \ {0}, NEW a \in Nat
  PROVE  \E q \in Nat, r \in 0..(M - 1) : q = a \div M /\ r = a % M /\ a = M * q + r
<1>1. a \div M \in Nat /\ a % M \in 0..(M - 1) /\ a = M * (a \div M) + (a % M)
  OBVIOUS
<1> QED BY <1>1

(***************************************************************************)
(* Dividing twice, and the remainder one bit at a time.                    *)
(***************************************************************************)
LEMMA DivDiv ==
  ASSUME NEW a \in Nat, NEW b \in Nat \ {0}, NEW c \in Nat \ {0}
  PROVE  (a \div b) \div c = a \div (b * c)
<1>1. PICK q \in Nat, r \in 0..(b - 1) : q = a \div b /\ a = b * q + r
  BY DivSplit
<1>2. PICK t \in Nat, u \in 0..(c - 1) : t = q \div c /\ q = c * t + u
  BY DivSplit
<1>3. PICK m \in Nat \ {0} : m = b * c
  <2>1. b * c \in Nat /\ b * c > 0
    BY Z3
  <2> QED BY <2>1
<1>4. PICK v \in Nat : v = b * u + r
  <2>1. b * u \in Nat
    BY Z3
  <2>2. b * u + r \in Nat
    BY <2>1
  <2> QED BY <2>2
<1>5. v <= m - 1
  <2>1. PICK w \in Nat : u = (c - 1) - w
    <3>1. (c - 1) - u \in Nat /\ u = (c - 1) - ((c - 1) - u)
      OBVIOUS
    <3> QED BY <3>1
  <2>2. b * u = b * c - b - b * w /\ b * w >= 0
    BY <2>1, Z3
  <2> QED BY <1>3, <1>4, <2>2
<1>6. a = m * t + v
  <2>1. a = b * (c * t + u) + r
    BY <1>1, <1>2
  <2>2. b * (c * t + u) = (b * c) * t + b * u
    BY Z3
  <2> QED BY <1>3, <1>4, <2>1, <2>2
<1>7. a \div m = t
  BY <1>5, <1>6, DivUnique
<1> QED BY <1>1, <1>2, <1>3, <1>7

LEMMA ModDouble ==
  ASSUME NEW a \in Nat, NEW b \in Nat \ {0}
  PROVE  a % (2 * b) = (a % 2) + 2 * ((a \div 2) % b)
<1>1. PICK q \in Nat, r \in 0..1 : q = a \div 2 /\ r = a % 2 /\ a = 2 * q + r
  BY DivSplit
<1>2. PICK t \in Nat, u \in 0..(b - 1) : u = q % b /\ q = b * t + u
  BY DivSplit, ZenonT(60)
<1>3. PICK m \in Nat \ {0} : m = 2 * b
  OBVIOUS
<1>4. a = m * t + (2 * u + r) /\ 2 * u + r \in 0..(m - 1)
  <2>1. m * t = 2 * (b * t)
    BY <1>3, Z3
  <2>2. PICK z \in Int : z = b * t
    OBVIOUS
  <2> QED BY <1>1, <1>2, <1>3, <2>1, <2>2
<1>5. a % m = 2 * u + r
  BY <1>4, DivUnique
<1> QED BY <1>1, <1>2, <1>3, <1>5

-----------------------------------------------------------------------------
(***************************************************************************)
(* Powers of two, from the recursion that defines them.                    *)
(***************************************************************************)
PowBody(f) == [i \in Nat |-> IF i = 0 THEN 1 ELSE 2 * f[i - 1]]

LEMMA PowChoice == pow2 = CHOOSE f : f = PowBody(f)
BY Zenon DEF pow2, PowBody

PowUpTo(n, f) ==
  /\ f \in [0..n -> Nat \ {0}]
  /\ \A i \in 0..n : f[i] = IF i = 0 THEN 1 ELSE 2 * f[i - 1]

LEMMA PowPartial ==
  ASSUME NEW n \in Nat
  PROVE  \E f : PowUpTo(n, f)
<1> DEFINE Good == {k \in 0..n : \E f : PowUpTo(k, f)}
<1>1. 0 \in Good
  <2>1. PowUpTo(0, [i \in 0..0 |-> 1])
    BY DEF PowUpTo
  <2> QED BY <2>1
<1>2. ASSUME NEW k \in 0..(n - 1), k \in Good PROVE k + 1 \in Good
  <2>1. PICK f : PowUpTo(k, f)
    BY <1>2
  <2>2. PICK g : g = [i \in 0..(k + 1) |-> IF i <= k THEN f[i] ELSE 2 * f[k]]
    OBVIOUS
  <2>3. k \in Nat /\ k \in 0..k /\ k + 1 \in 0..n
    OBVIOUS
  <2>4. f[k] \in Nat \ {0} /\ 2 * f[k] \in Nat \ {0}
    BY <2>1, <2>3 DEF PowUpTo
  <2>5. g \in [0..(k + 1) -> Nat \ {0}]
    BY <2>1, <2>2, <2>3, <2>4 DEF PowUpTo
  <2>6. ASSUME NEW i \in 0..(k + 1) PROVE g[i] = IF i = 0 THEN 1 ELSE 2 * g[i - 1]
    <3>1. CASE i <= k
      <4>1. i \in 0..k /\ (i # 0 => i - 1 \in 0..(k + 1) /\ i - 1 <= k)
        BY <2>3, <3>1
      <4>2. g[i] = f[i] /\ (i # 0 => g[i - 1] = f[i - 1])
        BY <2>2, <3>1, <4>1
      <4> QED BY <2>1, <4>1, <4>2 DEF PowUpTo
    <3>2. CASE ~(i <= k)
      <4>1. i = k + 1 /\ i # 0 /\ i - 1 = k /\ k \in 0..(k + 1) /\ k <= k
        BY <2>3, <3>2
      <4>2. g[i] = 2 * f[k] /\ g[k] = f[k]
        BY <2>2, <3>2, <4>1
      <4> QED BY <4>1, <4>2
    <3> QED BY <3>1, <3>2
  <2>7. PowUpTo(k + 1, g)
    BY <2>5, <2>6 DEF PowUpTo
  <2> QED BY <2>3, <2>7
<1>3. \A k \in 0..n : k \in Good
  <2> HIDE DEF Good
  <2> QED BY <1>1, <1>2, SL!UpTo
<1>4. n \in Good
  <2> HIDE DEF Good
  <2> QED BY <1>3
<1> QED BY <1>4

LEMMA PowAgree ==
  ASSUME NEW n \in Nat, NEW m \in Nat, n <= m, NEW f, NEW g, PowUpTo(n, f), PowUpTo(m, g)
  PROVE  \A i \in 0..n : f[i] = g[i]
<1> DEFINE Good == {k \in 0..n : f[k] = g[k]}
<1>1. 0 \in Good
  BY DEF PowUpTo
<1>2. ASSUME NEW k \in 0..(n - 1), k \in Good PROVE k + 1 \in Good
  <2>1. k + 1 \in 0..n /\ k + 1 \in 0..m /\ k + 1 # 0 /\ (k + 1) - 1 = k
    OBVIOUS
  <2>2. f[k + 1] = 2 * f[k] /\ g[k + 1] = 2 * g[k]
    BY <2>1 DEF PowUpTo
  <2> QED BY <1>2, <2>1, <2>2
<1>3. \A k \in 0..n : k \in Good
  <2> HIDE DEF Good
  <2> QED BY <1>1, <1>2, SL!UpTo
<1> QED BY <1>3

LEMMA PowExists == \E f : f = PowBody(f)
<1> DEFINE h(i) == CHOOSE f : PowUpTo(i, f)
           F == [i \in Nat |-> h(i)[i]]
<1>1. ASSUME NEW i \in Nat PROVE PowUpTo(i, h(i))
  BY PowPartial, Zenon
<1>2. ASSUME NEW i \in Nat PROVE F[i] = IF i = 0 THEN 1 ELSE 2 * F[i - 1]
  <2>1. F[i] = h(i)[i]
    OBVIOUS
  <2>2. CASE i = 0
    <3>1. 0 \in 0..i
      BY <2>2
    <3> HIDE DEF h
    <3> QED BY <1>1, <2>1, <2>2, <3>1 DEF PowUpTo
  <2>3. CASE i # 0
    <3>1. i - 1 \in Nat /\ i \in 0..i /\ i - 1 \in 0..(i - 1) /\ i - 1 <= i
      BY <2>3
    <3>2. F[i - 1] = h(i - 1)[i - 1]
      BY <3>1
    <3>3. PICK f, g : f = h(i - 1) /\ g = h(i)
      OBVIOUS
    <3>4. PowUpTo(i - 1, f) /\ PowUpTo(i, g)
      BY <1>1, <3>1, <3>3
    <3>5. f[i - 1] = g[i - 1]
      BY <3>1, <3>4, PowAgree
    <3>6. g[i] = 2 * g[i - 1]
      BY <2>3, <3>1, <3>4 DEF PowUpTo
    <3> QED BY <2>1, <2>3, <3>2, <3>3, <3>5, <3>6
  <2> QED BY <2>2, <2>3
<1>3. F = [i \in Nat |-> F[i]]
  OBVIOUS
<1>4. F = PowBody(F)
  <2> HIDE DEF F
  <2> QED BY <1>2, <1>3 DEF PowBody
<1> QED BY <1>4

LEMMA PowIs ==
  /\ pow2[0] = 1
  /\ \A i \in Nat : pow2[i] \in Nat \ {0} /\ pow2[i + 1] = 2 * pow2[i]
<1>1. PICK p : p = pow2
  OBVIOUS
<1>2. p = PowBody(p)
  BY <1>1, PowChoice, PowExists, Zenon
<1>3. p[0] = 1
  BY <1>2 DEF PowBody
<1>4. ASSUME NEW i \in Nat PROVE p[i + 1] = 2 * p[i]
  <2>1. i + 1 \in Nat /\ i + 1 # 0 /\ (i + 1) - 1 = i
    OBVIOUS
  <2> QED BY <1>2, <2>1 DEF PowBody
<1>5. ASSUME NEW n \in Nat PROVE p[n] \in Nat \ {0}
  <2> DEFINE Good == {k \in 0..n : p[k] \in Nat \ {0}}
  <2>1. 0 \in Good
    BY <1>3
  <2>2. ASSUME NEW k \in 0..(n - 1), k \in Good PROVE k + 1 \in Good
    <3>1. k \in Nat /\ k + 1 \in 0..n
      OBVIOUS
    <3> QED BY <1>4, <2>2, <3>1
  <2>3. \A k \in 0..n : k \in Good
    <3> HIDE DEF Good
    <3> QED BY <2>1, <2>2, SL!UpTo
  <2>4. n \in Good
    <3> HIDE DEF Good
    <3> QED BY <2>3
  <2> QED BY <2>4
<1> QED BY <1>1, <1>3, <1>4, <1>5

LEMMA PowSmall ==
  /\ pow2[0] = 1 /\ pow2[1] = 2 /\ pow2[2] = 4 /\ pow2[3] = 8 /\ pow2[4] = 16
  /\ pow2[5] = 32 /\ pow2[6] = 64 /\ pow2[7] = 128 /\ pow2[8] = 256
<1>1. /\ pow2[0 + 1] = 2 * pow2[0] /\ pow2[1 + 1] = 2 * pow2[1] /\ pow2[2 + 1] = 2 * pow2[2]
      /\ pow2[3 + 1] = 2 * pow2[3] /\ pow2[4 + 1] = 2 * pow2[4] /\ pow2[5 + 1] = 2 * pow2[5]
      /\ pow2[6 + 1] = 2 * pow2[6] /\ pow2[7 + 1] = 2 * pow2[7]
  BY PowIs
<1> QED BY <1>1, PowIs

LEMMA PowAdd ==
  ASSUME NEW i \in Nat, NEW n \in Nat
  PROVE  pow2[i + n] = pow2[i] * pow2[n]
<1> DEFINE Good == {k \in 0..n : pow2[i + k] = pow2[i] * pow2[k]}
<1>1. 0 \in Good
  BY PowIs
<1>2. ASSUME NEW k \in 0..(n - 1), k \in Good PROVE k + 1 \in Good
  <2>1. k \in Nat /\ k + 1 \in 0..n /\ i + k \in Nat /\ i + (k + 1) = (i + k) + 1
    OBVIOUS
  <2>2. PICK a \in Nat, b \in Nat, c \in Nat : a = pow2[i] /\ b = pow2[k] /\ c = pow2[i + k]
    BY <2>1, PowIs
  <2>3. pow2[k + 1] = 2 * b /\ pow2[(i + k) + 1] = 2 * c
    BY <2>1, <2>2, PowIs
  <2>4. c = a * b
    BY <1>2, <2>2
  <2>5. 2 * c = a * (2 * b)
    BY <2>4, Z3
  <2> QED BY <2>1, <2>2, <2>3, <2>5
<1>3. \A k \in 0..n : k \in Good
  <2> HIDE DEF Good
  <2> QED BY <1>1, <1>2, SL!UpTo
<1>4. n \in Good
  <2> HIDE DEF Good
  <2> QED BY <1>3
<1> QED BY <1>4

(***************************************************************************)
(* Shifting right twice is shifting by the sum.                            *)
(***************************************************************************)
LEMMA ShiftAdd ==
  ASSUME NEW a \in Nat, NEW i \in Nat, NEW n \in Nat
  PROVE  a \div pow2[i + n] = (a \div pow2[i]) \div pow2[n]
<1>1. PICK b \in Nat \ {0}, c \in Nat \ {0} : b = pow2[i] /\ c = pow2[n]
  BY PowIs
<1>2. pow2[i + n] = b * c
  BY <1>1, PowAdd
<1> QED BY <1>1, <1>2, DivDiv

-----------------------------------------------------------------------------
(***************************************************************************)
(* Recursion downwards from L, as extract_bits and number have it.         *)
(***************************************************************************)
Down(L, Stop, a, m, f) ==
  /\ f \in [0..L -> Int]
  /\ \A i \in 0..L : f[i] = IF i \in Stop THEN 0 ELSE a[i] + m * f[i + 1]

LEMMA DownRec ==
  ASSUME NEW L \in Nat, NEW Stop, L \in Stop, NEW a \in [0..L -> Int], NEW m \in Int
  PROVE  \E f : Down(L, Stop, a, m, f)
<1> DEFINE Part(n, f) ==
             /\ f \in [(L - n)..L -> Int]
             /\ \A i \in (L - n)..L : f[i] = IF i \in Stop THEN 0 ELSE a[i] + m * f[i + 1]
           Good == {n \in 0..L : \E f : Part(n, f)}
<1>1. 0 \in Good
  <2>1. PICK f : f = [i \in (L - 0)..L |-> 0]
    OBVIOUS
  <2>2. f \in [(L - 0)..L -> Int]
    BY <2>1
  <2>3. ASSUME NEW i \in (L - 0)..L PROVE i \in Stop /\ f[i] = 0
    <3>1. i = L
      OBVIOUS
    <3> QED BY <2>1, <3>1
  <2>4. Part(0, f)
    BY <2>2, <2>3
  <2> HIDE DEF Part
  <2> QED BY <2>4
<1>2. ASSUME NEW n \in 0..(L - 1), n \in Good PROVE n + 1 \in Good
  <2>1. PICK f : Part(n, f)
    BY <1>2
  <2>2. PICK k \in 0..(L - 1) : k = L - (n + 1) /\ k + 1 = L - n
    <3>1. L - (n + 1) \in 0..(L - 1) /\ L - (n + 1) + 1 = L - n
      OBVIOUS
    <3> QED BY <3>1
  <2>3. PICK v : v = IF k \in Stop THEN 0 ELSE a[k] + m * f[k + 1]
    OBVIOUS
  <2>4. PICK g : g = [i \in k..L |-> IF i = k THEN v ELSE f[i]]
    OBVIOUS
  <2>5. f \in [(k + 1)..L -> Int] /\ \A i \in (k + 1)..L : f[i] = IF i \in Stop THEN 0 ELSE a[i] + m * f[i + 1]
    BY <2>1, <2>2
  <2>6. v \in Int
    <3>1. k + 1 \in (k + 1)..L /\ k \in 0..L
      OBVIOUS
    <3>2. PICK x \in Int, y \in Int : x = a[k] /\ y = f[k + 1]
      BY <2>5, <3>1
    <3>3. x + m * y \in Int
      OBVIOUS
    <3> QED BY <2>3, <3>2, <3>3
  <2>7. g \in [k..L -> Int]
    <3>1. \A i \in k..L : i # k => i \in (k + 1)..L
      OBVIOUS
    <3> QED BY <2>4, <2>5, <2>6, <3>1
  <2>8. ASSUME NEW i \in k..L PROVE g[i] = IF i \in Stop THEN 0 ELSE a[i] + m * g[i + 1]
    <3>1. CASE i = k
      <4>1. k + 1 \in k..L /\ k + 1 # k /\ k \in k..L
        OBVIOUS
      <4>2. g[k] = v /\ g[k + 1] = f[k + 1]
        BY <2>4, <4>1
      <4> QED BY <2>3, <3>1, <4>2
    <3>2. CASE i # k
      <4>1. i \in (k + 1)..L
        BY <3>2
      <4>2. g[i] = f[i]
        BY <2>4, <3>2
      <4>3. f[i] = IF i \in Stop THEN 0 ELSE a[i] + m * f[i + 1]
        BY <2>5, <4>1
      <4>4. CASE i \in Stop
        BY <4>2, <4>3, <4>4
      <4>5. CASE i \notin Stop
        <5>1. i # L
          BY <4>5
        <5>2. i + 1 \in k..L /\ i + 1 # k
          BY <5>1, <4>1
        <5>3. g[i + 1] = f[i + 1]
          BY <2>4, <5>2
        <5> QED BY <4>2, <4>3, <4>5, <5>3
      <4> QED BY <4>4, <4>5
    <3> QED BY <3>1, <3>2
  <2>9. Part(n + 1, g)
    BY <2>2, <2>7, <2>8
  <2>10. n + 1 \in 0..L
    OBVIOUS
  <2> HIDE DEF Part
  <2> QED BY <2>9, <2>10
<1>3. \A n \in 0..L : n \in Good
  <2> HIDE DEF Good
  <2> QED BY <1>1, <1>2, SL!UpTo
<1>4. L \in Good
  <2> HIDE DEF Good
  <2> QED BY <1>3
<1>5. PICK f : Part(L, f)
  <2> HIDE DEF Part
  <2> QED BY <1>4
<1>6. L - L = 0
  OBVIOUS
<1>7. Down(L, Stop, a, m, f)
  BY <1>5, <1>6 DEF Down
<1> QED BY <1>7

-----------------------------------------------------------------------------
(***************************************************************************)
(* The frame as a number.                                                  *)
(***************************************************************************)
AboveBody(data, f) ==
  [k \in 0..Len(data) |-> IF k = Len(data) THEN 0 ELSE data[k + 1] + 256 * f[k + 1]]

IsAbove(data, f) ==
  /\ f \in [0..Len(data) -> Nat]
  /\ f[Len(data)] = 0
  /\ \A k \in 0..(Len(data) - 1) : f[k] = data[k + 1] + 256 * f[k + 1]

LEMMA ByteType ==
  ASSUME NEW data \in Seq(0..255)
  PROVE  Len(data) \in Nat /\ \A k \in 1..Len(data) : data[k] \in 0..255
<1>1. Len(data) \in Nat
  BY LenProperties
<1>2. ASSUME NEW k \in 1..Len(data) PROVE data[k] \in 0..255
  BY ElementOfSeq
<1> QED BY <1>1, <1>2

LEMMA NumberChoice ==
  ASSUME NEW data PROVE number(data) = (CHOOSE f : f = AboveBody(data, f))[0]
BY Zenon DEF number, AboveBody

LEMMA AboveExists ==
  ASSUME NEW data \in Seq(0..255)
  PROVE  \E f : f = AboveBody(data, f)
<1>1. PICK L \in Nat : L = Len(data)
  BY ByteType
<1>2. PICK a : a = [k \in 0..L |-> IF k = L THEN 0 ELSE data[k + 1]]
  OBVIOUS
<1>3. a \in [0..L -> Int]
  <2>1. ASSUME NEW k \in 0..L, k # L PROVE data[k + 1] \in Int
    <3>1. k + 1 \in 1..L
      BY <2>1
    <3>2. PICK v \in 0..255 : v = data[k + 1]
      BY <1>1, <3>1, ByteType
    <3> QED BY <3>2
  <2> QED BY <1>2, <2>1
<1>4. PICK f \in [0..L -> Int] :
        \A i \in 0..L : f[i] = IF i = L THEN 0 ELSE a[i] + 256 * f[i + 1]
  <2>1. PICK S : \A i : i \in S <=> i = L
    <3>1. \A i : i \in {L} <=> i = L
      OBVIOUS
    <3> QED BY <3>1
  <2>2. L \in S
    BY <2>1
  <2>3. PICK m \in Int : m = 256
    OBVIOUS
  <2>4. PICK f : Down(L, S, a, m, f)
    BY <1>3, <2>2, DownRec, Zenon
  <2>5. f \in [0..L -> Int]
    BY <2>4 DEF Down
  <2>6. ASSUME NEW i \in 0..L PROVE f[i] = IF i = L THEN 0 ELSE a[i] + 256 * f[i + 1]
    <3>1. f[i] = IF i \in S THEN 0 ELSE a[i] + m * f[i + 1]
      BY <2>4 DEF Down
    <3> QED BY <2>1, <2>3, <3>1
  <2> QED BY <2>5, <2>6, ZenonT(60)
<1>5. \A i \in 0..L : f[i] = IF i = L THEN 0 ELSE data[i + 1] + 256 * f[i + 1]
  BY <1>2, <1>4
<1>6. f = [k \in 0..L |-> f[k]]
  OBVIOUS
<1>7. f = AboveBody(data, f)
  BY <1>1, <1>5, <1>6 DEF AboveBody
<1> QED BY <1>7

LEMMA NumberIs ==
  ASSUME NEW data \in Seq(0..255)
  PROVE  \E f : IsAbove(data, f) /\ number(data) = f[0]
<1>1. PICK L \in Nat : L = Len(data)
  BY ByteType
<1>2. PICK f : f = CHOOSE g : g = AboveBody(data, g)
  OBVIOUS
<1>3. f = AboveBody(data, f)
  BY <1>2, AboveExists, Zenon
<1>4. f = [k \in 0..L |-> IF k = L THEN 0 ELSE data[k + 1] + 256 * f[k + 1]]
  BY <1>1, <1>3 DEF AboveBody
<1>5. f[L] = 0 /\ \A k \in 0..(L - 1) : f[k] = data[k + 1] + 256 * f[k + 1]
  BY <1>4
<1> DEFINE Good == {n \in 0..L : f[L - n] \in Nat}
<1>6. 0 \in Good
  BY <1>5
<1>7. ASSUME NEW n \in 0..(L - 1), n \in Good PROVE n + 1 \in Good
  <2>1. PICK k \in 0..(L - 1) : k = L - (n + 1) /\ k + 1 = L - n
    <3>1. L - (n + 1) \in 0..(L - 1) /\ L - (n + 1) + 1 = L - n
      OBVIOUS
    <3> QED BY <3>1
  <2>2. f[k + 1] \in Nat
    BY <1>7, <2>1
  <2>3. data[k + 1] \in 0..255
    <3>1. k + 1 \in 1..L
      OBVIOUS
    <3> QED BY <1>1, <3>1, ByteType
  <2>4. PICK d \in 0..255, z \in Nat : d = data[k + 1] /\ z = f[k + 1]
    BY <2>2, <2>3
  <2>5. f[k] = d + 256 * z
    BY <1>5, <2>4
  <2>6. f[k] \in Nat
    BY <2>5
  <2>7. n + 1 \in 0..L
    OBVIOUS
  <2> QED BY <2>1, <2>6, <2>7
<1>8. \A n \in 0..L : n \in Good
  <2> HIDE DEF Good
  <2> QED BY <1>6, <1>7, SL!UpTo
<1>9. ASSUME NEW k \in 0..L PROVE f[k] \in Nat
  <2>1. L - k \in 0..L /\ L - (L - k) = k
    OBVIOUS
  <2>2. L - k \in Good
    <3> HIDE DEF Good
    <3> QED BY <1>8, <2>1
  <2> QED BY <2>1, <2>2
<1>10. f \in [0..L -> Nat]
  BY <1>4, <1>9
<1>11. number(data) = f[0]
  BY <1>2, NumberChoice
<1> QED BY <1>1, <1>5, <1>10, <1>11 DEF IsAbove

(***************************************************************************)
(* Shifted right by whole bytes, the number is what stands above them.     *)
(***************************************************************************)
LEMMA AboveShift ==
  ASSUME NEW data \in Seq(0..255), NEW f, IsAbove(data, f)
  PROVE  \A k \in 0..Len(data) : f[0] \div pow2[8 * k] = f[k]
<1>1. PICK L \in Nat : L = Len(data)
  BY ByteType
<1>2. \A k \in 0..(L - 1) : f[k] = data[k + 1] + 256 * f[k + 1]
  BY <1>1 DEF IsAbove
<1>a. f \in [0..L -> Nat]
  BY <1>1 DEF IsAbove
<1> DEFINE Good == {k \in 0..L : f[0] \div pow2[8 * k] = f[k]}
<1>3. 0 \in Good
  <2>1. pow2[8 * 0] = 1 /\ f[0] \in Nat
    <3>1. 8 * 0 = 0 /\ 0 \in 0..L
      OBVIOUS
    <3> QED BY <1>a, <3>1, PowIs
  <2>2. f[0] \div 1 = f[0]
    BY <2>1
  <2> QED BY <2>1, <2>2
<1>4. ASSUME NEW k \in 0..(L - 1), k \in Good PROVE k + 1 \in Good
  <2>1. k + 1 \in 1..L /\ k + 1 \in 0..L /\ k \in 0..L /\ 0 \in 0..L
    OBVIOUS
  <2>2. PICK x \in Nat, y \in Nat, z \in Nat : x = f[0] /\ y = f[k] /\ z = f[k + 1]
    BY <1>a, <2>1
  <2>3. PICK d \in 0..255 : d = data[k + 1]
    BY <1>1, <2>1, ByteType
  <2>4. y = d + 256 * z
    BY <1>2, <2>2, <2>3
  <2>5. y \div 256 = z
    BY <2>4
  <2>6. x \div pow2[8 * k + 8] = (x \div pow2[8 * k]) \div pow2[8]
    <3>1. 8 * k \in Nat /\ 8 \in Nat
      OBVIOUS
    <3> QED BY <3>1, ShiftAdd
  <2>7. x \div pow2[8 * k] = y
    BY <1>4, <2>2
  <2>8. pow2[8] = 256 /\ 8 * (k + 1) = 8 * k + 8
    BY PowSmall
  <2>9. x \div pow2[8 * (k + 1)] = z
    BY <2>5, <2>6, <2>7, <2>8
  <2> QED BY <2>1, <2>2, <2>9
<1>5. \A k \in 0..L : k \in Good
  <2> HIDE DEF Good
  <2> QED BY <1>3, <1>4, SL!UpTo
<1> QED BY <1>1, <1>5

LEMMA NumberBound ==
  ASSUME NEW data \in Seq(0..255)
  PROVE  number(data) \in Nat /\ number(data) < pow2[8 * Len(data)]
<1>1. PICK L \in Nat : L = Len(data)
  BY ByteType
<1>2. PICK f : IsAbove(data, f) /\ number(data) = f[0]
  BY NumberIs
<1>3. f[L] = 0 /\ \A k \in 0..(L - 1) : f[k] = data[k + 1] + 256 * f[k + 1]
  BY <1>1, <1>2 DEF IsAbove
<1>a. f \in [0..L -> Nat]
  BY <1>1, <1>2 DEF IsAbove
<1> DEFINE Good == {n \in 0..L : f[L - n] < pow2[8 * n]}
<1>4. 0 \in Good
  <2>1. L - 0 = L /\ 8 * 0 = 0 /\ 0 \in 0..L
    OBVIOUS
  <2>2. f[L] = 0 /\ pow2[0] = 1
    BY <1>3, PowIs
  <2> QED BY <2>1, <2>2
<1>5. ASSUME NEW n \in 0..(L - 1), n \in Good PROVE n + 1 \in Good
  <2>1. PICK k \in 0..(L - 1) : k = L - (n + 1) /\ k + 1 = L - n
    <3>1. L - (n + 1) \in 0..(L - 1) /\ L - (n + 1) + 1 = L - n
      OBVIOUS
    <3> QED BY <3>1
  <2>2. k + 1 \in 1..L /\ k + 1 \in 0..L /\ 8 * n \in Nat /\ n + 1 \in 0..L /\ 8 * (n + 1) = 8 * n + 8
    OBVIOUS
  <2>3. PICK d \in 0..255, z \in Nat, b \in Nat : d = data[k + 1] /\ z = f[k + 1] /\ b = pow2[8 * n]
    <3>1. data[k + 1] \in 0..255
      BY <1>1, <2>2, ByteType
    <3>2. f[k + 1] \in Nat
      BY <1>a, <2>2
    <3>3. pow2[8 * n] \in Nat
      BY <2>2, PowIs
    <3> QED BY <3>1, <3>2, <3>3
  <2>4. pow2[8 * n + 8] = b * 256
    <3>1. pow2[8 * n + 8] = pow2[8 * n] * pow2[8]
      <4>1. PICK u \in Nat, w \in Nat : u = 8 * n /\ w = 8
        BY <2>2
      <4>2. pow2[u + w] = pow2[u] * pow2[w]
        BY PowAdd
      <4> QED BY <4>1, <4>2
    <3> QED BY <2>3, <3>1, PowSmall
  <2>5. z < b
    BY <1>5, <2>1, <2>3
  <2>6. f[k] = d + 256 * z
    BY <1>3, <2>3
  <2>7. d + 256 * z < b * 256
    BY <2>5
  <2> QED BY <2>1, <2>2, <2>4, <2>6, <2>7
<1>6. \A n \in 0..L : n \in Good
  <2> HIDE DEF Good
  <2> QED BY <1>4, <1>5, SL!UpTo
<1>7. L \in Good
  <2> HIDE DEF Good
  <2> QED BY <1>6
<1>8. L - L = 0 /\ 0 \in 0..L
  OBVIOUS
<1> QED BY <1>1, <1>2, <1>a, <1>7, <1>8

(***************************************************************************)
(* A bit of the low byte does not depend on the bytes above it.            *)
(***************************************************************************)
LEMMA LowByteBit ==
  ASSUME NEW M \in Nat \ {0}, NEW K \in Nat, 2 * (K * M) = 256, NEW d \in Nat, NEW z \in Nat
  PROVE  ((d + 256 * z) \div M) % 2 = (d \div M) % 2
<1>1. PICK q \in Nat, r \in 0..(M - 1) : q = d \div M /\ d = M * q + r
  BY DivSplit
<1>2. PICK w \in Nat : w = K * z
  <2>1. K * z \in Nat
    BY Z3
  <2> QED BY <2>1
<1>3. 256 * z = M * (2 * w)
  <2>1. 256 * z = (2 * (K * M)) * z
    OBVIOUS
  <2>2. (2 * (K * M)) * z = M * (2 * (K * z))
    BY Z3
  <2> QED BY <1>2, <2>1, <2>2
<1>4. M * (q + 2 * w) = M * q + M * (2 * w)
  BY Z3
<1>5. PICK a \in Nat, t \in Nat : a = d + 256 * z /\ t = q + 2 * w
  <2>1. d + 256 * z \in Nat /\ q + 2 * w \in Nat
    OBVIOUS
  <2> QED BY <2>1
<1>6. a = M * t + r
  <2>1. PICK x \in Int, y \in Int : x = M * q /\ y = M * (2 * w)
    <3>1. M * q \in Int /\ M * (2 * w) \in Int
      OBVIOUS
    <3> QED BY <3>1
  <2> QED BY <1>1, <1>3, <1>4, <1>5, <2>1
<1>7. a \div M = t
  BY <1>6, DivUnique
<1>8. t % 2 = q % 2
  BY <1>5
<1> QED BY <1>1, <1>5, <1>7, <1>8

(***************************************************************************)
(* The bit that extract_bits tests is that bit of the number.              *)
(***************************************************************************)
LEMMA BitIs ==
  ASSUME NEW data \in Seq(0..255), NEW pos \in Nat, pos < 8 * Len(data)
  PROVE  Bit(data, pos) = (number(data) \div pow2[pos]) % 2
<1>1. PICK L \in Nat : L = Len(data)
  BY ByteType
<1>2. PICK f : IsAbove(data, f) /\ number(data) = f[0]
  BY NumberIs
<1>3. PICK q \in 0..(L - 1), r \in 0..7 : q = pos \div 8 /\ r = pos % 8 /\ pos = 8 * q + r
  <2>1. pos \div 8 \in 0..(L - 1) /\ pos % 8 \in 0..7 /\ pos = 8 * (pos \div 8) + (pos % 8)
    BY <1>1
  <2> QED BY <2>1
<1>4. q + 1 \in 1..L /\ q \in 0..L /\ q + 1 \in 0..L /\ 0 \in 0..L /\ 8 * q \in Nat /\ r \in Nat
  OBVIOUS
<1>5. PICK d \in 0..255 : d = data[q + 1]
  BY <1>1, <1>4, ByteType
<1>6. PICK n \in Nat, y \in Nat, z \in Nat : n = f[0] /\ y = f[q] /\ z = f[q + 1]
  <2>1. f \in [0..L -> Nat]
    BY <1>1, <1>2 DEF IsAbove
  <2> QED BY <1>4, <2>1
<1>7. y = d + 256 * z
  BY <1>1, <1>2, <1>5, <1>6 DEF IsAbove
<1>8. n \div pow2[8 * q] = y
  <2>1. f[0] \div pow2[8 * q] = f[q]
    BY <1>1, <1>2, <1>4, AboveShift
  <2> QED BY <1>6, <2>1
<1>9. n \div pow2[8 * q + r] = y \div pow2[r]
  BY <1>4, <1>8, ShiftAdd
<1>10. PICK M \in Nat \ {0}, K \in Nat : M = pow2[r] /\ 2 * (K * M) = 256
  <2>1. PICK K \in Nat : K = pow2[7 - r]
    <3>1. 7 - r \in Nat
      OBVIOUS
    <3> QED BY <3>1, PowIs
  <2>2. PICK M \in Nat \ {0} : M = pow2[r]
    BY <1>4, PowIs
  <2>3. pow2[(7 - r) + r] = K * M
    <3>1. PICK u \in Nat, w \in Nat : u = 7 - r /\ w = r
      OBVIOUS
    <3>2. pow2[u + w] = pow2[u] * pow2[w]
      BY PowAdd
    <3> QED BY <2>1, <2>2, <3>1, <3>2
  <2>4. (7 - r) + r = 7
    OBVIOUS
  <2>5. K * M = 128
    BY <2>3, <2>4, PowSmall
  <2> QED BY <2>2, <2>5
<1>11. ((d + 256 * z) \div M) % 2 = (d \div M) % 2
  <2>1. PICK e \in Nat : e = d
    OBVIOUS
  <2>2. 2 * (K * M) = 256
    BY <1>10
  <2>3. ((e + 256 * z) \div M) % 2 = (e \div M) % 2
    BY <2>2, LowByteBit
  <2> QED BY <2>1, <2>3
<1>12. Bit(data, pos) = (d \div M) % 2
  BY <1>3, <1>5, <1>10 DEF Bit
<1>13. number(data) \div pow2[pos] = (d + 256 * z) \div M
  BY <1>2, <1>3, <1>6, <1>7, <1>9, <1>10
<1> QED BY <1>11, <1>12, <1>13

-----------------------------------------------------------------------------
LEMMA BitType ==
  ASSUME NEW data \in Seq(0..255), NEW pos \in Nat, pos < 8 * Len(data)
  PROVE  Bit(data, pos) \in 0..1
<1>1. PICK x \in Nat, p \in Nat \ {0} : x = number(data) /\ p = pow2[pos]
  BY NumberBound, PowIs
<1>2. (x \div p) % 2 \in 0..1
  <2>1. PICK q \in Nat, r \in 0..(p - 1) : q = x \div p /\ r = x % p /\ x = p * q + r
    BY DivSplit
  <2>2. q % 2 \in 0..1
    OBVIOUS
  <2> QED BY <2>1, <2>2
<1> QED BY <1>1, <1>2, BitIs

(***************************************************************************)
(* The loop of extract_bits, as its recursion.                             *)
(***************************************************************************)
Ends(data, s, n, i) == i = n \/ (s + i) % 256 >= Bits(data)

FromBody(data, s, n, f) ==
  [i \in 0..n |-> IF Ends(data, s, n, i) THEN 0
                  ELSE Bit(data, (s + i) % 256) * pow2[i] + f[i + 1]]

IsFrom(data, s, n, f) ==
  \A i \in 0..n : f[i] = IF Ends(data, s, n, i) THEN 0
                         ELSE Bit(data, (s + i) % 256) * pow2[i] + f[i + 1]

LEMMA ExtractChoice ==
  ASSUME NEW data, NEW s, NEW n
  PROVE  extract_bits(data, s, n) = (CHOOSE f : f = FromBody(data, s, n, f))[0]
BY Zenon DEF extract_bits, FromBody, Ends

LEMMA FromExists ==
  ASSUME NEW data \in Seq(0..255), NEW s \in Nat, NEW n \in Nat
  PROVE  \E f : f = FromBody(data, s, n, f)
<1>1. PICK S : S = {i \in 0..n : Ends(data, s, n, i)}
  OBVIOUS
<1>2. PICK a : a = [i \in 0..n |-> IF i \in S THEN 0 ELSE Bit(data, (s + i) % 256) * pow2[i]]
  OBVIOUS
<1>3. ASSUME NEW i \in 0..n, i \notin S PROVE Bit(data, (s + i) % 256) * pow2[i] \in Int
  <2>1. ~Ends(data, s, n, i)
    BY <1>1, <1>3
  <2>2. PICK L \in Nat : L = Len(data)
    BY ByteType
  <2>3. PICK pos \in Nat : pos = (s + i) % 256
    <3>1. (s + i) % 256 \in Nat
      OBVIOUS
    <3> QED BY <3>1
  <2>4. pos < 8 * Len(data)
    BY <2>1, <2>2, <2>3 DEF Ends, Bits
  <2>5. PICK b \in 0..1 : b = Bit(data, pos)
    BY <2>4, BitType
  <2>6. PICK p \in Nat : p = pow2[i]
    <3>1. i \in Nat
      OBVIOUS
    <3> QED BY <3>1, PowIs
  <2>7. b * p \in Int
    OBVIOUS
  <2> QED BY <2>3, <2>5, <2>6, <2>7
<1>4. a \in [0..n -> Int]
  BY <1>2, <1>3
<1>5. n \in S
  BY <1>1 DEF Ends
<1>6. PICK m \in Int : m = 1
  OBVIOUS
<1>7. PICK f : Down(n, S, a, m, f)
  BY <1>4, <1>5, DownRec, Zenon
<1>8. f \in [0..n -> Int]
  BY <1>7 DEF Down
<1>9. ASSUME NEW i \in 0..n
      PROVE  f[i] = IF Ends(data, s, n, i) THEN 0
                    ELSE Bit(data, (s + i) % 256) * pow2[i] + f[i + 1]
  <2>1. f[i] = IF i \in S THEN 0 ELSE a[i] + m * f[i + 1]
    BY <1>7 DEF Down
  <2>2. CASE Ends(data, s, n, i)
    BY <1>1, <2>1, <2>2
  <2>3. CASE ~Ends(data, s, n, i)
    <3>1. i \notin S /\ a[i] = Bit(data, (s + i) % 256) * pow2[i]
      BY <1>1, <1>2, <2>3
    <3>2. i # n
      BY <2>3 DEF Ends
    <3>3. i + 1 \in 0..n
      BY <3>2
    <3>4. PICK v \in Int : v = f[i + 1]
      BY <1>8, <3>3
    <3>5. m * v = v
      BY <1>6
    <3> QED BY <2>1, <2>3, <3>1, <3>4, <3>5
  <2> QED BY <2>2, <2>3
<1>10. f = [i \in 0..n |-> f[i]]
  BY <1>8
<1>11. f = FromBody(data, s, n, f)
  BY <1>9, <1>10 DEF FromBody
<1> QED BY <1>11

LEMMA ExtractIs ==
  ASSUME NEW data \in Seq(0..255), NEW s \in Nat, NEW n \in Nat
  PROVE  \E f : extract_bits(data, s, n) = f[0] /\ IsFrom(data, s, n, f)
<1>1. PICK f : f = CHOOSE g : g = FromBody(data, s, n, g)
  OBVIOUS
<1>2. f = FromBody(data, s, n, f)
  BY <1>1, FromExists, Zenon
<1>3. extract_bits(data, s, n) = f[0]
  BY <1>1, ExtractChoice
<1>4. ASSUME NEW i \in 0..n
      PROVE  f[i] = IF Ends(data, s, n, i) THEN 0
                    ELSE Bit(data, (s + i) % 256) * pow2[i] + f[i + 1]
  BY <1>2 DEF FromBody
<1>5. IsFrom(data, s, n, f)
  BY <1>4 DEF IsFrom
<1> QED BY <1>3, <1>5

(***************************************************************************)
(* Past the end of the frame there is nothing to extract; before it, the   *)
(* bits of the number from s on, as many as there are.                     *)
(***************************************************************************)
LEMMA ExtractBeyond ==
  ASSUME NEW data \in Seq(0..255), NEW s \in 0..255, NEW n \in Nat, s >= 8 * Len(data)
  PROVE  extract_bits(data, s, n) = 0
<1>1. PICK f : extract_bits(data, s, n) = f[0] /\ IsFrom(data, s, n, f)
  <2>1. s \in Nat
    OBVIOUS
  <2> QED BY <2>1, ExtractIs
<1>2. (s + 0) % 256 = s /\ 0 \in 0..n
  OBVIOUS
<1>3. Ends(data, s, n, 0)
  BY <1>2 DEF Ends, Bits
<1> QED BY <1>1, <1>2, <1>3 DEF IsFrom

LEMMA ExtractWithin ==
  ASSUME NEW data \in Seq(0..255), Len(data) <= 31, NEW s \in Nat, NEW n \in Nat,
         NEW m \in 0..n, s + m <= 8 * Len(data), m = n \/ s + m = 8 * Len(data)
  PROVE  extract_bits(data, s, n) = (number(data) \div pow2[s]) % pow2[m]
<1>1. PICK f : extract_bits(data, s, n) = f[0] /\ IsFrom(data, s, n, f)
  BY ExtractIs
<1>2. PICK L \in Nat : L = Len(data) /\ L <= 31 /\ s + m <= 8 * L /\ (m = n \/ s + m = 8 * L)
  BY ByteType
<1>3. PICK x \in Nat : x = number(data)
  BY NumberBound
<1>4. f[m] = 0
  <2>1. (s + m) % 256 = s + m
    BY <1>2
  <2>2. Ends(data, s, n, m)
    BY <1>2, <2>1 DEF Ends, Bits
  <2> QED BY <1>1, <2>2 DEF IsFrom
<1>5. ASSUME NEW i \in 0..(m - 1)
      PROVE  f[i] = ((x \div pow2[s + i]) % 2) * pow2[i] + f[i + 1]
  <2>1. (s + i) % 256 = s + i /\ s + i \in Nat /\ s + i < 8 * L /\ i \in 0..n /\ i # n
    BY <1>2
  <2>2. ~Ends(data, s, n, i)
    BY <1>2, <2>1 DEF Ends, Bits
  <2>3. f[i] = Bit(data, s + i) * pow2[i] + f[i + 1]
    <3>1. f[i] = Bit(data, (s + i) % 256) * pow2[i] + f[i + 1]
      BY <1>1, <2>1, <2>2 DEF IsFrom
    <3> QED BY <2>1, <3>1
  <2>4. PICK pos \in Nat : pos = s + i
    BY <2>1
  <2>5. pos < 8 * Len(data)
    BY <1>2, <2>1, <2>4
  <2>6. Bit(data, pos) = (number(data) \div pow2[pos]) % 2
    BY <2>5, BitIs
  <2> QED BY <1>3, <2>3, <2>4, <2>6
<1>a. m \in Nat
  OBVIOUS
<1> DEFINE Good == {k \in 0..m : f[m - k] = pow2[m - k] * ((x \div pow2[s + (m - k)]) % pow2[k])}
<1>6. 0 \in Good
  <2>1. m - 0 = m /\ 0 \in 0..m /\ m \in Nat /\ s + m \in Nat
    OBVIOUS
  <2>2. PICK p \in Nat, q \in Nat \ {0} : p = pow2[m] /\ q = pow2[s + m]
    BY <2>1, PowIs
  <2>3. PICK y \in Nat : y = x \div q
    BY DivSplit
  <2>4. y % 1 = 0 /\ p * 0 = 0
    OBVIOUS
  <2> QED BY <1>4, <2>1, <2>2, <2>3, <2>4, PowIs
<1>7. ASSUME NEW k \in 0..(m - 1), k \in Good PROVE k + 1 \in Good
  <2>1. PICK i \in 0..(m - 1) : i = m - (k + 1) /\ i + 1 = m - k
    <3>1. m - (k + 1) \in 0..(m - 1) /\ m - (k + 1) + 1 = m - k
      OBVIOUS
    <3> QED BY <3>1
  <2>2. i \in Nat /\ k \in Nat /\ s + i \in Nat /\ s + (i + 1) = (s + i) + 1 /\ k + 1 \in 0..m
    OBVIOUS
  <2>3. PICK p \in Nat \ {0}, b \in Nat \ {0}, q \in Nat \ {0} : p = pow2[i] /\ b = pow2[k] /\ q = pow2[s + i]
    BY <2>2, PowIs
  <2>4. pow2[i + 1] = 2 * p /\ pow2[k + 1] = 2 * b
    BY <2>2, <2>3, PowIs
  <2>5. PICK y \in Nat : y = x \div q
    BY DivSplit
  <2>6. x \div pow2[(s + i) + 1] = y \div 2
    <3>1. PICK u \in Nat, w \in Nat : u = s + i /\ w = 1
      BY <2>2
    <3>2. x \div pow2[u + w] = (x \div pow2[u]) \div pow2[w]
      BY ShiftAdd
    <3> QED BY <2>3, <2>5, <3>1, <3>2, PowSmall
  <2>7. PICK c \in Nat, t \in Nat : c = y % 2 /\ t = (y \div 2) % b
    <3>1. y % 2 \in Nat /\ y \div 2 \in Nat
      OBVIOUS
    <3>2. PICK h \in Nat : h = y \div 2
      BY <3>1
    <3>3. PICK g \in Nat, r \in 0..(b - 1) : g = h \div b /\ r = h % b /\ h = b * g + r
      BY DivSplit
    <3>4. r \in Nat
      OBVIOUS
    <3> QED BY <3>1, <3>2, <3>3, <3>4
  <2>8. y % (2 * b) = c + 2 * t
    BY <2>7, ModDouble
  <2>9. f[i + 1] = (2 * p) * t
    BY <1>7, <2>1, <2>2, <2>3, <2>4, <2>6, <2>7
  <2>10. f[i] = c * p + f[i + 1]
    BY <1>5, <2>3, <2>5, <2>7
  <2>11. c * p + (2 * p) * t = p * (c + 2 * t)
    BY Z3
  <2>12. f[i] = p * (y % (2 * b))
    BY <2>8, <2>9, <2>10, <2>11
  <2>13. f[i] = pow2[i] * ((x \div pow2[s + i]) % pow2[k + 1])
    BY <2>3, <2>4, <2>5, <2>12
  <2> QED BY <2>1, <2>2, <2>13
<1>8. \A k \in 0..m : k \in Good
  <2> HIDE DEF Good
  <2> QED BY <1>a, <1>6, <1>7, SL!UpTo
<1>9. m \in Good
  <2> HIDE DEF Good
  <2> QED BY <1>a, <1>8
<1>10. m - m = 0 /\ s + 0 = s
  OBVIOUS
<1>11. f[0] = 1 * ((x \div pow2[s]) % pow2[m])
  BY <1>9, <1>10, PowIs
<1>12. (x \div pow2[s]) % pow2[m] \in Int
  <2>1. PICK p \in Nat \ {0}, b \in Nat \ {0} : p = pow2[s] /\ b = pow2[m]
    BY <1>a, PowIs
  <2>2. PICK y \in Nat : y = x \div p
    BY DivSplit
  <2>3. PICK r \in 0..(b - 1) : r = y % b
    BY DivSplit
  <2> QED BY <2>1, <2>2, <2>3
<1>13. PICK r \in Int : r = (x \div pow2[s]) % pow2[m]
  BY <1>12
<1> QED BY <1>1, <1>3, <1>11, <1>13

LEMMA PowMono ==
  ASSUME NEW i \in Nat, NEW j \in Nat, i <= j
  PROVE  pow2[i] <= pow2[j]
<1>1. PICK k \in Nat : k = j - i /\ i + k = j
  <2>1. j - i \in Nat /\ i + (j - i) = j
    OBVIOUS
  <2> QED BY <2>1
<1>2. PICK a \in Nat \ {0}, b \in Nat \ {0} : a = pow2[i] /\ b = pow2[k]
  BY PowIs
<1>3. pow2[j] = a * b
  BY <1>1, <1>2, PowAdd
<1>4. PICK c \in Nat : b = 1 + c
  <2>1. b - 1 \in Nat /\ b = 1 + (b - 1)
    OBVIOUS
  <2> QED BY <2>1
<1>5. a * b = a + a * c /\ a * c >= 0
  BY <1>4, Z3
<1>6. a * c \in Int /\ a <= a + a * c
  BY <1>5
<1> QED BY <1>2, <1>3, <1>5, <1>6

LEMMA SmallMod ==
  ASSUME NEW b \in Nat \ {0}, NEW y \in Nat, y < b
  PROVE  y % b = y
<1>1. y = b * 0 + y /\ y \in 0..(b - 1)
  OBVIOUS
<1> QED BY <1>1, DivUnique

(***************************************************************************)
(* extract_bits, for every frame below 256 bits, position and length.      *)
(***************************************************************************)
There(data, s, n) ==
  IF s >= Bits(data) THEN 0
  ELSE (number(data) \div pow2[s]) % pow2[IF n < Bits(data) THEN n ELSE Bits(data)]

LEMMA ExtractExact ==
  ASSUME NEW data \in Seq(0..255), Len(data) <= 31, NEW s \in 0..255, NEW n \in Nat
  PROVE  extract_bits(data, s, n) = There(data, s, n)
<1>1. PICK W \in Nat : W = 8 * Len(data) /\ W = Bits(data)
  BY ByteType DEF Bits
<1>2. CASE s >= W
  <2>1. extract_bits(data, s, n) = 0
    BY <1>1, <1>2, ExtractBeyond
  <2> QED BY <1>1, <1>2, <2>1 DEF There
<1>3. CASE s < W
  <2>1. PICK w \in Nat : w = IF n < W THEN n ELSE W
    OBVIOUS
  <2>2. There(data, s, n) = (number(data) \div pow2[s]) % pow2[w]
    BY <1>1, <1>3, <2>1 DEF There
  <2>3. CASE s + n <= W
    <3>1. w = n /\ n \in 0..n /\ s \in Nat
      BY <2>1, <2>3
    <3>2. s + n <= 8 * Len(data)
      BY <1>1, <2>3
    <3>3. extract_bits(data, s, n) = (number(data) \div pow2[s]) % pow2[n]
      BY <3>1, <3>2, ExtractWithin
    <3> QED BY <2>2, <3>1, <3>3
  <2>4. CASE s + n > W
    <3>1. PICK m \in 0..n : m = W - s /\ m \in Nat /\ m <= w
      <4>1. W - s \in 0..n /\ W - s \in Nat /\ W - s <= w
        BY <1>3, <2>1, <2>4
      <4> QED BY <4>1
    <3>2. s + m = 8 * Len(data) /\ s + m <= 8 * Len(data) /\ s \in Nat
      BY <1>1, <3>1
    <3>3. extract_bits(data, s, n) = (number(data) \div pow2[s]) % pow2[m]
      BY <3>2, ExtractWithin
    <3>4. PICK x \in Nat, p \in Nat \ {0}, b \in Nat \ {0}, c \in Nat \ {0} :
             x = number(data) /\ p = pow2[s] /\ b = pow2[m] /\ c = pow2[w]
      BY <3>1, <3>2, NumberBound, PowIs
    <3>5. b <= c
      BY <3>1, <3>4, PowMono
    <3>6. x < p * b
      <4>1. pow2[s + m] = p * b
        BY <3>1, <3>2, <3>4, PowAdd
      <4> QED BY <3>2, <3>4, <4>1, NumberBound
    <3>7. PICK y \in Nat, r \in 0..(p - 1) : y = x \div p /\ x = p * y + r
      <4>1. PICK y \in Nat, r \in 0..(p - 1) : y = x \div p /\ r = x % p /\ x = p * y + r
        BY DivSplit
      <4> QED BY <4>1
    <3>8. y < b
      <4>1. CASE y >= b
        <5>1. PICK d \in Nat : y = b + d
          <6>1. y - b \in Nat /\ y = b + (y - b)
            BY <4>1
          <6> QED BY <6>1
        <5>2. p * y = p * b + p * d /\ p * d >= 0
          BY <5>1, Z3
        <5>3. p * y \in Int /\ p * b \in Int /\ p * d \in Int
          OBVIOUS
        <5> QED BY <3>6, <3>7, <5>2, <5>3
      <4> QED BY <4>1
    <3>9. y % b = y /\ y % c = y
      <4>1. y < c
        BY <3>5, <3>8
      <4> QED BY <3>8, <4>1, SmallMod
    <3> QED BY <2>2, <3>3, <3>4, <3>7, <3>9
  <2> QED BY <2>3, <2>4
<1> QED BY <1>2, <1>3

-----------------------------------------------------------------------------
Shorter(a, b) == IF a < b THEN a ELSE b

TwosComplement(t, n, signed) ==
  CHOOSE v \in {t, t - pow2[n]} :
    IF signed /\ n > 0 THEN -pow2[n - 1] <= v /\ v < pow2[n - 1] ELSE v = t

Limited(lo, hi, v) == IF v < lo THEN lo ELSE IF v > hi THEN hi ELSE v

LEMMA ThereType ==
  ASSUME NEW data \in Seq(0..255), NEW s \in Nat, NEW n \in Nat
  PROVE  There(data, s, n) \in 0..(pow2[Shorter(n, Bits(data))] - 1)
<1>1. PICK W \in Nat : W = Bits(data)
  BY ByteType DEF Bits
<1>2. PICK w \in Nat : w = Shorter(n, W)
  BY DEF Shorter
<1>3. PICK x \in Nat, p \in Nat \ {0}, b \in Nat \ {0} : x = number(data) /\ p = pow2[s] /\ b = pow2[w]
  BY NumberBound, PowIs
<1>4. PICK y \in Nat : y = x \div p
  BY DivSplit
<1>5. PICK r \in 0..(b - 1) : r = y % b
  BY DivSplit
<1>6. There(data, s, n) = IF s >= W THEN 0 ELSE r
  BY <1>1, <1>2, <1>3, <1>4, <1>5 DEF There, Shorter
<1>7. 0 \in 0..(b - 1)
  OBVIOUS
<1> QED BY <1>1, <1>2, <1>3, <1>6, <1>7

(***************************************************************************)
(* The sign extension of decode, step 2, is two's complement.              *)
(***************************************************************************)
LEMMA SignExtends ==
  ASSUME NEW n \in Nat, NEW t \in 0..(pow2[n] - 1), NEW signed \in BOOLEAN
  PROVE  TwosComplement(t, n, signed) =
           IF signed /\ n > 0 /\ t \div pow2[n - 1] = 1 THEN t - pow2[n] ELSE t
<1>1. PICK v : v = TwosComplement(t, n, signed)
  OBVIOUS
<1>2. CASE signed /\ n > 0
  <2>1. n - 1 \in Nat /\ (n - 1) + 1 = n
    BY <1>2
  <2>2. PICK h \in Nat \ {0} : h = pow2[n - 1]
    BY <2>1, PowIs
  <2>3. pow2[n] = 2 * h
    BY <2>1, <2>2, PowIs
  <2>4. t \in Nat /\ t < 2 * h
    BY <2>3
  <2>5. v = CHOOSE u \in {t, t - 2 * h} : -h <= u /\ u < h
    BY <1>1, <1>2, <2>2, <2>3 DEF TwosComplement
  <2>6. CASE t < h
    <3>1. t \in {t, t - 2 * h} /\ -h <= t /\ t < h
      BY <2>4, <2>6
    <3>2. v \in {t, t - 2 * h} /\ -h <= v /\ v < h
      BY <2>5, <3>1, Zenon
    <3>3. v = t
      BY <2>4, <2>6, <3>2
    <3>4. t \div h = 0
      <4>1. t = h * 0 + t /\ t \in 0..(h - 1) /\ 0 \in Int
        BY <2>4, <2>6
      <4> QED BY <4>1, DivUnique
    <3> QED BY <1>1, <2>2, <3>3, <3>4
  <2>7. CASE t >= h
    <3>1. t - 2 * h \in {t, t - 2 * h} /\ -h <= t - 2 * h /\ t - 2 * h < h
      BY <2>4, <2>7
    <3>2. v \in {t, t - 2 * h} /\ -h <= v /\ v < h
      BY <2>5, <3>1, Zenon
    <3>3. v = t - 2 * h
      BY <2>4, <2>7, <3>2
    <3>4. t \div h = 1
      <4>1. t = h * 1 + (t - h) /\ t - h \in 0..(h - 1) /\ 1 \in Int
        BY <2>4, <2>7
      <4> QED BY <4>1, DivUnique
    <3> QED BY <1>1, <1>2, <2>2, <2>3, <3>3, <3>4
  <2> QED BY <2>4, <2>6, <2>7
<1>3. CASE ~(signed /\ n > 0)
  <2>1. v = CHOOSE u \in {t, t - pow2[n]} : u = t
    BY <1>1, <1>3 DEF TwosComplement
  <2>2. v = t
    <3>1. t \in {t, t - pow2[n]} /\ t = t
      OBVIOUS
    <3> QED BY <2>1, <3>1, Zenon
  <2> QED BY <1>1, <1>3, <2>2
<1> QED BY <1>2, <1>3

LEMMA ClampLimits ==
  ASSUME NEW lo \in Int, NEW hi \in Int, lo <= hi, NEW v \in Int
  PROVE  clamp(lo, hi, v) = Limited(lo, hi, v)
BY DEF clamp, Limited

LEMMA RawSignedIs ==
  ASSUME NEW data \in Seq(0..255), Len(data) <= 31, NEW sig,
         sig.start_bit \in 0..255, sig.length \in Nat, sig.is_signed \in BOOLEAN
  PROVE  /\ raw_signed(data, sig) =
              TwosComplement(There(data, sig.start_bit, sig.length),
                             Shorter(sig.length, Bits(data)),
                             sig.is_signed \/ Shorter(sig.length, Bits(data)) = Bits(data))
         /\ raw_signed(data, sig) \in Int
<1>1. PICK s \in 0..255, l \in Nat : s = sig.start_bit /\ l = sig.length
  OBVIOUS
<1>2. PICK W \in Nat : W = Bits(data)
  BY ByteType DEF Bits
<1>3. PICK n \in Nat : n = Shorter(l, W)
  BY DEF Shorter
<1>4. PICK t : t = There(data, s, l)
  OBVIOUS
<1>5. t \in 0..(pow2[n] - 1)
  <2>1. s \in Nat
    OBVIOUS
  <2> QED BY <1>2, <1>3, <1>4, <2>1, ThereType
<1>6. extract_bits(data, s, l) = t
  BY <1>4, ExtractExact
<1>7. PICK signed \in BOOLEAN : signed = (sig.is_signed \/ n = W)
  OBVIOUS
<1>8. raw_signed(data, sig) =
        IF signed /\ n > 0 /\ t \div pow2[n - 1] = 1 THEN t - pow2[n] ELSE t
  BY <1>1, <1>2, <1>3, <1>6, <1>7 DEF raw_signed, Shorter
<1>9. TwosComplement(t, n, signed) =
        IF signed /\ n > 0 /\ t \div pow2[n - 1] = 1 THEN t - pow2[n] ELSE t
  BY <1>5, SignExtends
<1>10. raw_signed(data, sig) = TwosComplement(t, n, signed)
  BY <1>8, <1>9
<1>11. raw_signed(data, sig) \in Int
  <2>1. pow2[n] \in Nat
    BY PowIs
  <2>2. t \in Int /\ t - pow2[n] \in Int
    BY <1>5, <2>1
  <2> QED BY <1>8, <2>2
<1> QED BY <1>1, <1>2, <1>3, <1>4, <1>7, <1>10, <1>11

(***************************************************************************)
(* Decoding is exact for every frame of up to 31 bytes, whatever its       *)
(* bytes, and every signal whose limits are in order: wherever it starts,  *)
(* however long it is, signed or not, an unsigned one as long as the frame *)
(* excepted.                                                               *)
(***************************************************************************)
THEOREM DecodingIsExact ==
  ASSUME NEW data \in Seq(0..255), Len(data) <= 31, NEW sig,
         sig.start_bit \in 0..255, sig.length \in Nat, sig.is_signed \in BOOLEAN,
         sig.scale \in Int, sig.offset \in Int, sig.min_val \in Int, sig.max_val \in Int,
         sig.min_val <= sig.max_val, Decodable(data, sig)
  PROVE  DecodesExactly(data, sig)
<1>1. PICK t, n, b, v :
        /\ t = There(data, sig.start_bit, sig.length)
        /\ n = Shorter(sig.length, Bits(data))
        /\ b = sig.is_signed
        /\ v = TwosComplement(t, n, b)
  OBVIOUS
<1>2. v = raw_signed(data, sig) /\ v \in Int
  <2>1. Bits(data) \in Nat
    BY ByteType DEF Bits
  <2>2. n = Bits(data) => sig.is_signed
    BY <1>1, <2>1 DEF Decodable, Shorter
  <2>3. b = (sig.is_signed \/ n = Bits(data)) /\ b \in BOOLEAN
    BY <1>1, <2>2
  <2> QED BY <1>1, <2>3, RawSignedIs, Zenon
<1>3. PICK physical \in Int : physical = v * sig.scale + sig.offset
  <2>1. PICK a \in Int, c \in Int : a = sig.scale /\ c = sig.offset
    OBVIOUS
  <2>2. v * a + c \in Int
    BY <1>2
  <2> QED BY <2>1, <2>2
<1>4. decode(data, sig) = Limited(sig.min_val, sig.max_val, physical)
  <2>1. decode(data, sig) = clamp(sig.min_val, sig.max_val, physical)
    BY <1>2, <1>3 DEF decode
  <2> QED BY <2>1, ClampLimits
<1>5. DecodesExactly(data, sig) <=>
        decode(data, sig) = Limited(sig.min_val, sig.max_val, v * sig.scale + sig.offset)
  BY <1>1, Zenon DEF DecodesExactly, Limited, TwosComplement, There, Shorter
<1> QED BY <1>3, <1>4, <1>5

-----------------------------------------------------------------------------
(***************************************************************************)
(* The data of a frame, byte by byte.                                      *)
(***************************************************************************)
Frames == [1..8 -> 0..255]

LEMMA FrameSeq ==
  ASSUME NEW data \in Frames
  PROVE  data \in Seq(0..255) /\ Len(data) = 8 /\ Bits(data) = 64
<1>1. data \in [1..8 -> 0..255] /\ 8 \in Nat
  BY DEF Frames
<1>2. data \in Seq(0..255)
  <2>1. PICK S : S = 0..255
    OBVIOUS
  <2>2. PICK n \in Nat : n = 8
    OBVIOUS
  <2>3. data \in [1..n -> S]
    BY <1>1, <2>1, <2>2
  <2>4. data \in Seq(S)
    BY <2>3, SeqDef
  <2> QED BY <2>1, <2>4
<1>3. Len(data) = 8
  BY <1>1, <1>2
<1> QED BY <1>2, <1>3 DEF Bits

LEMMA PowWord == pow2[16] = 65536
<1>1. PICK u \in Nat : u = 8
  OBVIOUS
<1>2. pow2[u + u] = pow2[u] * pow2[u]
  BY PowAdd
<1>3. u + u = 16
  BY <1>1
<1> QED BY <1>1, <1>2, <1>3, PowSmall

Above(data, k, z) ==
  /\ z \in Nat
  /\ number(data) \div pow2[8 * k] = data[k + 1] + 256 * z
  /\ k < 7 => \E y \in Nat : z = data[k + 2] + 256 * y

LEMMA AlignedShift ==
  ASSUME NEW data \in Frames, NEW k \in 0..7
  PROVE  \E z : Above(data, k, z)
<1>1. data \in Seq(0..255) /\ Len(data) = 8
  BY FrameSeq
<1>2. PICK f : IsAbove(data, f) /\ number(data) = f[0]
  BY <1>1, NumberIs
<1>3. f \in [0..8 -> Nat]
  BY <1>1, <1>2 DEF IsAbove
<1>4. \A i \in 0..7 : f[i] = data[i + 1] + 256 * f[i + 1]
  <2>1. 0..(8 - 1) = 0..7
    OBVIOUS
  <2> QED BY <1>1, <1>2, <2>1, ZenonT(60) DEF IsAbove
<1>5. f[0] \div pow2[8 * k] = f[k]
  <2>1. k \in 0..8
    OBVIOUS
  <2> QED BY <1>1, <1>2, <2>1, AboveShift
<1>6. PICK z \in Nat : z = f[k + 1]
  <2>1. k + 1 \in 0..8
    OBVIOUS
  <2> QED BY <1>3, <2>1
<1>7. number(data) \div pow2[8 * k] = data[k + 1] + 256 * z
  BY <1>2, <1>4, <1>5, <1>6
<1>8. ASSUME k < 7 PROVE \E y \in Nat : z = data[k + 2] + 256 * y
  <2>1. k + 1 \in 0..7 /\ (k + 1) + 1 = k + 2 /\ k + 2 \in 0..8
    BY <1>8
  <2>2. PICK y \in Nat : y = f[k + 2]
    BY <1>3, <2>1
  <2>3. z = data[k + 2] + 256 * y
    BY <1>4, <1>6, <2>1, <2>2
  <2> QED BY <2>3
<1>9. Above(data, k, z)
  BY <1>7, <1>8 DEF Above
<1> QED BY <1>9

(***************************************************************************)
(* What extract_bits finds at a byte boundary.                             *)
(***************************************************************************)
LEMMA ExtractAligned ==
  ASSUME NEW data \in Frames, NEW k \in 0..7
  PROVE  /\ extract_bits(data, 8 * k, 8) = data[k + 1]
         /\ k < 7 => extract_bits(data, 8 * k, 16) = data[k + 1] + 256 * data[k + 2]
         /\ extract_bits(data, 8 * k, 1) = data[k + 1] % 2
<1>1. PICK z \in Nat : /\ number(data) \div pow2[8 * k] = data[k + 1] + 256 * z
                       /\ k < 7 => \E y \in Nat : z = data[k + 2] + 256 * y
  <2>1. PICK z : Above(data, k, z)
    BY AlignedShift, Zenon
  <2> QED BY <2>1 DEF Above
<1>2. PICK x : x = number(data) \div pow2[8 * k]
  OBVIOUS
<1>3. ASSUME NEW n \in 0..63 PROVE extract_bits(data, 8 * k, n) = x % pow2[n]
  <2>1. data \in Seq(0..255) /\ Len(data) = 8 /\ Bits(data) = 64
    BY FrameSeq
  <2>2. PICK s \in 0..255 : s = 8 * k
    <3>1. 8 * k \in 0..255
      OBVIOUS
    <3> QED BY <3>1
  <2>3. n \in Nat /\ Len(data) <= 31
    BY <2>1
  <2>4. extract_bits(data, s, n) = There(data, s, n)
    BY <2>1, <2>3, ExtractExact
  <2>5. ~(s >= 64) /\ n < 64
    BY <2>2
  <2> QED BY <1>2, <2>1, <2>2, <2>4, <2>5 DEF There
<1>4. PICK d \in 0..255 : d = data[k + 1]
  <2>1. k + 1 \in 1..8
    OBVIOUS
  <2> QED BY <2>1 DEF Frames
<1>5. x = d + 256 * z
  BY <1>1, <1>2, <1>4
<1>6. extract_bits(data, 8 * k, 8) = data[k + 1]
  <2>1. extract_bits(data, 8 * k, 8) = x % 256
    BY <1>3, PowSmall
  <2>2. (d + 256 * z) % 256 = d
    OBVIOUS
  <2> QED BY <1>4, <1>5, <2>1, <2>2
<1>7. extract_bits(data, 8 * k, 1) = data[k + 1] % 2
  <2>1. extract_bits(data, 8 * k, 1) = x % 2
    BY <1>3, PowSmall
  <2>2. (d + 256 * z) % 2 = d % 2
    OBVIOUS
  <2> QED BY <1>4, <1>5, <2>1, <2>2
<1>8. ASSUME k < 7 PROVE extract_bits(data, 8 * k, 16) = data[k + 1] + 256 * data[k + 2]
  <2>1. PICK y \in Nat : z = data[k + 2] + 256 * y
    BY <1>1, <1>8
  <2>2. PICK e \in 0..255 : e = data[k + 2]
    <3>1. k + 2 \in 1..8
      BY <1>8
    <3> QED BY <3>1 DEF Frames
  <2>3. extract_bits(data, 8 * k, 16) = x % 65536
    BY <1>3, PowWord
  <2>4. x = (d + 256 * e) + 65536 * y
    BY <1>5, <2>1, <2>2
  <2>5. ((d + 256 * e) + 65536 * y) % 65536 = d + 256 * e
    OBVIOUS
  <2> QED BY <1>4, <2>2, <2>3, <2>4, <2>5
<1> QED BY <1>6, <1>7, <1>8

(***************************************************************************)
(* What decode makes of an unsigned signal shorter than the frame.         *)
(***************************************************************************)
LEMMA DecodeUnsigned ==
  ASSUME NEW data \in Frames, NEW s, NEW n \in 0..63, NEW scale, NEW offset, NEW lo, NEW hi
  PROVE  decode(data, Sig(s, n, scale, offset, lo, hi)) =
           clamp(lo, hi, extract_bits(data, s, n) * scale + offset)
<1>1. Bits(data) = 64
  BY FrameSeq
<1>2. PICK sig : sig = Sig(s, n, scale, offset, lo, hi)
  OBVIOUS
<1>3. /\ sig.start_bit = s /\ sig.length = n /\ ~sig.is_signed
      /\ sig.scale = scale /\ sig.offset = offset /\ sig.min_val = lo /\ sig.max_val = hi
  BY <1>2 DEF Sig
<1>4. n < 64 /\ n # 64
  OBVIOUS
<1>5. raw_signed(data, sig) = extract_bits(data, s, n)
  BY <1>1, <1>3, <1>4 DEF raw_signed
<1> QED BY <1>2, <1>3, <1>5 DEF decode

(***************************************************************************)
(* pack_u16 writes what extract_bits reads: the two bytes of a word.       *)
(***************************************************************************)
Words == {v \in Nat : v <= 65535}

LEMMA TwoBytes ==
  ASSUME NEW v \in Words
  PROVE  /\ v % 256 \in 0..255 /\ (v \div 256) % 256 \in 0..255
         /\ v = (v % 256) + 256 * ((v \div 256) % 256)
<1>1. v \in Nat /\ v < 65536
  BY DEF Words
<1>2. v \div 256 \in Nat /\ v % 256 \in 0..255 /\ v = 256 * (v \div 256) + (v % 256)
  BY <1>1
<1>3. PICK q \in Nat : q = v \div 256
  BY <1>2
<1>4. PICK r \in 0..255 : r = v % 256
  BY <1>2
<1>5. v = 256 * q + r
  BY <1>2, <1>3, <1>4
<1>6. q \in 0..255
  BY <1>1, <1>5
<1>7. q % 256 = q
  BY <1>6
<1> QED BY <1>3, <1>4, <1>5, <1>6, <1>7

Packed(data, o, v, g) ==
  /\ g \in Frames
  /\ g[o + 1] + 256 * g[o + 2] = v
  /\ \A i \in 1..8 : i # o + 1 /\ i # o + 2 => g[i] = data[i]

LEMMA PackedType ==
  ASSUME NEW data \in Frames, NEW o \in 0..6, NEW v \in Words
  PROVE  Packed(data, o, v, pack_u16(data, o, v))
<1>0. PICK g : g = pack_u16(data, o, v)
  OBVIOUS
<1>1. PICK a \in 0..255 : a = v % 256
  BY TwoBytes
<1>2. PICK b \in 0..255 : b = (v \div 256) % 256
  BY TwoBytes
<1>3. v = a + 256 * b
  BY <1>1, <1>2, TwoBytes
<1>4. PICK i \in 1..8, j \in 1..8 : i = o + 1 /\ j = o + 2 /\ i # j
  <2>1. o + 1 \in 1..8 /\ o + 2 \in 1..8 /\ o + 1 # o + 2
    OBVIOUS
  <2> QED BY <2>1
<1>5. g = [data EXCEPT ![i] = a, ![j] = b]
  BY <1>0, <1>1, <1>2, <1>4, Zenon DEF pack_u16
<1>6. data \in [1..8 -> 0..255]
  BY DEF Frames
<1>7. g \in [1..8 -> 0..255]
  BY <1>5, <1>6
<1>8. g[i] = a /\ g[j] = b
  BY <1>4, <1>5, <1>6
<1>9. ASSUME NEW m \in 1..8, m # i, m # j PROVE g[m] = data[m]
  BY <1>5, <1>6, <1>9
<1>10. g[o + 1] + 256 * g[o + 2] = v
  BY <1>3, <1>4, <1>8
<1>11. Packed(data, o, v, g)
  BY <1>4, <1>7, <1>9, <1>10 DEF Frames, Packed
<1> QED BY <1>0, <1>11

-----------------------------------------------------------------------------
(***************************************************************************)
(* Cut to the scale and clamped, a value within the limits is found again  *)
(* less than one step of the scale below.                                  *)
(***************************************************************************)
LEMMA Quantised ==
  ASSUME NEW scale \in Nat \ {0}, NEW w \in Nat, NEW lo \in Int, NEW hi \in Int, lo + w <= hi
  PROVE  clamp(lo, hi, (w \div scale) * scale + lo) \in (lo + w - scale + 1)..(lo + w)
<1>1. PICK q \in Nat, r \in 0..(scale - 1) : q = w \div scale /\ r = w % scale /\ w = scale * q + r
  BY DivSplit
<1>2. PICK p \in Nat : p = q * scale
  <2>1. q * scale \in Nat
    BY Z3
  <2> QED BY <2>1
<1>3. q * scale = scale * q
  BY Z3
<1>4. w = p + r
  BY <1>1, <1>2, <1>3
<1>5. clamp(lo, hi, p + lo) = p + lo
  BY <1>4 DEF clamp
<1> QED BY <1>1, <1>2, <1>4, <1>5

LEMMA ReadsWord ==
  ASSUME NEW data \in Frames, NEW k \in 0..6, NEW scale \in Nat \ {0}, NEW lo \in Int, NEW hi \in Int,
         NEW w \in Nat, lo + w <= hi, data[k + 1] + 256 * data[k + 2] = w \div scale
  PROVE  decode(data, Sig(8 * k, 16, scale, lo, lo, hi)) \in (lo + w - scale + 1)..(lo + w)
<1>1. PICK s : s = 8 * k
  OBVIOUS
<1>2. k \in 0..7 /\ k < 7
  OBVIOUS
<1>3. extract_bits(data, s, 16) = w \div scale
  BY <1>1, <1>2, ExtractAligned
<1>4. PICK n \in 0..63 : n = 16
  OBVIOUS
<1>5. decode(data, Sig(s, n, scale, lo, lo, hi)) = clamp(lo, hi, extract_bits(data, s, n) * scale + lo)
  BY DecodeUnsigned
<1> QED BY <1>1, <1>3, <1>4, <1>5, Quantised, ZenonT(60)

LEMMA ReadsByte ==
  ASSUME NEW data \in Frames, NEW k \in 0..7, NEW scale \in Nat \ {0}, NEW lo \in Int, NEW hi \in Int,
         NEW w \in Nat, lo + w <= hi, data[k + 1] = w \div scale
  PROVE  decode(data, Sig(8 * k, 8, scale, lo, lo, hi)) \in (lo + w - scale + 1)..(lo + w)
<1>1. PICK s : s = 8 * k
  OBVIOUS
<1>2. extract_bits(data, s, 8) = w \div scale
  BY <1>1, ExtractAligned
<1>3. PICK n \in 0..63 : n = 8
  OBVIOUS
<1>4. decode(data, Sig(s, n, scale, lo, lo, hi)) = clamp(lo, hi, extract_bits(data, s, n) * scale + lo)
  BY DecodeUnsigned
<1> QED BY <1>1, <1>2, <1>3, <1>4, Quantised

-----------------------------------------------------------------------------
(***************************************************************************)
(* The bytes of the three frames of can_simulator.                         *)
(***************************************************************************)
LEMMA EmptyFrame == NoData \in Frames /\ \A i \in 1..8 : NoData[i] = 0
BY DEF NoData, Frames

LEMMA CutToWord ==
  ASSUME NEW q \in Nat, q < 65536
  PROVE  q % 65536 \in Words /\ q % 65536 = q
<1>1. PICK b \in Nat \ {0} : b = 65536
  BY SMT
<1>2. q < b
  BY <1>1, SMT
<1>3. q % b = q
  BY <1>2, SmallMod, SMT
<1>4. q \in Words
  BY SMT DEF Words
<1> QED BY <1>1, <1>3, <1>4, SMT

LEMMA CutToByte ==
  ASSUME NEW q \in Nat, q < 256
  PROVE  q % 256 \in 0..255 /\ q % 256 = q
BY SMT

(***************************************************************************)
(* The values a signal of vehicle.dbc can have, in its units.              *)
(***************************************************************************)
Rpms      == {v \in Nat : v <= 16383750}
Temps     == {v \in Int : -40000 <= v /\ v <= 148750}
Throttles == {v \in Nat : v <= 100000000}
Speeds    == {v \in Nat : 1000 <= v /\ v <= 654350}   \* the wheels within their limits too

LEMMA RpmFits ==
  ASSUME NEW rpm \in Rpms
  PROVE  rpm \in Nat /\ (rpm \div 250) % 65536 \in Words /\ (rpm \div 250) % 65536 = rpm \div 250
<1>1. rpm \in Nat /\ rpm \div 250 \in Nat /\ rpm \div 250 < 65536
  BY SMT DEF Rpms
<1>2. PICK q \in Nat : q = rpm \div 250 /\ q < 65536
  BY <1>1, SMT
<1>3. q % 65536 \in Words /\ q % 65536 = q
  BY <1>2, CutToWord, SMT
<1> QED BY <1>1, <1>2, <1>3, SMT

LEMMA TempFits ==
  ASSUME NEW temp \in Temps
  PROVE  /\ temp + 40000 \in Nat /\ ((temp + 40000) \div 750) % 256 \in 0..255
         /\ ((temp + 40000) \div 750) % 256 = (temp + 40000) \div 750
<1>1. PICK w \in Nat : w = temp + 40000 /\ w < 188751
  <2>1. temp + 40000 \in Nat /\ temp + 40000 < 188751
    BY SMT DEF Temps
  <2> QED BY <2>1, SMT
<1>2. PICK q \in Nat : q = w \div 750 /\ q < 256
  <2>1. w \div 750 \in Nat /\ w \div 750 < 256
    BY <1>1, SMT
  <2> QED BY <2>1, SMT
<1>3. q % 256 \in 0..255 /\ q % 256 = q
  BY <1>2, CutToByte, SMT
<1> QED BY <1>1, <1>2, <1>3, SMT

LEMMA ThrottleFits ==
  ASSUME NEW throttle \in Throttles
  PROVE  /\ throttle \in Nat /\ (throttle \div 392157) % 256 \in 0..255
         /\ (throttle \div 392157) % 256 = throttle \div 392157
<1>1. throttle \in Nat /\ throttle \div 392157 \in Nat /\ throttle \div 392157 < 256
  BY SMT DEF Throttles
<1>2. PICK q \in Nat : q = throttle \div 392157 /\ q < 256
  BY <1>1, SMT
<1>3. q % 256 \in 0..255 /\ q % 256 = q
  BY <1>2, CutToByte, SMT
<1> QED BY <1>1, <1>2, <1>3, SMT

LEMMA SpeedFits ==
  ASSUME NEW w \in Nat, w <= 655350
  PROVE  (w \div 10) % 65536 \in Words /\ (w \div 10) % 65536 = w \div 10
<1>1. w \div 10 \in Nat /\ w \div 10 < 65536
  BY SMT
<1>2. PICK q \in Nat : q = w \div 10 /\ q < 65536
  BY <1>1, SMT
<1>3. q % 65536 \in Words /\ q % 65536 = q
  BY <1>2, CutToWord, SMT
<1> QED BY <1>2, <1>3, SMT

LEMMA EngineBytes ==
  ASSUME NEW rpm \in Rpms, NEW temp \in Temps, NEW throttle \in Throttles, NEW g,
         g = engine_frame(rpm, temp, throttle)
  PROVE  /\ g \in Frames
         /\ g[1] + 256 * g[2] = rpm \div 250
         /\ g[3] = (temp + 40000) \div 750
         /\ g[4] = throttle \div 392157
<1>1. PICK v \in Words : v = (rpm \div 250) % 65536
  BY RpmFits, SMT
<1>2. PICK a \in 0..255 : a = ((temp + 40000) \div 750) % 256
  BY TempFits, SMT
<1>3. PICK b \in 0..255 : b = (throttle \div 392157) % 256
  BY ThrottleFits, SMT
<1>4. PICK p : p = pack_u16(NoData, 0, v)
  OBVIOUS
<1>5. p \in Frames /\ p[1] + 256 * p[2] = v
  <2>1. PICK o \in 0..6 : o = 0
    BY SMT
  <2>2. Packed(NoData, o, v, p)
    BY <1>4, <2>1, EmptyFrame, PackedType, Zenon
  <2> QED BY <2>1, <2>2, SMT DEF Packed
<1>6. g = [p EXCEPT ![3] = a, ![4] = b]
  BY <1>1, <1>2, <1>3, <1>4, SMT DEF engine_frame
<1>7. p \in [1..8 -> 0..255]
  BY <1>5 DEF Frames
<1>8. g \in [1..8 -> 0..255] /\ g[1] = p[1] /\ g[2] = p[2] /\ g[3] = a /\ g[4] = b
  BY <1>6, <1>7, SMT
<1>9. v = rpm \div 250 /\ a = (temp + 40000) \div 750 /\ b = throttle \div 392157
  BY <1>1, <1>2, <1>3, RpmFits, TempFits, ThrottleFits, SMT
<1> QED BY <1>5, <1>8, <1>9, SMT DEF Frames

LEMMA SpeedBytes ==
  ASSUME NEW speed \in Speeds, NEW g, g = speed_frame(speed)
  PROVE  /\ speed \in Nat /\ speed - 1000 \in Nat /\ speed + 1000 \in Nat /\ speed + 1000 <= 655350
         /\ g \in Frames
         /\ g[1] + 256 * g[2] = speed \div 10
         /\ g[3] + 256 * g[4] = (speed + 1000) \div 10
         /\ g[5] + 256 * g[6] = (speed - 1000) \div 10
<1>1. PICK x \in Nat, y \in Nat, z \in Nat : x = speed /\ y = speed + 1000 /\ z = speed - 1000
  <2>1. speed \in Nat /\ speed + 1000 \in Nat /\ speed - 1000 \in Nat
    BY SMT DEF Speeds
  <2> QED BY <2>1, SMT
<1>2. x <= 655350 /\ y <= 655350 /\ z <= 655350
  BY <1>1, SMT DEF Speeds
<1>3. PICK u \in Words : u = (x \div 10) % 65536 /\ u = x \div 10
  BY <1>2, SpeedFits, SMT
<1>4. PICK v \in Words : v = (y \div 10) % 65536 /\ v = y \div 10
  BY <1>2, SpeedFits, SMT
<1>5. PICK w \in Words : w = (z \div 10) % 65536 /\ w = z \div 10
  BY <1>2, SpeedFits, SMT
<1>6. PICK p, q : p = pack_u16(NoData, 0, u) /\ q = pack_u16(p, 2, v)
  OBVIOUS
<1>7. g = pack_u16(q, 4, w)
  BY <1>1, <1>3, <1>4, <1>5, <1>6, SMT DEF speed_frame
<1>8. p \in Frames /\ p[1] + 256 * p[2] = u
  <2>1. PICK o \in 0..6 : o = 0
    BY SMT
  <2>2. Packed(NoData, o, u, p)
    BY <1>6, <2>1, EmptyFrame, PackedType, Zenon
  <2> QED BY <2>1, <2>2, SMT DEF Packed
<1>9. q \in Frames /\ q[3] + 256 * q[4] = v /\ q[1] = p[1] /\ q[2] = p[2]
  <2>1. PICK o \in 0..6 : o = 2
    BY SMT
  <2>2. Packed(p, o, v, q)
    BY <1>6, <1>8, <2>1, PackedType, Zenon
  <2> QED BY <2>1, <2>2, SMT DEF Packed
<1>10. g \in Frames /\ g[5] + 256 * g[6] = w /\ g[1] = q[1] /\ g[2] = q[2] /\ g[3] = q[3] /\ g[4] = q[4]
  <2>1. PICK o \in 0..6 : o = 4
    BY SMT
  <2>2. Packed(q, o, w, g)
    BY <1>7, <1>9, <2>1, PackedType, Zenon
  <2> QED BY <2>1, <2>2, SMT DEF Packed
<1> QED BY <1>1, <1>2, <1>3, <1>4, <1>5, <1>8, <1>9, <1>10, SMT

Pressure(braking) == IF braking THEN 40000 ELSE 0

LEMMA BrakeBytes ==
  ASSUME NEW braking \in BOOLEAN, NEW g, g = brake_frame(Pressure(braking), braking)
  PROVE  /\ Pressure(braking) \in Nat /\ Pressure(braking) <= 255000
         /\ g \in Frames /\ g[1] = Pressure(braking) \div 1000 /\ g[2] = IF braking THEN 1 ELSE 0
<1>1. PICK w \in Nat : w = Pressure(braking) /\ w <= 40000
  <2>1. Pressure(braking) \in Nat /\ Pressure(braking) <= 40000
    BY SMT DEF Pressure
  <2> QED BY <2>1, SMT
<1>2. PICK a \in 0..255 : a = (w \div 1000) % 256 /\ a = w \div 1000
  <2>1. PICK q \in Nat : q = w \div 1000 /\ q < 256
    <3>1. w \div 1000 \in Nat /\ w \div 1000 < 256
      BY <1>1, SMT
    <3> QED BY <3>1, SMT
  <2>2. q % 256 \in 0..255 /\ q % 256 = q
    BY <2>1, CutToByte, SMT
  <2> QED BY <2>1, <2>2, SMT
<1>3. PICK b \in 0..1 : b = IF braking THEN 1 ELSE 0
  BY SMT
<1>4. g = [NoData EXCEPT ![1] = a, ![2] = b]
  BY <1>1, <1>2, <1>3, SMT DEF brake_frame
<1>5. NoData \in [1..8 -> 0..255]
  BY EmptyFrame DEF Frames
<1>6. g \in [1..8 -> 0..255] /\ g[1] = a /\ g[2] = b
  BY <1>4, <1>5, SMT
<1> QED BY <1>1, <1>2, <1>3, <1>6, SMT DEF Frames

Found(data, sig, v) == decode(data, sig) \in (v - sig.scale + 1)..v

(***************************************************************************)
(* What the simulator sends is what the gateway reads, for every value     *)
(* within the limits that vehicle.dbc gives the signals.                   *)
(***************************************************************************)
THEOREM SimulatorReadsBack ==
  ASSUME NEW d, d.rpm \in Rpms, d.temp \in Temps, d.throttle \in Throttles, d.speed \in Speeds,
         d.braking \in BOOLEAN
  PROVE  ReadsBack(d)
<1>1. PICK rpm \in Rpms, temp \in Temps, throttle \in Throttles, speed \in Speeds, braking \in BOOLEAN :
        rpm = d.rpm /\ temp = d.temp /\ throttle = d.throttle /\ speed = d.speed /\ braking = d.braking
  OBVIOUS
<1>2. PICK engine : engine = engine_frame(rpm, temp, throttle)
  OBVIOUS
<1>3. PICK wheels : wheels = speed_frame(speed)
  OBVIOUS
<1>4. PICK pressure : pressure = Pressure(braking)
  OBVIOUS
<1>5. PICK brake : brake = brake_frame(pressure, braking)
  OBVIOUS
<1>6. /\ engine \in Frames
      /\ engine[1] + 256 * engine[2] = rpm \div 250
      /\ engine[3] = (temp + 40000) \div 750
      /\ engine[4] = throttle \div 392157
  BY <1>2, EngineBytes, SMT
<1>7. /\ speed \in Nat /\ speed - 1000 \in Nat /\ speed + 1000 \in Nat /\ speed + 1000 <= 655350
      /\ wheels \in Frames
      /\ wheels[1] + 256 * wheels[2] = speed \div 10
      /\ wheels[3] + 256 * wheels[4] = (speed + 1000) \div 10
      /\ wheels[5] + 256 * wheels[6] = (speed - 1000) \div 10
  BY <1>3, SpeedBytes, SMT
<1>8. /\ pressure \in Nat /\ pressure <= 255000
      /\ brake \in Frames /\ brake[1] = pressure \div 1000 /\ brake[2] = IF braking THEN 1 ELSE 0
  BY <1>4, <1>5, BrakeBytes, SMT
<1>6a. engine \in Frames
  BY <1>6
<1>7a. wheels \in Frames
  BY <1>7
<1>8a. brake \in Frames
  BY <1>8
<1>9. decode(engine, EngineRPM) \in (rpm - 250 + 1)..(rpm)
  <2>1. PICK k \in 0..6, scale \in Nat \ {0}, lo \in Int, hi \in Int :
          k = 0 /\ scale = 250 /\ lo = 0 /\ hi = 16383750
    BY SMT
  <2>2. PICK w \in Nat : w = rpm
    BY RpmFits, SMT
  <2>3. lo + w = rpm /\ lo + w - scale + 1 = rpm - 250 + 1
    BY <2>1, <2>2, SMT DEF Rpms
  <2>a. lo + w <= hi
    BY <2>1, <2>2, SMT DEF Rpms
  <2>4. engine[k + 1] + 256 * engine[k + 2] = w \div scale
    BY <1>6, <2>1, <2>2, SMT
  <2>5. decode(engine, Sig(8 * k, 16, scale, lo, lo, hi)) \in (lo + w - scale + 1)..(lo + w)
    BY <1>6a, <2>a, <2>4, ReadsWord, Zenon
  <2>6. EngineRPM = Sig(8 * k, 16, scale, lo, lo, hi)
    BY <2>1, SMT DEF EngineRPM
  <2> QED BY <2>3, <2>5, <2>6, SMT
<1>10. decode(engine, EngineTemp) \in (temp - 750 + 1)..(temp)
  <2>1. PICK k \in 0..7, scale \in Nat \ {0}, lo \in Int, hi \in Int :
          k = 2 /\ scale = 750 /\ lo = -40000 /\ hi = 148750
    BY SMT
  <2>2. PICK w \in Nat : w = temp + 40000
    BY TempFits, SMT
  <2>3. lo + w = temp /\ lo + w - scale + 1 = temp - 750 + 1
    BY <2>1, <2>2, SMT DEF Temps
  <2>a. lo + w <= hi
    BY <2>1, <2>2, SMT DEF Temps
  <2>4. engine[k + 1] = w \div scale
    BY <1>6, <2>1, <2>2, SMT
  <2>5. decode(engine, Sig(8 * k, 8, scale, lo, lo, hi)) \in (lo + w - scale + 1)..(lo + w)
    BY <1>6a, <2>a, <2>4, ReadsByte, Zenon
  <2>6. EngineTemp = Sig(8 * k, 8, scale, lo, lo, hi)
    BY <2>1, SMT DEF EngineTemp
  <2> QED BY <2>3, <2>5, <2>6, SMT
<1>11. decode(engine, ThrottlePos) \in (throttle - 392157 + 1)..(throttle)
  <2>1. PICK k \in 0..7, scale \in Nat \ {0}, lo \in Int, hi \in Int :
          k = 3 /\ scale = 392157 /\ lo = 0 /\ hi = 100000000
    BY SMT
  <2>2. PICK w \in Nat : w = throttle
    BY ThrottleFits, SMT
  <2>3. lo + w = throttle /\ lo + w - scale + 1 = throttle - 392157 + 1
    BY <2>1, <2>2, SMT DEF Throttles
  <2>a. lo + w <= hi
    BY <2>1, <2>2, SMT DEF Throttles
  <2>4. engine[k + 1] = w \div scale
    BY <1>6, <2>1, <2>2, SMT
  <2>5. decode(engine, Sig(8 * k, 8, scale, lo, lo, hi)) \in (lo + w - scale + 1)..(lo + w)
    BY <1>6a, <2>a, <2>4, ReadsByte, Zenon
  <2>6. ThrottlePos = Sig(8 * k, 8, scale, lo, lo, hi)
    BY <2>1, SMT DEF ThrottlePos
  <2> QED BY <2>3, <2>5, <2>6, SMT
<1>12. decode(wheels, VehicleSpeed) \in (speed - 10 + 1)..(speed)
  <2>1. PICK k \in 0..6, scale \in Nat \ {0}, lo \in Int, hi \in Int :
          k = 0 /\ scale = 10 /\ lo = 0 /\ hi = 655350
    BY SMT
  <2>2. PICK w \in Nat : w = speed
    BY <1>7, SMT
  <2>3. lo + w = speed /\ lo + w - scale + 1 = speed - 10 + 1
    BY <1>7, <2>1, <2>2, SMT
  <2>a. lo + w <= hi
    BY <1>7, <2>1, <2>2, SMT
  <2>4. wheels[k + 1] + 256 * wheels[k + 2] = w \div scale
    BY <1>7, <2>1, <2>2, SMT
  <2>5. decode(wheels, Sig(8 * k, 16, scale, lo, lo, hi)) \in (lo + w - scale + 1)..(lo + w)
    BY <1>7a, <2>a, <2>4, ReadsWord, Zenon
  <2>6. VehicleSpeed = Sig(8 * k, 16, scale, lo, lo, hi)
    BY <2>1, SMT DEF VehicleSpeed
  <2> QED BY <2>3, <2>5, <2>6, SMT
<1>13. decode(wheels, WheelSpeed_FL) \in (speed + 1000 - 10 + 1)..(speed + 1000)
  <2>1. PICK k \in 0..6, scale \in Nat \ {0}, lo \in Int, hi \in Int :
          k = 2 /\ scale = 10 /\ lo = 0 /\ hi = 655350
    BY SMT
  <2>2. PICK w \in Nat : w = speed + 1000
    BY <1>7, SMT
  <2>3. lo + w = speed + 1000 /\ lo + w - scale + 1 = speed + 1000 - 10 + 1
    BY <1>7, <2>1, <2>2, SMT
  <2>a. lo + w <= hi
    BY <1>7, <2>1, <2>2, SMT
  <2>4. wheels[k + 1] + 256 * wheels[k + 2] = w \div scale
    BY <1>7, <2>1, <2>2, SMT
  <2>5. decode(wheels, Sig(8 * k, 16, scale, lo, lo, hi)) \in (lo + w - scale + 1)..(lo + w)
    BY <1>7a, <2>a, <2>4, ReadsWord, Zenon
  <2>6. WheelSpeed_FL = Sig(8 * k, 16, scale, lo, lo, hi)
    BY <2>1, SMT DEF WheelSpeed_FL
  <2> QED BY <2>3, <2>5, <2>6, SMT
<1>14. decode(wheels, WheelSpeed_FR) \in (speed - 1000 - 10 + 1)..(speed - 1000)
  <2>1. PICK k \in 0..6, scale \in Nat \ {0}, lo \in Int, hi \in Int :
          k = 4 /\ scale = 10 /\ lo = 0 /\ hi = 655350
    BY SMT
  <2>2. PICK w \in Nat : w = speed - 1000
    BY <1>7, SMT
  <2>3. lo + w = speed - 1000 /\ lo + w - scale + 1 = speed - 1000 - 10 + 1
    BY <1>7, <2>1, <2>2, SMT
  <2>a. lo + w <= hi
    BY <1>7, <2>1, <2>2, SMT
  <2>4. wheels[k + 1] + 256 * wheels[k + 2] = w \div scale
    BY <1>7, <2>1, <2>2, SMT
  <2>5. decode(wheels, Sig(8 * k, 16, scale, lo, lo, hi)) \in (lo + w - scale + 1)..(lo + w)
    BY <1>7a, <2>a, <2>4, ReadsWord, Zenon
  <2>6. WheelSpeed_FR = Sig(8 * k, 16, scale, lo, lo, hi)
    BY <2>1, SMT DEF WheelSpeed_FR
  <2> QED BY <2>3, <2>5, <2>6, SMT
<1>15. decode(brake, BrakePressure) \in (pressure - 1000 + 1)..(pressure)
  <2>1. PICK k \in 0..7, scale \in Nat \ {0}, lo \in Int, hi \in Int :
          k = 0 /\ scale = 1000 /\ lo = 0 /\ hi = 255000
    BY SMT
  <2>2. PICK w \in Nat : w = pressure
    BY <1>8, SMT
  <2>3. lo + w = pressure /\ lo + w - scale + 1 = pressure - 1000 + 1
    BY <1>8, <2>1, <2>2, SMT
  <2>a. lo + w <= hi
    BY <1>8, <2>1, <2>2, SMT
  <2>4. brake[k + 1] = w \div scale
    BY <1>8, <2>1, <2>2, SMT
  <2>5. decode(brake, Sig(8 * k, 8, scale, lo, lo, hi)) \in (lo + w - scale + 1)..(lo + w)
    BY <1>8a, <2>a, <2>4, ReadsByte, Zenon
  <2>6. BrakePressure = Sig(8 * k, 8, scale, lo, lo, hi)
    BY <2>1, SMT DEF BrakePressure
  <2> QED BY <2>3, <2>5, <2>6, SMT
<1>16. PICK active \in 0..1 : active = IF braking THEN 1 ELSE 0
  BY SMT
<1>17. decode(brake, BrakeActive) = active
  <2>1. PICK k \in 0..7, n \in 0..63, s \in Nat : k = 1 /\ n = 1 /\ s = 8 * k
    BY SMT
  <2>2. decode(brake, Sig(s, n, 1, 0, 0, 1)) = clamp(0, 1, extract_bits(brake, s, n) * 1 + 0)
    BY <1>8, DecodeUnsigned, SMT
  <2>3. BrakeActive = Sig(s, n, 1, 0, 0, 1)
    BY <2>1, SMT DEF BrakeActive
  <2>4. extract_bits(brake, 8 * k, 1) = brake[k + 1] % 2
    BY <1>8, ExtractAligned, SMT
  <2>5. brake[k + 1] = active
    BY <1>8, <1>16, <2>1, SMT
  <2>6. active % 2 = active /\ clamp(0, 1, active * 1 + 0) = active
    BY SMT DEF clamp
  <2>7. extract_bits(brake, s, n) = active
    BY <2>1, <2>4, <2>5, <2>6, SMT
  <2> QED BY <2>2, <2>3, <2>6, <2>7, SMT
<1>18. decode(brake, BrakeActive) \in (active - 1 + 1)..active
  BY <1>17, SMT
<1>19. /\ EngineRPM.scale = 250 /\ EngineTemp.scale = 750 /\ ThrottlePos.scale = 392157
       /\ VehicleSpeed.scale = 10 /\ WheelSpeed_FL.scale = 10 /\ WheelSpeed_FR.scale = 10
       /\ BrakePressure.scale = 1000 /\ BrakeActive.scale = 1
  BY SMT DEF EngineRPM, EngineTemp, ThrottlePos, VehicleSpeed, WheelSpeed_FL, WheelSpeed_FR,
       BrakePressure, BrakeActive, Sig
<1>20. /\ Found(engine, EngineRPM, rpm) /\ Found(engine, EngineTemp, temp)
       /\ Found(engine, ThrottlePos, throttle)
  BY <1>9, <1>10, <1>11, <1>19, SMT DEF Found
<1>21. /\ Found(wheels, VehicleSpeed, speed) /\ Found(wheels, WheelSpeed_FL, speed + 1000)
       /\ Found(wheels, WheelSpeed_FR, speed - 1000)
  BY <1>7, <1>12, <1>13, <1>14, <1>19, SMT DEF Found
<1>22. Found(brake, BrakePressure, pressure) /\ Found(brake, BrakeActive, active)
  BY <1>15, <1>18, <1>19, SMT DEF Found
<1>23. ReadsBack(d) <=>
         /\ Found(engine, EngineRPM, rpm) /\ Found(engine, EngineTemp, temp)
         /\ Found(engine, ThrottlePos, throttle)
         /\ Found(wheels, VehicleSpeed, speed) /\ Found(wheels, WheelSpeed_FL, speed + 1000)
         /\ Found(wheels, WheelSpeed_FR, speed - 1000)
         /\ Found(brake, BrakePressure, pressure) /\ Found(brake, BrakeActive, active)
  BY <1>1, <1>2, <1>3, <1>4, <1>5, <1>16, SMT DEF ReadsBack, Found, Pressure
<1> QED BY <1>20, <1>21, <1>22, <1>23
-----------------------------------------------------------------------------
(***************************************************************************)
(* The inputs MCSequential chooses are within the theorems above.          *)
(***************************************************************************)
ProbeOK(p) ==
  /\ p.data \in Seq(0..255) /\ Len(p.data) <= 31
  /\ p.sig.start_bit \in 0..255 /\ p.sig.length \in Nat /\ p.sig.is_signed \in BOOLEAN
  /\ p.sig.scale \in Int /\ p.sig.offset \in Int
  /\ p.sig.min_val \in Int /\ p.sig.max_val \in Int /\ p.sig.min_val <= p.sig.max_val

DriveOK(d) ==
  /\ d.rpm \in Rpms /\ d.temp \in Temps /\ d.throttle \in Throttles /\ d.speed \in Speeds
  /\ d.braking \in BOOLEAN

InputsOK ==
  /\ req \in Seq(0..255)
  /\ \A i \in DOMAIN probe : ProbeOK(probe[i])
  /\ \A i \in DOMAIN drive : DriveOK(drive[i])

LEMMA ChosenProbe ==
  ASSUME NEW a \in DataBytes, NEW b \in DataBytes, NEW start \in Starts, NEW length \in Lengths,
         NEW signed \in BOOLEAN
  PROVE  ProbeOK([data |-> <<a, b>>, sig |-> ProbeSig(start, length, signed)])
<1>1. PICK sig : sig = ProbeSig(start, length, signed)
  OBVIOUS
<1>2. /\ sig.start_bit = start /\ sig.length = length /\ sig.is_signed = signed
      /\ sig.scale = 3 /\ sig.offset = -40 /\ sig.min_val = -1000 /\ sig.max_val = 50000
  BY <1>1, SMT DEF ProbeSig, Sig
<1>3. a \in 0..255 /\ b \in 0..255 /\ start \in 0..255 /\ length \in 0..255
  BY InputAssumption
<1>4. <<a, b>> \in Seq(0..255) /\ Len(<<a, b>>) = 2
  BY <1>3
<1>5. PICK p : p = [data |-> <<a, b>>, sig |-> sig]
  OBVIOUS
<1>6. p.data = <<a, b>> /\ p.sig = sig
  BY <1>5
<1>7. ProbeOK(p)
  BY <1>2, <1>3, <1>4, <1>6, SMT DEF ProbeOK
<1> QED BY <1>1, <1>5, <1>7, SMT

LEMMA InputsInit == Init => InputsOK
<1>1. ASSUME Init PROVE req = <<>> /\ probe = <<>> /\ drive = <<>>
  BY <1>1 DEF Init
<1>2. <<>> \in Seq(0..255) /\ DOMAIN <<>> = {}
  BY EmptySeq
<1> QED BY <1>1, <1>2 DEF InputsOK

LEMMA InputsNext == InputsOK /\ [Next]_vars => InputsOK'
<1> SUFFICES ASSUME InputsOK, [Next]_vars PROVE InputsOK'
  OBVIOUS
<1>1. CASE UNCHANGED <<req, probe, drive>>
  BY <1>1 DEF InputsOK
<1>2. CASE Request
  <2>1. PICK b \in Bytes : req' = Append(req, b)
    BY <1>2 DEF Request
  <2>2. probe' = probe /\ drive' = drive
    BY <1>2 DEF Request
  <2>3. b \in 0..255
    BY InputAssumption
  <2>4. req' \in Seq(0..255)
    BY <2>1, <2>3, AppendProperties DEF InputsOK
  <2> QED BY <2>2, <2>4 DEF InputsOK
<1>3. CASE Probe
  <2>1. req' = req /\ drive' = drive
    BY <1>3 DEF Probe
  <2>2. PICK p : probe' = <<p>> /\ ProbeOK(p)
    <3>1. PICK a \in DataBytes, b \in DataBytes, start \in Starts, length \in Lengths, signed \in BOOLEAN :
            probe' = <<[data |-> <<a, b>>, sig |-> ProbeSig(start, length, signed)]>>
      BY <1>3, Zenon DEF Probe
    <3>2. ProbeOK([data |-> <<a, b>>, sig |-> ProbeSig(start, length, signed)])
      BY ChosenProbe
    <3> QED BY <3>1, <3>2, Zenon
  <2>3. \A i \in DOMAIN probe' : probe'[i] = p
    BY <2>2
  <2>4. \A i \in DOMAIN probe' : ProbeOK(probe'[i])
    BY <2>2, <2>3
  <2> QED BY <2>1, <2>4 DEF InputsOK
<1>4. CASE Drive
  <2>1. req' = req /\ probe' = probe
    BY <1>4 DEF Drive
  <2>2. PICK d \in Drives : drive' = <<d>>
    BY <1>4 DEF Drive
  <2>4. DriveOK(d)
    BY SMT DEF Drives, DriveOK, Rpms, Temps, Throttles, Speeds
  <2>6. \A i \in DOMAIN drive' : drive'[i] = d
    BY <2>2
  <2>7. \A i \in DOMAIN drive' : DriveOK(drive'[i])
    BY <2>4, <2>6
  <2> QED BY <2>1, <2>7 DEF InputsOK
<1> QED BY <1>1, <1>2, <1>3, <1>4 DEF Next, Files, Bench, vars

(***************************************************************************)
(* Every request a tester can send gets a response that matches it         *)
(* (UdsHandler::handle): ResponsesAlwaysMatch, in every state.             *)
(***************************************************************************)
THEOREM RequestsAlwaysMatched == Spec => []ResponseMatchesRequest
<1>1. InputsOK => ResponseMatchesRequest
  BY ResponsesAlwaysMatch DEF InputsOK, ResponseMatchesRequest
<1> QED BY <1>1, InputsInit, InputsNext, PTL DEF Spec

(***************************************************************************)
(* Whatever the bytes, start bits and lengths chosen, decode is exact      *)
(* (SignalDecoder): DecodingIsExact, in every state.                       *)
(***************************************************************************)
THEOREM DecodedAlwaysExact == Spec => []DecodedExact
<1>1. InputsOK => DecodedExact
  BY DecodingIsExact DEF InputsOK, ProbeOK, DecodedExact
<1> QED BY <1>1, InputsInit, InputsNext, PTL DEF Spec

(***************************************************************************)
(* What the simulator is driven with is what the gateway decodes           *)
(* (can_simulator, vehicle.dbc): SimulatorReadsBack, in every state.       *)
(***************************************************************************)
THEOREM SimulatedAlwaysDecoded == Spec => []SimulatedIsDecoded
<1>1. InputsOK => SimulatedIsDecoded
  BY SimulatorReadsBack DEF InputsOK, DriveOK, SimulatedIsDecoded
<1> QED BY <1>1, InputsInit, InputsNext, PTL DEF Spec
=============================================================================
