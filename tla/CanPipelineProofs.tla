------------------------- MODULE CanPipelineProofs -------------------------
(***************************************************************************)
(* Proofs about the CAN callback for any offer period, any width of the    *)
(* session counters and any number of frames and subscriptions.            *)
(***************************************************************************)
EXTENDS CanPipeline, SharedLemmas

-----------------------------------------------------------------------------
(***************************************************************************)
(* What publish() lets through of a list of signals: nothing of an empty   *)
(* one, and the first one, if it has a route, before the rest.             *)
(***************************************************************************)
Parts(s) == [i \in DOMAIN s |-> IF s[i] \in Routes THEN <<s[i]>> ELSE <<>>]

LEMMA PartsOf ==
  ASSUME NEW s \in Seq(STRING)
  PROVE  /\ Parts(s) \in Seq(Seq(STRING)) /\ Len(Parts(s)) = Len(s)
         /\ \A i \in 1..Len(s) : Parts(s)[i] = IF s[i] \in Routes THEN <<s[i]>> ELSE <<>>
<1>1. Len(s) \in Nat /\ DOMAIN s = 1..Len(s) /\ \A i \in 1..Len(s) : s[i] \in STRING
  BY LenProperties, ElementOfSeq
<1> DEFINE part(i) == IF s[i] \in Routes THEN <<s[i]>> ELSE <<>>
<1>2. ASSUME NEW i \in 1..Len(s) PROVE part(i) \in Seq(STRING)
  BY <1>1, ShortSeq
<1>3. Parts(s) = [i \in 1..Len(s) |-> part(i)]
  BY <1>1, Zenon DEF Parts
<1> HIDE DEF part
<1>4. Parts(s) \in [1..Len(s) -> Seq(STRING)]
  BY <1>2, <1>3
<1>5. Parts(s) \in Seq(Seq(STRING)) /\ Len(Parts(s)) = Len(s)
  BY <1>1, <1>4, SeqByDomain
<1>6. \A i \in 1..Len(s) : Parts(s)[i] = part(i)
  BY <1>3
<1> QED
  BY <1>5, <1>6 DEF part

LEMMA RoutedType ==
  ASSUME NEW s \in Seq(STRING)
  PROVE  Routed(s) \in Seq(STRING)
<1>1. FlattenSeq(Parts(s)) \in Seq(STRING)
  BY PartsOf, FlattenType
<1> QED
  BY <1>1, Zenon DEF Routed, Parts

LEMMA RoutedNothing == Routed(<<>>) = <<>>
<1>1. <<>> \in Seq(STRING) /\ Len(<<>>) = 0
  BY ShortSeq
<1>2. Parts(<<>>) \in Seq(Seq(STRING)) /\ Len(Parts(<<>>)) = 0
  BY <1>1, PartsOf
<1>3. Parts(<<>>) = <<>>
  BY <1>2, EmptySeq
<1>4. FlattenSeq(Parts(<<>>)) = Parts(<<>>)
  BY <1>2, FlattenSeqChoice
<1> QED
  BY <1>3, <1>4, Zenon DEF Routed, Parts

LEMMA RoutedFirst ==
  ASSUME NEW s \in Seq(STRING), s # <<>>
  PROVE  Routed(s) = (IF Head(s) \in Routes THEN <<Head(s)>> ELSE <<>>) \o Routed(Tail(s))
<1>1. /\ Len(s) \in Nat /\ Len(s) # 0 /\ Head(s) = s[1]
      /\ Tail(s) \in Seq(STRING) /\ Len(Tail(s)) = Len(s) - 1
      /\ \A i \in 1..(Len(s) - 1) : Tail(s)[i] = s[i + 1]
  BY LenProperties, EmptySeq, HeadTailProperties
<1>2. PICK p \in Seq(Seq(STRING)) : p = Parts(s)
  BY PartsOf
<1>3. PICK q \in Seq(Seq(STRING)) : q = Parts(Tail(s))
  BY <1>1, PartsOf
<1>4. Len(p) = Len(s) /\ Len(q) = Len(s) - 1
  BY <1>1, <1>2, <1>3, PartsOf
<1>5. p # <<>>
  BY <1>1, <1>4
<1>6. Tail(p) = q
  <2>1. /\ Tail(p) \in Seq(Seq(STRING)) /\ Len(Tail(p)) = Len(p) - 1
        /\ \A i \in 1..(Len(p) - 1) : Tail(p)[i] = p[i + 1]
    BY <1>5, HeadTailProperties
  <2>2. ASSUME NEW i \in 1..(Len(s) - 1) PROVE Tail(p)[i] = q[i]
    <3>1. i + 1 \in 1..Len(s) /\ i \in 1..(Len(p) - 1) /\ i \in 1..Len(Tail(s))
      BY <1>1, <1>4
    <3>2. p[i + 1] = IF s[i + 1] \in Routes THEN <<s[i + 1]>> ELSE <<>>
      BY <1>2, <3>1, PartsOf
    <3>3. q[i] = IF Tail(s)[i] \in Routes THEN <<Tail(s)[i]>> ELSE <<>>
      BY <1>1, <1>3, <3>1, PartsOf
    <3>4. Tail(s)[i] = s[i + 1] /\ Tail(p)[i] = p[i + 1]
      BY <1>1, <2>1, <3>1
    <3> QED BY <3>2, <3>3, <3>4
  <2>3. Len(Tail(p)) = Len(q) /\ \A i \in 1..Len(Tail(p)) : Tail(p)[i] = q[i]
    BY <1>1, <1>4, <2>1, <2>2
  <2>4. PICK t \in Seq(Seq(STRING)) : t = Tail(p)
    BY <2>1
  <2> QED BY <2>3, <2>4, SeqEqual
<1>7. Head(p) = IF Head(s) \in Routes THEN <<Head(s)>> ELSE <<>>
  <2>1. 1 \in 1..Len(s)
    BY <1>1
  <2>2. p[1] = IF s[1] \in Routes THEN <<s[1]>> ELSE <<>>
    BY <1>2, <2>1, PartsOf
  <2>3. Head(p) = p[1]
    BY <1>5, HeadTailProperties
  <2> QED BY <1>1, <2>2, <2>3
<1>8. FlattenSeq(p) = Head(p) \o FlattenSeq(Tail(p))
  BY <1>5, FlattenHead
<1>9. Routed(s) = FlattenSeq(p) /\ Routed(Tail(s)) = FlattenSeq(q)
  BY <1>2, <1>3, Zenon DEF Routed, Parts
<1> QED
  BY <1>6, <1>7, <1>8, <1>9

(***************************************************************************)
(* What one more known frame adds to the signals that are due.             *)
(***************************************************************************)
LEMMA DueOneMore ==
  ASSUME NEW h \in Seq(DOMAIN Signals), NEW id \in DOMAIN Signals
  PROVE  /\ Due(Append(h, id)) = Due(h) \o Routed(Signals[id])
         /\ Due(h) \in Seq(STRING)
<1> DEFINE each(s) == [n \in DOMAIN s |-> Routed(Signals[s[n]])]
<1>1. \A x \in DOMAIN Signals : Routed(Signals[x]) \in Seq(STRING)
  BY PipelineAssumption, RoutedType
<1>2. ASSUME NEW s \in Seq(DOMAIN Signals)
      PROVE  /\ each(s) \in Seq(Seq(STRING)) /\ Len(each(s)) = Len(s)
             /\ \A n \in 1..Len(s) : each(s)[n] = Routed(Signals[s[n]])
  <2>1. Len(s) \in Nat /\ DOMAIN s = 1..Len(s) /\ \A n \in 1..Len(s) : s[n] \in DOMAIN Signals
    BY LenProperties, ElementOfSeq
  <2> DEFINE v(n) == Routed(Signals[s[n]])
  <2>2. \A n \in 1..Len(s) : v(n) \in Seq(STRING)
    BY <1>1, <2>1
  <2>3. each(s) = [n \in 1..Len(s) |-> v(n)]
    BY <2>1
  <2> HIDE DEF v, each
  <2>4. each(s) \in [1..Len(s) -> Seq(STRING)]
    BY <2>2, <2>3
  <2>5. each(s) \in Seq(Seq(STRING)) /\ Len(each(s)) = Len(s)
    BY <2>1, <2>4, SeqByDomain
  <2>6. \A n \in 1..Len(s) : each(s)[n] = v(n)
    BY <2>3
  <2> QED BY <2>5, <2>6 DEF v
<1>3. \A s : Due(s) = FlattenSeq(each(s))
  BY Zenon DEF Due
<1> HIDE DEF each
<1>4. PICK g \in Seq(DOMAIN Signals) : g = Append(h, id)
  BY AppendProperties
<1>5. Len(h) \in Nat /\ Len(g) = Len(h) + 1 /\ g[Len(h) + 1] = id /\ \A n \in 1..Len(h) : g[n] = h[n]
  BY <1>4, LenProperties, AppendProperties
<1>6. PICK p \in Seq(Seq(STRING)) : p = each(h)
  BY <1>2
<1>7. PICK q \in Seq(Seq(STRING)) : q = each(g)
  BY <1>2
<1>8. PICK r \in Seq(STRING) : r = Routed(Signals[id])
  BY <1>1
<1>9. q = Append(p, r)
  <2>1. Len(p) = Len(h) /\ Len(q) = Len(h) + 1
    BY <1>2, <1>5, <1>6, <1>7
  <2>2. PICK t \in Seq(Seq(STRING)) : t = Append(p, r)
    BY AppendProperties
  <2>3. Len(t) = Len(h) + 1 /\ t[Len(h) + 1] = r /\ \A n \in 1..Len(h) : t[n] = p[n]
    BY <2>1, <2>2, AppendProperties
  <2>4. ASSUME NEW n \in 1..(Len(h) + 1) PROVE q[n] = t[n]
    <3>1. n \in 1..Len(g)
      BY <1>5
    <3>2. q[n] = Routed(Signals[g[n]])
      BY <1>2, <1>7, <3>1
    <3>3. CASE n = Len(h) + 1
      BY <1>5, <1>8, <2>3, <3>2, <3>3
    <3>4. CASE n # Len(h) + 1
      <4>1. n \in 1..Len(h)
        BY <1>5, <3>4
      <4>2. p[n] = Routed(Signals[h[n]])
        BY <1>2, <1>6, <4>1
      <4> QED BY <1>5, <2>3, <3>2, <4>1, <4>2
    <3> QED BY <3>3, <3>4
  <2>5. Len(q) = Len(t) /\ \A n \in 1..Len(q) : q[n] = t[n]
    BY <2>1, <2>3, <2>4
  <2> QED BY <2>2, <2>5, SeqEqual
<1>10. FlattenSeq(q) = FlattenSeq(p) \o r
  BY <1>9, FlattenAppend
<1>11. FlattenSeq(p) \in Seq(STRING)
  BY FlattenType
<1> QED
  BY <1>3, <1>4, <1>6, <1>7, <1>8, <1>10, <1>11

LEMMA DueNothing == Due(<<>>) = <<>>
<1>1. FlattenSeq(<<>>) = <<>>
  BY FlattenSeqChoice
<1>2. [n \in DOMAIN <<>> |-> Routed(Signals[<<>>[n]])] = <<>>
  OBVIOUS
<1> QED
  BY <1>1, <1>2 DEF Due

(***************************************************************************)
(* The signals of the notifications sent, as a sequence.                   *)
(***************************************************************************)
SignalsOf(s) == [i \in DOMAIN s |-> s[i].signal]

LEMMA NoSignals == [i \in DOMAIN <<>> |-> <<>>[i].signal] = <<>>
OBVIOUS

LEMMA SignalsType ==
  ASSUME NEW N, NEW s \in Seq([signal : STRING, session : N])
  PROVE  /\ SignalsOf(s) \in Seq(STRING) /\ Len(SignalsOf(s)) = Len(s)
         /\ \A i \in 1..Len(s) : SignalsOf(s)[i] = s[i].signal
<1> DEFINE R == [signal : STRING, session : N]
<1>1. Len(s) \in Nat /\ DOMAIN s = 1..Len(s) /\ \A i \in 1..Len(s) : s[i] \in R
  <2> HIDE DEF R
  <2> QED BY LenProperties, ElementOfSeq DEF R
<1>2. \A i \in 1..Len(s) : s[i].signal \in STRING
  BY <1>1
<1>3. SignalsOf(s) \in [1..Len(s) -> STRING]
  BY <1>1, <1>2 DEF SignalsOf
<1>4. \A i \in 1..Len(s) : SignalsOf(s)[i] = s[i].signal
  BY <1>1 DEF SignalsOf
<1> QED
  BY <1>1, <1>3, <1>4, SeqByDomain

LEMMA SignalsOneMore ==
  ASSUME NEW N, NEW s \in Seq([signal : STRING, session : N]),
         NEW m \in [signal : STRING, session : N]
  PROVE  /\ SignalsOf(s) \in Seq(STRING)
         /\ SignalsOf(Append(s, m)) = SignalsOf(s) \o <<m.signal>>
<1> DEFINE R == [signal : STRING, session : N]
<1>1. ASSUME NEW u \in Seq(R)
      PROVE  /\ SignalsOf(u) \in Seq(STRING) /\ Len(SignalsOf(u)) = Len(u)
             /\ \A i \in 1..Len(u) : SignalsOf(u)[i] = u[i].signal
  BY SignalsType
<1>2. PICK t \in Seq(R) : t = Append(s, m)
  BY AppendProperties
<1>3. /\ Len(s) \in Nat /\ Len(t) = Len(s) + 1 /\ t[Len(s) + 1] = m
      /\ \A i \in 1..Len(s) : t[i] = s[i]
  BY <1>2, LenProperties, AppendProperties
<1>4. PICK a \in Seq(STRING) : a = SignalsOf(s)
  BY <1>1
<1>5. PICK b \in Seq(STRING) : b = SignalsOf(t)
  BY <1>1
<1>6. Len(a) = Len(s) /\ \A i \in 1..Len(s) : a[i] = s[i].signal
  BY <1>1, <1>4
<1>7. Len(b) = Len(s) + 1 /\ \A i \in 1..(Len(s) + 1) : b[i] = t[i].signal
  BY <1>1, <1>3, <1>5
<1>8. m.signal \in STRING
  OBVIOUS
<1>9. PICK c \in Seq(STRING) : c = a \o <<m.signal>>
  BY <1>8, ConcatProperties, ShortSeq
<1>10. Len(c) = Len(s) + 1 /\ \A i \in 1..(Len(s) + 1) : c[i] = IF i <= Len(s) THEN a[i] ELSE m.signal
  BY <1>3, <1>6, <1>8, <1>9
<1>11. \A i \in 1..(Len(s) + 1) : b[i] = c[i]
  <2> SUFFICES ASSUME NEW i \in 1..(Len(s) + 1) PROVE b[i] = c[i]
    OBVIOUS
  <2>1. CASE i <= Len(s)
    <3>1. i \in 1..Len(s)
      BY <1>3, <2>1
    <3> QED BY <1>3, <1>6, <1>7, <1>10, <2>1, <3>1
  <2>2. CASE ~(i <= Len(s))
    <3>1. i = Len(s) + 1
      BY <1>3, <2>2
    <3> QED BY <1>3, <1>7, <1>10, <2>2, <3>1
  <2> QED BY <2>1, <2>2
<1>12. b = c
  BY <1>7, <1>10, <1>11, SeqEqual
<1> QED
  BY <1>2, <1>4, <1>5, <1>9, <1>12

-----------------------------------------------------------------------------
(***************************************************************************)
(* The inductive invariant.  CanTypeOK needs the kinds of the variables it    *)
(* only bounds.  The counts of the stages and the total are tied to the    *)
(* place in the callback and to how far record() is, and the samples and   *)
(* the rows to the counts.  For what is published: the frame that is being *)
(* decoded is a known one, signals wait only in the loop around publish(), *)
(* and the session counter is one ahead of the notifications sent.         *)
(***************************************************************************)
Kinds ==
  /\ rx \in Seq(Ids) /\ now \in Nat /\ last_feed \in Nat /\ offers >= 1

Ahead(places) == IF pc \in places THEN 1 ELSE 0

Looked  == Ahead({"decode", "publish", "published", "count"})
Decoded == Ahead({"publish", "published", "count"})
Sent    == Ahead({"published", "count"})
Ended   == Ahead({"count"})

Half(s) == IF stage = s /\ rec \in {"insert", "push", "count"} THEN 1 ELSE 0

CountsFollowPc ==
  /\ count["dbc_lookup"] = frame_count + Looked - Half("dbc_lookup")
  /\ count["signal_decode"] = frame_count + Decoded - Half("signal_decode")
  /\ count["someip_publish"] = frame_count + Sent - Half("someip_publish")
  /\ count["end_to_end"] = frame_count + Ended - Half("end_to_end")
  /\ total = 4 * frame_count + Looked + Decoded + Sent + Ended - (IF rec = "no" THEN 0 ELSE 1)
  /\ rec # "no" => \/ stage = "dbc_lookup" /\ pc = "decode"
                   \/ stage = "signal_decode" /\ pc = "publish"
                   \/ stage = "someip_publish" /\ pc = "published"
                   \/ stage = "end_to_end" /\ pc = "count"

SamplesFollowCounts ==
  \A s \in Stages :
    /\ samples[s] = Kept(count[s] + (IF stage = s /\ rec = "count" THEN 1 ELSE 0))
    /\ s \in rows <=> count[s] > 0 \/ (stage = s /\ rec \in {"push", "count"})

SignalKinds ==
  /\ handled \in Seq(DOMAIN Signals) /\ todo \in Seq(STRING)
  /\ sent \in Seq([signal : STRING, session : 0..(SESSION_MOD - 1)])
  /\ pc = "decode" => Known(frame[1])
  /\ pc # "publish" => todo = <<>>
  /\ session = (Len(sent) + 1) % SESSION_MOD

IInv ==
  /\ CanTypeOK /\ Kinds /\ SignalKinds /\ OfferCadence /\ PublishedInOrder /\ CountsFollowPc
  /\ SamplesFollowCounts

(***************************************************************************)
(* The invariant holds when main() starts the loop, the first offer sent.  *)
(***************************************************************************)
LEMMA InitIInv == CanInit => IInv
<1> SUFFICES ASSUME CanInit PROVE IInv
  OBVIOUS
<1> USE PipelineAssumption DEF CanInit
<1>1. session \in 0..(SESSION_MOD - 1) /\ sd_session \in 0..(SESSION_MOD - 1)
  BY ModRange
<1>2. fired \in BOOLEAN
  BY Zenon
<1>3. CanTypeOK
  BY <1>1, <1>2 DEF CanTypeOK, Stages
<1>4. Kinds
  BY DEF Kinds
<1>5. OfferCadence
  <2>1. SD_OFFER_EVERY_N * (1 - 1) = 0
    BY Z3
  <2>2. offers + subscribers + 1 = 2
    OBVIOUS
  <2> QED BY <2>1, <2>2 DEF OfferCadence
<1>6. CountsFollowPc
  BY DEF CountsFollowPc, Looked, Decoded, Sent, Ended, Ahead, Half, Stages
<1>7. SamplesFollowCounts
  BY DEF SamplesFollowCounts, Kept
<1>8. SignalKinds
  <2>1. <<>> \in Seq(DOMAIN Signals) /\ <<>> \in Seq(STRING)
        /\ <<>> \in Seq([signal : STRING, session : 0..(SESSION_MOD - 1)])
    BY ShortSeq
  <2>2. Len(<<>>) + 1 = 1
    OBVIOUS
  <2> QED BY <2>1, <2>2 DEF SignalKinds
<1>9. PublishedInOrder
  <2>1. Due(<<>>) = <<>>
    BY DueNothing
  <2>2. [i \in DOMAIN sent |-> sent[i].signal] = <<>>
    BY NoSignals
  <2> QED BY <2>1, <2>2, RoutedNothing DEF PublishedInOrder
<1> QED BY <1>3, <1>4, <1>5, <1>6, <1>7, <1>8, <1>9 DEF IInv

(***************************************************************************)
(* Every step keeps the types of the callback's variables.                 *)
(***************************************************************************)
LEMMA NextType == CanTypeOK /\ Kinds /\ [CanNext]_canVars => CanTypeOK' /\ Kinds'
<1> SUFFICES ASSUME CanTypeOK, Kinds, [CanNext]_canVars PROVE CanTypeOK' /\ Kinds'
  OBVIOUS
<1> USE PipelineAssumption DEF CanTypeOK, Kinds, watchdog, bench, offering
<1>1. CASE OnReadable
  <2>1. Head(rx) \in Ids /\ Tail(rx) \in Seq(Ids) /\ Len(Tail(rx)) = Len(rx) - 1
    BY <1>1 DEF OnReadable
  <2>2. frame' # <<>>
    BY <1>1 DEF OnReadable
  <2>3. fired' \in BOOLEAN
    BY <1>1, Zenon DEF OnReadable, feed
  <2> QED BY <1>1, <2>1, <2>2, <2>3 DEF OnReadable, feed
<1>2. CASE RecordStep
  <2>1. CASE Insert
    BY <1>2, <2>1 DEF RecordStep, Insert
  <2>2. CASE PushBack
    <3>1. samples' \in [Stages -> 0..SAMPLES_MAX]
      BY <2>2 DEF PushBack
    <3> QED BY <1>2, <2>2, <3>1 DEF RecordStep, PushBack
  <2>3. CASE CountSample
    <3>1. count' \in [Stages -> Nat]
      BY <2>3 DEF CountSample
    <3> QED BY <1>2, <2>3, <3>1 DEF RecordStep, CountSample
  <2>4. CASE CountTotal
    BY <1>2, <2>4 DEF RecordStep, CountTotal
  <2> QED BY <1>2, <2>1, <2>2, <2>3, <2>4 DEF RecordStep
<1>3. CASE Unknown
  BY <1>3 DEF Unknown
<1>4. CASE Lookup
  BY <1>4 DEF Lookup, CallRecord, Stages
<1>5. CASE Decode
  BY <1>5 DEF Decode, CallRecord, Stages
<1>6. CASE Publish
  <2>1. session' \in 0..(SESSION_MOD - 1)
    <3>1. session + 1 \in Nat
      OBVIOUS
    <3>2. (session + 1) % SESSION_MOD \in 0..(SESSION_MOD - 1)
      BY <3>1, ModRange
    <3> QED BY <1>6, <3>2 DEF Publish, publish
  <2> QED BY <1>6, <2>1 DEF Publish
<1>7. CASE Published
  BY <1>7 DEF Published, CallRecord, Stages
<1>8. CASE EndToEnd
  BY <1>8 DEF EndToEnd, CallRecord, Stages
<1>9. CASE Count
  BY <1>9 DEF Count
<1>10. CASE Check
  <2>1. fired' \in BOOLEAN
    BY <1>10, Zenon DEF Check, check
  <2> QED BY <1>10, <2>1 DEF Check
<1>11. CASE Offer
  <2>1. sd_session' \in 0..(SESSION_MOD - 1)
    <3>1. sd_session + 1 \in Nat
      OBVIOUS
    <3>2. (sd_session + 1) % SESSION_MOD \in 0..(SESSION_MOD - 1)
      BY <3>1, ModRange
    <3> QED BY <1>11, <3>2 DEF Offer, send_offers
  <2> QED BY <1>11, <2>1 DEF Offer, send_offers
<1>12. CASE Sigint
  BY <1>12 DEF Sigint
<1>13. CASE Tick
  BY <1>13 DEF Tick
<1>14. ASSUME NEW id \in Ids, Bus(id) PROVE CanTypeOK' /\ Kinds'
  <2>1. Append(rx, id) \in Seq(Ids) /\ Len(Append(rx, id)) = Len(rx) + 1
    OBVIOUS
  <2> QED BY <1>14, <2>1 DEF Bus
<1>15. ASSUME NEW n \in 1..MaxEntries, Subscribe(n) PROVE CanTypeOK' /\ Kinds'
  <2>1. sd_session' \in 0..(SESSION_MOD - 1)
    BY <1>15, ModRange DEF Subscribe
  <2> QED BY <1>15, <2>1 DEF Subscribe
<1>16. CASE UNCHANGED canVars
  BY <1>16 DEF canVars
<1> QED
  BY <1>1, <1>2, <1>3, <1>4, <1>5, <1>6, <1>7, <1>8, <1>9, <1>10, <1>11, <1>12, <1>13,
     <1>14, <1>15, <1>16 DEF CanNext, Callback

(***************************************************************************)
(* The offers keep their rhythm: only Count, Offer and Subscribe touch     *)
(* their counters; the other steps stay on one side of the check.          *)
(***************************************************************************)
LEMMA NextOffers == CanTypeOK /\ Kinds /\ OfferCadence /\ [CanNext]_canVars => OfferCadence'
<1> SUFFICES ASSUME CanTypeOK, Kinds, OfferCadence, [CanNext]_canVars PROVE OfferCadence'
  OBVIOUS
<1> DEFINE N == SD_OFFER_EVERY_N
<1> USE DEF offering
<1>0. /\ N \in Nat \ {0} /\ SESSION_MOD \in Nat \ {0} /\ MaxEntries \in Nat
      /\ frame_count \in Nat /\ last_offer_frame \in Nat /\ subscribers \in Nat
      /\ offers \in Nat /\ offers >= 1
  BY PipelineAssumption DEF CanTypeOK, Kinds
<1>1. CASE Count
  BY <1>0, <1>1 DEF Count, OfferCadence
<1>2. CASE Check
  BY <1>0, <1>2 DEF Check, OfferCadence
<1>3. CASE Offer
  <2>1. CASE OfferDue
    <3>1. frame_count = last_offer_frame + N
      BY <1>0, <1>3, <2>1 DEF Offer, OfferDue, OfferCadence
    <3>2. N * (offers - 1) + N = N * ((offers + 1) - 1)
      BY <1>0, Z3
    <3>3. sd_session' = (offers' + subscribers' + 1) % SESSION_MOD
      <4>1. offers + subscribers + 1 \in Nat /\ 1 \in Nat
        BY <1>0
      <4>2. ((offers + subscribers + 1) + 1) % SESSION_MOD
              = (((offers + subscribers + 1) % SESSION_MOD) + 1) % SESSION_MOD
        BY <1>0, <4>1, ModAdd
      <4>3. (offers + subscribers + 1) + 1 = (offers + 1) + subscribers + 1
        BY <1>0
      <4> QED BY <1>3, <2>1, <4>2, <4>3 DEF Offer, send_offers, OfferCadence
    <3> QED BY <1>0, <1>3, <2>1, <3>1, <3>2, <3>3 DEF Offer, send_offers, OfferCadence
  <2>2. CASE ~OfferDue
    BY <1>0, <1>3, <2>2 DEF Offer, OfferDue, OfferCadence
  <2> QED BY <2>1, <2>2
<1>4. ASSUME NEW n \in 1..MaxEntries, Subscribe(n) PROVE OfferCadence'
  <2>1. offers + subscribers + 1 \in Nat /\ n \in Nat
    BY <1>0
  <2>2. ((offers + subscribers + 1) + n) % SESSION_MOD
          = (((offers + subscribers + 1) % SESSION_MOD) + n) % SESSION_MOD
    BY <1>0, <2>1, ModAdd
  <2>3. (offers + subscribers + 1) + n = offers + (subscribers + n) + 1
    BY <1>0, <2>1
  <2> QED BY <1>4, <2>2, <2>3 DEF Subscribe, OfferCadence
<1>5. CASE UNCHANGED offering /\ pc \notin {"check", "offer"} /\ pc' \notin {"check", "offer"}
  BY <1>5 DEF OfferCadence
<1>6. CASE UNCHANGED offering /\ UNCHANGED pc
  BY <1>6 DEF OfferCadence
<1>7. CASE OnReadable \/ Unknown \/ Lookup \/ Decode \/ Published \/ EndToEnd
  BY <1>5, <1>7 DEF OnReadable, Unknown, Lookup, Decode, Published, EndToEnd
<1>8. CASE RecordStep \/ Publish \/ Sigint \/ Tick \/ (\E id \in Ids : Bus(id)) \/ UNCHANGED canVars
  BY <1>6, <1>8 DEF RecordStep, Publish, Sigint, Tick, Bus, canVars
<1> QED BY <1>1, <1>2, <1>3, <1>4, <1>7, <1>8 DEF CanNext, Callback

(***************************************************************************)
(* Every step keeps the notifications in order: a known frame adds what is *)
(* due and pending, publish() moves the first pending signal to the ones   *)
(* sent or drops one without a route, and the other steps touch neither.   *)
(***************************************************************************)
LEMMA NextSignals ==
  CanTypeOK /\ Kinds /\ SignalKinds /\ PublishedInOrder /\ [CanNext]_canVars
    => SignalKinds' /\ PublishedInOrder'
<1> SUFFICES ASSUME CanTypeOK, Kinds, SignalKinds, PublishedInOrder, [CanNext]_canVars
             PROVE  SignalKinds' /\ PublishedInOrder'
  OBVIOUS
<1> DEFINE Msg == [signal : STRING, session : 0..(SESSION_MOD - 1)]
           Pending == IF pc = "decode" THEN Routed(Signals[frame[1]]) ELSE Routed(todo)
<1>0. /\ SESSION_MOD \in Nat \ {0} /\ session \in 0..(SESSION_MOD - 1)
      /\ \A id \in DOMAIN Signals : Signals[id] \in Seq(STRING)
      /\ handled \in Seq(DOMAIN Signals) /\ todo \in Seq(STRING) /\ sent \in Seq(Msg)
  BY PipelineAssumption DEF CanTypeOK, SignalKinds
<1>a. SignalsOf(sent) \o Pending = Due(handled)
  BY Zenon DEF PublishedInOrder, SignalsOf
<1>b. \A i \in DOMAIN sent : sent[i].session = i % SESSION_MOD
  BY DEF PublishedInOrder
<1>c. SignalsOf(sent') \o Pending' = Due(handled')
      /\ (\A i \in DOMAIN sent' : sent'[i].session = i % SESSION_MOD) => PublishedInOrder'
  BY Zenon DEF PublishedInOrder, SignalsOf
<1>1. CASE Lookup
  <2>1. PICK id \in DOMAIN Signals : id = frame[1]
    BY <1>1 DEF Lookup, Known
  <2>2. /\ pc = "lookup" /\ pc' = "decode" /\ handled' = Append(handled, id)
        /\ frame' = frame /\ todo' = todo /\ sent' = sent /\ session' = session
    BY <1>1, <2>1 DEF Lookup
  <2>3. todo = <<>> /\ Pending = <<>>
    BY <2>2, RoutedNothing DEF SignalKinds
  <2>4. Pending' = Routed(Signals[id])
    BY <2>1, <2>2
  <2>5. Due(handled') = Due(handled) \o Routed(Signals[id])
    BY <1>0, <2>2, DueOneMore
  <2>6. SignalsOf(sent) = Due(handled)
    <3>1. SignalsOf(sent) \in Seq(STRING)
      BY <1>0, SignalsType
    <3> QED BY <1>a, <2>3, <3>1, ConcatEmptySeq
  <2>7. PublishedInOrder'
    <3> HIDE DEF Pending
    <3> QED BY <1>b, <1>c, <2>2, <2>4, <2>5, <2>6
  <2>8. handled' \in Seq(DOMAIN Signals)
    BY <1>0, <2>2, AppendProperties
  <2>9. SignalKinds'
    BY <2>1, <2>2, <2>3, <2>8 DEF SignalKinds, Known
  <2> QED BY <2>7, <2>9
<1>2. CASE Decode
  <2>1. /\ pc = "decode" /\ pc' = "publish" /\ todo' = Signals[frame[1]] /\ frame[1] \in DOMAIN Signals
        /\ handled' = handled /\ sent' = sent /\ session' = session
    BY <1>2 DEF Decode, SignalKinds, Known
  <2>2. Pending' = Pending
    BY <2>1
  <2>3. PublishedInOrder'
    <3> HIDE DEF Pending
    <3> QED BY <1>a, <1>b, <1>c, <2>1, <2>2
  <2>4. SignalKinds'
    BY <1>0, <2>1 DEF SignalKinds
  <2> QED BY <2>3, <2>4
<1>3. CASE Publish
  <2>1. /\ pc = "publish" /\ pc' = "publish" /\ todo # <<>> /\ todo' = Tail(todo)
        /\ handled' = handled /\ frame' = frame
    BY <1>3 DEF Publish
  <2>2. PICK x \in STRING : x = Head(todo)
    BY <1>0, <2>1, HeadTailProperties
  <2>3. Tail(todo) \in Seq(STRING)
    BY <1>0, <2>1, HeadTailProperties
  <2>4. PICK r \in Seq(STRING) : r = Routed(Tail(todo))
    BY <2>3, RoutedType
  <2>5. Pending = (IF x \in Routes THEN <<x>> ELSE <<>>) \o r /\ Pending' = r
    BY <1>0, <2>1, <2>2, <2>4, RoutedFirst
  <2>6. PICK a \in Seq(STRING) : a = SignalsOf(sent)
    BY <1>0, SignalsType
  <2>7. CASE x \in Routes
    <3>1. PICK m \in Msg : m = [signal |-> x, session |-> session]
      BY <1>0
    <3>2. sent' = Append(sent, m) /\ session' = (session + 1) % SESSION_MOD
      BY <1>3, <2>2, <2>7, <3>1 DEF Publish, publish, send_message
    <3>3. m.signal = x /\ m.session = session
      BY <3>1
    <3>4. SignalsOf(sent') = a \o <<x>>
      BY <1>0, <2>6, <3>2, <3>3, SignalsOneMore
    <3>5. a \o (<<x>> \o r) = (a \o <<x>>) \o r
      <4> HIDE DEF Pending, Msg
      <4> QED BY Z3
    <3>6. SignalsOf(sent') \o Pending' = Due(handled')
      <4> HIDE DEF Pending
      <4> QED BY <1>a, <2>1, <2>5, <2>6, <2>7, <3>4, <3>5
    <3>7. /\ Len(sent) \in Nat /\ DOMAIN sent' = 1..(Len(sent) + 1) /\ DOMAIN sent = 1..Len(sent)
          /\ sent'[Len(sent) + 1] = m /\ \A i \in 1..Len(sent) : sent'[i] = sent[i]
          /\ sent' \in Seq(Msg) /\ Len(sent') = Len(sent) + 1
      <4> HIDE DEF Msg, Pending
      <4> QED BY <1>0, <3>2, LenProperties, AppendProperties
    <3>8. \A i \in DOMAIN sent' : sent'[i].session = i % SESSION_MOD
      <4> SUFFICES ASSUME NEW i \in 1..(Len(sent) + 1) PROVE sent'[i].session = i % SESSION_MOD
        BY <3>7
      <4>1. CASE i = Len(sent) + 1
        BY <3>3, <3>7, <4>1 DEF SignalKinds
      <4>2. CASE i # Len(sent) + 1
        <5>1. i \in DOMAIN sent
          BY <3>7, <4>2
        <5> QED BY <1>b, <3>7, <5>1
      <4> QED BY <4>1, <4>2
    <3>9. session' = (Len(sent') + 1) % SESSION_MOD
      <4>1. Len(sent) + 1 \in Nat /\ 1 \in Nat
        BY <3>7
      <4>2. (((Len(sent) + 1) % SESSION_MOD) + 1) % SESSION_MOD = ((Len(sent) + 1) + 1) % SESSION_MOD
        BY <1>0, <4>1, ModAdd
      <4> QED BY <3>2, <3>7, <4>2 DEF SignalKinds
    <3>10. SignalKinds'
      BY <1>0, <2>1, <2>3, <3>7, <3>9 DEF SignalKinds
    <3>11. PublishedInOrder'
      <4> HIDE DEF Pending
      <4> QED BY <1>c, <3>6, <3>8
    <3> QED BY <3>10, <3>11
  <2>8. CASE x \notin Routes
    <3>1. sent' = sent /\ session' = session
      BY <1>3, <2>2, <2>8 DEF Publish, publish
    <3>2. <<>> \o r = r
      BY ConcatEmptySeq
    <3>3. Pending' = Pending
      <4> HIDE DEF Pending
      <4> QED BY <2>5, <2>8, <3>2
    <3>4. PublishedInOrder'
      <4> HIDE DEF Pending
      <4> QED BY <1>a, <1>b, <1>c, <2>1, <3>1, <3>3
    <3>5. SignalKinds'
      BY <1>0, <2>1, <2>3, <3>1 DEF SignalKinds
    <3> QED BY <3>4, <3>5
  <2> QED BY <2>7, <2>8
<1>4. ASSUME UNCHANGED <<handled, todo, sent, session>>, pc # "decode", pc' # "decode",
             pc' = pc \/ todo = <<>>
      PROVE  SignalKinds' /\ PublishedInOrder'
  <2>1. Pending' = Pending
    BY <1>4
  <2>2. PublishedInOrder'
    <3> HIDE DEF Pending
    <3> QED BY <1>4, <1>a, <1>b, <1>c, <2>1
  <2>3. SignalKinds'
    BY <1>4 DEF SignalKinds
  <2> QED BY <2>2, <2>3
<1>5. ASSUME UNCHANGED <<handled, todo, sent, session, pc, frame>>
      PROVE  SignalKinds' /\ PublishedInOrder'
  BY <1>5 DEF SignalKinds, PublishedInOrder, Known
<1>6. CASE OnReadable \/ Unknown \/ Published \/ EndToEnd \/ Count \/ Check \/ Offer
  <2>1. /\ UNCHANGED <<handled, todo, sent, session>> /\ pc # "decode" /\ pc' # "decode"
        /\ (pc # "publish" \/ todo = <<>>)
    BY <1>6 DEF OnReadable, Unknown, Published, EndToEnd, Count, Check, Offer
  <2>2. todo = <<>>
    BY <2>1 DEF SignalKinds
  <2> QED BY <1>4, <2>1, <2>2
<1>7. CASE \/ RecordStep \/ Sigint \/ Tick \/ (\E id \in Ids : Bus(id))
           \/ (\E n \in 1..MaxEntries : Subscribe(n)) \/ UNCHANGED canVars
  BY <1>5, <1>7 DEF RecordStep, Sigint, Tick, Bus, Subscribe, canVars
<1> QED
  BY <1>1, <1>2, <1>3, <1>6, <1>7 DEF CanNext, Callback

(***************************************************************************)
(* The counts of the stages and the total go with the place in the         *)
(* callback.                                                               *)
(***************************************************************************)
LEMMA NextCounts == CanTypeOK /\ CountsFollowPc /\ [CanNext]_canVars => CountsFollowPc'
<1> SUFFICES ASSUME CanTypeOK, CountsFollowPc, [CanNext]_canVars PROVE CountsFollowPc'
  OBVIOUS
<1>0. count \in [Stages -> Nat] /\ total \in Nat /\ frame_count \in Nat /\ stage \in Stages
  BY DEF CanTypeOK
<1> USE DEF bench, CountsFollowPc, Looked, Decoded, Sent, Ended, Ahead, Half
<1>1. CASE RecordStep
  <2>1. CASE Insert
    BY <1>0, <1>1, <2>1 DEF RecordStep, Insert, offering
  <2>2. CASE PushBack
    BY <1>0, <1>1, <2>2 DEF RecordStep, PushBack, offering
  <2>3. CASE CountSample
    BY <1>0, <1>1, <2>3 DEF RecordStep, CountSample, offering, Stages
  <2>4. CASE CountTotal
    BY <1>0, <1>1, <2>4 DEF RecordStep, CountTotal, offering
  <2> QED BY <1>1, <2>1, <2>2, <2>3, <2>4 DEF RecordStep
<1>2. CASE Lookup
  BY <1>0, <1>2 DEF Lookup, CallRecord, offering
<1>3. CASE Decode
  BY <1>0, <1>3 DEF Decode, CallRecord, offering
<1>4. CASE Published
  BY <1>0, <1>4 DEF Published, CallRecord, offering
<1>5. CASE EndToEnd
  BY <1>0, <1>5 DEF EndToEnd, CallRecord, offering
<1>6. CASE Count
  BY <1>0, <1>6 DEF Count
<1>7. CASE OnReadable \/ Unknown \/ Check \/ Offer
  BY <1>0, <1>7 DEF OnReadable, Unknown, Check, Offer, offering
<1>8. CASE UNCHANGED bench /\ UNCHANGED <<pc, frame_count>>
  BY <1>8
<1>9. CASE \/ Publish \/ Sigint \/ Tick \/ (\E id \in Ids : Bus(id))
           \/ (\E n \in 1..MaxEntries : Subscribe(n)) \/ UNCHANGED canVars
  BY <1>8, <1>9 DEF Publish, Sigint, Tick, Bus, Subscribe, canVars, offering
<1> QED BY <1>1, <1>2, <1>3, <1>4, <1>5, <1>6, <1>7, <1>9 DEF CanNext, Callback

(***************************************************************************)
(* The samples stored and the rows of the table go with the counts.        *)
(***************************************************************************)
LEMMA NextSamples ==
  CanTypeOK /\ SamplesFollowCounts /\ [CanNext]_canVars => SamplesFollowCounts'
<1> SUFFICES ASSUME CanTypeOK, SamplesFollowCounts, [CanNext]_canVars PROVE SamplesFollowCounts'
  OBVIOUS
<1>0. /\ count \in [Stages -> Nat] /\ samples \in [Stages -> 0..SAMPLES_MAX]
      /\ rows \subseteq Stages /\ stage \in Stages /\ SAMPLES_MAX \in Nat \ {0}
  BY PipelineAssumption DEF CanTypeOK
<1> USE DEF bench, SamplesFollowCounts
<1>1. CASE RecordStep
  <2>1. CASE Insert
    BY <1>0, <1>1, <2>1 DEF RecordStep, Insert
  <2>2. CASE PushBack
    <3>1. ASSUME NEW s \in Stages
          PROVE  samples'[s] = Kept(count'[s] + (IF stage' = s /\ rec' = "count" THEN 1 ELSE 0))
      <4>1. CASE s = stage
        BY <1>0, <1>1, <2>2, <4>1 DEF RecordStep, PushBack, Kept
      <4>2. CASE s # stage
        BY <1>0, <1>1, <2>2, <4>2 DEF RecordStep, PushBack
      <4> QED BY <4>1, <4>2
    <3> QED BY <1>0, <1>1, <2>2, <3>1 DEF RecordStep, PushBack
  <2>3. CASE CountSample
    <3>1. ASSUME NEW s \in Stages
          PROVE  /\ samples'[s] = Kept(count'[s] + (IF stage' = s /\ rec' = "count" THEN 1 ELSE 0))
                 /\ s \in rows' <=> count'[s] > 0 \/ (stage' = s /\ rec' \in {"push", "count"})
      <4>1. CASE s = stage
        BY <1>0, <1>1, <2>3, <4>1 DEF RecordStep, CountSample
      <4>2. CASE s # stage
        BY <1>0, <1>1, <2>3, <4>2 DEF RecordStep, CountSample
      <4> QED BY <4>1, <4>2
    <3> QED BY <3>1
  <2>4. CASE CountTotal
    BY <1>0, <1>1, <2>4 DEF RecordStep, CountTotal
  <2> QED BY <1>1, <2>1, <2>2, <2>3, <2>4 DEF RecordStep
<1>2. ASSUME NEW e \in Stages, CallRecord(e) PROVE SamplesFollowCounts'
  BY <1>0, <1>2 DEF CallRecord
<1>3. CASE Lookup \/ Decode \/ Published \/ EndToEnd
  BY <1>2, <1>3 DEF Lookup, Decode, Published, EndToEnd, Stages
<1>4. CASE UNCHANGED bench
  BY <1>4 DEF Kept
<1>5. CASE OnReadable \/ Unknown \/ Publish \/ Count \/ Check \/ Offer
  BY <1>4, <1>5 DEF OnReadable, Unknown, Publish, Count, Check, Offer
<1>6. CASE \/ Sigint \/ Tick \/ (\E id \in Ids : Bus(id))
           \/ (\E n \in 1..MaxEntries : Subscribe(n)) \/ UNCHANGED canVars
  BY <1>4, <1>6 DEF Sigint, Tick, Bus, Subscribe, canVars
<1> QED BY <1>1, <1>3, <1>5, <1>6 DEF CanNext, Callback

-----------------------------------------------------------------------------
(***************************************************************************)
(* The inductive invariant holds in every state of the CAN callback and    *)
(* its environment (main.cpp).                                             *)
(***************************************************************************)
THEOREM Invariance == CanSpec => []IInv
<1>1. IInv /\ [CanNext]_canVars => IInv'
  BY NextType, NextOffers, NextSignals, NextCounts, NextSamples DEF IInv
<1> QED BY InitIInv, <1>1, PTL DEF CanSpec

(***************************************************************************)
(* Type correctness of the callback's variables and of the objects it uses.*)
(***************************************************************************)
THEOREM TypeCorrect == CanSpec => []CanTypeOK
<1>1. IInv => CanTypeOK
  BY DEF IInv
<1> QED BY <1>1, Invariance, PTL

(***************************************************************************)
(* For every period and every width of the counter, offers come after      *)
(* every SD_OFFER_EVERY_N known frames, and the SD session numbers offers  *)
(* and acknowledgements without a gap through every wrap-around (main.cpp, *)
(* SomeIpSdService::session_).                                             *)
(***************************************************************************)
THEOREM OffersInRhythm == CanSpec => []OfferCadence
<1>1. IInv => OfferCadence
  BY DEF IInv
<1> QED BY <1>1, Invariance, PTL

(***************************************************************************)
(* For every DBC table, every set of routes and any sequence of frames,    *)
(* the notifications sent are the routed signals of the known frames, in   *)
(* order and complete, numbered through every wrap-around of session_ (the *)
(* publishing loop of main.cpp, SomeIpPublisher::publish).                 *)
(***************************************************************************)
THEOREM SignalsInOrder == CanSpec => []PublishedInOrder
<1>1. IInv => PublishedInOrder
  BY DEF IInv
<1> QED BY <1>1, Invariance, PTL

(***************************************************************************)
(* For every sample limit and any mix of known and unknown frames, the     *)
(* counters agree with each other and with frame_count between two frames  *)
(* and where the periodic table is printed, however SIGINT interrupts what *)
(* lies between (the callback of main.cpp, BenchmarkCollector::record).    *)
(***************************************************************************)
THEOREM CountersAlwaysAgree == CanSpec => []CountersAgree
<1>1. ASSUME IInv PROVE CountersAgree
  <2> SUFFICES ASSUME pc \in {"idle", "lookup", "check", "offer"}
               PROVE  /\ rows = IF frame_count = 0 THEN {} ELSE Stages
                      /\ \A s \in Stages : count[s] = frame_count /\ samples[s] = Kept(frame_count)
                      /\ total = 4 * frame_count
    BY DEF CountersAgree
  <2>1. frame_count \in Nat /\ rows \subseteq Stages /\ count \in [Stages -> Nat]
    BY <1>1 DEF IInv, CanTypeOK
  <2>2. rec = "no" /\ Looked = 0 /\ Decoded = 0 /\ Sent = 0 /\ Ended = 0
    BY <1>1 DEF IInv, CountsFollowPc, Looked, Decoded, Sent, Ended, Ahead
  <2>3. total = 4 * frame_count /\ \A s \in Stages : count[s] = frame_count
    BY <1>1, <2>1, <2>2 DEF IInv, CountsFollowPc, Half, Stages
  <2>4. \A s \in Stages : samples[s] = Kept(frame_count) /\ (s \in rows <=> frame_count > 0)
    BY <1>1, <2>1, <2>2, <2>3 DEF IInv, SamplesFollowCounts
  <2>5. rows = IF frame_count = 0 THEN {} ELSE Stages
    BY <2>1, <2>4
  <2> QED BY <2>3, <2>4, <2>5
<1> QED BY <1>1, Invariance, PTL
=============================================================================
