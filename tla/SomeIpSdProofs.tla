--------------------------- MODULE SomeIpSdProofs ---------------------------
(***************************************************************************)
(* Proofs about SomeIpSd, for every set of tools, every other stack's      *)
(* datagrams (with lengths that are right or wrong), every list of         *)
(* services, every configuration that agrees with the tool's table, and    *)
(* any number of offers, notifications and subscriptions.                  *)
(***************************************************************************)
EXTENDS SomeIpSd, FiniteSetTheorems, SharedLemmas

-----------------------------------------------------------------------------
(***************************************************************************)
(* The loop of handle_sd_message.  NewSubscribers defines it by recursion  *)
(* from the place of one entry to the next; Scan is that function, and     *)
(* Rest its body.                                                          *)
(***************************************************************************)
Places(d) == {24 + 16 * i : i \in 0..(d.len \div 16)}

Asks(d, pos) ==
  IF IsSubscribe(Field(d, pos))
    THEN <<[addr |-> d.from, service_id |-> Field(d, pos + 4),
            eventgroup_id |-> Field(d, pos + 14)]>>
    ELSE <<>>

Rest(d, f, pos) == IF ~MoreEntries(d, pos) THEN <<>> ELSE Asks(d, pos) \o f[pos + 16]

IsScan(d, f) == f = [pos \in Places(d) |-> Rest(d, f, pos)]

Scan(d) == CHOOSE f : IsScan(d, f)

(***************************************************************************)
(* What a datagram asks for from its i-th place on, as a set.              *)
(***************************************************************************)
Request(d, j) ==
  [addr |-> d.from, service_id |-> Field(d, 12 + 16 * j), eventgroup_id |-> Field(d, 22 + 16 * j)]

IsRequest(d, j) ==
  /\ Field(d, 8 + 16 * j) = SD_ENTRY_SUBSCRIBE_EVENTGRP
  /\ 24 + 16 * j <= entries_end(d) /\ 24 + 16 * j <= d.len

AskedFrom(d, i) == {Request(d, j) : j \in {k \in (i + 1)..(d.len \div 16) : IsRequest(d, k)}}

Asked(d) == {Request(d, j) : j \in {k \in 1..(d.len \div 16) : IsRequest(d, k)}}

(***************************************************************************)
(* The same of a datagram as it was sent, in the terms of the property.    *)
(***************************************************************************)
IsAsked(d, j) ==
  /\ Field(d, 8 + 16 * j) = SD_ENTRY_SUBSCRIBE_EVENTGRP
  /\ 16 * j <= Field(d, 20)
  /\ 24 + 16 * j <= d.len /\ 24 + 16 * j <= SD_BUF

AskedOf(d) == {Request(d, j) : j \in {k \in 1..(d.len \div 16) : IsAsked(d, k)}}

Fits(d) == 24 + Field(d, 20) < SIZE_MOD

Requests(d) == [addr : {d.from}, service_id : Nat, eventgroup_id : Nat]

(***************************************************************************)
(* Lengths and fields are numbers.                                         *)
(***************************************************************************)
DatagramOK(d) == d.len \in Nat /\ \A o \in DOMAIN d.at : d.at[o] \in Nat

LEMMA FieldType ==
  ASSUME NEW d, DatagramOK(d), NEW o
  PROVE  Field(d, o) \in Nat
BY DEF DatagramOK, Field

(***************************************************************************)
(* The end of the entries array is what the datagram claims, unless that   *)
(* does not fit a size_t; then it is less.                                 *)
(***************************************************************************)
LEMMA EndType ==
  ASSUME NEW d, DatagramOK(d)
  PROVE  /\ entries_end(d) \in Nat /\ entries_end(d) <= 24 + Field(d, 20)
         /\ 24 + Field(d, 20) < SIZE_MOD => entries_end(d) = 24 + Field(d, 20)
<1>1. PICK x : x = 24 + Field(d, 20)
  OBVIOUS
<1>2. x \in Nat /\ SIZE_MOD \in Nat \ {0}
  BY <1>1, FieldType, SdAssumption
<1>3. x % SIZE_MOD \in Nat /\ x % SIZE_MOD <= x
  <2>1. x % SIZE_MOD \in 0..(SIZE_MOD - 1)
    BY <1>2, ModRange
  <2>2. x < SIZE_MOD => x % SIZE_MOD = x
    <3>1. x < SIZE_MOD => x \in 0..SIZE_MOD /\ x # SIZE_MOD
      BY <1>2
    <3> QED BY <1>2, <3>1, ModSmall, Zenon
  <2> QED BY <1>2, <2>1, <2>2
<1>4. x < SIZE_MOD => x % SIZE_MOD = x
  <2>1. x < SIZE_MOD => x \in 0..SIZE_MOD /\ x # SIZE_MOD
    BY <1>2
  <2> QED BY <1>2, <2>1, ModSmall, Zenon
<1> QED
  BY <1>1, <1>3, <1>4 DEF entries_end

(***************************************************************************)
(* After the last place that is inside the datagram there is no entry, and *)
(* a place with an entry has a next one.                                   *)
(***************************************************************************)
LEMMA NextPlace ==
  ASSUME NEW d, DatagramOK(d), NEW i \in 0..(d.len \div 16), MoreEntries(d, 24 + 16 * i)
  PROVE  i + 1 \in 0..(d.len \div 16)
<1>1. d.len \in Nat /\ (24 + 16 * i) + 16 <= d.len
  BY DEF MoreEntries, DatagramOK
<1> QED
  BY <1>1

(***************************************************************************)
(* The recursion is well founded: some function satisfies it.              *)
(***************************************************************************)
LEMMA ScanExists ==
  ASSUME NEW d, DatagramOK(d)
  PROVE  \E f : IsScan(d, f)
<1> DEFINE n == d.len \div 16
           Dom(k) == {24 + 16 * i : i \in (n - k)..n}
           Partial(k, f) == f = [pos \in Dom(k) |-> Rest(d, f, pos)]
           Good == {k \in 0..n : \E f : Partial(k, f)}
<1>1. n \in Nat
  BY DEF DatagramOK
<1>2. 0 \in Good
  <2> DEFINE f == [pos \in Dom(0) |-> <<>>]
  <2>1. ASSUME NEW pos \in Dom(0) PROVE Rest(d, f, pos) = <<>>
    <3>1. pos = 24 + 16 * n
      BY <1>1
    <3>2. ~MoreEntries(d, 24 + 16 * n)
      BY <1>1, NextPlace
    <3> QED BY <3>1, <3>2 DEF Rest
  <2>2. Partial(0, f)
    BY <2>1
  <2> HIDE DEF f, Partial
  <2> QED BY <1>1, <2>2
<1>3. ASSUME NEW k \in 0..(n - 1), k \in Good PROVE k + 1 \in Good
  <2>1. PICK f : Partial(k, f)
    BY <1>3
  <2> DEFINE new == 24 + 16 * (n - (k + 1))
             g == [pos \in Dom(k + 1) |-> IF pos = new THEN Rest(d, f, pos) ELSE f[pos]]
  <2>2. ASSUME NEW pos \in Dom(k + 1) PROVE g[pos] = Rest(d, g, pos)
    <3>1. PICK i \in (n - (k + 1))..n : pos = 24 + 16 * i
      OBVIOUS
    <3>2. i \in 0..n
      BY <1>1
    <3>3. ASSUME MoreEntries(d, pos) PROVE g[pos + 16] = f[pos + 16]
      <4>1. i + 1 \in (n - k)..n
        BY <1>1, <3>1, <3>2, <3>3, NextPlace
      <4>2. pos + 16 = 24 + 16 * (i + 1)
        BY <1>1, <3>1
      <4>3. pos + 16 \in Dom(k + 1) /\ pos + 16 # new
        BY <1>1, <4>1, <4>2
      <4> QED BY <4>3
    <3>4. Rest(d, g, pos) = Rest(d, f, pos)
      <4> HIDE DEF g
      <4> QED BY <3>3 DEF Rest
    <3>5. pos # new => pos \in Dom(k)
      BY <1>1, <3>1
    <3>6. pos # new => f[pos] = Rest(d, f, pos)
      <4> DEFINE Rf(p) == Rest(d, f, p)
      <4>1. f = [p \in Dom(k) |-> Rf(p)]
        BY <2>1
      <4> HIDE DEF Rf, Dom
      <4>2. pos # new => f[pos] = Rf(pos)
        BY <3>5, <4>1
      <4> QED BY <4>2 DEF Rf
    <3>7. g[pos] = IF pos = new THEN Rest(d, f, pos) ELSE f[pos]
      OBVIOUS
    <3> HIDE DEF g, new
    <3> QED BY <3>4, <3>6, <3>7
  <2>3. Partial(k + 1, g)
    <3> DEFINE Rg(p) == Rest(d, g, p)
    <3>1. DOMAIN g = Dom(k + 1) /\ g = [pos \in Dom(k + 1) |-> g[pos]]
      OBVIOUS
    <3>2. \A pos \in Dom(k + 1) : g[pos] = Rg(pos)
      BY <2>2
    <3> HIDE DEF g, Rg, Dom
    <3>3. g = [pos \in Dom(k + 1) |-> Rg(pos)]
      BY <3>1, <3>2
    <3> QED BY <3>3 DEF Rg
  <2>4. k + 1 \in 0..n
    BY <1>1
  <2> HIDE DEF g, new, Partial
  <2> QED BY <2>3, <2>4
<1>4. n \in Good
  <2> HIDE DEF Good
  <2> QED BY <1>1, <1>2, <1>3, UpTo
<1>5. PICK f : Partial(n, f)
  BY <1>4
<1>6. Dom(n) = Places(d)
  BY <1>1 DEF Places
<1>7. IsScan(d, f)
  <2> HIDE DEF Dom
  <2> QED BY <1>5, <1>6, Zenon DEF IsScan
<1> QED
  BY <1>7

LEMMA ScanUnfold ==
  ASSUME NEW d, DatagramOK(d), NEW pos \in Places(d)
  PROVE  Scan(d)[pos] = Rest(d, Scan(d), pos)
<1>1. IsScan(d, Scan(d))
  BY ScanExists, Zenon DEF Scan
<1> DEFINE R(p) == Rest(d, Scan(d), p)
<1>2. Scan(d) = [p \in Places(d) |-> R(p)]
  BY <1>1, Zenon DEF IsScan
<1> HIDE DEF R
<1>3. Scan(d)[pos] = R(pos)
  BY <1>2
<1> QED
  BY <1>3 DEF R

LEMMA NewSubscribersScan ==
  ASSUME NEW d
  PROVE  NewSubscribers(d) = IF d.len < 28 \/ ~IsSd(d) THEN <<>> ELSE Scan(d)[24]
BY Zenon DEF NewSubscribers, Scan, IsScan, Places, Rest, Asks

(***************************************************************************)
(* One entry adds its own request, and the end of the array or of the      *)
(* datagram adds nothing, to what follows.                                 *)
(***************************************************************************)
LEMMA AskedStep ==
  ASSUME NEW d, DatagramOK(d), NEW i \in 0..(d.len \div 16)
  PROVE  /\ ~MoreEntries(d, 24 + 16 * i) => AskedFrom(d, i) = {}
         /\ MoreEntries(d, 24 + 16 * i) =>
              AskedFrom(d, i) = ToSet(Asks(d, 24 + 16 * i)) \cup AskedFrom(d, i + 1)
         /\ Asks(d, 24 + 16 * i) \in Seq(Requests(d))
<1> DEFINE n == d.len \div 16
           pos == 24 + 16 * i
<1>1. d.len \in Nat /\ n \in Nat /\ i \in Nat /\ entries_end(d) \in Nat
  BY EndType DEF DatagramOK
<1>2. MoreEntries(d, pos) <=> 24 + 16 * (i + 1) <= entries_end(d) /\ 24 + 16 * (i + 1) <= d.len
  BY <1>1 DEF MoreEntries
<1>3. pos = 8 + 16 * (i + 1) /\ pos + 4 = 12 + 16 * (i + 1) /\ pos + 14 = 22 + 16 * (i + 1)
  BY <1>1
<1>4. ASSUME ~MoreEntries(d, pos), NEW k \in (i + 1)..n PROVE ~IsRequest(d, k)
  BY <1>1, <1>2, <1>4 DEF IsRequest
<1>5. Asks(d, pos) = IF Field(d, 8 + 16 * (i + 1)) = SD_ENTRY_SUBSCRIBE_EVENTGRP
                       THEN <<Request(d, i + 1)>> ELSE <<>>
  BY <1>3, Zenon DEF Asks, Request, IsSubscribe
<1>6. Request(d, i + 1) \in Requests(d)
  BY FieldType DEF Request, Requests
<1>7. ASSUME MoreEntries(d, pos)
      PROVE  AskedFrom(d, i) = ToSet(Asks(d, pos)) \cup AskedFrom(d, i + 1)
  <2>1. i + 1 \in 0..n
    BY <1>7, NextPlace
  <2>2. (i + 1)..n = {i + 1} \cup ((i + 1) + 1)..n
    BY <1>1, <2>1
  <2>3. IsRequest(d, i + 1) <=> Field(d, 8 + 16 * (i + 1)) = SD_ENTRY_SUBSCRIBE_EVENTGRP
    BY <1>2, <1>7 DEF IsRequest
  <2>4. ToSet(Asks(d, pos)) = IF IsRequest(d, i + 1) THEN {Request(d, i + 1)} ELSE {}
    BY <1>5, <2>3 DEF ToSet
  <2> HIDE DEF n, pos
  <2>5. AskedFrom(d, i) = {Request(d, j) : j \in {k \in {i + 1} \cup ((i + 1) + 1)..n : IsRequest(d, k)}}
    BY <2>2 DEF AskedFrom, n
  <2>6. AskedFrom(d, i + 1) = {Request(d, j) : j \in {k \in ((i + 1) + 1)..n : IsRequest(d, k)}}
    BY DEF AskedFrom, n
  <2> QED BY <2>4, <2>5, <2>6
<1>8. ~MoreEntries(d, pos) => AskedFrom(d, i) = {}
  BY <1>4 DEF AskedFrom
<1>9. Asks(d, pos) \in Seq(Requests(d))
  BY <1>5, <1>6, ShortSeq
<1> QED
  BY <1>7, <1>8, <1>9

LEMMA ScanCollects ==
  ASSUME NEW d, DatagramOK(d)
  PROVE  Scan(d)[24] \in Seq(Requests(d)) /\ ToSet(Scan(d)[24]) = Asked(d)
<1> DEFINE n == d.len \div 16
           Right(i) == /\ Scan(d)[24 + 16 * i] \in Seq(Requests(d))
                       /\ ToSet(Scan(d)[24 + 16 * i]) = AskedFrom(d, i)
           Good == {k \in 0..n : Right(n - k)}
<1>1. n \in Nat
  BY DEF DatagramOK
<1>2. ASSUME NEW i \in 0..n, ~MoreEntries(d, 24 + 16 * i) PROVE Right(i)
  <2>1. Scan(d)[24 + 16 * i] = <<>>
    BY <1>2, ScanUnfold DEF Places, Rest
  <2>2. ToSet(<<>>) = {} /\ <<>> \in Seq(Requests(d))
    BY DEF ToSet
  <2> QED BY <1>2, <2>1, <2>2, AskedStep
<1>3. ASSUME NEW i \in 0..(n - 1), MoreEntries(d, 24 + 16 * i), Right(i + 1) PROVE Right(i)
  <2> DEFINE head == Asks(d, 24 + 16 * i)
             tail == Scan(d)[24 + 16 * (i + 1)]
  <2>1. i \in 0..n /\ (24 + 16 * i) + 16 = 24 + 16 * (i + 1)
    BY <1>1
  <2>2. Scan(d)[24 + 16 * i] = head \o tail
    BY <1>3, <2>1, ScanUnfold DEF Places, Rest
  <2>3. /\ head \in Seq(Requests(d)) /\ tail \in Seq(Requests(d))
        /\ AskedFrom(d, i) = ToSet(head) \cup AskedFrom(d, i + 1)
        /\ ToSet(tail) = AskedFrom(d, i + 1)
    BY <1>3, <2>1, AskedStep
  <2> HIDE DEF head, tail
  <2> QED BY <2>2, <2>3, ConcatSet, ConcatProperties
<1>4. 0 \in Good
  <2>1. n - 0 = n /\ n \in 0..n /\ 0 \in 0..n
    BY <1>1
  <2>2. ~MoreEntries(d, 24 + 16 * n)
    <3>1. n + 1 \notin 0..n
      BY <1>1
    <3> QED BY <2>1, <3>1, NextPlace
  <2>3. Right(n)
    BY <1>2, <2>1, <2>2
  <2> HIDE DEF Right, n
  <2> QED BY <2>1, <2>3
<1>5. ASSUME NEW k \in 0..(n - 1), k \in Good PROVE k + 1 \in Good
  <2>1. /\ n - (k + 1) \in 0..(n - 1) /\ n - (k + 1) \in 0..n
        /\ (n - (k + 1)) + 1 = n - k /\ k + 1 \in 0..n
    BY <1>1
  <2>2. Right(n - k)
    BY <1>5
  <2> HIDE DEF Right, n
  <2>3. Right(n - (k + 1))
    BY <1>2, <1>3, <2>1, <2>2
  <2> QED BY <2>1, <2>3
<1>6. n \in Good
  <2> HIDE DEF Good
  <2> QED BY <1>1, <1>4, <1>5, UpTo
<1>7. Right(0)
  <2>1. n - n = 0
    BY <1>1
  <2> HIDE DEF Right, n
  <2> QED BY <1>6, <2>1
<1>8. 24 + 16 * 0 = 24 /\ AskedFrom(d, 0) = Asked(d)
  BY DEF Asked, AskedFrom
<1> QED
  BY <1>7, <1>8

(***************************************************************************)
(* handle_sd_message registers exactly the requests of the datagram.       *)
(***************************************************************************)
LEMMA NewSubscribersExact ==
  ASSUME NEW d, DatagramOK(d)
  PROVE  /\ NewSubscribers(d) \in Seq(Requests(d))
         /\ ToSet(NewSubscribers(d)) = IF IsSd(d) THEN Asked(d) ELSE {}
<1>1. CASE d.len < 28 \/ ~IsSd(d)
  <2>1. NewSubscribers(d) = <<>>
    BY <1>1, NewSubscribersScan
  <2>2. d.len < 28 => Asked(d) = {}
    BY DEF Asked, IsRequest, DatagramOK
  <2>3. ToSet(<<>>) = {} /\ <<>> \in Seq(Requests(d))
    BY DEF ToSet
  <2> QED BY <1>1, <2>1, <2>2, <2>3
<1>2. CASE ~(d.len < 28 \/ ~IsSd(d))
  BY <1>2, NewSubscribersScan, ScanCollects
<1> QED
  BY <1>1, <1>2

(***************************************************************************)
(* recvfrom cuts what does not fit the buffer, and nothing else.           *)
(***************************************************************************)
IsDatagram(d) == \E from, to, len, at : d = Datagram(from, to, len, at)

LEMMA Cut ==
  ASSUME NEW d, IsDatagram(d), d.len \in Nat
  PROVE  /\ recvfrom(d).from = d.from /\ recvfrom(d).at = d.at /\ recvfrom(d).len \in Nat
         /\ \A k \in Nat : k <= recvfrom(d).len <=> k <= d.len /\ k <= SD_BUF
<1>1. PICK from, to, len, at : d = Datagram(from, to, len, at)
  BY DEF IsDatagram
<1>2. d = [from |-> from, to |-> to, len |-> len, at |-> at] /\ d.len = len
  BY <1>1 DEF Datagram
<1>3. PICK n : n = IF len < SD_BUF THEN len ELSE SD_BUF
  OBVIOUS
<1>4. recvfrom(d) = [from |-> from, to |-> to, len |-> n, at |-> at]
  BY <1>2, <1>3 DEF recvfrom
<1>5. SD_BUF \in Nat /\ len \in Nat
  BY <1>2, SdAssumption
<1>6. n \in Nat /\ \A k \in Nat : k <= n <=> k <= len /\ k <= SD_BUF
  BY <1>3, <1>5
<1> QED
  BY <1>2, <1>4, <1>6

LEMMA CutFields ==
  ASSUME NEW d, IsDatagram(d), DatagramOK(d)
  PROVE  /\ DatagramOK(recvfrom(d)) /\ \A o : Field(recvfrom(d), o) = Field(d, o)
         /\ Requests(recvfrom(d)) = Requests(d) /\ (IsSd(recvfrom(d)) <=> IsSd(d))
<1>1. recvfrom(d).from = d.from /\ recvfrom(d).at = d.at /\ recvfrom(d).len \in Nat
  BY Cut DEF DatagramOK
<1>2. DatagramOK(recvfrom(d)) /\ \A o : Field(recvfrom(d), o) = Field(d, o)
  BY <1>1 DEF DatagramOK, Field
<1> QED
  BY <1>1, <1>2 DEF Requests, IsSd

(***************************************************************************)
(* handle_sd_message takes from a received datagram only requests of the   *)
(* datagram as it was sent, and all of them that the buffer holds when the *)
(* end of the array fits.                                                  *)
(***************************************************************************)
LEMMA TakenIsAsked ==
  ASSUME NEW d, IsDatagram(d), DatagramOK(d)
  PROVE  /\ Asked(recvfrom(d)) \subseteq AskedOf(d)
         /\ Fits(d) => AskedOf(d) \subseteq Asked(recvfrom(d))
<1>1. PICK r : r = recvfrom(d)
  OBVIOUS
<1>2. /\ DatagramOK(r) /\ r.from = d.from /\ r.len \in Nat /\ d.len \in Nat
      /\ \A o : Field(r, o) = Field(d, o)
      /\ \A k \in Nat : k <= r.len <=> k <= d.len /\ k <= SD_BUF
  BY <1>1, Cut, CutFields DEF DatagramOK
<1>3. /\ entries_end(r) \in Nat /\ entries_end(r) <= 24 + Field(d, 20) /\ Field(d, 20) \in Nat
      /\ Fits(d) => entries_end(r) = 24 + Field(d, 20)
  BY <1>2, EndType, FieldType DEF Fits
<1>4. ASSUME NEW j PROVE Request(r, j) = Request(d, j)
  BY <1>2, Zenon DEF Request
<1>5. ASSUME NEW j \in 1..(r.len \div 16), IsRequest(r, j)
      PROVE  j \in 1..(d.len \div 16) /\ IsAsked(d, j)
  <2>1. j \in Nat /\ j >= 1 /\ 24 + 16 * j \in Nat
    BY <1>2
  <2>2. /\ Field(d, 8 + 16 * j) = SD_ENTRY_SUBSCRIBE_EVENTGRP
        /\ 24 + 16 * j <= entries_end(r) /\ 24 + 16 * j <= r.len
    BY <1>2, <1>5 DEF IsRequest
  <2>3. 24 + 16 * j <= d.len /\ 24 + 16 * j <= SD_BUF
    BY <1>2, <2>1, <2>2
  <2>4. 16 * j <= Field(d, 20) /\ j \in 1..(d.len \div 16)
    BY <1>2, <1>3, <2>1, <2>2, <2>3
  <2> QED BY <2>2, <2>3, <2>4 DEF IsAsked
<1>6. ASSUME Fits(d), NEW j \in 1..(d.len \div 16), IsAsked(d, j)
      PROVE  j \in 1..(r.len \div 16) /\ IsRequest(r, j)
  <2>1. j \in Nat /\ j >= 1 /\ 24 + 16 * j \in Nat
    BY <1>2
  <2>2. /\ Field(d, 8 + 16 * j) = SD_ENTRY_SUBSCRIBE_EVENTGRP /\ 16 * j <= Field(d, 20)
        /\ 24 + 16 * j <= d.len /\ 24 + 16 * j <= SD_BUF
    BY <1>6 DEF IsAsked
  <2>3. 24 + 16 * j <= r.len
    BY <1>2, <2>1, <2>2
  <2>4. 24 + 16 * j <= entries_end(r) /\ j \in 1..(r.len \div 16)
    BY <1>2, <1>3, <1>6, <2>1, <2>2, <2>3
  <2>5. Field(r, 8 + 16 * j) = SD_ENTRY_SUBSCRIBE_EVENTGRP
    BY <1>2, <2>2
  <2> QED BY <2>3, <2>4, <2>5 DEF IsRequest
<1>7. Asked(r) \subseteq AskedOf(d)
  BY <1>4, <1>5 DEF Asked, AskedOf
<1>8. Fits(d) => AskedOf(d) \subseteq Asked(r)
  BY <1>4, <1>6 DEF Asked, AskedOf
<1> QED
  BY <1>1, <1>7, <1>8

-----------------------------------------------------------------------------
(***************************************************************************)
(* The fields of the datagrams.                                            *)
(***************************************************************************)
At(f, o) == IF o \in DOMAIN f THEN f[o] ELSE 0

Numbers(f) == \A o \in DOMAIN f : f[o] \in Nat

LEMMA BothFields ==
  ASSUME NEW f, NEW g
  PROVE  /\ \A o : At(Both(f, g), o) = IF o \in DOMAIN g THEN g[o] ELSE At(f, o)
         /\ Numbers(f) /\ Numbers(g) => Numbers(Both(f, g))
BY DEF At, Both, Numbers

LEMMA HeaderFields ==
  ASSUME NEW s, NEW m, NEW n
  PROVE  /\ DOMAIN Header(s, m, n) = {0, 2, 10, 14}
         /\ Header(s, m, n)[0] = s /\ Header(s, m, n)[2] = m
         /\ Header(s, m, n)[10] = n /\ Header(s, m, n)[14] = NOTIFICATION
BY DEF Header

Entries == [type : Nat, service : Nat, eventgroup : Nat]

LEMMA EntryFieldsAt ==
  ASSUME NEW es \in Seq(Entries)
  PROVE  /\ \A o \in DOMAIN EntryFields(es) : o \in Nat /\ o >= 24 /\ o % 16 \in {8, 12, 6}
         /\ \A i \in DOMAIN es : /\ 8 + 16 * i \in DOMAIN EntryFields(es)
                                 /\ 12 + 16 * i \in DOMAIN EntryFields(es)
                                 /\ 22 + 16 * i \in DOMAIN EntryFields(es)
                                 /\ EntryFields(es)[8 + 16 * i] = es[i].type
                                 /\ EntryFields(es)[12 + 16 * i] = es[i].service
                                 /\ EntryFields(es)[22 + 16 * i] = es[i].eventgroup
         /\ \A j \in Nat : 8 + 16 * j \in DOMAIN EntryFields(es) => j \in DOMAIN es
         /\ Numbers(EntryFields(es))
<1> DEFINE D == UNION {{8 + 16 * i, 12 + 16 * i, 22 + 16 * i} : i \in DOMAIN es}
           val(o) == LET e == es[(o - 8) \div 16] IN
                       CASE (o - 8) % 16 = 0 -> e.type
                         [] (o - 8) % 16 = 4 -> e.service
                         [] OTHER            -> e.eventgroup
<1>1. EntryFields(es) = [o \in D |-> val(o)]
  BY Zenon DEF EntryFields
<1>2. DOMAIN es = 1..Len(es) /\ Len(es) \in Nat /\ \A i \in DOMAIN es : es[i] \in Entries
  BY LenProperties, ElementOfSeq
<1>3. ASSUME NEW i \in DOMAIN es
      PROVE  /\ 8 + 16 * i \in D /\ 12 + 16 * i \in D /\ 22 + 16 * i \in D
             /\ val(8 + 16 * i) = es[i].type
             /\ val(12 + 16 * i) = es[i].service
             /\ val(22 + 16 * i) = es[i].eventgroup
  <2>1. i \in Nat
    BY <1>2
  <2>2. /\ ((8 + 16 * i) - 8) \div 16 = i /\ ((8 + 16 * i) - 8) % 16 = 0
        /\ ((12 + 16 * i) - 8) \div 16 = i /\ ((12 + 16 * i) - 8) % 16 = 4
        /\ ((22 + 16 * i) - 8) \div 16 = i /\ ((22 + 16 * i) - 8) % 16 = 14
    BY <2>1, SMTT(30)
  <2>3. 8 + 16 * i \in D /\ 12 + 16 * i \in D /\ 22 + 16 * i \in D
    OBVIOUS
  <2>4. ASSUME NEW o, (o - 8) \div 16 = i
        PROVE  /\ (o - 8) % 16 = 0 => val(o) = es[i].type
               /\ (o - 8) % 16 = 4 => val(o) = es[i].service
               /\ (o - 8) % 16 = 14 => val(o) = es[i].eventgroup
    BY <2>4
  <2> HIDE DEF D, val
  <2> QED BY <2>2, <2>3, <2>4
<1>4. ASSUME NEW o \in D
      PROVE  \E i \in DOMAIN es : o = 8 + 16 * i \/ o = 12 + 16 * i \/ o = 22 + 16 * i
  OBVIOUS
<1> HIDE DEF D, val
<1>5. ASSUME NEW o \in D PROVE o \in Nat /\ o >= 24 /\ o % 16 \in {8, 12, 6} /\ val(o) \in Nat
  <2>1. PICK i \in DOMAIN es : o = 8 + 16 * i \/ o = 12 + 16 * i \/ o = 22 + 16 * i
    BY <1>4
  <2>2. i \in Nat /\ i >= 1
    BY <1>2
  <2>3. o \in Nat /\ o >= 24 /\ o % 16 \in {8, 12, 6}
    BY <2>1, <2>2
  <2>4. val(o) \in Nat
    BY <1>2, <1>3, <2>1 DEF Entries
  <2> QED BY <2>3, <2>4
<1>6. ASSUME NEW j \in Nat, 8 + 16 * j \in D PROVE j \in DOMAIN es
  <2>1. PICK i \in DOMAIN es : 8 + 16 * j = 8 + 16 * i \/ 8 + 16 * j = 12 + 16 * i \/ 8 + 16 * j = 22 + 16 * i
    BY <1>4, <1>6
  <2>2. i \in Nat
    BY <1>2
  <2> QED BY <2>1, <2>2
<1>7. DOMAIN EntryFields(es) = D /\ \A o \in D : EntryFields(es)[o] = val(o)
  BY <1>1
<1> QED
  BY <1>3, <1>5, <1>6, <1>7 DEF Numbers

LEMMA FieldAt ==
  ASSUME NEW from, NEW to, NEW len, NEW at
  PROVE  LET d == Datagram(from, to, len, at)
         IN /\ d.from = from /\ d.to = to /\ d.len = len /\ d.at = at
            /\ \A o : Field(d, o) = At(at, o)
            /\ len \in Nat /\ Numbers(at) => DatagramOK(d)
BY DEF Datagram, Field, At, DatagramOK, Numbers

(***************************************************************************)
(* SomeIpSdMessage::serialize.                                             *)
(***************************************************************************)
LEMMA SerializeFields ==
  ASSUME NEW es \in Seq(Entries), NEW k \in Nat, NEW s \in Nat
  PROVE  LET m == serialize(es, k, s)
         IN /\ m.len = 28 + 16 * Len(es) + 12 * k /\ Numbers(m.at)
            /\ At(m.at, 0) = SD_SERVICE /\ At(m.at, 10) = s
            /\ \A i \in DOMAIN es : /\ At(m.at, 8 + 16 * i) = es[i].type
                                    /\ At(m.at, 12 + 16 * i) = es[i].service
                                    /\ At(m.at, 22 + 16 * i) = es[i].eventgroup
            /\ \A j \in Nat : j = 0 \/ j \in DOMAIN es \/ At(m.at, 8 + 16 * j) = 0
<1> DEFINE h == Header(SD_SERVICE, SD_METHOD, s)
           e == EntryFields(es)
           l == [o \in {20} |-> 16 * Len(es)]
           at == Both(Both(h, e), l)
<1>1. serialize(es, k, s).len = 28 + 16 * Len(es) + 12 * k /\ serialize(es, k, s).at = at
  BY DEF serialize
<1>2. Len(es) \in Nat /\ DOMAIN es = 1..Len(es)
  BY LenProperties
<1>3. /\ DOMAIN h = {0, 2, 10, 14} /\ h[0] = SD_SERVICE /\ h[2] = SD_METHOD /\ h[10] = s
      /\ h[14] = NOTIFICATION /\ Numbers(h)
  BY HeaderFields DEF Numbers, SD_SERVICE, SD_METHOD, NOTIFICATION
<1>4. DOMAIN l = {20} /\ Numbers(l)
  BY <1>2 DEF Numbers
<1>5. /\ \A o \in DOMAIN e : o \in Nat /\ o >= 24 /\ o % 16 \in {8, 12, 6}
      /\ Numbers(e)
      /\ \A j \in Nat : 8 + 16 * j \in DOMAIN e => j \in DOMAIN es
  BY EntryFieldsAt
<1>6. \A i \in DOMAIN es : /\ 8 + 16 * i \in DOMAIN e /\ e[8 + 16 * i] = es[i].type
                           /\ 12 + 16 * i \in DOMAIN e /\ e[12 + 16 * i] = es[i].service
                           /\ 22 + 16 * i \in DOMAIN e /\ e[22 + 16 * i] = es[i].eventgroup
  BY EntryFieldsAt
<1> HIDE DEF h, e, l
<1>7. Numbers(at)
  BY <1>3, <1>4, <1>5, BothFields
<1>8. \A o : At(at, o) = IF o \in DOMAIN l THEN l[o]
                         ELSE IF o \in DOMAIN e THEN e[o] ELSE At(h, o)
  BY BothFields
<1> HIDE DEF at
<1>9. At(at, 0) = SD_SERVICE /\ At(at, 2) = SD_METHOD /\ At(at, 10) = s
  BY <1>3, <1>4, <1>5, <1>8 DEF At
<1>10. \A i \in DOMAIN es : /\ At(at, 8 + 16 * i) = es[i].type
                            /\ At(at, 12 + 16 * i) = es[i].service
                            /\ At(at, 22 + 16 * i) = es[i].eventgroup
  <2>1. \A i \in DOMAIN es : i \in Nat /\ 8 + 16 * i # 20 /\ 12 + 16 * i # 20 /\ 22 + 16 * i # 20
    BY <1>2
  <2> QED BY <1>4, <1>6, <1>8, <2>1
<1>11. ASSUME NEW j \in Nat, j # 0, j \notin DOMAIN es PROVE At(at, 8 + 16 * j) = 0
  <2>1. 8 + 16 * j \notin DOMAIN e /\ 8 + 16 * j \notin DOMAIN l /\ 8 + 16 * j \notin DOMAIN h
    BY <1>3, <1>4, <1>5, <1>11
  <2> QED BY <1>8, <2>1 DEF At
<1> QED
  BY <1>1, <1>7, <1>9, <1>10, <1>11

LEMMA OfferFields ==
  ASSUME NEW s \in Nat
  PROVE  LET d == OfferDatagram(s)
         IN /\ d.from = SdAddr /\ d.to = SdGroup /\ d.len >= 28 /\ DatagramOK(d)
            /\ Field(d, 0) = SD_SERVICE /\ Field(d, 10) = s
            /\ \A j \in Nat \ {0} : Field(d, 8 + 16 * j) # SD_ENTRY_SUBSCRIBE_EVENTGRP
<1> DEFINE es == [i \in DOMAIN Services |-> Entry(SD_ENTRY_OFFER_SERVICE, Services[i], 0)]
           k  == Len(es)
           m  == serialize(es, k, s)
<1>1. OfferDatagram(s) = Datagram(SdAddr, SdGroup, m.len, m.at)
  BY DEF OfferDatagram
<1>2. Services \in Seq(Nat) /\ DOMAIN Services = 1..Len(Services) /\ Len(Services) \in Nat
  BY SdAssumption, LenProperties
<1>3. \A i \in DOMAIN Services : Entry(SD_ENTRY_OFFER_SERVICE, Services[i], 0) \in Entries
  BY <1>2, ElementOfSeq DEF Entry, Entries, SD_ENTRY_OFFER_SERVICE
<1>4. /\ es \in Seq(Entries) /\ DOMAIN es = DOMAIN Services /\ Len(es) \in Nat
      /\ \A i \in DOMAIN es : es[i].type = SD_ENTRY_OFFER_SERVICE
  <2>1. \A i \in DOMAIN Services : es[i] = Entry(SD_ENTRY_OFFER_SERVICE, Services[i], 0)
    OBVIOUS
  <2>2. es \in [1..Len(Services) -> Entries]
    BY <1>2, <1>3
  <2>3. DOMAIN es = DOMAIN Services
    OBVIOUS
  <2> HIDE DEF es
  <2>4. es \in Seq(Entries)
    BY <1>2, <2>2
  <2> QED BY <1>2, <2>1, <2>3, <2>4, LenProperties DEF Entry
<1> HIDE DEF es
<1>5. /\ m.len \in Nat /\ m.len >= 28 /\ Numbers(m.at)
      /\ At(m.at, 0) = SD_SERVICE /\ At(m.at, 10) = s
      /\ \A j \in Nat \ {0} : At(m.at, 8 + 16 * j) # SD_ENTRY_SUBSCRIBE_EVENTGRP
  <2>1. /\ m.len = 28 + 16 * Len(es) + 12 * k /\ Numbers(m.at)
        /\ At(m.at, 0) = SD_SERVICE /\ At(m.at, 10) = s
        /\ \A i \in DOMAIN es : At(m.at, 8 + 16 * i) = es[i].type
        /\ \A j \in Nat \ {0} : j \notin DOMAIN es => At(m.at, 8 + 16 * j) = 0
    <3>1. k \in Nat /\ es \in Seq(Entries)
      BY <1>4
    <3> HIDE DEF k
    <3>2. \A i \in DOMAIN es : At(m.at, 8 + 16 * i) = es[i].type
      BY <1>4, <3>1, SerializeFields, Zenon
    <3>3. \A j \in Nat : j = 0 \/ j \in DOMAIN es \/ At(m.at, 8 + 16 * j) = 0
      BY <3>1, SerializeFields
    <3>4. /\ m.len = 28 + 16 * Len(es) + 12 * k /\ Numbers(m.at)
          /\ At(m.at, 0) = SD_SERVICE /\ At(m.at, 10) = s
      BY <1>4, <3>1, SerializeFields, Zenon
    <3> HIDE DEF m
    <3> QED BY <3>2, <3>3, <3>4
  <2> HIDE DEF m
  <2>2. m.len \in Nat /\ m.len >= 28
    BY <1>4, <2>1
  <2>3. ASSUME NEW j \in Nat \ {0} PROVE At(m.at, 8 + 16 * j) \in {0, SD_ENTRY_OFFER_SERVICE}
    BY <1>4, <2>1, Zenon
  <2> QED BY <2>1, <2>2, <2>3 DEF SD_ENTRY_OFFER_SERVICE, SD_ENTRY_SUBSCRIBE_EVENTGRP
<1> HIDE DEF m
<1> QED
  BY <1>1, <1>5, FieldAt

Subscription == [addr : Tools \cup {Peer}, service_id : Nat, eventgroup_id : Nat]

LEMMA AckFields ==
  ASSUME NEW sub \in Subscription, NEW s \in Nat
  PROVE  LET d == AckDatagram(sub, s)
         IN /\ d.from = SdAddr /\ d.to = sub.addr
            /\ Field(d, 0) = SD_SERVICE /\ Field(d, 10) = s
            /\ Field(d, 28) = sub.service_id /\ Field(d, 38) = sub.eventgroup_id
<1> DEFINE e  == Entry(SD_ENTRY_SUBSCRIBE_ACK, sub.service_id, sub.eventgroup_id)
           es == <<e>>
           m  == serialize(es, 0, s)
<1>1. AckDatagram(sub, s) = Datagram(SdAddr, sub.addr, m.len, m.at)
  BY DEF AckDatagram
<1>2. e \in Entries /\ e.service = sub.service_id /\ e.eventgroup = sub.eventgroup_id
  BY DEF Entry, Entries, Subscription, SD_ENTRY_SUBSCRIBE_ACK
<1> HIDE DEF e
<1>3. es \in Seq(Entries) /\ 1 \in DOMAIN es /\ es[1] = e /\ 0 \in Nat
  BY <1>2
<1> HIDE DEF es
<1>4. /\ At(m.at, 0) = SD_SERVICE /\ At(m.at, 10) = s
      /\ At(m.at, 12 + 16 * 1) = e.service /\ At(m.at, 22 + 16 * 1) = e.eventgroup
  BY <1>3, SerializeFields, Zenon
<1> HIDE DEF m
<1>5. 12 + 16 * 1 = 28 /\ 22 + 16 * 1 = 38
  OBVIOUS
<1> QED
  BY <1>1, <1>2, <1>4, <1>5, FieldAt

LEMMA NoteFields ==
  ASSUME NEW r, NEW v \in [1..4 -> 0..255], NEW s
  PROVE  LET d == NotificationDatagram(r, v, s)
         IN /\ d.from = PubAddr /\ d.to = DataGroup /\ d.len = 20
            /\ Field(d, 0) = r[1] /\ Field(d, 2) = r[2] /\ Payload(d) = v
<1> DEFINE h  == Header(r[1], r[2], s)
           p  == [o \in 16..19 |-> v[o - 15]]
           at == Both(h, p)
           d  == NotificationDatagram(r, v, s)
<1>1. d = Datagram(PubAddr, DataGroup, 20, at)
  BY DEF NotificationDatagram
<1>2. DOMAIN h = {0, 2, 10, 14} /\ h[0] = r[1] /\ h[2] = r[2]
  BY HeaderFields
<1>3. DOMAIN p = 16..19 /\ \A i \in 1..4 : 15 + i \in 16..19 /\ p[15 + i] = v[i]
  OBVIOUS
<1> HIDE DEF h, p
<1>4. \A o : At(at, o) = IF o \in DOMAIN p THEN p[o] ELSE At(h, o)
  BY BothFields
<1> HIDE DEF at
<1>5. At(at, 0) = r[1] /\ At(at, 2) = r[2] /\ \A i \in 1..4 : At(at, 15 + i) = v[i]
  BY <1>2, <1>3, <1>4 DEF At
<1>6. /\ d.from = PubAddr /\ d.to = DataGroup /\ d.len = 20
      /\ \A o : Field(d, o) = At(at, o)
  BY <1>1, FieldAt
<1> HIDE DEF d
<1>7. Payload(d) = v
  <2>1. \A i \in 1..4 : Field(d, 15 + i) = v[i]
    BY <1>5, <1>6
  <2>2. v = [i \in 1..4 |-> v[i]]
    OBVIOUS
  <2>3. Payload(d) = [i \in 1..4 |-> Field(d, 15 + i)]
    BY DEF Payload
  <2> QED BY <2>1, <2>2, <2>3
<1>8. Field(d, 0) = r[1] /\ Field(d, 2) = r[2]
  BY <1>5, <1>6
<1> QED
  BY <1>6, <1>7, <1>8 DEF d

LEMMA SubscribeFields ==
  ASSUME NEW t, NEW to, NEW s \in Nat
  PROVE  LET d == SubscribeDatagram(t, to, s, EVENTGROUP)
         IN d.from = t /\ d.to = to /\ DatagramOK(d)
<1> DEFINE h  == Header(SD_SERVICE, SD_METHOD, 1)
           x  == Entry(SD_ENTRY_SUBSCRIBE_EVENTGRP, s, 0)
           e  == EntryFields(<<x>>)
           l  == [o \in {20, 42} |-> IF o = 20 THEN 16 ELSE EVENTGROUP]
           at == Both(Both(h, e), l)
<1>1. SubscribeDatagram(t, to, s, EVENTGROUP) = Datagram(t, to, 44, at)
  BY DEF SubscribeDatagram
<1>2. x \in Entries
  BY DEF Entry, Entries, SD_ENTRY_SUBSCRIBE_EVENTGRP
<1>3. Numbers(e)
  <2> HIDE DEF x
  <2> QED BY <1>2, ShortSeq, EntryFieldsAt
<1>4. Numbers(h)
  BY HeaderFields DEF Numbers, SD_SERVICE, SD_METHOD, NOTIFICATION
<1>5. Numbers(l)
  BY DEF Numbers, EVENTGROUP
<1> HIDE DEF h, e, l
<1>6. Numbers(at)
  BY <1>3, <1>4, <1>5, BothFields
<1> HIDE DEF at
<1> QED
  BY <1>1, <1>6, FieldAt

LEMMA PeerFields ==
  ASSUME NEW m \in PeerDatagrams
  PROVE  LET d == Datagram(Peer, m.to, m.len, m.at)
         IN d.from = Peer /\ DatagramOK(d)
<1>1. m.len \in Nat /\ Numbers(m.at)
  BY SdAssumption DEF Numbers
<1> QED
  BY <1>1, FieldAt

-----------------------------------------------------------------------------
(***************************************************************************)
(* The inductive invariant.  Every datagram ever sent is one of five       *)
(* kinds, by which its sender, its receivers and the fields they read are  *)
(* known.  The tools hear only the gateway and the other stack, so they    *)
(* subscribe at one of their sockets.                                      *)
(***************************************************************************)
IsOffer(d) == \E s \in Nat : d = OfferDatagram(s)

IsAck(d) == \E sub \in Subscription, s \in Nat : d = AckDatagram(sub, s)

IsNote(d) == \E name \in DOMAIN Routes, v \in Values, s \in Nat :
               /\ d = NotificationDatagram(Routes[name], v, s)
               /\ [name |-> name, value |-> v] \in published

IsToolRequest(d) == \E t \in Tools, to \in {SdAddr, PubAddr, Peer}, s \in Nat :
                      d = SubscribeDatagram(t, to, s, EVENTGROUP)

IsPeer(d) == \E m \in PeerDatagrams : d = Datagram(Peer, m.to, m.len, m.at)

Known(d) == IsOffer(d) \/ IsAck(d) \/ IsNote(d) \/ IsToolRequest(d) \/ IsPeer(d)

NetOK == IsFiniteSet(net) /\ \A d \in net : Known(d)

SdTypes ==
  /\ session \in 0..(SESSION_MOD - 1) /\ pub_session \in 0..(SESSION_MOD - 1)
  /\ offers \in Nat /\ subscribers \in Seq(Subscription)
  /\ tool \in [Tools -> [pc : {"wait", "subscribe", "listen"},
                         gateway : Tools \cup {SdAddr, PubAddr, Peer}, sent : 0..3]]

ToolOK ==
  \A t \in Tools :
    /\ tool[t].pc = "wait" => tool[t].sent = 0
    /\ tool[t].pc = "subscribe" => tool[t].sent < 3 /\ tool[t].gateway \in {SdAddr, PubAddr, Peer}
    /\ tool[t].pc = "listen" => tool[t].sent = 3

(***************************************************************************)
(* What the SD socket has sent: up to the wrap of the counter, the session *)
(* numbers 1, 2, ... without gap, the next one in session, and as many     *)
(* acknowledgements as records.                                            *)
(***************************************************************************)
Mine == {d \in net : d.from = SdAddr}

AcksSent == {d \in Mine : d.to # SdGroup}

Used == offers + Len(subscribers)

SessionsOK ==
  Used < SESSION_MOD =>
    /\ session = IF Used + 1 = SESSION_MOD THEN 0 ELSE Used + 1
    /\ {Field(d, 10) : d \in Mine} = 1..Used
    /\ Cardinality(AcksSent) = Len(subscribers)

Content(d) == <<d.to, Field(d, 28), Field(d, 38)>>

AckContentOK ==
  {Content(d) : d \in AcksSent} =
    {<<s.addr, s.service_id, s.eventgroup_id>> : s \in ToSet(subscribers)}

RegisteredOK ==
  /\ ToSet(subscribers) \subseteq UNION {AskedOf(d) : d \in {h \in handled : IsSd(h)}}
  /\ \A d \in {h \in handled : IsSd(h)} : Fits(d) => AskedOf(d) \subseteq ToSet(subscribers)

SdInv ==
  /\ SdTypes /\ ToolOK /\ NetOK
  /\ RegisteredOK /\ SessionsOK /\ AckContentOK /\ ShownWasPublished

-----------------------------------------------------------------------------
(***************************************************************************)
(* Who sends what to whom.                                                 *)
(***************************************************************************)
LEMMA Addresses ==
  /\ Tools \cap {SdAddr, PubAddr, SubAddr, SdGroup, DataGroup} = {}
  /\ Peer \notin {SdAddr, PubAddr, SubAddr, SdGroup, DataGroup} /\ Peer \notin Tools
  /\ SdAddr # PubAddr /\ SdAddr # SdGroup /\ SdAddr # DataGroup
  /\ PubAddr # SdGroup /\ PubAddr # DataGroup /\ SdGroup # DataGroup
  /\ SubAddr \notin {SdAddr, PubAddr}
<1>1. /\ SdAddr # PubAddr /\ SdAddr # SdGroup /\ SdAddr # DataGroup
      /\ PubAddr # SdGroup /\ PubAddr # DataGroup /\ SdGroup # DataGroup
      /\ SubAddr \notin {SdAddr, PubAddr}
  BY DEF SdAddr, PubAddr, SdGroup, DataGroup, SubAddr
<1> QED
  BY <1>1, SdAssumption DEF Groups

LEMMA OfferFrom ==
  ASSUME NEW d, IsOffer(d)
  PROVE  /\ d.from = SdAddr /\ d.to = SdGroup /\ d.len >= 28 /\ DatagramOK(d)
         /\ Field(d, 0) = SD_SERVICE
         /\ \A j \in Nat \ {0} : Field(d, 8 + 16 * j) # SD_ENTRY_SUBSCRIBE_EVENTGRP
BY OfferFields DEF IsOffer

LEMMA AckFrom ==
  ASSUME NEW d, IsAck(d)
  PROVE  d.from = SdAddr /\ d.to \in Tools \cup {Peer} /\ Field(d, 0) = SD_SERVICE
<1>1. PICK sub \in Subscription, s \in Nat : d = AckDatagram(sub, s)
  BY DEF IsAck
<1>2. d.from = SdAddr /\ d.to = sub.addr /\ Field(d, 0) = SD_SERVICE
  BY <1>1, AckFields
<1> QED
  BY <1>2 DEF Subscription

LEMMA NoteFrom ==
  ASSUME NEW d, IsNote(d)
  PROVE  /\ d.from = PubAddr /\ d.to = DataGroup /\ d.len = 20
         /\ [name |-> signal_name(Field(d, 0), Field(d, 2)), value |-> Payload(d)] \in published
<1>1. PICK name \in DOMAIN Routes, v \in Values, s \in Nat :
             /\ d = NotificationDatagram(Routes[name], v, s)
             /\ [name |-> name, value |-> v] \in published
  BY DEF IsNote
<1>2. v \in [1..4 -> 0..255]
  BY SdAssumption
<1>3. /\ d.from = PubAddr /\ d.to = DataGroup /\ d.len = 20
      /\ Field(d, 0) = Routes[name][1] /\ Field(d, 2) = Routes[name][2] /\ Payload(d) = v
  BY <1>1, <1>2, NoteFields
<1>4. signal_name(Routes[name][1], Routes[name][2]) = name
  BY RoutesAssumption
<1> QED
  BY <1>1, <1>3, <1>4

LEMMA ToolRequestFrom ==
  ASSUME NEW d, IsToolRequest(d)
  PROVE  d.from \in Tools /\ d.to \in {SdAddr, PubAddr, Peer} /\ DatagramOK(d)
BY SubscribeFields DEF IsToolRequest

LEMMA PeerFrom ==
  ASSUME NEW d, IsPeer(d)
  PROVE  d.from = Peer /\ DatagramOK(d)
BY PeerFields DEF IsPeer

(***************************************************************************)
(* A tool's socket receives only what the gateway and the other stack      *)
(* send; what it shows is a notification or comes from the other stack.    *)
(***************************************************************************)
LEMMA HeardFrom ==
  ASSUME NEW d, Known(d), NEW t \in Tools, Reaches(d, t)
  PROVE  /\ d.from \in {SdAddr, PubAddr, Peer}
         /\ Field(d, 0) = SD_SERVICE \/ IsNote(d) \/ d.from = Peer
BY Addresses, OfferFrom, AckFrom, NoteFrom, ToolRequestFrom, PeerFrom, Zenon DEF Known, Reaches, Groups

(***************************************************************************)
(* What the SD socket makes of a datagram: records of tools or of the      *)
(* other stack, those the datagram asks for.  The gateway's own offers and *)
(* notifications give none.                                                *)
(***************************************************************************)
Registered(d, subs) ==
  /\ subs \in Seq(Subscription)
  /\ ToSet(subs) \subseteq IF IsSd(d) THEN AskedOf(d) ELSE {}
  /\ IsSd(d) /\ Fits(d) => AskedOf(d) \subseteq ToSet(subs)

LEMMA KnownDatagram ==
  ASSUME NEW d, Known(d)
  PROVE  IsDatagram(d)
<1>1. ASSUME NEW from, NEW to, NEW len, NEW at, d = Datagram(from, to, len, at)
      PROVE  IsDatagram(d)
  BY <1>1, Zenon DEF IsDatagram
<1>2. CASE IsOffer(d)
  BY <1>1, <1>2, Zenon DEF IsOffer, OfferDatagram
<1>3. CASE IsAck(d)
  BY <1>1, <1>3, Zenon DEF IsAck, AckDatagram
<1>4. CASE IsNote(d)
  BY <1>1, <1>4, Zenon DEF IsNote, NotificationDatagram
<1>5. CASE IsToolRequest(d)
  BY <1>1, <1>5, Zenon DEF IsToolRequest, SubscribeDatagram
<1>6. CASE IsPeer(d)
  BY <1>1, <1>6, Zenon DEF IsPeer
<1> QED
  BY <1>2, <1>3, <1>4, <1>5, <1>6 DEF Known

LEMMA Registers ==
  ASSUME NEW d, Known(d), d.to \in {SdAddr} \cup Groups
  PROVE  Registered(d, NewSubscribers(recvfrom(d)))
<1>0. PICK r : r = recvfrom(d)
  OBVIOUS
<1>1. IsDatagram(d)
  BY KnownDatagram
<1>2. ToSet(<<>>) = {} /\ <<>> \in Seq(Subscription)
  BY ShortSeq DEF ToSet
<1>3. ASSUME DatagramOK(d)
      PROVE  /\ NewSubscribers(r) \in Seq(Requests(d))
             /\ ToSet(NewSubscribers(r)) = IF IsSd(d) THEN Asked(r) ELSE {}
             /\ Asked(r) \subseteq AskedOf(d) /\ (Fits(d) => AskedOf(d) \subseteq Asked(r))
  <2>1. DatagramOK(r) /\ Requests(r) = Requests(d) /\ (IsSd(r) <=> IsSd(d))
    BY <1>0, <1>1, <1>3, CutFields
  <2>2. /\ NewSubscribers(r) \in Seq(Requests(r))
        /\ ToSet(NewSubscribers(r)) = IF IsSd(r) THEN Asked(r) ELSE {}
    BY <2>1, NewSubscribersExact
  <2>3. Asked(r) \subseteq AskedOf(d) /\ (Fits(d) => AskedOf(d) \subseteq Asked(r))
    BY <1>0, <1>1, <1>3, TakenIsAsked
  <2> QED BY <2>1, <2>2, <2>3
<1>4. CASE IsOffer(d)
  <2>1. DatagramOK(d) /\ \A j \in Nat \ {0} : ~IsAsked(d, j)
    BY <1>4, OfferFrom DEF IsAsked
  <2>2. AskedOf(d) = {}
    BY <2>1 DEF AskedOf
  <2>3. NewSubscribers(r) \in Seq(Requests(d)) /\ ToSet(NewSubscribers(r)) = {}
    BY <1>3, <2>1, <2>2
  <2>4. NewSubscribers(r) = <<>>
    BY <2>3, EmptyToSet
  <2> QED BY <1>0, <1>2, <2>2, <2>4 DEF Registered
<1>5. CASE IsAck(d)
  BY <1>5, AckFrom, Addresses DEF Groups
<1>6. CASE IsNote(d)
  <2>1. d.len = 20 /\ 20 \in Nat /\ 28 \in Nat
    BY <1>6, NoteFrom
  <2>2. r.len \in Nat /\ ~(28 <= r.len)
    BY <1>0, <1>1, <2>1, Cut
  <2>3. NewSubscribers(r) = <<>>
    BY <2>2, NewSubscribersScan
  <2>4. AskedOf(d) = {}
    BY <2>1 DEF AskedOf, IsAsked
  <2> QED BY <1>0, <1>2, <2>3, <2>4 DEF Registered
<1>7. CASE IsToolRequest(d) \/ IsPeer(d)
  <2>1. d.from \in Tools \cup {Peer} /\ DatagramOK(d)
    BY <1>7, ToolRequestFrom, PeerFrom
  <2>2. Requests(d) \subseteq Subscription
    BY <2>1 DEF Requests, Subscription
  <2>3. NewSubscribers(r) \in Seq(Subscription)
    BY <1>3, <2>1, <2>2, SeqWider
  <2> QED BY <1>0, <1>3, <2>1, <2>3 DEF Registered
<1> QED
  BY <1>4, <1>5, <1>6, <1>7 DEF Known

LEMMA RegisteredOKDef == RegisteredOK <=> RegisteredAsReceived
BY Zenon DEF RegisteredOK, RegisteredAsReceived, AskedOf, Request, IsAsked, IsSd, Fits

-----------------------------------------------------------------------------
(***************************************************************************)
(* The invariant holds initially, after the first offers.                  *)
(***************************************************************************)
LEMMA SdInit == Init => SdInv
<1> SUFFICES ASSUME Init PROVE SdInv
  OBVIOUS
<1> DEFINE s == 1 % SESSION_MOD
           o == OfferDatagram(s)
<1>1. SESSION_MOD \in Nat \ {0} /\ s \in 0..(SESSION_MOD - 1) /\ s \in Nat
  BY SdAssumption, ModRange
<1>2. net = {o} /\ subscribers = <<>> /\ offers = 1 /\ session = 2 % SESSION_MOD
  BY DEF Init
<1>3. o.from = SdAddr /\ o.to = SdGroup /\ Field(o, 10) = s
  BY <1>1, OfferFields
<1>4. IsOffer(o)
  BY <1>1 DEF IsOffer
<1> HIDE DEF o
<1>5. Mine = {o} /\ AcksSent = {}
  BY <1>2, <1>3 DEF Mine, AcksSent
<1>6. ToSet(<<>>) = {} /\ Len(<<>>) = 0
  BY DEF ToSet
<1>7. SdTypes
  <2>1. 2 % SESSION_MOD \in 0..(SESSION_MOD - 1)
    BY <1>1, ModRange
  <2>2. <<>> \in Seq(Subscription)
    BY ShortSeq
  <2> QED BY <1>1, <1>2, <2>1, <2>2 DEF Init, SdTypes
<1>8. ToolOK
  BY DEF Init, ToolOK
<1>9. NetOK
  BY <1>2, <1>4, FS_Singleton DEF NetOK, Known
<1>10. RegisteredOK
  BY <1>2, <1>6 DEF Init, RegisteredOK
<1>11. SessionsOK
  <2>1. SUFFICES ASSUME 1 < SESSION_MOD
                 PROVE  /\ session = IF 2 = SESSION_MOD THEN 0 ELSE 2
                        /\ {Field(d, 10) : d \in Mine} = 1..1
                        /\ Cardinality(AcksSent) = 0
    BY <1>2, <1>6 DEF SessionsOK, Used
  <2>2. s = 1 /\ session = IF 2 = SESSION_MOD THEN 0 ELSE 2
    <3>1. 1 \in 0..SESSION_MOD /\ 2 \in 0..SESSION_MOD /\ 1 # SESSION_MOD
      BY <1>1, <2>1
    <3>2. s = 1
      BY <1>1, <3>1, ModSmall, Zenon
    <3>3. 2 % SESSION_MOD = IF 2 = SESSION_MOD THEN 0 ELSE 2
      BY <1>1, <3>1, ModSmall, Zenon
    <3> QED BY <1>2, <3>2, <3>3
  <2>3. {Field(d, 10) : d \in {o}} = {s} /\ 1..1 = {1}
    BY <1>3
  <2> HIDE DEF s
  <2> QED BY <1>5, <2>2, <2>3, FS_EmptySet
<1>12. AckContentOK
  BY <1>2, <1>5, <1>6 DEF AckContentOK
<1>13. ShownWasPublished
  BY DEF Init, ShownWasPublished
<1> QED
  BY <1>7, <1>8, <1>9, <1>10, <1>11, <1>12, <1>13 DEF SdInv

-----------------------------------------------------------------------------
(***************************************************************************)
(* Datagrams stay known when more is sent or published.                    *)
(***************************************************************************)
LEMMA KnownStays ==
  ASSUME NEW d, Known(d), published \subseteq published'
  PROVE  Known(d)'
<1>1. CASE IsNote(d)
  BY <1>1 DEF IsNote, Known
<1>2. CASE IsOffer(d) \/ IsAck(d) \/ IsToolRequest(d) \/ IsPeer(d)
  BY <1>2 DEF IsOffer, IsAck, IsToolRequest, IsPeer, Known
<1> QED
  BY <1>1, <1>2 DEF Known

LEMMA NetGrows ==
  ASSUME NetOK, published \subseteq published',
         NEW D, IsFiniteSet(D), net' = net \cup D, \A d \in D : Known(d)'
  PROVE  NetOK'
<1>1. IsFiniteSet(net')
  BY FS_Union DEF NetOK
<1>2. \A d \in net : Known(d)'
  BY KnownStays DEF NetOK
<1> QED
  BY <1>1, <1>2 DEF NetOK

(***************************************************************************)
(* What the SD socket has sent does not change when others send.           *)
(***************************************************************************)
LEMMA OthersSend ==
  ASSUME SessionsOK, AckContentOK,
         session' = session, subscribers' = subscribers, offers' = offers,
         NEW d, net' = net \cup {d}, d.from # SdAddr
  PROVE  SessionsOK' /\ AckContentOK'
<1>1. Mine' = Mine
  BY DEF Mine
<1>2. AcksSent' = AcksSent
  BY <1>1 DEF AcksSent
<1>3. Used' = Used
  BY DEF Used
<1> QED
  BY <1>1, <1>2, <1>3 DEF SessionsOK, AckContentOK

LEMMA PublishStep ==
  ASSUME SdInv, NEW name \in DOMAIN Routes, NEW value \in Values, publish(name, value)
  PROVE  SdInv'
<1>0. PICK d : d = NotificationDatagram(Routes[name], value, pub_session)
  OBVIOUS
<1> USE DEF SdInv
<1>1. /\ net' = net \cup {d} /\ published' = published \cup {[name |-> name, value |-> value]}
      /\ pub_session' = (pub_session + 1) % SESSION_MOD
      /\ UNCHANGED <<session, subscribers, offers, handled, tool, shown, printed>>
  BY <1>0 DEF publish
<1>2. pub_session \in Nat
  BY DEF SdTypes
<1>3. IsNote(d)'
  <2>1. [name |-> name, value |-> value] \in published'
    BY <1>1
  <2> QED BY <1>0, <1>2, <2>1, Zenon DEF IsNote
<1>4. d.from = PubAddr
  BY <1>0, SdAssumption, NoteFields, ZenonT(60)
<1>5. NetOK'
  <2>1. Known(d)'
    BY <1>3 DEF Known
  <2>2. /\ IsFiniteSet({d}) /\ published \subseteq published' /\ NetOK
        /\ \A x \in {d} : Known(x)'
    BY <1>1, <2>1, FS_Singleton
  <2> QED BY <1>1, <2>2, NetGrows, Zenon
<1>6. SessionsOK' /\ AckContentOK'
  <2>1. d.from # SdAddr
    BY <1>4, Addresses
  <2>2. /\ SessionsOK /\ AckContentOK
        /\ session' = session /\ subscribers' = subscribers /\ offers' = offers
    BY <1>1
  <2> QED BY <1>1, <2>1, <2>2, OthersSend
<1>7. SdTypes'
  <2>1. (pub_session + 1) % SESSION_MOD \in 0..(SESSION_MOD - 1)
    <3>1. pub_session + 1 \in Nat /\ SESSION_MOD \in Nat \ {0}
      BY <1>2, SdAssumption
    <3> QED BY <3>1, ModRange
  <2> QED BY <1>1, <2>1 DEF SdTypes
<1>8. ToolOK' /\ RegisteredOK' /\ ShownWasPublished'
  BY <1>1 DEF ToolOK, RegisteredOK, ShownWasPublished
<1> QED
  BY <1>5, <1>6, <1>7, <1>8

LEMMA PeerStep ==
  ASSUME SdInv, NEW m \in PeerDatagrams, PeerSends(m)
  PROVE  SdInv'
<1>0. PICK d : d = Datagram(Peer, m.to, m.len, m.at)
  OBVIOUS
<1> USE DEF SdInv
<1>1. net' = net \cup {d} /\ UNCHANGED <<gateway, tool, shown, printed>>
  BY <1>0 DEF PeerSends
<1>2. /\ published' = published /\ session' = session /\ subscribers' = subscribers
      /\ offers' = offers /\ pub_session' = pub_session /\ handled' = handled
      /\ tool' = tool /\ shown' = shown /\ printed' = printed
  BY <1>1 DEF gateway
<1>3. IsPeer(d)' /\ d.from = Peer
  BY <1>0, PeerFields DEF IsPeer
<1>4. NetOK'
  <2>1. Known(d)'
    BY <1>3 DEF Known
  <2>2. /\ IsFiniteSet({d}) /\ published \subseteq published' /\ NetOK
        /\ \A x \in {d} : Known(x)'
    BY <1>1, <1>2, <2>1, FS_Singleton
  <2> QED BY <1>1, <2>2, NetGrows, Zenon
<1>5. SessionsOK' /\ AckContentOK'
  <2>1. d.from # SdAddr
    BY <1>3, Addresses
  <2>2. /\ SessionsOK /\ AckContentOK
        /\ session' = session /\ subscribers' = subscribers /\ offers' = offers
    BY <1>1, <1>2
  <2> QED BY <1>1, <2>1, <2>2, OthersSend
<1>6. SdTypes' /\ ToolOK' /\ RegisteredOK' /\ ShownWasPublished'
  BY <1>2 DEF SdTypes, ToolOK, RegisteredOK, ShownWasPublished
<1> QED
  BY <1>4, <1>5, <1>6

(***************************************************************************)
(* A tool hears the gateway, subscribes and listens.                       *)
(***************************************************************************)
LEMMA HearStep ==
  ASSUME SdInv, NEW t \in Tools, NEW d \in net, Hear(t, d)
  PROVE  SdInv'
<1> USE DEF SdInv
<1>1. /\ tool[t].pc = "wait" /\ Reaches(d, t) /\ net' = net
      /\ tool' = [tool EXCEPT ![t].pc = "subscribe", ![t].gateway = d.from]
  BY DEF Hear
<1>2. /\ published' = published /\ session' = session /\ subscribers' = subscribers
      /\ offers' = offers /\ pub_session' = pub_session /\ handled' = handled
      /\ shown' = shown /\ printed' = printed
  BY DEF Hear, gateway
<1>3. d.from \in {SdAddr, PubAddr, Peer}
  BY <1>1, HeardFrom DEF NetOK
<1>4. SdTypes' /\ ToolOK'
  <2>1. tool[t].sent = 0
    BY <1>1 DEF ToolOK
  <2>2. tool' \in [Tools -> [pc : {"wait", "subscribe", "listen"},
                             gateway : Tools \cup {SdAddr, PubAddr, Peer}, sent : 0..3]]
    BY <1>1, <1>3 DEF SdTypes
  <2>3. /\ tool'[t].pc = "subscribe" /\ tool'[t].gateway = d.from /\ tool'[t].sent = 0
        /\ \A u \in Tools \ {t} : tool'[u] = tool[u]
    BY <1>1, <2>1 DEF SdTypes
  <2> QED BY <1>2, <1>3, <2>2, <2>3 DEF SdTypes, ToolOK
<1>5. NetOK'
  BY <1>1, <1>2, KnownStays DEF NetOK
<1>6. Mine' = Mine /\ AcksSent' = AcksSent /\ Used' = Used
  BY <1>1, <1>2 DEF Mine, AcksSent, Used
<1>7. SessionsOK' /\ AckContentOK'
  BY <1>2, <1>6 DEF SessionsOK, AckContentOK
<1>8. RegisteredOK' /\ ShownWasPublished'
  BY <1>2 DEF RegisteredOK, ShownWasPublished
<1> QED
  BY <1>4, <1>5, <1>7, <1>8

LEMMA SubscribeStep ==
  ASSUME SdInv, NEW t \in Tools, send_subscribe(t)
  PROVE  SdInv'
<1> USE DEF SdInv
<1>1. PICK k : k = tool[t].sent + 1
  OBVIOUS
<1>2. /\ tool[t].pc = "subscribe" /\ tool[t].sent \in 0..2
      /\ tool[t].gateway \in {SdAddr, PubAddr, Peer} /\ k \in 1..3
  BY <1>1 DEF send_subscribe, ToolOK, SdTypes
<1>3. ToolServices[k] \in Nat /\ Len(ToolServices) = 3
  BY <1>2 DEF ToolServices
<1>4. PICK d : d = SubscribeDatagram(t, tool[t].gateway, ToolServices[k], EVENTGROUP)
  OBVIOUS
<1>5. /\ net' = net \cup {d}
      /\ tool' = [tool EXCEPT ![t].sent = k, ![t].pc = IF k = 3 THEN "listen" ELSE @]
  BY <1>1, <1>3, <1>4 DEF send_subscribe
<1>6. /\ published' = published /\ session' = session /\ subscribers' = subscribers
      /\ offers' = offers /\ pub_session' = pub_session /\ handled' = handled
      /\ shown' = shown /\ printed' = printed
  BY DEF send_subscribe, gateway
<1>7. IsToolRequest(d)
  BY <1>2, <1>3, <1>4 DEF IsToolRequest
<1>8. NetOK'
  <2>1. Known(d)'
    BY <1>6, <1>7, KnownStays DEF Known
  <2>2. /\ IsFiniteSet({d}) /\ published \subseteq published' /\ NetOK
        /\ \A x \in {d} : Known(x)'
    BY <1>6, <2>1, FS_Singleton
  <2> QED BY <1>5, <2>2, NetGrows, Zenon
<1>9. SessionsOK' /\ AckContentOK'
  <2>1. d.from # SdAddr
    BY <1>7, ToolRequestFrom, Addresses
  <2> QED BY <1>5, <1>6, <2>1, OthersSend
<1>10. SdTypes' /\ ToolOK'
  <2>1. tool' \in [Tools -> [pc : {"wait", "subscribe", "listen"},
                             gateway : Tools \cup {SdAddr, PubAddr, Peer}, sent : 0..3]]
    <3>1. PICK r : r = [tool[t] EXCEPT !.sent = k, !.pc = IF k = 3 THEN "listen" ELSE @]
      OBVIOUS
    <3>2. tool' = [tool EXCEPT ![t] = r]
      BY <1>5, <3>1 DEF SdTypes
    <3>3. r \in [pc : {"wait", "subscribe", "listen"},
                gateway : Tools \cup {SdAddr, PubAddr, Peer}, sent : 0..3]
      <4>1. tool[t] \in [pc : {"wait", "subscribe", "listen"},
                         gateway : Tools \cup {SdAddr, PubAddr, Peer}, sent : 0..3]
        BY DEF SdTypes
      <4>2. k \in 0..3
        BY <1>2
      <4>3. CASE k = 3
        BY <3>1, <4>1, <4>2, <4>3
      <4>4. CASE k # 3
        <5>1. r = [tool[t] EXCEPT !.sent = k]
          BY <3>1, <4>1, <4>4
        <5> QED BY <4>1, <4>2, <5>1
      <4> QED BY <4>3, <4>4
    <3> QED BY <3>2, <3>3 DEF SdTypes
  <2>2. /\ tool'[t].pc = IF k = 3 THEN "listen" ELSE "subscribe"
        /\ tool'[t].gateway = tool[t].gateway /\ tool'[t].sent = k
        /\ \A u \in Tools \ {t} : tool'[u] = tool[u]
    BY <1>2, <1>5 DEF SdTypes
  <2>3. ToolOK'
    BY <1>2, <2>2 DEF ToolOK
  <2> QED BY <1>6, <2>1, <2>3 DEF SdTypes
<1>11. RegisteredOK' /\ ShownWasPublished'
  BY <1>6 DEF RegisteredOK, ShownWasPublished
<1> QED
  BY <1>8, <1>9, <1>10, <1>11

LEMMA ShowStep ==
  ASSUME SdInv, NEW t \in Tools, NEW d \in net, Show(t, d)
  PROVE  SdInv'
<1> USE DEF SdInv
<1>0. PICK name : name = signal_name(Field(d, 0), Field(d, 2))
  OBVIOUS
<1>1. /\ Reaches(d, t) /\ IsShown(d)
      /\ shown' = shown \cup {[from |-> d.from, name |-> name, value |-> Payload(d)]}
  BY <1>0 DEF Show
<1>2. /\ published' = published /\ session' = session /\ subscribers' = subscribers
      /\ offers' = offers /\ pub_session' = pub_session /\ handled' = handled
      /\ tool' = tool /\ net' = net /\ printed' = printed
  BY DEF Show, gateway
<1>3. IsNote(d) \/ d.from = Peer
  BY <1>1, HeardFrom DEF NetOK, IsShown
<1>4. ShownWasPublished'
  <2>1. /\ d.from \in {PubAddr, Peer}
        /\ d.from = PubAddr => [name |-> name, value |-> Payload(d)] \in published
    BY <1>0, <1>3, NoteFrom, Addresses
  <2> QED BY <1>1, <1>2, <2>1 DEF ShownWasPublished
<1>5. NetOK'
  BY <1>2, KnownStays DEF NetOK
<1>6. Mine' = Mine /\ AcksSent' = AcksSent /\ Used' = Used
  BY <1>2 DEF Mine, AcksSent, Used
<1>7. SdTypes' /\ ToolOK' /\ RegisteredOK' /\ SessionsOK' /\ AckContentOK'
  BY <1>2, <1>6 DEF SdTypes, ToolOK, RegisteredOK, SessionsOK, AckContentOK
<1> QED
  BY <1>4, <1>5, <1>7

LEMMA PrintStep ==
  ASSUME SdInv, NEW d \in net, print_someip(d)
  PROVE  SdInv'
<1> USE DEF SdInv
<1>1. /\ d.to \in {SubAddr} \cup Groups /\ d.len = 20
      /\ printed' = printed \cup {[from |-> d.from, value |-> ntohl(Payload(d))]}
  BY DEF print_someip
<1>2. /\ published' = published /\ session' = session /\ subscribers' = subscribers
      /\ offers' = offers /\ pub_session' = pub_session /\ handled' = handled
      /\ tool' = tool /\ net' = net /\ shown' = shown
  BY DEF print_someip, gateway
<1>3. d.from \in {PubAddr, Peer}
  <2>1. Known(d)
    BY DEF NetOK
  <2>2. ~IsOffer(d)
    BY <1>1, OfferFrom
  <2>3. ~IsAck(d)
    BY <1>1, AckFrom, Addresses DEF Groups
  <2>4. ~IsToolRequest(d)
    BY <1>1, ToolRequestFrom, Addresses DEF Groups
  <2> QED BY <2>1, <2>2, <2>3, <2>4, NoteFrom, PeerFrom DEF Known
<1>4. ShownWasPublished'
  BY <1>1, <1>2, <1>3 DEF ShownWasPublished
<1>5. NetOK'
  BY <1>2, KnownStays DEF NetOK
<1>6. Mine' = Mine /\ AcksSent' = AcksSent /\ Used' = Used
  BY <1>2 DEF Mine, AcksSent, Used
<1>7. SdTypes' /\ ToolOK' /\ RegisteredOK' /\ SessionsOK' /\ AckContentOK'
  BY <1>2, <1>6 DEF SdTypes, ToolOK, RegisteredOK, SessionsOK, AckContentOK
<1> QED
  BY <1>4, <1>5, <1>7

(***************************************************************************)
(* The gateway's SD socket sends.                                          *)
(***************************************************************************)
LEMMA OfferStep ==
  ASSUME SdInv, send_offers
  PROVE  SdInv'
<1> USE DEF SdInv
<1>1. PICK d : d = OfferDatagram(session)
  OBVIOUS
<1>2. /\ net' = net \cup {d} /\ offers' = offers + 1
      /\ session' = (session + 1) % SESSION_MOD
      /\ published' = published /\ subscribers' = subscribers /\ pub_session' = pub_session
      /\ handled' = handled /\ tool' = tool /\ shown' = shown /\ printed' = printed
  BY <1>1 DEF send_offers
<1>3. /\ session \in Nat /\ offers \in Nat /\ Len(subscribers) \in Nat
      /\ SESSION_MOD \in Nat \ {0}
  BY SdAssumption, LenProperties DEF SdTypes
<1>4. d.from = SdAddr /\ d.to = SdGroup /\ Field(d, 10) = session /\ IsOffer(d)
  BY <1>1, <1>3, OfferFields DEF IsOffer
<1>5. NetOK'
  <2>1. Known(d)'
    BY <1>2, <1>4, KnownStays DEF Known
  <2>2. /\ IsFiniteSet({d}) /\ published \subseteq published' /\ NetOK
        /\ \A x \in {d} : Known(x)'
    BY <1>2, <2>1, FS_Singleton
  <2> QED BY <1>2, <2>2, NetGrows, Zenon
<1>6. SdTypes'
  <2>1. (session + 1) % SESSION_MOD \in 0..(SESSION_MOD - 1)
    BY <1>3, ModRange
  <2> QED BY <1>2, <1>3, <2>1 DEF SdTypes
<1>7. Mine' = Mine \cup {d} /\ AcksSent' = AcksSent
  BY <1>2, <1>4 DEF Mine, AcksSent
<1>8. SessionsOK'
  <2> SUFFICES ASSUME Used' < SESSION_MOD
               PROVE  /\ session' = IF Used' + 1 = SESSION_MOD THEN 0 ELSE Used' + 1
                      /\ {Field(x, 10) : x \in Mine'} = 1..Used'
                      /\ Cardinality(AcksSent') = Len(subscribers')
    BY DEF SessionsOK
  <2>1. Used \in Nat /\ Used' = Used + 1
    BY <1>2, <1>3 DEF Used
  <2>2. /\ session = Used + 1 /\ {Field(x, 10) : x \in Mine} = 1..Used
        /\ Cardinality(AcksSent) = Len(subscribers)
    BY <1>3, <2>1 DEF SessionsOK
  <2>3. session' = IF Used' + 1 = SESSION_MOD THEN 0 ELSE Used' + 1
    <3>1. Used + 2 \in 0..SESSION_MOD /\ session + 1 = Used + 2
      BY <1>3, <2>1, <2>2
    <3>2. (Used + 2) % SESSION_MOD = IF Used + 2 = SESSION_MOD THEN 0 ELSE Used + 2
      BY <1>3, <3>1, ModSmall, Zenon
    <3> QED BY <1>2, <2>1, <3>1, <3>2
  <2>4. {Field(x, 10) : x \in Mine'} = {Field(x, 10) : x \in Mine} \cup {session}
    BY <1>4, <1>7
  <2>5. 1..(Used + 1) = 1..Used \cup {Used + 1}
    BY <2>1
  <2> QED BY <1>2, <1>7, <2>1, <2>2, <2>3, <2>4, <2>5
<1>9. AckContentOK'
  BY <1>2, <1>7 DEF AckContentOK
<1>10. ToolOK' /\ RegisteredOK' /\ ShownWasPublished'
  BY <1>2 DEF ToolOK, RegisteredOK, ShownWasPublished
<1> QED
  BY <1>5, <1>6, <1>8, <1>9, <1>10

(***************************************************************************)
(* The acknowledgements of one datagram: one a record, under the session   *)
(* numbers that follow those used.                                         *)
(***************************************************************************)
LEMMA NewAcks ==
  ASSUME SdInv, NEW subs \in Seq(Subscription), NEW A, A = Acks(subs)
  PROVE  /\ IsFiniteSet(A) /\ \A x \in A : IsAck(x)
         /\ {Content(x) : x \in A} =
              {<<s.addr, s.service_id, s.eventgroup_id>> : s \in ToSet(subs)}
         /\ (Used + Len(subs) < SESSION_MOD) =>
              /\ Cardinality(A) = Len(subs)
              /\ {Field(x, 10) : x \in A} = (Used + 1)..(Used + Len(subs))
<1> DEFINE n == Len(subs)
           num(i) == (session + i - 1) % SESSION_MOD
           f == [i \in 1..n |-> AckDatagram(subs[i], num(i))]
<1>1. /\ session \in 0..(SESSION_MOD - 1) /\ SESSION_MOD \in Nat \ {0} /\ Used \in Nat
      /\ n \in Nat /\ DOMAIN subs = 1..n /\ \A i \in 1..n : subs[i] \in Subscription
  BY SdAssumption, LenProperties, ElementOfSeq DEF SdInv, SdTypes, Used
<1>2. ASSUME NEW i \in 1..n PROVE num(i) \in Nat
  <2>1. session + i - 1 \in Nat
    BY <1>1
  <2> QED BY <1>1, <2>1, ModRange
<1>3. A = {AckDatagram(subs[i], num(i)) : i \in 1..n}
  BY <1>1, Zenon DEF Acks
<1> HIDE DEF num
<1>4. A = {f[i] : i \in 1..n} /\ f \in [1..n -> A]
  BY <1>3
<1>5. ASSUME NEW i \in 1..n
      PROVE  /\ IsAck(f[i]) /\ Field(f[i], 10) = num(i)
             /\ Content(f[i]) = <<subs[i].addr, subs[i].service_id, subs[i].eventgroup_id>>
  <2>1. f[i] = AckDatagram(subs[i], num(i))
    OBVIOUS
  <2>2. subs[i] \in Subscription /\ num(i) \in Nat
    BY <1>1, <1>2
  <2> HIDE DEF f
  <2>3. IsAck(f[i])
    BY <2>1, <2>2 DEF IsAck
  <2> QED BY <2>1, <2>2, <2>3, AckFields DEF Content
<1> HIDE DEF f
<1>6. IsFiniteSet(A)
  <2>1. f \in Surjection(1..n, A)
    BY <1>4 DEF Surjection
  <2>2. IsFiniteSet(1..n)
    BY <1>1, FS_Interval
  <2> QED BY <2>1, <2>2, FS_Surjection
<1>7. {Content(x) : x \in A} = {<<s.addr, s.service_id, s.eventgroup_id>> : s \in ToSet(subs)}
  <2> DEFINE c(s) == <<s.addr, s.service_id, s.eventgroup_id>>
  <2>1. \A i \in 1..n : Content(f[i]) = c(subs[i])
    BY <1>5
  <2> HIDE DEF c, n
  <2>2. ToSet(subs) = {subs[i] : i \in 1..n}
    BY <1>1 DEF ToSet
  <2>3. {Content(x) : x \in A} = {c(s) : s \in ToSet(subs)}
    BY <1>4, <2>1, <2>2
  <2> QED BY <2>3 DEF c
<1>8. ASSUME Used + n < SESSION_MOD
      PROVE  Cardinality(A) = n /\ {Field(x, 10) : x \in A} = (Used + 1)..(Used + n)
  <2>1. ASSUME NEW i \in 1..n PROVE num(i) = Used + i
    <3>1. session = Used + 1
      BY <1>1, <1>8 DEF SdInv, SessionsOK
    <3>2. session + i - 1 = Used + i /\ Used + i \in 0..SESSION_MOD /\ Used + i # SESSION_MOD
      BY <1>1, <1>8, <3>1
    <3>3. (Used + i) % SESSION_MOD = Used + i
      BY <1>1, <3>2, ModSmall, Zenon
    <3> QED BY <3>2, <3>3 DEF num
  <2>2. ASSUME NEW i \in 1..n, NEW j \in 1..n, f[i] = f[j] PROVE i = j
    <3>1. num(i) = num(j)
      BY <1>5, <2>2
    <3> QED BY <1>1, <2>1, <3>1
  <2>3. f \in Bijection(1..n, A)
    BY <1>4, <2>2 DEF Bijection, Injection, Surjection, IsInjective
  <2>4. Cardinality(A) = n
    BY <1>1, <2>3, FS_CountingElements DEF ExistsBijection
  <2>5. {Field(x, 10) : x \in A} = {Used + i : i \in 1..n}
    BY <1>4, <1>5, <2>1
  <2>6. {Used + i : i \in 1..n} = (Used + 1)..(Used + n)
    <3>1. ASSUME NEW k \in (Used + 1)..(Used + n) PROVE k \in {Used + i : i \in 1..n}
      <4>1. k - Used \in 1..n /\ k = Used + (k - Used)
        BY <1>1
      <4> QED BY <4>1
    <3>2. ASSUME NEW i \in 1..n PROVE Used + i \in (Used + 1)..(Used + n)
      BY <1>1
    <3> QED BY <3>1, <3>2
  <2> QED BY <2>4, <2>5, <2>6
<1>9. \A x \in A : IsAck(x)
  BY <1>4, <1>5
<1> QED
  BY <1>6, <1>7, <1>8, <1>9

LEMMA ReadStep ==
  ASSUME SdInv, NEW d \in net, OnReadable(d)
  PROVE  SdInv'
<1> USE DEF SdInv
<1>1. PICK subs : subs = NewSubscribers(recvfrom(d))
  OBVIOUS
<1>2. PICK A : A = Acks(subs)
  OBVIOUS
<1>3. /\ d.to \in {SdAddr} \cup Groups
      /\ subscribers' = subscribers \o subs /\ net' = net \cup A
      /\ session' = (session + Len(subs)) % SESSION_MOD /\ handled' = handled \cup {d}
      /\ published' = published /\ offers' = offers /\ pub_session' = pub_session
      /\ tool' = tool /\ shown' = shown /\ printed' = printed
  BY <1>1, <1>2 DEF OnReadable
<1>4. /\ subs \in Seq(Subscription)
      /\ ToSet(subs) \subseteq IF IsSd(d) THEN AskedOf(d) ELSE {}
      /\ IsSd(d) /\ Fits(d) => AskedOf(d) \subseteq ToSet(subs)
  BY <1>1, <1>3, Registers DEF NetOK, Registered
<1>5. /\ session \in 0..(SESSION_MOD - 1) /\ offers \in Nat /\ SESSION_MOD \in Nat \ {0}
      /\ subscribers \in Seq(Subscription) /\ Len(subscribers) \in Nat /\ Len(subs) \in Nat
  BY <1>4, SdAssumption, LenProperties DEF SdTypes
<1>6. /\ IsFiniteSet(A) /\ \A x \in A : IsAck(x)
      /\ {Content(x) : x \in A} =
           {<<s.addr, s.service_id, s.eventgroup_id>> : s \in ToSet(subs)}
      /\ (Used + Len(subs) < SESSION_MOD) =>
           /\ Cardinality(A) = Len(subs)
           /\ {Field(x, 10) : x \in A} = (Used + 1)..(Used + Len(subs))
  BY <1>2, <1>4, NewAcks
<1>7. /\ subscribers' \in Seq(Subscription)
      /\ Len(subscribers') = Len(subscribers) + Len(subs)
      /\ ToSet(subscribers') = ToSet(subscribers) \cup ToSet(subs)
  BY <1>3, <1>4, <1>5, ConcatProperties, ConcatSet
<1>8. Mine' = Mine \cup A /\ AcksSent' = AcksSent \cup A
  <2>1. \A x \in A : x.from = SdAddr /\ x.to # SdGroup
    BY <1>6, AckFrom, Addresses
  <2> QED BY <1>3, <2>1 DEF Mine, AcksSent
<1>9. NetOK'
  <2>1. \A x \in A : Known(x)'
    BY <1>3, <1>6, KnownStays DEF Known
  <2> QED BY <1>3, <1>6, <2>1, NetGrows
<1>10. SdTypes' /\ ToolOK'
  <2>1. (session + Len(subs)) % SESSION_MOD \in 0..(SESSION_MOD - 1)
    BY <1>5, ModRange
  <2> QED BY <1>3, <1>7, <2>1 DEF SdTypes, ToolOK
<1>11. RegisteredOK'
  <2> DEFINE H == {h \in handled : IsSd(h)}
             K == {h \in handled' : IsSd(h)}
  <2>1. /\ ToSet(subscribers) \subseteq UNION {AskedOf(h) : h \in H}
        /\ \A h \in H : Fits(h) => AskedOf(h) \subseteq ToSet(subscribers)
    BY DEF RegisteredOK
  <2>2. H \subseteq K /\ (IsSd(d) => d \in K) /\ \A h \in K : h \in H \/ (h = d /\ IsSd(d))
    BY <1>3
  <2> HIDE DEF H, K
  <2>3. ASSUME NEW x \in ToSet(subscribers') PROVE x \in UNION {AskedOf(h) : h \in K}
    <3>1. \E h \in K : x \in AskedOf(h)
      BY <1>4, <1>7, <2>1, <2>2
    <3> QED BY <3>1
  <2>4. ASSUME NEW h \in K, Fits(h) PROVE AskedOf(h) \subseteq ToSet(subscribers')
    BY <1>4, <1>7, <2>1, <2>2, <2>4
  <2>5. /\ ToSet(subscribers') \subseteq UNION {AskedOf(h) : h \in K}
        /\ \A h \in K : Fits(h) => AskedOf(h) \subseteq ToSet(subscribers')
    BY <2>3, <2>4
  <2> QED BY <2>5, Zenon DEF K, RegisteredOK
<1>12. AckContentOK'
  <2> DEFINE c(s) == <<s.addr, s.service_id, s.eventgroup_id>>
  <2>1. /\ {Content(x) : x \in AcksSent} = {c(s) : s \in ToSet(subscribers)}
        /\ {Content(x) : x \in A} = {c(s) : s \in ToSet(subs)}
    BY <1>6 DEF AckContentOK
  <2> HIDE DEF c
  <2>2. {Content(x) : x \in AcksSent'} = {c(s) : s \in ToSet(subscribers')}
    <3>1. {Content(x) : x \in AcksSent'} = {Content(x) : x \in AcksSent} \cup {Content(x) : x \in A}
      BY <1>8
    <3>2. {c(s) : s \in ToSet(subscribers')}
            = {c(s) : s \in ToSet(subscribers)} \cup {c(s) : s \in ToSet(subs)}
      BY <1>7
    <3> QED BY <2>1, <3>1, <3>2
  <2> QED BY <2>2 DEF c, AckContentOK, Content
<1>13. SessionsOK'
  <2> SUFFICES ASSUME Used' < SESSION_MOD
               PROVE  /\ session' = IF Used' + 1 = SESSION_MOD THEN 0 ELSE Used' + 1
                      /\ {Field(x, 10) : x \in Mine'} = 1..Used'
                      /\ Cardinality(AcksSent') = Len(subscribers')
    BY DEF SessionsOK
  <2>1. Used \in Nat /\ Used' = Used + Len(subs) /\ Used < SESSION_MOD
    BY <1>3, <1>5, <1>7 DEF Used
  <2>2. /\ session = IF Used + 1 = SESSION_MOD THEN 0 ELSE Used + 1
        /\ {Field(x, 10) : x \in Mine} = 1..Used
        /\ Cardinality(AcksSent) = Len(subscribers)
    BY <2>1 DEF SessionsOK
  <2>3. /\ Cardinality(A) = Len(subs)
        /\ {Field(x, 10) : x \in A} = (Used + 1)..(Used + Len(subs))
    BY <1>6, <2>1
  <2>4. session' = IF Used' + 1 = SESSION_MOD THEN 0 ELSE Used' + 1
    <3>1. session + Len(subs) \in 0..SESSION_MOD
      BY <1>5, <2>1, <2>2
    <3>2. (session + Len(subs)) % SESSION_MOD
            = IF session + Len(subs) = SESSION_MOD THEN 0 ELSE session + Len(subs)
      BY <1>5, <3>1, ModSmall, Zenon
    <3>3. CASE Used + 1 = SESSION_MOD
      <4>1. Len(subs) = 0 /\ session = 0
        BY <1>5, <2>1, <2>2, <3>3
      <4> QED BY <1>3, <1>5, <2>1, <3>2, <3>3, <4>1
    <3>4. CASE Used + 1 # SESSION_MOD
      <4>1. session = Used + 1
        BY <2>2, <3>4
      <4>2. session + Len(subs) = Used' + 1
        BY <1>5, <2>1, <4>1
      <4> QED BY <1>3, <3>2, <4>2
    <3> QED BY <3>3, <3>4
  <2>5. {Field(x, 10) : x \in Mine'} = 1..Used'
    <3>1. {Field(x, 10) : x \in Mine'} = {Field(x, 10) : x \in Mine} \cup {Field(x, 10) : x \in A}
      BY <1>8
    <3>2. 1..(Used + Len(subs)) = 1..Used \cup (Used + 1)..(Used + Len(subs))
      BY <1>5, <2>1
    <3> QED BY <2>1, <2>2, <2>3, <3>1, <3>2
  <2>6. AcksSent \cap A = {}
    <3> SUFFICES ASSUME NEW x \in AcksSent, x \in A PROVE FALSE
      OBVIOUS
    <3>1. Field(x, 10) \in 1..Used
      BY <2>2 DEF AcksSent
    <3>2. Field(x, 10) \in (Used + 1)..(Used + Len(subs))
      BY <2>3
    <3> QED BY <1>5, <2>1, <3>1, <3>2
  <2>7. IsFiniteSet(AcksSent)
    BY FS_Subset DEF NetOK, AcksSent, Mine
  <2>8. Cardinality(AcksSent \cup A) = Len(subscribers) + Len(subs)
    <3>1. Cardinality(AcksSent \cup A) = Cardinality(AcksSent) + Cardinality(A) - Cardinality(AcksSent \cap A)
      BY <1>6, <2>7, FS_Union
    <3>2. Cardinality(AcksSent \cap A) = 0
      BY <2>6, FS_EmptySet
    <3> QED BY <1>5, <2>2, <2>3, <3>1, <3>2
  <2> QED BY <1>7, <1>8, <2>4, <2>5, <2>8
<1>14. ShownWasPublished'
  BY <1>3 DEF ShownWasPublished
<1> QED
  BY <1>9, <1>10, <1>11, <1>12, <1>13, <1>14

-----------------------------------------------------------------------------
LEMMA SdNext == SdInv /\ [Next]_vars => SdInv'
<1> SUFFICES ASSUME SdInv, [Next]_vars PROVE SdInv'
  OBVIOUS
<1>1. CASE send_offers
  BY <1>1, OfferStep
<1>2. ASSUME NEW name \in DOMAIN Routes, NEW value \in Values, publish(name, value) PROVE SdInv'
  BY <1>2, PublishStep
<1>3. ASSUME NEW d \in net, OnReadable(d) PROVE SdInv'
  BY <1>3, ReadStep
<1>4. ASSUME NEW d \in net, print_someip(d) PROVE SdInv'
  BY <1>4, PrintStep
<1>5. ASSUME NEW t \in Tools, send_subscribe(t) PROVE SdInv'
  BY <1>5, SubscribeStep
<1>6. ASSUME NEW t \in Tools, NEW d \in net, Hear(t, d) PROVE SdInv'
  BY <1>6, HearStep
<1>7. ASSUME NEW t \in Tools, NEW d \in net, Show(t, d) PROVE SdInv'
  BY <1>7, ShowStep
<1>8. ASSUME NEW m \in PeerDatagrams, PeerSends(m) PROVE SdInv'
  BY <1>8, PeerStep
<1>9. CASE UNCHANGED vars
  <2>1. /\ published' = published /\ session' = session /\ subscribers' = subscribers
        /\ offers' = offers /\ pub_session' = pub_session /\ handled' = handled
        /\ tool' = tool /\ net' = net /\ shown' = shown /\ printed' = printed
    BY <1>9 DEF vars, gateway
  <2>2. NetOK'
    BY <2>1, KnownStays DEF SdInv, NetOK
  <2>3. Mine' = Mine /\ AcksSent' = AcksSent /\ Used' = Used
    BY <2>1 DEF Mine, AcksSent, Used
  <2>4. /\ SdTypes' /\ ToolOK' /\ RegisteredOK' /\ ShownWasPublished'
        /\ SessionsOK' /\ AckContentOK'
    BY <2>1, <2>3 DEF SdInv, SdTypes, ToolOK, RegisteredOK, ShownWasPublished, SessionsOK, AckContentOK
  <2> QED BY <2>2, <2>4 DEF SdInv
<1> QED
  BY <1>1, <1>2, <1>3, <1>4, <1>5, <1>6, <1>7, <1>8, <1>9 DEF Next

(***************************************************************************)
(* SdInv holds in every reachable state of the gateway's discovery service *)
(* and the two subscriber tools (SomeIpSdService, someip_sd_subscriber,    *)
(* someip_subscriber).                                                     *)
(***************************************************************************)
THEOREM SdInvariance == Spec => []SdInv
BY SdInit, SdNext, PTL DEF Spec

(***************************************************************************)
(* Types: sessions keep to their width, only tools and the other stack are *)
(* ever in subscribers_, and a tool listens exactly when it has sent its   *)
(* three subscriptions.                                                    *)
(***************************************************************************)
THEOREM TypeCorrect == Spec => []TypeOK
<1>1. SdInv => TypeOK
  <2> SUFFICES ASSUME SdInv PROVE TypeOK
    OBVIOUS
  <2>1. \A i \in DOMAIN subscribers : subscribers[i].addr \in Tools \cup {Peer}
    <3>1. subscribers \in Seq(Subscription)
      BY DEF SdInv, SdTypes
    <3>2. \A i \in DOMAIN subscribers : subscribers[i] \in Subscription
      BY <3>1, LenProperties, ElementOfSeq
    <3> QED BY <3>2 DEF Subscription
  <2>2. Len(ToolServices) = 3
    BY DEF ToolServices
  <2>3. \A t \in Tools : /\ tool[t].pc \in {"wait", "subscribe", "listen"}
                         /\ tool[t].pc = "listen" <=> tool[t].sent = 3
    BY DEF SdInv, SdTypes, ToolOK
  <2> QED BY <2>1, <2>2, <2>3 DEF TypeOK, SdInv, SdTypes
<1> QED
  BY <1>1, SdInvariance, PTL

(***************************************************************************)
(* subscribers_ holds what the received datagrams ask for, however many    *)
(* entries they have, whatever their two lengths claim and however much of *)
(* them the buffer holds (on_readable, handle_sd_message).                 *)
(***************************************************************************)
THEOREM AlwaysRegisteredAsReceived == Spec => []RegisteredAsReceived
<1>1. SdInv => RegisteredAsReceived
  BY RegisteredOKDef DEF SdInv
<1> QED
  BY <1>1, SdInvariance, PTL

(***************************************************************************)
(* Every record is acknowledged once, to its address, under a session      *)
(* number of its own until the counter wraps (send_subscribe_ack and       *)
(* send_offers).                                                           *)
(***************************************************************************)
THEOREM AcksAlwaysMatchRecords == Spec => []AcksMatchRecords
<1>1. SdInv => AcksMatchRecords
  <2> SUFFICES ASSUME SdInv PROVE AcksMatchRecords
    OBVIOUS
  <2>1. offers \in Nat /\ Len(subscribers) \in Nat
    BY LenProperties DEF SdInv, SdTypes
  <2>2. ASSUME Used < SESSION_MOD
        PROVE  Cardinality(AcksSent) = Len(subscribers)
               /\ Cardinality({Field(d, 10) : d \in Mine}) = Used
    <3>1. {Field(d, 10) : d \in Mine} = 1..Used /\ Used \in Nat
      BY <2>1, <2>2 DEF SdInv, SessionsOK, Used
    <3>2. Cardinality(1..Used) = Used
      BY <3>1, FS_Interval
    <3> QED BY <2>2, <3>1, <3>2 DEF SdInv, SessionsOK
  <2> QED BY <2>2, Zenon DEF AcksMatchRecords, SdInv, AckContentOK, Content, AcksSent, Mine, Used
<1> QED
  BY <1>1, SdInvariance, PTL

(***************************************************************************)
(* What the SD subscriber shows of the gateway's datagrams was published,  *)
(* name and value, and no tool shows a number out of an offer, an          *)
(* acknowledgement or a subscription, although all arrive at one port (the *)
(* receive loops of the two tools).                                        *)
(***************************************************************************)
THEOREM OnlyPublishedIsShown == Spec => []ShownWasPublished
BY SdInvariance, PTL DEF SdInv
=============================================================================
