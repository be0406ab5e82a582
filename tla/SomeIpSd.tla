------------------------------ MODULE SomeIpSd ------------------------------
(***************************************************************************)
(* SOME/IP on the wire: the gateway's service discovery                    *)
(* (src/src/someip/someip_sd.hpp, someip_sd.cpp, someip_sd_service.cpp)    *)
(* and notifications (someip_message.cpp, someip_publisher.cpp), with the  *)
(* two subscriber tools (src/tools/someip_sd_subscriber.cpp and            *)
(* someip_subscriber.cpp), over UDP.                                       *)
(*                                                                         *)
(* net holds every datagram ever sent.  A datagram in it may be received   *)
(* any number of times, at any later time and in any order, or never:      *)
(* loss, duplication and reordering need no actions of their own.          *)
(*                                                                         *)
(* A datagram's content is a function from byte offsets to the fields that *)
(* start there; offsets not in its domain hold zero.  So a field that is   *)
(* written at one offset and read at another is read as zero.              *)
(*                                                                         *)
(* A name with an underscore suffix is a faulty variant of the definition  *)
(* that follows it; see the README.                                        *)
(***************************************************************************)
EXTENDS Integers, Sequences, FiniteSets, SequencesExt

CONSTANTS
  Tools,          \* running copies of someip_sd_subscriber, as network addresses
  Peer,           \* another SOME/IP stack, as a network address
  PeerDatagrams,  \* [to, len, at]: what it may send, and where
  Services,       \* offered_: identifiers in the order of main()
  Routes,         \* gateway.conf: signal name -> <<service, method>>
  Values,         \* floats, as four bytes, the most significant first
  SESSION_MOD,    \* session_ is a uint16_t: 65536
  SD_BUF,         \* buf of on_readable, and of both tools: 1500
  SIZE_MOD,       \* size_t on the target board: 2^32
  MaxOffers,      \* bound: send_offers() calls
  MaxNotes,       \* bound: notifications
  MaxSubs,        \* bound: length of subscribers_
  MaxPeer         \* bound: the other stack's datagrams

SdAddr    == "gateway SD socket"
PubAddr   == "publisher socket"
SdGroup   == "224.224.224.245"
DataGroup == "239.0.0.1"
SubAddr   == "someip_subscriber"

Groups == {SdGroup, DataGroup}

ASSUME SdAssumption ==
  /\ Peer \notin Tools /\ ({SdAddr, PubAddr, SubAddr} \cup Groups) \cap (Tools \cup {Peer}) = {}
  /\ SESSION_MOD \in Nat \ {0} /\ MaxOffers \in Nat /\ MaxNotes \in Nat /\ MaxSubs \in Nat
  /\ MaxPeer \in Nat /\ SD_BUF \in Nat /\ SD_BUF >= 28 /\ SIZE_MOD \in Nat \ {0}
  /\ Services \in Seq(Nat) /\ \A v \in Values : v \in [1..4 -> 0..255]
  /\ \A m \in PeerDatagrams : /\ m.to \in {SdAddr, SubAddr} \cup Groups \cup Tools
                              /\ m.len \in Nat /\ \A o \in DOMAIN m.at : m.at[o] \in Nat

VARIABLES
  session,      \* SomeIpSdService::session_
  subscribers,  \* subscribers_
  offers,       \* history: send_offers() calls
  pub_session,  \* SomeIpPublisher::session_
  published,    \* history: notifications, as [name, value]
  tool,         \* someip_sd_subscriber: place, address subscribed at, subscriptions sent
  net,          \* every datagram sent
  handled,      \* history: datagrams the SD service has received
  shown,        \* history: what the someip_sd_subscribers have displayed, and whose it was
  printed       \* history: values someip_subscriber has displayed, and whose they were

gateway == <<session, subscribers, offers, pub_session, published, handled>>
vars == <<gateway, tool, net, shown, printed>>

-----------------------------------------------------------------------------
SD_ENTRY_FIND_SERVICE       == 0
SD_ENTRY_OFFER_SERVICE      == 1
SD_ENTRY_SUBSCRIBE_EVENTGRP == 6
SD_ENTRY_SUBSCRIBE_ACK      == 7
SD_SERVICE == 65535     \* 0xFFFF
SD_METHOD  == 33024     \* 0x8100
NOTIFICATION == 2

Datagram(from, to, len, at) == [from |-> from, to |-> to, len |-> len, at |-> at]

Field(d, o) == IF o \in DOMAIN d.at THEN d.at[o] ELSE 0

Entry(type, service, eventgroup) ==
  [type |-> type, service |-> service, eventgroup |-> eventgroup]

(***************************************************************************)
(* SdEntry::serialize: the fields of the i-th entry lie at 24 + 16(i - 1). *)
(***************************************************************************)
EntryFields(es) ==
  [o \in UNION {{8 + 16 * i, 12 + 16 * i, 22 + 16 * i} : i \in DOMAIN es} |->
     LET e == es[(o - 8) \div 16] IN
       CASE (o - 8) % 16 = 0 -> e.type
         [] (o - 8) % 16 = 4 -> e.service
         [] OTHER            -> e.eventgroup]

Header(service, method, sess) ==
  [o \in {0, 2, 10, 14} |->
     CASE o = 0 -> service [] o = 2 -> method [] o = 10 -> sess [] OTHER -> NOTIFICATION]

Both(f, g) == [o \in DOMAIN f \cup DOMAIN g |-> IF o \in DOMAIN g THEN g[o] ELSE f[o]]

(***************************************************************************)
(* SomeIpSdMessage::serialize; an offer carries one 12-byte option an      *)
(* entry, whose content (address and port) no receiver here reads.         *)
(***************************************************************************)
serialize(es, options, sess) ==
  [len |-> 28 + 16 * Len(es) + 12 * options,
   at  |-> Both(Both(Header(SD_SERVICE, SD_METHOD, sess), EntryFields(es)),
                [o \in {20} |-> 16 * Len(es)])]

OfferDatagram(sess) ==
  LET es == [i \in DOMAIN Services |-> Entry(SD_ENTRY_OFFER_SERVICE, Services[i], 0)]
      m  == serialize(es, Len(es), sess)
  IN Datagram(SdAddr, SdGroup, m.len, m.at)

AckDatagram(sub, sess) ==
  LET m == serialize(<<Entry(SD_ENTRY_SUBSCRIBE_ACK, sub.service_id, sub.eventgroup_id)>>, 0, sess)
  IN Datagram(SdAddr, sub.addr, m.len, m.at)

NotificationDatagram(route, value, sess) ==     \* make_float_notification, serialize_into
  Datagram(PubAddr, DataGroup, 20,
           Both(Header(route[1], route[2], sess), [o \in 16..19 |-> value[o - 15]]))

(***************************************************************************)
(* The tool's own encoder, send_subscribe: a 44-byte buffer with one       *)
(* entry, whose eventgroup it writes at 42.                                *)
(***************************************************************************)
SubscribeDatagram(t, to, service, eventgroup) ==
  Datagram(t, to, 44,
           Both(Both(Header(SD_SERVICE, SD_METHOD, 1),
                     EntryFields(<<Entry(SD_ENTRY_SUBSCRIBE_EVENTGRP, service, 0)>>)),
                [o \in {20, 42} |-> IF o = 20 THEN 16 ELSE eventgroup]))

Init ==
  /\ session = 2 % SESSION_MOD /\ offers = 1 /\ net = {OfferDatagram(1 % SESSION_MOD)}
  /\ subscribers = <<>> /\ handled = {}
  /\ pub_session = 1 % SESSION_MOD /\ published = {}
  /\ tool = [t \in Tools |-> [pc |-> "wait", gateway |-> t, sent |-> 0]]
  /\ shown = {} /\ printed = {}

-----------------------------------------------------------------------------
(***************************************************************************)
(* The gateway.                                                            *)
(***************************************************************************)
send_offers ==
  /\ offers < MaxOffers /\ offers' = offers + 1
  /\ net' = net \cup {OfferDatagram(session)}
  /\ session' = (session + 1) % SESSION_MOD
  /\ UNCHANGED <<subscribers, pub_session, published, handled, tool, shown, printed>>

publish(name, value) ==
  /\ Cardinality(published) < MaxNotes
  /\ net' = net \cup {NotificationDatagram(Routes[name], value, pub_session)}
  /\ pub_session' = (pub_session + 1) % SESSION_MOD
  /\ published' = published \cup {[name |-> name, value |-> value]}
  /\ UNCHANGED <<session, subscribers, offers, handled, tool, shown, printed>>

IsSd(d) == Field(d, 0) = SD_SERVICE /\ Field(d, 2) = SD_METHOD

(***************************************************************************)
(* The loop of handle_sd_message: what it appends to subscribers_, from    *)
(* the entry at pos on.  It stops at the end of the entries array, whose   *)
(* computation is cut to a size_t, or of what was received.                *)
(***************************************************************************)
IsSubscribe_Any(type) == type # SD_ENTRY_FIND_SERVICE

IsSubscribe(type) == type = SD_ENTRY_SUBSCRIBE_EVENTGRP

entries_end(d) == (24 + Field(d, 20)) % SIZE_MOD

MoreEntries_NoLen(d, pos) == pos + 16 <= entries_end(d)

MoreEntries(d, pos) == pos + 16 <= entries_end(d) /\ pos + 16 <= d.len

NewSubscribers(d) ==
  LET from[pos \in {24 + 16 * i : i \in 0..(d.len \div 16)}] ==
        IF ~MoreEntries(d, pos) THEN <<>>
        ELSE (IF IsSubscribe(Field(d, pos))
                THEN <<[addr |-> d.from, service_id |-> Field(d, pos + 4),
                        eventgroup_id |-> Field(d, pos + 14)]>>
                ELSE <<>>) \o from[pos + 16]
  IN IF d.len < 28 \/ ~IsSd(d) THEN <<>> ELSE from[24]

recvfrom(d) == [d EXCEPT !.len = IF @ < SD_BUF THEN @ ELSE SD_BUF]    \* n: a longer one is cut

Acks_Same(subs) == {AckDatagram(subs[i], session) : i \in DOMAIN subs}

Acks(subs) == {AckDatagram(subs[i], (session + i - 1) % SESSION_MOD) : i \in DOMAIN subs}

(***************************************************************************)
(* on_readable and handle_sd_message, with one acknowledgement an entry.   *)
(* The SD socket gets what is sent to it and to the SD group, the          *)
(* gateway's own offers included (IP_MULTICAST_LOOP is on), and, being     *)
(* bound to INADDR_ANY at the port of the notifications, the data group's  *)
(* datagrams when a process of its host has joined that group.             *)
(***************************************************************************)
OnReadable(d) ==
  /\ d.to \in {SdAddr} \cup Groups
  /\ LET subs == NewSubscribers(recvfrom(d)) IN
       /\ Len(subscribers) + Len(subs) <= MaxSubs
       /\ subscribers' = subscribers \o subs
       /\ session' = (session + Len(subs)) % SESSION_MOD
       /\ net' = net \cup Acks(subs)
  /\ handled' = handled \cup {d}
  /\ UNCHANGED <<offers, pub_session, published, tool, shown, printed>>

-----------------------------------------------------------------------------
(***************************************************************************)
(* someip_sd_subscriber.  It takes the first datagram that reaches its     *)
(* socket for an offer, without looking at it, subscribes at the sender's  *)
(* address to three services, closes the socket without waiting for        *)
(* acknowledgements and listens for notifications on the same port.        *)
(***************************************************************************)
EVENTGROUP == 1
ToolServices == <<257, 258, 259>>               \* 0x0101, 0x0102, 0x0103

Reaches(d, t) == d.to \in {t} \cup Groups

Hear(t, d) ==
  /\ tool[t].pc = "wait" /\ Reaches(d, t)
  /\ tool' = [tool EXCEPT ![t].pc = "subscribe", ![t].gateway = d.from]
  /\ UNCHANGED <<gateway, net, shown, printed>>

send_subscribe(t) ==
  /\ tool[t].pc = "subscribe"
  /\ LET k == tool[t].sent + 1 IN
       /\ net' = net \cup {SubscribeDatagram(t, tool[t].gateway, ToolServices[k], EVENTGROUP)}
       /\ tool' = [tool EXCEPT ![t].sent = k,
                               ![t].pc = IF k = Len(ToolServices) THEN "listen" ELSE @]
  /\ UNCHANGED <<gateway, shown, printed>>

signal_name(service, method) ==
  CASE service = 257 /\ method = 32769 -> "EngineRPM"          \* 0x0101 0x8001
    [] service = 257 /\ method = 32770 -> "EngineTemp"
    [] service = 257 /\ method = 32771 -> "ThrottlePos"
    [] service = 258 /\ method = 32769 -> "VehicleSpeed"
    [] service = 258 /\ method = 32770 -> "WheelSpeed_FL"
    [] service = 258 /\ method = 32771 -> "WheelSpeed_FR"
    [] service = 259 /\ method = 32769 -> "BrakePressure"
    [] service = 259 /\ method = 32770 -> "BrakeActive"
    [] OTHER -> "Unknown"

ASSUME RoutesAssumption ==      \* gateway.conf and the tool's table agree
  \A name \in DOMAIN Routes : signal_name(Routes[name][1], Routes[name][2]) = name

Payload(d) == [i \in 1..4 |-> Field(d, 15 + i)]  \* big-endian on the wire

IsShown_All(d) == d.len >= 20 /\ Field(d, 14) = NOTIFICATION

IsShown(d) == d.len >= 20 /\ Field(d, 0) # SD_SERVICE /\ Field(d, 14) = NOTIFICATION

Show(t, d) ==
  /\ tool[t].pc = "listen" /\ Reaches(d, t) /\ IsShown(d)
  /\ shown' = shown \cup {[from  |-> d.from, name |-> signal_name(Field(d, 0), Field(d, 2)),
                           value |-> Payload(d)]}
  /\ UNCHANGED <<gateway, tool, net, printed>>

(***************************************************************************)
(* someip_subscriber displays whatever comes, of any service or type: its  *)
(* socket is bound to INADDR_ANY.  Of 20 bytes print_someip assembles the  *)
(* payload into a number and then swaps its bytes once more with ntohl().  *)
(***************************************************************************)
ntohl(bytes) == Reverse(bytes)                  \* on a little-endian machine

print_someip(d) ==
  /\ d.to \in {SubAddr} \cup Groups /\ d.len = 20
  /\ printed' = printed \cup {[from |-> d.from, value |-> ntohl(Payload(d))]}
  /\ UNCHANGED <<gateway, tool, net, shown>>

PeerSends(m) ==
  /\ Cardinality({d \in net : d.from = Peer}) < MaxPeer
  /\ net' = net \cup {Datagram(Peer, m.to, m.len, m.at)}
  /\ UNCHANGED <<gateway, tool, shown, printed>>

Next ==
  \/ send_offers
  \/ \E name \in DOMAIN Routes, value \in Values : publish(name, value)
  \/ \E d \in net : OnReadable(d) \/ print_someip(d)
  \/ \E t \in Tools : send_subscribe(t) \/ \E d \in net : Hear(t, d) \/ Show(t, d)
  \/ \E m \in PeerDatagrams : PeerSends(m)

Spec == Init /\ [][Next]_vars

-----------------------------------------------------------------------------
(***************************************************************************)
(* Types.                                                                  *)
(***************************************************************************)
TypeOK ==
  /\ session \in 0..(SESSION_MOD - 1) /\ pub_session \in 0..(SESSION_MOD - 1)
  /\ \A i \in DOMAIN subscribers : subscribers[i].addr \in Tools \cup {Peer}
  /\ \A t \in Tools : /\ tool[t].pc \in {"wait", "subscribe", "listen"}
                      /\ tool[t].pc = "listen" <=> tool[t].sent = Len(ToolServices)

(***************************************************************************)
(* subscribers_ holds what the received datagrams ask for: no record for   *)
(* anything but a subscribe entry that lies wholly inside the entries      *)
(* array, the datagram and the receive buffer, whatever the lengths claim, *)
(* and in particular none for the gateway's own offers that multicast      *)
(* loops back; and a record for each such entry, of a datagram whose array *)
(* has an end that fits a size_t (handle_sd_message).                      *)
(***************************************************************************)
RegisteredAsReceived ==
  LET asked(d) ==
        {[addr |-> d.from, service_id |-> Field(d, 12 + 16 * i),
          eventgroup_id |-> Field(d, 22 + 16 * i)] :
            i \in {j \in 1..(d.len \div 16) :
                     /\ Field(d, 8 + 16 * j) = SD_ENTRY_SUBSCRIBE_EVENTGRP
                     /\ 16 * j <= Field(d, 20)
                     /\ 24 + 16 * j <= d.len /\ 24 + 16 * j <= SD_BUF}}
      sd == {h \in handled : Field(h, 0) = SD_SERVICE /\ Field(h, 2) = SD_METHOD}
  IN /\ ToSet(subscribers) \subseteq UNION {asked(d) : d \in sd}
     /\ \A d \in sd : 24 + Field(d, 20) < SIZE_MOD => asked(d) \subseteq ToSet(subscribers)

(***************************************************************************)
(* Every record is acknowledged to its own address, once, and under a      *)
(* session number no offer or other acknowledgement has, as long as the    *)
(* counter does not wrap (session_ in send_offers and send_subscribe_ack). *)
(***************************************************************************)
AcksMatchRecords ==
  LET mine == {d \in net : d.from = SdAddr}
      acks == {d \in mine : d.to # SdGroup}
  IN /\ offers + Len(subscribers) < SESSION_MOD =>
          /\ Cardinality(acks) = Len(subscribers)
          /\ Cardinality({Field(d, 10) : d \in mine}) = offers + Len(subscribers)
     /\ {<<d.to, Field(d, 28), Field(d, 38)>> : d \in acks} =
          {<<s.addr, s.service_id, s.eventgroup_id>> : s \in ToSet(subscribers)}

(***************************************************************************)
(* What the SD subscriber displays of the gateway's datagrams is what was  *)
(* published, under the same name and with the same value; and although    *)
(* offers, acknowledgements, other tools' subscriptions and notifications  *)
(* arrive at one port, neither tool displays a number out of one that is   *)
(* no notification of the gateway, nor the other stack's (the filters of   *)
(* the two receive loops).                                                 *)
(***************************************************************************)
ShownWasPublished ==
  /\ \A s \in shown : s.from = PubAddr => [name |-> s.name, value |-> s.value] \in published
  /\ \A s \in shown \cup printed : s.from \in {PubAddr, Peer}

(***************************************************************************)
(* "Decode payload as float (4 bytes big-endian)" (someip_subscriber.cpp): *)
(* a value the plain subscriber displays for a notification of the gateway *)
(* is a value the gateway published.                                       *)
(***************************************************************************)
PrintedAsPublished ==
  \A s \in printed : s.from = PubAddr => \E p \in published : p.value = s.value

(***************************************************************************)
(* "eventgroup id at bytes 42-43" (someip_sd_subscriber.cpp): the gateway  *)
(* records a tool's subscription for the eventgroup the tool asked for.    *)
(***************************************************************************)
SubscribedAsAsked ==
  \A i \in DOMAIN subscribers :
    subscribers[i].addr \in Tools => subscribers[i].eventgroup_id = EVENTGROUP
=============================================================================
