------------------------------ MODULE Startup ------------------------------
(***************************************************************************)
(* What main() does before the event loop: ConfigLoader::load              *)
(* (src/src/utils/config_loader.cpp), DbcParser::parse                     *)
(* (src/src/can/dbc_parser.cpp) and the registration of the routes with    *)
(* the publisher.  It ends in "ready", with the tables CanPipeline takes   *)
(* as constants, or in "fatal".                                            *)
(*                                                                         *)
(* The two files are read line by line; a line is what the parser makes of *)
(* its text.  The lines read so far are kept, so that the tables can be    *)
(* compared with the files.                                                *)
(*                                                                         *)
(* A name with an underscore suffix is a faulty variant of the definition  *)
(* that follows it; see the README.                                        *)
(***************************************************************************)
EXTENDS Integers, Sequences

CONSTANTS
  ConfLines,     \* lines of gateway.conf, records with a kind:
                 \*   "skip"   blank, a comment, or fewer than three words
                 \*   "bad"    an identifier std::stoul refuses
                 \*   "route"  with name, service and method, as stoul returns them
  DbcLines,      \* lines of vehicle.dbc, records with a kind:
                 \*   "blank"
                 \*   "BO_"    with fault, id and length
                 \*   "SG_"    with fault, name, start_bit and length; scale, range, unit,
                 \*            sign and byte order are left out
                 \*   "other"  anything else: VERSION, BU_, CM_, ...
  MaxConf,       \* bound: lines of gateway.conf
  MaxDbc         \* bound: lines of vehicle.dbc

Faults == {"none", "words", "bit_info", "bit values", "scale_info", "range_info"}

ASSUME StartupAssumption ==
  /\ \A l \in ConfLines : /\ l.kind \in {"skip", "bad", "route"}
                          /\ l.kind = "route" => l.service \in Nat /\ l.method \in Nat
  /\ \A l \in DbcLines : /\ l.kind \in {"blank", "BO_", "SG_", "other"}
                         /\ l.kind = "BO_" => /\ l.fault \in {"none", "words"}
                                             /\ l.id \in Nat /\ l.length \in Int
                         /\ l.kind = "SG_" => /\ l.fault \in Faults
                                             /\ l.start_bit \in Int /\ l.length \in Int
  /\ MaxConf \in Nat /\ MaxDbc \in Nat

VARIABLES
  place,          \* where main() is
  routes,         \* ConfigLoader::routes_
  messages,       \* DbcParser::messages_ by identifier
  current_id, in_message,   \* locals of parse
  registered,     \* routes registered so far
  signal_map,     \* SomeIpPublisher::signal_map_
  conf, dbc       \* history: the lines read

parser == <<messages, current_id, in_message, dbc>>
startVars == <<place, routes, parser, registered, signal_map, conf>>

StartInit ==
  /\ place = "open_conf" /\ routes = <<>> /\ conf = <<>>
  /\ messages = <<>> /\ current_id = 0 /\ in_message = FALSE /\ dbc = <<>>
  /\ registered = 0 /\ signal_map = <<>>

Put(f, k, v) == [x \in DOMAIN f \cup {k} |-> IF x = k THEN v ELSE f[x]]

uint8(n)  == n % 256
uint16(n) == n % 65536

-----------------------------------------------------------------------------
(***************************************************************************)
(* ConfigLoader::load.                                                     *)
(***************************************************************************)
OpenConf ==
  /\ place = "open_conf"
  /\ place' \in {"conf", "fatal"}
  /\ UNCHANGED <<routes, parser, registered, signal_map, conf>>

(***************************************************************************)
(* line is history here and below, the number of the line in its file.     *)
(***************************************************************************)
Route(l) == [name |-> l.name, service |-> uint16(l.service), method |-> uint16(l.method),
             line |-> Len(conf) + 1]

ConfLine(l) ==
  /\ place = "conf" /\ Len(conf) < MaxConf
  /\ conf' = Append(conf, l)
  /\ routes' = IF l.kind = "route" THEN Append(routes, Route(l)) ELSE routes
  /\ UNCHANGED <<place, parser, registered, signal_map>>

EndConf ==                              \* return !routes_.empty()
  /\ place = "conf"
  /\ place' = IF routes = <<>> THEN "fatal" ELSE "open_dbc"
  /\ UNCHANGED <<routes, parser, registered, signal_map, conf>>

-----------------------------------------------------------------------------
(***************************************************************************)
(* DbcParser::parse.  A line that cannot be parsed changes nothing: a      *)
(* refused BO_ line leaves the message before it current.                  *)
(***************************************************************************)
OpenDbc ==
  /\ place = "open_dbc"
  /\ place' \in {"dbc", "fatal"}
  /\ UNCHANGED <<routes, parser, registered, signal_map, conf>>

parse_message_line(l) == [length |-> uint8(l.length), signals |-> <<>>]

parse_signal_line_Wide(l) ==            \* start_bit and length kept as int
  [name |-> l.name, start_bit |-> l.start_bit, length |-> l.length, line |-> Len(dbc) + 1]

parse_signal_line(l) ==
  [name |-> l.name, start_bit |-> uint8(l.start_bit), length |-> uint8(l.length),
   line |-> Len(dbc) + 1]

Accepted(l) == l.fault = "none"         \* none of the early returns

BlankLine ==
  /\ in_message' = FALSE
  /\ UNCHANGED <<messages, current_id>>

MessageLine_Emplace(l) ==
  IF Accepted(l)
    THEN /\ current_id' = l.id /\ in_message' = TRUE
         /\ messages' = IF l.id \in DOMAIN messages THEN messages
                        ELSE Put(messages, l.id, parse_message_line(l))
    ELSE UNCHANGED <<messages, current_id, in_message>>

MessageLine(l) ==
  IF Accepted(l)
    THEN /\ current_id' = l.id /\ in_message' = TRUE
         /\ messages' = Put(messages, l.id, parse_message_line(l))
    ELSE UNCHANGED <<messages, current_id, in_message>>

SignalLine(l) ==
  /\ messages' = IF in_message /\ Accepted(l)
                   THEN [messages EXCEPT ![current_id].signals = Append(@, parse_signal_line(l))]
                   ELSE messages
  /\ UNCHANGED <<current_id, in_message>>

DbcLine(l) ==
  /\ place = "dbc" /\ Len(dbc) < MaxDbc
  /\ dbc' = Append(dbc, l)
  /\ \/ l.kind = "blank" /\ BlankLine
     \/ l.kind = "BO_" /\ MessageLine(l)
     \/ l.kind = "SG_" /\ SignalLine(l)
     \/ l.kind = "other" /\ UNCHANGED <<messages, current_id, in_message>>
  /\ UNCHANGED <<place, routes, registered, signal_map, conf>>

EndDbc ==                               \* true, also for a file without messages
  /\ place = "dbc" /\ place' = "register"
  /\ UNCHANGED <<routes, parser, registered, signal_map, conf>>

-----------------------------------------------------------------------------
(***************************************************************************)
(* The loop over config.routes() in main().                                *)
(***************************************************************************)
register_signal_First(r) ==
  signal_map' = IF r.name \in DOMAIN signal_map THEN signal_map
                ELSE Put(signal_map, r.name, <<r.service, r.method>>)

register_signal(r) == signal_map' = Put(signal_map, r.name, <<r.service, r.method>>)

Register ==
  /\ place = "register" /\ registered < Len(routes)
  /\ register_signal(routes[registered + 1])
  /\ registered' = registered + 1
  /\ UNCHANGED <<place, routes, parser, conf>>

Registered ==
  /\ place = "register" /\ registered = Len(routes)
  /\ place' = "ready"
  /\ UNCHANGED <<routes, parser, registered, signal_map, conf>>

StartNext ==
  \/ OpenConf \/ EndConf \/ OpenDbc \/ EndDbc \/ Register \/ Registered
  \/ \E l \in ConfLines : ConfLine(l)
  \/ \E l \in DbcLines : DbcLine(l)

StartSpec == StartInit /\ [][StartNext]_startVars

-----------------------------------------------------------------------------
UInt8  == {n \in Nat : n < 256}
UInt16 == {n \in Nat : n < 65536}

CastsApplied ==
  /\ \A id \in DOMAIN messages :
       /\ messages[id].length \in UInt8
       /\ \A n \in DOMAIN messages[id].signals :
            LET s == messages[id].signals[n] IN s.start_bit \in UInt8 /\ s.length \in UInt8
  /\ \A k \in DOMAIN routes : routes[k].service \in UInt16 /\ routes[k].method \in UInt16

StartTypes ==
  /\ place \in {"open_conf", "conf", "open_dbc", "dbc", "register", "ready", "fatal"}
  /\ conf \in Seq(ConfLines) /\ dbc \in Seq(DbcLines)
  /\ DOMAIN messages \subseteq Nat /\ current_id \in Nat /\ in_message \in BOOLEAN
  /\ in_message => current_id \in DOMAIN messages
  /\ registered \in 0..Len(routes)

(***************************************************************************)
(* Types of main()'s tables: whatever numbers the files hold, what the     *)
(* tables hold fits uint8_t (message length, start bit and length of a     *)
(* signal) and uint16_t (service and method of a route), and the current   *)
(* message of parse() is in the table (parse_message_line,                 *)
(* parse_signal_line, load).                                               *)
(***************************************************************************)
StartTypeOK == StartTypes /\ CastsApplied

(***************************************************************************)
(* The files, without the parser: where the headers are, and which signal  *)
(* lines follow a header with neither a blank line nor another header in   *)
(* between.                                                                *)
(***************************************************************************)
Header(i) == dbc[i].kind = "BO_" /\ Accepted(dbc[i])
LastHeader(i) == Header(i) /\ \A j \in (i + 1)..Len(dbc) : Header(j) => dbc[j].id # dbc[i].id
Follows(j, i) ==
  /\ i < j /\ dbc[j].kind = "SG_" /\ Accepted(dbc[j])
  /\ \A k \in (i + 1)..(j - 1) : dbc[k].kind # "blank" /\ ~Header(k)

(***************************************************************************)
(* The table is what the file says, for every file: the messages are those *)
(* of the well-formed BO_ lines, a repeated identifier means its last one, *)
(* and a message has the signals of the well-formed SG_ lines below its    *)
(* line, in order and none twice, up to the next blank line or well-formed *)
(* BO_ line (parse).                                                       *)
(***************************************************************************)
TableIsFile ==
  /\ DOMAIN messages = {dbc[i].id : i \in {j \in DOMAIN dbc : Header(j)}}
  /\ \A i \in DOMAIN dbc : LastHeader(i) =>
       LET m == messages[dbc[i].id]
           s == m.signals
       IN /\ m.length = uint8(dbc[i].length)
          /\ {s[n].line : n \in DOMAIN s} = {j \in DOMAIN dbc : Follows(j, i)}
          /\ \A n, k \in DOMAIN s : n < k => s[n].line < s[k].line
          /\ \A n \in DOMAIN s :
               LET l == dbc[s[n].line] IN
                 s[n] = [name |-> l.name, start_bit |-> uint8(l.start_bit),
                         length |-> uint8(l.length), line |-> s[n].line]

(***************************************************************************)
(* When main() goes on to the event loop, a signal is routed if and only   *)
(* if some usable line of gateway.conf names it, to the identifiers of the *)
(* last such line; lines that are skipped or refused are without effect,   *)
(* and there is at least one route (load, register_signal).                *)
(***************************************************************************)
RoutesAreFile ==
  place = "ready" =>
    LET usable == {i \in DOMAIN conf : conf[i].kind = "route"} IN
      /\ usable # {}
      /\ DOMAIN signal_map = {conf[i].name : i \in usable}
      /\ \A i \in usable :
           (\A j \in usable : j > i => conf[j].name # conf[i].name) =>
             signal_map[conf[i].name] = <<uint16(conf[i].service), uint16(conf[i].method)>>
=============================================================================
