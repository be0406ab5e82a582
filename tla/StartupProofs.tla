--------------------------- MODULE StartupProofs ---------------------------
(***************************************************************************)
(* Proofs that the tables main() builds are what its files say, for files  *)
(* of any length with any lines.                                           *)
(***************************************************************************)
EXTENDS Startup, SequenceTheorems, TLAPS

(***************************************************************************)
(* What a table entry can be, from which line.                             *)
(***************************************************************************)
SigOf(l, n) == [name |-> l.name, start_bit |-> uint8(l.start_bit), length |-> uint8(l.length),
                line |-> n]
LinesOf(kind) == {l \in DbcLines : l.kind = kind}
SigDefs == {SigOf(l, n) : l \in LinesOf("SG_"), n \in Nat}
MsgDefs == [length : {uint8(l.length) : l \in LinesOf("BO_")}, signals : Seq(SigDefs)]

RouteOf(l, n) == [name |-> l.name, service |-> uint16(l.service), method |-> uint16(l.method),
                  line |-> n]
RouteDefs == {RouteOf(l, n) : l \in {c \in ConfLines : c.kind = "route"}, n \in Nat}

(***************************************************************************)
(* The tables are functions with values of these types.                    *)
(***************************************************************************)
TablesTyped ==
  /\ messages = [id \in DOMAIN messages |-> messages[id]]
  /\ \A id \in DOMAIN messages : messages[id] \in MsgDefs
  /\ routes \in Seq(RouteDefs)

(***************************************************************************)
(* in_message and current_id stand for the one header whose signals may    *)
(* still follow.                                                           *)
(***************************************************************************)
Open(i) == Header(i) /\ \A k \in (i + 1)..Len(dbc) : dbc[k].kind # "blank" /\ ~Header(k)
OpenIsCurrent ==
  /\ \A i \in DOMAIN dbc : Open(i) => in_message /\ current_id = dbc[i].id
  /\ in_message => \E i \in DOMAIN dbc : Open(i)

(***************************************************************************)
(* What TableIsFile says of one message and its header.                    *)
(***************************************************************************)
Describes(m, i) ==
  LET s == m.signals IN
    /\ m.length = uint8(dbc[i].length)
    /\ {s[n].line : n \in DOMAIN s} = {j \in DOMAIN dbc : Follows(j, i)}
    /\ \A n, k \in DOMAIN s : n < k => s[n].line < s[k].line
    /\ \A n \in DOMAIN s : s[n] = SigOf(dbc[s[n].line], s[n].line)

ParserInv == StartTypes /\ TablesTyped /\ OpenIsCurrent /\ TableIsFile

-----------------------------------------------------------------------------
(***************************************************************************)
(* One more line leaves the lines before it as they are.                   *)
(***************************************************************************)
LEMMA LineAppended ==
  ASSUME NEW S, NEW s \in Seq(S), NEW l \in S
  PROVE  /\ Len(s) \in Nat /\ DOMAIN s = 1..Len(s)
         /\ Append(s, l) \in Seq(S) /\ Len(Append(s, l)) = Len(s) + 1
         /\ DOMAIN Append(s, l) = 1..(Len(s) + 1)
         /\ \A i \in 1..Len(s) : Append(s, l)[i] = s[i]
         /\ Append(s, l)[Len(s) + 1] = l
<1>1. Append(s, l) \in Seq(S) /\ Len(Append(s, l)) = Len(s) + 1
      /\ (\A i \in 1..Len(s) : Append(s, l)[i] = s[i]) /\ Append(s, l)[Len(s) + 1] = l
  BY AppendProperties
<1>2. DOMAIN Append(s, l) = 1..Len(Append(s, l)) /\ Len(s) \in Nat /\ DOMAIN s = 1..Len(s)
  BY <1>1, LenProperties
<1> QED BY <1>1, <1>2

LEMMA TableByMessage ==
  TableIsFile <=>
    /\ DOMAIN messages = {dbc[i].id : i \in {j \in DOMAIN dbc : Header(j)}}
    /\ \A i \in DOMAIN dbc : LastHeader(i) => Describes(messages[dbc[i].id], i)
BY DEF TableIsFile, Describes, SigOf

LEMMA TableFromMessages ==
  ASSUME DOMAIN messages' = {dbc'[i].id : i \in {j \in DOMAIN dbc' : Header(j)'}},
         \A i \in DOMAIN dbc' :
           LastHeader(i)' => \A m : m = messages'[dbc'[i].id] => Describes(m, i)'
  PROVE  TableIsFile'
BY DEF TableIsFile, Describes, SigOf

(***************************************************************************)
(* What one more line of vehicle.dbc does to the reading of the file.      *)
(***************************************************************************)
LEMMA FileGrows ==
  ASSUME dbc \in Seq(DbcLines), NEW l \in DbcLines, dbc' = Append(dbc, l),
         NEW n, n = Len(dbc)
  PROVE  /\ n \in Nat /\ DOMAIN dbc = 1..n
         /\ DOMAIN dbc' = 1..(n + 1) /\ Len(dbc') = n + 1
         /\ dbc'[n + 1] = l
         /\ \A i \in 1..n : dbc'[i] = dbc[i]
         /\ \A i \in 1..n : Header(i)' <=> Header(i)
         /\ Header(n + 1)' <=> l.kind = "BO_" /\ Accepted(l)
         /\ \A i, j \in 1..n : Follows(j, i)' <=> Follows(j, i)
         /\ \A i \in 1..n :
              Follows(n + 1, i)' <=>
                /\ l.kind = "SG_" /\ Accepted(l)
                /\ \A k \in (i + 1)..n : dbc[k].kind # "blank" /\ ~Header(k)
         /\ \A j \in 1..(n + 1) : ~Follows(j, n + 1)'
<1>1. /\ n \in Nat /\ DOMAIN dbc = 1..n
      /\ DOMAIN dbc' = 1..(n + 1) /\ Len(dbc') = n + 1
      /\ dbc'[n + 1] = l
      /\ \A i \in 1..n : dbc'[i] = dbc[i]
  BY LineAppended
<1>2. /\ \A i \in 1..n : Header(i)' <=> Header(i)
      /\ Header(n + 1)' <=> l.kind = "BO_" /\ Accepted(l)
  <2>1. ASSUME NEW i \in 1..n PROVE Header(i)' <=> Header(i)
    <3>1. dbc'[i] = dbc[i]
      BY <1>1
    <3> QED BY Zenon, <3>1 DEF Header, Accepted
  <2>2. Header(n + 1)' <=> l.kind = "BO_" /\ Accepted(l)
    BY Zenon, <1>1 DEF Header, Accepted
  <2> QED BY <2>1, <2>2
<1>3. \A i, j \in 1..n : Follows(j, i)' <=> Follows(j, i)
  <2> TAKE i, j \in 1..n
  <2>1. \A k \in (i + 1)..(j - 1) : k \in 1..n
    BY <1>1
  <2>2. (\A k \in (i + 1)..(j - 1) : dbc'[k].kind # "blank" /\ ~Header(k)')
          <=> (\A k \in (i + 1)..(j - 1) : dbc[k].kind # "blank" /\ ~Header(k))
    BY <1>1, <1>2, <2>1
  <2> QED BY <1>1, <2>2 DEF Follows, Accepted
<1>4. \A i \in 1..n :
        Follows(n + 1, i)' <=>
          /\ l.kind = "SG_" /\ Accepted(l)
          /\ \A k \in (i + 1)..n : dbc[k].kind # "blank" /\ ~Header(k)
  <2> TAKE i \in 1..n
  <2>1. (i + 1)..((n + 1) - 1) = (i + 1)..n
    BY <1>1
  <2>2. \A k \in (i + 1)..n : k \in 1..n
    BY <1>1
  <2>3. (\A k \in (i + 1)..n : dbc'[k].kind # "blank" /\ ~Header(k)')
          <=> (\A k \in (i + 1)..n : dbc[k].kind # "blank" /\ ~Header(k))
    BY <1>1, <1>2, <2>2
  <2>4. i < n + 1
    BY <1>1
  <2> QED BY Zenon, <1>1, <2>1, <2>3, <2>4 DEF Follows, Accepted
<1>5. \A j \in 1..(n + 1) : ~Follows(j, n + 1)'
  BY <1>1 DEF Follows
<1> QED BY <1>1, <1>2, <1>3, <1>4, <1>5

(***************************************************************************)
(* What the new line does to the description of a message: nothing when it *)
(* is not one of its signals, one more signal when it is, and a message    *)
(* without signals when it is a header.                                    *)
(***************************************************************************)
LEMMA DescribesKept ==
  ASSUME dbc \in Seq(DbcLines), NEW l \in DbcLines, dbc' = Append(dbc, l),
         NEW n, n = Len(dbc), NEW i \in 1..n, NEW m,
         Describes(m, i), ~Follows(n + 1, i)'
  PROVE  Describes(m, i)'
<1> DEFINE s == m.signals
<1>1. /\ n \in Nat /\ DOMAIN dbc = 1..n /\ DOMAIN dbc' = 1..(n + 1)
      /\ \A k \in 1..n : dbc'[k] = dbc[k]
      /\ \A j \in 1..n : Follows(j, i)' <=> Follows(j, i)
  BY FileGrows
<1>2. {j \in DOMAIN dbc' : Follows(j, i)'} = {j \in DOMAIN dbc : Follows(j, i)}
  <2>1. \A j : j \in 1..(n + 1) <=> j \in 1..n \/ j = n + 1
    BY <1>1
  <2> QED BY <1>1, <2>1
<1>3. \A k \in DOMAIN s : s[k].line \in 1..n
  BY <1>1 DEF Describes
<1>4. \A k \in DOMAIN s : s[k] = SigOf(dbc'[s[k].line], s[k].line)
  BY <1>1, <1>3 DEF Describes
<1>5. m.length = uint8(dbc'[i].length)
  BY <1>1 DEF Describes
<1> QED BY <1>2, <1>4, <1>5 DEF Describes

LEMMA DescribesGrown ==
  ASSUME dbc \in Seq(DbcLines), NEW l \in DbcLines, dbc' = Append(dbc, l),
         NEW n, n = Len(dbc), NEW i \in 1..n, NEW m \in MsgDefs,
         Describes(m, i), Follows(n + 1, i)',
         NEW m2, m2.length = m.length, m2.signals = Append(m.signals, SigOf(l, n + 1))
  PROVE  Describes(m2, i)'
<1> DEFINE s == m.signals
           t == m2.signals
<1>1. /\ n \in Nat /\ DOMAIN dbc = 1..n /\ DOMAIN dbc' = 1..(n + 1) /\ dbc'[n + 1] = l
      /\ \A k \in 1..n : dbc'[k] = dbc[k]
      /\ \A j \in 1..n : Follows(j, i)' <=> Follows(j, i)
  BY FileGrows
<1>2. /\ Len(s) \in Nat /\ DOMAIN s = 1..Len(s) /\ DOMAIN t = 1..(Len(s) + 1)
      /\ \A k \in 1..Len(s) : t[k] = s[k]
      /\ t[Len(s) + 1] = SigOf(l, n + 1)
  <2>1. s \in Seq(SigDefs)
    BY DEF MsgDefs
  <2>2. SigOf(l, n + 1) \in SigDefs
    <3>1. l \in LinesOf("SG_") /\ n + 1 \in Nat
      BY <1>1 DEF Follows, LinesOf
    <3> QED BY <3>1 DEF SigDefs
  <2>3. t = Append(s, SigOf(l, n + 1))
    OBVIOUS
  <2> HIDE DEF s, t
  <2> QED BY <2>1, <2>2, <2>3, LineAppended
<1>3. {j \in DOMAIN dbc' : Follows(j, i)'} = {j \in DOMAIN dbc : Follows(j, i)} \cup {n + 1}
  <2>1. \A j : j \in 1..(n + 1) <=> j \in 1..n \/ j = n + 1
    BY <1>1, SMTT(30)
  <2> QED BY <1>1, <2>1
<1>4. t[Len(s) + 1].line = n + 1
  BY <1>2 DEF SigOf
<1>5. /\ {s[k].line : k \in DOMAIN s} = {j \in DOMAIN dbc : Follows(j, i)}
      /\ \A k, h \in DOMAIN s : k < h => s[k].line < s[h].line
      /\ \A k \in DOMAIN s : s[k] = SigOf(dbc[s[k].line], s[k].line)
      /\ m.length = uint8(dbc[i].length)
  BY DEF Describes
<1>6. \A k \in 1..Len(s) : s[k].line \in 1..n
  BY <1>1, <1>2, <1>5
<1>7. \A k \in DOMAIN t : k \in DOMAIN s \/ k = Len(s) + 1
  BY <1>2
<1>8. {t[k].line : k \in DOMAIN t} = {s[k].line : k \in DOMAIN s} \cup {n + 1}
  <2>1. \A k \in DOMAIN s : k \in DOMAIN t /\ t[k] = s[k]
    BY <1>2
  <2>2. Len(s) + 1 \in DOMAIN t
    BY <1>2
  <2> HIDE DEF s, t
  <2> QED BY <1>4, <1>7, <2>1, <2>2
<1>9. \A k, h \in DOMAIN t : k < h => t[k].line < t[h].line
  <2> SUFFICES ASSUME NEW k \in DOMAIN t, NEW h \in DOMAIN t, k < h
               PROVE  t[k].line < t[h].line
    OBVIOUS
  <2>1. k \in DOMAIN s
    BY <1>2, <1>7
  <2>2. CASE h \in DOMAIN s
    <3>1. t[k] = s[k] /\ t[h] = s[h] /\ s[k].line < s[h].line
      BY <1>2, <1>5, <2>1, <2>2
    <3> QED BY Zenon, <3>1
  <2>3. CASE h = Len(s) + 1
    <3>1. t[k] = s[k] /\ s[k].line \in 1..n
      BY <1>2, <1>6, <2>1
    <3>2. s[k].line < n + 1
      BY <1>1, <3>1
    <3> QED BY Zenon, <1>4, <2>3, <3>1, <3>2
  <2> QED BY <1>7, <2>2, <2>3
<1>10. \A k \in DOMAIN t : t[k] = SigOf(dbc'[t[k].line], t[k].line)
  <2> TAKE k \in DOMAIN t
  <2>1. CASE k \in DOMAIN s
    <3>1. t[k] = s[k] /\ s[k].line \in 1..n
      BY <1>2, <1>6, <2>1
    <3>2. dbc'[s[k].line] = dbc[s[k].line]
      BY <1>1, <3>1
    <3>3. s[k] = SigOf(dbc[s[k].line], s[k].line)
      BY <1>5, <2>1
    <3> QED BY Zenon, <3>1, <3>2, <3>3
  <2>2. CASE k = Len(s) + 1
    BY Zenon, <1>1, <1>2, <1>4, <2>2
  <2> QED BY <1>7, <2>1, <2>2
<1>11. m2.length = uint8(dbc'[i].length)
  BY <1>1, <1>5
<1> QED BY <1>3, <1>5, <1>8, <1>9, <1>10, <1>11 DEF Describes

LEMMA DescribesNew ==
  ASSUME dbc \in Seq(DbcLines), NEW l \in DbcLines, dbc' = Append(dbc, l),
         NEW n, n = Len(dbc), NEW m, m.length = uint8(l.length), m.signals = <<>>
  PROVE  Describes(m, n + 1)'
<1>1. /\ n \in Nat /\ DOMAIN dbc' = 1..(n + 1) /\ dbc'[n + 1] = l
      /\ \A j \in 1..(n + 1) : ~Follows(j, n + 1)'
  BY FileGrows
<1>2. DOMAIN m.signals = {}
  OBVIOUS
<1> QED BY <1>1, <1>2 DEF Describes

-----------------------------------------------------------------------------
(***************************************************************************)
(* OpenIsCurrent, kind of line by kind of line.                            *)
(***************************************************************************)
LEMMA OpenGrows ==
  ASSUME dbc \in Seq(DbcLines), NEW l \in DbcLines, dbc' = Append(dbc, l),
         NEW n, n = Len(dbc)
  PROVE  /\ \A i \in 1..n :
              Open(i)' <=> Open(i) /\ l.kind # "blank" /\ ~(l.kind = "BO_" /\ Accepted(l))
         /\ Open(n + 1)' <=> l.kind = "BO_" /\ Accepted(l)
<1>1. /\ n \in Nat /\ DOMAIN dbc = 1..n /\ Len(dbc') = n + 1 /\ dbc'[n + 1] = l
      /\ \A i \in 1..n : dbc'[i] = dbc[i]
      /\ \A i \in 1..n : Header(i)' <=> Header(i)
      /\ Header(n + 1)' <=> l.kind = "BO_" /\ Accepted(l)
  BY FileGrows
<1>2. ASSUME NEW i \in 1..n
      PROVE  Open(i)' <=> Open(i) /\ l.kind # "blank" /\ ~(l.kind = "BO_" /\ Accepted(l))
  <2>1. \A k : k \in (i + 1)..(n + 1) <=> k \in (i + 1)..n \/ k = n + 1
    BY <1>1
  <2>2. \A k \in (i + 1)..n : k \in 1..n
    BY <1>1
  <2>3. (\A k \in (i + 1)..(n + 1) : dbc'[k].kind # "blank" /\ ~Header(k)')
          <=> /\ \A k \in (i + 1)..n : dbc[k].kind # "blank" /\ ~Header(k)
              /\ l.kind # "blank" /\ ~(l.kind = "BO_" /\ Accepted(l))
    BY <1>1, <2>1, <2>2
  <2> QED BY <1>1, <2>3 DEF Open
<1>3. Open(n + 1)' <=> l.kind = "BO_" /\ Accepted(l)
  <2>1. ((n + 1) + 1)..(n + 1) = {}
    BY <1>1
  <2> QED BY <1>1, <2>1 DEF Open
<1> QED BY <1>2, <1>3

(***************************************************************************)
(* A line that is no header and joins no message leaves the table true.    *)
(***************************************************************************)
LEMMA TableKept ==
  ASSUME ParserInv, NEW l \in DbcLines, dbc' = Append(dbc, l), messages' = messages,
         ~(l.kind = "BO_" /\ Accepted(l)),
         (l.kind = "SG_" /\ Accepted(l)) => ~in_message
  PROVE  TableIsFile'
<1> DEFINE n == Len(dbc)
<1>0. dbc \in Seq(DbcLines)
  BY DEF ParserInv, StartTypes
<1>1. /\ n \in Nat /\ DOMAIN dbc = 1..n /\ DOMAIN dbc' = 1..(n + 1) /\ Len(dbc') = n + 1
      /\ \A i \in 1..n : dbc'[i] = dbc[i]
      /\ \A i \in 1..n : Header(i)' <=> Header(i)
      /\ \A m : m = n + 1 => ~Header(m)'
  BY <1>0, FileGrows
<1>2. \A j : j \in 1..(n + 1) <=> j \in 1..n \/ j = n + 1
  BY <1>1
<1>3. DOMAIN messages' = {dbc'[i].id : i \in {j \in DOMAIN dbc' : Header(j)'}}
  <2>1. {j \in DOMAIN dbc' : Header(j)'} = {j \in DOMAIN dbc : Header(j)}
    BY <1>1, <1>2
  <2>2. DOMAIN messages = {dbc[i].id : i \in {j \in DOMAIN dbc : Header(j)}}
    BY DEF ParserInv, TableIsFile
  <2> QED BY <1>1, <2>1, <2>2
<1>4. ASSUME NEW i \in DOMAIN dbc', LastHeader(i)', NEW m, m = messages'[dbc'[i].id]
      PROVE  Describes(m, i)'
  <2>1. i \in 1..n /\ Header(i)
    BY <1>1, <1>2, <1>4 DEF LastHeader
  <2>2. LastHeader(i)
    <3>1. \A j \in (i + 1)..n : j \in (i + 1)..(n + 1) /\ j \in 1..n
      BY <1>1, <2>1
    <3> QED BY <1>1, <1>4, <2>1, <3>1 DEF LastHeader
  <2>3. Describes(messages[dbc[i].id], i)
    BY <1>1, <2>1, <2>2, TableByMessage DEF ParserInv
  <2>4. ASSUME NEW j, j = n + 1 PROVE ~Follows(j, i)'
    <3>1. Follows(j, i)' => Open(i) /\ l.kind = "SG_" /\ Accepted(l)
      BY <1>0, <1>1, <2>1, <2>4, FileGrows DEF Open
    <3>2. Open(i) => in_message
      BY <1>1, <2>1 DEF ParserInv, OpenIsCurrent
    <3> QED BY <3>1, <3>2
  <2>5. m = messages[dbc[i].id]
    BY <1>1, <1>4, <2>1
  <2> QED BY <1>0, <2>1, <2>3, <2>4, <2>5, DescribesKept
<1> QED BY <1>3, <1>4, TableFromMessages

(***************************************************************************)
(* A header makes a message without signals, in the place of one with the  *)
(* same identifier.                                                        *)
(***************************************************************************)
LEMMA TableNewMessage ==
  ASSUME ParserInv, NEW l \in DbcLines, dbc' = Append(dbc, l),
         l.kind = "BO_", Accepted(l),
         messages' = Put(messages, l.id, parse_message_line(l))
  PROVE  TableIsFile'
<1> DEFINE n == Len(dbc)
<1>0. dbc \in Seq(DbcLines)
  BY DEF ParserInv, StartTypes
<1>1. /\ n \in Nat /\ DOMAIN dbc = 1..n /\ DOMAIN dbc' = 1..(n + 1) /\ Len(dbc') = n + 1
      /\ dbc'[n + 1] = l
      /\ \A i \in 1..n : dbc'[i] = dbc[i]
      /\ \A i \in 1..n : Header(i)' <=> Header(i)
      /\ \A m : m = n + 1 => Header(m)'
  BY <1>0, FileGrows
<1>2. \A j : j \in 1..(n + 1) <=> j \in 1..n \/ j = n + 1
  BY <1>1
<1>p. /\ DOMAIN messages' = DOMAIN messages \cup {l.id}
      /\ messages'[l.id] = parse_message_line(l)
      /\ \A id \in DOMAIN messages : id # l.id => messages'[id] = messages[id]
  BY DEF Put
<1>3. DOMAIN messages' = {dbc'[i].id : i \in {j \in DOMAIN dbc' : Header(j)'}}
  <2>1. {j \in DOMAIN dbc' : Header(j)'} = {j \in DOMAIN dbc : Header(j)} \cup {n + 1}
    BY <1>1, <1>2
  <2>2. DOMAIN messages = {dbc[i].id : i \in {j \in DOMAIN dbc : Header(j)}}
    BY DEF ParserInv, TableIsFile
  <2>3. \A i \in {j \in DOMAIN dbc : Header(j)} : dbc'[i] = dbc[i]
    BY <1>1
  <2> HIDE DEF n
  <2> QED BY <1>1, <1>p, <2>1, <2>2, <2>3
<1>4. ASSUME NEW i \in DOMAIN dbc', LastHeader(i)', NEW m, m = messages'[dbc'[i].id]
      PROVE  Describes(m, i)'
  <2>1. CASE i = n + 1
    <3>1. m.length = uint8(l.length) /\ m.signals = <<>>
      BY <1>1, <1>4, <1>p, <2>1 DEF parse_message_line
    <3>2. PICK k : k = n
      OBVIOUS
    <3>3. Describes(m, k + 1)'
      BY <1>0, <3>1, <3>2, DescribesNew
    <3> QED BY <2>1, <3>2, <3>3
  <2>2. CASE i \in 1..n
    <3>1. Header(i) /\ n + 1 \in (i + 1)..(n + 1)
      BY <1>1, <1>4, <2>2 DEF LastHeader
    <3>2. LastHeader(i)
      <4>1. \A j \in (i + 1)..n : j \in (i + 1)..(n + 1) /\ j \in 1..n
        BY <1>1, <2>2
      <4> QED BY <1>1, <1>4, <2>2, <3>1, <4>1 DEF LastHeader
    <3>3. dbc[i].id # l.id
      BY <1>1, <1>4, <2>2, <3>1 DEF LastHeader
    <3>4. dbc[i].id \in DOMAIN messages
      BY <1>1, <2>2, <3>1 DEF ParserInv, TableIsFile
    <3>5. m = messages[dbc[i].id]
      BY <1>1, <1>4, <1>p, <2>2, <3>3, <3>4
    <3>6. Describes(m, i)
      BY <1>1, <2>2, <3>2, <3>5, TableByMessage DEF ParserInv
    <3>7. ASSUME NEW j, j = n + 1 PROVE ~Follows(j, i)'
      BY <1>0, <2>2, <3>7, FileGrows
    <3> QED BY <1>0, <2>2, <3>6, <3>7, DescribesKept
  <2> QED BY <1>1, <1>2, <2>1, <2>2
<1> QED BY <1>3, <1>4, TableFromMessages

(***************************************************************************)
(* A signal line joins the message whose header is open, and no other.     *)
(***************************************************************************)
LEMMA TableNewSignal ==
  ASSUME ParserInv, NEW l \in DbcLines, dbc' = Append(dbc, l),
         l.kind = "SG_", Accepted(l), in_message,
         messages' = [messages EXCEPT ![current_id].signals = Append(@, parse_signal_line(l))]
  PROVE  TableIsFile'
<1> DEFINE n == Len(dbc)
<1>0. dbc \in Seq(DbcLines) /\ current_id \in DOMAIN messages
  BY DEF ParserInv, StartTypes
<1>1. /\ n \in Nat /\ DOMAIN dbc = 1..n /\ DOMAIN dbc' = 1..(n + 1) /\ Len(dbc') = n + 1
      /\ \A i \in 1..n : dbc'[i] = dbc[i]
      /\ \A i \in 1..n : Header(i)' <=> Header(i)
      /\ \A m : m = n + 1 => ~Header(m)'
  BY <1>0, FileGrows, ZenonT(60)
<1>2. \A j : j \in 1..(n + 1) <=> j \in 1..n \/ j = n + 1
  BY <1>1
<1>p. /\ DOMAIN messages' = DOMAIN messages
      /\ \A id \in DOMAIN messages : id # current_id => messages'[id] = messages[id]
      /\ messages[current_id] \in MsgDefs
      /\ messages'[current_id].length = messages[current_id].length
      /\ messages'[current_id].signals = Append(messages[current_id].signals, SigOf(l, n + 1))
  <2>1. messages[current_id] \in MsgDefs
    BY <1>0 DEF ParserInv, TablesTyped
  <2>2. parse_signal_line(l) = SigOf(l, n + 1)
    BY DEF parse_signal_line, SigOf
  <2> QED BY <1>0, <2>1, <2>2 DEF MsgDefs
<1>3. DOMAIN messages' = {dbc'[i].id : i \in {j \in DOMAIN dbc' : Header(j)'}}
  <2>1. {j \in DOMAIN dbc' : Header(j)'} = {j \in DOMAIN dbc : Header(j)}
    BY <1>1, <1>2
  <2>2. DOMAIN messages = {dbc[i].id : i \in {j \in DOMAIN dbc : Header(j)}}
    BY DEF ParserInv, TableIsFile
  <2> QED BY <1>1, <1>p, <2>1, <2>2
<1>4. ASSUME NEW i \in DOMAIN dbc', LastHeader(i)', NEW m, m = messages'[dbc'[i].id]
      PROVE  Describes(m, i)'
  <2>1. i \in 1..n /\ Header(i)
    BY <1>1, <1>2, <1>4 DEF LastHeader
  <2>2. LastHeader(i)
    <3>1. \A j \in (i + 1)..n : j \in (i + 1)..(n + 1) /\ j \in 1..n
      BY <1>1, <2>1
    <3> QED BY <1>1, <1>4, <2>1, <3>1 DEF LastHeader
  <2>3. Describes(messages[dbc[i].id], i)
    BY <1>1, <2>1, <2>2, TableByMessage DEF ParserInv
  <2>4. dbc[i].id \in DOMAIN messages
    BY <1>1, <2>1 DEF ParserInv, TableIsFile
  <2>5. CASE dbc[i].id # current_id
    <3>1. ASSUME NEW j, j = n + 1 PROVE ~Follows(j, i)'
      <4>1. Follows(j, i)' => Open(i)
        BY <1>0, <2>1, <3>1, FileGrows DEF Open
      <4>2. ~Open(i)
        BY <1>1, <2>1, <2>5 DEF ParserInv, OpenIsCurrent
      <4> QED BY <4>1, <4>2
    <3>2. m = messages[dbc[i].id]
      BY <1>1, <1>4, <1>p, <2>1, <2>4, <2>5
    <3> QED BY <1>0, <2>1, <2>3, <3>1, <3>2, DescribesKept
  <2>6. CASE dbc[i].id = current_id
    <3>1. PICK o \in 1..n : Open(o)
      BY <1>1 DEF ParserInv, OpenIsCurrent
    <3>2. dbc[o].id = current_id /\ Header(o)
      BY <1>1, <3>1 DEF ParserInv, OpenIsCurrent, Open
    <3>3. i = o
      <4>1. ~(i < o)
        BY <1>1, <2>1, <2>2, <2>6, <3>2 DEF LastHeader
      <4>2. ~(o < i)
        BY <1>1, <2>1, <3>1 DEF Open
      <4> QED BY <1>1, <2>1, <4>1, <4>2
    <3>4. ASSUME NEW j, j = n + 1 PROVE Follows(j, i)'
      BY <1>0, <2>1, <3>1, <3>3, <3>4, FileGrows DEF Open
    <3>5. /\ Describes(messages[current_id], i)
          /\ m.length = messages[current_id].length
          /\ m.signals = Append(messages[current_id].signals, SigOf(l, n + 1))
      BY <1>1, <1>4, <1>p, <2>1, <2>3, <2>6
    <3> QED BY <1>0, <1>p, <2>1, <3>4, <3>5, DescribesGrown
  <2> QED BY <2>5, <2>6
<1> QED BY <1>3, <1>4, TableFromMessages

-----------------------------------------------------------------------------
(***************************************************************************)
(* Every line of vehicle.dbc keeps the parser's invariant.                 *)
(***************************************************************************)
LEMMA DbcLineOpen ==
  ASSUME ParserInv, NEW l \in DbcLines, DbcLine(l)
  PROVE  OpenIsCurrent'
<1> DEFINE n == Len(dbc)
<1>0. dbc \in Seq(DbcLines) /\ dbc' = Append(dbc, l)
  BY DEF ParserInv, StartTypes, DbcLine
<1>1. /\ n \in Nat /\ DOMAIN dbc = 1..n /\ DOMAIN dbc' = 1..(n + 1) /\ dbc'[n + 1] = l
      /\ \A i \in 1..n : dbc'[i] = dbc[i]
      /\ \A j : j \in 1..(n + 1) <=> j \in 1..n \/ j = n + 1
  BY <1>0, FileGrows
<1>2. \A i \in 1..n :
        Open(i)' <=> Open(i) /\ l.kind # "blank" /\ ~(l.kind = "BO_" /\ Accepted(l))
  BY <1>0, OpenGrows
<1>3. \A i : i = n + 1 => (Open(i)' <=> l.kind = "BO_" /\ Accepted(l))
  BY <1>0, OpenGrows
<1>4. OpenIsCurrent
  BY DEF ParserInv
<1>5. CASE l.kind = "blank"
  <2>1. ~in_message'
    BY <1>5 DEF DbcLine, BlankLine
  <2> QED BY <1>1, <1>2, <1>3, <1>5, <2>1 DEF OpenIsCurrent
<1>6. CASE l.kind = "BO_" /\ Accepted(l)
  <2>1. in_message' /\ current_id' = l.id
    BY <1>6 DEF DbcLine, MessageLine
  <2> QED BY <1>1, <1>2, <1>3, <1>6, <2>1 DEF OpenIsCurrent
<1>7. CASE l.kind # "blank" /\ ~(l.kind = "BO_" /\ Accepted(l))
  <2>1. in_message' = in_message /\ current_id' = current_id
    BY <1>7 DEF DbcLine, MessageLine, SignalLine
  <2> QED BY <1>1, <1>2, <1>3, <1>4, <1>7, <2>1 DEF OpenIsCurrent
<1> QED BY <1>5, <1>6, <1>7

LEMMA DbcLineTable ==
  ASSUME ParserInv, NEW l \in DbcLines, DbcLine(l)
  PROVE  TableIsFile'
<1>1. dbc' = Append(dbc, l)
  BY DEF DbcLine
<1>2. CASE l.kind = "BO_" /\ Accepted(l)
  <2>1. messages' = Put(messages, l.id, parse_message_line(l))
    BY <1>2 DEF DbcLine, MessageLine
  <2> QED BY <1>1, <1>2, <2>1, TableNewMessage
<1>3. CASE l.kind = "SG_" /\ Accepted(l) /\ in_message
  <2>1. messages' = [messages EXCEPT ![current_id].signals = Append(@, parse_signal_line(l))]
    BY <1>3 DEF DbcLine, SignalLine
  <2> QED BY <1>1, <1>3, <2>1, TableNewSignal
<1>4. CASE /\ ~(l.kind = "BO_" /\ Accepted(l))
           /\ ~(l.kind = "SG_" /\ Accepted(l) /\ in_message)
  <2>1. messages' = messages
    BY <1>4 DEF DbcLine, BlankLine, MessageLine, SignalLine
  <2> QED BY <1>1, <1>4, <2>1, TableKept
<1> QED BY <1>2, <1>3, <1>4

LEMMA DbcLineTypes ==
  ASSUME ParserInv, NEW l \in DbcLines, DbcLine(l)
  PROVE  StartTypes' /\ TablesTyped'
<1>0. /\ dbc' = Append(dbc, l) /\ dbc \in Seq(DbcLines)
      /\ UNCHANGED <<place, routes, registered, signal_map, conf>>
      /\ StartTypes /\ TablesTyped
  BY DEF ParserInv, StartTypes, DbcLine
<1>1. dbc' \in Seq(DbcLines)
  BY <1>0, LineAppended
<1>2. Len(dbc) + 1 \in Nat
  BY <1>0, LineAppended
<1>3. /\ DOMAIN messages' \subseteq Nat /\ current_id' \in Nat
      /\ in_message' \in BOOLEAN
      /\ in_message' => current_id' \in DOMAIN messages'
      /\ messages' = [id \in DOMAIN messages' |-> messages'[id]]
      /\ \A id \in DOMAIN messages' : messages'[id] \in MsgDefs
  <2>1. CASE l.kind = "BO_" /\ Accepted(l)
    <3>1. /\ current_id' = l.id /\ in_message' = TRUE
          /\ messages' = Put(messages, l.id, parse_message_line(l))
      BY <2>1 DEF DbcLine, MessageLine
    <3>2. l.id \in Nat
      BY <2>1, StartupAssumption
    <3>3. parse_message_line(l) \in MsgDefs
      <4>1. l \in LinesOf("BO_")
        BY <2>1 DEF LinesOf
      <4> QED BY <4>1, EmptySeq DEF parse_message_line, MsgDefs
    <3> QED BY <1>0, <3>1, <3>2, <3>3 DEF Put, StartTypes, TablesTyped
  <2>2. CASE l.kind = "SG_" /\ Accepted(l) /\ in_message
    <3>1. /\ current_id' = current_id /\ in_message' = in_message
          /\ messages' = [messages EXCEPT ![current_id].signals =
                            Append(@, parse_signal_line(l))]
      BY <2>2 DEF DbcLine, SignalLine
    <3>2. current_id \in DOMAIN messages /\ messages[current_id] \in MsgDefs
      BY <1>0, <2>2 DEF StartTypes, TablesTyped
    <3>3. parse_signal_line(l) \in SigDefs
      <4>1. l \in LinesOf("SG_")
        BY <2>2 DEF LinesOf
      <4> QED BY <1>2, <4>1 DEF parse_signal_line, SigDefs, SigOf
    <3>4. Append(messages[current_id].signals, parse_signal_line(l)) \in Seq(SigDefs)
      BY <3>2, <3>3, AppendProperties DEF MsgDefs
    <3>5. [messages[current_id] EXCEPT !.signals =
             Append(messages[current_id].signals, parse_signal_line(l))] \in MsgDefs
      BY <3>2, <3>4 DEF MsgDefs
    <3> QED BY <1>0, <3>1, <3>2, <3>5 DEF StartTypes, TablesTyped
  <2>3. CASE /\ ~(l.kind = "BO_" /\ Accepted(l))
             /\ ~(l.kind = "SG_" /\ Accepted(l) /\ in_message)
    <3>1. /\ messages' = messages /\ current_id' = current_id
          /\ in_message' = in_message \/ in_message' = FALSE
      BY <2>3 DEF DbcLine, BlankLine, MessageLine, SignalLine
    <3>2. in_message' \in BOOLEAN /\ (in_message' => in_message)
      <4>1. in_message \in BOOLEAN
        BY <1>0 DEF StartTypes
      <4>2. CASE in_message' = in_message
        BY Zenon, <4>1, <4>2
      <4>3. CASE in_message' = FALSE
        BY Zenon, <4>3
      <4> QED BY <3>1, <4>2, <4>3
    <3> QED BY <1>0, <3>1, <3>2 DEF StartTypes, TablesTyped
  <2> QED BY <2>1, <2>2, <2>3
<1> QED BY <1>0, <1>1, <1>3 DEF StartTypes, TablesTyped

(***************************************************************************)
(* The steps that read no line of vehicle.dbc leave the parser alone.      *)
(***************************************************************************)
LEMMA ParserUntouched ==
  ASSUME OpenIsCurrent, TableIsFile, UNCHANGED parser
  PROVE  OpenIsCurrent' /\ TableIsFile'
<1>1. dbc' = dbc /\ messages' = messages /\ in_message' = in_message /\ current_id' = current_id
  BY DEF parser
<1>2. OpenIsCurrent'
  BY <1>1 DEF OpenIsCurrent, Open, Header
<1>3. TableIsFile'
  <2>1. \A i : Header(i)' <=> Header(i)
    BY <1>1 DEF Header
  <2>2. \A i : LastHeader(i)' <=> LastHeader(i)
    BY <1>1, <2>1 DEF LastHeader
  <2>3. \A i, j : Follows(j, i)' <=> Follows(j, i)
    BY <1>1, <2>1 DEF Follows
  <2>4. \A m, i : Describes(m, i) => Describes(m, i)'
    BY <1>1, <2>3 DEF Describes
  <2> QED BY <1>1, <2>1, <2>2, <2>4, TableByMessage, TableFromMessages
<1> QED BY <1>2, <1>3

LEMMA ParserInitInv == StartInit => ParserInv
<1> SUFFICES ASSUME StartInit PROVE ParserInv
  OBVIOUS
<1>1. /\ conf \in Seq(ConfLines) /\ dbc \in Seq(DbcLines) /\ routes \in Seq(RouteDefs)
      /\ Len(routes) = 0 /\ DOMAIN dbc = {} /\ DOMAIN messages = {}
  BY EmptySeq DEF StartInit
<1>2. in_message \in BOOLEAN /\ ~in_message
  BY Zenon DEF StartInit
<1>3. StartTypes /\ TablesTyped
  BY <1>1, <1>2 DEF StartInit, StartTypes, TablesTyped
<1>4. OpenIsCurrent
  BY <1>1, <1>2 DEF OpenIsCurrent
<1>5. TableIsFile
  BY <1>1 DEF TableIsFile
<1> QED BY <1>3, <1>4, <1>5 DEF ParserInv

LEMMA ParserNextInv == ParserInv /\ [StartNext]_startVars => ParserInv'
<1> SUFFICES ASSUME ParserInv, [StartNext]_startVars PROVE ParserInv'
  OBVIOUS
<1>0. StartTypes /\ TablesTyped /\ OpenIsCurrent /\ TableIsFile
  BY DEF ParserInv
<1>1. ASSUME NEW l \in DbcLines, DbcLine(l) PROVE ParserInv'
  BY <1>1, DbcLineOpen, DbcLineTable, DbcLineTypes DEF ParserInv
<1>2. ASSUME UNCHANGED parser,
             place' \in {"open_conf", "conf", "open_dbc", "dbc", "register", "ready", "fatal"},
             conf' \in Seq(ConfLines), routes' \in Seq(RouteDefs),
             registered' \in 0..Len(routes')
      PROVE  ParserInv'
  BY <1>0, <1>2, ParserUntouched DEF ParserInv, StartTypes, TablesTyped, parser
<1>3. ASSUME NEW l \in ConfLines, ConfLine(l) PROVE ParserInv'
  <2>1. conf' \in Seq(ConfLines)
    BY <1>0, <1>3, AppendProperties DEF ConfLine, StartTypes
  <2>2. Len(conf) + 1 \in Nat
    BY <1>0, LineAppended DEF StartTypes
  <2>3. l.kind = "route" => Route(l) \in RouteDefs
    BY <2>2 DEF Route, RouteDefs, RouteOf
  <2>4. routes' \in Seq(RouteDefs) /\ registered' \in 0..Len(routes')
    <3>1. routes \in Seq(RouteDefs) /\ registered \in 0..Len(routes) /\ registered' = registered
      BY <1>0, <1>3 DEF StartTypes, TablesTyped, ConfLine
    <3>2. CASE routes' = routes
      BY <3>1, <3>2
    <3>3. CASE l.kind = "route" /\ routes' = Append(routes, Route(l))
      <4>1. routes' \in Seq(RouteDefs) /\ Len(routes') = Len(routes) + 1 /\ Len(routes) \in Nat
        BY <2>3, <3>1, <3>3, LineAppended
      <4> QED BY <3>1, <4>1
    <3> QED BY <1>3, <3>2, <3>3 DEF ConfLine
  <2> QED BY <1>0, <1>2, <1>3, <2>1, <2>4 DEF ConfLine, StartTypes
<1>4. CASE OpenConf \/ EndConf \/ OpenDbc \/ EndDbc \/ Registered
  BY <1>0, <1>2, <1>4
     DEF OpenConf, EndConf, OpenDbc, EndDbc, Registered, StartTypes, TablesTyped
<1>5. CASE Register
  <2>1. registered' \in 0..Len(routes')
    <3>1. Len(routes) \in Nat
      BY <1>0, LenProperties DEF TablesTyped
    <3> QED BY <1>0, <1>5, <3>1 DEF Register, StartTypes
  <2> QED BY <1>0, <1>2, <1>5, <2>1 DEF Register, StartTypes, TablesTyped
<1>6. CASE UNCHANGED startVars
  BY <1>0, <1>2, <1>6 DEF startVars, StartTypes, TablesTyped
<1> QED BY <1>1, <1>3, <1>4, <1>5, <1>6 DEF StartNext

(***************************************************************************)
(* The casts: an entry of a table has the width of its member.             *)
(***************************************************************************)
LEMMA Uint8Fits == ASSUME NEW n \in Int PROVE uint8(n) \in UInt8
BY DEF uint8, UInt8

LEMMA Uint16Fits == ASSUME NEW n \in Nat PROVE uint16(n) \in UInt16
BY SMT DEF uint16, UInt16

LEMMA TablesCast == TablesTyped => CastsApplied
<1> SUFFICES ASSUME TablesTyped PROVE CastsApplied
  OBVIOUS
<1>1. ASSUME NEW id \in DOMAIN messages
      PROVE  /\ messages[id].length \in UInt8
             /\ \A n \in DOMAIN messages[id].signals :
                  /\ messages[id].signals[n].start_bit \in UInt8
                  /\ messages[id].signals[n].length \in UInt8
  <2>1. messages[id] \in MsgDefs
    BY DEF TablesTyped
  <2>2. PICK l \in LinesOf("BO_") : messages[id].length = uint8(l.length)
    BY <2>1 DEF MsgDefs
  <2>3. messages[id].length \in UInt8
    <3>1. l.length \in Int
      BY StartupAssumption DEF LinesOf
    <3> QED BY <2>2, <3>1, Uint8Fits
  <2>4. ASSUME NEW n \in DOMAIN messages[id].signals
        PROVE  /\ messages[id].signals[n].start_bit \in UInt8
               /\ messages[id].signals[n].length \in UInt8
    <3>1. messages[id].signals[n] \in SigDefs
      BY <2>1, ElementOfSeq, LenProperties DEF MsgDefs
    <3>2. PICK k \in LinesOf("SG_"), m \in Nat : messages[id].signals[n] = SigOf(k, m)
      BY <3>1 DEF SigDefs
    <3>3. k.start_bit \in Int /\ k.length \in Int
      BY StartupAssumption DEF LinesOf
    <3>4. uint8(k.start_bit) \in UInt8 /\ uint8(k.length) \in UInt8
      BY <3>3, Uint8Fits
    <3> QED BY <3>2, <3>4 DEF SigOf
  <2> QED BY <2>3, <2>4
<1>2. ASSUME NEW k \in DOMAIN routes
      PROVE  routes[k].service \in UInt16 /\ routes[k].method \in UInt16
  <2>1. routes[k] \in RouteDefs
    BY ElementOfSeq, LenProperties DEF TablesTyped
  <2>2. PICK l \in {c \in ConfLines : c.kind = "route"}, m \in Nat : routes[k] = RouteOf(l, m)
    BY <2>1 DEF RouteDefs
  <2>3. l.service \in Nat /\ l.method \in Nat
    BY StartupAssumption
  <2>4. uint16(l.service) \in UInt16 /\ uint16(l.method) \in UInt16
    BY <2>3, Uint16Fits
  <2> QED BY <2>2, <2>4 DEF RouteOf
<1> QED BY <1>1, <1>2 DEF CastsApplied

(***************************************************************************)
(* Type correctness of start-up, for files of any length and with any      *)
(* numbers in them: what the tables hold has the width of its member, and  *)
(* the current message of parse() is in the table whenever signals may be  *)
(* added to it.                                                            *)
(***************************************************************************)
THEOREM StartTypeCorrect == StartSpec => []StartTypeOK
<1>1. ParserInv => StartTypeOK
  BY TablesCast DEF ParserInv, StartTypeOK
<1> QED BY <1>1, ParserInitInv, ParserNextInv, PTL DEF StartSpec

(***************************************************************************)
(* For every vehicle.dbc the message table is what the file says (parse,   *)
(* parse_message_line, parse_signal_line).                                 *)
(***************************************************************************)
THEOREM TableFollowsFile == StartSpec => []TableIsFile
<1>1. ParserInv => TableIsFile
  BY DEF ParserInv
<1> QED BY <1>1, ParserInitInv, ParserNextInv, PTL DEF StartSpec

-----------------------------------------------------------------------------
(***************************************************************************)
(* The routes: they stand for the usable lines, in order; signal_map_ has  *)
(* the routes registered so far, the last one of each name; and main()     *)
(* goes on only with routes, and starts only with all of them registered.  *)
(***************************************************************************)
RoutesAreLines ==
  /\ \A k \in DOMAIN routes :
       LET i == routes[k].line IN
         i \in DOMAIN conf /\ conf[i].kind = "route" /\ routes[k] = RouteOf(conf[i], i)
  /\ \A i \in DOMAIN conf : conf[i].kind = "route" => \E k \in DOMAIN routes : routes[k].line = i
  /\ \A k, h \in DOMAIN routes : k < h => routes[k].line < routes[h].line

LastOfName(k) == \A h \in (k + 1)..registered : routes[h].name # routes[k].name
MapIsRoutes ==
  /\ DOMAIN signal_map = {routes[k].name : k \in 1..registered}
  /\ \A k \in 1..registered :
       LastOfName(k) => signal_map[routes[k].name] = <<routes[k].service, routes[k].method>>

RoutesFirst ==
  /\ place \in {"open_dbc", "dbc", "register", "ready"} => routes # <<>>
  /\ place = "ready" => registered = Len(routes)

RouteInv == ParserInv /\ RoutesAreLines /\ MapIsRoutes /\ RoutesFirst

LEMMA ConfLineRoutes ==
  ASSUME RouteInv, NEW l \in ConfLines, ConfLine(l)
  PROVE  RoutesAreLines' /\ MapIsRoutes'
<1> DEFINE n == Len(conf)
           r == Len(routes)
<1>0. /\ conf \in Seq(ConfLines) /\ conf' = Append(conf, l)
      /\ routes \in Seq(RouteDefs) /\ registered \in 0..Len(routes)
      /\ registered' = registered /\ signal_map' = signal_map
  BY DEF RouteInv, ParserInv, StartTypes, TablesTyped, ConfLine
<1>1. /\ n \in Nat /\ DOMAIN conf = 1..n /\ DOMAIN conf' = 1..(n + 1) /\ conf'[n + 1] = l
      /\ \A i \in 1..n : conf'[i] = conf[i]
      /\ \A j : j \in 1..(n + 1) <=> j \in 1..n \/ j = n + 1
  BY <1>0, LineAppended
<1>2. r \in Nat /\ DOMAIN routes = 1..r
  BY <1>0, LenProperties
<1>3. RoutesAreLines /\ MapIsRoutes
  BY DEF RouteInv
<1>4. \A k \in 1..r : routes[k].line \in 1..n
  BY <1>1, <1>2, <1>3 DEF RoutesAreLines
<1>5. CASE l.kind # "route"
  <2>1. routes' = routes
    BY <1>5 DEF ConfLine
  <2>2. RoutesAreLines'
    BY <1>1, <1>2, <1>3, <1>4, <1>5, <2>1 DEF RoutesAreLines
  <2>3. MapIsRoutes'
    BY <1>0, <1>3, <2>1 DEF MapIsRoutes, LastOfName
  <2> QED BY <2>2, <2>3
<1>6. CASE l.kind = "route"
  <2>1. routes' = Append(routes, RouteOf(l, n + 1))
    BY <1>6 DEF ConfLine, Route, RouteOf
  <2>2. /\ DOMAIN routes' = 1..(r + 1) /\ routes'[r + 1] = RouteOf(l, n + 1)
        /\ \A k \in 1..r : routes'[k] = routes[k]
        /\ \A k : k \in 1..(r + 1) <=> k \in 1..r \/ k = r + 1
    <3>1. RouteOf(l, n + 1) \in RouteDefs
      BY <1>1, <1>6 DEF RouteDefs
    <3>2. /\ DOMAIN routes' = 1..(r + 1) /\ routes'[r + 1] = RouteOf(l, n + 1)
          /\ \A k \in 1..r : routes'[k] = routes[k]
      BY <1>0, <2>1, <3>1, LineAppended
    <3> QED BY <1>2, <3>2
  <2>3. routes'[r + 1].line = n + 1
    BY <2>2 DEF RouteOf
  <2>4. \A k \in DOMAIN routes' :
          LET i == routes'[k].line IN
            i \in DOMAIN conf' /\ conf'[i].kind = "route" /\ routes'[k] = RouteOf(conf'[i], i)
    <3> SUFFICES ASSUME NEW k \in 1..(r + 1)
                 PROVE  LET i == routes'[k].line IN
                          /\ i \in 1..(n + 1) /\ conf'[i].kind = "route"
                          /\ routes'[k] = RouteOf(conf'[i], i)
      BY <1>1, <2>2
    <3>1. CASE k = r + 1
      BY <1>1, <1>6, <2>2, <2>3, <3>1
    <3>2. CASE k \in 1..r
      <4>1. routes'[k] = routes[k] /\ routes[k].line \in 1..n
        BY <1>4, <2>2, <3>2
      <4>2. conf'[routes[k].line] = conf[routes[k].line] /\ routes[k].line \in 1..(n + 1)
        BY <1>1, <4>1
      <4>3. /\ conf[routes[k].line].kind = "route"
            /\ routes[k] = RouteOf(conf[routes[k].line], routes[k].line)
        BY <1>2, <1>3, <3>2 DEF RoutesAreLines
      <4> QED BY Zenon, <4>1, <4>2, <4>3
    <3> QED BY <2>2, <3>1, <3>2
  <2>5. \A i \in DOMAIN conf' :
          conf'[i].kind = "route" => \E k \in DOMAIN routes' : routes'[k].line = i
    <3> SUFFICES ASSUME NEW i \in 1..(n + 1), conf'[i].kind = "route"
                 PROVE  \E k \in 1..(r + 1) : routes'[k].line = i
      BY <1>1, <2>2
    <3>1. CASE i = n + 1
      BY <2>2, <2>3, <3>1
    <3>2. CASE i \in 1..n
      <4>1. PICK k \in 1..r : routes[k].line = i
        BY <1>1, <1>2, <1>3, <3>2 DEF RoutesAreLines
      <4> QED BY <2>2, <4>1
    <3> QED BY <1>1, <3>1, <3>2
  <2>6. \A k, h \in DOMAIN routes' : k < h => routes'[k].line < routes'[h].line
    <3> SUFFICES ASSUME NEW k \in 1..(r + 1), NEW h \in 1..(r + 1), k < h
                 PROVE  routes'[k].line < routes'[h].line
      BY <2>2
    <3>1. k \in 1..r /\ routes'[k] = routes[k] /\ routes[k].line \in 1..n
      BY <1>2, <1>4, <2>2
    <3>2. CASE h = r + 1
      <4>1. routes[k].line < n + 1
        BY <1>1, <3>1
      <4> QED BY Zenon, <2>3, <3>1, <3>2, <4>1
    <3>3. CASE h \in 1..r
      <4>1. routes'[h] = routes[h] /\ routes[k].line < routes[h].line
        BY <1>2, <1>3, <2>2, <3>1, <3>3 DEF RoutesAreLines
      <4> QED BY Zenon, <3>1, <4>1
    <3> QED BY <2>2, <3>2, <3>3
  <2>7. RoutesAreLines'
    BY <2>4, <2>5, <2>6 DEF RoutesAreLines
  <2>8. MapIsRoutes'
    <3>1. \A k \in 1..registered : k \in 1..r /\ routes'[k] = routes[k]
      BY <1>0, <1>2, <2>2
    <3>2. \A k \in 1..registered : \A h \in (k + 1)..registered : h \in 1..registered
      BY <1>0, <1>2
    <3>3. \A k \in 1..registered : LastOfName(k)' <=> LastOfName(k)
      BY <1>0, <3>1, <3>2 DEF LastOfName
    <3> QED BY <1>0, <1>3, <3>1, <3>3 DEF MapIsRoutes
  <2> QED BY <2>7, <2>8
<1> QED BY <1>5, <1>6

LEMMA RegisterRoutes ==
  ASSUME RouteInv, Register
  PROVE  RoutesAreLines' /\ MapIsRoutes'
<1> DEFINE g == registered
           q == routes[g + 1]
<1>0. /\ routes' = routes /\ conf' = conf /\ registered' = g + 1
      /\ g \in 0..Len(routes) /\ g < Len(routes) /\ Len(routes) \in Nat
  BY LenProperties DEF RouteInv, ParserInv, StartTypes, TablesTyped, Register
<1>1. signal_map' = Put(signal_map, q.name, <<q.service, q.method>>)
  BY DEF Register, register_signal
<1>2. RoutesAreLines'
  BY <1>0 DEF RouteInv, RoutesAreLines
<1>3. \A k : k \in 1..(g + 1) <=> k \in 1..g \/ k = g + 1
  BY <1>0
<1>4. DOMAIN signal_map = {routes[k].name : k \in 1..g}
  BY DEF RouteInv, MapIsRoutes
<1>p. /\ DOMAIN signal_map' = DOMAIN signal_map \cup {q.name}
      /\ signal_map'[q.name] = <<q.service, q.method>>
      /\ \A x \in DOMAIN signal_map : x # q.name => signal_map'[x] = signal_map[x]
  BY <1>1 DEF Put
<1>5. DOMAIN signal_map' = {routes'[k].name : k \in 1..registered'}
  BY <1>0, <1>3, <1>4, <1>p
<1>6. ASSUME NEW k \in 1..(g + 1), LastOfName(k)'
      PROVE  signal_map'[routes[k].name] = <<routes[k].service, routes[k].method>>
  <2>1. CASE k = g + 1
    BY <1>p, <2>1
  <2>2. CASE k \in 1..g
    <3>1. g + 1 \in (k + 1)..(g + 1) /\ \A h \in (k + 1)..g : h \in (k + 1)..(g + 1)
      BY <1>0, <2>2
    <3>2. routes[k].name # q.name /\ LastOfName(k)
      BY <1>0, <1>6, <3>1 DEF LastOfName
    <3>3. signal_map[routes[k].name] = <<routes[k].service, routes[k].method>>
      BY <2>2, <3>2 DEF RouteInv, MapIsRoutes
    <3>4. routes[k].name \in DOMAIN signal_map
      BY <1>4, <2>2
    <3> QED BY Zenon, <1>p, <3>2, <3>3, <3>4
  <2> QED BY <1>3, <2>1, <2>2
<1>7. MapIsRoutes'
  BY <1>0, <1>5, <1>6 DEF MapIsRoutes
<1> QED BY <1>2, <1>7

LEMMA RouteInitInv == StartInit => RouteInv
<1> SUFFICES ASSUME StartInit PROVE RouteInv
  OBVIOUS
<1>1. ParserInv
  BY ParserInitInv
<1>2. DOMAIN routes = {} /\ DOMAIN conf = {} /\ 1..registered = {} /\ DOMAIN signal_map = {}
  BY DEF StartInit
<1>3. RoutesAreLines /\ MapIsRoutes
  BY <1>2 DEF RoutesAreLines, MapIsRoutes
<1>4. RoutesFirst
  BY DEF StartInit, RoutesFirst
<1> QED BY <1>1, <1>3, <1>4 DEF RouteInv

LEMMA RouteNextInv == RouteInv /\ [StartNext]_startVars => RouteInv'
<1> SUFFICES ASSUME RouteInv, [StartNext]_startVars PROVE RouteInv'
  OBVIOUS
<1>0. ParserInv' /\ RoutesAreLines /\ MapIsRoutes /\ RoutesFirst
  BY ParserNextInv DEF RouteInv
<1>1. ASSUME UNCHANGED <<routes, conf, registered, signal_map>>, RoutesFirst' PROVE RouteInv'
  <2>1. RoutesAreLines' /\ MapIsRoutes'
    BY <1>0, <1>1 DEF RoutesAreLines, MapIsRoutes, LastOfName
  <2> QED BY <1>0, <1>1, <2>1 DEF RouteInv
<1>2. ASSUME NEW l \in ConfLines, ConfLine(l) PROVE RouteInv'
  <2>1. RoutesFirst'
    BY <1>2 DEF ConfLine, RoutesFirst
  <2> QED BY <1>0, <1>2, <2>1, ConfLineRoutes DEF RouteInv
<1>3. CASE Register
  <2>1. RoutesFirst'
    BY <1>0, <1>3 DEF Register, RoutesFirst
  <2> QED BY <1>0, <1>3, <2>1, RegisterRoutes DEF RouteInv
<1>4. CASE OpenConf \/ EndConf \/ OpenDbc \/ EndDbc \/ Registered
  <2>1. RoutesFirst'
    BY <1>0, <1>4 DEF OpenConf, EndConf, OpenDbc, EndDbc, Registered, RoutesFirst
  <2> QED BY <1>1, <1>4, <2>1 DEF OpenConf, EndConf, OpenDbc, EndDbc, Registered
<1>5. ASSUME NEW l \in DbcLines, DbcLine(l) PROVE RouteInv'
  <2>1. RoutesFirst'
    BY <1>0, <1>5 DEF DbcLine, RoutesFirst
  <2> QED BY <1>1, <1>5, <2>1 DEF DbcLine
<1>6. CASE UNCHANGED startVars
  <2>1. RoutesFirst'
    BY <1>0, <1>6 DEF startVars, RoutesFirst
  <2> QED BY <1>1, <1>6, <2>1 DEF startVars
<1> QED BY <1>2, <1>3, <1>4, <1>5, <1>6 DEF StartNext

(***************************************************************************)
(* All routes registered in order means the last usable line of each name. *)
(***************************************************************************)
LEMMA RoutesRegistered == RouteInv => RoutesAreFile
<1> SUFFICES ASSUME RouteInv, place = "ready" PROVE RoutesAreFile
  BY DEF RoutesAreFile
<1> DEFINE usable == {i \in DOMAIN conf : conf[i].kind = "route"}
<1>0. /\ routes \in Seq(RouteDefs) /\ routes # <<>> /\ registered = Len(routes)
      /\ RoutesAreLines /\ MapIsRoutes
  BY DEF RouteInv, RoutesFirst, ParserInv, TablesTyped
<1>1. DOMAIN routes = 1..registered /\ registered \in Nat /\ registered # 0
  BY <1>0, LenProperties, EmptySeq
<1>2. \A k \in 1..registered :
        /\ routes[k].line \in usable
        /\ routes[k].name = conf[routes[k].line].name
        /\ routes[k].service = uint16(conf[routes[k].line].service)
        /\ routes[k].method = uint16(conf[routes[k].line].method)
  <2> TAKE k \in 1..registered
  <2>1. /\ routes[k].line \in usable
        /\ routes[k] = RouteOf(conf[routes[k].line], routes[k].line)
    BY <1>0, <1>1 DEF RoutesAreLines
  <2>2. \A i : /\ RouteOf(conf[i], i).name = conf[i].name
               /\ RouteOf(conf[i], i).service = uint16(conf[i].service)
               /\ RouteOf(conf[i], i).method = uint16(conf[i].method)
    BY DEF RouteOf
  <2> QED BY Zenon, <2>1, <2>2
<1>3. \A i \in usable : \E k \in 1..registered : routes[k].line = i
  BY <1>0, <1>1 DEF RoutesAreLines
<1>4. usable # {}
  BY <1>1, <1>2
<1>5. DOMAIN signal_map = {conf[i].name : i \in usable}
  BY <1>0, <1>2, <1>3 DEF MapIsRoutes
<1>6. ASSUME NEW i \in usable, \A j \in usable : j > i => conf[j].name # conf[i].name
      PROVE  signal_map[conf[i].name] = <<uint16(conf[i].service), uint16(conf[i].method)>>
  <2>1. PICK k \in 1..registered : routes[k].line = i
    BY <1>3
  <2>2. LastOfName(k)
    <3> SUFFICES ASSUME NEW h \in (k + 1)..registered PROVE routes[h].name # routes[k].name
      BY DEF LastOfName
    <3>1. h \in 1..registered /\ k < h
      BY <1>1
    <3>2. routes[k].line < routes[h].line
      BY <1>0, <1>1, <3>1 DEF RoutesAreLines
    <3>3. routes[h].line \in usable /\ routes[h].line > i
      BY <1>2, <2>1, <3>1, <3>2
    <3> QED BY <1>2, <1>6, <2>1, <3>1, <3>3
  <2>3. signal_map[routes[k].name] = <<routes[k].service, routes[k].method>>
    BY <1>0, <2>2 DEF MapIsRoutes
  <2> QED BY <1>2, <2>1, <2>3
<1> QED BY <1>4, <1>5, <1>6 DEF RoutesAreFile

(***************************************************************************)
(* For every gateway.conf, when main() goes on to the event loop a signal  *)
(* is routed as the last usable line that names it says, and at least one  *)
(* is routed (load, register_signal).                                      *)
(***************************************************************************)
THEOREM RoutesFollowFile == StartSpec => []RoutesAreFile
BY RoutesRegistered, RouteInitInv, RouteNextInv, PTL DEF StartSpec
=============================================================================
