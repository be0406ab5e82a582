-------------------------- MODULE DoIpServerProofs --------------------------
(***************************************************************************)
(* Proofs that the safety properties of DoIpServer hold for any number of  *)
(* testers and descriptors, any messages, any buffer size and any cutting  *)
(* of the byte streams, that its callbacks stay within EventLoop, and that *)
(* it gives every tester the service of DoIpSession, the UDS responses     *)
(* included.                                                               *)
(***************************************************************************)
EXTENDS DoIpServer, FiniteSetTheorems, SequenceTheorems, TLAPS

(***************************************************************************)
(* What is proved of the event loop is used here through this instance.    *)
(***************************************************************************)
LP == INSTANCE EventLoopProofs WITH StaticFds <- {ListenFd}, ready <- Ready, err <- {}

-----------------------------------------------------------------------------
(***************************************************************************)
(* Types, more precise than TypeOK where the proofs need it.               *)
(***************************************************************************)
Conns == open \ {ListenFd}
Streams == Seq([msg : Msgs, at : Nat])
Tcp == [phase : {"new", "backlog", "accepted", "closed"}, peer : {"up", "fin", "rst", "dead"},
        stream : Streams, arr : Nat, read : Nat]
Connection == [activated : BOOLEAN, tester_addr : Nat, recv_buf : Seq(Nat)]

ServerTypes ==
  /\ tcp \in [Clients -> Tcp]
  /\ backlog \in Seq(Clients)
  /\ sock \in [Fds -> Clients \cup {NoClient}]
  /\ connections \in [Conns -> Connection]
  /\ seen \in [Clients -> Seq(Msgs)]
  /\ step \in {"none", "enter", "parse", "respond", "done"}

(***************************************************************************)
(* Where the callback is.  A descriptor that epoll_wait reported is ready  *)
(* until its own callback runs: nobody else reads it, accepts from it or   *)
(* closes it.                                                              *)
(***************************************************************************)
StepOK ==
  /\ step = "none" <=> pc \notin {"callback", "fatal", "killed"}
  /\ step = "enter" => pc = "callback" /\ cur \in Ready
  /\ step \in {"parse", "respond"} => cur \in Conns /\ pc # "fatal"
  /\ \A e \in batch : e.fd \in Ready

(***************************************************************************)
(* Who is connected where, and who waits in the backlog.                   *)
(***************************************************************************)
KernelOK ==
  /\ \A fd \in Fds : sock[fd] # NoClient <=> fd \in Conns
  /\ \A f, g \in Conns : sock[f] = sock[g] => f = g
  /\ \A c \in Clients : tcp[c].phase = "accepted" <=> \E fd \in Conns : sock[fd] = c
  /\ \A i \in DOMAIN backlog : tcp[backlog[i]].phase = "backlog"
  /\ \A i, j \in DOMAIN backlog : backlog[i] = backlog[j] => i = j

(***************************************************************************)
(* Each accepted connection is one tester's, so a number is not opened     *)
(* more often than there are testers.                                      *)
(***************************************************************************)
Taken == {c \in Clients : tcp[c].phase \in {"accepted", "closed"}}
GenOK == \A fd \in Fds \ {ListenFd} : gen[fd] <= Cardinality(Taken)

(***************************************************************************)
(* A stream is its messages back to back.  At(s, k) is where the first k   *)
(* of them end.                                                            *)
(***************************************************************************)
At(s, k) == IF k = 0 THEN 0 ELSE s[k].at + Total(s[k].msg)

Chained(s) ==
  /\ \A i \in 1..Len(s) : s[i].at = At(s, i - 1)
  /\ \A i, j \in 0..Len(s) : i <= j => At(s, i) <= At(s, j)

StreamOK(conn, handled) ==
  /\ Chained(conn.stream)
  /\ conn.read <= conn.arr /\ conn.arr <= At(conn.stream, Len(conn.stream))
  /\ conn.phase \in {"new", "backlog"} => conn.read = 0 /\ handled = <<>>
  /\ Len(handled) <= Len(conn.stream)
  /\ \A i \in 1..Len(handled) : handled[i] = conn.stream[i].msg

StreamsOK == \A c \in Clients : StreamOK(tcp[c], seen[c])

(***************************************************************************)
(* The buffer of a connection holds the bytes read after the messages it   *)
(* is done with.  Between callbacks the next message is not complete; in   *)
(* the middle of a diagnostic message it is.                               *)
(***************************************************************************)
Bytes(from, to) == [i \in 1..(to - from) |-> from + i - 1]

Buffered(conn, k, buf) ==
  /\ k \in 0..Len(conn.stream)
  /\ At(conn.stream, k) <= conn.read /\ conn.read - At(conn.stream, k) <= RECV_BUF
  /\ buf = Bytes(At(conn.stream, k), conn.read)

NextPartial(conn, k) == k < Len(conn.stream) => conn.read < At(conn.stream, k + 1)
NextWhole(conn, k) == k < Len(conn.stream) /\ At(conn.stream, k + 1) <= conn.read

Parsing(fd) == step \in {"parse", "respond"} /\ cur = fd
InHand(fd) == IF step = "respond" /\ cur = fd THEN 1 ELSE 0
Done(fd) == Len(seen[sock[fd]]) - InHand(fd)

BufferOK(fd) ==
  /\ Buffered(tcp[sock[fd]], Done(fd), connections[fd].recv_buf)
  /\ ~Parsing(fd) => NextPartial(tcp[sock[fd]], Done(fd))
  /\ InHand(fd) = 1 => NextWhole(tcp[sock[fd]], Done(fd))

BuffersOK == \A fd \in Conns : BufferOK(fd)

ServerInv == ServerTypes /\ StepOK /\ KernelOK /\ GenOK /\ StreamsOK /\ BuffersOK /\ ClosedOnlyWhenDone

IInv == LP!IInv /\ ServerInv

-----------------------------------------------------------------------------
(***************************************************************************)
(* Streams and buffers.                                                    *)
(***************************************************************************)
LEMMA MinOfTwo ==
  ASSUME NEW a \in Int, NEW b \in Int
  PROVE  Min({a, b}) = IF a <= b THEN a ELSE b
<1> DEFINE m == IF a <= b THEN a ELSE b
<1>1. m \in {a, b} /\ \A y \in {a, b} : m <= y
  OBVIOUS
<1>2. \A x \in {a, b} : (\A y \in {a, b} : x <= y) => x = m
  OBVIOUS
<1> QED BY <1>1, <1>2, Zenon DEF Min

LEMMA TotalType == \A m \in Msgs : Total(m) \in Nat \ {0}
BY ServerAssumption, HeaderAssumption DEF Total

LEMMA AtType ==
  ASSUME NEW s \in Streams, NEW k \in 0..Len(s)
  PROVE  At(s, k) \in Nat
<1>1. CASE k = 0
  BY <1>1 DEF At
<1>2. CASE k # 0
  <2>1. k \in 1..Len(s)
    BY <1>2 DEF Streams
  <2>2. s[k] \in [msg : Msgs, at : Nat]
    BY <2>1, ElementOfSeq DEF Streams
  <2> QED BY <1>2, <2>2, TotalType DEF At
<1> QED BY <1>1, <1>2

LEMMA EndIsAt ==
  ASSUME NEW s \in Streams
  PROVE  StreamEnd(s) = At(s, Len(s))
BY DEF StreamEnd, At, Streams

LEMMA PrefixEnd ==
  ASSUME NEW s \in Streams, NEW k \in 0..Len(s)
  PROVE  StreamEnd(SubSeq(s, 1, k)) = At(s, k)
BY DEF StreamEnd, At, Streams

(***************************************************************************)
(* A message sent goes to the end of the stream.                           *)
(***************************************************************************)
LEMMA StreamGrows ==
  ASSUME NEW s \in Streams, Chained(s), NEW m \in Msgs
  PROVE  LET t == Append(s, [msg |-> m, at |-> StreamEnd(s)])
         IN /\ t \in Streams /\ Chained(t) /\ Len(t) = Len(s) + 1
            /\ \A k \in 0..Len(s) : At(t, k) = At(s, k)
            /\ \A k \in 1..Len(s) : t[k] = s[k]
            /\ At(t, Len(t)) >= At(s, Len(s))
            /\ At(t, Len(t)) > At(s, Len(s))
<1> DEFINE e == [msg |-> m, at |-> StreamEnd(s)]
           t == Append(s, e)
<1>1. e \in [msg : Msgs, at : Nat] /\ e.at = At(s, Len(s)) /\ e.msg = m
  <2>1. Len(s) \in 0..Len(s)
    BY DEF Streams
  <2> QED BY <2>1, EndIsAt, AtType
<1>2. /\ t \in Streams /\ Len(t) = Len(s) + 1 /\ t[Len(t)] = e
      /\ \A k \in 1..Len(s) : t[k] = s[k]
  BY <1>1 DEF Streams
<1>3. \A k \in 0..Len(s) : At(t, k) = At(s, k)
  BY <1>2 DEF At, Streams
<1> HIDE DEF e, t
<1>6. Len(s) \in Nat /\ \A k \in 0..Len(s) : At(s, k) \in Nat
  <2>1. Len(s) \in Nat
    BY DEF Streams
  <2> QED BY <2>1, AtType
<1>4. At(t, Len(t)) = At(s, Len(s)) + Total(m)
  <2>1. Len(t) # 0
    BY <1>2, <1>6
  <2> QED BY <1>1, <1>2, <2>1 DEF At
<1>5. At(t, Len(t)) > At(s, Len(s))
  BY <1>4, <1>6, TotalType
<1>7. Chained(t)
  <2>1. ASSUME NEW i \in 1..Len(t) PROVE t[i].at = At(t, i - 1)
    <3>1. CASE i = Len(t)
      BY <3>1, <1>1, <1>2, <1>3, <1>6
    <3>2. CASE i # Len(t)
      <4>1. i \in 1..Len(s) /\ i - 1 \in 0..Len(s)
        BY <3>2, <1>2, <1>6
      <4> QED BY <4>1, <1>2, <1>3 DEF Chained
    <3> QED BY <3>1, <3>2
  <2>2. ASSUME NEW i \in 0..Len(t), NEW j \in 0..Len(t), i <= j PROVE At(t, i) <= At(t, j)
    <3>1. CASE j = Len(t) /\ i # j
      <4>1. i \in 0..Len(s) /\ Len(s) \in 0..Len(s) /\ i <= Len(s)
        BY <3>1, <2>2, <1>2, <1>6
      <4>2. At(s, i) <= At(s, Len(s))
        BY <4>1, Zenon DEF Chained
      <4>3. At(t, i) = At(s, i) /\ At(s, i) \in Nat /\ At(s, Len(s)) \in Nat
        BY <4>1, <1>3, <1>6, Zenon
      <4>4. At(t, j) = At(s, Len(s)) + Total(m)
        BY <3>1, <1>4
      <4> QED BY <4>2, <4>3, <4>4, TotalType
    <3>2. CASE j # Len(t)
      <4>1. i \in 0..Len(s) /\ j \in 0..Len(s)
        BY <3>2, <2>2, <1>2, <1>6
      <4>2. At(s, i) <= At(s, j)
        BY <4>1, <2>2, Zenon DEF Chained
      <4> QED BY <4>1, <4>2, <1>3
    <3>3. CASE i = j /\ j = Len(t)
      BY <3>3, <1>4, <1>6, TotalType, SMTT(20)
    <3> QED BY <3>1, <3>2, <3>3
  <2> QED BY <2>1, <2>2 DEF Chained
<1>8. At(t, Len(t)) >= At(s, Len(s))
  BY <1>4, <1>5, <1>6, TotalType
<1> QED BY <1>2, <1>3, <1>5, <1>7, <1>8 DEF t, e

(***************************************************************************)
(* recv() appends the next bytes; memmove drops the first ones.            *)
(***************************************************************************)
LEMMA BytesType ==
  ASSUME NEW a \in Nat, NEW b \in Nat, a <= b
  PROVE  /\ Bytes(a, b) \in Seq(Nat) /\ Len(Bytes(a, b)) = b - a
         /\ \A i \in 1..(b - a) : Bytes(a, b)[i] = a + i - 1
BY DEF Bytes

LEMMA BytesReceived ==
  ASSUME NEW a \in Nat, NEW b \in Nat, NEW n \in Nat, a <= b
  PROVE  Bytes(a, b) \o [i \in 1..n |-> b + i - 1] = Bytes(a, b + n)
<1> DEFINE tl == [i \in 1..n |-> b + i - 1]
<1>1. tl \in Seq(Nat) /\ Len(tl) = n /\ \A i \in 1..n : tl[i] = b + i - 1
  OBVIOUS
<1>2. /\ Bytes(a, b) \in Seq(Nat) /\ Len(Bytes(a, b)) = b - a
      /\ \A i \in 1..(b - a) : Bytes(a, b)[i] = a + i - 1
  BY BytesType
<1>3. /\ Bytes(a, b + n) \in Seq(Nat) /\ Len(Bytes(a, b + n)) = b + n - a
      /\ \A i \in 1..(b + n - a) : Bytes(a, b + n)[i] = a + i - 1
  <2>1. b + n \in Nat /\ a <= b + n
    OBVIOUS
  <2> QED BY <2>1, BytesType
<1> HIDE DEF tl
<1>7. /\ Bytes(a, b) \o tl \in Seq(Nat)
      /\ Len(Bytes(a, b) \o tl) = Len(Bytes(a, b)) + Len(tl)
      /\ \A i \in 1..(Len(Bytes(a, b)) + Len(tl)) : (Bytes(a, b) \o tl)[i] =
           IF i <= Len(Bytes(a, b)) THEN Bytes(a, b)[i] ELSE tl[i - Len(Bytes(a, b))]
  BY <1>1, <1>2, ConcatProperties, Zenon
<1>4. ASSUME NEW i \in 1..(b + n - a) PROVE (Bytes(a, b) \o tl)[i] = Bytes(a, b + n)[i]
  <2>1. (Bytes(a, b) \o tl)[i] = IF i <= b - a THEN Bytes(a, b)[i] ELSE tl[i - (b - a)]
    BY <1>1, <1>2, <1>7
  <2> QED BY <2>1, <1>1, <1>2, <1>3
<1>5. Bytes(a, b) \o tl \in Seq(Nat) /\ Len(Bytes(a, b) \o tl) = b + n - a
  BY <1>1, <1>2, <1>7
<1>6. Bytes(a, b) \o tl = Bytes(a, b + n)
  BY <1>3, <1>4, <1>5, SeqEqual
<1> QED BY <1>6 DEF tl

LEMMA BytesConsumed ==
  ASSUME NEW a \in Nat, NEW b \in Nat, NEW n \in Nat, a + n <= b
  PROVE  SubSeq(Bytes(a, b), n + 1, Len(Bytes(a, b))) = Bytes(a + n, b)
<1>1. /\ a <= b /\ Bytes(a, b) \in Seq(Nat) /\ Len(Bytes(a, b)) = b - a
      /\ \A i \in 1..(b - a) : Bytes(a, b)[i] = a + i - 1
  BY BytesType
<1>2. /\ Bytes(a + n, b) \in Seq(Nat) /\ Len(Bytes(a + n, b)) = b - a - n
      /\ \A i \in 1..(b - a - n) : Bytes(a + n, b)[i] = a + n + i - 1
  <2>1. a + n \in Nat /\ b - (a + n) = b - a - n
    OBVIOUS
  <2> QED BY <2>1, BytesType
<1> DEFINE q == SubSeq(Bytes(a, b), n + 1, b - a)
<1>3. q \in Seq(Nat) /\ Len(q) = b - a - n
  BY <1>1
<1>4. ASSUME NEW i \in 1..(b - a - n) PROVE q[i] = Bytes(a + n, b)[i]
  BY <1>1, <1>2
<1> HIDE DEF q
<1>5. q = Bytes(a + n, b)
  BY <1>2, <1>3, <1>4, SeqEqual
<1> QED BY <1>1, <1>5 DEF q

-----------------------------------------------------------------------------
(***************************************************************************)
(* The header at the front of the buffer is that of the first message the  *)
(* connection is not done with, and the loop's test tells whether all of   *)
(* that message has been read.                                             *)
(***************************************************************************)
LEMMA NextMessage ==
  ASSUME NEW s \in Streams, Chained(s), NEW k \in 0..Len(s), k < Len(s)
  PROVE  /\ s[k + 1] \in [msg : Msgs, at : Nat]
         /\ At(s, k) \in Nat /\ At(s, k + 1) \in Nat
         /\ s[k + 1].at = At(s, k)
         /\ At(s, k + 1) = At(s, k) + Total(s[k + 1].msg)
<1>1. Len(s) \in Nat
  BY DEF Streams
<1>2. k + 1 \in 1..Len(s) /\ k + 1 \in 0..Len(s) /\ k + 1 - 1 = k /\ k + 1 # 0
  BY <1>1
<1>3. s[k + 1] \in [msg : Msgs, at : Nat]
  BY <1>2, ElementOfSeq DEF Streams
<1>4. s[k + 1].at = At(s, k)
  <2>1. \A i \in 1..Len(s) : s[i].at = At(s, i - 1)
    BY DEF Chained
  <2> HIDE DEF At
  <2> QED BY <1>2, <2>1
<1>5. At(s, k + 1) = s[k + 1].at + Total(s[k + 1].msg)
  BY <1>2 DEF At
<1> QED BY <1>2, <1>3, <1>4, <1>5, AtType

LEMMA FrontIs ==
  ASSUME NEW s \in Streams, Chained(s), NEW k \in 0..Len(s), k < Len(s)
  PROVE  (CHOOSE i \in DOMAIN s : s[i].at <= At(s, k) /\ At(s, k) < s[i].at + Total(s[i].msg))
            = k + 1
<1> DEFINE P(i) == s[i].at <= At(s, k) /\ At(s, k) < s[i].at + Total(s[i].msg)
<1>1. Len(s) \in Nat /\ DOMAIN s = 1..Len(s)
  BY DEF Streams
<1>2. k + 1 \in DOMAIN s /\ P(k + 1)
  <2>1. k + 1 \in DOMAIN s
    BY <1>1
  <2> QED BY <2>1, NextMessage, TotalType
<1>3. ASSUME NEW i \in DOMAIN s, P(i) PROVE i = k + 1
  <2>1. i - 1 \in 0..Len(s) /\ i \in 0..Len(s) /\ i \in Nat /\ i # 0 /\ k + 1 \in 0..Len(s)
    BY <1>1
  <2>2. s[i].at = At(s, i - 1) /\ At(s, i) = s[i].at + Total(s[i].msg)
    BY <1>1, <2>1, Zenon DEF Chained, At
  <2>3. At(s, i - 1) \in Nat /\ At(s, i) \in Nat /\ At(s, k) \in Nat /\ At(s, k + 1) \in Nat
    BY <2>1, AtType
  <2>4. ~(i <= k)
    <3>1. i <= k => At(s, i) <= At(s, k)
      BY <2>1, Zenon DEF Chained
    <3> QED BY <3>1, <2>2, <2>3, <1>3
  <2>5. ~(k + 1 <= i - 1)
    <3>1. k + 1 <= i - 1 => At(s, k + 1) <= At(s, i - 1)
      BY <2>1, Zenon DEF Chained
    <3>2. At(s, k) < At(s, k + 1)
      BY <2>3, NextMessage, TotalType
    <3> QED BY <3>1, <3>2, <2>2, <2>3, <1>3
  <2> QED BY <2>1, <2>4, <2>5
<1> HIDE DEF P
<1>4. (CHOOSE i \in DOMAIN s : P(i)) = k + 1
  BY <1>2, <1>3, Zenon
<1> QED BY <1>4 DEF P

(***************************************************************************)
(* Buffered, said for the callback that is running.                        *)
(***************************************************************************)
LEMMA ParseTest ==
  ASSUME NEW conn \in Tcp, NEW k, NEW handled, StreamOK(conn, handled),
         NEW buf, Buffered(conn, k, buf),
         NEW front,
         front = conn.stream[CHOOSE i \in DOMAIN conn.stream :
                   /\ conn.stream[i].at <= buf[1]
                   /\ buf[1] < conn.stream[i].at + Total(conn.stream[i].msg)].msg
  PROVE  /\ NextWhole(conn, k) =>
              /\ front = conn.stream[k + 1].msg /\ front \in Msgs
              /\ Len(buf) >= DOIP_HEADER_SIZE /\ Len(buf) >= Total(front)
         /\ Len(buf) >= DOIP_HEADER_SIZE /\ Len(buf) >= Total(front) => NextWhole(conn, k)
<1> DEFINE s == conn.stream
           read == conn.read
<1>1. s \in Streams /\ read \in Nat /\ conn.arr \in Nat /\ Chained(s) /\ k \in 0..Len(s)
  BY DEF Tcp, StreamOK, Buffered
<1>2. Len(s) \in Nat /\ Len(s) \in 0..Len(s) /\ At(s, k) \in Nat /\ At(s, Len(s)) \in Nat
  <2>1. Len(s) \in Nat
    BY <1>1 DEF Streams
  <2>2. Len(s) \in 0..Len(s)
    BY <2>1
  <2> QED BY <1>1, <2>1, <2>2, AtType
<1>3. At(s, k) <= read /\ read <= At(s, Len(s)) /\ buf = Bytes(At(s, k), read)
  BY <1>1, <1>2 DEF StreamOK, Buffered
<1>4. Len(buf) = read - At(s, k) /\ (At(s, k) < read => buf[1] = At(s, k))
  <2>1. Len(Bytes(At(s, k), read)) = read - At(s, k)
    BY <1>1, <1>2, <1>3, BytesType
  <2>2. At(s, k) < read => Bytes(At(s, k), read)[1] = At(s, k)
    BY <1>1, <1>2 DEF Bytes
  <2> QED BY <1>3, <2>1, <2>2
<1>5. DOIP_HEADER_SIZE \in Nat \ {0}
  BY HeaderAssumption
<1> HIDE DEF s, read
<1>6. ASSUME At(s, k) < read
      PROVE  /\ k < Len(s) /\ front = s[k + 1].msg /\ front \in Msgs
             /\ At(s, k + 1) = At(s, k) + Total(front)
             /\ Total(front) \in Nat /\ Total(front) >= DOIP_HEADER_SIZE
  <2>1. k # Len(s)
    BY <1>6, <1>1, <1>2, <1>3
  <2>2. k < Len(s)
    BY <2>1, <1>1, <1>2
  <2>3. (CHOOSE i \in DOMAIN s : s[i].at <= At(s, k) /\ At(s, k) < s[i].at + Total(s[i].msg))
           = k + 1
    BY <2>2, <1>1, FrontIs
  <2>4. front = s[k + 1].msg
    BY <2>3, <1>4, <1>6 DEF s
  <2>5. s[k + 1] \in [msg : Msgs, at : Nat] /\ At(s, k + 1) = At(s, k) + Total(s[k + 1].msg)
    BY <2>2, <1>1, NextMessage
  <2>6. front \in Msgs /\ Total(front) \in Nat /\ Total(front) >= DOIP_HEADER_SIZE
    <3>1. front \in Msgs
      BY <2>4, <2>5
    <3> QED BY <3>1, <1>5, ServerAssumption DEF Total
  <2> QED BY <2>2, <2>4, <2>5, <2>6
<1>7. ASSUME NextWhole(conn, k)
      PROVE  /\ front = s[k + 1].msg /\ front \in Msgs
             /\ Len(buf) >= DOIP_HEADER_SIZE /\ Len(buf) >= Total(front)
  <2>1. k < Len(s) /\ At(s, k + 1) <= read
    BY <1>7 DEF NextWhole, s, read
  <2>2. At(s, k + 1) > At(s, k) /\ At(s, k + 1) \in Nat
    BY <2>1, <1>1, NextMessage, TotalType
  <2>3. At(s, k) < read
    BY <2>1, <2>2, <1>1, <1>2
  <2>4. /\ front = s[k + 1].msg /\ front \in Msgs
        /\ At(s, k + 1) = At(s, k) + Total(front)
        /\ Total(front) \in Nat /\ Total(front) >= DOIP_HEADER_SIZE
    BY <2>3, <1>6, Zenon
  <2>5. Len(buf) >= Total(front) /\ Len(buf) >= DOIP_HEADER_SIZE
    BY <2>1, <2>4, <1>1, <1>2, <1>4, <1>5
  <2> QED BY <2>4, <2>5, Zenon
<1>8. ASSUME Len(buf) >= DOIP_HEADER_SIZE, Len(buf) >= Total(front) PROVE NextWhole(conn, k)
  <2>1. At(s, k) < read
    BY <1>8, <1>1, <1>2, <1>4, <1>5
  <2>3. k < Len(s) /\ At(s, k + 1) = At(s, k) + Total(front) /\ Total(front) \in Nat
    BY <2>1, <1>6, Zenon
  <2>2. k < Len(s) /\ At(s, k + 1) <= read
    <3>1. read - At(s, k) >= Total(front)
      BY <1>4, <1>8, Zenon
    <3> QED BY <3>1, <2>3, <1>1, <1>2, SMTT(30)
  <2> QED BY <2>2 DEF NextWhole, s, read
<1> QED BY <1>7, <1>8 DEF s

-----------------------------------------------------------------------------
(***************************************************************************)
(* What the loop's invariant says about the state of the server.           *)
(***************************************************************************)
LEMMA LoopConstants ==
  {ListenFd} \subseteq Fds /\ NoFd \notin Fds /\ MAX_EVENTS \in Nat \ {0} /\ MaxGen \in Nat
BY ServerAssumption

LEMMA LoopFacts ==
  ASSUME LP!IInv
  PROVE  /\ open \subseteq Fds /\ ListenFd \in open /\ cur \in Fds \cup {NoFd}
         /\ gen \in [Fds -> Nat] /\ epoll \subseteq open
         /\ batch \subseteq [fd : Fds, gen : Nat, epollin : BOOLEAN]
         /\ \A e \in batch : e.fd \in open
         /\ pc = "callback" => cur \in Fds /\ \A e \in batch : e.fd # cur
BY DEF LP!IInv, LP!TypeOK, LP!DispatchInv, LP!StaticOpen, LP!CallbackAlive, LP!ServedOnce,
       LP!NoStaleDispatch, LP!RegistrationCurrent, LP!Events

LEMMA PeerIsClient ==
  ASSUME LP!IInv, ServerTypes, KernelOK, NEW fd \in Conns
  PROVE  /\ fd \in Fds /\ sock[fd] \in Clients /\ tcp[sock[fd]] \in Tcp
         /\ tcp[sock[fd]].phase = "accepted"
         /\ seen[sock[fd]] \in Seq(Msgs) /\ connections[fd] \in Connection
<1>1. fd \in Fds
  BY LoopFacts DEF Conns
<1>2. sock[fd] \in Clients
  BY <1>1 DEF ServerTypes, KernelOK
<1> QED BY <1>1, <1>2 DEF ServerTypes, KernelOK

(***************************************************************************)
(* What a step leaves alone.                                               *)
(***************************************************************************)
LEMMA KernelFrame ==
  ASSUME ServerTypes, KernelOK, UNCHANGED <<open, sock, backlog>>,
         \A c \in Clients : tcp'[c].phase = tcp[c].phase
  PROVE  KernelOK'
<1>1. Conns' = Conns
  BY DEF Conns
<1>2. \A i \in DOMAIN backlog : backlog[i] \in Clients
  BY DEF ServerTypes
<1> QED BY <1>1, <1>2 DEF KernelOK

LEMMA GenFrame ==
  ASSUME GenOK, UNCHANGED gen,
         \A c \in Clients : tcp'[c].phase \in {"accepted", "closed"}
                              <=> tcp[c].phase \in {"accepted", "closed"}
  PROVE  GenOK'
<1>1. Taken' = Taken
  BY DEF Taken
<1> QED BY <1>1 DEF GenOK

LEMMA ClosedFrame ==
  ASSUME ClosedOnlyWhenDone,
         \A c \in Clients : tcp'[c].phase = "closed" => tcp'[c] = tcp[c] /\ seen'[c] = seen[c]
  PROVE  ClosedOnlyWhenDone'
BY DEF ClosedOnlyWhenDone

LEMMA BufferFrame ==
  ASSUME NEW fd, BufferOK(fd), sock'[fd] = sock[fd],
         tcp'[sock[fd]].stream = tcp[sock[fd]].stream, tcp'[sock[fd]].read = tcp[sock[fd]].read,
         seen'[sock[fd]] = seen[sock[fd]],
         connections'[fd].recv_buf = connections[fd].recv_buf,
         InHand(fd)' = InHand(fd), Parsing(fd) => Parsing(fd)'
  PROVE  BufferOK(fd)'
<1>1. Done(fd)' = Done(fd)
  BY DEF Done
<1> QED BY <1>1 DEF BufferOK, Buffered, NextPartial, NextWhole

LEMMA DataFrame ==
  ASSUME ServerInv, UNCHANGED <<connections, backlog, sock, tcp, seen, open, gen>>,
         step' \in {"none", "enter", "parse", "respond", "done"}
  PROVE  /\ ServerTypes' /\ KernelOK' /\ GenOK' /\ StreamsOK' /\ ClosedOnlyWhenDone'
         /\ Ready' = Ready /\ Conns' = Conns
<1>1. Ready' = Ready /\ Conns' = Conns
  BY DEF Ready, Conns
<1>2. ServerTypes'
  BY <1>1 DEF ServerInv, ServerTypes
<1>3. KernelOK'
  BY KernelFrame DEF ServerInv
<1>4. GenOK'
  BY GenFrame DEF ServerInv
<1>5. StreamsOK' /\ ClosedOnlyWhenDone'
  BY DEF ServerInv, StreamsOK, ClosedOnlyWhenDone
<1> QED BY <1>1, <1>2, <1>3, <1>4, <1>5

LEMMA QuietBuffers ==
  ASSUME ServerInv, UNCHANGED <<connections, sock, tcp, seen, open>>,
         \A fd \in Conns : InHand(fd)' = InHand(fd) /\ (Parsing(fd) => Parsing(fd)')
  PROVE  BuffersOK'
<1>1. Conns' = Conns
  BY DEF Conns
<1> QED BY <1>1, BufferFrame, Zenon DEF BuffersOK, ServerInv

-----------------------------------------------------------------------------
(***************************************************************************)
(* Steps that touch neither connections nor sockets.  Each is a step of    *)
(* the loop that leaves the readiness alone.                               *)
(***************************************************************************)
LEMMA LoopQuiet ==
  ASSUME IInv, LoopStep \/ (\E B \in SUBSET L!Reportable : EpollWait(B)) \/ Sigint
  PROVE  ServerInv' /\ L!Next
<1>1. /\ UNCHANGED doipVars /\ UNCHANGED <<readers, open, gen, cur>>
      /\ pc' \notin {"callback", "killed"} \/ pc' = pc
  BY DEF LoopStep, EpollWait, Sigint, L!SetGLoop, L!Run, L!Test, L!Block, L!EndBatch,
         L!EpollWait, L!Sigint
<1>2. /\ ServerTypes' /\ KernelOK' /\ GenOK' /\ StreamsOK' /\ ClosedOnlyWhenDone'
      /\ Ready' = Ready /\ Conns' = Conns
  BY <1>1, DataFrame DEF IInv, ServerInv, ServerTypes, doipVars
<1>3. BuffersOK'
  <2>1. \A fd \in Conns : InHand(fd)' = InHand(fd) /\ (Parsing(fd) => Parsing(fd)')
    BY <1>1 DEF InHand, Parsing, doipVars
  <2> QED BY <1>1, <2>1, QuietBuffers DEF IInv, doipVars
<1>4. step' = step /\ cur' = cur /\ Ready' = Ready /\ Conns' = Conns
  BY <1>1, <1>2 DEF doipVars
<1>5. StepOK /\ LP!IInv
  BY DEF IInv, ServerInv
<1>6. CASE LoopStep
  <2>1. StepOK'
    BY <1>4, <1>5, <1>6 DEF StepOK, LoopStep, L!SetGLoop, L!Run, L!Test, L!Block, L!EndBatch
  <2>2. L!Next
    BY <1>4, <1>6 DEF LoopStep, L!Next, L!Loop, L!Quiet
  <2> QED BY <2>1, <2>2, <1>2, <1>3 DEF ServerInv
<1>7. ASSUME NEW B \in SUBSET L!Reportable, EpollWait(B) PROVE StepOK' /\ L!Next
  <2>1. L!EpollWait(B)
    BY <1>7 DEF EpollWait
  <2>2. \A e \in batch' : e.fd \in Ready
    <3>1. B \subseteq Ready
      BY <2>1 DEF L!EpollWait, L!Reportable
    <3> QED BY <2>1, <3>1 DEF L!EpollWait
  <2>3. StepOK'
    BY <1>4, <1>5, <2>1, <2>2 DEF StepOK, L!EpollWait
  <2>4. L!Next
    BY <1>4, <2>1 DEF L!Next, L!Loop, L!Quiet
  <2> QED BY <2>3, <2>4
<1>8. CASE Sigint
  <2>1. L!Sigint
    BY <1>8 DEF Sigint
  <2>2. StepOK'
    BY <1>4, <1>5, <2>1 DEF StepOK, L!Sigint, L!Terminated
  <2>3. L!Next
    BY <1>4, <2>1 DEF L!Next, L!Quiet
  <2> QED BY <2>2, <2>3, <1>2, <1>3 DEF ServerInv
<1> QED BY <1>2, <1>3, <1>6, <1>7, <1>8 DEF ServerInv

LEMMA DispatchQuiet ==
  ASSUME IInv, Dispatch
  PROVE  ServerInv' /\ L!Next
<1>0. StepOK /\ LP!IInv
  BY DEF IInv, ServerInv
<1> PICK e \in batch : L!Dispatch(e)
  BY DEF Dispatch
<1>1. /\ UNCHANGED <<connections, backlog, sock, tcp, seen, open, gen>>
      /\ pc = "batch" /\ step = "none" /\ step' \in {"none", "enter"} /\ batch' \subseteq batch
      /\ e.fd \in Ready
  BY <1>0 DEF Dispatch, L!Dispatch, StepOK
<1>2. /\ ServerTypes' /\ KernelOK' /\ GenOK' /\ StreamsOK' /\ ClosedOnlyWhenDone'
      /\ Ready' = Ready /\ Conns' = Conns
  BY <1>1, DataFrame DEF IInv
<1>3. BuffersOK'
  <2>1. \A fd \in Conns : InHand(fd)' = InHand(fd) /\ (Parsing(fd) => Parsing(fd)')
    BY <1>1 DEF InHand, Parsing
  <2> QED BY <1>1, <2>1, QuietBuffers DEF IInv
<1>4. StepOK'
  <2>1. CASE pc' = "callback"
    <3>1. cur' = e.fd /\ step' = "enter"
      BY <2>1, <1>1 DEF L!Dispatch, Dispatch
    <3> QED BY <2>1, <3>1, <1>0, <1>1, <1>2 DEF StepOK
  <2>2. CASE pc' # "callback"
    <3>1. pc' = pc /\ cur' = cur /\ step' = step
      BY <2>2, <1>1 DEF L!Dispatch, Dispatch
    <3> QED BY <2>2, <3>1, <1>0, <1>1, <1>2 DEF StepOK
  <2> QED BY <2>1, <2>2
<1>5. L!Next
  BY <1>2 DEF L!Next, L!Loop, L!Quiet
<1> QED BY <1>2, <1>3, <1>4, <1>5 DEF ServerInv

LEMMA CallbackQuiet ==
  ASSUME IInv, Return \/ AcceptFails \/ ParseBreak \/ Killed
  PROVE  ServerInv' /\ [L!Next]_(L!vars)
<1>0. StepOK /\ LP!IInv /\ ServerTypes /\ KernelOK /\ StreamsOK /\ BuffersOK
  BY DEF IInv, ServerInv
<1>1. /\ UNCHANGED <<connections, backlog, sock, tcp, seen, open, gen, batch>>
      /\ pc = "callback" /\ step' \in {"none", "done", step}
  BY DEF Return, AcceptFails, ParseBreak, Killed, L!CbReturn, L!CbKilled, loopVars, doipVars
<1>2. /\ ServerTypes' /\ KernelOK' /\ GenOK' /\ StreamsOK' /\ ClosedOnlyWhenDone'
      /\ Ready' = Ready /\ Conns' = Conns
  BY <1>0, <1>1, DataFrame DEF IInv, ServerTypes
<1>3. StepOK'
  <2>1. CASE Return
    BY <2>1, <1>0, <1>2 DEF StepOK, Return, L!CbReturn
  <2>2. CASE AcceptFails \/ ParseBreak
    BY <2>2, <1>0, <1>2 DEF StepOK, AcceptFails, ParseBreak, loopVars
  <2>3. CASE Killed
    BY <2>3, <1>0, <1>2 DEF StepOK, Killed, L!CbKilled, doipVars
  <2> QED BY <2>1, <2>2, <2>3
<1>4. BuffersOK'
  <2>1. CASE Return \/ AcceptFails
    <3>1. \A fd \in Conns : InHand(fd)' = InHand(fd) /\ (Parsing(fd) => Parsing(fd)')
      BY <2>1 DEF InHand, Parsing, Return, AcceptFails
    <3> QED BY <1>1, <3>1, QuietBuffers DEF IInv
  <2>2. CASE Killed
    <3>1. \A fd \in Conns : InHand(fd)' = InHand(fd) /\ (Parsing(fd) => Parsing(fd)')
      BY <2>2 DEF InHand, Parsing, Killed, L!CbKilled, doipVars
    <3> QED BY <1>1, <3>1, QuietBuffers DEF IInv
  <2>3. CASE ParseBreak
    <3>1. /\ step = "parse" /\ step' = "done" /\ cur' = cur /\ cur \in Conns
          /\ ~Complete
      BY <2>3, <1>0 DEF ParseBreak, loopVars, StepOK
    <3>2. ASSUME NEW fd \in Conns, fd # cur PROVE BufferOK(fd)'
      <4>1. InHand(fd)' = InHand(fd) /\ (Parsing(fd) => Parsing(fd)') /\ BufferOK(fd)
        BY <3>1, <3>2, <1>0 DEF InHand, Parsing, BuffersOK
      <4> QED BY <4>1, <1>1, BufferFrame
    <3>3. BufferOK(cur)'
      <4>1. BufferOK(cur) /\ InHand(cur) = 0 /\ InHand(cur)' = 0 /\ Done(cur)' = Done(cur)
        BY <3>1, <1>0, <1>1 DEF BuffersOK, InHand, Done
      <4>2. Buffered(tcp[Peer], Done(cur), Buf)
        BY <4>1 DEF BufferOK, Peer, Buf
      <4>3. ~NextWhole(tcp[Peer], Done(cur))
        <5>1. tcp[Peer] \in Tcp /\ StreamOK(tcp[Peer], seen[Peer])
          BY <3>1, <1>0, PeerIsClient DEF StreamsOK, Peer
        <5> QED BY <5>1, <4>2, <3>1, ParseTest DEF Complete, Front
      <4>4. NextPartial(tcp[Peer], Done(cur))
        <5>1. tcp[Peer] \in Tcp /\ Chained(tcp[Peer].stream)
          BY <3>1, <1>0, PeerIsClient DEF StreamsOK, StreamOK, Peer
        <5>2. tcp[Peer].stream \in Streams /\ tcp[Peer].read \in Nat
          BY <5>1 DEF Tcp
        <5>3. Done(cur) < Len(tcp[Peer].stream) => At(tcp[Peer].stream, Done(cur) + 1) \in Nat
          BY <5>1, <5>2, <4>2, NextMessage DEF Buffered
        <5> QED BY <5>2, <5>3, <4>3 DEF NextPartial, NextWhole
      <4> QED BY <4>1, <4>2, <4>4, <3>1, <1>1 DEF BufferOK, Peer, Buf, Buffered, NextPartial
    <3>4. \A fd \in Conns : BufferOK(fd)'
      <4> SUFFICES ASSUME NEW fd \in Conns, fd = cur PROVE BufferOK(fd)'
        BY <3>2, Zenon
      <4> QED BY <3>1, <3>3
    <3> QED BY <3>4, <1>2, Zenon DEF BuffersOK
  <2> QED BY <2>1, <2>2, <2>3
<1>5. [L!Next]_(L!vars)
  <2>1. CASE Return
    BY <2>1, <1>2 DEF Return, L!Next, L!Callback, L!Quiet
  <2>2. CASE Killed
    BY <2>2, <1>2 DEF Killed, L!Next, L!Callback, L!Quiet
  <2>3. CASE AcceptFails \/ ParseBreak
    BY <2>3, <1>2 DEF AcceptFails, ParseBreak, L!vars, L!loopVars, loopVars
  <2> QED BY <2>1, <2>2, <2>3
<1> QED BY <1>2, <1>3, <1>4, <1>5 DEF ServerInv

-----------------------------------------------------------------------------
(***************************************************************************)
(* accept(): the head of the backlog gets a descriptor and an empty buffer.*)
(***************************************************************************)
LEMMA AcceptStep ==
  ASSUME IInv, Accept
  PROVE  ServerInv' /\ L!Next
<1>0. /\ LP!IInv /\ ServerTypes /\ StepOK /\ KernelOK /\ GenOK /\ StreamsOK /\ BuffersOK
      /\ ClosedOnlyWhenDone
  BY DEF IInv, ServerInv
<1> DEFINE new == Head(backlog)
<1> PICK fd \in Fds \ open :
      /\ L!accept(fd)
      /\ connections' = [f \in DOMAIN connections \cup {fd} |->
                            IF f = fd THEN NewConnection ELSE connections[f]]
      /\ sock' = [sock EXCEPT ![fd] = new]
  BY DEF Accept
<1>1. /\ pc = "callback" /\ cur = ListenFd /\ step = "enter" /\ step' = "done"
      /\ backlog' = Tail(backlog) /\ tcp' = [tcp EXCEPT ![new].phase = "accepted"]
      /\ UNCHANGED <<seen, batch, cur>>
      /\ open' = open \cup {fd} /\ gen' = [gen EXCEPT ![fd] = @ + 1]
      /\ pc' \in {"callback", "fatal"}
  BY DEF Accept, L!accept
<1>2. /\ fd \in Fds /\ fd # ListenFd /\ fd \notin Conns /\ Conns' = Conns \cup {fd}
      /\ ListenFd \in open /\ open \subseteq Fds /\ gen \in [Fds -> Nat]
  BY <1>0, <1>1, LoopFacts DEF Conns
<1>3. /\ backlog # <<>> /\ new \in Clients /\ backlog' \in Seq(Clients)
      /\ Len(backlog) \in Nat \ {0} /\ DOMAIN backlog = 1..Len(backlog)
      /\ Len(backlog') = Len(backlog) - 1 /\ DOMAIN backlog' = 1..Len(backlog')
      /\ \A i \in 1..Len(backlog') : backlog'[i] = backlog[i + 1]
      /\ new = backlog[1]
  <2>1. backlog # <<>>
    BY <1>0, <1>1 DEF StepOK, Ready
  <2> QED BY <2>1, <1>0, <1>1, HeadTailProperties DEF ServerTypes
<1>4. tcp[new].phase = "backlog"
  BY <1>0, <1>3 DEF KernelOK
<1>5. /\ tcp' \in [Clients -> Tcp]
      /\ \A c \in Clients : c # new => tcp'[c] = tcp[c]
      /\ tcp'[new] = [tcp[new] EXCEPT !.phase = "accepted"]
      /\ \A c \in Clients : /\ tcp'[c].stream = tcp[c].stream /\ tcp'[c].read = tcp[c].read
                            /\ tcp'[c].arr = tcp[c].arr /\ tcp'[c].peer = tcp[c].peer
      /\ tcp'[new].phase = "accepted"
  BY <1>0, <1>1, <1>3, ZenonT(60) DEF ServerTypes, Tcp
<1>6. /\ sock' \in [Fds -> Clients \cup {NoClient}] /\ sock'[fd] = new
      /\ \A f \in Fds : f # fd => sock'[f] = sock[f]
  BY <1>0, <1>2, <1>3 DEF ServerTypes
<1>7. /\ connections' \in [Conns' -> Connection] /\ connections'[fd] = NewConnection
      /\ \A f \in Conns : connections'[f] = connections[f]
  <2>1. NewConnection \in Connection
    BY EmptySeq DEF NewConnection, Connection
  <2>2. DOMAIN connections = Conns
    BY <1>0 DEF ServerTypes
  <2> HIDE DEF NewConnection, Connection
  <2> QED BY <2>1, <2>2, <1>0, <1>2 DEF ServerTypes
<1>8. ServerTypes'
  BY <1>0, <1>1, <1>3, <1>5, <1>6, <1>7 DEF ServerTypes
<1>9. KernelOK'
  <2>1. \A f \in Fds : sock'[f] # NoClient <=> f \in Conns'
    BY <1>0, <1>2, <1>3, <1>6, ServerAssumption DEF KernelOK
  <2>2. \A f \in Conns : sock[f] # new
    BY <1>0, <1>3, <1>4 DEF KernelOK
  <2>3. \A f, g \in Conns' : sock'[f] = sock'[g] => f = g
    <3>1. Conns \subseteq Fds
      BY <1>2 DEF Conns
    <3> QED BY <3>1, <2>2, <1>0, <1>2, <1>6 DEF KernelOK
  <2>4. \A c \in Clients : tcp'[c].phase = "accepted" <=> \E f \in Conns' : sock'[f] = c
    <3>1. Conns \subseteq Fds
      BY <1>2 DEF Conns
    <3>2. \A f \in Conns : sock'[f] = sock[f]
      BY <3>1, <1>2, <1>6
    <3>3. \A c \in Clients : tcp[c].phase = "accepted" <=> \E f \in Conns : sock[f] = c
      BY <1>0 DEF KernelOK
    <3>4. tcp'[new].phase = "accepted" /\ sock'[fd] = new /\ fd \in Conns'
      BY <1>2, <1>5, <1>6
    <3> HIDE DEF new
    <3>5. ASSUME NEW c \in Clients, c # new
          PROVE  tcp'[c].phase = "accepted" <=> \E f \in Conns' : sock'[f] = c
      <4>1. tcp'[c] = tcp[c]
        BY <3>5, <1>5, Zenon
      <4> QED BY <4>1, <3>2, <3>3, <3>4, <3>5, <1>2
    <3> QED BY <3>4, <3>5, Zenon
  <2>5. /\ \A i \in DOMAIN backlog' : tcp'[backlog'[i]].phase = "backlog"
        /\ \A i, j \in DOMAIN backlog' : backlog'[i] = backlog'[j] => i = j
    <3>1. \A i \in DOMAIN backlog' :
            i + 1 \in DOMAIN backlog /\ backlog'[i] = backlog[i + 1] /\ backlog[i + 1] # new
      BY <1>0, <1>3 DEF KernelOK
    <3>2. \A i \in DOMAIN backlog' : backlog'[i] \in Clients
      BY <1>3
    <3>3. \A i \in DOMAIN backlog' : tcp'[backlog'[i]] = tcp[backlog[i + 1]]
      BY <3>1, <3>2, <1>5, Zenon
    <3>4. \A i \in DOMAIN backlog' : tcp'[backlog'[i]].phase = "backlog"
      <4>1. \A i \in DOMAIN backlog : tcp[backlog[i]].phase = "backlog"
        BY <1>0 DEF KernelOK
      <4> QED BY <4>1, <3>1, <3>3, Zenon
    <3>5. ASSUME NEW i \in DOMAIN backlog', NEW j \in DOMAIN backlog', backlog'[i] = backlog'[j]
          PROVE  i = j
      <4>1. i + 1 = j + 1
        <5>1. \A k, l \in DOMAIN backlog : backlog[k] = backlog[l] => k = l
          BY <1>0 DEF KernelOK
        <5> QED BY <5>1, <3>1, <3>5, Zenon
      <4> QED BY <4>1, <1>3
    <3> QED BY <3>4, <3>5
  <2> QED BY <2>1, <2>3, <2>4, <2>5 DEF KernelOK
<1>10. IsFiniteSet(Taken) /\ Cardinality(Taken) \in Nat
       /\ Cardinality(Taken') = Cardinality(Taken) + 1 /\ Cardinality(Taken') <= MaxGen
  <2>1. Taken' = Taken \cup {new} /\ new \notin Taken
    <3>1. \A c \in Clients : c # new =>
            (tcp'[c].phase \in {"accepted", "closed"} <=> tcp[c].phase \in {"accepted", "closed"})
      BY <1>5
    <3>2. tcp[new].phase \notin {"accepted", "closed"}
          /\ tcp'[new].phase \in {"accepted", "closed"}
      BY <1>4, <1>5
    <3> HIDE DEF new
    <3> QED BY <3>1, <3>2, <1>3 DEF Taken
  <2>2. IsFiniteSet(Clients) /\ Taken \subseteq Clients /\ Taken' \subseteq Clients
    BY ServerAssumption DEF Taken
  <2>3. IsFiniteSet(Taken) /\ Cardinality(Taken') <= Cardinality(Clients)
    BY <2>2, FS_Subset
  <2>4. Cardinality(Taken') = Cardinality(Taken) + 1
    BY <2>1, <2>3, FS_AddElement
  <2>5. Cardinality(Taken) \in Nat /\ Cardinality(Clients) \in Nat
    BY <2>2, <2>3, FS_CardinalityType
  <2> QED BY <2>3, <2>4, <2>5, ServerAssumption
<1>11. GenOK'
  <2>1. \A f \in Fds \ {ListenFd} : gen'[f] <= gen[f] + 1
    BY <1>1, <1>2
  <2>2. \A f \in Fds : gen[f] \in Nat /\ gen'[f] \in Nat
    BY <1>1, <1>2
  <2>3. \A f \in Fds \ {ListenFd} : gen[f] <= Cardinality(Taken)
    BY <1>0 DEF GenOK
  <2>4. \A f \in Fds \ {ListenFd} : gen'[f] <= Cardinality(Taken')
    BY <2>1, <2>2, <2>3, <1>10
  <2> QED BY <2>4 DEF GenOK
<1>12. StreamsOK'
  <2>1. \A c \in Clients : StreamOK(tcp[c], seen[c]) => StreamOK(tcp'[c], seen[c])
    BY <1>5 DEF StreamOK
  <2> QED BY <2>1, <1>0, <1>1 DEF StreamsOK
<1>13. ClosedOnlyWhenDone'
  BY <1>0, <1>1, <1>5, ClosedFrame
<1>14. BuffersOK'
  <2>1. ASSUME NEW f \in Conns PROVE BufferOK(f)'
    <3>1. InHand(f)' = InHand(f) /\ (Parsing(f) => Parsing(f)') /\ BufferOK(f)
      BY <1>0, <1>1 DEF InHand, Parsing, BuffersOK
    <3>2. sock[f] \in Clients /\ f \in Fds /\ f # fd
      BY <1>0, <1>2, PeerIsClient
    <3>3. /\ sock'[f] = sock[f] /\ tcp'[sock[f]].stream = tcp[sock[f]].stream
          /\ tcp'[sock[f]].read = tcp[sock[f]].read
          /\ connections'[f].recv_buf = connections[f].recv_buf /\ seen' = seen
      BY <3>2, <1>1, <1>5, <1>6, <1>7
    <3> QED BY <3>1, <3>3, BufferFrame
  <2>2. BufferOK(fd)'
    <3>1. /\ tcp[new] \in Tcp /\ tcp[new].read = 0 /\ seen[new] = <<>>
          /\ Chained(tcp[new].stream)
      BY <1>0, <1>3, <1>4 DEF ServerTypes, StreamsOK, StreamOK
    <3>2. InHand(fd)' = 0 /\ ~Parsing(fd)' /\ Done(fd)' = 0
      BY <3>1, <1>1, <1>6 DEF InHand, Parsing, Done
    <3>3. /\ tcp'[new].stream = tcp[new].stream /\ tcp'[new].read = 0
          /\ tcp[new].stream \in Streams
      BY <3>1, <1>3, <1>5 DEF Tcp
    <3>4. connections'[fd].recv_buf = Bytes(0, 0)
      BY <1>7 DEF NewConnection, Bytes
    <3>5. Len(tcp[new].stream) \in Nat /\ At(tcp[new].stream, 0) = 0
      BY <3>3 DEF Streams, At
    <3>6. Buffered(tcp'[new], 0, connections'[fd].recv_buf)
      BY <3>3, <3>4, <3>5, ServerAssumption DEF Buffered
    <3>7. NextPartial(tcp'[new], 0)
      <4>1. 0 < Len(tcp[new].stream) => At(tcp[new].stream, 0 + 1) > 0
        BY <3>1, <3>3, <3>5, NextMessage, TotalType
      <4> QED BY <3>3, <4>1 DEF NextPartial
    <3> QED BY <3>2, <3>6, <3>7, <1>6 DEF BufferOK
  <2> QED BY <2>1, <2>2, <1>2, Zenon DEF BuffersOK
<1>15. /\ Ready' \in {r \cup R : r \in {Ready, Ready \ {cur}}, R \in SUBSET {fd}}
       /\ Ready \ {cur} \subseteq Ready'
  <2>1. ASSUME NEW f \in open, f # ListenFd PROVE f \in Ready' <=> f \in Ready
    <3>1. f \in Conns /\ f \in open' /\ f # fd
      BY <2>1, <1>1 DEF Conns
    <3>2. sock[f] \in Clients /\ sock'[f] = sock[f]
      BY <3>1, <1>0, <1>2, <1>6, PeerIsClient
    <3> QED BY <2>1, <3>1, <3>2, <1>5 DEF Ready
  <2>2. Ready \subseteq open /\ Ready' \subseteq open' /\ ListenFd \in Ready
    BY <1>0, <1>1 DEF Ready, StepOK
  <2> DEFINE r == IF ListenFd \in Ready' THEN Ready ELSE Ready \ {cur}
             R == Ready' \cap {fd}
  <2>3. Ready' = r \cup R
    BY <2>1, <2>2, <1>1, <1>2
  <2>4. r \in {Ready, Ready \ {cur}} /\ R \in SUBSET {fd}
    OBVIOUS
  <2>5. Ready \ {cur} \subseteq Ready'
    BY <2>3
  <2> HIDE DEF r, R
  <2> QED BY <2>3, <2>4, <2>5
<1>16. StepOK'
  <2>1. \A e \in batch' : e.fd \in Ready'
    BY <1>0, <1>1, <1>15, LoopFacts DEF StepOK
  <2> QED BY <2>1, <1>1 DEF StepOK
<1>17. L!Next
  <2>1. gen[fd] < MaxGen
    BY <1>0, <1>2, <1>10, LoopConstants DEF GenOK
  <2>2. L!CbAccept(fd)
    <3>1. pc = "callback" /\ cur \in {ListenFd} /\ L!accept(fd)
      BY <1>1
    <3>2. gen[fd] < MaxGen
      BY <2>1
    <3>3. Ready' \in {r \cup R : r \in {Ready, Ready \ {cur}}, R \in SUBSET {fd}}
      BY <1>15
    <3>4. {}' = {}
      OBVIOUS
    <3> HIDE DEF new
    <3>5. /\ pc = "callback" /\ cur \in {ListenFd}
          /\ gen[fd] < MaxGen
          /\ L!accept(fd)
          /\ {}' = {}
      BY <3>1, <3>2, <3>4
    <3> QED BY <3>3, <3>5 DEF L!CbAccept
  <2> QED BY <2>2, <1>2 DEF L!Next, L!Callback
<1> QED BY <1>8, <1>9, <1>11, <1>12, <1>13, <1>14, <1>16, <1>17 DEF ServerInv

-----------------------------------------------------------------------------
(***************************************************************************)
(* on_client_data.  The entry of connections_ is always found.             *)
(***************************************************************************)
LEMMA EnterFacts ==
  ASSUME IInv, OnClientData
  PROVE  /\ pc = "callback" /\ step = "enter" /\ cur \in Conns /\ cur \in Ready
         /\ DOMAIN connections = Conns /\ InHand(cur) = 0 /\ ~Parsing(cur)
         /\ Peer \in Clients /\ tcp[Peer] \in Tcp /\ tcp[Peer].phase = "accepted"
         /\ seen[Peer] \in Seq(Msgs) /\ connections[cur] \in Connection
         /\ StreamOK(tcp[Peer], seen[Peer])
         /\ Done(cur) = Len(seen[Peer])
         /\ Buffered(tcp[Peer], Len(seen[Peer]), Buf) /\ NextPartial(tcp[Peer], Len(seen[Peer]))
<1>0. /\ LP!IInv /\ ServerTypes /\ StepOK /\ KernelOK /\ StreamsOK /\ BuffersOK
  BY DEF IInv, ServerInv
<1>1. /\ pc = "callback" /\ step = "enter" /\ cur \in Conns /\ cur \in Ready
      /\ DOMAIN connections = Conns /\ InHand(cur) = 0 /\ ~Parsing(cur)
  BY <1>0 DEF OnClientData, StepOK, Ready, Conns, ServerTypes, InHand, Parsing
<1>2. /\ Peer \in Clients /\ tcp[Peer] \in Tcp /\ tcp[Peer].phase = "accepted"
      /\ seen[Peer] \in Seq(Msgs) /\ connections[cur] \in Connection
  BY <1>0, <1>1, PeerIsClient DEF Peer
<1>3. StreamOK(tcp[Peer], seen[Peer])
  BY <1>0, <1>2 DEF StreamsOK
<1>4. Done(cur) = Len(seen[Peer])
  BY <1>1, <1>2 DEF Done, Peer
<1>5. BufferOK(cur)
  BY <1>0, <1>1 DEF BuffersOK
<1>6. Buffered(tcp[Peer], Len(seen[Peer]), Buf) /\ NextPartial(tcp[Peer], Len(seen[Peer]))
  BY <1>1, <1>4, <1>5 DEF BufferOK, Peer, Buf
<1> QED BY <1>1, <1>2, <1>3, <1>4, <1>6

(***************************************************************************)
(* What recv() returns, and what it means when it returns 0.               *)
(***************************************************************************)
LEMMA ReceivedIs ==
  ASSUME IInv, OnClientData
  PROVE  /\ Received \in Nat
         /\ Received <= RECV_BUF - Len(Buf) /\ Received <= tcp[Peer].arr - tcp[Peer].read
         /\ Received = 0 => Len(Buf) = RECV_BUF \/ tcp[Peer].arr = tcp[Peer].read
         /\ Len(Buf) = tcp[Peer].read - At(tcp[Peer].stream, Len(seen[Peer]))
         /\ At(tcp[Peer].stream, Len(seen[Peer])) \in Nat /\ tcp[Peer].stream \in Streams
         /\ tcp[Peer].read \in Nat /\ tcp[Peer].arr \in Nat
         /\ At(tcp[Peer].stream, Len(seen[Peer])) <= tcp[Peer].read
         /\ Buf = Bytes(At(tcp[Peer].stream, Len(seen[Peer])), tcp[Peer].read)
<1> DEFINE s == tcp[Peer].stream
           k == Len(seen[Peer])
           read == tcp[Peer].read
           arr == tcp[Peer].arr
<1>1. s \in Streams /\ read \in Nat /\ arr \in Nat
  BY EnterFacts DEF Tcp
<1>2. k \in 0..Len(s) /\ At(s, k) <= read /\ read - At(s, k) <= RECV_BUF /\ read <= arr
      /\ Buf = Bytes(At(s, k), read)
  BY EnterFacts DEF Buffered, StreamOK
<1>3. At(s, k) \in Nat
  BY <1>1, <1>2, AtType
<1>4. Len(Buf) = read - At(s, k)
  BY <1>1, <1>2, <1>3, BytesType
<1>5. RECV_BUF \in Nat
  BY ServerAssumption
<1>6. Received = Min({RECV_BUF - Len(Buf), arr - read})
  BY DEF Received
<1> HIDE DEF s, k, read, arr
<1>7. Received = IF RECV_BUF - Len(Buf) <= arr - read THEN RECV_BUF - Len(Buf) ELSE arr - read
  <2>1. RECV_BUF - Len(Buf) \in Int /\ arr - read \in Int
    BY <1>1, <1>3, <1>4, <1>5
  <2> QED BY <2>1, <1>6, MinOfTwo, Zenon
<1>8. /\ Received \in Nat /\ Received <= RECV_BUF - Len(Buf) /\ Received <= arr - read
      /\ Received = 0 => Len(Buf) = RECV_BUF \/ arr = read
  BY <1>1, <1>2, <1>3, <1>4, <1>5, <1>7
<1> QED BY <1>1, <1>2, <1>3, <1>4, <1>8 DEF s, k, read, arr

(***************************************************************************)
(* recv() <= 0: close(), and the entry is erased.                          *)
(***************************************************************************)
LEMMA CloseStep ==
  ASSUME IInv, OnClientData, Received = 0
  PROVE  ServerInv' /\ L!Next
<1>0. /\ LP!IInv /\ ServerTypes /\ StepOK /\ KernelOK /\ GenOK /\ StreamsOK /\ BuffersOK
      /\ ClosedOnlyWhenDone
  BY DEF IInv, ServerInv
<1> DEFINE p == Peer
<1>1. /\ pc = "callback" /\ step = "enter" /\ cur \in Conns /\ cur \in Ready
      /\ DOMAIN connections = Conns
      /\ p \in Clients /\ tcp[p] \in Tcp /\ tcp[p].phase = "accepted" /\ sock[cur] = p
  BY EnterFacts DEF Peer
<1>2. /\ L!close(cur)
      /\ connections' = Restrict(connections, DOMAIN connections \ {cur})
      /\ sock' = [sock EXCEPT ![cur] = NoClient]
      /\ tcp' = [tcp EXCEPT ![p].phase = "closed"]
      /\ step' = "done" /\ backlog' = backlog /\ seen' = seen
  BY <1>1 DEF OnClientData, CloseConnection
<1>3. /\ open' = open \ {cur} /\ UNCHANGED <<pc, gen, batch, cur>>
  BY <1>2 DEF L!close
<1>4. /\ Conns' = Conns \ {cur} /\ Conns \subseteq Fds /\ cur \in Fds /\ cur # ListenFd
      /\ ListenFd \in open /\ cur \in open
  BY <1>0, <1>1, <1>3, LoopFacts DEF Conns
<1> HIDE DEF p
<1>5. /\ tcp' \in [Clients -> Tcp]
      /\ \A c \in Clients : c # p => tcp'[c] = tcp[c]
      /\ \A c \in Clients : /\ tcp'[c].stream = tcp[c].stream /\ tcp'[c].read = tcp[c].read
                            /\ tcp'[c].arr = tcp[c].arr /\ tcp'[c].peer = tcp[c].peer
      /\ tcp'[p].phase = "closed"
  BY <1>0, <1>1, <1>2 DEF ServerTypes, Tcp
<1>6. /\ sock' \in [Fds -> Clients \cup {NoClient}] /\ sock'[cur] = NoClient
      /\ \A f \in Fds : f # cur => sock'[f] = sock[f]
  BY <1>0, <1>2, <1>4 DEF ServerTypes
<1>7. /\ connections' \in [Conns' -> Connection]
      /\ \A f \in Conns' : connections'[f] = connections[f]
  BY <1>0, <1>1, <1>2, <1>4 DEF ServerTypes, Restrict
<1>8. ServerTypes'
  BY <1>0, <1>2, <1>5, <1>6, <1>7 DEF ServerTypes
<1>9. \A f \in Conns' : sock[f] # p /\ f \in Conns /\ f # cur /\ f \in Fds /\ sock'[f] = sock[f]
  BY <1>0, <1>1, <1>4, <1>6 DEF KernelOK
<1>10. KernelOK'
  <2>1. \A f \in Fds : sock'[f] # NoClient <=> f \in Conns'
    <3>1. \A f \in Fds : sock[f] # NoClient <=> f \in Conns
      BY <1>0 DEF KernelOK
    <3> QED BY <3>1, <1>4, <1>6
  <2>2. \A f, g \in Conns' : sock'[f] = sock'[g] => f = g
    <3>1. \A f, g \in Conns : sock[f] = sock[g] => f = g
      BY <1>0 DEF KernelOK
    <3> QED BY <3>1, <1>9, Zenon
  <2>3. ASSUME NEW c \in Clients
        PROVE  tcp'[c].phase = "accepted" <=> \E f \in Conns' : sock'[f] = c
    <3>1. tcp[c].phase = "accepted" <=> \E f \in Conns : sock[f] = c
      BY <1>0 DEF KernelOK
    <3>2. CASE c = p
      BY <3>2, <1>5, <1>9
    <3>3. CASE c # p
      <4>1. tcp'[c] = tcp[c]
        BY <3>3, <1>5, Zenon
      <4> QED BY <3>1, <3>3, <4>1, <1>1, <1>4, <1>9
    <3> QED BY <3>2, <3>3
  <2>4. \A i \in DOMAIN backlog : tcp'[backlog[i]].phase = "backlog"
    <3>1. \A i \in DOMAIN backlog : backlog[i] \in Clients /\ tcp[backlog[i]].phase = "backlog"
      BY <1>0 DEF KernelOK, ServerTypes
    <3> QED BY <3>1, <1>1, <1>5
  <2>5. \A i, j \in DOMAIN backlog : backlog[i] = backlog[j] => i = j
    BY <1>0 DEF KernelOK
  <2> QED BY <2>1, <2>2, <2>3, <2>4, <2>5, <1>2 DEF KernelOK
<1>11. GenOK'
  <2>1. \A c \in Clients : tcp'[c].phase \in {"accepted", "closed"}
                             <=> tcp[c].phase \in {"accepted", "closed"}
    BY <1>1, <1>5
  <2> QED BY <2>1, <1>0, <1>3, GenFrame
<1>12. StreamsOK'
  <2>1. \A c \in Clients : tcp'[c].phase \in {"new", "backlog"} => tcp[c].phase \in {"new", "backlog"}
    BY <1>5
  <2>2. \A c \in Clients : StreamOK(tcp[c], seen[c]) => StreamOK(tcp'[c], seen[c])
    BY <1>5, <2>1 DEF StreamOK
  <2> QED BY <2>2, <1>0, <1>2 DEF StreamsOK
<1>13. BuffersOK'
  <2>1. ASSUME NEW f \in Conns' PROVE BufferOK(f)'
    <3>1. InHand(f)' = InHand(f) /\ (Parsing(f) => Parsing(f)') /\ BufferOK(f)
      BY <1>0, <1>1, <1>2, <1>9 DEF InHand, Parsing, BuffersOK
    <3>2. sock[f] \in Clients
      BY <1>0, <1>9, PeerIsClient
    <3>3. /\ sock'[f] = sock[f] /\ tcp'[sock[f]].stream = tcp[sock[f]].stream
          /\ tcp'[sock[f]].read = tcp[sock[f]].read
          /\ connections'[f].recv_buf = connections[f].recv_buf /\ seen' = seen
      BY <3>2, <1>2, <1>5, <1>7, <1>9
    <3> QED BY <3>1, <3>3, BufferFrame
  <2> QED BY <2>1, Zenon DEF BuffersOK
<1>14. Ready' = Ready \ {cur}
  <2>1. \A f \in open' : f # ListenFd => f \in Conns' /\ sock[f] \in Clients
    BY <1>0, <1>9, PeerIsClient DEF Conns
  <2>2. \A f \in open' : f # ListenFd => (f \in Ready' <=> f \in Ready)
    BY <2>1, <1>3, <1>5, <1>9 DEF Ready
  <2>3. ListenFd \in open' /\ (ListenFd \in Ready' <=> ListenFd \in Ready)
    BY <1>2, <1>3, <1>4 DEF Ready
  <2>4. Ready \subseteq open /\ Ready' \subseteq open'
    BY DEF Ready
  <2> QED BY <2>2, <2>3, <2>4, <1>3
<1>15. StepOK'
  <2>1. \A e \in batch' : e.fd \in Ready'
    BY <1>0, <1>1, <1>3, <1>14, LoopFacts DEF StepOK
  <2> QED BY <2>1, <1>1, <1>2, <1>3 DEF StepOK
<1>16. L!Next
  <2>1. L!CbClose
    BY <1>1, <1>2, <1>4, <1>14 DEF L!CbClose
  <2> QED BY <2>1 DEF L!Next, L!Callback
<1>17. ClosedOnlyWhenDone'
  <2> DEFINE s == tcp[p].stream
             k == Len(seen[p])
  <2>1. /\ s \in Streams /\ Chained(s) /\ k \in 0..Len(s) /\ Len(s) \in Nat
        /\ tcp[p].read \in Nat /\ tcp[p].arr \in Nat /\ At(s, k) \in Nat
        /\ tcp[p].arr <= At(s, Len(s))
        /\ k < Len(s) => tcp[p].read < At(s, k + 1)
    <3>1. /\ s \in Streams /\ Chained(s) /\ k \in 0..Len(s)
          /\ tcp[p].read \in Nat /\ tcp[p].arr \in Nat /\ At(s, k) \in Nat
          /\ tcp[p].arr <= At(s, Len(s)) /\ NextPartial(tcp[p], k)
      BY EnterFacts, ReceivedIs DEF StreamOK, Buffered, p
    <3>2. Len(s) \in Nat
      BY <3>1 DEF Streams
    <3> QED BY <3>1, <3>2 DEF NextPartial
  <2>2. k < Len(s) => /\ s[k + 1].at = At(s, k) /\ At(s, k + 1) = At(s, k) + Total(s[k + 1].msg)
                      /\ Total(s[k + 1].msg) \in Nat
    BY <2>1, NextMessage, TotalType
  <2>3. \/ tcp[p].read - At(s, k) = RECV_BUF
        \/ tcp[p].arr = tcp[p].read /\ tcp[p].peer # "up"
    <3>1. tcp[p].arr > tcp[p].read \/ tcp[p].peer # "up"
      BY <1>1, <1>4 DEF Ready
    <3>2. tcp[p].read - At(s, k) = RECV_BUF \/ tcp[p].arr = tcp[p].read
      BY ReceivedIs DEF p
    <3> HIDE DEF s, k
    <3> QED BY <2>1, <3>1, <3>2
  <2>4. RECV_BUF \in Nat \ {0}
    BY ServerAssumption, HeaderAssumption
  <2> HIDE DEF s, k
  <2>5. \/ k < Len(s) /\ Total(s[k + 1].msg) > RECV_BUF
        \/ tcp[p].peer # "up" /\ (k = Len(s) \/ s[k + 1].at + Total(s[k + 1].msg) > tcp[p].arr)
    <3>1. CASE k < Len(s)
      BY <3>1, <2>1, <2>2, <2>3, <2>4
    <3>2. CASE k = Len(s)
      <4>1. tcp[p].read <= At(s, k)
        <5>1. tcp[p].read <= tcp[p].arr
          BY EnterFacts DEF StreamOK, p
        <5> QED BY <3>2, <5>1, <2>1
      <4> QED BY <3>2, <4>1, <2>1, <2>3, <2>4
    <3> QED BY <2>1, <3>1, <3>2
  <2>6. ASSUME NEW c \in Clients, tcp'[c].phase = "closed"
        PROVE LET t == tcp'[c].stream
                  i == Len(seen'[c])
              IN \/ i < Len(t) /\ Total(t[i + 1].msg) > RECV_BUF
                 \/ /\ tcp'[c].peer # "up"
                    /\ i = Len(t) \/ t[i + 1].at + Total(t[i + 1].msg) > tcp'[c].arr
    <3>1. CASE c = p
      BY <3>1, <2>5, <1>1, <1>2, <1>5 DEF s, k
    <3>2. CASE c # p
      <4>1. tcp'[c] = tcp[c] /\ seen' = seen
        BY <3>2, <1>2, <1>5, Zenon
      <4> QED BY <2>6, <4>1, <1>0 DEF ClosedOnlyWhenDone
    <3> QED BY <3>1, <3>2
  <2> QED BY <2>6 DEF ClosedOnlyWhenDone
<1> QED BY <1>8, <1>10, <1>11, <1>12, <1>13, <1>15, <1>16, <1>17 DEF ServerInv

(***************************************************************************)
(* recv() > 0: the bytes go behind those in the buffer.                    *)
(***************************************************************************)
LEMMA ReceiveStep ==
  ASSUME IInv, OnClientData, Received # 0
  PROVE  ServerInv' /\ L!Next
<1>0. /\ LP!IInv /\ ServerTypes /\ StepOK /\ KernelOK /\ GenOK /\ StreamsOK /\ BuffersOK
      /\ ClosedOnlyWhenDone
  BY DEF IInv, ServerInv
<1> DEFINE p == Peer
           n == Received
           s == tcp[p].stream
           k == Len(seen[p])
           read == tcp[p].read
<1>1. /\ pc = "callback" /\ step = "enter" /\ cur \in Conns /\ cur \in Ready
      /\ DOMAIN connections = Conns /\ connections[cur] \in Connection
      /\ p \in Clients /\ tcp[p] \in Tcp /\ tcp[p].phase = "accepted" /\ sock[cur] = p
  BY EnterFacts DEF Peer
<1>2. /\ connections' = [connections EXCEPT ![cur].recv_buf =
                           @ \o [i \in 1..n |-> read + i - 1]]
      /\ tcp' = [tcp EXCEPT ![p].read = @ + n]
      /\ step' = "parse" /\ backlog' = backlog /\ seen' = seen /\ sock' = sock
      /\ UNCHANGED loopVars
  BY <1>1 DEF OnClientData, Receive
<1>3. /\ n \in Nat /\ read + n <= tcp[p].arr /\ read + n - At(s, k) <= RECV_BUF
      /\ At(s, k) \in Nat /\ At(s, k) <= read /\ read \in Nat /\ tcp[p].arr \in Nat
      /\ k \in 0..Len(s) /\ connections[cur].recv_buf = Bytes(At(s, k), read)
  <2>1. /\ n \in Nat /\ n <= RECV_BUF - Len(Buf) /\ n <= tcp[p].arr - read
        /\ Len(Buf) = read - At(s, k) /\ At(s, k) \in Nat /\ read \in Nat
        /\ tcp[p].arr \in Nat /\ At(s, k) <= read
    BY ReceivedIs
  <2>2. RECV_BUF \in Nat
    BY ServerAssumption
  <2>3. k \in 0..Len(s) /\ connections[cur].recv_buf = Bytes(At(s, k), read)
    BY EnterFacts DEF Buffered, Buf
  <2> HIDE DEF p, n, s, k, read
  <2> QED BY <2>1, <2>2, <2>3, SMTT(30)
<1>4. /\ UNCHANGED <<open, gen, batch, cur, pc>> /\ Conns' = Conns /\ Conns \subseteq Fds
      /\ cur # ListenFd /\ cur \in open
  BY <1>0, <1>1, <1>2, LoopFacts DEF Conns, loopVars
<1> HIDE DEF p, n, s, k, read
<1>5. /\ tcp' \in [Clients -> Tcp]
      /\ \A c \in Clients : c # p => tcp'[c] = tcp[c]
      /\ \A c \in Clients : /\ tcp'[c].stream = tcp[c].stream /\ tcp'[c].phase = tcp[c].phase
                            /\ tcp'[c].arr = tcp[c].arr /\ tcp'[c].peer = tcp[c].peer
      /\ tcp'[p].read = read + n
  <2>1. tcp \in [Clients -> Tcp] /\ tcp' = [tcp EXCEPT ![p] = [tcp[p] EXCEPT !.read = read + n]]
    BY <1>0, <1>1, <1>2 DEF ServerTypes, read
  <2>2. [tcp[p] EXCEPT !.read = read + n] \in Tcp /\ read + n \in Nat
    BY <1>1, <1>3, SMTT(30) DEF Tcp
  <2>3. \A c \in Clients : tcp'[c] = IF c = p THEN [tcp[p] EXCEPT !.read = read + n] ELSE tcp[c]
    BY <2>1
  <2>4. tcp' \in [Clients -> Tcp]
    <3> HIDE DEF Tcp
    <3> QED BY <2>1, <2>2
  <2> QED BY <2>3, <2>4, <1>1 DEF Tcp
<1>6. connections[cur].recv_buf \o [i \in 1..n |-> read + i - 1] = Bytes(At(s, k), read + n)
  <2>1. Bytes(At(s, k), read) \o [i \in 1..n |-> read + i - 1] = Bytes(At(s, k), read + n)
    BY <1>3, BytesReceived, Zenon
  <2> QED BY <2>1, <1>3
<1>7. /\ connections' \in [Conns -> Connection]
      /\ \A f \in Conns : f # cur => connections'[f] = connections[f]
      /\ connections'[cur].recv_buf = Bytes(At(s, k), read + n)
  <2>1. connections' = [connections EXCEPT ![cur].recv_buf = Bytes(At(s, k), read + n)]
    BY <1>2, <1>6
  <2>2. Bytes(At(s, k), read + n) \in Seq(Nat)
    <3>1. read + n \in Nat /\ At(s, k) <= read + n
      BY <1>3
    <3> QED BY <3>1, <1>3, BytesType, Zenon
  <2> QED BY <2>1, <2>2, <1>0, <1>1 DEF ServerTypes, Connection
<1>8. ServerTypes'
  BY <1>0, <1>2, <1>4, <1>5, <1>7 DEF ServerTypes
<1>9. KernelOK'
  BY <1>0, <1>2, <1>4, <1>5, KernelFrame
<1>10. GenOK'
  BY <1>0, <1>4, <1>5, GenFrame
<1>11. StreamsOK'
  <2>1. StreamOK(tcp'[p], seen[p])
    <3>1. StreamOK(tcp[p], seen[p])
      BY <1>0, <1>1 DEF StreamsOK
    <3> QED BY <3>1, <1>1, <1>3, <1>5 DEF StreamOK
  <2> QED BY <2>1, <1>0, <1>2, <1>5 DEF StreamsOK
<1>12. ClosedOnlyWhenDone'
  BY <1>0, <1>1, <1>2, <1>5, ClosedFrame
<1>13. \A f \in Conns : f # cur => sock[f] # p
  BY <1>0, <1>1 DEF KernelOK
<1>14. BuffersOK'
  <2>1. ASSUME NEW f \in Conns, f # cur PROVE BufferOK(f)'
    <3>1. InHand(f)' = InHand(f) /\ (Parsing(f) => Parsing(f)') /\ BufferOK(f)
      BY <2>1, <1>0, <1>1, <1>2, <1>4 DEF InHand, Parsing, BuffersOK
    <3>2. sock[f] \in Clients /\ sock[f] # p
      BY <2>1, <1>0, <1>13, PeerIsClient
    <3>3. /\ sock'[f] = sock[f] /\ tcp'[sock[f]] = tcp[sock[f]]
          /\ connections'[f] = connections[f] /\ seen' = seen
      BY <2>1, <3>2, <1>2, <1>5, <1>7
    <3> QED BY <3>1, <3>3, BufferFrame
  <2>2. ASSUME NEW f \in Conns, f = cur PROVE BufferOK(f)'
    <3>1. InHand(f)' = 0 /\ Parsing(f)' /\ sock'[f] = p /\ seen' = seen
      BY <2>2, <1>1, <1>2, <1>4 DEF InHand, Parsing
    <3>2. Done(f)' = k
      <4>1. Len(seen[p]) \in Nat
        BY <1>1, <1>0 DEF ServerTypes
      <4> QED BY <3>1, <4>1 DEF Done, k
    <3>3. tcp'[p].stream = s
      BY <1>1, <1>5 DEF s
    <3>4. Buffered(tcp'[p], k, connections'[f].recv_buf)
      BY <2>2, <3>3, <1>3, <1>5, <1>7 DEF Buffered
    <3> QED BY <3>1, <3>2, <3>4 DEF BufferOK
  <2> QED BY <2>1, <2>2, <1>4, Zenon DEF BuffersOK
<1>15. Ready' \in {Ready, Ready \ {cur}}
  <2>1. \A f \in open : f # ListenFd /\ f # cur => sock[f] \in Clients /\ tcp'[sock[f]] = tcp[sock[f]]
    BY <1>0, <1>5, <1>13, PeerIsClient DEF Conns
  <2>2. \A f \in open : f # cur => (f \in Ready' <=> f \in Ready)
    BY <2>1, <1>2, <1>4 DEF Ready
  <2>3. Ready \subseteq open /\ Ready' \subseteq open
    BY <1>4 DEF Ready
  <2> QED BY <2>2, <2>3, <1>1
<1>16. StepOK'
  <2>1. \A e \in batch' : e.fd \in Ready'
    BY <1>0, <1>1, <1>4, <1>15, LoopFacts DEF StepOK
  <2> QED BY <2>1, <1>1, <1>2, <1>4 DEF StepOK
<1>17. L!Next
  <2>1. L!CbRead
    BY <1>1, <1>2, <1>15 DEF L!CbRead, loopVars, L!loopVars
  <2> QED BY <2>1 DEF L!Next, L!Callback
<1> QED BY <1>8, <1>9, <1>10, <1>11, <1>12, <1>14, <1>16, <1>17 DEF ServerInv

-----------------------------------------------------------------------------
(***************************************************************************)
(* The reassembly loop.  The message at the front is the next one of the   *)
(* stream, and it is all there.                                            *)
(***************************************************************************)
LEMMA ParseFacts ==
  ASSUME IInv, pc = "callback", (step = "parse" /\ Complete) \/ step = "respond"
  PROVE  LET conn == tcp[Peer]
             k == Done(cur)
         IN /\ cur \in Conns /\ connections[cur] \in Connection /\ DOMAIN connections = Conns
            /\ Peer \in Clients /\ conn \in Tcp /\ conn.phase = "accepted" /\ seen[Peer] \in Seq(Msgs)
            /\ StreamOK(conn, seen[Peer])
            /\ Buffered(conn, k, Buf) /\ NextWhole(conn, k)
            /\ k = IF step = "respond" THEN Len(seen[Peer]) - 1 ELSE Len(seen[Peer])
            /\ Front = conn.stream[k + 1].msg /\ Front \in Msgs
            /\ conn.stream \in Streams /\ k \in 0..Len(conn.stream)
            /\ At(conn.stream, k) \in Nat /\ conn.read \in Nat
            /\ At(conn.stream, k + 1) = At(conn.stream, k) + Total(Front)
            /\ At(conn.stream, k + 1) <= conn.read /\ Total(Front) \in Nat
            /\ SubSeq(Buf, Total(Front) + 1, Len(Buf)) = Bytes(At(conn.stream, k + 1), conn.read)
<1> DEFINE conn == tcp[Peer]
           k == Done(cur)
<1>0. /\ LP!IInv /\ ServerTypes /\ StepOK /\ KernelOK /\ StreamsOK /\ BuffersOK
  BY DEF IInv, ServerInv
<1>1. cur \in Conns /\ DOMAIN connections = Conns
  BY <1>0 DEF StepOK, ServerTypes
<1>2. /\ Peer \in Clients /\ conn \in Tcp /\ conn.phase = "accepted" /\ sock[cur] = Peer
      /\ seen[Peer] \in Seq(Msgs) /\ connections[cur] \in Connection
  BY <1>0, <1>1, PeerIsClient DEF Peer
<1>3. StreamOK(conn, seen[Peer])
  BY <1>0, <1>2 DEF StreamsOK
<1>4. k = IF step = "respond" THEN Len(seen[Peer]) - 1 ELSE Len(seen[Peer])
  BY <1>2 DEF Done, InHand
<1>5. Buffered(conn, k, Buf) /\ (step = "respond" => NextWhole(conn, k))
  <2>1. BufferOK(cur)
    BY <1>0, <1>1 DEF BuffersOK
  <2> QED BY <2>1 DEF BufferOK, Buf, Peer, InHand
<1>6. NextWhole(conn, k) /\ Front = conn.stream[k + 1].msg /\ Front \in Msgs
  <2> HIDE DEF conn, k
  <2>1. Front = conn.stream[CHOOSE i \in DOMAIN conn.stream :
                   /\ conn.stream[i].at <= Buf[1]
                   /\ Buf[1] < conn.stream[i].at + Total(conn.stream[i].msg)].msg
    BY DEF Front, conn
  <2>2. /\ NextWhole(conn, k) => Front = conn.stream[k + 1].msg /\ Front \in Msgs
        /\ Len(Buf) >= DOIP_HEADER_SIZE /\ Len(Buf) >= Total(Front) => NextWhole(conn, k)
    BY <1>2, <1>3, <1>5, <2>1, ParseTest, Zenon
  <2> QED BY <2>2, <1>5 DEF Complete
<1>7. /\ conn.stream \in Streams /\ conn.read \in Nat /\ Chained(conn.stream)
      /\ k \in 0..Len(conn.stream) /\ k < Len(conn.stream)
      /\ At(conn.stream, k + 1) <= conn.read /\ At(conn.stream, k) <= conn.read
      /\ Buf = Bytes(At(conn.stream, k), conn.read)
  BY <1>2, <1>3, <1>5, <1>6 DEF Tcp, StreamOK, Buffered, NextWhole
<1>8. /\ At(conn.stream, k) \in Nat /\ At(conn.stream, k + 1) = At(conn.stream, k) + Total(Front)
      /\ Total(Front) \in Nat
  BY <1>6, <1>7, NextMessage, TotalType
<1>9. SubSeq(Buf, Total(Front) + 1, Len(Buf)) = Bytes(At(conn.stream, k + 1), conn.read)
  <2> HIDE DEF conn, k
  <2>1. At(conn.stream, k) + Total(Front) <= conn.read
    BY <1>7, <1>8
  <2>2. SubSeq(Bytes(At(conn.stream, k), conn.read), Total(Front) + 1,
               Len(Bytes(At(conn.stream, k), conn.read)))
          = Bytes(At(conn.stream, k) + Total(Front), conn.read)
    BY <2>1, <1>7, <1>8, BytesConsumed, Zenon
  <2> QED BY <2>2, <1>7, <1>8
<1> QED BY <1>1, <1>2, <1>3, <1>4, <1>5, <1>6, <1>7, <1>8, <1>9

(***************************************************************************)
(* send() changes at most what is known of the tester's end.               *)
(***************************************************************************)
LEMMA SendStep ==
  ASSUME ServerTypes, NEW c \in Clients, NEW replies, send_to_client(c, replies)
  PROVE  /\ tcp' \in [Clients -> Tcp]
         /\ \A d \in Clients : d # c => tcp'[d] = tcp[d]
         /\ \A d \in Clients : /\ tcp'[d].stream = tcp[d].stream /\ tcp'[d].phase = tcp[d].phase
                               /\ tcp'[d].arr = tcp[d].arr /\ tcp'[d].read = tcp[d].read
                               /\ tcp'[d].peer = "up" <=> tcp[d].peer = "up"
<1>1. CASE tcp' = tcp
  BY <1>1 DEF ServerTypes
<1>2. CASE tcp' = [tcp EXCEPT ![c].peer = IF @ = "rst" THEN "dead" ELSE @]
  <2> DEFINE e == IF tcp[c].peer = "rst" THEN "dead" ELSE tcp[c].peer
  <2>1. tcp \in [Clients -> Tcp] /\ tcp' = [tcp EXCEPT ![c] = [tcp[c] EXCEPT !.peer = e]]
    BY <1>2 DEF ServerTypes
  <2>2. e \in {"up", "fin", "rst", "dead"} /\ (e = "up" <=> tcp[c].peer = "up")
    BY <2>1 DEF Tcp
  <2> HIDE DEF e
  <2>3. [tcp[c] EXCEPT !.peer = e] \in Tcp
    BY <2>1, <2>2 DEF Tcp
  <2>4. \A d \in Clients : tcp'[d] = IF d = c THEN [tcp[c] EXCEPT !.peer = e] ELSE tcp[d]
    BY <2>1
  <2>5. tcp' \in [Clients -> Tcp]
    BY <2>1, <2>3
  <2> QED BY <2>1, <2>2, <2>4, <2>5 DEF Tcp
<1> QED BY <1>1, <1>2, Zenon DEF send_to_client

(***************************************************************************)
(* What both halves of the loop's body have in common.                     *)
(***************************************************************************)
LEMMA MessageStep ==
  ASSUME IInv, pc = "callback", (step = "parse" /\ Complete) \/ step = "respond",
         UNCHANGED <<loopVars, backlog, sock>>, step' \in {"parse", "respond"},
         NEW replies, send_to_client(Peer, replies),
         connections' \in [Conns -> Connection],
         \A f \in Conns : f # cur => connections'[f] = connections[f],
         seen' \in [Clients -> Seq(Msgs)], \A c \in Clients : c # Peer => seen'[c] = seen[c],
         StreamOK(tcp[Peer], seen'[Peer]),
         LET k == IF step' = "respond" THEN Len(seen'[Peer]) - 1 ELSE Len(seen'[Peer])
         IN /\ Buffered(tcp[Peer], k, connections'[cur].recv_buf)
            /\ step' = "respond" => NextWhole(tcp[Peer], k)
  PROVE  ServerInv' /\ UNCHANGED <<loopVars, Ready>>
<1>0. /\ LP!IInv /\ ServerTypes /\ StepOK /\ KernelOK /\ GenOK /\ StreamsOK /\ BuffersOK
      /\ ClosedOnlyWhenDone
  BY DEF IInv, ServerInv
<1> DEFINE p == Peer
<1>1. /\ cur \in Conns /\ p \in Clients /\ tcp[p] \in Tcp /\ tcp[p].phase = "accepted"
      /\ sock[cur] = p
  BY ParseFacts DEF Peer
<1>2. UNCHANGED <<open, gen, batch, cur, pc>> /\ Conns' = Conns
  BY DEF Conns, loopVars
<1>3. /\ tcp' \in [Clients -> Tcp]
      /\ \A d \in Clients : d # p => tcp'[d] = tcp[d]
      /\ \A d \in Clients : /\ tcp'[d].stream = tcp[d].stream /\ tcp'[d].phase = tcp[d].phase
                            /\ tcp'[d].arr = tcp[d].arr /\ tcp'[d].read = tcp[d].read
                            /\ tcp'[d].peer = "up" <=> tcp[d].peer = "up"
  BY <1>0, <1>1, SendStep
<1> HIDE DEF p
<1>4. ServerTypes'
  BY <1>0, <1>2, <1>3 DEF ServerTypes
<1>5. KernelOK' /\ GenOK'
  BY <1>0, <1>2, <1>3, KernelFrame, GenFrame
<1>6. ClosedOnlyWhenDone'
  <2>1. \A c \in Clients : tcp'[c].phase = "closed" => tcp'[c] = tcp[c] /\ seen'[c] = seen[c]
    BY <1>1, <1>3 DEF p
  <2> QED BY <2>1, <1>0, ClosedFrame
<1>7. StreamsOK'
  <2>1. \A c \in Clients : StreamOK(tcp[c], seen'[c])
    BY <1>0 DEF StreamsOK
  <2>2. \A c \in Clients : StreamOK(tcp[c], seen'[c]) => StreamOK(tcp'[c], seen'[c])
    BY <1>3 DEF StreamOK
  <2> QED BY <2>1, <2>2 DEF StreamsOK
<1>8. BuffersOK'
  <2>1. ASSUME NEW f \in Conns, f # cur PROVE BufferOK(f)'
    <3>1. InHand(f)' = InHand(f) /\ (Parsing(f) => Parsing(f)') /\ BufferOK(f)
      BY <2>1, <1>0, <1>2 DEF InHand, Parsing, BuffersOK
    <3>2. sock[f] \in Clients /\ sock[f] # p
      BY <2>1, <1>0, <1>1, PeerIsClient DEF KernelOK
    <3>3. /\ sock'[f] = sock[f] /\ tcp'[sock[f]] = tcp[sock[f]]
          /\ connections'[f] = connections[f] /\ seen'[sock[f]] = seen[sock[f]]
      BY <2>1, <3>2, <1>3 DEF p
    <3> QED BY <3>1, <3>3, BufferFrame
  <2>2. ASSUME NEW f \in Conns, f = cur PROVE BufferOK(f)'
    <3> DEFINE k == IF step' = "respond" THEN Len(seen'[p]) - 1 ELSE Len(seen'[p])
    <3>1. sock'[f] = p /\ Parsing(f)' /\ InHand(f)' = IF step' = "respond" THEN 1 ELSE 0
      BY <2>2, <1>1, <1>2 DEF InHand, Parsing
    <3>2. Done(f)' = k
      <4>1. Len(seen'[p]) \in Nat
        BY <1>1
      <4> QED BY <3>1, <4>1 DEF Done
    <3>3. Buffered(tcp[p], k, connections'[f].recv_buf) /\ (step' = "respond" => NextWhole(tcp[p], k))
      BY <2>2 DEF p
    <3> HIDE DEF k
    <3>4. Buffered(tcp'[p], k, connections'[f].recv_buf) /\ (step' = "respond" => NextWhole(tcp'[p], k))
      BY <3>3, <1>1, <1>3 DEF Buffered, NextWhole
    <3> QED BY <3>1, <3>2, <3>4 DEF BufferOK
  <2> QED BY <2>1, <2>2, <1>2, Zenon DEF BuffersOK
<1>9. Ready' = Ready
  <2>1. \A f \in open : f # ListenFd => sock[f] \in Clients
    BY <1>0, PeerIsClient DEF Conns
  <2> QED BY <2>1, <1>2, <1>3 DEF Ready
<1>10. StepOK'
  BY <1>0, <1>1, <1>2, <1>9 DEF StepOK
<1> QED BY <1>4, <1>5, <1>6, <1>7, <1>8, <1>9, <1>10 DEF ServerInv

LEMMA HandleStep ==
  ASSUME IInv, HandleMessage
  PROVE  ServerInv' /\ UNCHANGED L!vars
<1> DEFINE m == Front
           conn == Activate(connections[cur], m)
           p == Peer
           s == tcp[p].stream
           k == Len(seen[p])
<1>1. /\ pc = "callback" /\ step = "parse" /\ Complete
      /\ send_to_client(p, FirstReply(m))
      /\ seen' = [seen EXCEPT ![p] = Append(@, m)]
      /\ \/ IsDiagnostic(m) /\ step' = "respond" /\ connections' = [connections EXCEPT ![cur] = conn]
         \/ step' = step /\ connections' = [connections EXCEPT ![cur] = Consume(conn, m)]
      /\ UNCHANGED <<loopVars, backlog, sock>>
  BY DEF HandleMessage
<1>2. ServerTypes
  BY DEF IInv, ServerInv
<1>3. /\ cur \in Conns /\ connections[cur] \in Connection
      /\ p \in Clients /\ tcp[p] \in Tcp /\ tcp[p].phase = "accepted" /\ seen[p] \in Seq(Msgs)
      /\ StreamOK(tcp[p], seen[p]) /\ m \in Msgs /\ Total(m) \in Nat
      /\ Done(cur) = k /\ Buffered(tcp[p], k, Buf) /\ NextWhole(tcp[p], k)
      /\ m = s[k + 1].msg /\ k \in 0..Len(s) /\ s \in Streams
      /\ At(s, k) \in Nat /\ tcp[p].read \in Nat /\ At(s, k + 1) = At(s, k) + Total(m)
      /\ At(s, k + 1) <= tcp[p].read
      /\ SubSeq(Buf, Total(m) + 1, Len(Buf)) = Bytes(At(s, k + 1), tcp[p].read)
  BY <1>1, ParseFacts
<1>4. conn \in Connection /\ conn.recv_buf = Buf
  <2>1. m.src \in Nat
    BY <1>3, ServerAssumption
  <2> HIDE DEF m
  <2> QED BY <2>1, <1>3 DEF Activate, Connection, Buf
<1>5. Consume(conn, m) \in Connection /\ Consume(conn, m).recv_buf = Bytes(At(s, k + 1), tcp[p].read)
  <2> HIDE DEF m, conn, s, k, p
  <2>1. Consume(conn, m) = [conn EXCEPT !.recv_buf = Bytes(At(s, k + 1), tcp[p].read)]
    BY <1>3, <1>4, Zenon DEF Consume
  <2>2. At(s, k + 1) \in Nat
    BY <1>3
  <2>3. Bytes(At(s, k + 1), tcp[p].read) \in Seq(Nat)
    BY <2>2, <1>3, BytesType
  <2> QED BY <2>1, <2>3, <1>4 DEF Connection
<1> HIDE DEF m, conn, p, s, k
<1>6. /\ seen' \in [Clients -> Seq(Msgs)] /\ \A c \in Clients : c # p => seen'[c] = seen[c]
      /\ seen'[p] = Append(seen[p], m)
  <2>1. Append(seen[p], m) \in Seq(Msgs)
    BY <1>3, AppendProperties
  <2> QED BY <2>1, <1>1, <1>2, <1>3 DEF ServerTypes
<1>7. /\ Len(seen'[p]) = k + 1 /\ k \in Nat /\ seen'[p][k + 1] = m
      /\ \A i \in 1..k : seen'[p][i] = seen[p][i]
  BY <1>3, <1>6, AppendProperties DEF k
<1>8. StreamOK(tcp[p], seen'[p])
  <2>1. k + 1 <= Len(s) /\ Len(s) \in Nat
    BY <1>3, <1>7, SMTT(30) DEF NextWhole, s, Streams
  <2>2. ASSUME NEW i \in 1..(k + 1) PROVE seen'[p][i] = s[i].msg
    <3>1. CASE i = k + 1
      BY <3>1, <1>3, <1>7
    <3>2. CASE i # k + 1
      <4>1. i \in 1..k
        BY <3>2, <1>7
      <4> QED BY <4>1, <1>3, <1>7 DEF StreamOK, k, s
    <3> QED BY <3>1, <3>2
  <2> QED BY <2>1, <2>2, <1>3, <1>7 DEF StreamOK, s
<1>9. CASE step' = "respond" /\ connections' = [connections EXCEPT ![cur] = conn]
  <2>1. /\ connections' \in [Conns -> Connection] /\ connections'[cur].recv_buf = Buf
        /\ \A f \in Conns : f # cur => connections'[f] = connections[f]
    BY <1>2, <1>3, <1>4, <1>9 DEF ServerTypes
  <2>2. Len(seen'[p]) - 1 = k
    BY <1>7
  <2> QED BY <2>1, <2>2, <1>1, <1>3, <1>6, <1>8, <1>9, MessageStep DEF L!vars, L!loopVars, loopVars, p
<1>10. CASE step' = step /\ connections' = [connections EXCEPT ![cur] = Consume(conn, m)]
  <2>1. /\ connections' \in [Conns -> Connection]
        /\ connections'[cur].recv_buf = Bytes(At(s, k + 1), tcp[p].read)
        /\ \A f \in Conns : f # cur => connections'[f] = connections[f]
    BY <1>2, <1>3, <1>5, <1>10 DEF ServerTypes
  <2>2. Buffered(tcp[p], k + 1, connections'[cur].recv_buf)
    <3>1. k + 1 \in 0..Len(s)
      BY <1>3, <1>7 DEF NextWhole, s, Streams
    <3>2. At(s, k + 1) <= tcp[p].read /\ tcp[p].read - At(s, k + 1) <= RECV_BUF
      <4>1. tcp[p].read - At(s, k) <= RECV_BUF
        BY <1>3 DEF Buffered, s
      <4>2. RECV_BUF \in Nat
        BY ServerAssumption
      <4> QED BY <4>1, <4>2, <1>3, SMTT(30)
    <3> QED BY <2>1, <3>1, <3>2 DEF Buffered, s
  <2> QED BY <2>1, <2>2, <1>1, <1>3, <1>6, <1>7, <1>8, <1>10, MessageStep DEF L!vars, L!loopVars, loopVars, p
<1> QED BY <1>1, <1>9, <1>10

LEMMA RespondStep ==
  ASSUME IInv, Respond
  PROVE  ServerInv' /\ UNCHANGED L!vars
<1> DEFINE m == Front
           p == Peer
           s == tcp[p].stream
           k == Len(seen[p]) - 1
<1>1. /\ pc = "callback" /\ step = "respond" /\ step' = "parse"
      /\ send_to_client(p, owed)
      /\ connections' = [connections EXCEPT ![cur] = Consume(@, m)]
      /\ UNCHANGED <<loopVars, backlog, sock, seen>>
  BY DEF Respond
<1>2. ServerTypes
  BY DEF IInv, ServerInv
<1>3. /\ cur \in Conns /\ connections[cur] \in Connection
      /\ p \in Clients /\ tcp[p] \in Tcp /\ seen[p] \in Seq(Msgs)
      /\ StreamOK(tcp[p], seen[p]) /\ Buffered(tcp[p], k, Buf) /\ NextWhole(tcp[p], k)
      /\ k \in 0..Len(s) /\ s \in Streams /\ Total(m) \in Nat
      /\ At(s, k) \in Nat /\ tcp[p].read \in Nat /\ At(s, k + 1) = At(s, k) + Total(m)
      /\ At(s, k + 1) <= tcp[p].read
      /\ SubSeq(Buf, Total(m) + 1, Len(Buf)) = Bytes(At(s, k + 1), tcp[p].read)
  BY <1>1, ParseFacts
<1>4. k + 1 = Len(seen[p]) /\ k + 1 \in 0..Len(s)
  <2>1. Len(seen[p]) \in Nat /\ Len(s) \in Nat
    BY <1>3 DEF Streams
  <2> QED BY <2>1, <1>3 DEF NextWhole
<1> HIDE DEF m, p, s, k
<1>5. /\ connections' \in [Conns -> Connection]
      /\ connections'[cur].recv_buf = Bytes(At(s, k + 1), tcp[p].read)
      /\ \A f \in Conns : f # cur => connections'[f] = connections[f]
  <2> DEFINE conn == [connections[cur] EXCEPT !.recv_buf = Bytes(At(s, k + 1), tcp[p].read)]
  <2>1. Consume(connections[cur], m) = conn
    BY <1>3, Zenon DEF Consume, Buf
  <2>2. At(s, k + 1) \in Nat
    BY <1>3
  <2>3. Bytes(At(s, k + 1), tcp[p].read) \in Seq(Nat)
    BY <2>2, <1>3, BytesType
  <2>4. conn \in Connection /\ conn.recv_buf = Bytes(At(s, k + 1), tcp[p].read)
    BY <2>3, <1>3 DEF Connection
  <2> HIDE DEF conn
  <2>5. connections' = [connections EXCEPT ![cur] = conn]
    BY <2>1, <1>1
  <2> QED BY <2>4, <2>5, <1>2, <1>3 DEF ServerTypes
<1>6. Buffered(tcp[p], k + 1, connections'[cur].recv_buf)
  <2>1. At(s, k + 1) <= tcp[p].read /\ tcp[p].read - At(s, k + 1) <= RECV_BUF
    <3>1. tcp[p].read - At(s, k) <= RECV_BUF
      BY <1>3 DEF Buffered, s
    <3>2. RECV_BUF \in Nat
      BY ServerAssumption
    <3> QED BY <3>1, <3>2, <1>3, SMTT(30)
  <2> QED BY <2>1, <1>4, <1>5 DEF Buffered, s
<1>7. seen' \in [Clients -> Seq(Msgs)] /\ seen' = seen
  BY <1>1, <1>2 DEF ServerTypes
<1> QED BY <1>1, <1>3, <1>4, <1>5, <1>6, <1>7, MessageStep DEF L!vars, L!loopVars, loopVars, p

-----------------------------------------------------------------------------
(***************************************************************************)
(* Testers and the network.  What they do adds to the readiness of one     *)
(* descriptor at most, and takes nothing away from a stream that was read. *)
(***************************************************************************)
LEMMA NetworkStep ==
  ASSUME IInv, Network, ~L!Terminated, NEW c \in Clients,
         tcp' \in [Clients -> Tcp], \A d \in Clients : d # c => tcp'[d] = tcp[d],
         tcp[c].phase # "closed", tcp'[c].phase # "closed",
         tcp'[c].phase = "accepted" <=> tcp[c].phase = "accepted",
         backlog' \in Seq(Clients), KernelOK',
         \/ backlog' = backlog
         \/ tcp[c].phase # "accepted" /\ backlog' # <<>>,
         StreamOK(tcp'[c], seen[c]),
         \A k, buf : Buffered(tcp[c], k, buf) =>
           /\ Buffered(tcp'[c], k, buf)
           /\ NextPartial(tcp[c], k) => NextPartial(tcp'[c], k)
           /\ NextWhole(tcp[c], k) => NextWhole(tcp'[c], k),
         tcp[c].arr > tcp[c].read \/ tcp[c].peer # "up" =>
           tcp'[c].arr > tcp'[c].read \/ tcp'[c].peer # "up"
  PROVE  ServerInv' /\ [L!Next]_(L!vars)
<1>0. /\ LP!IInv /\ ServerTypes /\ StepOK /\ KernelOK /\ GenOK /\ StreamsOK /\ BuffersOK
      /\ ClosedOnlyWhenDone
  BY DEF IInv, ServerInv
<1>1. /\ UNCHANGED <<connections, step, owed, sock, seen, out, open, gen, batch, cur, pc>>
      /\ UNCHANGED loopVars /\ Conns' = Conns
  BY DEF Network, Conns, loopVars
<1>2. ServerTypes'
  BY <1>0, <1>1 DEF ServerTypes
<1>3. GenOK'
  <2>1. \A d \in Clients : tcp'[d].phase \in {"accepted", "closed"}
                             <=> tcp[d].phase \in {"accepted", "closed"}
    OBVIOUS
  <2> QED BY <2>1, <1>0, <1>1, GenFrame
<1>4. StreamsOK'
  BY <1>0, <1>1 DEF StreamsOK
<1>5. ClosedOnlyWhenDone'
  <2>1. \A d \in Clients : tcp'[d].phase = "closed" => tcp'[d] = tcp[d] /\ seen'[d] = seen[d]
    BY <1>1
  <2> QED BY <2>1, <1>0, ClosedFrame
<1>6. BuffersOK'
  <2>1. ASSUME NEW f \in Conns PROVE BufferOK(f)'
    <3>1. /\ InHand(f)' = InHand(f) /\ Parsing(f)' = Parsing(f) /\ BufferOK(f)
          /\ sock'[f] = sock[f] /\ sock[f] \in Clients
      BY <1>0, <1>1, PeerIsClient DEF InHand, Parsing, BuffersOK
    <3>2. CASE sock[f] # c
      <4>1. tcp'[sock[f]] = tcp[sock[f]]
        BY <3>1, <3>2
      <4> QED BY <3>1, <4>1, <1>1, BufferFrame
    <3>3. CASE sock[f] = c
      <4>1. Done(f)' = Done(f) /\ connections' = connections
        BY <3>1, <1>1 DEF Done
      <4> QED BY <3>1, <3>3, <4>1 DEF BufferOK
    <3> QED BY <3>2, <3>3
  <2> QED BY <2>1, <1>1, Zenon DEF BuffersOK
<1>7. \A f \in open : f # ListenFd => f \in Conns /\ sock[f] \in Clients
  BY <1>0, PeerIsClient DEF Conns
<1>8. \A f \in open : f # ListenFd /\ sock[f] # c => (f \in Ready' <=> f \in Ready)
  BY <1>1, <1>7 DEF Ready
<1>9. Ready \subseteq Ready' /\ Ready' \subseteq open /\ open \subseteq Fds
  <2>1. ASSUME NEW f \in Ready PROVE f \in Ready'
    <3>1. f \in open /\ f \in open'
      BY <1>1 DEF Ready
    <3>2. CASE f = ListenFd
      BY <3>1, <3>2 DEF Ready
    <3>3. CASE f # ListenFd /\ sock[f] # c
      BY <3>1, <3>3, <1>8
    <3>4. CASE f # ListenFd /\ sock[f] = c
      BY <3>1, <3>4, <1>1 DEF Ready
    <3> QED BY <3>2, <3>3, <3>4
  <2> QED BY <2>1, <1>0, <1>1, LoopFacts DEF Ready
<1>10. StepOK'
  BY <1>0, <1>1, <1>9 DEF StepOK
<1>11. \A f, g \in Ready' \ Ready : f = g
  <2>1. CASE backlog' = backlog
    <3>1. ListenFd \in Ready' => ListenFd \in Ready
      BY <2>1, <1>1 DEF Ready
    <3>2. \A f \in Ready' \ Ready : f \in Conns /\ sock[f] = c
      BY <3>1, <1>7, <1>8, <1>9
    <3> QED BY <3>2, <1>0 DEF KernelOK
  <2>2. CASE tcp[c].phase # "accepted"
    <3>1. \A f \in Conns : sock[f] # c
      BY <2>2, <1>0 DEF KernelOK
    <3> QED BY <3>1, <1>7, <1>8, <1>9
  <2> QED BY <2>1, <2>2
<1>12. [L!Next]_(L!vars)
  <2>1. CASE Ready' = Ready
    BY <2>1, <1>1 DEF L!vars, L!loopVars, loopVars
  <2>2. CASE Ready' # Ready
    <3>1. PICK f \in Ready' : f \notin Ready
      BY <2>2, <1>9
    <3>2. Ready' = Ready \cup {f} /\ f \in open \ Ready /\ f \in Fds
      BY <3>1, <1>9, <1>11
    <3>3. L!Arrive(f)
      BY <3>2, <1>1 DEF L!Arrive, loopVars, L!loopVars
    <3> QED BY <3>2, <3>3 DEF L!Next, L!Kernel
  <2> QED BY <2>1, <2>2
<1> QED BY <1>2, <1>3, <1>4, <1>5, <1>6, <1>10, <1>12 DEF ServerInv

LEMMA ConnectStep ==
  ASSUME IInv, NEW c \in Clients, Connect(c)
  PROVE  ServerInv' /\ [L!Next]_(L!vars)
<1>0. ServerTypes /\ KernelOK /\ StreamsOK
  BY DEF IInv, ServerInv
<1>1. /\ ~L!Terminated /\ tcp[c].phase = "new" /\ backlog' = Append(backlog, c) /\ Network
      /\ tcp' = [tcp EXCEPT ![c].phase = "backlog"]
  BY DEF Connect
<1>2. /\ tcp' \in [Clients -> Tcp] /\ \A d \in Clients : d # c => tcp'[d] = tcp[d]
      /\ tcp'[c].stream = tcp[c].stream /\ tcp'[c].read = tcp[c].read
      /\ tcp'[c].arr = tcp[c].arr /\ tcp'[c].peer = tcp[c].peer /\ tcp'[c].phase = "backlog"
  BY <1>0, <1>1 DEF ServerTypes, Tcp
<1>3. /\ backlog' \in Seq(Clients) /\ backlog' # <<>> /\ Len(backlog) \in Nat
      /\ DOMAIN backlog = 1..Len(backlog) /\ DOMAIN backlog' = 1..(Len(backlog) + 1)
      /\ \A i \in 1..Len(backlog) : backlog'[i] = backlog[i]
      /\ backlog'[Len(backlog) + 1] = c
  BY <1>0, <1>1, AppendProperties DEF ServerTypes
<1>4. KernelOK'
  <2>1. UNCHANGED <<open, sock>> /\ Conns' = Conns
    BY <1>1 DEF Network, loopVars, Conns
  <2>2. /\ \A fd \in Fds : sock[fd] # NoClient <=> fd \in Conns
        /\ \A f, g \in Conns : sock[f] = sock[g] => f = g
    BY <1>0 DEF KernelOK
  <2>3. \A d \in Clients : tcp'[d].phase = "accepted" <=> \E fd \in Conns : sock[fd] = d
    <3>1. \A d \in Clients : tcp[d].phase = "accepted" <=> \E fd \in Conns : sock[fd] = d
      BY <1>0 DEF KernelOK
    <3>2. \A d \in Clients : tcp'[d].phase = "accepted" <=> tcp[d].phase = "accepted"
      BY <1>1, <1>2
    <3> QED BY <3>1, <3>2
  <2>4. \A i \in 1..Len(backlog) :
          backlog[i] \in Clients /\ backlog[i] # c /\ tcp'[backlog[i]].phase = "backlog"
    <3>1. \A i \in 1..Len(backlog) : backlog[i] \in Clients /\ tcp[backlog[i]].phase = "backlog"
      BY <1>0, <1>3 DEF KernelOK
    <3> QED BY <3>1, <1>1, <1>2
  <2>5. \A i, j \in 1..Len(backlog) : backlog[i] = backlog[j] => i = j
    BY <1>0, <1>3 DEF KernelOK
  <2>6. \A i \in 1..(Len(backlog) + 1) : i \in 1..Len(backlog) \/ i = Len(backlog) + 1
    BY <1>3
  <2>7. \A i \in DOMAIN backlog' : tcp'[backlog'[i]].phase = "backlog"
    BY <2>4, <2>6, <1>2, <1>3
  <2>8. \A i, j \in DOMAIN backlog' : backlog'[i] = backlog'[j] => i = j
    BY <2>4, <2>5, <2>6, <1>3
  <2> QED BY <2>1, <2>2, <2>3, <2>7, <2>8 DEF KernelOK
<1>5. StreamOK(tcp'[c], seen[c])
  BY <1>0, <1>1, <1>2 DEF StreamsOK, StreamOK
<1>6. \A k, buf : Buffered(tcp[c], k, buf) =>
           /\ Buffered(tcp'[c], k, buf)
           /\ NextPartial(tcp[c], k) => NextPartial(tcp'[c], k)
           /\ NextWhole(tcp[c], k) => NextWhole(tcp'[c], k)
  BY <1>2 DEF Buffered, NextPartial, NextWhole
<1> QED BY <1>1, <1>2, <1>3, <1>4, <1>5, <1>6, NetworkStep

LEMMA SendMsgStep ==
  ASSUME IInv, NEW c \in Clients, NEW m \in Msgs, SendMsg(c, m)
  PROVE  ServerInv' /\ [L!Next]_(L!vars)
<1>0. ServerTypes /\ KernelOK /\ StreamsOK
  BY DEF IInv, ServerInv
<1> DEFINE s == tcp[c].stream
           t == Append(s, [msg |-> m, at |-> StreamEnd(s)])
<1>1. /\ ~L!Terminated /\ tcp[c].phase \in {"backlog", "accepted"} /\ Network
      /\ tcp' = [tcp EXCEPT ![c].stream = t] /\ backlog' = backlog
  BY <1>0 DEF SendMsg, Live, ServerTypes
<1>2. /\ tcp[c] \in Tcp /\ s \in Streams /\ tcp[c].read \in Nat /\ tcp[c].arr \in Nat
      /\ StreamOK(tcp[c], seen[c]) /\ Chained(s) /\ seen[c] \in Seq(Msgs)
  BY <1>0 DEF ServerTypes, Tcp, StreamsOK, StreamOK
<1>3. /\ t \in Streams /\ Chained(t) /\ Len(t) = Len(s) + 1 /\ Len(s) \in Nat
      /\ \A k \in 0..Len(s) : At(t, k) = At(s, k)
      /\ \A k \in 1..Len(s) : t[k] = s[k]
      /\ At(t, Len(t)) >= At(s, Len(s)) /\ At(t, Len(t)) > At(s, Len(s))
  <2>1. Len(s) \in Nat
    BY <1>2 DEF Streams
  <2> QED BY <2>1, <1>2, StreamGrows
<1>4. At(s, Len(s)) \in Nat /\ At(t, Len(t)) \in Nat
  <2>1. Len(s) \in 0..Len(s) /\ Len(t) \in 0..Len(t)
    BY <1>3
  <2> QED BY <2>1, <1>2, <1>3, AtType
<1> HIDE DEF s, t
<1>5. /\ tcp' \in [Clients -> Tcp] /\ \A d \in Clients : d # c => tcp'[d] = tcp[d]
      /\ tcp'[c].stream = t /\ tcp'[c].read = tcp[c].read
      /\ tcp'[c].arr = tcp[c].arr /\ tcp'[c].peer = tcp[c].peer /\ tcp'[c].phase = tcp[c].phase
  BY <1>0, <1>1, <1>2, <1>3 DEF ServerTypes, Tcp
<1>6. KernelOK'
  <2>1. UNCHANGED <<open, sock>>
    BY <1>1 DEF Network, loopVars
  <2> QED BY <2>1, <1>0, <1>1, <1>5, KernelFrame
<1>7. StreamOK(tcp'[c], seen[c])
  <2>1. tcp[c].arr <= At(t, Len(t))
    BY <1>2, <1>3, <1>4 DEF StreamOK, s
  <2>2. Len(seen[c]) <= Len(t) /\ \A i \in 1..Len(seen[c]) : seen[c][i] = t[i].msg
    <3>1. Len(seen[c]) \in Nat /\ Len(seen[c]) <= Len(s)
      BY <1>2 DEF StreamOK, s
    <3>2. \A i \in 1..Len(seen[c]) : seen[c][i] = s[i].msg
      BY <1>2 DEF StreamOK, s
    <3> QED BY <3>1, <3>2, <1>3
  <2> QED BY <2>1, <2>2, <1>1, <1>2, <1>3, <1>5 DEF StreamOK
<1>8. ASSUME NEW k, NEW buf, Buffered(tcp[c], k, buf)
      PROVE  /\ Buffered(tcp'[c], k, buf)
             /\ NextPartial(tcp[c], k) => NextPartial(tcp'[c], k)
             /\ NextWhole(tcp[c], k) => NextWhole(tcp'[c], k)
  <2>1. /\ k \in 0..Len(s) /\ At(s, k) <= tcp[c].read /\ tcp[c].read - At(s, k) <= RECV_BUF
        /\ buf = Bytes(At(s, k), tcp[c].read)
    BY <1>8 DEF Buffered, s
  <2>2. k \in 0..Len(t) /\ At(t, k) = At(s, k)
    BY <2>1, <1>3
  <2>3. Buffered(tcp'[c], k, buf)
    BY <2>1, <2>2, <1>5 DEF Buffered
  <2>4. k < Len(s) => At(t, k + 1) = At(s, k + 1) /\ k < Len(t)
    BY <2>1, <1>3
  <2>5. k = Len(s) => tcp[c].read < At(t, k + 1)
    <3>1. tcp[c].read <= At(s, Len(s))
      BY <1>2, <1>4 DEF StreamOK, s
    <3> QED BY <3>1, <1>2, <1>3, <1>4
  <2>6. NextPartial(tcp[c], k) => NextPartial(tcp'[c], k)
    <3>1. k < Len(s) \/ k = Len(s)
      BY <2>1, <1>3
    <3> QED BY <3>1, <2>4, <2>5, <1>5 DEF NextPartial, s
  <2>7. NextWhole(tcp[c], k) => NextWhole(tcp'[c], k)
    BY <2>4, <1>5 DEF NextWhole, s
  <2> QED BY <2>3, <2>6, <2>7
<1> QED BY <1>1, <1>5, <1>6, <1>7, <1>8, <1>0, NetworkStep DEF ServerTypes

LEMMA ArrivalStep ==
  ASSUME IInv, NEW c \in Clients, Deliver(c) \/ Fin(c) \/ Reset(c)
  PROVE  ServerInv' /\ [L!Next]_(L!vars)
<1>0. ServerTypes /\ KernelOK /\ StreamsOK
  BY DEF IInv, ServerInv
<1>1. /\ ~L!Terminated /\ tcp[c].phase \in {"backlog", "accepted"} /\ Network /\ backlog' = backlog
  BY DEF Deliver, Fin, Reset, Live
<1>2. /\ tcp \in [Clients -> Tcp] /\ tcp[c] \in Tcp /\ tcp[c].stream \in Streams
      /\ tcp[c].read \in Nat /\ tcp[c].arr \in Nat /\ tcp[c].read <= tcp[c].arr
      /\ StreamOK(tcp[c], seen[c])
  BY <1>0 DEF ServerTypes, Tcp, StreamsOK, StreamOK
<1>3. StreamEnd(tcp[c].stream) \in Nat /\ tcp[c].arr <= StreamEnd(tcp[c].stream)
      /\ StreamEnd(tcp[c].stream) = At(tcp[c].stream, Len(tcp[c].stream))
  <2>1. Len(tcp[c].stream) \in 0..Len(tcp[c].stream)
    BY <1>2 DEF Streams
  <2>2. At(tcp[c].stream, Len(tcp[c].stream)) \in Nat
    BY <2>1, <1>2, AtType
  <2> QED BY <2>2, <1>2, EndIsAt DEF StreamOK
<1>4. \E a \in Nat, e \in {"up", "fin", "rst", "dead"} :
        /\ tcp' = [tcp EXCEPT ![c] = [tcp[c] EXCEPT !.arr = a, !.peer = e]]
        /\ tcp[c].read <= a /\ a <= StreamEnd(tcp[c].stream)
        /\ tcp[c].arr > tcp[c].read \/ tcp[c].peer # "up" => a > tcp[c].read \/ e # "up"
  <2>1. CASE Deliver(c)
    <3>1. PICK n \in Chunks :
            tcp' = [tcp EXCEPT ![c].arr = Min({@ + n, StreamEnd(tcp[c].stream)})]
      BY <2>1 DEF Deliver
    <3> DEFINE a == Min({tcp[c].arr + n, StreamEnd(tcp[c].stream)})
    <3>2. n \in Nat /\ n > 0
      BY ServerAssumption
    <3>3. tcp[c].arr + n \in Int /\ StreamEnd(tcp[c].stream) \in Int
      BY <3>2, <1>2, <1>3
    <3>4. a = IF tcp[c].arr + n <= StreamEnd(tcp[c].stream) THEN tcp[c].arr + n
              ELSE StreamEnd(tcp[c].stream)
      BY <3>3, MinOfTwo, Zenon
    <3>5. a \in Nat /\ a >= tcp[c].arr /\ a <= StreamEnd(tcp[c].stream)
      <4> HIDE DEF a
      <4> QED BY <3>2, <3>4, <1>2, <1>3
    <3>6. tcp' = [tcp EXCEPT ![c] = [tcp[c] EXCEPT !.arr = a, !.peer = tcp[c].peer]]
      <4>1. tcp' = [tcp EXCEPT ![c] = [tcp[c] EXCEPT !.arr = a]]
        BY <3>1, <1>2
      <4> HIDE DEF a
      <4>2. [tcp[c] EXCEPT !.arr = a, !.peer = tcp[c].peer] = [tcp[c] EXCEPT !.arr = a]
        BY <1>2 DEF Tcp
      <4> QED BY <4>1, <4>2
    <3> HIDE DEF a
    <3>7. tcp[c].peer \in {"up", "fin", "rst", "dead"}
      BY <1>2 DEF Tcp
    <3>8. /\ tcp[c].read <= a /\ a <= StreamEnd(tcp[c].stream)
          /\ tcp[c].arr > tcp[c].read \/ tcp[c].peer # "up" => a > tcp[c].read \/ tcp[c].peer # "up"
      BY <3>5, <1>2, <1>3
    <3> QED BY <3>5, <3>6, <3>7, <3>8
  <2>2. CASE Fin(c)
    <3>1. tcp' = [tcp EXCEPT ![c] = [tcp[c] EXCEPT !.peer = "fin"]]
      BY <2>2, <1>2 DEF Fin
    <3>2. [tcp[c] EXCEPT !.arr = tcp[c].arr, !.peer = "fin"] = [tcp[c] EXCEPT !.peer = "fin"]
      BY <1>2 DEF Tcp
    <3>3. tcp' = [tcp EXCEPT ![c] = [tcp[c] EXCEPT !.arr = tcp[c].arr, !.peer = "fin"]]
      BY <3>1, <3>2
    <3> QED BY <3>3, <1>2, <1>3
  <2>3. CASE Reset(c)
    <3> DEFINE e == IF tcp[c].peer = "up" THEN "rst" ELSE "dead"
    <3>1. PICK a \in {tcp[c].arr, tcp[c].read} :
            tcp' = [tcp EXCEPT ![c].peer = IF @ = "up" THEN "rst" ELSE "dead", ![c].arr = a]
      BY <2>3 DEF Reset
    <3>2. tcp' = [tcp EXCEPT ![c] = [tcp[c] EXCEPT !.arr = a, !.peer = e]]
      <4>1. tcp' = [tcp EXCEPT ![c] = [[tcp[c] EXCEPT !.peer = e] EXCEPT !.arr = a]]
        BY <3>1, <1>2 DEF Tcp
      <4>2. [[tcp[c] EXCEPT !.peer = e] EXCEPT !.arr = a] = [tcp[c] EXCEPT !.arr = a, !.peer = e]
        BY <1>2 DEF Tcp
      <4> QED BY <4>1, <4>2
    <3>3. e \in {"up", "fin", "rst", "dead"} /\ e # "up"
      OBVIOUS
    <3>4. a \in Nat /\ tcp[c].read <= a /\ a <= StreamEnd(tcp[c].stream)
      BY <3>1, <1>2, <1>3
    <3> HIDE DEF e
    <3> QED BY <3>2, <3>3, <3>4
  <2> QED BY <2>1, <2>2, <2>3
<1>5. PICK a \in Nat, e \in {"up", "fin", "rst", "dead"} :
        /\ tcp' = [tcp EXCEPT ![c] = [tcp[c] EXCEPT !.arr = a, !.peer = e]]
        /\ tcp[c].read <= a /\ a <= StreamEnd(tcp[c].stream)
        /\ tcp[c].arr > tcp[c].read \/ tcp[c].peer # "up" => a > tcp[c].read \/ e # "up"
  BY <1>4, Zenon
<1>6. /\ tcp' \in [Clients -> Tcp] /\ \A d \in Clients : d # c => tcp'[d] = tcp[d]
      /\ tcp'[c].stream = tcp[c].stream /\ tcp'[c].read = tcp[c].read
      /\ tcp'[c].arr = a /\ tcp'[c].peer = e /\ tcp'[c].phase = tcp[c].phase
  <2>1. [tcp[c] EXCEPT !.arr = a, !.peer = e] \in Tcp
    BY <1>2, <1>5 DEF Tcp
  <2>2. \A d \in Clients : tcp'[d] = IF d = c THEN [tcp[c] EXCEPT !.arr = a, !.peer = e] ELSE tcp[d]
    BY <1>2, <1>5
  <2>3. tcp' \in [Clients -> Tcp]
    BY <2>1, <1>2, <1>5
  <2> QED BY <2>2, <2>3, <1>2 DEF Tcp
<1>7. KernelOK'
  <2>1. UNCHANGED <<open, sock>>
    BY <1>1 DEF Network, loopVars
  <2>2. \A d \in Clients : tcp'[d].phase = tcp[d].phase
    BY <1>6
  <2> QED BY <2>1, <2>2, <1>0, <1>1, KernelFrame
<1>8. StreamOK(tcp'[c], seen[c])
  BY <1>1, <1>2, <1>3, <1>5, <1>6 DEF StreamOK
<1>9. \A k, buf : Buffered(tcp[c], k, buf) =>
           /\ Buffered(tcp'[c], k, buf)
           /\ NextPartial(tcp[c], k) => NextPartial(tcp'[c], k)
           /\ NextWhole(tcp[c], k) => NextWhole(tcp'[c], k)
  BY <1>6 DEF Buffered, NextPartial, NextWhole
<1>10. backlog' \in Seq(Clients)
  BY <1>0, <1>1 DEF ServerTypes
<1> QED BY <1>1, <1>5, <1>6, <1>7, <1>8, <1>9, <1>10, NetworkStep

-----------------------------------------------------------------------------
(***************************************************************************)
(* Every step of the server is a step of the loop, or none.                *)
(***************************************************************************)
LEMMA ServerNext ==
  ASSUME IInv, [Next]_vars
  PROVE  ServerInv' /\ [L!Next]_(L!vars)
<1>1. CASE UNCHANGED vars
  <2>1. /\ UNCHANGED <<connections, backlog, sock, tcp, seen, open, gen, step, cur, pc, batch>>
        /\ UNCHANGED loopVars
    BY <1>1 DEF vars, doipVars, loopVars
  <2>2. /\ ServerTypes' /\ KernelOK' /\ GenOK' /\ StreamsOK' /\ ClosedOnlyWhenDone'
        /\ Ready' = Ready /\ Conns' = Conns
    BY <2>1, DataFrame DEF IInv, ServerInv, ServerTypes
  <2>3. BuffersOK'
    <3>1. \A fd \in Conns : InHand(fd)' = InHand(fd) /\ (Parsing(fd) => Parsing(fd)')
      BY <2>1 DEF InHand, Parsing
    <3> QED BY <2>1, <3>1, QuietBuffers DEF IInv
  <2>4. StepOK'
    BY <2>1, <2>2 DEF IInv, ServerInv, StepOK
  <2>5. UNCHANGED L!vars
    BY <2>1, <2>2 DEF L!vars, L!loopVars, loopVars
  <2> QED BY <2>2, <2>3, <2>4, <2>5 DEF ServerInv
<1>2. CASE LoopStep \/ (\E B \in SUBSET L!Reportable : EpollWait(B)) \/ Sigint
  BY <1>2, LoopQuiet
<1>3. CASE Dispatch
  BY <1>3, DispatchQuiet
<1>4. CASE Return \/ AcceptFails \/ ParseBreak \/ Killed
  BY <1>4, CallbackQuiet
<1>5. CASE Accept
  BY <1>5, AcceptStep
<1>6. CASE OnClientData
  BY <1>6, CloseStep, ReceiveStep
<1>7. CASE HandleMessage
  BY <1>7, HandleStep
<1>8. CASE Respond
  BY <1>8, RespondStep
<1>9. CASE Tester
  <2>1. PICK c \in Clients : \/ Connect(c) \/ Deliver(c) \/ Fin(c) \/ Reset(c)
                             \/ \E m \in Msgs : SendMsg(c, m)
    BY <1>9 DEF Tester
  <2> QED BY <2>1, ConnectStep, ArrivalStep, SendMsgStep
<1> QED BY <1>1, <1>2, <1>3, <1>4, <1>5, <1>6, <1>7, <1>8, <1>9, Zenon DEF Next, Server

(***************************************************************************)
(* EventLoop is instantiated twice, alone and with its proofs; the two     *)
(* instances say the same.                                                 *)
(***************************************************************************)
LEMMA SameLoop ==
  /\ L!Init <=> LP!Init
  /\ [L!Next]_(L!vars) <=> [LP!Next]_(LP!vars)
  /\ L!TypeOK <=> LP!TypeOK
<1>1. L!Init <=> LP!Init
  BY DEF L!Init, LP!Init
<1>2. L!TypeOK <=> LP!TypeOK
  BY DEF L!TypeOK, LP!TypeOK, L!Locations, LP!Locations, L!Events, LP!Events
<1>3. L!vars = LP!vars /\ L!vars' = LP!vars'
  BY DEF L!vars, LP!vars, L!loopVars, LP!loopVars
<1>4. L!Loop <=> LP!Loop
  <2>1. /\ (L!SetGLoop \/ L!Run \/ L!Test \/ L!EndBatch)
             <=> (LP!SetGLoop \/ LP!Run \/ LP!Test \/ LP!EndBatch)
        /\ L!Quiet <=> LP!Quiet
    BY DEF L!SetGLoop, LP!SetGLoop, L!Run, LP!Run, L!Test, LP!Test, L!EndBatch, LP!EndBatch,
           L!Quiet, LP!Quiet
  <2>2. L!Reportable = LP!Reportable
    BY DEF L!Reportable, LP!Reportable
  <2>3. L!Block <=> LP!Block
    BY <2>2 DEF L!Block, LP!Block
  <2>4. \A B : L!EpollWait(B) <=> LP!EpollWait(B)
    <3>1. \A B : L!Cardinality(B) = LP!Cardinality(B)
      BY Zenon DEF L!Cardinality, LP!Cardinality
    <3> QED BY <2>2, <3>1, Zenon DEF L!EpollWait, LP!EpollWait
  <2>5. \A e : L!Dispatch(e) <=> LP!Dispatch(e)
    BY DEF L!Dispatch, LP!Dispatch
  <2> QED BY <2>1, <2>2, <2>3, <2>4, <2>5, Zenon DEF L!Loop, LP!Loop
<1>5. L!Callback <=> LP!Callback
  <2>1. \A fd : L!CbAccept(fd) <=> LP!CbAccept(fd)
    BY DEF L!CbAccept, LP!CbAccept, L!accept, LP!accept, L!add_reader, LP!add_reader
  <2>2. \A fd : L!CbRemove(fd) <=> LP!CbRemove(fd)
    BY DEF L!CbRemove, LP!CbRemove
  <2>3. /\ L!CbRead <=> LP!CbRead
        /\ L!CbClose <=> LP!CbClose
        /\ L!CbKilled <=> LP!CbKilled
        /\ L!CbReturn <=> LP!CbReturn
        /\ L!Quiet <=> LP!Quiet
    BY DEF L!CbRead, LP!CbRead, L!CbClose, LP!CbClose, L!close, LP!close, L!CbKilled, LP!CbKilled,
           L!CbReturn, LP!CbReturn, L!Quiet, LP!Quiet, L!loopVars, LP!loopVars
  <2> QED BY <2>1, <2>2, <2>3, Zenon DEF L!Callback, LP!Callback
<1>6. (L!Sigint /\ L!Quiet) <=> (LP!Sigint /\ LP!Quiet)
  BY DEF L!Sigint, LP!Sigint, L!Quiet, LP!Quiet, L!Terminated, LP!Terminated
<1>7. L!Kernel <=> LP!Kernel
  BY DEF L!Kernel, LP!Kernel, L!Arrive, LP!Arrive, L!Fault, LP!Fault, L!Terminated, LP!Terminated,
         L!loopVars, LP!loopVars
<1>8. L!Next <=> LP!Next
  BY <1>4, <1>5, <1>6, <1>7, Zenon DEF L!Next, LP!Next
<1> QED BY <1>1, <1>2, <1>3, <1>8

LEMMA LoopInit == Init => L!Init
<1> SUFFICES ASSUME Init PROVE L!Init
  OBVIOUS
<1>1. Ready = {}
  BY DEF Init, Ready
<1> QED BY <1>1 DEF Init, L!Init

LEMMA ServerInit == Init => ServerInv
<1> SUFFICES ASSUME Init PROVE ServerInv
  OBVIOUS
<1>1. Conns = {} /\ Ready = {}
  BY DEF Init, Conns, Ready
<1>2. tcp \in [Clients -> Tcp]
  <2>1. <<>> \in Streams
    BY EmptySeq DEF Streams
  <2> QED BY <2>1 DEF Init, Tcp
<1>3. ServerTypes
  <2>1. connections \in [Conns -> Connection]
    BY <1>1 DEF Init
  <2>2. backlog \in Seq(Clients) /\ seen \in [Clients -> Seq(Msgs)]
    BY EmptySeq DEF Init
  <2>3. sock \in [Fds -> Clients \cup {NoClient}]
    BY DEF Init
  <2> QED BY <1>2, <2>1, <2>2, <2>3 DEF Init, ServerTypes
<1>4. StepOK
  BY <1>1 DEF Init, StepOK
<1>5. KernelOK
  BY <1>1 DEF Init, KernelOK
<1>6. GenOK
  <2>1. Taken = {}
    BY DEF Init, Taken
  <2>2. Cardinality(Taken) = 0
    BY <2>1, FS_EmptySet
  <2> QED BY <2>2 DEF Init, GenOK
<1>7. StreamsOK
  <2>1. Chained(<<>>) /\ At(<<>>, 0) = 0
    BY DEF Chained, At
  <2> QED BY <2>1 DEF Init, StreamsOK, StreamOK
<1>8. BuffersOK /\ ClosedOnlyWhenDone
  BY <1>1 DEF Init, BuffersOK, ClosedOnlyWhenDone
<1> QED BY <1>3, <1>4, <1>5, <1>6, <1>7, <1>8 DEF ServerInv

LEMMA InvInit == Init => IInv
<1> SUFFICES ASSUME Init PROVE IInv
  OBVIOUS
<1>1. LP!Init
  BY LoopInit, SameLoop
<1>2. LP!TypeOK
  BY <1>1, LoopConstants, LP!InitType
<1>3. LP!DispatchInv
  BY <1>1, LoopConstants, LP!InitDispatch
<1>4. LP!LateOnce
  BY DEF LP!LateOnce, Init
<1> QED BY <1>2, <1>3, <1>4, ServerInit DEF IInv, LP!IInv

LEMMA InvNext == IInv /\ [Next]_vars => IInv'
<1> SUFFICES ASSUME IInv, [Next]_vars PROVE IInv'
  OBVIOUS
<1>1. ServerInv' /\ [LP!Next]_(LP!vars)
  BY ServerNext, SameLoop
<1>2. LP!TypeOK /\ LP!DispatchInv /\ LP!LateOnce
  BY DEF IInv, LP!IInv
<1>3. LP!TypeOK'
  BY <1>1, <1>2, LoopConstants, LP!NextType
<1>4. LP!DispatchInv'
  BY <1>1, <1>2, LoopConstants, LP!NextDispatch
<1>5. LP!LateOnce'
  BY <1>1, <1>2, LoopConstants, LP!NextLate
<1> QED BY <1>1, <1>3, <1>4, <1>5 DEF IInv, LP!IInv

-----------------------------------------------------------------------------
(***************************************************************************)
(* The inductive invariant: the loop's own, and the server's on top of it. *)
(* Neither half is inductive alone.  The server needs the loop's fact that *)
(* an event is served once, the loop needs the server's steps to be its    *)
(* own.                                                                    *)
(***************************************************************************)
THEOREM Invariance == Spec => []IInv
BY InvInit, InvNext, PTL DEF Spec

(***************************************************************************)
(* Every callback of the server does to the loop what EventLoop allows: in *)
(* particular no bound of the model is what keeps it there.                *)
(***************************************************************************)
THEOREM ServerRunsInLoop == Spec => ImplementsEventLoop
<1>1. Init => L!Init
  BY LoopInit
<1>2. IInv /\ [Next]_vars => [L!Next]_(L!vars)
  BY ServerNext
<1> QED BY <1>1, <1>2, Invariance, PTL DEF Spec, ImplementsEventLoop, L!Spec

(***************************************************************************)
(* connections_ and the kernel's sockets agree in every state, for any     *)
(* number of testers and descriptors.                                      *)
(***************************************************************************)
THEOREM ConnectionsAlwaysMatch == Spec => []ConnectionsMatchKernel
<1>1. IInv => ConnectionsMatchKernel
  <2> SUFFICES ASSUME IInv PROVE ConnectionsMatchKernel
    OBVIOUS
  <2>1. /\ DOMAIN connections = Conns /\ sock \in [Fds -> Clients \cup {NoClient}]
        /\ \A fd \in Fds : sock[fd] # NoClient <=> fd \in Conns
        /\ \A f, g \in Conns : sock[f] = sock[g] => f = g
        /\ \A c \in Clients : tcp[c].phase = "accepted" <=> \E fd \in Conns : sock[fd] = c
    BY DEF IInv, ServerInv, ServerTypes, KernelOK
  <2>2. Conns \subseteq Fds
    BY LoopFacts DEF IInv, Conns
  <2>3. Range(sock) = {sock[fd] : fd \in Fds}
    BY <2>1 DEF Range
  <2>4. Range(sock) \ {NoClient} = {c \in Clients : tcp[c].phase = "accepted"}
    <3>1. ASSUME NEW c \in Range(sock) \ {NoClient} PROVE c \in Clients /\ tcp[c].phase = "accepted"
      <4>1. PICK fd \in Fds : c = sock[fd]
        BY <2>3
      <4>2. fd \in Conns /\ c \in Clients
        BY <4>1, <2>1
      <4> QED BY <4>1, <4>2, <2>1, Zenon
    <3>2. ASSUME NEW c \in Clients, tcp[c].phase = "accepted" PROVE c \in Range(sock) \ {NoClient}
      <4>1. PICK fd \in Conns : sock[fd] = c
        BY <3>2, <2>1
      <4> QED BY <4>1, <2>2, <2>3, ServerAssumption
    <3> QED BY <3>1, <3>2
  <2>5. Conns = open \ {ListenFd}
    BY DEF Conns
  <2> QED BY <2>1, <2>4, <2>5, Zenon DEF ConnectionsMatchKernel
<1> QED BY <1>1, Invariance, PTL

(***************************************************************************)
(* However the network cuts the streams up, on_client_data takes them      *)
(* apart into the messages that were sent, and its buffer holds the bytes  *)
(* behind the last of them.                                                *)
(***************************************************************************)
THEOREM ReassemblyAlwaysExact == Spec => []ReassemblyExact
<1>1. IInv => ReassemblyExact
  <2> SUFFICES ASSUME IInv, NEW fd \in DOMAIN connections
               PROVE  LET c == sock[fd]
                          s == tcp[c].stream
                          inHand == IF step = "respond" /\ cur = fd THEN 1 ELSE 0
                          base == StreamEnd(SubSeq(s, 1, Len(seen[c]) - inHand))
                      IN /\ Len(seen[c]) <= Len(s) /\ \A i \in DOMAIN seen[c] : seen[c][i] = s[i].msg
                         /\ connections[fd].recv_buf
                              = [i \in 1..(tcp[c].read - base) |-> base + i - 1]
    BY DEF ReassemblyExact
  <2> DEFINE c == sock[fd]
             s == tcp[c].stream
  <2>0. LP!IInv /\ ServerTypes /\ KernelOK /\ StreamsOK /\ BuffersOK
    BY DEF IInv, ServerInv
  <2>1. fd \in Conns
    BY <2>0 DEF ServerTypes
  <2>2. c \in Clients /\ tcp[c] \in Tcp /\ seen[c] \in Seq(Msgs)
    BY <2>0, <2>1, PeerIsClient
  <2>3. s \in Streams
    BY <2>2 DEF Tcp
  <2>4. Buffered(tcp[c], Done(fd), connections[fd].recv_buf)
    BY <2>0, <2>1 DEF BuffersOK, BufferOK
  <2>5. Done(fd) \in 0..Len(s) /\ connections[fd].recv_buf = Bytes(At(s, Done(fd)), tcp[c].read)
    BY <2>4 DEF Buffered
  <2>6. StreamEnd(SubSeq(s, 1, Done(fd))) = At(s, Done(fd))
    BY <2>3, <2>5, PrefixEnd
  <2>7. Len(seen[c]) <= Len(s) /\ \A i \in DOMAIN seen[c] : seen[c][i] = s[i].msg
    BY <2>0, <2>2 DEF StreamsOK, StreamOK
  <2>8. Done(fd) = Len(seen[c]) - (IF step = "respond" /\ cur = fd THEN 1 ELSE 0)
    BY DEF Done, InHand
  <2> QED BY <2>5, <2>6, <2>7, <2>8, Zenon DEF Bytes
<1> QED BY <1>1, Invariance, PTL

(***************************************************************************)
(* recv() == 0 for want of room closes a connection only when the next     *)
(* message would never fit; otherwise what arrived whole was handled.      *)
(***************************************************************************)
THEOREM NeverClosedEarly == Spec => []ClosedOnlyWhenDone
<1>1. IInv => ClosedOnlyWhenDone
  BY DEF IInv, ServerInv
<1> QED BY <1>1, Invariance, PTL

(***************************************************************************)
(* Types; in particular recv_len stays within recv_buf.                    *)
(***************************************************************************)
THEOREM TypeCorrect == Spec => []TypeOK
<1>1. IInv => TypeOK
  <2> SUFFICES ASSUME IInv PROVE TypeOK
    OBVIOUS
  <2>0. LP!IInv /\ ServerTypes /\ KernelOK /\ StreamsOK /\ BuffersOK
    BY DEF IInv, ServerInv
  <2>1. L!TypeOK
    BY <2>0, SameLoop DEF LP!IInv
  <2>2. DOMAIN connections = Conns /\ Conns \subseteq Fds
    BY <2>0, LoopFacts DEF ServerTypes, Conns
  <2>3. ASSUME NEW fd \in Conns
        PROVE  /\ connections[fd].activated \in BOOLEAN /\ connections[fd].tester_addr \in Nat
               /\ connections[fd].recv_buf \in Seq(Nat)
               /\ Len(connections[fd].recv_buf) <= RECV_BUF
    <3>1. tcp[sock[fd]] \in Tcp /\ connections[fd] \in Connection
      BY <2>0, PeerIsClient
    <3>2. connections[fd].activated \in BOOLEAN
      BY <3>1, Zenon DEF Connection
    <3>3. connections[fd].tester_addr \in Nat /\ connections[fd].recv_buf \in Seq(Nat)
      BY <3>1 DEF Connection
    <3> DEFINE s == tcp[sock[fd]].stream
               k == Done(fd)
               read == tcp[sock[fd]].read
    <3>4. s \in Streams /\ read \in Nat
      BY <3>1 DEF Tcp
    <3>5. /\ k \in 0..Len(s) /\ At(s, k) <= read /\ read - At(s, k) <= RECV_BUF
          /\ connections[fd].recv_buf = Bytes(At(s, k), read)
      BY <2>0 DEF BuffersOK, BufferOK, Buffered
    <3>6. At(s, k) \in Nat
      BY <3>4, <3>5, AtType
    <3> HIDE DEF s, k, read
    <3>7. Len(Bytes(At(s, k), read)) = read - At(s, k)
      BY <3>4, <3>5, <3>6, BytesType, Zenon
    <3> QED BY <3>2, <3>3, <3>5, <3>7
  <2>4. ASSUME NEW c \in Clients
        PROVE  /\ tcp[c].phase \in {"new", "backlog", "accepted", "closed"}
               /\ tcp[c].peer \in {"up", "fin", "rst", "dead"}
               /\ tcp[c].read <= tcp[c].arr /\ tcp[c].arr <= StreamEnd(tcp[c].stream)
    <3>1. tcp[c] \in Tcp /\ StreamOK(tcp[c], seen[c])
      BY <2>0 DEF ServerTypes, StreamsOK
    <3>2. StreamEnd(tcp[c].stream) = At(tcp[c].stream, Len(tcp[c].stream))
      BY <3>1, EndIsAt DEF Tcp
    <3> QED BY <3>1, <3>2 DEF Tcp, StreamOK
  <2> QED BY <2>0, <2>1, <2>2, <2>3, <2>4, Zenon DEF TypeOK, ServerTypes
<1> QED BY <1>1, Invariance, PTL

-----------------------------------------------------------------------------
(***************************************************************************)
(* DoIpServer gives every tester the service DoIpSession describes.        *)
(***************************************************************************)
(***************************************************************************)
(* The refinement mapping of S, by its parts.                              *)
(***************************************************************************)
StateOf(c) == CASE tcp[c].phase = "new" -> "none"
                [] tcp[c].phase = "closed" -> "over"
                [] OTHER -> "open"
SentBy(c) == [i \in DOMAIN tcp[c].stream |-> tcp[c].stream[i].msg]
IsActive(c) == \E fd \in DOMAIN connections : sock[fd] = c /\ connections[fd].activated
SaidTo(c) == [i \in DOMAIN out[c] |-> out[c][i].reply]
OwedTo(c) == IF step = "respond" /\ sock[cur] = c THEN owed ELSE <<>>

StateMap == [c \in Clients |-> StateOf(c)]
SentMap == [c \in Clients |-> SentBy(c)]
HandledMap == [c \in Clients |-> Len(seen[c])]
ActiveMap == [c \in Clients |-> IsActive(c)]
SaidMap == [c \in Clients |-> SaidTo(c)]
OwedMap == [c \in Clients |-> OwedTo(c)]

(***************************************************************************)
(* What the mapping needs beyond the server's invariant: a response is     *)
(* owed in the middle of a diagnostic message and at no other time, and it *)
(* is the response to that message.                                        *)
(***************************************************************************)
Replies ==
  {RoutingActivationRes(m) : m \in Msgs} \cup {DiagnosticAck(m) : m \in Msgs}
    \cup {DiagnosticRes(m) : m \in Msgs} \cup {AliveCheckRes}
Sent == [reply : Replies, sent : {"whole", "part", "none"}]

OwedOK ==
  /\ step # "respond" => owed = <<>>
  /\ step = "respond" => \E m \in Msgs : owed = <<DiagnosticRes(m)>>

SessionInv == IInv /\ out \in [Clients -> Seq(Sent)] /\ OwedOK

-----------------------------------------------------------------------------
(***************************************************************************)
(* The steps of DoIpSession, seen through the mapping.                     *)
(***************************************************************************)
LEMMA SameReplies ==
  \A m : /\ S!RoutingActivationRes(m) = RoutingActivationRes(m)
         /\ S!DiagnosticAck(m) = DiagnosticAck(m)
         /\ S!DiagnosticRes(m) = DiagnosticRes(m)
         /\ S!AliveCheckRes = AliveCheckRes
<1>1. \A t, p : S!make_doip_message(t, p) = make_doip_message(t, p)
  BY Zenon DEF S!make_doip_message, make_doip_message
<1>2. S!DOIP_ECU_ADDRESS = DOIP_ECU_ADDRESS
  BY DEF S!DOIP_ECU_ADDRESS, DOIP_ECU_ADDRESS
<1>3. \A a, b : S!Response(a, b) = Response(a, b)
  BY Zenon DEF S!Response, Response
<1>4. \A a, b : S!negative_response(a, b) = negative_response(a, b)
  BY <1>3, Zenon DEF S!negative_response, negative_response, S!UDS_NEGATIVE_RESPONSE,
                     UDS_NEGATIVE_RESPONSE
<1> USE DEF S!UDS_SESSION_CONTROL, UDS_SESSION_CONTROL, S!UDS_ECU_RESET, UDS_ECU_RESET,
            S!UDS_READ_DTC, UDS_READ_DTC, S!UDS_READ_DATA_BY_ID, UDS_READ_DATA_BY_ID,
            S!UDS_NRC_SERVICE_NOT_SUPPORTED, UDS_NRC_SERVICE_NOT_SUPPORTED,
            S!UDS_NRC_REQUEST_OUT_OF_RANGE, UDS_NRC_REQUEST_OUT_OF_RANGE, S!NumDtcs, NumDtcs
<1>5. \A r : /\ S!handle_session_control(r) = handle_session_control(r)
             /\ S!handle_read_dtc(r) = handle_read_dtc(r)
             /\ S!handle_ecu_reset(r) = handle_ecu_reset(r)
  BY <1>3, <1>4, Zenon DEF S!handle_session_control, handle_session_control, S!handle_read_dtc,
        handle_read_dtc, S!handle_ecu_reset, handle_ecu_reset
<1>6. \A d : S!StoredData(d) = StoredData(d)
  BY Zenon DEF S!StoredData, StoredData
<1>7. \A r : S!handle_read_data_by_id(r) = handle_read_data_by_id(r)
  BY <1>3, <1>4, <1>6, Zenon DEF S!handle_read_data_by_id, handle_read_data_by_id
<1>8. \A r : S!handle(r) = handle(r)
  BY <1>4, <1>5, <1>7 DEF S!handle, handle
<1> QED BY <1>1, <1>2, <1>8, Zenon DEF S!RoutingActivationRes, RoutingActivationRes, S!DiagnosticAck,
             DiagnosticAck, S!DiagnosticRes, DiagnosticRes, S!AliveCheckRes, AliveCheckRes

LEMMA SessionInitIs ==
  ASSUME StateMap = [c \in Clients |-> "none"], SentMap = [c \in Clients |-> <<>>],
         HandledMap = [c \in Clients |-> 0], ActiveMap = [c \in Clients |-> FALSE],
         SaidMap = [c \in Clients |-> <<>>], OwedMap = [c \in Clients |-> <<>>]
  PROVE  S!Init
BY DEF S!Init, StateMap, SentMap, HandledMap, ActiveMap, SaidMap, OwedMap,
       StateOf, SentBy, IsActive, SaidTo, OwedTo

LEMMA StutterIs ==
  ASSUME UNCHANGED <<StateMap, SentMap, HandledMap, ActiveMap, SaidMap, OwedMap>>
  PROVE  UNCHANGED S!vars
BY DEF S!vars, StateMap, SentMap, HandledMap, ActiveMap, SaidMap, OwedMap,
       StateOf, SentBy, IsActive, SaidTo, OwedTo

LEMMA OpenIs ==
  ASSUME NEW c \in Clients, StateMap[c] = "none", StateMap' = [StateMap EXCEPT ![c] = "open"],
         UNCHANGED <<SentMap, HandledMap, ActiveMap, SaidMap, OwedMap>>
  PROVE  S!Next
<1>1. S!Open(c)
  BY DEF S!Open, StateMap, SentMap, HandledMap, ActiveMap, SaidMap, OwedMap,
         StateOf, SentBy, IsActive, SaidTo, OwedTo
<1> QED BY <1>1 DEF S!Next

LEMMA RequestIs ==
  ASSUME NEW c \in Clients, NEW m \in Msgs,
         StateMap[c] = "open", SentMap' = [SentMap EXCEPT ![c] = Append(@, m)],
         UNCHANGED <<StateMap, HandledMap, ActiveMap, SaidMap, OwedMap>>
  PROVE  S!Next
<1>1. S!Request(c, m)
  BY DEF S!Request, StateMap, SentMap, HandledMap, ActiveMap, SaidMap, OwedMap,
         StateOf, SentBy, IsActive, SaidTo, OwedTo
<1> QED BY <1>1 DEF S!Next

LEMMA AnswerIs ==
  ASSUME NEW c \in Clients,
         StateMap[c] = "open", OwedMap[c] # <<>>,
         SaidMap' = [SaidMap EXCEPT ![c] = @ \o OwedMap[c]],
         OwedMap' = [OwedMap EXCEPT ![c] = <<>>],
         UNCHANGED <<StateMap, SentMap, HandledMap, ActiveMap>>
  PROVE  S!Next
<1>1. S!Answer(c)
  BY DEF S!Answer, StateMap, SentMap, HandledMap, ActiveMap, SaidMap, OwedMap,
         StateOf, SentBy, IsActive, SaidTo, OwedTo
<1> QED BY <1>1 DEF S!Next

LEMMA OverIs ==
  ASSUME NEW c \in Clients,
         StateMap[c] = "open", OwedMap[c] = <<>>,
         StateMap' = [StateMap EXCEPT ![c] = "over"],
         ActiveMap' = [ActiveMap EXCEPT ![c] = FALSE],
         UNCHANGED <<SentMap, HandledMap, SaidMap, OwedMap>>
  PROVE  S!Next
<1>1. S!Over(c)
  BY DEF S!Over, StateMap, SentMap, HandledMap, ActiveMap, SaidMap, OwedMap,
         StateOf, SentBy, IsActive, SaidTo, OwedTo
<1> QED BY <1>1 DEF S!Next

LEMMA ServeIs ==
  ASSUME NEW c \in Clients, NEW m,
         StateMap[c] = "open", OwedMap[c] = <<>>, HandledMap[c] < Len(SentMap[c]),
         m = SentMap[c][HandledMap[c] + 1],
         LET accepted == m.type = "DIAGNOSTIC_MESSAGE" /\ ActiveMap[c] /\ m.len >= 4
             answers == IF Activates(m) THEN <<RoutingActivationRes(m)>>
                        ELSE IF accepted THEN <<DiagnosticAck(m)>>
                        ELSE IF m.type = "ALIVE_CHECK_REQ" THEN <<AliveCheckRes>>
                        ELSE <<>>
         IN /\ ActiveMap' = [ActiveMap EXCEPT ![c] = @ \/ Activates(m)]
            /\ SaidMap' = [SaidMap EXCEPT ![c] = @ \o answers]
            /\ OwedMap' = [OwedMap EXCEPT ![c] = IF accepted THEN <<DiagnosticRes(m)>> ELSE <<>>],
         HandledMap' = [HandledMap EXCEPT ![c] = @ + 1],
         UNCHANGED <<StateMap, SentMap>>
  PROVE  S!Next
<1>1. S!Activates(m) <=> Activates(m)
  BY DEF S!Activates, Activates
<1>2. S!Accepted(c, m) <=> m.type = "DIAGNOSTIC_MESSAGE" /\ ActiveMap[c] /\ m.len >= 4
  BY DEF S!Accepted, ActiveMap, IsActive
<1>3. S!Serve(c)
  BY <1>1, <1>2, SameReplies DEF S!Serve, S!Answers, StateMap, SentMap, HandledMap, ActiveMap, SaidMap, OwedMap,
         StateOf, SentBy, IsActive, SaidTo, OwedTo
<1> QED BY <1>3 DEF S!Next

-----------------------------------------------------------------------------
(***************************************************************************)
(* How the mapped state changes.                                           *)
(***************************************************************************)
LEMMA MapStutter ==
  ASSUME \A c \in Clients :
           /\ tcp'[c].stream = tcp[c].stream /\ StateOf(c)' = StateOf(c)
           /\ Len(seen'[c]) = Len(seen[c]) /\ (IsActive(c)' <=> IsActive(c))
           /\ out'[c] = out[c] /\ OwedTo(c)' = OwedTo(c)
  PROVE  UNCHANGED S!vars
<1>1. StateMap' = StateMap /\ HandledMap' = HandledMap /\ OwedMap' = OwedMap
  BY DEF StateMap, HandledMap, OwedMap
<1>2. SentMap' = SentMap
  BY DEF SentMap, SentBy
<1>3. SaidMap' = SaidMap
  BY DEF SaidMap, SaidTo
<1>4. ActiveMap' = ActiveMap
  <2>1. ASSUME NEW c \in Clients PROVE IsActive(c)' = IsActive(c)
    BY DEF IsActive
  <2> QED BY <2>1, Zenon DEF ActiveMap
<1> QED BY <1>1, <1>2, <1>3, <1>4, StutterIs

LEMMA SentGrows ==
  ASSUME NEW s \in Streams, NEW e \in [msg : Msgs, at : Nat]
  PROVE  [i \in DOMAIN Append(s, e) |-> Append(s, e)[i].msg]
           = Append([i \in DOMAIN s |-> s[i].msg], e.msg)
<1> DEFINE t == Append(s, e)
           a == [i \in DOMAIN s |-> s[i].msg]
           b == [i \in DOMAIN t |-> t[i].msg]
<1>1. /\ s \in Seq([msg : Msgs, at : Nat]) /\ Len(s) \in Nat /\ DOMAIN s = 1..Len(s)
      /\ \A i \in 1..Len(s) : s[i] \in [msg : Msgs, at : Nat]
  <2>1. s \in Seq([msg : Msgs, at : Nat]) /\ Len(s) \in Nat /\ DOMAIN s = 1..Len(s)
    BY DEF Streams
  <2> QED BY <2>1, ElementOfSeq
<1>2. /\ t \in Seq([msg : Msgs, at : Nat]) /\ Len(t) = Len(s) + 1 /\ DOMAIN t = 1..(Len(s) + 1)
      /\ \A i \in 1..Len(s) : t[i] = s[i]
      /\ t[Len(s) + 1] = e
  BY <1>1, AppendProperties
<1>3. a \in Seq(Msgs) /\ Len(a) = Len(s) /\ \A i \in 1..Len(s) : a[i] = s[i].msg
  BY <1>1
<1> HIDE DEF t, a
<1>4. /\ Append(a, e.msg) \in Seq(Msgs) /\ Len(Append(a, e.msg)) = Len(s) + 1
      /\ \A i \in 1..Len(s) : Append(a, e.msg)[i] = a[i]
      /\ Append(a, e.msg)[Len(s) + 1] = e.msg
  BY <1>3, AppendProperties
<1>5. \A i \in 1..(Len(s) + 1) : i \in 1..Len(s) \/ i = Len(s) + 1
  BY <1>1
<1>6. \A i \in 1..(Len(s) + 1) : t[i].msg = Append(a, e.msg)[i] /\ t[i].msg \in Msgs
  BY <1>1, <1>2, <1>3, <1>4, <1>5
<1>7. b \in Seq(Msgs) /\ Len(b) = Len(s) + 1 /\ \A i \in 1..(Len(s) + 1) : b[i] = t[i].msg
  BY <1>1, <1>2, <1>6
<1> HIDE DEF b
<1>8. b = Append(a, e.msg)
  BY <1>4, <1>6, <1>7, SeqEqual
<1> QED BY <1>8 DEF b, a, t

LEMMA SaidGrows ==
  ASSUME NEW o \in Seq(Sent), NEW e \in Sent
  PROVE  [i \in DOMAIN Append(o, e) |-> Append(o, e)[i].reply]
           = [i \in DOMAIN o |-> o[i].reply] \o <<e.reply>>
<1> DEFINE t == Append(o, e)
           a == [i \in DOMAIN o |-> o[i].reply]
           b == [i \in DOMAIN t |-> t[i].reply]
<1>1. /\ Len(o) \in Nat /\ DOMAIN o = 1..Len(o) /\ e.reply \in Replies
      /\ \A i \in 1..Len(o) : o[i].reply \in Replies
  <2>1. Len(o) \in Nat /\ DOMAIN o = 1..Len(o)
    OBVIOUS
  <2>2. \A i \in 1..Len(o) : o[i] \in Sent
    BY ElementOfSeq
  <2> QED BY <2>1, <2>2 DEF Sent
<1>2. /\ t \in Seq(Sent) /\ Len(t) = Len(o) + 1 /\ DOMAIN t = 1..(Len(o) + 1)
      /\ \A i \in 1..Len(o) : t[i] = o[i]
      /\ t[Len(o) + 1] = e
  BY <1>1, AppendProperties
<1>3. a \in Seq(Replies) /\ Len(a) = Len(o) /\ \A i \in 1..Len(o) : a[i] = o[i].reply
  BY <1>1
<1> HIDE DEF t, a
<1>4. /\ Append(a, e.reply) \in Seq(Replies) /\ Len(Append(a, e.reply)) = Len(o) + 1
      /\ \A i \in 1..Len(o) : Append(a, e.reply)[i] = a[i]
      /\ Append(a, e.reply)[Len(o) + 1] = e.reply
  BY <1>1, <1>3, AppendProperties
<1>5. \A i \in 1..(Len(o) + 1) : i \in 1..Len(o) \/ i = Len(o) + 1
  BY <1>1
<1>6. \A i \in 1..(Len(o) + 1) : t[i].reply = Append(a, e.reply)[i] /\ t[i].reply \in Replies
  BY <1>1, <1>2, <1>3, <1>4, <1>5
<1>7. b \in Seq(Replies) /\ Len(b) = Len(o) + 1 /\ \A i \in 1..(Len(o) + 1) : b[i] = t[i].reply
  BY <1>1, <1>2, <1>6
<1> HIDE DEF b
<1>8. b = Append(a, e.reply)
  BY <1>4, <1>6, <1>7, SeqEqual
<1>9. Append(a, e.reply) = a \o <<e.reply>>
  BY <1>1, <1>3, AppendIsConcat
<1> QED BY <1>8, <1>9 DEF b, a, t

(***************************************************************************)
(* send_to_client says what it is given, and to nobody else.               *)
(***************************************************************************)
LEMMA SendSays ==
  ASSUME out \in [Clients -> Seq(Sent)], NEW c \in Clients, NEW replies, send_to_client(c, replies),
         replies = <<>> \/ \E r \in Replies : replies = <<r>>
  PROVE  /\ out' \in [Clients -> Seq(Sent)] /\ \A d \in Clients : d # c => out'[d] = out[d]
         /\ SaidTo(c)' = SaidTo(c) \o replies
<1>1. CASE replies = <<>>
  <2>1. out' = out
    BY <1>1 DEF send_to_client
  <2>2. SaidTo(c) \in Seq(Replies)
    <3>1. \A i \in DOMAIN out[c] : out[c][i].reply \in Replies
      <4>1. out[c] \in Seq(Sent) /\ DOMAIN out[c] = 1..Len(out[c])
        OBVIOUS
      <4>2. \A i \in 1..Len(out[c]) : out[c][i] \in Sent
        BY <4>1, ElementOfSeq
      <4> QED BY <4>1, <4>2 DEF Sent
    <3> QED BY <3>1 DEF SaidTo
  <2>3. SaidTo(c) \o <<>> = SaidTo(c)
    BY <2>2, ConcatEmptySeq
  <2>4. SaidTo(c)' = SaidTo(c)
    BY <2>1 DEF SaidTo
  <2> QED BY <1>1, <2>1, <2>3, <2>4
<1>2. CASE \E r \in Replies : replies = <<r>>
  <2>1. PICK r \in Replies : replies = <<r>>
    BY <1>2
  <2>2. replies # <<>> /\ replies[1] = r
    BY <2>1
  <2>3. PICK s \in Sends(c) : out' = [out EXCEPT ![c] = Append(@, [reply |-> r, sent |-> s])]
    BY <2>2 DEF send_to_client
  <2> DEFINE e == [reply |-> r, sent |-> s]
  <2>4. e \in Sent /\ e.reply = r
    <3>1. s \in {"whole", "part", "none"}
      BY <2>3 DEF Sends
    <3> QED BY <3>1 DEF Sent
  <2> HIDE DEF e
  <2>5. out' = [out EXCEPT ![c] = Append(out[c], e)]
    BY <2>3 DEF e
  <2>6. Append(out[c], e) \in Seq(Sent)
    BY <2>4, AppendProperties
  <2>7. /\ out' \in [Clients -> Seq(Sent)] /\ \A d \in Clients : d # c => out'[d] = out[d]
        /\ out'[c] = Append(out[c], e)
    <3> HIDE DEF Sent
    <3> QED BY <2>5, <2>6
  <2>8. SaidTo(c)' = SaidTo(c) \o <<r>>
    <3>1. out[c] \in Seq(Sent)
      OBVIOUS
    <3>2. [i \in DOMAIN Append(out[c], e) |-> Append(out[c], e)[i].reply]
           = [i \in DOMAIN out[c] |-> out[c][i].reply] \o <<e.reply>>
      BY <3>1, <2>4, SaidGrows
    <3> QED BY <3>2, <2>4, <2>7 DEF SaidTo
  <2> QED BY <2>1, <2>7, <2>8
<1> QED BY <1>1, <1>2

LEMMA FirstReplyIs ==
  ASSUME NEW m \in Msgs
  PROVE  /\ FirstReply(m) = IF Activates(m) THEN <<RoutingActivationRes(m)>>
                            ELSE IF IsDiagnostic(m) THEN <<DiagnosticAck(m)>>
                            ELSE IF m.type = "ALIVE_CHECK_REQ" THEN <<AliveCheckRes>>
                            ELSE <<>>
         /\ FirstReply(m) = <<>> \/ \E r \in Replies : FirstReply(m) = <<r>>
<1>1. /\ ~(Activates(m) /\ IsDiagnostic(m)) /\ ~(Activates(m) /\ m.type = "ALIVE_CHECK_REQ")
      /\ ~(IsDiagnostic(m) /\ m.type = "ALIVE_CHECK_REQ")
  BY DEF Activates, IsDiagnostic
<1>2. FirstReply(m) = IF Activates(m) THEN <<RoutingActivationRes(m)>>
                      ELSE IF IsDiagnostic(m) THEN <<DiagnosticAck(m)>>
                      ELSE IF m.type = "ALIVE_CHECK_REQ" THEN <<AliveCheckRes>>
                      ELSE <<>>
  BY <1>1 DEF FirstReply
<1>3. RoutingActivationRes(m) \in Replies /\ DiagnosticAck(m) \in Replies /\ AliveCheckRes \in Replies
  BY DEF Replies
<1> QED BY <1>2, <1>3

-----------------------------------------------------------------------------
(***************************************************************************)
(* Steps that no tester notices.                                           *)
(***************************************************************************)
SessionNext == [S!Next]_(S!vars)

LEMMA UnnoticedLoop ==
  ASSUME SessionInv,
         \/ LoopStep \/ (\E B \in SUBSET L!Reportable : EpollWait(B)) \/ Sigint
         \/ Dispatch \/ Return \/ AcceptFails \/ ParseBreak \/ Killed \/ UNCHANGED vars
  PROVE  SessionNext /\ out' \in [Clients -> Seq(Sent)] /\ OwedOK'
<1>0. OwedOK /\ StepOK
  BY DEF SessionInv, IInv, ServerInv
<1>1. UNCHANGED <<connections, owed, sock, tcp, seen, out>>
  BY DEF LoopStep, EpollWait, Sigint, Dispatch, Return, AcceptFails, ParseBreak, Killed, vars, doipVars
<1>2. \/ step' = step /\ cur' = cur
      \/ step # "respond" /\ step' # "respond"
  <2>1. CASE LoopStep
    BY <2>1 DEF LoopStep, L!SetGLoop, L!Run, L!Test, L!Block, L!EndBatch, doipVars
  <2>2. CASE (\E B \in SUBSET L!Reportable : EpollWait(B)) \/ Sigint
    BY <2>2 DEF EpollWait, Sigint, L!EpollWait, L!Sigint, doipVars
  <2>3. CASE Dispatch
    BY <2>3, <1>0 DEF Dispatch, L!Dispatch, StepOK
  <2>4. CASE Return \/ AcceptFails \/ ParseBreak
    BY <2>4 DEF Return, AcceptFails, ParseBreak
  <2>5. CASE Killed \/ UNCHANGED vars
    BY <2>5 DEF Killed, L!CbKilled, vars, doipVars, loopVars
  <2> QED BY <2>1, <2>2, <2>3, <2>4, <2>5
<1>3. OwedOK'
  BY <1>0, <1>1, <1>2 DEF OwedOK
<1>4. \A c \in Clients : OwedTo(c)' = OwedTo(c)
  BY <1>1, <1>2 DEF OwedTo
<1>5. \A c \in Clients : StateOf(c)' = StateOf(c) /\ (IsActive(c)' <=> IsActive(c))
  BY <1>1 DEF StateOf, IsActive
<1>6. UNCHANGED S!vars
  BY <1>1, <1>4, <1>5, MapStutter
<1> QED BY <1>1, <1>3, <1>6 DEF SessionInv, SessionNext

LEMMA UnnoticedAccept ==
  ASSUME SessionInv, Accept
  PROVE  SessionNext /\ out' \in [Clients -> Seq(Sent)] /\ OwedOK'
<1>0. OwedOK /\ LP!IInv /\ ServerTypes /\ KernelOK /\ StepOK
  BY DEF SessionInv, IInv, ServerInv
<1> DEFINE new == Head(backlog)
<1> PICK fd \in Fds \ open :
      /\ connections' = [f \in DOMAIN connections \cup {fd} |->
                            IF f = fd THEN NewConnection ELSE connections[f]]
      /\ sock' = [sock EXCEPT ![fd] = new]
  BY DEF Accept
<1>1. /\ step = "enter" /\ step' = "done" /\ cur = ListenFd
      /\ tcp' = [tcp EXCEPT ![new].phase = "accepted"]
      /\ UNCHANGED <<owed, seen, out>>
  BY DEF Accept
<1>2. new \in Clients /\ tcp[new].phase = "backlog"
  <2>1. backlog # <<>>
    BY <1>0, <1>1 DEF StepOK, Ready
  <2>2. new \in Clients /\ new = backlog[1] /\ 1 \in DOMAIN backlog
    BY <2>1, <1>0 DEF ServerTypes
  <2> QED BY <2>2, <1>0 DEF KernelOK
<1> HIDE DEF new
<1>3. \A c \in Clients : tcp'[c].stream = tcp[c].stream /\ StateOf(c)' = StateOf(c)
  <2>1. \A c \in Clients : tcp[c] \in Tcp
    BY <1>0 DEF ServerTypes
  <2>2. /\ \A c \in Clients : c # new => tcp'[c] = tcp[c]
        /\ tcp'[new].stream = tcp[new].stream /\ tcp'[new].phase = "accepted"
    BY <2>1, <1>0, <1>1, <1>2 DEF ServerTypes, Tcp
  <2>3. \A c \in Clients : c # new => StateOf(c)' = StateOf(c)
    BY <2>2 DEF StateOf
  <2>4. ASSUME NEW c \in Clients PROVE StateOf(c)' = StateOf(c)
    <3>1. CASE c = new
      BY <3>1, <2>2, <1>2 DEF StateOf
    <3> QED BY <3>1, <2>3
  <2> QED BY <2>2, <2>4
<1>4. ASSUME NEW c \in Clients PROVE IsActive(c)' <=> IsActive(c)
  <2>1. DOMAIN connections = Conns /\ Conns \subseteq Fds /\ fd \notin Conns
    BY <1>0, LoopFacts DEF ServerTypes, Conns
  <2>2. /\ DOMAIN connections' = Conns \cup {fd} /\ ~connections'[fd].activated
        /\ \A f \in Conns : connections'[f] = connections[f] /\ sock'[f] = sock[f]
    BY <2>1, <1>0 DEF ServerTypes, NewConnection
  <2> QED BY <2>1, <2>2 DEF IsActive
<1>5. \A c \in Clients : OwedTo(c)' = OwedTo(c)
  BY <1>1 DEF OwedTo
<1>6. UNCHANGED S!vars
  BY <1>1, <1>3, <1>4, <1>5, MapStutter
<1>7. OwedOK'
  BY <1>0, <1>1 DEF OwedOK
<1> QED BY <1>1, <1>6, <1>7 DEF SessionInv, SessionNext

LEMMA UnnoticedReceive ==
  ASSUME SessionInv, OnClientData, Received # 0
  PROVE  SessionNext /\ out' \in [Clients -> Seq(Sent)] /\ OwedOK'
<1>0. OwedOK /\ ServerTypes /\ IInv
  BY DEF SessionInv, IInv, ServerInv
<1>1. /\ cur \in Conns /\ DOMAIN connections = Conns /\ Peer \in Clients /\ step = "enter"
      /\ connections[cur] \in Connection
  BY <1>0, EnterFacts
<1>2. /\ connections' = [connections EXCEPT ![cur].recv_buf =
                       @ \o [i \in 1..Received |-> tcp[Peer].read + i - 1]]
      /\ tcp' = [tcp EXCEPT ![Peer].read = @ + Received]
      /\ step' = "parse" /\ UNCHANGED <<sock, owed, seen, out>>
  BY <1>1 DEF OnClientData, Receive
<1>3. \A c \in Clients : tcp'[c].stream = tcp[c].stream /\ tcp'[c].phase = tcp[c].phase
  BY <1>0, <1>1, <1>2 DEF ServerTypes, Tcp
<1>4. \A c \in Clients : StateOf(c)' = StateOf(c)
  BY <1>3 DEF StateOf
<1>5. ASSUME NEW c \in Clients PROVE IsActive(c)' <=> IsActive(c)
  <2> DEFINE b == connections[cur].recv_buf \o [i \in 1..Received |-> tcp[Peer].read + i - 1]
  <2>1. connections' = [connections EXCEPT ![cur] = [connections[cur] EXCEPT !.recv_buf = b]]
    BY <1>1, <1>2
  <2> HIDE DEF b
  <2>2. /\ DOMAIN connections' = DOMAIN connections
        /\ \A f \in Conns : connections'[f].activated = connections[f].activated
    BY <2>1, <1>0, <1>1 DEF ServerTypes, Connection
  <2> QED BY <2>2, <1>1, <1>2 DEF IsActive
<1>6. \A c \in Clients : OwedTo(c)' = OwedTo(c)
  BY <1>1, <1>2 DEF OwedTo
<1>7. UNCHANGED S!vars
  BY <1>2, <1>3, <1>4, <1>5, <1>6, MapStutter
<1>8. OwedOK'
  BY <1>0, <1>1, <1>2 DEF OwedOK
<1> QED BY <1>2, <1>7, <1>8 DEF SessionInv, SessionNext

LEMMA UnnoticedArrival ==
  ASSUME SessionInv, NEW c \in Clients, Deliver(c) \/ Fin(c) \/ Reset(c)
  PROVE  SessionNext /\ out' \in [Clients -> Seq(Sent)] /\ OwedOK'
<1>0. OwedOK /\ ServerTypes
  BY DEF SessionInv, IInv, ServerInv
<1>1. UNCHANGED <<connections, step, owed, sock, seen, out, cur>>
  BY DEF Deliver, Fin, Reset, Network, loopVars
<1>2. \A d \in Clients : tcp'[d].stream = tcp[d].stream /\ tcp'[d].phase = tcp[d].phase
  <2>1. CASE Deliver(c)
    <3>1. PICK n \in Chunks :
            tcp' = [tcp EXCEPT ![c].arr = Min({@ + n, StreamEnd(tcp[c].stream)})]
      BY <2>1 DEF Deliver
    <3> QED BY <3>1, <1>0 DEF ServerTypes, Tcp
  <2>2. CASE Fin(c)
    BY <2>2, <1>0 DEF Fin, ServerTypes, Tcp
  <2>3. CASE Reset(c)
    <3>1. PICK a \in {tcp[c].arr, tcp[c].read} :
            tcp' = [tcp EXCEPT ![c].peer = IF @ = "up" THEN "rst" ELSE "dead", ![c].arr = a]
      BY <2>3 DEF Reset
    <3> QED BY <3>1, <1>0 DEF ServerTypes, Tcp
  <2> QED BY <2>1, <2>2, <2>3
<1>3. \A d \in Clients : /\ StateOf(d)' = StateOf(d) /\ (IsActive(d)' <=> IsActive(d))
                         /\ OwedTo(d)' = OwedTo(d)
  BY <1>1, <1>2 DEF StateOf, IsActive, OwedTo
<1>4. UNCHANGED S!vars
  BY <1>1, <1>2, <1>3, MapStutter
<1> QED BY <1>0, <1>1, <1>4 DEF SessionInv, SessionNext, OwedOK

-----------------------------------------------------------------------------
(***************************************************************************)
(* The steps of a session.                                                 *)
(***************************************************************************)
LEMMA ConnectOpens ==
  ASSUME SessionInv, NEW c \in Clients, Connect(c)
  PROVE  SessionNext /\ out' \in [Clients -> Seq(Sent)] /\ OwedOK'
<1>0. OwedOK /\ ServerTypes
  BY DEF SessionInv, IInv, ServerInv
<1>1. /\ UNCHANGED <<connections, step, owed, sock, seen, out, cur>>
      /\ tcp[c].phase = "new" /\ tcp' = [tcp EXCEPT ![c].phase = "backlog"]
  BY DEF Connect, Network, loopVars
<1>2. /\ \A d \in Clients : d # c => tcp'[d] = tcp[d]
      /\ tcp'[c].stream = tcp[c].stream /\ tcp'[c].phase = "backlog"
  BY <1>0, <1>1 DEF ServerTypes, Tcp
<1>3. StateMap[c] = "none" /\ StateMap' = [StateMap EXCEPT ![c] = "open"]
  <2>1. StateOf(c) = "none" /\ StateOf(c)' = "open"
    BY <1>1, <1>2 DEF StateOf
  <2>2. \A d \in Clients : d # c => StateOf(d)' = StateOf(d)
    BY <1>2 DEF StateOf
  <2> QED BY <2>1, <2>2 DEF StateMap
<1>4. SentMap' = SentMap
  <2>1. \A d \in Clients : tcp'[d].stream = tcp[d].stream
    BY <1>2
  <2> QED BY <2>1 DEF SentMap, SentBy
<1>5. UNCHANGED <<HandledMap, SaidMap, OwedMap>>
  BY <1>1 DEF HandledMap, SaidMap, OwedMap, SaidTo, OwedTo
<1>6. ActiveMap' = ActiveMap
  BY <1>1 DEF ActiveMap, IsActive
<1>7. S!Next
  BY <1>3, <1>4, <1>5, <1>6, OpenIs
<1> QED BY <1>0, <1>1, <1>7 DEF SessionInv, SessionNext, OwedOK

LEMMA SendMsgRequests ==
  ASSUME SessionInv, NEW c \in Clients, NEW m \in Msgs, SendMsg(c, m)
  PROVE  SessionNext /\ out' \in [Clients -> Seq(Sent)] /\ OwedOK'
<1>0. OwedOK /\ ServerTypes
  BY DEF SessionInv, IInv, ServerInv
<1> DEFINE s == tcp[c].stream
           e == [msg |-> m, at |-> StreamEnd(s)]
<1>1. /\ UNCHANGED <<connections, step, owed, sock, seen, out, cur>>
      /\ tcp[c].phase \in {"backlog", "accepted"}
      /\ tcp' = [tcp EXCEPT ![c].stream = Append(s, e)]
  BY <1>0 DEF SendMsg, Live, Network, loopVars, ServerTypes
<1>2. s \in Streams /\ e \in [msg : Msgs, at : Nat] /\ e.msg = m
  <2>1. s \in Streams
    BY <1>0 DEF ServerTypes, Tcp
  <2>2. Len(s) \in 0..Len(s)
    BY <2>1 DEF Streams
  <2> QED BY <2>1, <2>2, EndIsAt, AtType
<1> HIDE DEF s, e
<1>3. /\ \A d \in Clients : d # c => tcp'[d] = tcp[d]
      /\ tcp'[c].stream = Append(s, e) /\ tcp'[c].phase = tcp[c].phase
  BY <1>0, <1>1 DEF ServerTypes, Tcp
<1>4. StateMap[c] = "open" /\ StateMap' = StateMap
  <2>1. \A d \in Clients : StateOf(d)' = StateOf(d)
    BY <1>3 DEF StateOf
  <2>2. StateOf(c) = "open"
    BY <1>1 DEF StateOf
  <2> QED BY <2>1, <2>2 DEF StateMap
<1>5. SentMap' = [SentMap EXCEPT ![c] = Append(@, m)]
  <2>1. \A d \in Clients : d # c => SentBy(d)' = SentBy(d)
    BY <1>3 DEF SentBy
  <2>2. [i \in DOMAIN Append(s, e) |-> Append(s, e)[i].msg]
           = Append([i \in DOMAIN s |-> s[i].msg], e.msg)
    BY <1>2, SentGrows
  <2>3. SentBy(c)' = Append(SentBy(c), m)
    BY <2>2, <1>2, <1>3 DEF SentBy, s
  <2> QED BY <2>1, <2>3 DEF SentMap
<1>6. UNCHANGED <<HandledMap, SaidMap, OwedMap>>
  BY <1>1 DEF HandledMap, SaidMap, OwedMap, SaidTo, OwedTo
<1>7. ActiveMap' = ActiveMap
  BY <1>1 DEF ActiveMap, IsActive
<1>8. S!Next
  BY <1>4, <1>5, <1>6, <1>7, RequestIs
<1> QED BY <1>0, <1>1, <1>8 DEF SessionInv, SessionNext, OwedOK

LEMMA CloseEnds ==
  ASSUME SessionInv, OnClientData, Received = 0
  PROVE  SessionNext /\ out' \in [Clients -> Seq(Sent)] /\ OwedOK'
<1>0. OwedOK /\ ServerTypes /\ IInv /\ KernelOK
  BY DEF SessionInv, IInv, ServerInv
<1> DEFINE p == Peer
<1>1. /\ cur \in Conns /\ DOMAIN connections = Conns /\ p \in Clients /\ step = "enter"
      /\ tcp[p].phase = "accepted" /\ sock[cur] = p
  BY <1>0, EnterFacts DEF Peer
<1>2. /\ connections' = Restrict(connections, DOMAIN connections \ {cur})
      /\ sock' = [sock EXCEPT ![cur] = NoClient]
      /\ tcp' = [tcp EXCEPT ![p].phase = "closed"]
      /\ step' = "done" /\ UNCHANGED <<owed, seen, out>>
  BY <1>1 DEF OnClientData, CloseConnection
<1> HIDE DEF p
<1>3. /\ \A d \in Clients : d # p => tcp'[d] = tcp[d]
      /\ \A d \in Clients : tcp'[d].stream = tcp[d].stream
      /\ tcp'[p].phase = "closed"
  BY <1>0, <1>1, <1>2 DEF ServerTypes, Tcp
<1>4. PICK c \in Clients : c = p
  BY <1>1
<1>5. StateMap[c] = "open" /\ StateMap' = [StateMap EXCEPT ![c] = "over"]
  <2>1. StateOf(c) = "open" /\ StateOf(c)' = "over"
    BY <1>1, <1>3, <1>4 DEF StateOf
  <2>2. \A d \in Clients : d # c => StateOf(d)' = StateOf(d)
    BY <1>3, <1>4 DEF StateOf
  <2> QED BY <2>1, <2>2 DEF StateMap
<1>6. ActiveMap' = [ActiveMap EXCEPT ![c] = FALSE]
  <2>1. Conns \subseteq Fds
    BY <1>0, LoopFacts DEF Conns, IInv
  <2>2. /\ DOMAIN connections' = Conns \ {cur}
        /\ \A f \in Conns \ {cur} : connections'[f] = connections[f] /\ sock'[f] = sock[f] /\ sock[f] # c
    BY <2>1, <1>0, <1>1, <1>2, <1>4 DEF Restrict, KernelOK, ServerTypes
  <2>3. IsActive(c)' = FALSE
    BY <2>2, <1>1 DEF IsActive
  <2>4. ASSUME NEW d \in Clients, d # c PROVE IsActive(d)' = IsActive(d)
    <3>1. sock[cur] # d
      BY <2>4, <1>1, <1>4
    <3> QED BY <3>1, <2>2, <1>1 DEF IsActive
  <2> QED BY <2>3, <2>4 DEF ActiveMap
<1>7. OwedMap' = OwedMap /\ OwedMap[c] = <<>>
  BY <1>1, <1>2 DEF OwedMap, OwedTo
<1>8. UNCHANGED <<SentMap, HandledMap, SaidMap>>
  BY <1>2, <1>3 DEF HandledMap, SentMap, SaidMap, SentBy, SaidTo
<1>9. S!Next
  BY <1>5, <1>6, <1>7, <1>8, OverIs
<1>10. OwedOK'
  BY <1>0, <1>1, <1>2 DEF OwedOK
<1> QED BY <1>2, <1>9, <1>10 DEF SessionInv, SessionNext

(***************************************************************************)
(* Activation of a connection is activation of its tester: nobody else is  *)
(* connected there.                                                        *)
(***************************************************************************)
LEMMA ActiveIs ==
  ASSUME SessionInv, NEW fd \in Conns
  PROVE  IsActive(sock[fd]) <=> connections[fd].activated
<1>0. ServerTypes /\ KernelOK
  BY DEF SessionInv, IInv, ServerInv
<1>1. DOMAIN connections = Conns
  BY <1>0 DEF ServerTypes
<1>2. \A f \in Conns : sock[f] = sock[fd] => f = fd
  BY <1>0 DEF KernelOK
<1> QED BY <1>1, <1>2 DEF IsActive

LEMMA RespondAnswers ==
  ASSUME SessionInv, Respond
  PROVE  SessionNext /\ out' \in [Clients -> Seq(Sent)] /\ OwedOK'
<1>0. OwedOK /\ ServerTypes /\ IInv /\ KernelOK
  BY DEF SessionInv, IInv, ServerInv
<1> DEFINE p == Peer
<1>1. /\ pc = "callback" /\ step = "respond" /\ step' = "parse" /\ owed' = <<>>
      /\ send_to_client(p, owed)
      /\ connections' = [connections EXCEPT ![cur] = Consume(@, Front)]
      /\ UNCHANGED <<loopVars, sock, seen>>
  BY DEF Respond
<1>2. /\ cur \in Conns /\ p \in Clients /\ tcp[p].phase = "accepted" /\ sock[cur] = p
      /\ DOMAIN connections = Conns /\ connections[cur] \in Connection
  BY <1>0, <1>1, ParseFacts DEF Peer
<1>3. PICK m \in Msgs : owed = <<DiagnosticRes(m)>>
  BY <1>0, <1>1 DEF OwedOK
<1>4. owed # <<>> /\ \E r \in Replies : owed = <<r>>
  <2>1. DiagnosticRes(m) \in Replies
    BY DEF Replies
  <2> QED BY <2>1, <1>3
<1>5. \A d \in Clients : tcp'[d].stream = tcp[d].stream /\ tcp'[d].phase = tcp[d].phase
  BY <1>0, <1>1, <1>2, SendStep
<1>6. /\ out' \in [Clients -> Seq(Sent)] /\ \A d \in Clients : d # p => out'[d] = out[d]
      /\ SaidTo(p)' = SaidTo(p) \o owed
  <2>1. out \in [Clients -> Seq(Sent)]
    BY DEF SessionInv
  <2>2. PICK c \in Clients : c = p
    BY <1>2
  <2>3. /\ out' \in [Clients -> Seq(Sent)] /\ \A d \in Clients : d # c => out'[d] = out[d]
        /\ SaidTo(c)' = SaidTo(c) \o owed
    BY <2>1, <2>2, <1>1, <1>4, SendSays
  <2>4. p' = p
    BY <1>1 DEF Peer, loopVars
  <2>5. SaidTo(p)' = SaidTo(p) \o owed
    BY <2>2, <2>3, <2>4
  <2> QED BY <2>2, <2>3, <2>5
<1>7. p' = p /\ cur' = cur
  BY <1>1 DEF Peer, loopVars
<1> HIDE DEF p
<1>8. PICK c \in Clients : c = p
  BY <1>2
<1>9. StateMap' = StateMap /\ StateMap[c] = "open"
  BY <1>2, <1>5, <1>8 DEF StateMap, StateOf
<1>10. SentMap' = SentMap /\ HandledMap' = HandledMap
  BY <1>1, <1>5 DEF SentMap, HandledMap, SentBy
<1>11. ActiveMap' = ActiveMap
  <2>1. DOMAIN connections' = Conns /\ \A f \in Conns : connections'[f].activated = connections[f].activated
    BY <1>0, <1>1, <1>2 DEF ServerTypes, Connection, Consume
  <2>2. \A d \in Clients : IsActive(d)' = IsActive(d)
    BY <2>1, <1>1, <1>2 DEF IsActive
  <2> QED BY <2>2, Zenon DEF ActiveMap
<1>12. OwedMap[c] = owed /\ OwedMap' = [OwedMap EXCEPT ![c] = <<>>]
  <2>1. OwedTo(c) = owed
    BY <1>1, <1>2, <1>8 DEF OwedTo
  <2>2. \A d \in Clients : OwedTo(d)' = <<>>
    BY <1>1 DEF OwedTo
  <2>3. \A d \in Clients : d # c => OwedTo(d) = <<>>
    BY <1>2, <1>8 DEF OwedTo
  <2> QED BY <2>1, <2>2, <2>3 DEF OwedMap
<1>13. SaidMap' = [SaidMap EXCEPT ![c] = @ \o OwedMap[c]]
  <2>1. SaidTo(c)' = SaidTo(c) \o owed
    BY <1>6, <1>7, <1>8
  <2>2. \A d \in Clients : d # c => SaidTo(d)' = SaidTo(d)
    BY <1>6, <1>8 DEF SaidTo
  <2> QED BY <2>1, <2>2, <1>12 DEF SaidMap
<1>14. S!Next
  BY <1>4, <1>9, <1>10, <1>11, <1>12, <1>13, AnswerIs
<1>15. OwedOK'
  BY <1>1 DEF OwedOK
<1> QED BY <1>6, <1>14, <1>15 DEF SessionNext

LEMMA HandleServes ==
  ASSUME SessionInv, HandleMessage
  PROVE  SessionNext /\ out' \in [Clients -> Seq(Sent)] /\ OwedOK'
<1>0. OwedOK /\ ServerTypes /\ IInv /\ KernelOK /\ out \in [Clients -> Seq(Sent)]
  BY DEF SessionInv, IInv, ServerInv
<1>1. PICK m \in Msgs, c \in Clients :
        /\ m = Front /\ c = Peer /\ sock[cur] = c /\ cur \in Conns /\ DOMAIN connections = Conns
        /\ connections[cur] \in Connection /\ tcp[c] \in Tcp
        /\ tcp[c].phase = "accepted" /\ seen[c] \in Seq(Msgs)
        /\ tcp[c].stream \in Streams /\ Len(seen[c]) < Len(tcp[c].stream)
        /\ m = tcp[c].stream[Len(seen[c]) + 1].msg
  <2>1. pc = "callback" /\ step = "parse" /\ Complete
    BY DEF HandleMessage
  <2> DEFINE k == Len(seen[Peer])
  <2>2. /\ cur \in Conns /\ connections[cur] \in Connection /\ DOMAIN connections = Conns
        /\ Peer \in Clients /\ tcp[Peer] \in Tcp /\ tcp[Peer].phase = "accepted"
        /\ seen[Peer] \in Seq(Msgs) /\ tcp[Peer].stream \in Streams
        /\ NextWhole(tcp[Peer], k) /\ Front = tcp[Peer].stream[k + 1].msg /\ Front \in Msgs
    BY <2>1, <1>0, ParseFacts
  <2>3. k < Len(tcp[Peer].stream) /\ sock[cur] = Peer
    BY <2>2 DEF NextWhole, Peer
  <2> QED BY <2>2, <2>3, Zenon
<1> DEFINE conn == Activate(connections[cur], m)
           accepted == m.type = "DIAGNOSTIC_MESSAGE" /\ ActiveMap[c] /\ m.len >= 4
           answers == IF Activates(m) THEN <<RoutingActivationRes(m)>>
                      ELSE IF accepted THEN <<DiagnosticAck(m)>>
                      ELSE IF m.type = "ALIVE_CHECK_REQ" THEN <<AliveCheckRes>>
                      ELSE <<>>
<1>2. /\ step = "parse" /\ send_to_client(c, FirstReply(m))
      /\ seen' = [seen EXCEPT ![c] = Append(@, m)]
      /\ \/ /\ IsDiagnostic(m) /\ owed' = <<DiagnosticRes(m)>> /\ step' = "respond"
            /\ connections' = [connections EXCEPT ![cur] = conn]
         \/ /\ ~IsDiagnostic(m) /\ owed' = owed /\ step' = step
            /\ connections' = [connections EXCEPT ![cur] = Consume(conn, m)]
      /\ UNCHANGED <<loopVars, backlog, sock>>
  BY <1>1 DEF HandleMessage
<1>3. /\ owed = <<>> /\ cur' = cur /\ sock' = sock
  BY <1>0, <1>2 DEF OwedOK, loopVars
<1>4. ActiveMap[c] <=> connections[cur].activated
  BY <1>1, ActiveIs DEF ActiveMap
<1>5. IsDiagnostic(m) <=> accepted
  BY <1>4 DEF IsDiagnostic
<1>6. FirstReply(m) = answers /\ (FirstReply(m) = <<>> \/ \E r \in Replies : FirstReply(m) = <<r>>)
  <2> HIDE DEF accepted
  <2> QED BY <1>5, FirstReplyIs
<1> HIDE DEF accepted, answers, conn
<1>7. \A d \in Clients : tcp'[d].stream = tcp[d].stream /\ tcp'[d].phase = tcp[d].phase
  BY <1>0, <1>2, SendStep
<1>8. /\ out' \in [Clients -> Seq(Sent)] /\ \A d \in Clients : d # c => out'[d] = out[d]
      /\ SaidTo(c)' = SaidTo(c) \o answers
  BY <1>0, <1>2, <1>6, SendSays
<1>9. StateMap' = StateMap /\ StateMap[c] = "open"
  BY <1>1, <1>7 DEF StateMap, StateOf
<1>10. /\ SentMap' = SentMap /\ HandledMap[c] = Len(seen[c]) /\ Len(seen[c]) \in Nat
       /\ HandledMap[c] < Len(SentMap[c]) /\ m = SentMap[c][HandledMap[c] + 1]
  <2>1. SentMap' = SentMap /\ HandledMap[c] = Len(seen[c]) /\ Len(seen[c]) \in Nat
    BY <1>1, <1>7 DEF SentMap, HandledMap, SentBy
  <2>2. Len(tcp[c].stream) \in Nat /\ DOMAIN tcp[c].stream = 1..Len(tcp[c].stream)
    BY <1>1 DEF Streams
  <2>3. SentMap[c] = [i \in 1..Len(tcp[c].stream) |-> tcp[c].stream[i].msg]
    BY <2>2 DEF SentMap, SentBy
  <2>4. Len(SentMap[c]) = Len(tcp[c].stream)
    BY <2>2, <2>3
  <2>5. Len(seen[c]) + 1 \in 1..Len(tcp[c].stream)
    BY <2>1, <2>2, <1>1
  <2> QED BY <2>1, <2>3, <2>4, <2>5, <1>1
<1>11. HandledMap' = [HandledMap EXCEPT ![c] = @ + 1]
  <2>1. Len(seen'[c]) = Len(seen[c]) + 1 /\ \A d \in Clients : d # c => seen'[d] = seen[d]
    BY <1>0, <1>1, <1>2 DEF ServerTypes
  <2> QED BY <2>1 DEF HandledMap
<1>12. OwedMap[c] = <<>> /\ OwedMap' = [OwedMap EXCEPT ![c] = IF accepted THEN <<DiagnosticRes(m)>> ELSE <<>>]
  <2>1. \A d \in Clients : OwedTo(d) = <<>>
    BY <1>2 DEF OwedTo
  <2>2. \A d \in Clients : d # c => OwedTo(d)' = <<>>
    BY <1>1, <1>3 DEF OwedTo
  <2>3. OwedTo(c)' = IF accepted THEN <<DiagnosticRes(m)>> ELSE <<>>
    BY <1>1, <1>2, <1>3, <1>5 DEF OwedTo
  <2> QED BY <2>1, <2>2, <2>3 DEF OwedMap
<1>13. SaidMap' = [SaidMap EXCEPT ![c] = @ \o answers]
  <2>1. \A d \in Clients : d # c => SaidTo(d)' = SaidTo(d)
    BY <1>8 DEF SaidTo
  <2> QED BY <2>1, <1>8 DEF SaidMap
<1>14. ActiveMap' = [ActiveMap EXCEPT ![c] = @ \/ Activates(m)]
  <2>1. /\ conn \in [activated : BOOLEAN, tester_addr : {conn.tester_addr}, recv_buf : {conn.recv_buf}]
        /\ conn.activated <=> (connections[cur].activated \/ Activates(m))
    BY <1>1 DEF conn, Activate, Connection
  <2>2. Consume(conn, m).activated = conn.activated
    BY <2>1 DEF Consume
  <2>3. /\ DOMAIN connections' = Conns
        /\ \A f \in Conns : f # cur => connections'[f] = connections[f]
        /\ connections'[cur].activated = conn.activated
    BY <2>2, <1>0, <1>1, <1>2 DEF ServerTypes
  <2>4. IsActive(c)' <=> (ActiveMap[c] \/ Activates(m))
    <3>1. \A f \in Conns : sock[f] = c => f = cur
      BY <1>0, <1>1 DEF KernelOK
    <3>2. IsActive(c)' <=> connections'[cur].activated
      BY <3>1, <2>3, <1>1, <1>3 DEF IsActive
    <3> QED BY <3>2, <2>1, <2>3, <1>4
  <2>5. ASSUME NEW d \in Clients, d # c PROVE IsActive(d)' = IsActive(d)
    BY <2>3, <2>5, <1>1, <1>3 DEF IsActive
  <2>6. IsActive(c)' = (ActiveMap[c] \/ Activates(m))
    BY <2>4 DEF IsActive
  <2> QED BY <2>5, <2>6 DEF ActiveMap
<1>15. S!Next
  BY <1>9, <1>10, <1>11, <1>12, <1>13, <1>14, ServeIs DEF accepted, answers
<1>16. OwedOK'
  BY <1>1, <1>2, <1>3 DEF OwedOK
<1> QED BY <1>8, <1>15, <1>16 DEF SessionNext

-----------------------------------------------------------------------------
LEMMA SessionStep ==
  ASSUME SessionInv, [Next]_vars
  PROVE  SessionNext /\ SessionInv'
<1>1. IInv'
  BY InvNext DEF SessionInv
<1>2. SessionNext /\ out' \in [Clients -> Seq(Sent)] /\ OwedOK'
  <2>1. CASE \/ LoopStep \/ (\E B \in SUBSET L!Reportable : EpollWait(B)) \/ Sigint
             \/ Dispatch \/ Return \/ AcceptFails \/ ParseBreak \/ Killed \/ UNCHANGED vars
    BY <2>1, UnnoticedLoop
  <2>2. CASE Accept
    BY <2>2, UnnoticedAccept
  <2>3. CASE OnClientData
    BY <2>3, UnnoticedReceive, CloseEnds
  <2>4. CASE HandleMessage
    BY <2>4, HandleServes
  <2>5. CASE Respond
    BY <2>5, RespondAnswers
  <2>6. CASE Tester
    <3>1. PICK c \in Clients : \/ Connect(c) \/ Deliver(c) \/ Fin(c) \/ Reset(c)
                               \/ \E m \in Msgs : SendMsg(c, m)
      BY <2>6 DEF Tester
    <3> QED BY <3>1, ConnectOpens, UnnoticedArrival, SendMsgRequests
  <2> QED BY <2>1, <2>2, <2>3, <2>4, <2>5, <2>6, Zenon DEF Next, Server
<1> QED BY <1>1, <1>2 DEF SessionInv

LEMMA SessionInit == Init => SessionInv /\ S!Init
<1> SUFFICES ASSUME Init PROVE SessionInv /\ S!Init
  OBVIOUS
<1>1. SessionInv
  <2>1. out \in [Clients -> Seq(Sent)]
    BY EmptySeq DEF Init
  <2> QED BY <2>1, InvInit DEF Init, SessionInv, OwedOK
<1>2. /\ StateMap = [c \in Clients |-> "none"] /\ SentMap = [c \in Clients |-> <<>>]
      /\ HandledMap = [c \in Clients |-> 0] /\ SaidMap = [c \in Clients |-> <<>>]
      /\ OwedMap = [c \in Clients |-> <<>>]
  BY DEF Init, StateMap, SentMap, HandledMap, SaidMap, OwedMap, StateOf, SentBy, SaidTo, OwedTo
<1>3. ActiveMap = [c \in Clients |-> FALSE]
  <2>1. \A c \in Clients : IsActive(c) = FALSE
    BY DEF Init, IsActive
  <2> QED BY <2>1, Zenon DEF ActiveMap
<1> QED BY <1>1, <1>2, <1>3, SessionInitIs

(***************************************************************************)
(* Whatever the network, the other testers and the reuse of descriptors    *)
(* do, each tester is served as DoIpSession says: its messages in order    *)
(* and once, each diagnostic message acknowledged and then answered, and   *)
(* only on a connection this tester has activated itself.                  *)
(***************************************************************************)
THEOREM ServerServesSessions == Spec => ImplementsSession
<1>1. Init => SessionInv /\ S!Init
  BY SessionInit
<1>2. SessionInv /\ [Next]_vars => SessionInv' /\ [S!Next]_(S!vars)
  BY SessionStep DEF SessionNext
<1> QED BY <1>1, <1>2, PTL DEF Spec, ImplementsSession, S!Spec

=============================================================================
