----------------------------- MODULE TcpProofs -----------------------------
(***************************************************************************)
(* The TCP client leaks no slot, reports no dead connection and delivers   *)
(* the peer's bytes in order, for every ring and window size, every number *)
(* of slots and whatever rx does between the steps of a call.              *)
(***************************************************************************)
EXTENDS Tcp, SequenceTheorems, TLAPS

\* A leaf is given to the SMT solver and then to Zenon, a minute each.
USE SMTT(60), ZenonT(60)

-----------------------------------------------------------------------------
(* Types.                                                                  *)

Pos == 0 .. TCP_RX_BUF_SIZE - 1
State == {"CLOSED", "SYN_SENT", "ESTABLISHED", "FIN_WAIT_1", "FIN_WAIT_2", "TIME_WAIT"}
Byte == [port : Nat, i : Nat]
FlagSet == SUBSET {"SYN", "ACK", "FIN", "RST", "PSH"}

Conn ==
  [in_use : BOOLEAN, state : State, local_port : Nat, send_seq : Int, send_ack : Int,
   rx_buf : [Pos -> Byte], rx_head : Pos, rx_tail : Pos,
   fin_received : BOOLEAN, connected : BOOLEAN]

Segment ==
  [port : Nat, flags : FlagSet, seq : Int, ack : Int, data : Seq(Byte), len : Nat]

PeerEnd ==
  [state : {"listen", "syn_rcvd", "established", "finished", "closed"}, nxt : Int,
   sent : Nat, owes : {"none", "synack", "ack"}]

PC == {"idle", "ports", "rest", "xmit", "connecting", "sent", "receiving", "copy", "tail",
       "finished", "closing", "closed"}

TcpType ==
  /\ CONNS \in [Slots -> Conn]
  /\ NEXT_LOCAL_PORT \in Nat
  /\ SEG_BUF \in Segment
  /\ pc \in PC /\ op \in {"none", "syn", "data", "fin"}
  /\ cur \in Slots \cup {NoSlot} /\ app \in Slots \cup {NoSlot}
  /\ length \in Nat /\ snap \in Pos \X Pos
  /\ queue \in Seq(Segment)
  /\ peer \in [Ports -> PeerEnd]
  /\ got \in Seq(Byte)

-----------------------------------------------------------------------------
(* Slots.                                                                  *)

\* What the thread does at each pc.
Doing(o) ==
  CASE o = "syn"  -> {"ports", "rest", "xmit", "connecting"}
    [] o = "data" -> {"ports", "rest", "xmit", "sent"}
    [] o = "fin"  -> {"ports", "rest", "xmit", "finished", "closing", "closed"}
    [] o = "none" -> {"idle", "receiving", "copy", "tail"}

\* The slot the shell holds or the call that runs works on.
hold == IF pc = "idle" THEN app ELSE cur

\* A call works on the shell's connection, connect on one that is not yet
\* the shell's.
ThreadInv ==
  /\ pc \in Doing(op)
  /\ pc = "idle" <=> cur = NoSlot
  /\ op = "syn" => app = NoSlot
  /\ pc # "idle" /\ op # "syn" => app = cur

\* Every other slot is free; the held one may be free because rx has reset
\* it, and close may still have changed the state of a slot that was.
SlotInv ==
  /\ \A s \in Slots : s # hold => ~CONNS[s].in_use /\ CONNS[s].state = "CLOSED"
  /\ hold \in Slots /\ ~CONNS[hold].in_use =>
       CONNS[hold].state = "CLOSED" \/ pc \in {"closing", "closed"}

\* While connect waits, a connection that counts as connected is alive.
SynInv ==
  op = "syn" =>
    /\ CONNS[cur].state \notin {"FIN_WAIT_1", "FIN_WAIT_2"}
    /\ CONNS[cur].connected =>
         CONNS[cur].in_use /\ CONNS[cur].state \in {"ESTABLISHED", "TIME_WAIT"}

-----------------------------------------------------------------------------
(* Bytes.                                                                  *)

\* The number of bytes in a ring, and the slot of the k-th, without %.
Dist(h, t) == IF t <= h THEN h - t ELSE h - t + TCP_RX_BUF_SIZE
SlotAt(t, k) == IF t + k - 1 < TCP_RX_BUF_SIZE THEN t + k - 1 ELSE t + k - 1 - TCP_RX_BUF_SIZE
Count(c) == Dist(c.rx_head, c.rx_tail)

\* What recv has returned, g, followed by what waits in the ring of c behind
\* the n bytes that are among g already.
Total(c, g, n) == Len(g) + Count(c) - n
Stream(c, g, n, j) == IF j <= Len(g) THEN g[j] ELSE c.rx_buf[SlotAt(c.rx_tail, n + j - Len(g))]

\* These are bytes of c's connection, in order, up to the m-th byte sent.
InStream(c, g, n, m) ==
  /\ \A j \in 1 .. Total(c, g, n) :
       Stream(c, g, n, j).port = c.local_port /\ Stream(c, g, n, j).i <= m
  /\ \A j, k \in 1 .. Total(c, g, n) : j < k => Stream(c, g, n, j).i < Stream(c, g, n, k).i

\* Data is bytes m+1 to last of the connection to port p, in order.
Run(data, p, m, last) ==
  /\ \A d \in 1 .. Len(data) : data[d].port = p /\ m < data[d].i /\ data[d].i <= last
  /\ \A d, e \in 1 .. Len(data) : d < e => data[d].i < data[e].i

\* The bytes of port p in the queue q come after the m-th.
Beyond(q, p, m) ==
  \A x \in 1 .. Len(q) : q[x].port = p =>
    \A d \in 1 .. Len(q[x].data) : m < q[x].data[d].i

\* The peer's bytes on their way: every segment carries bytes of its own
\* connection, and all are in the order in which they were sent.
Ordered(q, pr) ==
  /\ \A x \in 1 .. Len(q) :
       q[x].port \in Ports /\ Run(q[x].data, q[x].port, 0, pr[q[x].port].sent)
  /\ \A x, y \in 1 .. Len(q) : x < y /\ q[x].port = q[y].port =>
       \A d \in 1 .. Len(q[x].data), e \in 1 .. Len(q[y].data) : q[x].data[d].i < q[y].data[e].i

QueueInv == Ordered(queue, peer)

\* The bytes at the front of the ring that recv has copied but not released.
skip == IF pc = "tail" THEN length ELSE 0

\* recv's copy of head and tail: the bytes between them are still there.
SnapInv ==
  /\ pc \in {"copy", "tail"} =>
       /\ snap[1] # snap[2] /\ snap[2] = CONNS[cur].rx_tail
       /\ Dist(snap[1], snap[2]) <= Count(CONNS[cur])
  /\ pc = "tail" => length <= Dist(snap[1], snap[2])

\* The stream of c is in order, and what is on its way comes after it.
Fine(c, g, n, q, pr) ==
  /\ c.local_port \in Ports
  /\ \E m \in 0 .. pr[c.local_port].sent : InStream(c, g, n, m) /\ Beyond(q, c.local_port, m)

StreamInv ==
  hold \in Slots /\ CONNS[hold].in_use => Fine(CONNS[hold], got, skip, queue, peer)

TcpInv == TcpType /\ ThreadInv /\ SlotInv /\ SynInv /\ SnapInv /\ QueueInv /\ StreamInv

-----------------------------------------------------------------------------
(* The ring.                                                               *)

\* Positions, their sums and their differences modulo the size of the ring.
LEMMA RingMod ==
  /\ \A x \in Pos : x % TCP_RX_BUF_SIZE = x
  /\ \A x \in TCP_RX_BUF_SIZE .. 2 * TCP_RX_BUF_SIZE - 1 :
       x % TCP_RX_BUF_SIZE = x - TCP_RX_BUF_SIZE
  /\ \A x \in -TCP_RX_BUF_SIZE .. -1 : x % TCP_RX_BUF_SIZE = x + TCP_RX_BUF_SIZE
BY TcpAssumption DEF Pos

LEMMA DistMod ==
  ASSUME NEW h \in Pos, NEW t \in Pos
  PROVE  /\ (h - t) % TCP_RX_BUF_SIZE = Dist(h, t)
         /\ Dist(h, t) \in 0 .. TCP_RX_BUF_SIZE - 1
         /\ Dist(h, t) = 0 <=> h = t
<1>1. CASE t <= h
  BY <1>1, RingMod, TcpAssumption DEF Pos, Dist
<1>2. CASE ~(t <= h)
  <2>1. h - t \in -TCP_RX_BUF_SIZE .. -1
    BY <1>2, TcpAssumption DEF Pos
  <2> QED
    BY <1>2, <2>1, RingMod, TcpAssumption DEF Pos, Dist
<1> QED
  BY <1>1, <1>2

LEMMA SlotMod ==
  ASSUME NEW t \in Pos, NEW k \in 1 .. TCP_RX_BUF_SIZE
  PROVE  /\ (t + k - 1) % TCP_RX_BUF_SIZE = SlotAt(t, k)
         /\ SlotAt(t, k) \in Pos
<1>1. CASE t + k - 1 < TCP_RX_BUF_SIZE
  <2>1. t + k - 1 \in Pos
    BY <1>1, TcpAssumption DEF Pos
  <2> QED
    BY <1>1, <2>1, RingMod DEF SlotAt
<1>2. CASE ~(t + k - 1 < TCP_RX_BUF_SIZE)
  <2>1. t + k - 1 \in TCP_RX_BUF_SIZE .. 2 * TCP_RX_BUF_SIZE - 1
    BY <1>2, TcpAssumption DEF Pos
  <2> QED
    BY <1>2, <2>1, RingMod, TcpAssumption DEF SlotAt, Pos
<1> QED
  BY <1>1, <1>2

\* Moving head or tail by n slots.
LEMMA MoveMod ==
  ASSUME NEW t \in Pos, NEW n \in 0 .. TCP_RX_BUF_SIZE - 1
  PROVE  /\ (t + n) % TCP_RX_BUF_SIZE = SlotAt(t, n + 1)
         /\ SlotAt(t, n + 1) \in Pos
<1>1. n + 1 \in 1 .. TCP_RX_BUF_SIZE /\ t + (n + 1) - 1 = t + n
  BY TcpAssumption DEF Pos
<1> QED
  BY <1>1, SlotMod

\* A head that moves by no more than there is room.
LEMMA HeadMoves ==
  ASSUME NEW h \in Pos, NEW t \in Pos, NEW n \in 0 .. TCP_RX_BUF_SIZE - 1 - Dist(h, t)
  PROVE  /\ Dist(SlotAt(h, n + 1), t) = Dist(h, t) + n
         /\ \A k \in 1 .. Dist(h, t) : Dist(SlotAt(t, k), h) >= n
         /\ \A k \in 1 .. n : Dist(SlotAt(t, Dist(h, t) + k), h) = k - 1
<1>1. Dist(h, t) \in 0 .. TCP_RX_BUF_SIZE - 1
  BY DistMod
<1>2. Dist(SlotAt(h, n + 1), t) = Dist(h, t) + n
  BY <1>1, TcpAssumption DEF Dist, SlotAt, Pos
<1>3. ASSUME NEW k \in 1 .. Dist(h, t) PROVE Dist(SlotAt(t, k), h) >= n
  BY <1>1, TcpAssumption DEF Dist, SlotAt, Pos
<1>4. ASSUME NEW k \in 1 .. n PROVE Dist(SlotAt(t, Dist(h, t) + k), h) = k - 1
  BY <1>1, TcpAssumption DEF Dist, SlotAt, Pos
<1> QED
  BY <1>2, <1>3, <1>4

\* A tail that moves by no more than there is.
LEMMA TailMoves ==
  ASSUME NEW h \in Pos, NEW t \in Pos, NEW n \in 0 .. Dist(h, t)
  PROVE  /\ Dist(h, SlotAt(t, n + 1)) = Dist(h, t) - n
         /\ \A k \in 1 .. Dist(h, t) - n : SlotAt(SlotAt(t, n + 1), k) = SlotAt(t, n + k)
<1>1. Dist(h, t) \in 0 .. TCP_RX_BUF_SIZE - 1
  BY DistMod
<1>2. Dist(h, SlotAt(t, n + 1)) = Dist(h, t) - n
  BY <1>1, TcpAssumption DEF Dist, SlotAt, Pos
<1>3. ASSUME NEW k \in 1 .. Dist(h, t) - n
      PROVE  SlotAt(SlotAt(t, n + 1), k) = SlotAt(t, n + k)
  BY <1>1, TcpAssumption DEF Dist, SlotAt, Pos
<1> QED
  BY <1>2, <1>3

LEMMA RoomValue ==
  ASSUME NEW c \in Conn
  PROVE  Room(c) = TCP_RX_BUF_SIZE - 1 - Count(c) /\ Count(c) \in 0 .. TCP_RX_BUF_SIZE - 1
<1> DEFINE h == c.rx_head
           t == c.rx_tail
<1>1. h \in Pos /\ t \in Pos
  BY DEF Conn
<1> HIDE DEF h, t
<1>2. (t - h - 1) % TCP_RX_BUF_SIZE = TCP_RX_BUF_SIZE - 1 - Dist(h, t)
  <2>1. CASE h < t
    <3>1. t - h - 1 \in Pos
      BY <1>1, <2>1, TcpAssumption DEF Pos
    <3> QED
      BY <1>1, <2>1, <3>1, RingMod, TcpAssumption DEF Dist, Pos
  <2>2. CASE ~(h < t)
    <3>1. t - h - 1 \in -TCP_RX_BUF_SIZE .. -1
      BY <1>1, <2>2, TcpAssumption DEF Pos
    <3> QED
      BY <1>1, <2>2, <3>1, RingMod, TcpAssumption DEF Dist, Pos
  <2> QED
    BY <2>1, <2>2
<1> QED
  BY <1>1, <1>2, DistMod DEF Room, Count, h, t

\* d is c after its ring has taken the first n bytes of data.
Took(c, d, data, n) ==
  /\ d.local_port = c.local_port /\ d.rx_tail = c.rx_tail
  /\ Count(d) = Count(c) + n
  /\ \A k \in 1 .. Count(c) : d.rx_buf[SlotAt(c.rx_tail, k)] = c.rx_buf[SlotAt(c.rx_tail, k)]
  /\ \A k \in 1 .. n : d.rx_buf[SlotAt(c.rx_tail, Count(c) + k)] = data[k]

LEMMA StoreFacts ==
  ASSUME NEW c \in Conn, NEW data \in Seq(Byte)
  PROVE  LET d == Store(c, data)
         IN  /\ d \in Conn /\ d.in_use = c.in_use /\ d.state = c.state
             /\ d.connected = c.connected
             /\ \E n \in 0 .. Len(data) : Took(c, d, data, n)
<1> DEFINE h == c.rx_head
           t == c.rx_tail
           n == IF Len(data) > Room(c) THEN Room(c) ELSE Len(data)
           Nth(k) == 1 + ((k - h) % TCP_RX_BUF_SIZE)
           buf == [k \in 0 .. TCP_RX_BUF_SIZE - 1 |->
                     IF Nth(k) <= n THEN data[Nth(k)] ELSE c.rx_buf[k]]
           d == Store(c, data)
<1>1. h \in Pos /\ t \in Pos /\ c.rx_buf \in [Pos -> Byte] /\ Len(data) \in Nat
  BY LenProperties DEF Conn
<1>2. n \in 0 .. TCP_RX_BUF_SIZE - 1 - Dist(h, t) /\ n \in 0 .. Len(data)
      /\ n \in 0 .. TCP_RX_BUF_SIZE - 1
  BY <1>1, RoomValue, TcpAssumption DEF Count
<1>3. d = [c EXCEPT !.rx_buf = buf, !.rx_head = (h + n) % TCP_RX_BUF_SIZE]
  BY DEF Store
<1> HIDE DEF n
<1>4. \A k \in Pos : Nth(k) = 1 + Dist(k, h) /\ Nth(k) \in Nat \ {0}
  BY <1>1, DistMod, TcpAssumption
<1> HIDE DEF Nth
<1>5. buf \in [Pos -> Byte]
  <2>1. ASSUME NEW k \in Pos PROVE (IF Nth(k) <= n THEN data[Nth(k)] ELSE c.rx_buf[k]) \in Byte
    <3>1. CASE Nth(k) <= n
      <4>1. Nth(k) \in 1 .. Len(data)
        BY <1>1, <1>2, <1>4, <3>1
      <4> QED
        BY <3>1, <4>1, ElementOfSeq
    <3> QED
      BY <1>1, <3>1
  <2> QED
    BY <2>1 DEF Pos
<1>6. /\ \A k \in Pos : Dist(k, h) >= n => buf[k] = c.rx_buf[k]
      /\ \A k \in Pos : Dist(k, h) < n => buf[k] = data[Dist(k, h) + 1]
  <2>1. \A k \in Pos : Dist(k, h) \in Nat
    BY <1>1, DistMod
  <2>2. n \in Nat
    BY <1>2
  <2>3. \A k \in Pos : buf[k] = IF Nth(k) <= n THEN data[Nth(k)] ELSE c.rx_buf[k]
    BY DEF Pos
  <2> HIDE DEF buf
  <2> QED
    BY <1>4, <2>1, <2>2, <2>3
<1> HIDE DEF buf
<1>7. (h + n) % TCP_RX_BUF_SIZE = SlotAt(h, n + 1) /\ SlotAt(h, n + 1) \in Pos
  BY <1>1, <1>2, MoveMod
<1>8. /\ d \in Conn /\ d.in_use = c.in_use /\ d.state = c.state /\ d.connected = c.connected
      /\ d.rx_buf = buf /\ d.rx_head = SlotAt(h, n + 1) /\ d.rx_tail = t
      /\ d.local_port = c.local_port
  BY ZenonT(60), <1>3, <1>5, <1>7 DEF Conn
<1> HIDE DEF d
<1>9. Count(d) = Count(c) + n /\ Count(c) = Dist(h, t)
  BY <1>1, <1>2, <1>8, HeadMoves DEF Count
<1>10. Dist(h, t) \in 0 .. TCP_RX_BUF_SIZE - 1
  BY <1>1, DistMod
<1>11. ASSUME NEW k \in 1 .. Dist(h, t) PROVE buf[SlotAt(t, k)] = c.rx_buf[SlotAt(t, k)]
  <2>1. SlotAt(t, k) \in Pos
    BY <1>1, <1>10, SlotMod, TcpAssumption
  <2>2. Dist(SlotAt(t, k), h) >= n
    BY <1>1, <1>2, HeadMoves
  <2> QED
    BY <1>6, <2>1, <2>2
<1>12. ASSUME NEW k \in 1 .. n PROVE buf[SlotAt(t, Dist(h, t) + k)] = data[k]
  <2>1. SlotAt(t, Dist(h, t) + k) \in Pos
    <3>1. Dist(h, t) + k \in 1 .. TCP_RX_BUF_SIZE
      BY <1>2, <1>10, TcpAssumption
    <3> QED
      BY <1>1, <3>1, SlotMod
  <2>2. Dist(SlotAt(t, Dist(h, t) + k), h) = k - 1
    BY <1>1, <1>2, HeadMoves
  <2>3. k - 1 < n /\ (k - 1) + 1 = k
    BY <1>2
  <2> QED
    BY <1>6, <2>1, <2>2, <2>3
<1>13. Took(c, d, data, n)
  BY <1>8, <1>9, <1>11, <1>12 DEF Took
<1> QED
  BY <1>2, <1>8, <1>13 DEF d

-----------------------------------------------------------------------------
(* The stream.                                                             *)

\* The ring and the port of c and d are the same.
SameRing(c, d) ==
  /\ d.local_port = c.local_port /\ d.rx_buf = c.rx_buf
  /\ d.rx_head = c.rx_head /\ d.rx_tail = c.rx_tail

LEMMA SameStream ==
  ASSUME NEW c, NEW d, SameRing(c, d), NEW g, NEW n, NEW q, NEW pr, Fine(c, g, n, q, pr)
  PROVE  Fine(d, g, n, q, pr)
BY DEF SameRing, Fine, InStream, Total, Stream, Count

\* What rx stores continues the stream.
LEMMA StreamTook ==
  ASSUME NEW c \in Conn, NEW d \in Conn, NEW data \in Seq(Byte), NEW t \in 0 .. Len(data),
         Took(c, d, data, t),
         NEW g \in Seq(Byte), NEW n \in 0 .. Count(c), NEW m \in Nat, NEW last \in Nat, m <= last,
         InStream(c, g, n, m), Run(data, c.local_port, m, last)
  PROVE  InStream(d, g, n, last)
<1> DEFINE L == Len(g)
           C == Count(c)
           T == Total(c, g, n)
<1>1. L \in Nat /\ C \in Nat /\ Len(data) \in Nat
  BY LenProperties, RoomValue, TcpAssumption
<1>2. T \in Nat /\ T = L + C - n /\ Total(d, g, n) = T + t
  BY <1>1 DEF Total, Took
<1>3. ASSUME NEW j \in 1 .. T PROVE Stream(d, g, n, j) = Stream(c, g, n, j)
  <2>1. CASE j <= L
    BY <2>1 DEF Stream
  <2>2. CASE ~(j <= L)
    <3>1. n + j - L \in 1 .. C
      BY <1>1, <1>2, <2>2
    <3> QED
      BY <2>2, <3>1 DEF Stream, Took
  <2> QED
    BY <2>1, <2>2
<1>4. ASSUME NEW j \in 1 .. t PROVE Stream(d, g, n, T + j) = data[j]
  <2>1. ~(T + j <= L) /\ n + (T + j) - L = C + j
    BY <1>1, <1>2
  <2> QED
    BY <2>1 DEF Stream, Took
<1>5. ASSUME NEW j \in 1 .. t
      PROVE  /\ data[j].port = c.local_port /\ m < data[j].i /\ data[j].i <= last
             /\ data[j].i \in Nat
             /\ \A k \in 1 .. t : j < k => data[j].i < data[k].i
  <2>1. j \in 1 .. Len(data) /\ \A k \in 1 .. t : k \in 1 .. Len(data)
    BY <1>1
  <2>2. data[j] \in Byte
    BY <2>1, ElementOfSeq
  <2> QED
    BY Zenon, <2>1, <2>2 DEF Run, Byte
<1>6. ASSUME NEW j \in 1 .. T
      PROVE  /\ Stream(c, g, n, j).port = c.local_port /\ Stream(c, g, n, j).i <= m
             /\ Stream(c, g, n, j).i \in Nat
             /\ \A k \in 1 .. T : j < k => Stream(c, g, n, j).i < Stream(c, g, n, k).i
  <2>1. Stream(c, g, n, j) \in Byte
    <3>1. CASE j <= L
      BY <1>1, <3>1, ElementOfSeq DEF Stream
    <3>2. CASE ~(j <= L)
      <4>1. n + j - L \in 1 .. TCP_RX_BUF_SIZE /\ c.rx_tail \in Pos /\ c.rx_buf \in [Pos -> Byte]
        <5>1. C \in 0 .. TCP_RX_BUF_SIZE - 1
          BY RoomValue
        <5> QED
          BY <1>1, <1>2, <3>2, <5>1, TcpAssumption DEF Conn
      <4>2. SlotAt(c.rx_tail, n + j - L) \in Pos
        BY <4>1, SlotMod
      <4> QED
        BY <3>2, <4>1, <4>2 DEF Stream
    <3> QED
      BY <3>1, <3>2
  <2> QED
    BY <2>1 DEF InStream, Byte
<1> HIDE DEF L, C, T
<1>7. \A j \in 1 .. T + t : j \in 1 .. T \/ \E k \in 1 .. t : j = T + k
  <2> SUFFICES ASSUME NEW j \in 1 .. T + t, ~(j \in 1 .. T)
               PROVE  \E k \in 1 .. t : j = T + k
    OBVIOUS
  <2>1. j - T \in 1 .. t /\ j = T + (j - T)
    BY <1>1, <1>2
  <2> QED
    BY <2>1
<1>8. ASSUME NEW j \in 1 .. T + t
      PROVE  Stream(d, g, n, j).port = d.local_port /\ Stream(d, g, n, j).i <= last
  <2>1. d.local_port = c.local_port
    BY DEF Took
  <2>2. CASE j \in 1 .. T
    BY <1>3, <1>6, <2>1, <2>2
  <2>3. ASSUME NEW k \in 1 .. t, j = T + k
        PROVE  Stream(d, g, n, j).port = d.local_port /\ Stream(d, g, n, j).i <= last
    BY <1>4, <1>5, <2>1, <2>3, Zenon
  <2> QED
    BY <1>7, <2>2, <2>3
<1>9. ASSUME NEW j \in 1 .. T + t, NEW k \in 1 .. T + t, j < k
      PROVE  Stream(d, g, n, j).i < Stream(d, g, n, k).i
  <2>1. CASE k \in 1 .. T
    <3>1. j \in 1 .. T
      BY <1>2, <1>9, <2>1
    <3> QED
      BY <1>3, <1>6, <1>9, <2>1, <3>1
  <2>2. ASSUME NEW y \in 1 .. t, k = T + y
        PROVE  Stream(d, g, n, j).i < Stream(d, g, n, k).i
    <3>1. CASE j \in 1 .. T
      BY <1>3, <1>4, <1>5, <1>6, <2>2, <3>1
    <3>2. ASSUME NEW x \in 1 .. t, j = T + x
          PROVE  Stream(d, g, n, j).i < Stream(d, g, n, k).i
      <4>1. x < y
        BY <1>2, <1>9, <2>2, <3>2
      <4> QED
        BY <1>4, <1>5, <2>2, <3>2, <4>1, Zenon
    <3> QED
      BY <1>7, <3>1, <3>2
  <2> QED
    BY <1>7, <2>1, <2>2
<1> QED
  BY ZenonT(60), <1>2, <1>8, <1>9 DEF InStream

\* recv's copy moves bytes from the ring to what it returns.
LEMMA StreamCopied ==
  ASSUME NEW c \in Conn, NEW g \in Seq(Byte), NEW n \in 0 .. Count(c), NEW m,
         InStream(c, g, 0, m)
  PROVE  LET h == g \o [j \in 1 .. n |-> c.rx_buf[(c.rx_tail + j - 1) % TCP_RX_BUF_SIZE]]
         IN  h \in Seq(Byte) /\ InStream(c, h, n, m)
<1> DEFINE r == [j \in 1 .. n |-> c.rx_buf[(c.rx_tail + j - 1) % TCP_RX_BUF_SIZE]]
           h == g \o r
<1>1. /\ Count(c) \in 0 .. TCP_RX_BUF_SIZE - 1 /\ Len(g) \in Nat /\ n \in Nat
      /\ c.rx_tail \in Pos /\ c.rx_buf \in [Pos -> Byte]
  BY RoomValue, LenProperties, TcpAssumption DEF Conn
<1>2. ASSUME NEW j \in 1 .. n
      PROVE  /\ r[j] = c.rx_buf[SlotAt(c.rx_tail, j)] /\ r[j] \in Byte
  <2>1. j \in 1 .. TCP_RX_BUF_SIZE
    BY <1>1, TcpAssumption
  <2> QED
    BY <1>1, <2>1, SlotMod
<1>3. r \in Seq(Byte) /\ Len(r) = n
  <2>1. r \in [1 .. n -> Byte]
    BY <1>2
  <2> HIDE DEF r
  <2> QED
    BY <1>1, <2>1, IsASeq, LenProperties
<1> HIDE DEF r
<1>4. /\ h \in Seq(Byte) /\ Len(h) = Len(g) + n
      /\ \A j \in 1 .. Len(g) + n : h[j] = IF j <= Len(g) THEN g[j] ELSE r[j - Len(g)]
  BY ZenonT(60), <1>3, ConcatProperties
<1> HIDE DEF h
<1>5. Total(c, h, n) = Total(c, g, 0)
  BY <1>1, <1>4 DEF Total
<1>6. ASSUME NEW j \in 1 .. Total(c, g, 0) PROVE Stream(c, h, n, j) = Stream(c, g, 0, j)
  <2>1. CASE j <= Len(g)
    BY <1>1, <1>4, <2>1 DEF Stream
  <2>2. CASE ~(j <= Len(g)) /\ j <= Len(g) + n
    <3>1. j - Len(g) \in 1 .. n /\ 0 + j - Len(g) = j - Len(g) /\ j \in 1 .. Len(g) + n
      BY <1>1, <2>2
    <3>2. h[j] = c.rx_buf[SlotAt(c.rx_tail, j - Len(g))]
      BY <1>2, <1>4, <2>2, <3>1
    <3> QED
      BY <1>4, <2>2, <3>1, <3>2 DEF Stream
  <2>3. CASE ~(j <= Len(g) + n)
    <3>1. ~(j <= Len(g)) /\ n + j - (Len(g) + n) = 0 + j - Len(g)
      BY <1>1, <2>3
    <3> QED
      BY <1>4, <2>3, <3>1 DEF Stream
  <2> QED
    BY <2>1, <2>2, <2>3
<1>7. InStream(c, h, n, m)
  BY <1>5, <1>6 DEF InStream
<1> QED
  BY ZenonT(60), <1>4, <1>7 DEF h, r

\* recv's store to rx_tail releases what it has copied.
LEMMA StreamReleased ==
  ASSUME NEW c \in Conn, NEW g \in Seq(Byte), NEW n \in 0 .. Count(c), NEW m,
         InStream(c, g, n, m)
  PROVE  LET d == [c EXCEPT !.rx_tail = (c.rx_tail + n) % TCP_RX_BUF_SIZE]
         IN  d \in Conn /\ InStream(d, g, 0, m)
<1> DEFINE d == [c EXCEPT !.rx_tail = (c.rx_tail + n) % TCP_RX_BUF_SIZE]
           t == SlotAt(c.rx_tail, n + 1)
<1>1. /\ Count(c) \in 0 .. TCP_RX_BUF_SIZE - 1 /\ Len(g) \in Nat /\ n \in Nat
      /\ c.rx_tail \in Pos /\ c.rx_head \in Pos /\ Count(c) = Dist(c.rx_head, c.rx_tail)
  BY RoomValue, LenProperties, TcpAssumption DEF Conn, Count
<1>2. (c.rx_tail + n) % TCP_RX_BUF_SIZE = t /\ t \in Pos
  <2>1. n \in 0 .. TCP_RX_BUF_SIZE - 1
    BY <1>1, TcpAssumption
  <2> QED
    BY <1>1, <2>1, MoveMod
<1>3. /\ d \in Conn /\ d.rx_tail = t /\ d.rx_head = c.rx_head /\ d.rx_buf = c.rx_buf
      /\ d.local_port = c.local_port
  BY ZenonT(60), <1>2 DEF Conn
<1> HIDE DEF d
<1>4. Count(d) = Count(c) - n
  BY <1>1, <1>3, TailMoves DEF Count
<1>5. Total(d, g, 0) = Total(c, g, n)
  BY <1>1, <1>4 DEF Total
<1>6. ASSUME NEW j \in 1 .. Total(c, g, n) PROVE Stream(d, g, 0, j) = Stream(c, g, n, j)
  <2>1. CASE j <= Len(g)
    BY <2>1 DEF Stream
  <2>2. CASE ~(j <= Len(g))
    <3>1. j - Len(g) \in 1 .. Count(c) - n /\ 0 + j - Len(g) = j - Len(g)
          /\ n + j - Len(g) = n + (j - Len(g))
      BY <1>1, <2>2 DEF Total
    <3>2. SlotAt(t, j - Len(g)) = SlotAt(c.rx_tail, n + (j - Len(g)))
      BY <1>1, <3>1, TailMoves
    <3> QED
      BY <1>3, <2>2, <3>1, <3>2 DEF Stream
  <2> QED
    BY <2>1, <2>2
<1>7. InStream(d, g, 0, m)
  BY ZenonT(60), <1>3, <1>5, <1>6 DEF InStream
<1> QED
  BY <1>3, <1>7 DEF d

-----------------------------------------------------------------------------
(* Segments.                                                               *)

LEMMA SegTyped ==
  ASSUME NEW port \in Nat, NEW flags \in FlagSet, NEW seq \in Int, NEW ack \in Int,
         NEW data \in Seq(Byte), NEW len \in Nat
  PROVE  Seg(port, flags, seq, ack, data, len) \in Segment
<1>1. seq % SEQ \in Int /\ ack % SEQ \in Int
  BY TcpAssumption
<1> QED
  BY ZenonT(60), <1>1 DEF Seg, Segment

\* A segment of ours changes what the peer has sent in no way.
LEMMA PeerGetsTyped ==
  ASSUME NEW pr \in PeerEnd, NEW s \in Segment, NEW ok \in BOOLEAN
  PROVE  PeerGets(pr, s, ok) \in PeerEnd /\ PeerGets(pr, s, ok).sent = pr.sent
<1>1. (IRS + 1) % SEQ \in Int
  BY TcpAssumption
<1>2. \/ PeerGets(pr, s, ok) = pr
      \/ PeerGets(pr, s, ok) = [pr EXCEPT !.state = "closed", !.owes = "none"]
      \/ PeerGets(pr, s, ok) = [pr EXCEPT !.state = "syn_rcvd", !.nxt = (IRS + 1) % SEQ,
                                          !.owes = "synack"]
      \/ PeerGets(pr, s, ok) = [pr EXCEPT !.state = "established", !.owes = "none"]
      \/ PeerGets(pr, s, ok) = [pr EXCEPT !.owes = "ack"]
  BY DEF PeerGets
<1>3. CASE PeerGets(pr, s, ok) = [pr EXCEPT !.state = "closed", !.owes = "none"]
  BY Zenon, <1>3 DEF PeerEnd
<1>4. CASE PeerGets(pr, s, ok) = [pr EXCEPT !.state = "syn_rcvd", !.nxt = (IRS + 1) % SEQ,
                                          !.owes = "synack"]
  BY ZenonT(60), <1>1, <1>4 DEF PeerEnd
<1>5. CASE PeerGets(pr, s, ok) = [pr EXCEPT !.state = "established", !.owes = "none"]
  BY ZenonT(60), <1>5 DEF PeerEnd
<1>6. CASE PeerGets(pr, s, ok) = [pr EXCEPT !.owes = "ack"]
  BY ZenonT(60), <1>6 DEF PeerEnd
<1> QED
  BY <1>2, <1>3, <1>4, <1>5, <1>6

LEMMA ToPeerKeeps ==
  ASSUME peer \in [Ports -> PeerEnd], NEW s \in Segment, NEW ok \in BOOLEAN, ToPeer(s, ok)
  PROVE  peer' \in [Ports -> PeerEnd] /\ \A p \in Ports : peer'[p].sent = peer[p].sent
BY ZenonT(60), PeerGetsTyped DEF ToPeer

\* What rx makes of a connection.
LEMMA ReceivedFacts ==
  ASSUME NEW c \in Conn, NEW s \in Segment, c.in_use
  PROVE  LET d == Received(c, s)
         IN  /\ d \in Conn
             /\ ~d.in_use => d.state = "CLOSED" /\ ~d.connected
             /\ d.connected => c.connected \/ d.state = "ESTABLISHED"
             /\ \/ d.state = c.state
                \/ d.state = "CLOSED" /\ ~d.connected
                \/ d.state = "ESTABLISHED"
                \/ d.state = "TIME_WAIT"
                \/ c.state = "FIN_WAIT_1"
             /\ \/ SameRing(c, d)
                \/ \E n \in 0 .. Len(s.data) : Took(c, d, s.data, n)
<1> DEFINE d == Received(c, s)
<1>0. s.seq \in Int /\ s.ack \in Int /\ s.len \in Nat /\ s.data \in Seq(Byte)
  BY DEF Segment
<1>1. /\ s.ack \in Int /\ (s.seq + 1) % SEQ \in Int /\ NextExpected(s) \in Int
  BY <1>0, TcpAssumption DEF NextExpected
<1>2. CASE "RST" \in s.flags
  <2>1. d = Reset(c)
    BY <1>2 DEF Received
  <2> QED
    BY ZenonT(60), <2>1 DEF Reset, Conn, State, SameRing
<1>3. CASE d = c
  BY <1>3 DEF SameRing
<1>4. CASE d = [c EXCEPT !.send_seq = s.ack, !.send_ack = (s.seq + 1) % SEQ,
                         !.state = "ESTABLISHED", !.connected = TRUE]
  BY ZenonT(60), <1>1, <1>4 DEF Conn, State, SameRing
<1>5. CASE \/ d = [Store(c, s.data) EXCEPT !.send_ack = NextExpected(s)]
           \/ d = [[Store(c, s.data) EXCEPT !.send_ack = NextExpected(s)]
                     EXCEPT !.fin_received = TRUE, !.state = "TIME_WAIT"]
  <2> DEFINE e == Store(c, s.data)
  <2>1. /\ e \in Conn /\ e.in_use = c.in_use /\ e.state = c.state /\ e.connected = c.connected
        /\ \E n \in 0 .. Len(s.data) : Took(c, e, s.data, n)
    BY ZenonT(60), <1>0, StoreFacts
  <2> HIDE DEF e
  <2>2. /\ d \in Conn /\ d.in_use = e.in_use /\ d.state \in {e.state, "TIME_WAIT"}
        /\ d.connected = e.connected /\ SameRing(e, d)
    <3>1. CASE d = [e EXCEPT !.send_ack = NextExpected(s)]
      BY Zenon, <1>1, <2>1, <3>1 DEF Conn, State, SameRing
    <3>2. CASE d = [[e EXCEPT !.send_ack = NextExpected(s)]
                      EXCEPT !.fin_received = TRUE, !.state = "TIME_WAIT"]
      BY ZenonT(60), <1>1, <2>1, <3>2 DEF Conn, State, SameRing
    <3> QED
      BY <1>5, <3>1, <3>2 DEF e
  <2>3. \E n \in 0 .. Len(s.data) : Took(c, d, s.data, n)
    <3>1. PICK n \in 0 .. Len(s.data) : Took(c, e, s.data, n)
      BY <2>1
    <3>2. Took(c, d, s.data, n)
      BY ZenonT(60), <2>2, <3>1 DEF Took, SameRing, Count
    <3> QED
      BY <3>2
  <2> QED
    BY ZenonT(60), <2>1, <2>2, <2>3
<1>6. CASE c.state = "FIN_WAIT_1" /\ d = [c EXCEPT !.state = "FIN_WAIT_2"]
  BY ZenonT(60), <1>6 DEF Conn, State, SameRing
<1>7. CASE \/ d = [c EXCEPT !.send_ack = (s.seq + 1) % SEQ, !.state = "TIME_WAIT"]
           \/ d = [c EXCEPT !.send_ack = (s.seq + 1) % SEQ, !.state = "TIME_WAIT",
                            !.fin_received = TRUE]
  BY ZenonT(60), <1>1, <1>7 DEF Conn, State, SameRing
<1>8. \/ "RST" \in s.flags
      \/ d = c
      \/ d = [c EXCEPT !.send_seq = s.ack, !.send_ack = (s.seq + 1) % SEQ,
                       !.state = "ESTABLISHED", !.connected = TRUE]
      \/ d = [Store(c, s.data) EXCEPT !.send_ack = NextExpected(s)]
      \/ d = [[Store(c, s.data) EXCEPT !.send_ack = NextExpected(s)]
                EXCEPT !.fin_received = TRUE, !.state = "TIME_WAIT"]
      \/ c.state = "FIN_WAIT_1" /\ d = [c EXCEPT !.state = "FIN_WAIT_2"]
      \/ d = [c EXCEPT !.send_ack = (s.seq + 1) % SEQ, !.state = "TIME_WAIT"]
      \/ d = [c EXCEPT !.send_ack = (s.seq + 1) % SEQ, !.state = "TIME_WAIT",
                       !.fin_received = TRUE]
  BY DEF Received
<1> QED
  BY ZenonT(60), <1>2, <1>3, <1>4, <1>5, <1>6, <1>7, <1>8

\* The queue after a segment has been added to it or taken from it.
LEMMA QueueMore ==
  ASSUME NEW q \in Seq(Segment), NEW pr \in [Ports -> PeerEnd], NEW s \in Segment,
         NEW ps \in [Ports -> PeerEnd], Ordered(q, pr), s.port \in Ports,
         \A p \in Ports : pr[p].sent <= ps[p].sent,
         Run(s.data, s.port, pr[s.port].sent, ps[s.port].sent)
  PROVE  /\ Append(q, s) \in Seq(Segment) /\ Ordered(Append(q, s), ps)
         /\ \A p \in Ports : \A m \in 0 .. pr[p].sent :
              Beyond(q, p, m) => Beyond(Append(q, s), p, m)
<1> DEFINE t == Append(q, s)
           L == Len(q)
<1>1. /\ t \in Seq(Segment) /\ Len(t) = L + 1 /\ L \in Nat
      /\ \A x \in 1 .. L : t[x] = q[x]
      /\ t[L + 1] = s
  BY LenProperties, AppendProperties
<1>2. \A x \in 1 .. L + 1 : x \in 1 .. L \/ x = L + 1
  BY <1>1
<1>3. \A p \in Ports : pr[p].sent \in Nat /\ ps[p].sent \in Nat
  BY DEF PeerEnd
<1>4. ASSUME NEW x \in 1 .. L
      PROVE  /\ q[x].port \in Ports /\ q[x].data \in Seq(Byte)
             /\ \A d \in 1 .. Len(q[x].data) : q[x].data[d].i \in Nat
             /\ Run(q[x].data, q[x].port, 0, pr[q[x].port].sent)
  <2>1. q[x] \in Segment
    BY ElementOfSeq
  <2>2. q[x].data \in Seq(Byte)
    BY <2>1, Zenon DEF Segment
  <2>3. \A d \in 1 .. Len(q[x].data) : q[x].data[d] \in Byte
    BY <2>2, ElementOfSeq
  <2> QED
    BY Zenon, <2>2, <2>3 DEF Ordered, Byte
<1>5. \A d \in 1 .. Len(s.data) : s.data[d].i \in Nat
  <2>1. s.data \in Seq(Byte)
    BY DEF Segment
  <2>2. \A d \in 1 .. Len(s.data) : s.data[d] \in Byte
    BY <2>1, ElementOfSeq
  <2> QED
    BY <2>2 DEF Byte
<1> HIDE DEF t, L
<1>6. ASSUME NEW x \in 1 .. L + 1
      PROVE  t[x].port \in Ports /\ Run(t[x].data, t[x].port, 0, ps[t[x].port].sent)
  <2>1. CASE x \in 1 .. L
    <3> DEFINE p == q[x].port
    <3>1. t[x] = q[x] /\ p \in Ports /\ Run(q[x].data, p, 0, pr[p].sent)
      BY Zenon, <1>1, <1>4, <2>1
    <3>2. pr[p].sent <= ps[p].sent /\ pr[p].sent \in Nat /\ ps[p].sent \in Nat
      BY ZenonT(60), <1>3, <3>1
    <3>3. \A d \in 1 .. Len(q[x].data) : q[x].data[d].i \in Nat
      BY <1>4, <2>1
    <3> QED
      BY <3>1, <3>2, <3>3 DEF Run
  <2>2. CASE x = L + 1
    <3>1. Run(s.data, s.port, 0, ps[s.port].sent)
      BY <1>3, <1>5 DEF Run
    <3> QED
      BY <1>1, <2>2, <3>1
  <2> QED
    BY Zenon, <1>2, <2>1, <2>2
<1>7. ASSUME NEW x \in 1 .. L + 1, NEW y \in 1 .. L + 1, x < y, t[x].port = t[y].port,
             NEW d \in 1 .. Len(t[x].data), NEW e \in 1 .. Len(t[y].data)
      PROVE  t[x].data[d].i < t[y].data[e].i
  <2>1. x \in 1 .. L /\ t[x] = q[x]
    BY <1>1, <1>7
  <2>2. CASE y \in 1 .. L
    BY ZenonT(60), <1>1, <1>7, <2>1, <2>2 DEF Ordered, L
  <2>3. CASE y = L + 1
    <3>1. t[y] = s
      BY Zenon, <1>1, <2>3
    <3>2. q[x].data[d].i <= pr[q[x].port].sent /\ q[x].data[d].i \in Nat
      BY ZenonT(60), <1>4, <1>7, <2>1 DEF Run
    <3>3. pr[s.port].sent < s.data[e].i
      BY <1>7, <3>1 DEF Run
    <3>4. pr[s.port].sent \in Nat /\ s.data[e].i \in Nat
      BY <1>3, <1>5, <1>7, <3>1
    <3>5. q[x].port = s.port
      BY Zenon, <1>7, <2>1, <3>1
    <3>6. q[x].data[d].i < s.data[e].i
      BY <3>2, <3>3, <3>4, <3>5
    <3> QED
      BY <2>1, <3>1, <3>6
  <2> QED
    BY <1>2, <2>2, <2>3
<1>8. Ordered(t, ps)
  BY ZenonT(60), <1>1, <1>6, <1>7 DEF Ordered
<1>9. ASSUME NEW p \in Ports, NEW m \in 0 .. pr[p].sent, Beyond(q, p, m)
      PROVE  Beyond(t, p, m)
  <2>1. ASSUME NEW x \in 1 .. L + 1, t[x].port = p, NEW d \in 1 .. Len(t[x].data)
        PROVE  m < t[x].data[d].i
    <3>1. CASE x \in 1 .. L
      BY ZenonT(60), <1>1, <1>9, <2>1, <3>1 DEF Beyond, L
    <3>2. CASE x = L + 1
      BY <1>1, <1>3, <1>5, <2>1, <3>2 DEF Run
    <3> QED
      BY ZenonT(60), <1>2, <3>1, <3>2
  <2> QED
    BY ZenonT(60), <1>1, <2>1 DEF Beyond
<1> QED
  BY <1>1, <1>8, <1>9 DEF t

LEMMA QueueLess ==
  ASSUME NEW q \in Seq(Segment), q # << >>, NEW pr, Ordered(q, pr)
  PROVE  /\ Tail(q) \in Seq(Segment) /\ Ordered(Tail(q), pr)
         /\ Head(q) \in Segment /\ Head(q).port \in Ports
         /\ Run(Head(q).data, Head(q).port, 0, pr[Head(q).port].sent)
         /\ \A p \in Ports : \A m :
              Beyond(q, p, m) =>
                /\ Beyond(Tail(q), p, m)
                /\ Head(q).port = p => Run(Head(q).data, p, m, pr[p].sent)
         /\ Head(q).data # << >> =>
              Beyond(Tail(q), Head(q).port, Head(q).data[Len(Head(q).data)].i)
<1> DEFINE t == Tail(q)
           s == Head(q)
<1>1. /\ t \in Seq(Segment) /\ Len(q) \in Nat \ {0} /\ Len(t) = Len(q) - 1
      /\ \A x \in 1 .. Len(t) : t[x] = q[x + 1]
      /\ s = q[1] /\ s \in Segment
  BY LenProperties, HeadTailProperties, EmptySeq
<1>2. \A x \in 1 .. Len(t) : x + 1 \in 1 .. Len(q) /\ 1 < x + 1
  BY <1>1
<1>3. 1 \in 1 .. Len(q)
  BY <1>1
<1>4. \A x, y \in 1 .. Len(t) : x < y => x + 1 < y + 1
  BY <1>1
<1> HIDE DEF t, s
<1>5. Ordered(t, pr)
  <2>1. ASSUME NEW x \in 1 .. Len(t)
        PROVE  t[x].port \in Ports /\ Run(t[x].data, t[x].port, 0, pr[t[x].port].sent)
    BY ZenonT(60), <1>1, <1>2 DEF Ordered
  <2>2. ASSUME NEW x \in 1 .. Len(t), NEW y \in 1 .. Len(t), x < y, t[x].port = t[y].port,
               NEW d \in 1 .. Len(t[x].data), NEW e \in 1 .. Len(t[y].data)
        PROVE  t[x].data[d].i < t[y].data[e].i
    <3>1. /\ t[x] = q[x + 1] /\ t[y] = q[y + 1] /\ x + 1 < y + 1
          /\ x + 1 \in 1 .. Len(q) /\ y + 1 \in 1 .. Len(q)
      BY <1>1, <1>2, <1>4, <2>2
    <3> QED
      BY ZenonT(60), <2>2, <3>1 DEF Ordered
  <2> QED
    BY ZenonT(60), <2>1, <2>2 DEF Ordered
<1>6. s.port \in Ports /\ Run(s.data, s.port, 0, pr[s.port].sent)
  BY ZenonT(60), <1>1, <1>3 DEF Ordered
<1>7. ASSUME NEW p \in Ports, NEW m, Beyond(q, p, m)
      PROVE  Beyond(t, p, m) /\ (s.port = p => Run(s.data, p, m, pr[p].sent))
  <2>1. Beyond(t, p, m)
    BY ZenonT(60), <1>1, <1>2, <1>7 DEF Beyond
  <2>2. s.port = p => \A d \in 1 .. Len(s.data) : m < s.data[d].i
    BY ZenonT(60), <1>1, <1>3, <1>7 DEF Beyond
  <2> QED
    BY ZenonT(60), <1>6, <2>1, <2>2 DEF Run
<1>8. ASSUME s.data # << >> PROVE Beyond(t, s.port, s.data[Len(s.data)].i)
  <2>1. Len(s.data) \in 1 .. Len(s.data)
    <3>1. s.data \in Seq(Byte)
      BY <1>1 DEF Segment
    <3> QED
      BY <1>8, <3>1, LenProperties, EmptySeq
  <2> QED
    BY ZenonT(60), <1>1, <1>2, <1>3, <2>1 DEF Beyond, Ordered
<1> QED
  BY ZenonT(60), <1>1, <1>5, <1>6, <1>7, <1>8 DEF t, s

-----------------------------------------------------------------------------
(* Steps.                                                                  *)

LEMMA NoSlotFree == NoSlot \notin Slots
BY TcpAssumption DEF NoSlot, Slots

LEMMA NewConnTyped ==
  /\ NewConn \in Conn /\ NewConn.rx_head = 0 /\ NewConn.rx_tail = 0
  /\ NewConn.in_use = FALSE /\ NewConn.state = "CLOSED" /\ NewConn.connected = FALSE
<1>1. NoByte \in Byte /\ 0 \in Pos
  BY TcpAssumption DEF NoByte, Byte, NoPort, Pos
<1>2. [k \in 0 .. TCP_RX_BUF_SIZE - 1 |-> NoByte] \in [Pos -> Byte]
  BY ZenonT(60), <1>1 DEF Pos
<1>3. NoPort \in Nat /\ 0 \in Int
  BY DEF NoPort
<1> QED
  BY ZenonT(60), <1>1, <1>2, <1>3 DEF NewConn, Conn, State

LEMMA InitTcp == Init => TcpInv
<1> SUFFICES ASSUME Init PROVE TcpInv
  OBVIOUS
<1>1. SEG_BUF \in Segment
  <2>1. NoPort \in Nat /\ {} \in FlagSet /\ 0 \in Int /\ << >> \in Seq(Byte) /\ 0 \in Nat
    BY DEF NoPort, FlagSet
  <2> QED
    BY ZenonT(60), <2>1, SegTyped DEF Init
<1>2. CONNS \in [Slots -> Conn]
  BY ZenonT(60), NewConnTyped DEF Init
<1>3. snap \in Pos \X Pos
  BY TcpAssumption DEF Init, Pos
<1>4. peer \in [Ports -> PeerEnd]
  <2>1. 0 \in Nat /\ 0 \in Int
    OBVIOUS
  <2> QED
    BY ZenonT(60), <2>1 DEF Init, PeerEnd
<1>5. queue = << >> /\ queue \in Seq(Segment) /\ got \in Seq(Byte) /\ Len(queue) = 0
      /\ length \in Nat /\ NEXT_LOCAL_PORT \in Nat
  BY TcpAssumption DEF Init
<1>6. TcpType
  BY ZenonT(60), <1>1, <1>2, <1>3, <1>4, <1>5 DEF Init, TcpType, PC
<1>7. ThreadInv /\ SynInv /\ SnapInv
  BY DEF Init, ThreadInv, SynInv, SnapInv, Doing
<1>8. hold = NoSlot
  BY DEF Init, hold
<1>9. SlotInv /\ StreamInv
  <2>1. \A s \in Slots : CONNS[s] = NewConn
    BY DEF Init
  <2> QED
    BY <1>8, <2>1, NoSlotFree, NewConnTyped DEF SlotInv, StreamInv
<1>10. QueueInv
  BY <1>5 DEF QueueInv, Ordered
<1> QED
  BY <1>6, <1>7, <1>9, <1>10 DEF TcpInv

\* What a step that leaves the queue alone keeps.
LEMMA QueueKept ==
  ASSUME TcpInv, queue' = queue, \A p \in Ports : peer'[p].sent = peer[p].sent
  PROVE  QueueInv'
<1>1. Ordered(queue, peer)
  BY Zenon DEF TcpInv, QueueInv
<1>2. Ordered(queue, peer')
  BY ZenonT(60), <1>1 DEF Ordered
<1> QED
  BY ZenonT(60), <1>2 DEF QueueInv

LEMMA StreamKept ==
  ASSUME TcpInv, queue' = queue, \A p \in Ports : peer'[p].sent = peer[p].sent,
         got' = got, skip' = skip, hold' = hold,
         hold \in Slots /\ CONNS'[hold].in_use =>
           CONNS[hold].in_use /\ SameRing(CONNS[hold], CONNS'[hold])
  PROVE  StreamInv'
<1> SUFFICES ASSUME hold \in Slots, CONNS'[hold].in_use
             PROVE  Fine(CONNS'[hold], got, skip, queue, peer')
  BY ZenonT(60) DEF StreamInv
<1> DEFINE c == CONNS[hold]
           d == CONNS'[hold]
<1>1. Fine(c, got, skip, queue, peer) /\ SameRing(c, d)
  BY DEF TcpInv, StreamInv
<1> HIDE DEF c
<1>2. Fine(c, got, skip, queue, peer')
  BY ZenonT(60), <1>1 DEF Fine
<1> HIDE DEF d
<1>3. Fine(d, got, skip, queue, peer')
  BY ZenonT(60), <1>1, <1>2, SameStream
<1> QED
  BY <1>3 DEF d

\* A step of the thread that changes no connection.
LEMMA ThreadMoves ==
  ASSUME TcpInv, TcpType', ThreadInv', queue' = queue,
         \A p \in Ports : peer'[p].sent = peer[p].sent, got' = got, CONNS' = CONNS,
         pc # "tail", pc' # "tail", hold' = hold,
         pc \in {"closing", "closed"} => pc' \in {"closing", "closed"},
         op' = "syn" => op = "syn" /\ cur' = cur,
         SnapInv'
  PROVE  TcpInv'
<1>1. QueueInv'
  BY ZenonT(60), QueueKept
<1>2. StreamInv'
  <2>1. skip' = skip
    BY DEF skip
  <2>2. hold \in Slots => SameRing(CONNS[hold], CONNS'[hold])
    BY Zenon DEF SameRing
  <2> QED
    BY ZenonT(60), <2>1, <2>2, StreamKept
<1>3. SlotInv'
  BY Zenon DEF TcpInv, SlotInv
<1>4. SynInv'
  BY Zenon DEF TcpInv, SynInv
<1> QED
  BY ZenonT(60), <1>1, <1>2, <1>3, <1>4 DEF TcpInv

\* A step after which nobody holds a slot.
LEMMA AllFree ==
  ASSUME TcpInv, TcpType', ThreadInv', queue' = queue, peer' = peer,
         pc' = "idle", app' = NoSlot,
         \A s \in Slots : ~CONNS'[s].in_use /\ CONNS'[s].state = "CLOSED"
  PROVE  TcpInv'
<1>1. QueueInv'
  BY ZenonT(60), QueueKept
<1>2. hold' = NoSlot
  BY DEF hold
<1>3. StreamInv' /\ SlotInv'
  BY ZenonT(60), <1>2, NoSlotFree DEF StreamInv, SlotInv
<1>4. op' # "syn"
  BY DEF ThreadInv, Doing
<1> QED
  BY ZenonT(60), <1>1, <1>3, <1>4 DEF TcpInv, SynInv, SnapInv

\* A step of the peer.
LEMMA AnswerInv ==
  ASSUME TcpInv, NEW p \in Ports, NEW flags \in FlagSet, NEW data \in Seq(Byte),
         NEW pr \in PeerEnd, peer[p].sent <= pr.sent, Run(data, p, peer[p].sent, pr.sent),
         Answer(p, flags, data, pr)
  PROVE  TcpInv'
<1> DEFINE s == Seg(p, flags, IF "SYN" \in flags THEN IRS ELSE peer[p].nxt, ISS + 1,
                    data, Len(data))
<1>1. /\ queue' = Append(queue, s) /\ peer' = [peer EXCEPT ![p] = pr]
      /\ UNCHANGED <<CONNS, NEXT_LOCAL_PORT, SEG_BUF, thread, got>>
  BY DEF Answer
<1>2. UNCHANGED <<pc, op, cur, attempt, length, snap, app, sends>>
  BY <1>1 DEF thread
<1>3. TcpType /\ peer \in [Ports -> PeerEnd] /\ queue \in Seq(Segment) /\ peer[p].nxt \in Int
  BY Zenon DEF TcpInv, TcpType, PeerEnd
<1>4. s \in Segment /\ s.port = p /\ s.data = data
  <2>1. p \in Nat /\ ISS + 1 \in Int /\ IRS \in Int /\ Len(data) \in Nat
    BY TcpAssumption, LenProperties DEF Ports
  <2>2. (IF "SYN" \in flags THEN IRS ELSE peer[p].nxt) \in Int
    BY <1>3, <2>1
  <2>3. s \in Segment
    BY ZenonT(60), <2>1, <2>2, SegTyped
  <2> QED
    BY ZenonT(60), <2>3 DEF Seg
<1> HIDE DEF s
<1>5. /\ peer' \in [Ports -> PeerEnd] /\ peer'[p] = pr
      /\ \A r \in Ports : r # p => peer'[r] = peer[r]
  BY <1>1, <1>3
<1>6. \A r \in Ports : peer[r].sent \in Nat /\ peer'[r].sent \in Nat
  BY <1>3, <1>5 DEF PeerEnd
<1>7. \A r \in Ports : peer[r].sent <= peer'[r].sent
  <2> SUFFICES ASSUME NEW r \in Ports PROVE peer[r].sent <= peer'[r].sent
    OBVIOUS
  <2>1. CASE r = p
    BY Zenon, <1>5, <2>1
  <2>2. CASE r # p
    BY <1>5, <1>6, <2>2
  <2> QED
    BY <2>1, <2>2
<1>8. /\ queue' \in Seq(Segment) /\ Ordered(queue', peer')
      /\ \A r \in Ports : \A m \in 0 .. peer[r].sent :
           Beyond(queue, r, m) => Beyond(queue', r, m)
  <2>1. Ordered(queue, peer)
    BY DEF TcpInv, QueueInv
  <2>2. Run(s.data, s.port, peer[s.port].sent, peer'[s.port].sent)
    BY <1>4, <1>5
  <2> QED
    BY ZenonT(60), <1>1, <1>3, <1>4, <1>5, <1>7, <2>1, <2>2, QueueMore
<1>9. TcpType'
  BY ZenonT(60), <1>1, <1>2, <1>3, <1>5, <1>8 DEF TcpType
<1>10. ThreadInv' /\ SynInv' /\ SnapInv' /\ SlotInv' /\ hold' = hold /\ skip' = skip
  BY ZenonT(60), <1>1, <1>2 DEF TcpInv, ThreadInv, SynInv, SnapInv, SlotInv, hold, skip
<1>11. StreamInv'
  <2> SUFFICES ASSUME hold \in Slots, CONNS[hold].in_use
               PROVE  Fine(CONNS[hold], got, skip, queue', peer')
    BY ZenonT(60), <1>1, <1>10 DEF StreamInv
  <2> DEFINE c == CONNS[hold]
  <2>1. Fine(c, got, skip, queue, peer)
    BY ZenonT(60) DEF TcpInv, StreamInv
  <2> HIDE DEF c
  <2>2. PICK m \in 0 .. peer[c.local_port].sent :
               InStream(c, got, skip, m) /\ Beyond(queue, c.local_port, m)
    BY Zenon, <2>1 DEF Fine
  <2>3. c.local_port \in Ports
    BY Zenon, <2>1 DEF Fine
  <2>4. m \in 0 .. peer'[c.local_port].sent
    <3> DEFINE a == peer[c.local_port].sent
               b == peer'[c.local_port].sent
    <3>1. a \in Nat /\ b \in Nat /\ a <= b /\ m \in 0 .. a
      BY Zenon, <1>6, <1>7, <2>2, <2>3
    <3> HIDE DEF a, b
    <3>2. m \in 0 .. b
      BY <3>1
    <3> QED
      BY Zenon, <3>2 DEF b
  <2>5. Beyond(queue', c.local_port, m)
    BY ZenonT(60), <1>8, <2>2, <2>3
  <2>6. Fine(c, got, skip, queue', peer')
    BY ZenonT(60), <2>2, <2>3, <2>4, <2>5 DEF Fine
  <2> QED
    BY <2>6 DEF c
<1> QED
  BY ZenonT(60), <1>8, <1>9, <1>10, <1>11 DEF TcpInv, QueueInv

LEMMA PeerInv == ASSUME TcpInv, Peer PROVE TcpInv'
<1>1. PICK p \in Ports :
        \/ PeerSynAck(p) \/ PeerRst(p) \/ PeerAck(p)
        \/ \E n \in 0 .. MaxSegment, fin \in BOOLEAN : PeerSends(p, n, fin)
  BY DEF Peer
<1>2. peer[p] \in PeerEnd /\ peer[p].sent \in Nat /\ peer[p].nxt \in Int
  BY DEF TcpInv, TcpType, PeerEnd
<1>3. /\ << >> \in Seq(Byte) /\ {"SYN", "ACK"} \in FlagSet /\ {"RST", "ACK"} \in FlagSet
      /\ {"ACK"} \in FlagSet /\ {"ACK"} \cup {"FIN"} \in FlagSet /\ {"ACK"} \cup {} \in FlagSet
  BY DEF FlagSet
<1>4. \A m, l : Run(<< >>, p, m, l)
  BY DEF Run
<1>5. ASSUME NEW pr \in PeerEnd, pr.sent = peer[p].sent, NEW flags \in FlagSet,
             Answer(p, flags, << >>, pr)
      PROVE  TcpInv'
  <2>1. peer[p].sent <= pr.sent
    BY <1>2, <1>5
  <2> QED
    BY ZenonT(60), <1>3, <1>4, <1>5, <2>1, AnswerInv
<1>6. CASE PeerSynAck(p) \/ PeerAck(p)
  <2>1. [peer[p] EXCEPT !.owes = "none"] \in PeerEnd
        /\ [peer[p] EXCEPT !.owes = "none"].sent = peer[p].sent
    BY ZenonT(60), <1>2 DEF PeerEnd
  <2> QED
    BY ZenonT(60), <1>3, <1>5, <1>6, <2>1 DEF PeerSynAck, PeerAck
<1>7. CASE PeerRst(p)
  <2>1. [peer[p] EXCEPT !.state = "closed", !.owes = "none"] \in PeerEnd
        /\ [peer[p] EXCEPT !.state = "closed", !.owes = "none"].sent = peer[p].sent
    BY ZenonT(60), <1>2 DEF PeerEnd
  <2> QED
    BY ZenonT(60), <1>3, <1>5, <1>7, <2>1 DEF PeerRst
<1>8. ASSUME NEW n \in 0 .. MaxSegment, NEW fin \in BOOLEAN, PeerSends(p, n, fin)
      PROVE  TcpInv'
  <2> DEFINE data == [k \in 1 .. n |-> [port |-> p, i |-> peer[p].sent + k]]
             flags == {"ACK"} \cup (IF fin THEN {"FIN"} ELSE {})
             nxt == (peer[p].nxt + n + (IF fin THEN 1 ELSE 0)) % SEQ
             pr == [peer[p] EXCEPT !.nxt = (@ + n + (IF fin THEN 1 ELSE 0)) % SEQ,
                            !.sent = @ + n, !.owes = "none",
                            !.state = IF fin THEN "finished" ELSE @]
  <2>1. Answer(p, flags, data, pr)
    BY <1>8 DEF PeerSends
  <2>2. n \in Nat /\ peer[p].sent + n \in Nat /\ p \in Nat
    BY <1>2, TcpAssumption DEF Ports
  <2>3. flags \in FlagSet
    BY <1>3, <1>8
  <2>4. nxt \in Int
    BY <1>2, <1>8, <2>2, TcpAssumption
  <2>5. pr \in PeerEnd /\ pr.sent = peer[p].sent + n
    <3> HIDE DEF nxt
    <3>1. pr = [peer[p] EXCEPT !.nxt = nxt, !.sent = peer[p].sent + n, !.owes = "none",
                               !.state = IF fin THEN "finished" ELSE peer[p].state]
      BY ZenonT(60), <1>2 DEF nxt
    <3>2. (IF fin THEN "finished" ELSE peer[p].state)
             \in {"listen", "syn_rcvd", "established", "finished", "closed"}
      BY <1>2 DEF PeerEnd
    <3> QED
      BY ZenonT(60), <1>2, <2>2, <2>4, <3>1, <3>2 DEF PeerEnd
  <2>6. data \in Seq(Byte) /\ Len(data) = n
    <3>1. ASSUME NEW k \in 1 .. n PROVE [port |-> p, i |-> peer[p].sent + k] \in Byte
      <4>1. peer[p].sent + k \in Nat
        BY <1>2, <2>2
      <4> QED
        BY ZenonT(60), <2>2, <4>1 DEF Byte
    <3>2. data \in [1 .. n -> Byte]
      BY ZenonT(60), <3>1
    <3> HIDE DEF data
    <3> QED
      BY <2>2, <3>2, IsASeq, LenProperties
  <2>7. Run(data, p, peer[p].sent, pr.sent)
    <3>1. \A k \in 1 .. n : data[k].port = p /\ data[k].i = peer[p].sent + k
      OBVIOUS
    <3> HIDE DEF data, pr
    <3> QED
      BY <1>2, <2>2, <2>5, <2>6, <3>1 DEF Run
  <2>8. peer[p].sent <= pr.sent
    <3> HIDE DEF pr
    <3> QED
      BY <1>2, <2>2, <2>5
  <2> HIDE DEF data, flags, pr
  <2> QED
    BY ZenonT(60), <2>1, <2>3, <2>5, <2>6, <2>7, <2>8, AnswerInv
<1> QED
  BY <1>1, <1>6, <1>7, <1>8

\* The only slot rx can find is the one that is held.
LEMMA FoundIsHeld ==
  ASSUME TcpInv, NEW port, tcp_find_conn(port) # NoSlot
  PROVE  /\ tcp_find_conn(port) = hold /\ hold \in Slots
         /\ CONNS[hold].in_use /\ CONNS[hold].local_port = port
<1> DEFINE match == {s \in Slots : CONNS[s].in_use /\ CONNS[s].local_port = port}
<1>1. match # {} /\ tcp_find_conn(port) = CHOOSE s \in match : \A t \in match : s <= t
  BY Zenon DEF tcp_find_conn
<1>2. \A s \in match : s = hold
  BY Zenon DEF TcpInv, SlotInv
<1>3. match = {hold} /\ hold \in Slots /\ CONNS[hold].in_use /\ CONNS[hold].local_port = port
  BY ZenonT(60), <1>1, <1>2
<1>4. hold <= hold
  BY <1>3, TcpAssumption DEF Slots
<1> HIDE DEF match
<1>5. tcp_find_conn(port) = hold
  BY ZenonT(60), <1>1, <1>3, <1>4
<1> QED
  BY <1>3, <1>5

\* The stream of a connection that has taken the segment at the front of the queue.
LEMMA StreamReceived ==
  ASSUME NEW q \in Seq(Segment), q # << >>, NEW pr \in [Ports -> PeerEnd], Ordered(q, pr),
         NEW c \in Conn, NEW d \in Conn, NEW t \in 0 .. Len(Head(q).data),
         Took(c, d, Head(q).data, t), Head(q).port = c.local_port,
         NEW g \in Seq(Byte), NEW n \in 0 .. Count(c), Fine(c, g, n, q, pr)
  PROVE  Fine(d, g, n, Tail(q), pr)
<1> DEFINE s == Head(q)
           p == c.local_port
           data == s.data
<1>1. /\ s \in Segment /\ p \in Ports /\ pr[p].sent \in Nat
      /\ Run(data, p, 0, pr[p].sent)
      /\ \A m : Beyond(q, p, m) => Beyond(Tail(q), p, m) /\ Run(data, p, m, pr[p].sent)
      /\ data # << >> => Beyond(Tail(q), p, data[Len(data)].i)
  <2>1. p \in Ports
    BY ZenonT(60) DEF Fine
  <2>2. pr[p].sent \in Nat
    BY ZenonT(60), <2>1 DEF PeerEnd
  <2> QED
    BY ZenonT(60), <2>1, <2>2, QueueLess
<1>2. PICK m \in 0 .. pr[p].sent : InStream(c, g, n, m) /\ Beyond(q, p, m)
  BY ZenonT(60) DEF Fine
<1>3. data \in Seq(Byte)
  BY ZenonT(60), <1>1 DEF Segment
<1>4. d.local_port = p
  BY ZenonT(60) DEF Took
<1>5. m \in Nat /\ Run(data, p, m, pr[p].sent) /\ Beyond(Tail(q), p, m)
  <2> DEFINE sent == pr[p].sent
  <2>1. sent \in Nat /\ m \in 0 .. sent
    BY Zenon, <1>1
  <2> HIDE DEF sent
  <2>2. m \in Nat
    BY <2>1
  <2> QED
    BY Zenon, <1>1, <1>2, <2>2
<1> HIDE DEF s, p, data
<1>6. CASE data = << >>
  <2>1. Run(data, p, m, m)
    BY <1>6 DEF Run
  <2>2. m <= m
    BY <1>5
  <2>3. InStream(d, g, n, m)
    BY ZenonT(60), <1>2, <1>3, <1>5, <2>1, <2>2, StreamTook DEF s, p, data
  <2> QED
    BY ZenonT(60), <1>1, <1>2, <1>4, <1>5, <2>3 DEF Fine
<1>7. CASE data # << >>
  <2> DEFINE l == Len(data)
             last == data[l].i
  <2>1. l \in 1 .. l /\ data[l] \in Byte /\ l \in Nat
    BY <1>3, <1>7, LenProperties, EmptySeq
  <2>2. last \in Nat /\ m < last /\ last <= pr[p].sent
    BY Zenon, <1>5, <2>1 DEF Run, Byte
  <2>3. Run(data, p, m, last)
    <3>1. ASSUME NEW j \in 1 .. l PROVE data[j].i <= last
      <4>1. data[j].i \in Nat
        <5>1. data[j] \in Byte
          BY Zenon, <1>3, ElementOfSeq
        <5> QED
          BY ZenonT(60), <5>1 DEF Byte
      <4>2. CASE j = l
        BY <2>2, <4>2
      <4>3. CASE j < l
        <5>1. data[j].i < last
          BY Zenon, <1>5, <2>1, <4>3 DEF Run
        <5> QED
          BY <2>2, <4>1, <5>1
      <4> QED
        BY <2>1, <4>2, <4>3
    <3> QED
      BY Zenon, <1>5, <3>1 DEF Run
  <2>4. last \in 0 .. pr[p].sent /\ m <= last
    <3> DEFINE sent == pr[p].sent
    <3>1. sent \in Nat /\ m \in Nat /\ last \in Nat /\ m < last /\ last <= sent
      BY Zenon, <1>1, <1>5, <2>2
    <3> HIDE DEF sent, last
    <3>2. last \in 0 .. sent /\ m <= last
      BY <3>1
    <3> QED
      BY Zenon, <3>2 DEF sent
  <2>5. Beyond(Tail(q), p, last)
    BY ZenonT(60), <1>1, <1>7
  <2> HIDE DEF last, l
  <2>6. InStream(d, g, n, last)
    BY ZenonT(60), <1>2, <1>3, <1>5, <2>2, <2>3, <2>4, StreamTook DEF s, p, data
  <2> QED
    BY ZenonT(60), <1>1, <1>4, <2>4, <2>5, <2>6 DEF Fine
<1> QED
  BY <1>6, <1>7

LEMMA RxInv == ASSUME TcpInv, rx PROVE TcpInv'
<1> DEFINE s == Head(queue)
           slot == tcp_find_conn(s.port)
           d == Received(CONNS[slot], s)
           ack == Seg(s.port, {"ACK"}, d.send_seq, d.send_ack, << >>, 0)
           rst == Seg(s.port, {"RST"}, s.ack, 0, << >>, 0)
<1>1. /\ queue # << >> /\ queue' = Tail(queue)
      /\ IF slot = NoSlot
         THEN /\ UNCHANGED CONNS
              /\ \/ UNCHANGED <<SEG_BUF, peer>>
                 \/ SEG_BUF' = rst /\ ToPeer(rst, TRUE)
         ELSE /\ CONNS' = [CONNS EXCEPT ![slot] = d]
              /\ \/ SEG_BUF' = ack /\ ToPeer(ack, TRUE)
                 \/ UNCHANGED <<SEG_BUF, peer>>
      /\ UNCHANGED <<NEXT_LOCAL_PORT, thread, got>>
  BY ZenonT(60) DEF rx, Interrupted
<1>2. UNCHANGED <<pc, op, cur, attempt, length, snap, app, sends>>
  BY ZenonT(60), <1>1 DEF thread
<1>3. hold' = hold /\ skip' = skip /\ got' = got
  BY ZenonT(60), <1>1, <1>2 DEF hold, skip
<1>4. TcpType /\ peer \in [Ports -> PeerEnd] /\ queue \in Seq(Segment) /\ Ordered(queue, peer)
  BY DEF TcpInv, TcpType, QueueInv
<1>5. /\ Tail(queue) \in Seq(Segment) /\ Ordered(Tail(queue), peer)
      /\ s \in Segment /\ s.port \in Ports
      /\ \A p \in Ports : \A m : Beyond(queue, p, m) => Beyond(Tail(queue), p, m)
  BY ZenonT(60), <1>1, <1>4, QueueLess
<1>6. s.port \in Nat /\ s.ack \in Int /\ s.data \in Seq(Byte)
  BY ZenonT(60), <1>5 DEF Segment
<1>7. slot # NoSlot =>
        /\ slot = hold /\ hold \in Slots /\ CONNS[hold].in_use /\ CONNS[hold].local_port = s.port
        /\ CONNS[hold] \in Conn
  BY ZenonT(60), FoundIsHeld DEF TcpInv, TcpType
<1> HIDE DEF slot
<1>8. slot # NoSlot => d \in Conn /\ d.send_seq \in Int /\ d.send_ack \in Int
  <2> SUFFICES ASSUME slot # NoSlot PROVE d \in Conn /\ d.send_seq \in Int /\ d.send_ack \in Int
    OBVIOUS
  <2>1. d \in Conn
    BY ZenonT(60), <1>5, <1>7, ReceivedFacts
  <2> QED
    BY ZenonT(60), <2>1 DEF Conn
<1>9. rst \in Segment /\ (slot # NoSlot => ack \in Segment)
  <2>1. {"RST"} \in FlagSet /\ {"ACK"} \in FlagSet /\ 0 \in Int /\ 0 \in Nat /\ << >> \in Seq(Byte)
    BY DEF FlagSet
  <2> HIDE DEF d
  <2> QED
    BY ZenonT(60), <1>6, <1>8, <2>1, SegTyped
<1> HIDE DEF ack, rst
<1>10. /\ peer' \in [Ports -> PeerEnd] /\ \A p \in Ports : peer'[p].sent = peer[p].sent
       /\ SEG_BUF' \in Segment
  <2>1. TRUE \in BOOLEAN
    OBVIOUS
  <2> HIDE DEF d
  <2> QED
    BY ZenonT(60), <1>1, <1>4, <1>9, <2>1, ToPeerKeeps DEF TcpType
<1>11. QueueInv' /\ queue' \in Seq(Segment)
  <2>1. Ordered(Tail(queue), peer')
    BY ZenonT(60), <1>5, <1>10 DEF Ordered
  <2> QED
    BY ZenonT(60), <1>1, <1>5, <2>1 DEF QueueInv
<1>12. ThreadInv'
  BY ZenonT(60), <1>2 DEF TcpInv, ThreadInv
<1>13. ASSUME NEW c, NEW n, Fine(c, got, n, Tail(queue), peer)
       PROVE  Fine(c, got, n, queue', peer')
  BY ZenonT(60), <1>1, <1>10, <1>13 DEF Fine
<1>14. CASE slot = NoSlot
  <2>1. CONNS' = CONNS
    BY <1>1, <1>14
  <2>2. TcpType'
    BY ZenonT(60), <1>1, <1>2, <1>4, <1>10, <1>11, <2>1 DEF TcpType
  <2>3. SlotInv' /\ SynInv' /\ SnapInv'
    BY ZenonT(60), <1>2, <1>3, <2>1 DEF TcpInv, SlotInv, SynInv, SnapInv
  <2>4. StreamInv'
    <3> SUFFICES ASSUME hold \in Slots, CONNS[hold].in_use
                 PROVE  Fine(CONNS[hold], got, skip, queue', peer')
      BY ZenonT(60), <1>3, <2>1 DEF StreamInv
    <3>1. Fine(CONNS[hold], got, skip, queue, peer)
      BY DEF TcpInv, StreamInv
    <3>2. Fine(CONNS[hold], got, skip, Tail(queue), peer)
      BY ZenonT(60), <1>5, <3>1 DEF Fine
    <3> QED
      BY <1>13, <3>2
  <2> QED
    BY ZenonT(60), <1>11, <1>12, <2>2, <2>3, <2>4 DEF TcpInv
<1>15. CASE slot # NoSlot
  <2> DEFINE c == CONNS[hold]
             e == Received(c, s)
  <2>1. hold \in Slots /\ c \in Conn /\ c.in_use /\ c.local_port = s.port /\ d = e
    BY ZenonT(60), <1>7, <1>15
  <2>2. CONNS' = [CONNS EXCEPT ![hold] = e] /\ e \in Conn
    BY ZenonT(60), <1>1, <1>7, <1>8, <1>15
  <2>3. /\ ~e.in_use => e.state = "CLOSED" /\ ~e.connected
        /\ e.connected => c.connected \/ e.state = "ESTABLISHED"
        /\ \/ e.state = c.state
           \/ e.state = "CLOSED" /\ ~e.connected
           \/ e.state = "ESTABLISHED"
           \/ e.state = "TIME_WAIT"
           \/ c.state = "FIN_WAIT_1"
        /\ \/ SameRing(c, e)
           \/ \E n \in 0 .. Len(s.data) : Took(c, e, s.data, n)
    BY ZenonT(60), <1>5, <2>1, ReceivedFacts
  <2>4. /\ CONNS' \in [Slots -> Conn] /\ CONNS'[hold] = e
        /\ \A r \in Slots : r # hold => CONNS'[r] = CONNS[r]
    BY ZenonT(60), <1>4, <2>1, <2>2 DEF TcpType
  <2>5. pc # "idle" => cur = hold
    BY DEF hold
  <2> HIDE DEF e
  <2>6. TcpType'
    BY ZenonT(60), <1>1, <1>2, <1>4, <1>10, <1>11, <2>4 DEF TcpType
  <2>7. SlotInv'
    BY ZenonT(60), <1>2, <1>3, <2>3, <2>4 DEF TcpInv, SlotInv
  <2>8. SynInv'
    <3> SUFFICES ASSUME op = "syn"
                 PROVE  /\ e.state \notin {"FIN_WAIT_1", "FIN_WAIT_2"}
                        /\ e.connected => e.in_use /\ e.state \in {"ESTABLISHED", "TIME_WAIT"}
      <4>1. op = "syn" => cur = hold
        BY <2>5 DEF TcpInv, ThreadInv, Doing
      <4> QED
        BY ZenonT(60), <1>2, <2>4, <4>1 DEF SynInv
    <3>1. cur = hold
      BY <2>5 DEF TcpInv, ThreadInv, Doing
    <3>2. /\ c.state \notin {"FIN_WAIT_1", "FIN_WAIT_2"}
          /\ c.connected => c.state \in {"ESTABLISHED", "TIME_WAIT"}
      BY <3>1 DEF TcpInv, SynInv
    <3> HIDE DEF c
    <3> QED
      BY ZenonT(60), <2>3, <3>2
  <2>9. e.rx_tail = c.rx_tail /\ Count(e) \in Nat /\ Count(c) \in Nat /\ Count(c) <= Count(e)
    <3>1. Count(e) \in Nat /\ Count(c) \in Nat
      BY <2>1, <2>2, RoomValue, TcpAssumption
    <3> HIDE DEF c
    <3>2. CASE SameRing(c, e)
      BY <3>1, <3>2 DEF SameRing, Count
    <3>3. ASSUME NEW n \in 0 .. Len(s.data), Took(c, e, s.data, n)
          PROVE  e.rx_tail = c.rx_tail /\ Count(c) <= Count(e)
      <4>1. n \in Nat
        BY <1>6, LenProperties
      <4> QED
        BY <3>1, <3>3, <4>1 DEF Took
    <3> QED
      BY ZenonT(60), <2>3, <3>1, <3>2, <3>3
  <2>10. SnapInv'
    <3> SUFFICES ASSUME pc \in {"copy", "tail"}
                 PROVE  /\ snap[1] # snap[2] /\ snap[2] = e.rx_tail
                        /\ Dist(snap[1], snap[2]) <= Count(e)
                        /\ pc = "tail" => length <= Dist(snap[1], snap[2])
      BY ZenonT(60), <1>2, <2>4, <2>5 DEF SnapInv
    <3>1. /\ snap[1] # snap[2] /\ snap[2] = c.rx_tail
          /\ Dist(snap[1], snap[2]) <= Count(c)
          /\ pc = "tail" => length <= Dist(snap[1], snap[2])
      BY <2>5 DEF TcpInv, SnapInv
    <3>2. Dist(snap[1], snap[2]) \in Int
      BY <1>4, DistMod, TcpAssumption DEF TcpType
    <3> HIDE DEF c
    <3> QED
      BY <2>9, <3>1, <3>2
  <2>11. skip \in 0 .. Count(c)
    <3>1. CASE pc = "tail"
      <4>1. length <= Dist(snap[1], snap[2]) /\ Dist(snap[1], snap[2]) <= Count(c)
        BY <2>5, <3>1 DEF TcpInv, SnapInv
      <4>2. length \in Nat /\ Dist(snap[1], snap[2]) \in Int
        BY <1>4, DistMod, TcpAssumption DEF TcpType
      <4> HIDE DEF c
      <4> QED
        BY <2>9, <3>1, <4>1, <4>2 DEF skip
    <3>2. CASE pc # "tail"
      <4> HIDE DEF c
      <4> QED
        BY <2>9, <3>2 DEF skip
    <3> QED
      BY <3>1, <3>2
  <2>12. StreamInv'
    <3> SUFFICES Fine(e, got, skip, queue', peer')
      BY ZenonT(60), <1>3, <2>4 DEF StreamInv
    <3>1. Fine(c, got, skip, queue, peer)
      BY ZenonT(60), <2>1 DEF TcpInv, StreamInv
    <3>2. got \in Seq(Byte)
      BY <1>4 DEF TcpType
    <3> HIDE DEF c, s
    <3>3. Fine(e, got, skip, Tail(queue), peer)
      <4>1. CASE SameRing(c, e)
        <5>1. Fine(c, got, skip, Tail(queue), peer)
          BY ZenonT(60), <1>5, <3>1 DEF Fine
        <5> QED
          BY ZenonT(60), <4>1, <5>1, SameStream
      <4>2. ASSUME NEW n \in 0 .. Len(s.data), Took(c, e, s.data, n)
            PROVE  Fine(e, got, skip, Tail(queue), peer)
        BY ZenonT(60), <1>1, <1>4, <2>1, <2>2, <2>11, <3>1, <3>2, <4>2, StreamReceived DEF s
      <4> QED
        BY ZenonT(60), <2>3, <4>1, <4>2
    <3> QED
      BY <1>13, <3>3
  <2> QED
    BY ZenonT(60), <1>11, <1>12, <2>6, <2>7, <2>8, <2>10, <2>12 DEF TcpInv
<1> QED
  BY <1>14, <1>15

-----------------------------------------------------------------------------
(* The steps of the thread.                                                *)

LEMMA HeldTyped ==
  ASSUME TcpInv
  PROVE  /\ pc # "idle" => cur \in Slots /\ hold = cur /\ CONNS[cur] \in Conn
         /\ pc = "idle" /\ app # NoSlot => app \in Slots /\ hold = app /\ CONNS[app] \in Conn
         /\ \A r \in Slots : r # hold => ~CONNS[r].in_use /\ CONNS[r].state = "CLOSED"
BY Zenon DEF TcpInv, TcpType, ThreadInv, SlotInv, hold

\* Building and sending a segment.
LEMMA SegmentInv == ASSUME TcpInv, SegPorts \/ SegRest \/ SegXmit PROVE TcpInv'
<1>1. TcpType /\ ThreadInv /\ SEG_BUF \in Segment /\ length \in Nat /\ peer \in [Ports -> PeerEnd]
  BY DEF TcpInv, TcpType
<1>2. /\ UNCHANGED <<CONNS, NEXT_LOCAL_PORT, op, cur, attempt, length, snap, app, sends, got>>
      /\ queue' = queue /\ pc # "idle"
      /\ pc \in {"ports", "rest", "xmit"}
      /\ pc' \in {"rest", "xmit", "connecting", "sent", "finished"}
  BY DEF SegPorts, SegRest, SegXmit, Quiet, net, Goto
<1>3. cur \in Slots /\ hold = cur /\ CONNS[cur] \in Conn
  BY ZenonT(60), <1>2, HeldTyped
<1>4. SEG_BUF' \in Segment
  <2>1. /\ CONNS[cur].local_port \in Nat /\ CONNS[cur].send_seq \in Int
        /\ CONNS[cur].send_ack \in Int /\ SEG_BUF.port \in Nat
    BY ZenonT(60), <1>1, <1>3 DEF Conn, Segment
  <2>2. CASE SegPorts
    BY ZenonT(60), <1>1, <2>1, <2>2 DEF SegPorts, Segment
  <2>3. CASE SegRest
    <3>1. Flags \in FlagSet /\ << >> \in Seq(Byte)
      BY DEF Flags, FlagSet
    <3> QED
      BY ZenonT(60), <1>1, <2>1, <2>3, <3>1, SegTyped DEF SegRest
  <2>4. CASE SegXmit
    BY <1>1, <2>4 DEF SegXmit
  <2> QED
    BY <2>2, <2>3, <2>4
<1>5. peer' \in [Ports -> PeerEnd] /\ \A p \in Ports : peer'[p].sent = peer[p].sent
  <2>1. CASE SegPorts \/ SegRest
    <3>1. peer' = peer
      BY <2>1 DEF SegPorts, SegRest, Quiet, net
    <3> QED
      BY ZenonT(60), <1>1, <3>1
  <2>2. CASE SegXmit
    <3>1. (SEG_BUF.len = length) \in BOOLEAN
      OBVIOUS
    <3> QED
      BY ZenonT(60), <1>1, <2>2, <3>1, ToPeerKeeps DEF SegXmit
  <2> QED
    BY <2>1, <2>2
<1>6. pc' \in PC /\ pc' # "tail" /\ pc # "tail" /\ pc' # "idle"
      /\ pc \notin {"closing", "closed"} /\ pc' # "copy"
  BY <1>2 DEF PC
<1>7. TcpType'
  BY ZenonT(60), <1>1, <1>2, <1>4, <1>5, <1>6 DEF TcpType
<1>8. pc' \in Doing(op)
  <2>1. pc \in Doing(op) /\ op \in {"none", "syn", "data", "fin"}
    BY <1>1 DEF ThreadInv, TcpType
  <2> QED
    BY <2>1 DEF SegPorts, SegRest, SegXmit, Goto, Doing
<1>9. ThreadInv'
  BY ZenonT(60), <1>1, <1>2, <1>6, <1>8 DEF ThreadInv
<1>10. hold' = hold /\ SnapInv'
  BY ZenonT(60), <1>2, <1>6 DEF hold, SnapInv
<1> QED
  BY ZenonT(60), <1>2, <1>5, <1>6, <1>7, <1>9, <1>10, ThreadMoves

\* Return leaves the locals of no call behind.
LEMMA ReturnTyped ==
  ASSUME Return
  PROVE  /\ pc' = "idle" /\ op' = "none" /\ cur' = NoSlot /\ length' = 0
         /\ pc' \in PC /\ op' \in {"none", "syn", "data", "fin"}
         /\ cur' \in Slots \cup {NoSlot} /\ length' \in Nat /\ snap' \in Pos \X Pos
         /\ pc' \in Doing(op') /\ SnapInv' /\ SynInv' /\ skip' = 0 /\ hold' = app'
<1>1. pc' = "idle" /\ op' = "none" /\ cur' = NoSlot /\ length' = 0 /\ snap' = <<0, 0>>
  BY DEF Return
<1>2. 0 \in Pos
  BY TcpAssumption DEF Pos
<1> QED
  BY <1>1, <1>2 DEF PC, Doing, SnapInv, SynInv, skip, hold

\* The steps that change neither a connection nor what recv has returned.
LEMMA QuietInv ==
  ASSUME TcpInv,
         \/ Connected
         \/ RecvTimeout
         \/ RecvSnapshot
         \/ CloseWaited
         \/ \E n \in 1 .. MaxSegment : Send(n)
         \/ Recv
         \/ ConnectTimeout /\ attempt < Attempts
         \/ Close /\ CONNS[app].in_use
  PROVE  TcpInv'
<1>1. TcpType /\ ThreadInv /\ SynInv
  BY ZenonT(60) DEF TcpInv
<1>2. CONNS' = CONNS /\ got' = got /\ queue' = queue /\ peer' = peer
      /\ UNCHANGED <<NEXT_LOCAL_PORT, SEG_BUF>>
  BY ZenonT(60) DEF Connected, RecvTimeout, RecvSnapshot, CloseWaited, Send, Recv, ConnectTimeout, Close,
         Quiet, net
<1> DEFINE Kept ==
     /\ pc' \in PC /\ op' \in {"none", "syn", "data", "fin"}
     /\ cur' \in Slots \cup {NoSlot} /\ app' \in Slots \cup {NoSlot}
     /\ length' \in Nat /\ snap' \in Pos \X Pos
     /\ ThreadInv' /\ SnapInv' /\ hold' = hold
     /\ pc # "tail" /\ pc' # "tail"
     /\ pc \in {"closing", "closed"} => pc' \in {"closing", "closed"}
     /\ op' = "syn" => op = "syn" /\ cur' = cur
<1> SUFFICES Kept
  <2>1. ASSUME Kept PROVE TcpType'
    BY ZenonT(60), <1>1, <1>2, <2>1 DEF TcpType
  <2> QED
    BY ZenonT(60), <1>2, <2>1, ThreadMoves
<1>3. ASSUME pc # "idle", Return, app' = cur, pc \notin {"tail", "closing", "closed"}
      PROVE  Kept
  <2>1. cur \in Slots /\ hold = cur
    BY ZenonT(60), <1>3, HeldTyped
  <2>2. ThreadInv'
    BY ZenonT(60), <1>3, ReturnTyped DEF ThreadInv
  <2> QED
    BY ZenonT(60), <1>3, <2>1, <2>2, ReturnTyped
<1>4. CASE Connected
  <2>1. pc = "connecting" /\ Return /\ app' = cur
    BY <1>4 DEF Connected
  <2> QED
    BY <1>3, <2>1
<1>5. CASE RecvTimeout \/ RecvSnapshot
  <2>1. pc = "receiving" /\ app' = app
    BY ZenonT(60), <1>5 DEF RecvTimeout, RecvSnapshot
  <2>2. app = cur /\ op = "none" /\ cur \in Slots /\ hold = cur /\ CONNS[cur] \in Conn
    <3>1. op # "syn" /\ op = "none"
      BY Zenon, <1>1, <2>1 DEF ThreadInv, Doing, TcpType
    <3> QED
      BY ZenonT(60), <1>1, <2>1, <3>1, HeldTyped DEF ThreadInv
  <2>3. CASE Return
    BY <1>3, <2>1, <2>2, <2>3
  <2>4. CASE ~Return
    <3> DEFINE c == CONNS[cur]
    <3>1. /\ c.rx_head # c.rx_tail /\ snap' = <<c.rx_head, c.rx_tail>> /\ pc' = "copy"
          /\ UNCHANGED <<op, cur, attempt, length>>
      BY ZenonT(60), <1>5, <2>4 DEF RecvTimeout, RecvSnapshot, Goto
    <3>2. c.rx_head \in Pos /\ c.rx_tail \in Pos
      BY ZenonT(60), <2>2 DEF Conn
    <3>3. snap' \in Pos \X Pos /\ snap'[1] = c.rx_head /\ snap'[2] = c.rx_tail
      BY <3>1, <3>2
    <3>4. SnapInv'
      <4>1. Count(c) \in Nat
        BY <2>2, RoomValue, TcpAssumption
      <4>2. Count(c) <= Count(c)
        BY <4>1
      <4> QED
        BY ZenonT(60), <1>2, <3>1, <3>3, <4>2 DEF SnapInv, Count
    <3>5. ThreadInv'
      BY Zenon, <1>1, <2>1, <2>2, <3>1, NoSlotFree DEF ThreadInv, Doing
    <3>6. hold' = hold
      BY <2>1, <3>1 DEF hold
    <3>7. pc' \in PC
      BY <3>1 DEF PC
    <3> QED
      BY ZenonT(60), <1>1, <2>1, <2>2, <3>1, <3>3, <3>4, <3>5, <3>6, <3>7 DEF TcpType
  <2> QED
    BY Zenon, <2>3, <2>4
<1>6. CASE CloseWaited
  <2>1. /\ pc = "closing" /\ pc' = "closed"
        /\ UNCHANGED <<op, cur, attempt, length, snap, app, sends>>
    BY <1>6 DEF CloseWaited, Goto
  <2>2. ThreadInv' /\ hold' = hold /\ SnapInv' /\ pc' \in PC
    BY <1>1, <2>1 DEF ThreadInv, Doing, hold, SnapInv, PC, TcpType
  <2> QED
    BY ZenonT(60), <1>1, <2>1, <2>2 DEF TcpType
<1>7. ASSUME NEW n \in 1 .. MaxSegment, Send(n) PROVE Kept
  <2>1. /\ pc = "idle" /\ app # NoSlot /\ cur' = app /\ op' = "data" /\ length' = n /\ pc' = "ports"
        /\ UNCHANGED <<snap, app>>
    BY <1>7 DEF Send, Goto
  <2>2. ThreadInv' /\ hold' = hold /\ SnapInv' /\ pc' \in PC
    BY <1>1, <2>1 DEF ThreadInv, Doing, hold, SnapInv, PC
  <2>3. length' \in Nat
    BY <2>1, TcpAssumption
  <2> QED
    BY ZenonT(60), <1>1, <2>1, <2>2, <2>3 DEF TcpType
<1>8. CASE Recv
  <2>1. /\ pc = "idle" /\ app # NoSlot /\ cur' = app /\ pc' = "receiving"
        /\ UNCHANGED <<snap, app, op, length>>
    BY <1>8 DEF Recv, Goto
  <2>2. op = "none"
    BY <1>1, <2>1 DEF ThreadInv, Doing, TcpType
  <2>3. ThreadInv' /\ hold' = hold /\ SnapInv' /\ pc' \in PC
    BY <1>1, <2>1, <2>2 DEF ThreadInv, Doing, hold, SnapInv, PC
  <2> QED
    BY ZenonT(60), <1>1, <2>1, <2>2, <2>3 DEF TcpType
<1>9. CASE ConnectTimeout /\ attempt < Attempts
  <2>1. /\ pc = "connecting" /\ pc' = "ports" /\ UNCHANGED <<op, cur, length, snap, app>>
    BY <1>9 DEF ConnectTimeout, Goto
  <2>2. op = "syn"
    BY <1>1, <2>1 DEF ThreadInv, Doing, TcpType
  <2>3. ThreadInv' /\ hold' = hold /\ SnapInv' /\ pc' \in PC
    BY <1>1, <2>1, <2>2 DEF ThreadInv, Doing, hold, SnapInv, PC
  <2> QED
    BY ZenonT(60), <1>1, <2>1, <2>2, <2>3 DEF TcpType
<1>10. CASE Close /\ CONNS[app].in_use
  <2>1. /\ pc = "idle" /\ app # NoSlot /\ cur' = app /\ op' = "fin" /\ pc' \in {"ports", "closed"}
        /\ UNCHANGED <<length, snap, app>>
    BY <1>10 DEF Close, Goto
  <2>2. ThreadInv' /\ hold' = hold /\ SnapInv' /\ pc' \in PC
    BY <1>1, <2>1 DEF ThreadInv, Doing, hold, SnapInv, PC
  <2> QED
    BY ZenonT(60), <1>1, <2>1, <2>2 DEF TcpType
<1> QED
  BY ZenonT(60), <1>4, <1>5, <1>6, <1>7, <1>8, <1>9, <1>10

\* connect starts with an empty ring on a port the peer has not been asked for.
LEMMA ConnectInv == ASSUME TcpInv, Connect PROVE TcpInv'
<1>1. TcpType /\ ThreadInv /\ QueueInv
  BY DEF TcpInv
<1> DEFINE new == [NewConn EXCEPT !.in_use = TRUE, !.state = "SYN_SENT", !.send_seq = ISS,
                                  !.local_port = NEXT_LOCAL_PORT]
<1>2. PICK r \in Slots : CONNS' = [CONNS EXCEPT ![r] = new] /\ cur' = r
  BY ZenonT(60) DEF Connect
<1>3. /\ pc = "idle" /\ app = NoSlot /\ NEXT_LOCAL_PORT \in Ports
      /\ NEXT_LOCAL_PORT' = NEXT_LOCAL_PORT + 1 /\ pc' = "ports" /\ op' = "syn" /\ got' = << >>
      /\ queue' = queue /\ peer' = peer /\ UNCHANGED <<SEG_BUF, length, snap, app, sends>>
  BY DEF Connect, Goto, Quiet, net
<1>4. /\ new \in Conn /\ new.rx_head = 0 /\ new.rx_tail = 0 /\ new.connected = FALSE
      /\ new.in_use /\ new.state = "SYN_SENT" /\ new.local_port = NEXT_LOCAL_PORT
  <2>1. ISS \in Int /\ NEXT_LOCAL_PORT \in Nat
    BY <1>1, TcpAssumption DEF TcpType
  <2> QED
    BY Zenon, <2>1, NewConnTyped DEF Conn, State
<1> HIDE DEF new
<1>5. /\ CONNS' \in [Slots -> Conn] /\ CONNS'[r] = new
      /\ \A t \in Slots : t # r => CONNS'[t] = CONNS[t]
  BY ZenonT(60), <1>1, <1>2, <1>4 DEF TcpType
<1>6. TcpType'
  <2>1. NEXT_LOCAL_PORT' \in Nat /\ got' \in Seq(Byte) /\ pc' \in PC
    BY <1>1, <1>3 DEF TcpType, PC
  <2> QED
    BY ZenonT(60), <1>1, <1>2, <1>3, <1>5, <2>1 DEF TcpType
<1>7. hold' = r /\ skip' = 0 /\ hold = NoSlot
  BY <1>2, <1>3 DEF hold, skip
<1>8. ThreadInv' /\ SnapInv' /\ SynInv'
  <2>1. ThreadInv' /\ SnapInv'
    BY <1>2, <1>3, NoSlotFree DEF ThreadInv, SnapInv, Doing
  <2>2. SynInv'
    BY ZenonT(60), <1>2, <1>4, <1>5 DEF SynInv
  <2> QED
    BY <2>1, <2>2
<1>9. SlotInv'
  <2>1. \A t \in Slots : ~CONNS[t].in_use /\ CONNS[t].state = "CLOSED"
    BY ZenonT(60), <1>7, NoSlotFree, HeldTyped
  <2> QED
    BY ZenonT(60), <1>4, <1>5, <1>7, <2>1 DEF SlotInv
<1>10. QueueInv'
  BY ZenonT(60), <1>3, QueueKept
<1>11. StreamInv'
  <2>1. Total(new, << >>, 0) = 0
    BY <1>4 DEF Total, Count, Dist
  <2>2. InStream(new, << >>, 0, 0)
    BY <2>1 DEF InStream
  <2>3. Beyond(queue, NEXT_LOCAL_PORT, 0)
    BY ZenonT(60), <1>1 DEF QueueInv, Ordered, Run, Beyond
  <2>4. 0 \in 0 .. peer[NEXT_LOCAL_PORT].sent
    <3>1. peer[NEXT_LOCAL_PORT].sent \in Nat
      BY ZenonT(60), <1>1, <1>3 DEF TcpType, PeerEnd
    <3> QED
      BY <3>1
  <2>5. Fine(new, << >>, 0, queue, peer)
    BY ZenonT(60), <1>3, <1>4, <2>2, <2>3, <2>4 DEF Fine
  <2> QED
    BY ZenonT(60), <1>3, <1>5, <1>7, <2>5 DEF StreamInv
<1> QED
  BY ZenonT(60), <1>6, <1>8, <1>9, <1>10, <1>11 DEF TcpInv

\* A connect that gives up, and both ends of close.
LEMMA ReleaseInv ==
  ASSUME TcpInv,
         \/ ConnectTimeout /\ ~(attempt < Attempts)
         \/ CloseDone
         \/ Close /\ ~CONNS[app].in_use
  PROVE  TcpInv'
<1>1. TcpType /\ ThreadInv /\ SlotInv
  BY ZenonT(60) DEF TcpInv
<1>2. queue' = queue /\ peer' = peer /\ got' = got /\ UNCHANGED <<NEXT_LOCAL_PORT, SEG_BUF>>
  BY ZenonT(60) DEF ConnectTimeout, CloseDone, Close, Quiet, net
<1>3. ASSUME pc # "idle", Release(cur), Return, app' = NoSlot
      PROVE  TcpInv'
  <2>1. cur \in Slots /\ hold = cur /\ CONNS[cur] \in Conn
    BY ZenonT(60), <1>3, HeldTyped
  <2> DEFINE d == [CONNS[cur] EXCEPT !.in_use = FALSE, !.state = "CLOSED"]
  <2>2. d \in Conn /\ ~d.in_use /\ d.state = "CLOSED"
    BY ZenonT(60), <2>1 DEF Conn, State
  <2>3. CONNS' = [CONNS EXCEPT ![cur] = d]
    BY ZenonT(60), <1>1, <1>3, <2>1 DEF Release, TcpType
  <2> HIDE DEF d
  <2>4. /\ CONNS' \in [Slots -> Conn]
        /\ \A r \in Slots : ~CONNS'[r].in_use /\ CONNS'[r].state = "CLOSED"
    BY Zenon, <1>1, <2>1, <2>2, <2>3, HeldTyped DEF TcpType
  <2>5. TcpType'
    BY ZenonT(60), <1>1, <1>2, <1>3, <2>4, ReturnTyped DEF TcpType
  <2>6. ThreadInv' /\ pc' = "idle"
    BY ZenonT(60), <1>3, ReturnTyped DEF ThreadInv
  <2> QED
    BY ZenonT(60), <1>2, <1>3, <2>4, <2>5, <2>6, AllFree
<1>4. CASE ConnectTimeout /\ ~(attempt < Attempts)
  <2>1. pc = "connecting" /\ Release(cur) /\ Return /\ app' = app
    BY <1>4 DEF ConnectTimeout
  <2>2. app = NoSlot
    BY <1>1, <2>1 DEF ThreadInv, Doing, TcpType
  <2> QED
    BY <1>3, <2>1, <2>2
<1>5. CASE CloseDone
  BY <1>3, <1>5 DEF CloseDone
<1>6. CASE Close /\ ~CONNS[app].in_use
  <2>1. /\ pc = "idle" /\ app # NoSlot /\ app' = NoSlot
        /\ UNCHANGED <<pc, op, cur, CONNS, length, snap>>
    BY ZenonT(60), <1>6 DEF Close
  <2>2. hold = app
    BY <2>1 DEF hold
  <2>3. \A r \in Slots : ~CONNS[r].in_use /\ CONNS[r].state = "CLOSED"
    <3>1. pc \notin {"closing", "closed"}
      BY <2>1
    <3> QED
      BY ZenonT(60), <1>1, <1>6, <2>2, <3>1 DEF SlotInv
  <2>4. TcpType'
    BY ZenonT(60), <1>1, <1>2, <2>1 DEF TcpType
  <2>5. ThreadInv'
    BY ZenonT(60), <1>1, <2>1 DEF ThreadInv
  <2> QED
    BY ZenonT(60), <1>2, <2>1, <2>3, <2>4, <2>5, AllFree
<1> QED
  BY <1>4, <1>5, <1>6

\* The sequence number moves when a segment has been sent; the FIN changes the state.
LEMMA SequenceInv == ASSUME TcpInv, SendDone \/ FinSent PROVE TcpInv'
<1>1. TcpType /\ ThreadInv /\ SlotInv
  BY DEF TcpInv
<1>2. /\ queue' = queue /\ peer' = peer /\ got' = got /\ UNCHANGED <<NEXT_LOCAL_PORT, SEG_BUF, app>>
      /\ pc \in {"sent", "finished"}
  BY DEF SendDone, FinSent, Quiet, net
<1>3. cur \in Slots /\ hold = cur /\ CONNS[cur] \in Conn /\ op # "syn" /\ app = cur
  <2>1. op # "syn"
    BY <1>1, <1>2 DEF ThreadInv, Doing, TcpType
  <2>2. pc # "idle"
    BY <1>2
  <2> QED
    BY ZenonT(60), <1>1, <2>1, <2>2, HeldTyped DEF ThreadInv
<1> DEFINE c == CONNS[cur]
<1>4. PICK d \in Conn :
        /\ CONNS' = [CONNS EXCEPT ![cur] = d] /\ d.in_use = c.in_use /\ SameRing(c, d)
        /\ pc' = "idle" => d.state = c.state
  <2>1. c.send_seq \in Int /\ length \in Nat
    BY ZenonT(60), <1>1, <1>3 DEF Conn, TcpType
  <2>2. (c.send_seq + length) % SEQ \in Int /\ (c.send_seq + 1) % SEQ \in Int
    BY <2>1, TcpAssumption
  <2>3. CASE SendDone
    <3> DEFINE d == [c EXCEPT !.send_seq = (c.send_seq + length) % SEQ]
    <3>1. d \in Conn /\ d.in_use = c.in_use /\ SameRing(c, d) /\ d.state = c.state
      BY ZenonT(60), <1>3, <2>2 DEF Conn, SameRing
    <3>2. CONNS' = [CONNS EXCEPT ![cur] = d]
      BY <1>1, <1>3, <2>3 DEF SendDone, TcpType
    <3> QED
      BY ZenonT(60), <3>1, <3>2
  <2>4. CASE FinSent
    <3> DEFINE d == [c EXCEPT !.send_seq = (c.send_seq + 1) % SEQ, !.state = "FIN_WAIT_1"]
    <3>1. d \in Conn /\ d.in_use = c.in_use /\ SameRing(c, d)
      BY ZenonT(60), <1>3, <2>2 DEF Conn, SameRing, State
    <3>2. CONNS' = [CONNS EXCEPT ![cur] = d] /\ pc' # "idle"
      BY ZenonT(60), <1>1, <1>3, <2>4 DEF FinSent, TcpType, Goto
    <3> QED
      BY ZenonT(60), <3>1, <3>2
  <2> QED
    BY <2>3, <2>4
<1>5. /\ CONNS' \in [Slots -> Conn] /\ CONNS'[cur] = d
      /\ \A r \in Slots : r # cur => CONNS'[r] = CONNS[r]
  BY Zenon, <1>1, <1>3, <1>4 DEF TcpType
<1>6. TcpType' /\ ThreadInv' /\ SynInv' /\ SnapInv' /\ hold' = hold /\ skip' = skip
  <2>1. skip = 0
    BY <1>2 DEF skip
  <2>2. CASE SendDone
    <3>1. Return
      BY <2>2 DEF SendDone
    <3>2. TcpType'
      BY ZenonT(60), <1>1, <1>2, <1>5, <3>1, ReturnTyped DEF TcpType
    <3>3. ThreadInv'
      BY ZenonT(60), <3>1, ReturnTyped DEF ThreadInv
    <3> QED
      BY ZenonT(60), <1>2, <1>3, <2>1, <3>1, <3>2, <3>3, ReturnTyped
  <2>3. CASE FinSent
    <3>1. /\ pc = "finished" /\ pc' = "closing" /\ UNCHANGED <<op, cur, attempt, length, snap>>
      BY <2>3 DEF FinSent, Goto
    <3>2. ThreadInv' /\ SnapInv' /\ SynInv' /\ pc' \in PC /\ hold' = hold /\ skip' = skip
      BY <1>1, <1>2, <1>3, <3>1 DEF ThreadInv, SnapInv, SynInv, PC, Doing, hold, skip, TcpType
    <3>3. TcpType'
      BY ZenonT(60), <1>1, <1>2, <1>5, <3>1, <3>2 DEF TcpType
    <3> QED
      BY <3>2, <3>3
  <2> QED
    BY <2>2, <2>3
<1>7. SlotInv'
  <2>1. \A r \in Slots : r # hold' => ~CONNS'[r].in_use /\ CONNS'[r].state = "CLOSED"
    BY ZenonT(60), <1>3, <1>5, <1>6, HeldTyped
  <2>2. ~CONNS'[hold'].in_use => CONNS'[hold'].state = "CLOSED" \/ pc' \in {"closing", "closed"}
    <3> HIDE DEF c
    <3>1. CASE SendDone
      <4>1. pc' = "idle" /\ pc \notin {"closing", "closed"}
        BY <3>1 DEF SendDone, Return
      <4> QED
        BY ZenonT(60), <1>1, <1>3, <1>4, <1>5, <1>6, <4>1 DEF SlotInv, c
    <3>2. CASE FinSent
      BY <3>2 DEF FinSent, Goto
    <3> QED
      BY <3>1, <3>2
  <2> QED
    BY ZenonT(60), <2>1, <2>2 DEF SlotInv
<1>8. QueueInv'
  BY ZenonT(60), <1>2, QueueKept
<1>9. StreamInv'
  <2>1. CONNS'[hold].in_use =>
          CONNS[hold].in_use /\ SameRing(CONNS[hold], CONNS'[hold])
    BY ZenonT(60), <1>3, <1>4, <1>5
  <2> QED
    BY ZenonT(60), <1>2, <1>6, <2>1, StreamKept
<1> QED
  BY ZenonT(60), <1>6, <1>7, <1>8, <1>9 DEF TcpInv

\* What recv works on between its snapshot and its return.
LEMMA SnapFacts ==
  ASSUME TcpInv, pc \in {"copy", "tail"}
  PROVE  /\ cur \in Slots /\ hold = cur /\ CONNS[cur] \in Conn /\ op = "none" /\ app = cur
         /\ snap[2] = CONNS[cur].rx_tail /\ snap[2] \in Pos
         /\ Avail = Dist(snap[1], snap[2]) /\ Avail \in 1 .. Count(CONNS[cur])
         /\ Count(CONNS[cur]) \in 0 .. TCP_RX_BUF_SIZE - 1
<1>1. TcpType /\ ThreadInv /\ SnapInv
  BY DEF TcpInv
<1>2. op = "none" /\ pc # "idle" /\ op # "syn"
  BY <1>1 DEF ThreadInv, Doing, TcpType
<1>3. cur \in Slots /\ hold = cur /\ CONNS[cur] \in Conn /\ app = cur
  BY ZenonT(60), <1>1, <1>2, HeldTyped DEF ThreadInv
<1>4. /\ snap[1] \in Pos /\ snap[2] \in Pos /\ snap[1] # snap[2]
      /\ snap[2] = CONNS[cur].rx_tail /\ Dist(snap[1], snap[2]) <= Count(CONNS[cur])
  BY Zenon, <1>1 DEF TcpType, SnapInv
<1>5. Avail = Dist(snap[1], snap[2])
  BY <1>4, TcpAssumption DEF Avail, Dist, Pos
<1>6. Count(CONNS[cur]) \in 0 .. TCP_RX_BUF_SIZE - 1
  BY Zenon, <1>3, RoomValue
<1>7. Dist(snap[1], snap[2]) \in 0 .. TCP_RX_BUF_SIZE - 1 /\ Dist(snap[1], snap[2]) # 0
  BY Zenon, <1>4, DistMod
<1>8. Avail \in 1 .. Count(CONNS[cur])
  BY <1>4, <1>5, <1>6, <1>7, TcpAssumption
<1> QED
  BY Zenon, <1>2, <1>3, <1>4, <1>5, <1>6, <1>8

LEMMA CopyInv == ASSUME TcpInv, NEW max_len \in 1 .. 2, RecvCopy(max_len) PROVE TcpInv'
<1> DEFINE c == CONNS[cur]
           count == IF Avail > max_len THEN max_len ELSE Avail
           bytes == [j \in 1 .. count |-> c.rx_buf[(snap[2] + j - 1) % TCP_RX_BUF_SIZE]]
<1>1. TcpType /\ ThreadInv /\ SlotInv
  BY Zenon DEF TcpInv
<1>2. /\ pc = "copy" /\ pc' = "tail" /\ length' = count /\ got' = got \o bytes
      /\ queue' = queue /\ peer' = peer
      /\ UNCHANGED <<CONNS, NEXT_LOCAL_PORT, SEG_BUF, op, cur, attempt, snap, app, sends>>
  BY Zenon DEF RecvCopy, Goto, Quiet, net
<1>3. /\ cur \in Slots /\ hold = cur /\ c \in Conn /\ op = "none" /\ app = cur
      /\ snap[2] = c.rx_tail /\ snap[2] \in Pos
      /\ Avail = Dist(snap[1], snap[2]) /\ Avail \in 1 .. Count(c)
      /\ Count(c) \in 0 .. TCP_RX_BUF_SIZE - 1
  BY Zenon, <1>2, SnapFacts
<1>4. count \in Nat /\ count \in 0 .. Count(c) /\ count <= Avail
  <2> HIDE DEF c
  <2> QED
    BY <1>3, TcpAssumption
<1>5. got' \in Seq(Byte)
  <2> HIDE DEF count
  <2>1. ASSUME NEW j \in 1 .. count
        PROVE  c.rx_buf[(snap[2] + j - 1) % TCP_RX_BUF_SIZE] \in Byte
    <3>1. j \in 1 .. TCP_RX_BUF_SIZE
      <4> HIDE DEF c
      <4> QED
        BY <1>3, <1>4, TcpAssumption
    <3>2. (snap[2] + j - 1) % TCP_RX_BUF_SIZE \in Pos
      BY ZenonT(60), <1>3, <3>1, SlotMod
    <3> QED
      BY ZenonT(60), <1>3, <3>2 DEF Conn
  <2>2. bytes \in [1 .. count -> Byte]
    BY ZenonT(60), <2>1
  <2> HIDE DEF bytes
  <2>3. bytes \in Seq(Byte)
    BY <1>4, <2>2, IsASeq
  <2> QED
    BY <1>1, <1>2, <2>3, ConcatProperties DEF TcpType
<1>6. TcpType'
  <2>1. pc' \in PC
    BY <1>2 DEF PC
  <2> HIDE DEF count, bytes, c
  <2> QED
    BY ZenonT(60), <1>1, <1>2, <1>4, <1>5, <2>1 DEF TcpType
<1>7. ThreadInv' /\ SlotInv' /\ SynInv' /\ hold' = hold /\ skip' = count /\ skip = 0
  <2> HIDE DEF count, bytes, c
  <2>1. ThreadInv'
    BY Zenon, <1>1, <1>2, <1>3 DEF ThreadInv, Doing
  <2>2. hold' = hold /\ skip' = count /\ skip = 0 /\ SynInv'
    BY ZenonT(60), <1>2, <1>3 DEF hold, skip, SynInv
  <2>3. pc \notin {"closing", "closed"}
    BY <1>2
  <2>4. SlotInv'
    BY ZenonT(60), <1>1, <1>2, <2>2, <2>3 DEF SlotInv
  <2> QED
    BY <2>1, <2>2, <2>4
<1>8. SnapInv'
  <2>1. /\ snap[1] # snap[2] /\ snap[2] = CONNS[cur].rx_tail
        /\ Dist(snap[1], snap[2]) <= Count(CONNS[cur])
    BY ZenonT(60), <1>2 DEF TcpInv, SnapInv
  <2>2. count <= Dist(snap[1], snap[2])
    BY <1>3, <1>4
  <2> HIDE DEF count, bytes, c
  <2> QED
    BY ZenonT(60), <1>2, <2>1, <2>2 DEF SnapInv
<1>9. QueueInv'
  BY ZenonT(60), <1>2, QueueKept
<1>10. StreamInv'
  <2> SUFFICES ASSUME c.in_use PROVE Fine(c, got', count, queue, peer)
    BY ZenonT(60), <1>2, <1>3, <1>7 DEF StreamInv
  <2>1. Fine(c, got, 0, queue, peer)
    BY ZenonT(60), <1>3, <1>7 DEF TcpInv, StreamInv
  <2>2. PICK m \in 0 .. peer[c.local_port].sent :
               InStream(c, got, 0, m) /\ Beyond(queue, c.local_port, m)
    BY ZenonT(60), <2>1 DEF Fine
  <2>3. got' = got \o [j \in 1 .. count |-> c.rx_buf[(c.rx_tail + j - 1) % TCP_RX_BUF_SIZE]]
    BY ZenonT(60), <1>2, <1>3
  <2>4. got \in Seq(Byte)
    BY <1>1 DEF TcpType
  <2> HIDE DEF count, bytes, c
  <2>5. InStream(c, got', count, m)
    BY ZenonT(60), <1>3, <1>4, <2>2, <2>3, <2>4, StreamCopied
  <2> QED
    BY ZenonT(60), <2>1, <2>2, <2>5 DEF Fine
<1> QED
  BY ZenonT(60), <1>6, <1>7, <1>8, <1>9, <1>10 DEF TcpInv

LEMMA TailInv == ASSUME TcpInv, RecvTail PROVE TcpInv'
<1> DEFINE c == CONNS[cur]
           d == [c EXCEPT !.rx_tail = (c.rx_tail + length) % TCP_RX_BUF_SIZE]
<1>1. TcpType /\ ThreadInv /\ SlotInv
  BY DEF TcpInv
<1>2. /\ pc = "tail" /\ Return /\ queue' = queue /\ peer' = peer /\ got' = got
      /\ UNCHANGED <<NEXT_LOCAL_PORT, SEG_BUF, app, sends>>
  BY Zenon DEF RecvTail, Quiet, net
<1>3. /\ cur \in Slots /\ hold = cur /\ c \in Conn /\ op = "none" /\ app = cur
      /\ snap[2] = c.rx_tail /\ snap[2] \in Pos
      /\ Avail = Dist(snap[1], snap[2]) /\ Avail \in 1 .. Count(c)
      /\ Count(c) \in 0 .. TCP_RX_BUF_SIZE - 1
  BY Zenon, <1>2, SnapFacts
<1>4. length \in 0 .. Count(c)
  <2>1. length \in Nat /\ length <= Avail
    BY ZenonT(60), <1>1, <1>2, <1>3 DEF TcpType, TcpInv, SnapInv
  <2> HIDE DEF c
  <2> QED
    BY <1>3, <2>1, TcpAssumption
<1>5. CONNS' = [CONNS EXCEPT ![cur] = d]
  BY <1>1, <1>3 DEF RecvTail, TcpType
<1>6. d \in Conn /\ d.in_use = c.in_use /\ d.state = c.state /\ d.local_port = c.local_port
  <2> HIDE DEF c
  <2>1. length \in 0 .. TCP_RX_BUF_SIZE - 1
    BY <1>3, <1>4, TcpAssumption
  <2>2. (c.rx_tail + length) % TCP_RX_BUF_SIZE \in Pos
    BY ZenonT(60), <1>3, <2>1, MoveMod
  <2> QED
    BY ZenonT(60), <1>3, <2>2 DEF Conn
<1> HIDE DEF d
<1>7. /\ CONNS' \in [Slots -> Conn] /\ CONNS'[cur] = d
      /\ \A r \in Slots : r # cur => CONNS'[r] = CONNS[r]
  BY ZenonT(60), <1>1, <1>3, <1>5, <1>6 DEF TcpType
<1>8. TcpType'
  BY ZenonT(60), <1>1, <1>2, <1>7, ReturnTyped DEF TcpType
<1>9. ThreadInv' /\ hold' = cur
  BY ZenonT(60), <1>2, <1>3, ReturnTyped DEF ThreadInv
<1>10. SlotInv'
  <2>1. pc \notin {"closing", "closed"}
    BY <1>2
  <2> QED
    BY ZenonT(60), <1>1, <1>3, <1>6, <1>7, <1>9, <2>1 DEF SlotInv
<1>11. QueueInv'
  BY ZenonT(60), <1>2, QueueKept
<1>12. StreamInv'
  <2> SUFFICES ASSUME c.in_use PROVE Fine(d, got, 0, queue, peer)
    BY ZenonT(60), <1>2, <1>6, <1>7, <1>9, ReturnTyped DEF StreamInv
  <2>1. Fine(c, got, length, queue, peer)
    BY Zenon, <1>2, <1>3 DEF TcpInv, StreamInv, skip
  <2>2. PICK m \in 0 .. peer[c.local_port].sent :
               InStream(c, got, length, m) /\ Beyond(queue, c.local_port, m)
    BY Zenon, <2>1 DEF Fine
  <2>3. got \in Seq(Byte)
    BY <1>1 DEF TcpType
  <2> HIDE DEF c
  <2>4. InStream(d, got, 0, m)
    BY ZenonT(60), <1>3, <1>4, <2>2, <2>3, StreamReleased DEF d
  <2> QED
    BY ZenonT(60), <1>6, <2>1, <2>2, <2>4 DEF Fine
<1> QED
  BY ZenonT(60), <1>2, <1>8, <1>9, <1>10, <1>11, <1>12, ReturnTyped DEF TcpInv

LEMMA StepInv == ASSUME TcpInv, [Next]_vars PROVE TcpInv'
<1>1. CASE Peer
  BY <1>1, PeerInv
<1>2. CASE rx
  BY <1>2, RxInv
<1>3. CASE Step
  <2>1. CASE SegPorts \/ SegRest \/ SegXmit
    BY <2>1, SegmentInv
  <2>2. CASE Connected \/ RecvTimeout \/ RecvSnapshot \/ CloseWaited
    BY <2>2, QuietInv
  <2>3. CASE ConnectTimeout
    BY <2>3, QuietInv, ReleaseInv
  <2>4. CASE SendDone \/ FinSent
    BY <2>4, SequenceInv
  <2>5. CASE \E m \in 1 .. 2 : RecvCopy(m)
    BY <2>5, CopyInv
  <2>6. CASE RecvTail
    BY <2>6, TailInv
  <2>7. CASE CloseDone
    BY <2>7, ReleaseInv
  <2> QED
    BY Zenon, <1>3, <2>1, <2>2, <2>3, <2>4, <2>5, <2>6, <2>7 DEF Step
<1>4. CASE Call
  <2>1. CASE Connect
    BY <2>1, ConnectInv
  <2>2. CASE (\E n \in 1 .. MaxSegment : Send(n)) \/ Recv
    BY <2>2, QuietInv
  <2>3. CASE Close
    BY <2>3, QuietInv, ReleaseInv
  <2> QED
    BY Zenon, <1>4, <2>1, <2>2, <2>3 DEF Call
<1>5. CASE UNCHANGED vars
  <2>1. UNCHANGED <<CONNS, NEXT_LOCAL_PORT, SEG_BUF, pc, op, cur, attempt, length, snap, app,
                    sends, queue, peer, got>>
    BY <1>5 DEF vars, thread, net
  <2>2. TcpType' /\ ThreadInv' /\ SlotInv' /\ SynInv' /\ SnapInv'
    BY ZenonT(60), <2>1 DEF TcpInv, TcpType, ThreadInv, SlotInv, SynInv, SnapInv, hold
  <2>3. QueueInv' /\ StreamInv'
    BY ZenonT(60), <2>1 DEF TcpInv, QueueInv, StreamInv, hold, skip
  <2> QED
    BY Zenon, <2>2, <2>3 DEF TcpInv
<1> QED
  BY <1>1, <1>2, <1>3, <1>4, <1>5 DEF Next

-----------------------------------------------------------------------------
(* The properties.                                                         *)

\* The inductive invariant holds in every state of src/tcp.rs's client.
THEOREM TcpInvariance == Spec => []TcpInv
<1> QED
  BY InitTcp, StepInv, PTL DEF Spec

\* Resets, timeouts and late answers leak no slot of CONNS: one that nobody
\* holds is free and closed, for every TCP_MAX_CONNS.
THEOREM SlotsAlwaysReleased == Spec => []SlotsReleased
<1>1. TcpInv => SlotsReleased
  BY ZenonT(60) DEF TcpInv, SlotInv, hold, SlotsReleased
<1> QED
  BY <1>1, TcpInvariance, PTL

\* connect hands the shell no connection that rx has already reset.
THEOREM ConnectsAlwaysLive == Spec => ConnectsLive
<1> DEFINE Live == app = NoSlot /\ app' # NoSlot =>
                     CONNS[app'].in_use /\ CONNS[app'].state \in {"ESTABLISHED", "TIME_WAIT"}
<1>1. ASSUME TcpInv, [Next]_vars PROVE Live \/ UNCHANGED vars
  <2> SUFFICES ASSUME app = NoSlot, app' # NoSlot, Next
               PROVE  CONNS[app'].in_use /\ CONNS[app'].state \in {"ESTABLISHED", "TIME_WAIT"}
    BY <1>1
  <2>1. Connected
    <3>1. ~Peer /\ ~rx
      <4>1. ASSUME NEW p, NEW f, NEW b, NEW pr, Answer(p, f, b, pr) PROVE app' = app
        BY <4>1 DEF Answer, thread
      <4>2. ASSUME Peer PROVE app' = app
        BY ZenonT(60), <4>1, <4>2 DEF Peer, PeerSynAck, PeerRst, PeerAck, PeerSends
      <4>3. ASSUME rx PROVE app' = app
        BY ZenonT(60), <4>3 DEF rx, Interrupted, thread
      <4> QED
        BY <4>2, <4>3
    <3>2. ~Call
      BY DEF Call, Connect, Send, Recv, Close
    <3> QED
      BY ZenonT(60), <3>1, <3>2 DEF Next, Step, SegPorts, SegRest, SegXmit, ConnectTimeout, SendDone,
         RecvTimeout, RecvSnapshot, RecvCopy, RecvTail, FinSent, CloseWaited, CloseDone
  <2>2. pc = "connecting" /\ CONNS[cur].connected /\ app' = cur
    BY <2>1 DEF Connected
  <2>3. op = "syn"
    BY <1>1, <2>2 DEF TcpInv, ThreadInv, Doing, TcpType
  <2> QED
    BY Zenon, <1>1, <2>2, <2>3 DEF TcpInv, SynInv
<1> HIDE DEF Live
<1>2. ASSUME TcpInv, [Next]_vars PROVE [Live]_vars
  BY ZenonT(60), <1>1, <1>2
<1>3. Spec => [][Live]_vars
  BY <1>2, TcpInvariance, PTL DEF Spec
<1> QED
  BY <1>3 DEF ConnectsLive, Live

\* recv delivers bytes of its own connection in the order the peer sent them, whatever
\* rx stores or drops while it copies, for every ring, window and segment size.
THEOREM AlwaysInOrder == Spec => []InOrder
<1>1. ASSUME TcpInv PROVE InOrder
  <2> SUFFICES ASSUME NEW s \in Slots, CONNS[s].in_use, pc # "tail"
               PROVE  LET p == CONNS[s].local_port
                          bytes == got \o Buffered(CONNS[s])
                      IN /\ \A j \in 1 .. Len(bytes) : bytes[j].port = p
                         /\ \A j \in 2 .. Len(bytes) : bytes[j - 1].i < bytes[j].i
    BY Zenon DEF InOrder
  <2> DEFINE c == CONNS[s]
             bytes == got \o Buffered(c)
  <2>1. c \in Conn /\ got \in Seq(Byte) /\ s = hold
    BY ZenonT(60), <1>1 DEF TcpInv, TcpType, SlotInv
  <2>2. Fine(c, got, 0, queue, peer)
    BY Zenon, <1>1, <2>1 DEF TcpInv, StreamInv, skip
  <2> HIDE DEF c
  <2>3. PICK m : InStream(c, got, 0, m)
    BY <2>2 DEF Fine
  <2>4. c.rx_head \in Pos /\ c.rx_tail \in Pos /\ c.rx_buf \in [Pos -> Byte]
    BY ZenonT(60), <2>1 DEF Conn
  <2>5. Count(c) \in 0 .. TCP_RX_BUF_SIZE - 1 /\ Count(c) \in Nat /\ Len(got) \in Nat
    BY <2>1, RoomValue, TcpAssumption, LenProperties
  <2>6. ASSUME NEW j \in 1 .. Count(c)
        PROVE  /\ (c.rx_tail + j - 1) % TCP_RX_BUF_SIZE = SlotAt(c.rx_tail, j)
               /\ c.rx_buf[SlotAt(c.rx_tail, j)] \in Byte
    <3>1. j \in 1 .. TCP_RX_BUF_SIZE
      BY <2>5, TcpAssumption
    <3> QED
      BY ZenonT(60), <2>4, <3>1, SlotMod
  <2>7. /\ Buffered(c) = [j \in 1 .. Count(c) |-> c.rx_buf[SlotAt(c.rx_tail, j)]]
    <3>1. (c.rx_head - c.rx_tail) % TCP_RX_BUF_SIZE = Count(c)
      BY ZenonT(60), <2>4, DistMod DEF Count
    <3> QED
      BY ZenonT(60), <2>6, <3>1 DEF Buffered
  <2>8. Buffered(c) \in Seq(Byte) /\ Len(Buffered(c)) = Count(c)
    <3>1. Buffered(c) \in [1 .. Count(c) -> Byte]
      BY ZenonT(60), <2>6, <2>7
    <3> QED
      BY <2>5, <3>1, IsASeq, LenProperties
  <2>9. Len(bytes) = Total(c, got, 0) /\ Total(c, got, 0) = Len(got) + Count(c)
    <3>1. Len(bytes) = Len(got) + Len(Buffered(c))
      BY ZenonT(60), <2>1, <2>8, ConcatProperties
    <3> HIDE DEF bytes
    <3> QED
      BY <2>5, <2>8, <3>1 DEF Total
  <2>10. ASSUME NEW j \in 1 .. Total(c, got, 0) PROVE bytes[j] = Stream(c, got, 0, j)
    <3>1. CASE j <= Len(got)
      BY ZenonT(60), <2>1, <2>5, <2>8, <2>9, <3>1, ConcatProperties DEF Stream
    <3>2. CASE ~(j <= Len(got))
      <4>1. j - Len(got) \in 1 .. Count(c) /\ 0 + j - Len(got) = j - Len(got) /\ j \in Int
        BY <2>5, <2>9, <3>2
      <4>2. bytes[j] = Buffered(c)[j - Len(got)]
        BY <2>1, <2>5, <2>8, <2>9, <3>2, <4>1, ConcatProperties
      <4> QED
        BY ZenonT(60), <2>7, <3>2, <4>1, <4>2 DEF Stream
    <3> QED
      BY ZenonT(60), <3>1, <3>2
  <2> HIDE DEF bytes
  <2>11. \A j \in 1 .. Len(bytes) : bytes[j].port = c.local_port
    BY Zenon, <2>3, <2>9, <2>10 DEF InStream
  <2>12. ASSUME NEW j \in 2 .. Len(bytes) PROVE bytes[j - 1].i < bytes[j].i
    <3>1. j - 1 \in 1 .. Total(c, got, 0) /\ j \in 1 .. Total(c, got, 0) /\ j - 1 < j
      BY <2>5, <2>9
    <3> QED
      BY ZenonT(60), <2>3, <2>10, <3>1 DEF InStream
  <2> QED
    BY Zenon, <2>11, <2>12 DEF c, bytes
<1> QED
  BY <1>1, TcpInvariance, PTL
=============================================================================
