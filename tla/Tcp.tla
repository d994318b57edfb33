-------------------------------- MODULE Tcp --------------------------------
(***************************************************************************)
(* The TCP client (src/tcp.rs).  connect, send, recv and close run in the  *)
(* shell's thread with interrupts enabled; rx runs in the network card's   *)
(* interrupt handler, between any two of their steps, and shares CONNS and *)
(* the static SEG_BUF with them.  Time is abstracted: a wait of 2 seconds  *)
(* may end at any moment.                                                  *)
(*                                                                         *)
(* The peer is external: a TCP server behind QEMU's reliable network.  It  *)
(* receives a segment as soon as it is sent and answers when it likes; its *)
(* answers arrive in order.                                                *)
(***************************************************************************)
EXTENDS Integers, Sequences, FiniteSets

CONSTANTS
  TCP_MAX_CONNS,
  TCP_RX_BUF_SIZE,
  TCP_WINDOW,
  SEQ,           \* sequence numbers are modulo this (2^32)
  ISS, IRS,      \* initial sequence numbers, ours and the peer's
  Attempts,      \* SYNs connect sends (3)
  FirstPort, LastPort,  \* bound: connects of a behaviour
  StreamLen,     \* bound: bytes the peer sends on a connection
  MaxSegment,    \* bound: bytes of one segment
  MaxSends,      \* bound: calls of send on a connection
  MaxQueue       \* bound: answers of the peer on their way

ASSUME TcpAssumption ==
  /\ TCP_MAX_CONNS \in Nat \ {0} /\ TCP_RX_BUF_SIZE \in Nat \ {0, 1}
  /\ SEQ \in Nat \ {0} /\ ISS \in 0 .. SEQ - 1 /\ IRS \in 0 .. SEQ - 1
  /\ Attempts \in Nat \ {0} /\ FirstPort \in Nat \ {0} /\ LastPort \in Nat
  /\ StreamLen \in Nat /\ MaxSegment \in Nat

Slots == 0 .. TCP_MAX_CONNS - 1
Ports == FirstPort .. LastPort
NoSlot == -1
NoPort == 0
NoByte == [port |-> NoPort, i |-> 0]
Bytes == [port : Ports, i : 1 .. StreamLen]

\* Segments: len is the length of the payload, data the peer's bytes.
Seg(port, flags, seq, ack, data, len) ==
  [port |-> port, flags |-> flags, seq |-> seq % SEQ, ack |-> ack % SEQ,
   data |-> data, len |-> len]

VARIABLES
  CONNS,
  NEXT_LOCAL_PORT,
  SEG_BUF,       \* the segment being built
  pc, op,        \* where the thread is, and what it sends: "syn", "data", "fin"
  cur,           \* the slot it works on
  attempt, length,
  snap,          \* recv's copy of head and tail
  app,           \* the connection the shell holds, or NoSlot
  sends,         \* calls of send on it
  queue,         \* the peer's segments on their way
  peer,          \* the peer's end, by our port
  got            \* history: the bytes recv has returned since connect

net == <<queue, peer>>
thread == <<pc, op, cur, attempt, length, snap, app, sends>>
vars == <<CONNS, NEXT_LOCAL_PORT, SEG_BUF, thread, net, got>>

NewConn ==
  [in_use |-> FALSE, state |-> "CLOSED", local_port |-> NoPort, send_seq |-> 0,
   send_ack |-> 0, rx_buf |-> [k \in 0 .. TCP_RX_BUF_SIZE - 1 |-> NoByte],
   rx_head |-> 0, rx_tail |-> 0, fin_received |-> FALSE, connected |-> FALSE]

Init ==
  /\ CONNS = [s \in Slots |-> NewConn]
  /\ NEXT_LOCAL_PORT = FirstPort
  /\ SEG_BUF = Seg(NoPort, {}, 0, 0, << >>, 0)
  /\ pc = "idle" /\ op = "none" /\ cur = NoSlot /\ attempt = 0 /\ length = 0
  /\ snap = <<0, 0>> /\ app = NoSlot /\ sends = 0
  /\ queue = << >>
  /\ peer = [p \in Ports |-> [state |-> "listen", nxt |-> 0, sent |-> 0, owes |-> "none"]]
  /\ got = << >>

-----------------------------------------------------------------------------
(* The peer.                                                               *)

\* The peer's end pr after segment s of ours; ok says its checksum is right.
PeerGets(pr, s, ok) ==
  CASE ~ok -> pr
    [] ok /\ "RST" \in s.flags -> [pr EXCEPT !.state = "closed", !.owes = "none"]
    [] ok /\ s.flags = {"SYN"} /\ pr.state \in {"listen", "syn_rcvd"} ->
         [pr EXCEPT !.state = "syn_rcvd", !.nxt = (IRS + 1) % SEQ, !.owes = "synack"]
    [] ok /\ "ACK" \in s.flags /\ pr.state = "syn_rcvd" /\ s.ack = (IRS + 1) % SEQ ->
         [pr EXCEPT !.state = "established", !.owes = "none"]
    [] ok /\ pr.state = "established" /\ (s.len > 0 \/ "FIN" \in s.flags) ->
         [pr EXCEPT !.owes = "ack"]
    [] OTHER -> pr

ToPeer(s, ok) ==
  peer' = [p \in Ports |-> IF p = s.port THEN PeerGets(peer[p], s, ok) ELSE peer[p]]

Answer(p, flags, data, pr) ==
  /\ Len(queue) < MaxQueue
  /\ queue' = Append(queue, Seg(p, flags, IF "SYN" \in flags THEN IRS ELSE peer[p].nxt,
                                ISS + 1, data, Len(data)))
  /\ peer' = [peer EXCEPT ![p] = pr]
  /\ UNCHANGED <<CONNS, NEXT_LOCAL_PORT, SEG_BUF, thread, got>>

PeerSynAck(p) ==
  /\ peer[p].owes = "synack"
  /\ Answer(p, {"SYN", "ACK"}, << >>, [peer[p] EXCEPT !.owes = "none"])

\* Refuses, or aborts.
PeerRst(p) ==
  /\ peer[p].state \in {"syn_rcvd", "established"}
  /\ Answer(p, {"RST", "ACK"}, << >>, [peer[p] EXCEPT !.state = "closed", !.owes = "none"])

\* The bytes of port p on their way: x[2] counts through those of segment x[1].
InFlight(p) == Cardinality({x \in (1 .. Len(queue)) \X (1 .. MaxSegment) :
                              queue[x[1]].port = p /\ x[2] <= Len(queue[x[1]].data)})

\* Data within the advertised window, the FIN with the last of it or by itself.
PeerSends(p, n, fin) ==
  /\ peer[p].state = "established" /\ (n > 0 \/ fin)
  /\ peer[p].sent + n <= StreamLen /\ InFlight(p) + n <= TCP_WINDOW
  /\ Answer(p, {"ACK"} \cup (IF fin THEN {"FIN"} ELSE {}),
            [k \in 1 .. n |-> [port |-> p, i |-> peer[p].sent + k]],
            [peer[p] EXCEPT !.nxt = (@ + n + (IF fin THEN 1 ELSE 0)) % SEQ,
                            !.sent = @ + n, !.owes = "none", !.state = IF fin THEN "finished" ELSE @])

\* An acknowledgement of our data or our FIN.
PeerAck(p) ==
  peer[p].owes = "ack" /\ Answer(p, {"ACK"}, << >>, [peer[p] EXCEPT !.owes = "none"])

Peer == \E p \in Ports :
  \/ PeerSynAck(p) \/ PeerRst(p) \/ PeerAck(p)
  \/ \E n \in 0 .. MaxSegment, fin \in BOOLEAN : PeerSends(p, n, fin)

-----------------------------------------------------------------------------
(* rx, in the interrupt handler.                                           *)

\* The bytes there is room for: one slot of the ring stays empty.
Room(c) == (c.rx_tail - c.rx_head - 1) % TCP_RX_BUF_SIZE

\* The connection after its ring has taken data, or the part of it there is
\* room for: data[1] goes to the slot at rx_head, data[2] to the next one.
Store(c, data) ==
  LET n == IF Len(data) > Room(c) THEN Room(c) ELSE Len(data)
      Nth(k) == 1 + ((k - c.rx_head) % TCP_RX_BUF_SIZE)
  IN [c EXCEPT !.rx_buf = [k \in 0 .. TCP_RX_BUF_SIZE - 1 |->
                             IF Nth(k) <= n THEN data[Nth(k)] ELSE c.rx_buf[k]],
               !.rx_head = (c.rx_head + n) % TCP_RX_BUF_SIZE]

\* What is acknowledged: all of the payload, stored or not, and the FIN.
NextExpected(s) == (s.seq + s.len + (IF "FIN" \in s.flags THEN 1 ELSE 0)) % SEQ

\* Mutant: a reset connection still counts as connected.
ResetConnected(c) == [c EXCEPT !.state = "CLOSED", !.in_use = FALSE, !.fin_received = TRUE]

Reset(c) == [c EXCEPT !.state = "CLOSED", !.in_use = FALSE, !.connected = FALSE,
                      !.fin_received = TRUE]

\* The connection c after segment s; a reply is sent iff Replies(c, s).
Received(c, s) ==
  CASE "RST" \in s.flags -> Reset(c)
    [] "RST" \notin s.flags /\ c.state = "SYN_SENT" ->
         IF {"SYN", "ACK"} \subseteq s.flags /\ s.ack = (c.send_seq + 1) % SEQ
         THEN [c EXCEPT !.send_seq = s.ack, !.send_ack = (s.seq + 1) % SEQ,
                        !.state = "ESTABLISHED", !.connected = TRUE]
         ELSE c
    [] "RST" \notin s.flags /\ c.state = "ESTABLISHED" /\ (s.len > 0 \/ "FIN" \in s.flags) ->
         LET d == [Store(c, s.data) EXCEPT !.send_ack = NextExpected(s)] IN
         IF "FIN" \in s.flags
         THEN [d EXCEPT !.fin_received = TRUE, !.state = "TIME_WAIT"] ELSE d
    [] "RST" \notin s.flags /\ c.state = "FIN_WAIT_1" /\ "ACK" \in s.flags ->
         IF "FIN" \in s.flags
         THEN [c EXCEPT !.send_ack = (s.seq + 1) % SEQ, !.state = "TIME_WAIT"]
         ELSE [c EXCEPT !.state = "FIN_WAIT_2"]
    [] "RST" \notin s.flags /\ c.state = "FIN_WAIT_2" /\ "FIN" \in s.flags ->
         [c EXCEPT !.send_ack = (s.seq + 1) % SEQ, !.state = "TIME_WAIT",
                   !.fin_received = TRUE]
    [] OTHER -> c

Replies(c, s) ==
  /\ "RST" \notin s.flags
  /\ \/ c.state = "SYN_SENT" /\ Received(c, s) # c
     \/ c.state = "ESTABLISHED" /\ (s.len > 0 \/ "FIN" \in s.flags)
     \/ c.state = "FIN_WAIT_1" /\ {"ACK", "FIN"} \subseteq s.flags
     \/ c.state = "FIN_WAIT_2" /\ "FIN" \in s.flags

\* Mutant: the local port is not compared.
tcp_find_conn_any(port) ==
  LET match == {s \in Slots : CONNS[s].in_use}
  IN IF match = {} THEN NoSlot ELSE CHOOSE s \in match : \A t \in match : s <= t

\* tcp_find_conn: the slot of a segment, or NoSlot.
tcp_find_conn(port) ==
  LET match == {s \in Slots : CONNS[s].in_use /\ CONNS[s].local_port = port}
  IN IF match = {} THEN NoSlot ELSE CHOOSE s \in match : \A t \in match : s <= t

Interrupted == UNCHANGED <<NEXT_LOCAL_PORT, thread, got>>

rx ==
  LET s == Head(queue)
      slot == tcp_find_conn(s.port)
      d == Received(CONNS[slot], s)
      ack == Seg(s.port, {"ACK"}, d.send_seq, d.send_ack, << >>, 0)
      rst == Seg(s.port, {"RST"}, s.ack, 0, << >>, 0)
  IN
  /\ queue # << >> /\ queue' = Tail(queue)
  /\ IF slot = NoSlot
     THEN /\ UNCHANGED CONNS
          /\ IF "RST" \in s.flags THEN UNCHANGED <<SEG_BUF, peer>>
             ELSE SEG_BUF' = rst /\ ToPeer(rst, TRUE)
     ELSE /\ CONNS' = [CONNS EXCEPT ![slot] = d]
          /\ IF Replies(CONNS[slot], s) THEN SEG_BUF' = ack /\ ToPeer(ack, TRUE)
             ELSE UNCHANGED <<SEG_BUF, peer>>
  /\ Interrupted
-----------------------------------------------------------------------------
(* tcp_send_segment in the thread: SEG_BUF is filled, ports first, and then *)
(* handed to ipv4::send; an interrupt in between may fill it as well.      *)

Goto(l) == pc' = l
Quiet == UNCHANGED net

\* Back to the shell; the locals of the call are gone.
Return ==
  pc' = "idle" /\ op' = "none" /\ cur' = NoSlot /\ attempt' = 0 /\ length' = 0 /\ snap' = <<0, 0>>

Flags == CASE op = "syn" -> {"SYN"} [] op = "data" -> {"ACK", "PSH"} [] OTHER -> {"FIN", "ACK"}

SegPorts ==
  /\ pc = "ports" /\ Goto("rest")
  /\ SEG_BUF' = [SEG_BUF EXCEPT !.port = CONNS[cur].local_port]
  /\ Quiet /\ UNCHANGED <<CONNS, NEXT_LOCAL_PORT, op, cur, attempt, length, snap, app, sends, got>>

SegRest ==
  /\ pc = "rest" /\ Goto("xmit")
  /\ SEG_BUF' = Seg(SEG_BUF.port, Flags, CONNS[cur].send_seq, CONNS[cur].send_ack, << >>, length)
  /\ Quiet /\ UNCHANGED <<CONNS, NEXT_LOCAL_PORT, op, cur, attempt, length, snap, app, sends, got>>

\* The header's checksum covers SEG_BUF.len bytes of payload, but length are sent.
SegXmit ==
  /\ pc = "xmit" /\ Goto(CASE op = "syn" -> "connecting" [] op = "data" -> "sent" [] OTHER -> "finished")
  /\ ToPeer(SEG_BUF, SEG_BUF.len = length)
  /\ UNCHANGED <<CONNS, NEXT_LOCAL_PORT, SEG_BUF, op, cur, attempt, length, snap, app, sends, queue, got>>

-----------------------------------------------------------------------------
(* connect.                                                                *)

\* tcp_alloc_conn and the initialisation of the slot.
Connect ==
  /\ pc = "idle" /\ app = NoSlot /\ NEXT_LOCAL_PORT \in Ports
  /\ \E s \in Slots :
       /\ ~CONNS[s].in_use /\ \A t \in Slots : t < s => CONNS[t].in_use
       /\ CONNS' = [CONNS EXCEPT ![s] =
            [NewConn EXCEPT !.in_use = TRUE, !.state = "SYN_SENT", !.send_seq = ISS,
                            !.local_port = NEXT_LOCAL_PORT]]
       /\ cur' = s
  /\ NEXT_LOCAL_PORT' = NEXT_LOCAL_PORT + 1
  /\ Goto("ports") /\ op' = "syn" /\ attempt' = 1 /\ got' = << >>
  /\ Quiet /\ UNCHANGED <<SEG_BUF, length, snap, app, sends>>

Connected ==
  /\ pc = "connecting" /\ CONNS[cur].connected
  /\ app' = cur /\ sends' = 0 /\ Return
  /\ Quiet /\ UNCHANGED <<CONNS, NEXT_LOCAL_PORT, SEG_BUF, got>>

\* Mutant: the slot of a connection that failed is kept.
ReleaseNot(s) == CONNS' = [CONNS EXCEPT ![s].state = "CLOSED"]

Release(s) == CONNS' = [CONNS EXCEPT ![s].in_use = FALSE, ![s].state = "CLOSED"]

\* 2 seconds are over; the loop ends before it looks at connected again.
ConnectTimeout ==
  /\ pc = "connecting"
  /\ IF attempt < Attempts
     THEN Goto("ports") /\ attempt' = attempt + 1 /\ UNCHANGED <<CONNS, op, cur, length, snap>>
     ELSE Release(cur) /\ Return
  /\ Quiet /\ UNCHANGED <<NEXT_LOCAL_PORT, SEG_BUF, app, sends, got>>

-----------------------------------------------------------------------------
(* send.                                                                   *)

Send(n) ==
  /\ pc = "idle" /\ app # NoSlot /\ sends < MaxSends
  /\ CONNS[app].in_use /\ CONNS[app].state = "ESTABLISHED"
  /\ cur' = app /\ op' = "data" /\ length' = n /\ Goto("ports") /\ sends' = sends + 1
  /\ Quiet /\ UNCHANGED <<CONNS, NEXT_LOCAL_PORT, SEG_BUF, attempt, snap, app, got>>

SendDone ==
  /\ pc = "sent" /\ Return
  /\ CONNS' = [CONNS EXCEPT ![cur].send_seq = (@ + length) % SEQ]
  /\ Quiet /\ UNCHANGED <<NEXT_LOCAL_PORT, SEG_BUF, app, sends, got>>

-----------------------------------------------------------------------------
(* recv.                                                                   *)

Recv ==
  /\ pc = "idle" /\ app # NoSlot /\ CONNS[app].in_use
  /\ cur' = app /\ Goto("receiving")
  /\ Quiet /\ UNCHANGED <<CONNS, NEXT_LOCAL_PORT, SEG_BUF, op, attempt, length, snap, app, sends, got>>

Waiting(c) == c.rx_head = c.rx_tail /\ ~c.fin_received

\* Mutant: a recv that has begun to wait does not look at the clock.
MayTimeOutNever(c) == FALSE

MayTimeOut(c) == Waiting(c)

RecvTimeout ==
  /\ pc = "receiving" /\ MayTimeOut(CONNS[cur]) /\ Return
  /\ Quiet /\ UNCHANGED <<CONNS, NEXT_LOCAL_PORT, SEG_BUF, app, sends, got>>

RecvSnapshot ==
  LET c == CONNS[cur] IN
  /\ pc = "receiving" /\ ~Waiting(c)
  /\ IF c.rx_head = c.rx_tail THEN Return
     ELSE /\ snap' = <<c.rx_head, c.rx_tail>> /\ Goto("copy")
          /\ UNCHANGED <<op, cur, attempt, length>>
  /\ Quiet /\ UNCHANGED <<CONNS, NEXT_LOCAL_PORT, SEG_BUF, app, sends, got>>

\* avail, from the snapshot.
Avail == IF snap[1] > snap[2] THEN snap[1] - snap[2] ELSE TCP_RX_BUF_SIZE - snap[2] + snap[1]

RecvCopy(max_len) ==
  LET count == IF Avail > max_len THEN max_len ELSE Avail IN
  /\ pc = "copy" /\ Goto("tail") /\ length' = count
  /\ got' = got \o
       [j \in 1 .. count |-> CONNS[cur].rx_buf[(snap[2] + j - 1) % TCP_RX_BUF_SIZE]]
  /\ Quiet /\ UNCHANGED <<CONNS, NEXT_LOCAL_PORT, SEG_BUF, op, cur, attempt, snap, app, sends>>

RecvTail ==
  /\ pc = "tail" /\ Return
  /\ CONNS' = [CONNS EXCEPT ![cur].rx_tail = (snap[2] + length) % TCP_RX_BUF_SIZE]
  /\ Quiet /\ UNCHANGED <<NEXT_LOCAL_PORT, SEG_BUF, app, sends, got>>

-----------------------------------------------------------------------------
(* close.                                                                  *)

Close ==
  /\ pc = "idle" /\ app # NoSlot
  /\ IF CONNS[app].in_use
     THEN /\ cur' = app /\ op' = "fin" /\ UNCHANGED app
          /\ Goto(IF CONNS[app].state \in {"ESTABLISHED", "SYN_SENT"} THEN "ports" ELSE "closed")
     ELSE app' = NoSlot /\ UNCHANGED <<pc, op, cur>>
  /\ Quiet /\ UNCHANGED <<CONNS, NEXT_LOCAL_PORT, SEG_BUF, attempt, length, snap, sends, got>>

FinSent ==
  /\ pc = "finished" /\ Goto("closing")
  /\ CONNS' = [CONNS EXCEPT ![cur].send_seq = (@ + 1) % SEQ, ![cur].state = "FIN_WAIT_1"]
  /\ Quiet /\ UNCHANGED <<NEXT_LOCAL_PORT, SEG_BUF, op, cur, attempt, length, snap, app, sends, got>>

\* The peer has closed, or 2 seconds are over.
CloseWaited ==
  /\ pc = "closing" /\ Goto("closed")
  /\ Quiet /\ UNCHANGED <<CONNS, NEXT_LOCAL_PORT, SEG_BUF, op, cur, attempt, length, snap, app, sends, got>>

CloseDone ==
  /\ pc = "closed" /\ Return
  /\ Release(cur) /\ app' = NoSlot
  /\ Quiet /\ UNCHANGED <<NEXT_LOCAL_PORT, SEG_BUF, sends, got>>

Step ==
  \/ SegPorts \/ SegRest \/ SegXmit \/ Connected \/ ConnectTimeout \/ SendDone
  \/ RecvTimeout \/ RecvSnapshot \/ (\E m \in 1 .. 2 : RecvCopy(m)) \/ RecvTail
  \/ FinSent \/ CloseWaited \/ CloseDone

Call == Connect \/ (\E n \in 1 .. MaxSegment : Send(n)) \/ Recv \/ Close

Next == Peer \/ rx \/ Step \/ Call

Spec == Init /\ [][Next]_vars

\* The thread runs again and again, and the timer ticks, so every wait ends.
FairSpec == Spec /\ WF_vars(Step)

-----------------------------------------------------------------------------

\* The bytes waiting in the ring of connection c, oldest first.
Buffered(c) ==
  [j \in 1 .. (c.rx_head - c.rx_tail) % TCP_RX_BUF_SIZE |->
     c.rx_buf[(c.rx_tail + j - 1) % TCP_RX_BUF_SIZE]]

\* What recv has returned and what it will return next are bytes the peer sent on
\* this very connection, in the order it sent them and none twice, although rx
\* writes the ring while recv reads it, drops what finds the ring full, and late
\* segments of an earlier connection arrive in a reused slot.
InOrder ==
  \A s \in Slots : (CONNS[s].in_use /\ pc # "tail") =>
    LET p == CONNS[s].local_port
        bytes == got \o Buffered(CONNS[s])
    IN /\ \A j \in 1 .. Len(bytes) : bytes[j].port = p
       /\ \A j \in 2 .. Len(bytes) : bytes[j - 1].i < bytes[j].i

\* connect never reports a connection that a reset has already torn down.
ConnectsLive ==
  [][app = NoSlot /\ app' # NoSlot =>
       CONNS[app'].in_use /\ CONNS[app'].state \in {"ESTABLISHED", "TIME_WAIT"}]_vars

\* Whatever resets, timeouts and late answers happen, a slot nobody holds is free
\* and closed: failed connects and closes leak none.
SlotsReleased ==
  pc = "idle" => \A s \in Slots : s # app => ~CONNS[s].in_use /\ CONNS[s].state = "CLOSED"

\* connect, send, recv and close all return.
CallsReturn == (pc # "idle") ~> (pc = "idle")
=============================================================================
