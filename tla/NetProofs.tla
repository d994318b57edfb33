----------------------------- MODULE NetProofs -----------------------------
(***************************************************************************)
(* What holds of the network stack for any number of stations, sizes of    *)
(* the card's buffers and of the ARP table, retries and timeouts.          *)
(***************************************************************************)
EXTENDS Net, FiniteSetTheorems, TLAPS

\* A leaf is given to the SMT solver and then to Zenon, a minute each.
USE SMTT(60), ZenonT(60)

-----------------------------------------------------------------------------
(* The receive buffer.                                                     *)

\* While the handler is about to acknowledge, what is in the buffer came after
\* its last look.
RingInv ==
  /\ RingWatched
  /\ irq = "ack" /\ rx_ring # <<>> => raced

ring == <<rx_ring, isr, irq, raced>>

LEMMA RingStep == RingInv /\ [Next]_vars => RingInv'
<1> SUFFICES ASSUME RingInv, [Next]_vars PROVE RingInv'
  OBVIOUS
<1> USE DEF RingInv, RingWatched
<1>1. CASE UNCHANGED ring
  BY <1>1 DEF ring
<1>2. CASE Interrupt
  BY <1>2 DEF Interrupt, Enter
<1>3. CASE Rx
  <2>1. irq' = NextAfter(Tail(rx_ring)) \/ irq' = "stuck"
    BY <1>3, Zenon DEF Rx, net_rx, arp_rx, ipv4_rx, icmp_rx_request, icmp_rx_reply, udp_rx, dns_rx
  <2>2. rx_ring' = Tail(rx_ring)
    BY <1>3 DEF Rx
  <2> QED
    BY <2>1, <2>2 DEF NextAfter
<1>4. CASE Acknowledge
  BY <1>4, Zenon DEF Acknowledge, Ack
<1>5. ASSUME NEW h \in Hosts, Arrives(h) PROVE RingInv'
  <2>1. CASE UNCHANGED nic
    BY <2>1 DEF nic
  <2>2. CASE FrameStored(Head(out[h]))
    BY <2>2, Zenon DEF FrameStored
  <2> QED
    BY <1>5, <2>1, <2>2, Zenon DEF Arrives
<1>6. CASE CardSends
  BY <1>6 DEF CardSends
<1>7. ASSUME NEW h \in Hosts, HostAsks(h) PROVE UNCHANGED ring
  BY <1>7, Zenon DEF HostAsks, nic, ring
<1>8. ASSUME NEW ip \in Callers, HostPings(ip) PROVE UNCHANGED ring
  BY <1>8, Zenon DEF HostPings, nic, ring
<1>9. ASSUME NEW ip \in Targets, Ping(ip) PROVE UNCHANGED ring
  BY <1>9 DEF Ping, nic, ring
<1>10. CASE Resolve
  BY <1>10 DEF Resolve, nic, ring
<1>11. CASE Tick
  BY <1>11 DEF Tick, nic, ring
<1>12. CASE Thread
  BY <1>12, Zenon DEF Thread, SendHeader, SendBody, Request, SendRequest, GiveUp, Wait, Build,
       Send, Hlt, PollReply, PollAnswer, nic, ring
<1> QED
  BY <1>1, <1>2, <1>3, <1>4, <1>5, <1>6, <1>7, <1>8, <1>9, <1>10, <1>11, <1>12
     DEF Next, Handler, Network, vars, nic, ring

\* A frame in the receive buffer is waited for by the handler or by an interrupt,
\* but for one that came between the last look and the acknowledgement: for
\* every size of the buffer and everything that thread and network do.
THEOREM RingAlwaysWatched == Spec => []RingWatched
<1>1. Init => RingInv
  BY DEF Init, NicInit, RingInv, RingWatched
<1>2. RingInv => RingWatched
  BY DEF RingInv
<1> QED
  BY <1>1, <1>2, RingStep, PTL DEF Spec

-----------------------------------------------------------------------------
(* Types.                                                                  *)

Kinds   == {"none", "arp request", "arp reply", "echo request", "echo reply", "dns query", "dns answer"}
Any     == Hosts \cup Far \cup {Nothing}
Answers == Nat \cup {Nothing}
Msgs    == [k : Kinds, to : Any, v : Nat, n : Answers]
Ins     == [k : Kinds, from : Any, v : Nat, n : Answers]
Packets == [mac : Any, header : Msgs, body : Msgs]

TypeOK ==
  /\ rx_ring \in Seq(Ins) /\ tx \in Seq(Packets) /\ out \in [Hosts -> Seq(Ins)]
  /\ PKT_BUF \in [header : Msgs, body : Msgs] /\ FRAME \in Packets /\ msg \in Msgs
  /\ dns \in [query : Nat, ready : BOOLEAN, id : Nat, ip : Answers]
  /\ left \in [commands : Nat, events : Nat]

typed == <<rx_ring, tx, out, PKT_BUF, FRAME, msg, dns, left>>

LEMMA HopIsHost == \A ip : NextHop(ip) \in Hosts
BY NetAssumption DEF NextHop

LEMMA MsgTyped ==
  ASSUME NEW k \in Kinds, NEW a \in Any, NEW v \in Nat, NEW n \in Answers
  PROVE  Msg(k, a, v, n) \in Msgs /\ In(k, a, v, n) \in Ins
BY DEF Msg, In, Msgs, Ins

LEMMA FrameTyped ==
  ASSUME NEW m \in Any, NEW h \in Msgs, NEW b \in Msgs
  PROVE  Frame(m, h, b) \in Packets
BY DEF Frame, Packets

LEMMA ArpTyped ==
  ASSUME NEW k \in Kinds, NEW a \in Any PROVE Arp(k, a) \in Packets
<1>1. Msg(k, a, 0, Nothing) \in Msgs
  BY MsgTyped, Zenon DEF Answers
<1> QED
  BY <1>1, FrameTyped DEF Arp

LEMMA QueuedTyped ==
  ASSUME NEW q \in Seq(Packets), NEW f \in Packets
  PROVE  /\ Queued(q, f) \in Seq(Packets) /\ Queued(q, f)[Len(Queued(q, f))] = f
         /\ \A i \in 1 .. Len(Queued(q, f)) :
              Queued(q, f)[i] = f \/ \E j \in 1 .. Len(q) : Queued(q, f)[i] = q[j]
<1> DEFINE r == IF Len(q) < TX_SLOTS THEN q ELSE Tail(q)
<1>1. r \in Seq(Packets) /\ \A i \in 1 .. Len(r) : \E j \in 1 .. Len(q) : r[i] = q[j]
  <2>1. CASE Len(q) < TX_SLOTS
    BY <2>1
  <2>2. CASE ~(Len(q) < TX_SLOTS)
    <3>1. q # <<>>
      BY <2>2, NicAssumption
    <3>2. Len(q) \in Nat \ {0} /\ Tail(q) \in Seq(Packets) /\ Len(Tail(q)) = Len(q) - 1
          /\ \A i \in 1 .. Len(Tail(q)) : Tail(q)[i] = q[i + 1]
      BY <3>1
    <3> QED
      BY <2>2, <3>2
  <2> QED
    BY <2>1, <2>2
<1>2. Queued(q, f) = Append(r, f)
  BY DEF Queued
<1> HIDE DEF r
<1>3. Append(r, f) \in Seq(Packets) /\ Len(Append(r, f)) = Len(r) + 1
      /\ Append(r, f)[Len(r) + 1] = f /\ \A i \in 1 .. Len(r) : Append(r, f)[i] = r[i]
  BY <1>1
<1> QED
  BY <1>1, <1>2, <1>3

LEMMA TypeInit == Init => TypeOK
<1> SUFFICES ASSUME Init PROVE TypeOK
  OBVIOUS
<1>1. NoMsg \in Msgs
  BY DEF NoMsg, Msg, Msgs, Any, Answers, Kinds
<1>2. Frame(Nothing, NoMsg, NoMsg) \in Packets
  BY <1>1, FrameTyped DEF Any
<1> QED
  BY <1>1, <1>2, NetAssumption DEF Init, NicInit, TypeOK, Answers

LEMMA TypeRx == ASSUME TypeOK, Rx PROVE TypeOK'
<1> DEFINE f == Head(rx_ring)
<1>1. f \in Ins /\ rx_ring' \in Seq(Ins) /\ net_rx(f) /\ UNCHANGED <<out, msg, left>>
  BY DEF TypeOK, Rx, thread, network
<1>2. f.from \in Any /\ f.v \in Nat /\ f.n \in Answers
  BY <1>1 DEF Ins
<1> HIDE DEF f
<1> SUFFICES /\ tx' \in Seq(Packets) /\ FRAME' \in Packets
             /\ PKT_BUF' \in [header : Msgs, body : Msgs]
             /\ dns' \in [query : Nat, ready : BOOLEAN, id : Nat, ip : Answers]
  BY <1>1 DEF TypeOK
<1>3. ASSUME NEW g \in Packets, Transmit(g) PROVE tx' \in Seq(Packets) /\ FRAME' \in Packets
  BY <1>3, QueuedTyped DEF Transmit, TypeOK
<1>4. CASE arp_rx(f)
  <2>1. Arp("arp reply", f.from) \in Packets
    BY <1>2, ArpTyped, Zenon DEF Kinds
  <2> QED
    BY <1>3, <1>4, <2>1, Zenon DEF arp_rx, TypeOK
<1>5. CASE icmp_rx_request(f)
  <2> DEFINE m == Msg("echo reply", f.from, 0, Nothing)
             hop == NextHop(f.from)
  <2>1. m \in Msgs /\ hop \in Any
    <3>1. m \in Msgs
      BY <1>2 DEF Msg, Msgs, Answers, Kinds
    <3> QED
      BY <3>1, HopIsHost, Zenon DEF Any
  <2>2. Frame(hop, m, m) \in Packets /\ Arp("arp request", hop) \in Packets
    BY <2>1, FrameTyped, ArpTyped, Zenon DEF Kinds
  <2>3. PKT_BUF' = [header |-> m, body |-> m] /\ UNCHANGED dns
        /\ (Transmit(Frame(hop, m, m)) \/ Transmit(Arp("arp request", hop)))
    BY <1>5, Zenon DEF icmp_rx_request
  <2> HIDE DEF m, hop
  <2> QED
    BY <1>3, <2>1, <2>2, <2>3, Zenon DEF TypeOK
<1>6. CASE icmp_rx_reply(f)
  BY <1>6, Zenon DEF icmp_rx_reply, TypeOK
<1>7. CASE udp_rx(f)
  BY <1>2, <1>7, Zenon DEF udp_rx, dns_rx, TypeOK
<1> QED
  BY <1>1, <1>4, <1>5, <1>6, <1>7 DEF net_rx, ipv4_rx

LEMMA SaysTyped ==
  ASSUME TypeOK, NEW h \in Hosts, NEW f \in Ins, Says(h, f)
  PROVE  out' \in [Hosts -> Seq(Ins)]
BY DEF TypeOK, Says

LEMMA EventTyped ==
  ASSUME TypeOK, Event PROVE left' \in [commands : Nat, events : Nat]
BY DEF TypeOK, Event

LEMMA TypeNetwork == ASSUME TypeOK, Network PROVE TypeOK'
<1>1. ASSUME NEW h \in Hosts, HostAsks(h) PROVE TypeOK'
  <2>1. In("arp request", h, 0, Nothing) \in Ins
    BY MsgTyped, Zenon DEF Any, Answers, Kinds
  <2>2. out' \in [Hosts -> Seq(Ins)]
    BY <1>1, <2>1, SaysTyped, Zenon DEF HostAsks
  <2> QED
    BY <1>1, <2>2, EventTyped, Zenon DEF HostAsks, TypeOK, nic, thread, buffers
<1>2. ASSUME NEW h \in Hosts, Arrives(h) PROVE TypeOK'
  <2> DEFINE f == Head(out[h])
  <2>1. out[h] \in Seq(Ins) /\ out[h] # <<>> /\ f \in Ins /\ Tail(out[h]) \in Seq(Ins)
    <3>1. out[h] \in Seq(Ins) /\ out[h] # <<>>
      BY <1>2, Zenon DEF Arrives, TypeOK
    <3> QED
      BY <3>1
  <2>2. out' \in [Hosts -> Seq(Ins)]
    BY <1>2, <2>1, Zenon DEF Arrives, TypeOK
  <2>3. rx_ring' \in Seq(Ins) /\ tx' = tx /\ left' \in [commands : Nat, events : Nat]
    <3>1. FrameStored(f) \/ UNCHANGED nic
      BY <1>2, Zenon DEF Arrives
    <3>2. Event \/ UNCHANGED left
      BY <1>2, Zenon DEF Arrives
    <3> HIDE DEF f
    <3>3. tx' = tx /\ (rx_ring' = rx_ring \/ rx_ring' = Append(rx_ring, f))
      BY <3>1 DEF FrameStored, nic
    <3>4. rx_ring' \in Seq(Ins)
      <4>1. rx_ring \in Seq(Ins) /\ f \in Ins
        BY <2>1 DEF TypeOK
      <4> QED
        BY <3>3, <4>1
    <3> QED
      BY <3>2, <3>3, <3>4, EventTyped DEF TypeOK
  <2> QED
    BY <1>2, <2>2, <2>3, Zenon DEF Arrives, TypeOK, thread, buffers
<1>3. CASE CardSends
  <2> DEFINE f == Head(tx)
  <2>1. f \in Packets /\ tx' \in Seq(Packets)
    BY <1>3 DEF CardSends, TypeOK
  <2>2. left' \in [commands : Nat, events : Nat]
    BY <1>3, EventTyped DEF CardSends, TypeOK
  <2>3. f.header.to \in Any /\ f.body.v \in Nat /\ f.body.n \in Answers
    BY <2>1 DEF Packets, Msgs
  <2> HIDE DEF f
  <2>4. In("arp reply", f.header.to, 0, Nothing) \in Ins
        /\ In("echo reply", f.header.to, 0, Nothing) \in Ins
        /\ In("dns answer", f.header.to, f.body.v, f.body.n) \in Ins
    BY <2>3, MsgTyped, Zenon DEF Answers, Kinds
  <2>5. ASSUME NEW h, NEW g \in Ins, Says(h, g) PROVE out' \in [Hosts -> Seq(Ins)]
    <3>1. CASE h \in Hosts
      BY <2>5, <3>1, SaysTyped
    <3>2. CASE h \notin Hosts
      BY <2>5, <3>2, Zenon DEF TypeOK, Says
    <3> QED
      BY <3>1, <3>2
  <2>6. Answer(f) => out' \in [Hosts -> Seq(Ins)]
    BY <2>4, <2>5, Zenon DEF Answer, TypeOK
  <2>7. out' \in [Hosts -> Seq(Ins)]
    BY <1>3, <2>6 DEF CardSends, TypeOK, f
  <2> QED
    BY <1>3, <2>1, <2>2, <2>7 DEF CardSends, TypeOK, thread, buffers
<1> QED
  BY <1>1, <1>2, <1>3 DEF Network

LEMMA TypeThread == ASSUME TypeOK, Thread PROVE TypeOK'
<1>1. \A ip : NextHop(ip) \in Any
  BY HopIsHost DEF Any
<1>2. CASE UNCHANGED typed
  BY <1>2 DEF typed, TypeOK
<1>3. CASE SendHeader \/ SendBody
  BY <1>3, Zenon DEF SendHeader, SendBody, TypeOK, nic, network
<1>4. CASE Request \/ Build
  <2>1. FRAME' \in Packets
    <3>1. CASE Request
      BY <1>1, <3>1, ArpTyped, Zenon DEF Request, Kinds
    <3>2. CASE Build
      BY <1>1, <3>2, FrameTyped DEF Build, TypeOK
    <3> QED
      BY <1>4, <3>1, <3>2
  <2> QED
    BY <1>4, <2>1, Zenon DEF Request, Build, TypeOK, nic, network
<1>5. CASE SendRequest \/ Send
  <2>1. tx' = Queued(tx, FRAME)
    BY ZenonT(60), <1>5 DEF SendRequest, Send
  <2>2. tx' \in Seq(Packets)
    BY <2>1, QueuedTyped DEF TypeOK
  <2> QED
    BY <1>5, <2>2, Zenon DEF SendRequest, Send, TypeOK, buffers, network
<1>6. CASE PollReply \/ PollAnswer
  <2>1. NoMsg \in Msgs
    BY MsgTyped, Zenon DEF NoMsg, Any, Answers, Kinds
  <2>2. Echo(msg.to, msg.v + 1) \in Msgs
    <3>1. msg.to \in Any /\ msg.v + 1 \in Nat
      BY DEF Msgs, TypeOK
    <3> QED
      BY <3>1, MsgTyped, Zenon DEF Echo, Answers, Kinds
  <2>3. msg' \in Msgs
    BY <1>6, <2>1, <2>2, Zenon DEF PollReply, PollAnswer, NextEcho, TypeOK
  <2>4. dns' \in [query : Nat, ready : BOOLEAN, id : Nat, ip : Answers]
    BY <1>6, Zenon DEF PollReply, PollAnswer, TypeOK
  <2> QED
    BY <1>6, <2>3, <2>4, Zenon DEF PollReply, PollAnswer, TypeOK, nic, network
<1>7. CASE GiveUp \/ Wait \/ Hlt
  BY <1>7, Zenon DEF GiveUp, Wait, Hlt, TypeOK, nic, buffers, network
<1> QED
  BY <1>2, <1>3, <1>4, <1>5, <1>6, <1>7 DEF Thread

LEMMA TypeStep == TypeOK /\ [Next]_vars => TypeOK'
<1> SUFFICES ASSUME TypeOK, [Next]_vars PROVE TypeOK'
  OBVIOUS
<1>1. ASSUME NEW ip \in Targets, Ping(ip) PROVE TypeOK'
  <2>1. Echo(ip, 1) \in Msgs
    BY NetAssumption DEF Echo, Msg, Msgs, Any, Answers, Kinds
  <2> QED
    BY <1>1, <2>1 DEF Ping, TypeOK, nic, buffers
<1>2. ASSUME NEW ip \in Callers, HostPings(ip) PROVE TypeOK'
  <2>1. In("echo request", ip, 0, Nothing) \in Ins
    BY NetAssumption DEF In, Ins, Any, Answers, Kinds
  <2>2. out' \in [Hosts -> Seq(Ins)]
    BY <1>2, <2>1, HopIsHost, SaysTyped, Zenon DEF HostPings
  <2> QED
    BY ZenonT(60), <1>2, <2>2, EventTyped DEF HostPings, TypeOK, nic, thread, buffers
<1>3. CASE Resolve
  <2>1. NextQueryId(dns.query) \in Nat
    <3>1. dns.query \in Nat /\ ID_MOD \in Nat \ {0}
      BY NetAssumption DEF TypeOK
    <3> QED
      BY <3>1 DEF NextQueryId
  <2>2. dns' \in [query : Nat, ready : BOOLEAN, id : Nat, ip : Answers]
    BY <1>3, <2>1, Zenon DEF Resolve, TypeOK
  <2>3. udp_send(Server, dns'.query, left.commands) \in Msgs
    BY <2>2, NetAssumption, Zenon DEF udp_send, Msg, Msgs, Any, Answers, Kinds, TypeOK
  <2>4. msg' \in Msgs
    BY <1>3, <2>3 DEF Resolve, thread, TypeOK
  <2>5. left' \in [commands : Nat, events : Nat]
    <3>1. left.commands > 0 /\ left' = [left EXCEPT !.commands = @ - 1]
      BY <1>3 DEF Resolve
    <3>2. left \in [commands : Nat, events : Nat]
      BY Zenon DEF TypeOK
    <3> QED
      BY <3>1, <3>2
  <2> QED
    BY <1>3, <2>2, <2>4, <2>5 DEF Resolve, TypeOK, nic
<1>4. CASE Interrupt \/ Acknowledge \/ Tick
  BY <1>4 DEF Interrupt, Enter, Acknowledge, Ack, Tick, nic, thread, buffers, network, TypeOK
<1>5. CASE UNCHANGED vars
  BY <1>5 DEF vars, nic, thread, buffers, network, TypeOK
<1> QED
  BY Zenon, <1>1, <1>2, <1>3, <1>4, <1>5, TypeRx, TypeThread, TypeNetwork DEF Next, Handler

-----------------------------------------------------------------------------
(* The packet that thread 0 sends.                                         *)

Filling  == {"body", "request", "send request", "wait", "hlt wait", "frame", "send"}
Resolved == Filling \ {"body"}

\* PKT_BUF holds the packet from the moment it is filled, unless the handler
\* sent one; the frame buffer holds it once interrupts are disabled.
PktInv ==
  /\ pc # "idle" => cmd # "none"
  /\ pc \in Filling /\ ~meddled => PKT_BUF.header = msg
  /\ pc \in Resolved /\ ~meddled => PKT_BUF.body = msg
  /\ pc = "send" => /\ ~intr /\ irq = "out"
                    /\ FRAME = Frame(NextHop(msg.to), PKT_BUF.header, PKT_BUF.body)

sending == <<pc, cmd, msg, meddled, PKT_BUF, FRAME, intr, irq>>

LEMMA PktThread == ASSUME TypeOK, PktInv, Thread PROVE PktInv'
<1>1. PKT_BUF \in [header : Msgs, body : Msgs]
  BY DEF TypeOK
<1> USE DEF PktInv, Filling, Resolved
<1>2. CASE SendHeader
  BY <1>1, <1>2 DEF SendHeader, At, Goto
<1>3. CASE SendBody
  BY <1>1, <1>3 DEF SendBody, At, Goto, history
<1>4. CASE Request
  BY <1>4, Zenon DEF Request, At, Goto, history
<1>5. CASE SendRequest
  BY ZenonT(60), <1>5 DEF SendRequest, At, Goto, history, buffers
<1>6. CASE GiveUp
  BY <1>6 DEF GiveUp, Sent, At, Goto, history
<1>7. CASE Wait
  BY <1>7, Zenon DEF Wait, At, Goto, history, buffers
<1>8. CASE Build
  BY <1>8 DEF Build, Cli, At, Goto, history, nic
<1>9. CASE Send
  BY <1>9 DEF Send, Sent, At, Goto, history, buffers
<1>10. CASE Hlt
  BY <1>10, Zenon DEF Hlt, Goto, history, buffers
<1>11. CASE PollReply
  BY <1>11, Zenon DEF PollReply, NextEcho, At, Goto, history
<1>12. CASE PollAnswer
  BY <1>12, Zenon DEF PollAnswer, At, Goto, history
<1> QED
  BY <1>2, <1>3, <1>4, <1>5, <1>6, <1>7, <1>8, <1>9, <1>10, <1>11, <1>12, Zenon DEF Thread

LEMMA PktStep == TypeOK /\ PktInv /\ [Next]_vars => PktInv'
<1> SUFFICES ASSUME TypeOK, PktInv, [Next]_vars PROVE PktInv'
  BY Zenon
<1>1. CASE UNCHANGED sending
  BY <1>1 DEF sending, PktInv
<1>2. CASE Rx
  <2>1. pc # "send" /\ UNCHANGED <<pc, cmd, msg>>
    BY ZenonT(60), <1>2 DEF Rx, PktInv, thread
  <2>2. \/ UNCHANGED <<PKT_BUF, meddled>>
        \/ meddled' = (cmd # "none")
    BY ZenonT(60), <1>2 DEF Rx, net_rx, arp_rx, ipv4_rx, icmp_rx_request, icmp_rx_reply, udp_rx, dns_rx
  <2> QED
    BY ZenonT(60), <2>1, <2>2 DEF PktInv, Filling, Resolved
<1>3. CASE Interrupt \/ Acknowledge \/ Tick
  BY Zenon, <1>3 DEF Interrupt, Enter, Acknowledge, Ack, Tick, PktInv, thread, buffers, history, nic
<1>4. CASE CardSends
  BY <1>1, <1>4 DEF CardSends, thread, buffers, history, sending
<1>5. ASSUME NEW h \in Hosts, HostAsks(h) \/ Arrives(h) PROVE UNCHANGED sending
  BY <1>5, Zenon DEF HostAsks, Arrives, FrameStored, nic, thread, buffers, history, sending
<1>6. ASSUME NEW ip \in Callers, HostPings(ip) PROVE UNCHANGED sending
  BY <1>6, Zenon DEF HostPings, nic, thread, buffers, history, sending
<1>7. ASSUME NEW ip \in Targets, Ping(ip) PROVE PktInv'
  BY ZenonT(60), <1>7 DEF Ping, Goto, PktInv, Filling, Resolved
<1>8. CASE Resolve
  <2>1. UNCHANGED <<PKT_BUF, FRAME, intr, nic, history>>
    BY <1>8 DEF Resolve
  <2>2. UNCHANGED thread \/ (pc' = "header" /\ cmd' = "resolve")
    BY <1>8 DEF Resolve, Goto
  <2> QED
    BY <2>1, <2>2, Zenon DEF thread, nic, history, PktInv, Filling, Resolved
<1> QED
  BY Zenon, <1>1, <1>2, <1>3, <1>4, <1>5, <1>6, <1>7, <1>8, PktThread
     DEF Next, Handler, Network, vars, nic, thread, buffers, history, sending

LEMMA SendRight ==
  ASSUME TypeOK, PktInv, [Next]_vars, pc = "send", pc' = "poll", ~meddled
  PROVE  tx'[Len(tx')] = Frame(NextHop(msg.to), msg, msg)
<1>1. Send
  BY ZenonT(60) DEF Next, Thread, Handler, Network, vars, SendHeader, SendBody, Request, SendRequest,
     GiveUp, Wait, Build, Hlt, PollReply, PollAnswer, At, Goto, Ping, Resolve, HostPings,
     HostAsks, Arrives, CardSends, Interrupt, Rx, Acknowledge, Tick, thread
<1>2. tx' = Queued(tx, FRAME)
  BY Zenon, <1>1 DEF Send
<1>3. tx'[Len(tx')] = FRAME
  BY Zenon, <1>2, QueuedTyped DEF TypeOK
<1> QED
  BY ZenonT(60), <1>3 DEF PktInv, Filling, Resolved

\* What send_ethernet hands to the card for thread 0 is the packet it was asked
\* to send, to its next hop, unless the handler sent one meanwhile: for any
\* stations, retries and timeouts, and wherever interrupts fall.
THEOREM PacketAlwaysRight == Spec => PacketRight
<1>1. Init => TypeOK /\ PktInv
  BY TypeInit DEF Init, PktInv, Filling, Resolved
<1>2. TypeOK /\ PktInv /\ [Next]_vars =>
        [pc = "send" /\ pc' = "poll" /\ ~meddled
           => tx'[Len(tx')] = Frame(NextHop(msg.to), msg, msg)]_vars
  BY SendRight
<1> QED
  BY <1>1, <1>2, TypeStep, PktStep, PTL DEF Spec, PacketRight

-----------------------------------------------------------------------------
(* Who is in the ARP table before a ping of theirs comes.                  *)

Room     == Cardinality(Hosts) <= ARP_TABLE_SIZE
ArpKinds == {"arp request", "arp reply"}

\* The stations that a frame, or a queue of frames, makes known to us.
Tells(f) == {h \in Hosts : f.k \in ArpKinds /\ f.from = h}
Told(q)  == {h \in Hosts : \E i \in 1 .. Len(q) : h \in Tells(q[i])}

\* Whoever answers a ping in q finds its next hop in S or told of before it.
Covered(q, S) ==
  \A i \in 1 .. Len(q) : q[i].k = "echo request" =>
    \/ NextHop(q[i].from) \in S
    \/ \E j \in 1 .. i - 1 : NextHop(q[i].from) \in Tells(q[j])

LEMMA AppendFacts ==
  ASSUME NEW q \in Seq(Ins), NEW f \in Ins
  PROVE  /\ Append(q, f) \in Seq(Ins) /\ Len(q) \in Nat /\ Len(Append(q, f)) = Len(q) + 1
         /\ Append(q, f)[Len(q) + 1] = f
         /\ \A i \in 1 .. Len(q) : Append(q, f)[i] = q[i]
OBVIOUS

LEMMA TailFacts ==
  ASSUME NEW q \in Seq(Ins), q # <<>>
  PROVE  /\ Tail(q) \in Seq(Ins) /\ Len(q) \in Nat \ {0} /\ Len(Tail(q)) = Len(q) - 1
         /\ Head(q) = q[1] /\ Head(q) \in Ins
         /\ \A i \in 1 .. Len(Tail(q)) : Tail(q)[i] = q[i + 1]
OBVIOUS

LEMMA ToldAppend ==
  ASSUME NEW q \in Seq(Ins), NEW f \in Ins
  PROVE  Told(Append(q, f)) = Told(q) \cup Tells(f)
<1> DEFINE r == Append(q, f)
<1>1. Len(q) \in Nat /\ Len(r) = Len(q) + 1 /\ r[Len(q) + 1] = f
      /\ \A i \in 1 .. Len(q) : r[i] = q[i]
  BY AppendFacts, Zenon
<1> HIDE DEF r
<1>2. \A h : (\E i \in 1 .. Len(r) : h \in Tells(r[i]))
             <=> (\E i \in 1 .. Len(q) : h \in Tells(q[i])) \/ h \in Tells(f)
  BY <1>1
<1>3. Tells(f) \subseteq Hosts
  BY DEF Tells
<1> QED
  BY <1>2, <1>3 DEF Told, r

LEMMA ToldTail ==
  ASSUME NEW q \in Seq(Ins), q # <<>>
  PROVE  Told(q) = Told(Tail(q)) \cup Tells(Head(q))
<1> DEFINE r == Tail(q)
           f == Head(q)
<1>1. Len(q) \in Nat \ {0} /\ Len(r) = Len(q) - 1 /\ f = q[1]
      /\ \A i \in 1 .. Len(r) : r[i] = q[i + 1]
  BY TailFacts
<1> HIDE DEF r, f
<1>2. ASSUME NEW h PROVE (\E i \in 1 .. Len(q) : h \in Tells(q[i]))
                         <=> (\E i \in 1 .. Len(r) : h \in Tells(r[i])) \/ h \in Tells(f)
  <2>1. ASSUME NEW i \in 1 .. Len(q), h \in Tells(q[i]), i # 1
        PROVE  \E j \in 1 .. Len(r) : h \in Tells(r[j])
    <3>1. i - 1 \in 1 .. Len(r) /\ r[i - 1] = q[i]
      BY <1>1, <2>1
    <3> QED
      BY <2>1, <3>1
  <2>2. ASSUME NEW i \in 1 .. Len(r), h \in Tells(r[i])
        PROVE  \E j \in 1 .. Len(q) : h \in Tells(q[j])
    <3>1. i + 1 \in 1 .. Len(q) /\ r[i] = q[i + 1]
      BY <1>1
    <3> QED
      BY <2>2, <3>1
  <2>3. h \in Tells(f) => \E j \in 1 .. Len(q) : h \in Tells(q[j])
    BY <1>1
  <2> QED
    BY <1>1, <2>1, <2>2, <2>3
<1>3. Tells(f) \subseteq Hosts
  BY DEF Tells
<1> QED
  BY <1>2, <1>3 DEF Told, r, f

LEMMA CoveredMore ==
  ASSUME NEW q, NEW S, NEW T, Covered(q, S), S \subseteq T PROVE Covered(q, T)
BY ZenonT(60) DEF Covered

LEMMA AppendIndex ==
  ASSUME NEW q \in Seq(Ins), NEW f \in Ins
  PROVE  \A i \in 1 .. Len(Append(q, f)) :
           /\ \/ i \in 1 .. Len(q) /\ Append(q, f)[i] = q[i]
              \/ i - 1 = Len(q) /\ Append(q, f)[i] = f
           /\ \A j \in 1 .. i - 1 : j \in 1 .. Len(q) /\ Append(q, f)[j] = q[j]
<1> DEFINE r == Append(q, f)
<1>1. Len(q) \in Nat /\ Len(r) = Len(q) + 1 /\ r[Len(q) + 1] = f
      /\ \A i \in 1 .. Len(q) : r[i] = q[i]
  BY AppendFacts, Zenon
<1> HIDE DEF r
<1>2. \A i \in 1 .. Len(r) :
        /\ \/ i \in 1 .. Len(q) /\ r[i] = q[i]
           \/ i - 1 = Len(q) /\ r[i] = f
        /\ \A j \in 1 .. i - 1 : j \in 1 .. Len(q) /\ r[j] = q[j]
  BY <1>1
<1> QED
  BY <1>2 DEF r

LEMMA CoveredAppend ==
  ASSUME NEW q \in Seq(Ins), NEW f \in Ins, NEW S, Covered(q, S),
         f.k = "echo request" => NextHop(f.from) \in S \cup Told(q)
  PROVE  Covered(Append(q, f), S)
<1> DEFINE r == Append(q, f)
<1> SUFFICES ASSUME NEW i \in 1 .. Len(r), r[i].k = "echo request"
             PROVE  \/ NextHop(r[i].from) \in S
                    \/ \E j \in 1 .. i - 1 : NextHop(r[i].from) \in Tells(r[j])
  BY Zenon DEF Covered
<1>1. /\ \/ i \in 1 .. Len(q) /\ r[i] = q[i]
         \/ i - 1 = Len(q) /\ r[i] = f
      /\ \A j \in 1 .. i - 1 : j \in 1 .. Len(q) /\ r[j] = q[j]
  BY ZenonT(60), AppendIndex
<1> HIDE DEF r
<1>2. CASE i - 1 = Len(q) /\ r[i] = f
  BY <1>1, <1>2, Zenon DEF Told
<1>3. CASE i \in 1 .. Len(q) /\ r[i] = q[i]
  BY <1>1, <1>3, Zenon DEF Covered
<1> QED
  BY ZenonT(60), <1>1, <1>2, <1>3

LEMMA CoveredTail ==
  ASSUME NEW q \in Seq(Ins), q # <<>>, NEW S, Covered(q, S)
  PROVE  /\ Covered(Tail(q), S \cup Tells(Head(q)))
         /\ Head(q).k = "echo request" => NextHop(Head(q).from) \in S
<1> DEFINE r == Tail(q)
           f == Head(q)
<1>1. Len(q) \in Nat \ {0} /\ Len(r) = Len(q) - 1 /\ f = q[1]
      /\ \A i \in 1 .. Len(r) : r[i] = q[i + 1]
  BY TailFacts
<1> HIDE DEF r, f
<1>2. f.k = "echo request" => NextHop(f.from) \in S
  <2>1. 1 \in 1 .. Len(q) /\ 1 .. 1 - 1 = {}
    BY <1>1
  <2>2. q[1].k = "echo request" => NextHop(q[1].from) \in S \/ \E j \in 1 .. 1 - 1 : TRUE
    BY <2>1, Zenon DEF Covered
  <2> QED
    BY <1>1, <2>1, <2>2, Zenon
<1>3. ASSUME NEW i \in 1 .. Len(r), r[i].k = "echo request"
      PROVE  \/ NextHop(r[i].from) \in S \cup Tells(f)
             \/ \E j \in 1 .. i - 1 : NextHop(r[i].from) \in Tells(r[j])
  <2>1. i + 1 \in 1 .. Len(q) /\ r[i] = q[i + 1]
    BY <1>1
  <2>2. CASE NextHop(r[i].from) \in S
    BY <2>2
  <2>3. ASSUME NEW j \in 1 .. i, NextHop(r[i].from) \in Tells(q[j])
        PROVE  \/ NextHop(r[i].from) \in Tells(f)
               \/ \E m \in 1 .. i - 1 : NextHop(r[i].from) \in Tells(r[m])
    <3>1. CASE j = 1
      BY <1>1, <2>3, <3>1
    <3>2. CASE j # 1
      <4>1. j - 1 \in 1 .. i - 1 /\ r[j - 1] = q[j]
        BY <1>1, <3>2
      <4> QED
        BY <2>3, <4>1
    <3> QED
      BY <3>1, <3>2
  <2>4. \/ NextHop(r[i].from) \in S
        \/ \E j \in 1 .. i : NextHop(r[i].from) \in Tells(q[j])
    <3>1. (i + 1) - 1 = i
      OBVIOUS
    <3> QED
      BY <1>3, <2>1, <3>1, Zenon DEF Covered
  <2> QED
    BY <2>2, <2>3, <2>4
<1>4. Covered(r, S \cup Tells(f))
  BY <1>3, Zenon DEF Covered
<1> QED
  BY <1>2, <1>4, Zenon DEF r, f

\* The table has room for every station that is heard of.
LEMMA LearnRoom ==
  ASSUME Room, arp_table \subseteq Hosts, NEW h \in Hosts
  PROVE  arp_table_update(h) = arp_table \cup {h}
<1>1. Cardinality(Hosts) \in Nat /\ Cardinality(arp_table) \in Nat
      /\ Cardinality(arp_table) <= Cardinality(Hosts)
      /\ (Cardinality(arp_table) = Cardinality(Hosts) => arp_table = Hosts)
  BY Zenon, NetAssumption, FS_Subset, FS_CardinalityType
<1>2. ARP_TABLE_SIZE \in Nat
  BY NetAssumption
<1>3. CASE h \in arp_table
  BY <1>3 DEF arp_table_update
<1>4. CASE h \notin arp_table
  <2>1. Cardinality(arp_table) < ARP_TABLE_SIZE
    BY <1>1, <1>2, <1>4 DEF Room
  <2> QED
    BY <2>1 DEF arp_table_update
<1> QED
  BY Zenon, <1>3, <1>4

\* Our ARP frames go to stations, and our ARP replies to stations in the table.
Good(g, S) ==
  /\ g.header.k \in ArpKinds => g.header.to \in Hosts
  /\ g.header.k = "arp reply" => g.header.to \in S

\* ARP frames come from stations.
Local(q) == \A i \in 1 .. Len(q) : q[i].k \in ArpKinds => q[i].from \in Hosts

FrameInv ==
  /\ msg.k \notin ArpKinds /\ PKT_BUF.header.k \notin ArpKinds
  /\ Good(FRAME, arp_table) /\ \A i \in 1 .. Len(tx) : Good(tx[i], arp_table)
  /\ arp_table \subseteq Hosts
  /\ Local(rx_ring) /\ \A h \in Hosts : Local(out[h])

HeardInv ==
  ~unheard =>
    /\ irq # "stuck"
    /\ Covered(rx_ring, arp_table)
    /\ \A h \in Hosts : Covered(out[h], arp_table \cup Told(rx_ring))
    /\ \A h \in Hosts : h \in knows => h \in arp_table \cup Told(rx_ring) \cup Told(out[h])

LEMMA GoodMore == ASSUME NEW g, NEW S, NEW T, S \subseteq T, Good(g, S) PROVE Good(g, T)
BY Zenon DEF Good

LEMMA GoodArp ==
  ASSUME NEW h \in Hosts, NEW S
  PROVE  Good(Arp("arp request", h), S) /\ (h \in S => Good(Arp("arp reply", h), S))
BY Zenon DEF Good, Arp, Frame, Msg

LEMMA GoodIp ==
  ASSUME NEW m, NEW h, NEW b, NEW S, h.k \notin ArpKinds PROVE Good(Frame(m, h, b), S)
BY Zenon DEF Good, Frame, ArpKinds

LEMMA GoodQueued ==
  ASSUME NEW q \in Seq(Packets), NEW f \in Packets, NEW S, Good(f, S),
         \A i \in 1 .. Len(q) : Good(q[i], S)
  PROVE  \A i \in 1 .. Len(Queued(q, f)) : Good(Queued(q, f)[i], S)
BY ZenonT(60), QueuedTyped

LEMMA LocalAppend ==
  ASSUME NEW q \in Seq(Ins), NEW f \in Ins, Local(q), f.k \in ArpKinds => f.from \in Hosts
  PROVE  Local(Append(q, f))
<1> SUFFICES ASSUME NEW i \in 1 .. Len(Append(q, f)), Append(q, f)[i].k \in ArpKinds
             PROVE  Append(q, f)[i].from \in Hosts
  BY DEF Local
<1>1. (i \in 1 .. Len(q) /\ Append(q, f)[i] = q[i]) \/ Append(q, f)[i] = f
  BY ZenonT(60), AppendIndex
<1> QED
  BY <1>1, Zenon DEF Local

LEMMA LocalTail ==
  ASSUME NEW q \in Seq(Ins), q # <<>>, Local(q)
  PROVE  Local(Tail(q)) /\ (Head(q).k \in ArpKinds => Head(q).from \in Hosts)
<1>1. Len(q) \in Nat \ {0} /\ Len(Tail(q)) = Len(q) - 1
  BY TailFacts
<1>2. 1 \in 1 .. Len(q) /\ \A i \in 1 .. Len(Tail(q)) : i + 1 \in 1 .. Len(q)
  BY <1>1
<1>3. Head(q) = q[1] /\ \A i \in 1 .. Len(Tail(q)) : Tail(q)[i] = q[i + 1]
  BY TailFacts, Zenon
<1> QED
  BY <1>2, <1>3, Zenon DEF Local

LEMMA RxTable ==
  ASSUME Room, TypeOK, FrameInv, Rx
  PROVE  arp_table' = arp_table \cup Tells(Head(rx_ring))
<1> DEFINE f == Head(rx_ring)
<1>1. net_rx(f)
  BY Zenon DEF Rx
<1>2. f.k \in ArpKinds => f.from \in Hosts
  BY Zenon, LocalTail DEF Rx, TypeOK, FrameInv
<1> HIDE DEF f
<1>3. CASE arp_rx(f)
  <2>1. f.k \in ArpKinds /\ arp_table' = arp_table_update(f.from)
    BY <1>3, Zenon DEF arp_rx, Learn, ArpKinds
  <2>2. f.from \in Hosts /\ Tells(f) = {f.from}
    BY <1>2, <2>1 DEF Tells
  <2> QED
    BY <2>1, <2>2, LearnRoom DEF FrameInv, f
<1>4. CASE ipv4_rx(f)
  <2>1. f.k \in {"echo request", "echo reply", "dns answer"} /\ arp_table' = arp_table
    BY <1>4, Zenon DEF ipv4_rx, icmp_rx_request, icmp_rx_reply, udp_rx, dns_rx
  <2>2. Tells(f) = {}
    BY <2>1, Zenon DEF Tells, ArpKinds
  <2> QED
    BY <2>1, <2>2, Zenon DEF f
<1> QED
  BY <1>1, <1>3, <1>4 DEF net_rx

LEMMA FrameRx == ASSUME Room, TypeOK, FrameInv, Rx PROVE FrameInv'
<1> DEFINE f == Head(rx_ring)
<1>1. net_rx(f) /\ rx_ring' = Tail(rx_ring) /\ UNCHANGED <<msg, out>>
  BY DEF Rx, thread, network
<1>2. rx_ring \in Seq(Ins) /\ rx_ring # <<>> /\ f \in Ins
  BY DEF Rx, TypeOK
<1>3. Local(rx_ring') /\ (f.k \in ArpKinds => f.from \in Hosts)
  BY <1>1, <1>2, LocalTail DEF FrameInv
<1>4. arp_table' = arp_table \cup Tells(f)
  BY RxTable
<1>5. f.from \in Any
  BY <1>2 DEF Ins
<1> HIDE DEF f
<1>6. arp_table' \subseteq Hosts /\ arp_table \subseteq arp_table'
  BY Zenon, <1>4 DEF FrameInv, Tells
<1>7. tx \in Seq(Packets) /\ Good(FRAME, arp_table')
      /\ \A i \in 1 .. Len(tx) : Good(tx[i], arp_table')
  BY <1>6, GoodMore DEF FrameInv, TypeOK
<1>8. ASSUME NEW g \in Packets, Good(g, arp_table'), Transmit(g)
      PROVE  Good(FRAME', arp_table') /\ \A i \in 1 .. Len(tx') : Good(tx'[i], arp_table')
  BY Zenon, <1>7, <1>8, GoodQueued DEF Transmit
<1> SUFFICES /\ PKT_BUF'.header.k \notin ArpKinds
             /\ Good(FRAME', arp_table') /\ \A i \in 1 .. Len(tx') : Good(tx'[i], arp_table')
  BY <1>1, <1>3, <1>6 DEF FrameInv
<1>9. CASE arp_rx(f)
  <2>1. f.k \in ArpKinds
    BY <1>9, Zenon DEF arp_rx, ArpKinds
  <2>2. f.from \in Hosts /\ f.from \in arp_table'
    BY <1>3, <1>4, <2>1 DEF Tells
  <2>3. Good(Arp("arp reply", f.from), arp_table') /\ Arp("arp reply", f.from) \in Packets
    BY ZenonT(60), <1>5, <2>2, GoodArp, ArpTyped DEF Kinds
  <2> QED
    BY <1>7, <1>8, <1>9, <2>3, Zenon DEF arp_rx, FrameInv
<1>10. CASE icmp_rx_request(f)
  <2> DEFINE m == Msg("echo reply", f.from, 0, Nothing)
             hop == NextHop(f.from)
  <2>1. m \in Msgs /\ m.k \notin ArpKinds /\ hop \in Hosts /\ hop \in Any
    <3>1. m \in Msgs
      BY <1>5, MsgTyped, Zenon DEF Answers, Kinds
    <3> QED
      BY <3>1, HopIsHost, Zenon DEF Msg, ArpKinds, Any
  <2>2. PKT_BUF' = [header |-> m, body |-> m]
        /\ (Transmit(Frame(hop, m, m)) \/ Transmit(Arp("arp request", hop)))
    BY <1>10, Zenon DEF icmp_rx_request
  <2> HIDE DEF m, hop
  <2>3. Frame(hop, m, m) \in Packets /\ Good(Frame(hop, m, m), arp_table')
    BY <2>1, FrameTyped, GoodIp
  <2>4. Arp("arp request", hop) \in Packets /\ Good(Arp("arp request", hop), arp_table')
    BY <2>1, ArpTyped, GoodArp, Zenon DEF Kinds
  <2> QED
    BY ZenonT(60), <1>8, <2>1, <2>2, <2>3, <2>4
<1>11. CASE icmp_rx_reply(f) \/ udp_rx(f)
  BY ZenonT(60), <1>7, <1>11 DEF icmp_rx_reply, udp_rx, dns_rx, FrameInv
<1> QED
  BY <1>1, <1>9, <1>10, <1>11 DEF net_rx, ipv4_rx

LEMMA HeardRx == ASSUME Room, TypeOK, FrameInv, HeardInv, Rx PROVE HeardInv'
<1> SUFFICES ASSUME ~unheard PROVE HeardInv'
  BY Zenon DEF HeardInv, Rx
<1> DEFINE f == Head(rx_ring)
<1>1. rx_ring \in Seq(Ins) /\ rx_ring # <<>> /\ rx_ring' = Tail(rx_ring)
      /\ UNCHANGED <<knows, out>> /\ net_rx(f)
  BY DEF Rx, TypeOK, network
<1>2. arp_table' = arp_table \cup Tells(f)
  BY RxTable
<1>3. Covered(rx_ring', arp_table') /\ (f.k = "echo request" => NextHop(f.from) \in arp_table)
  BY <1>1, <1>2, CoveredTail, Zenon DEF HeardInv
<1>4. Told(rx_ring) = Told(rx_ring') \cup Tells(f)
  BY <1>1, ToldTail
<1> HIDE DEF f
<1>5. irq' # "stuck"
  <2>1. irq' = NextAfter(Tail(rx_ring)) \/ (f.k = "echo request" /\ NextHop(f.from) \notin arp_table)
    BY <1>1, Zenon DEF net_rx, arp_rx, ipv4_rx, icmp_rx_request, icmp_rx_reply, udp_rx, dns_rx
  <2> QED
    BY <1>3, <2>1, Zenon DEF NextAfter
<1>6. arp_table' \cup Told(rx_ring') = arp_table \cup Told(rx_ring)
  BY <1>2, <1>4
<1> QED
  BY ZenonT(60), <1>1, <1>3, <1>5, <1>6 DEF HeardInv

\* A station says something that is no ping, or a ping after it was told of.
LEMMA SaysHeard ==
  ASSUME TypeOK, FrameInv, HeardInv, NEW h \in Hosts, NEW f \in Ins, Says(h, f),
         UNCHANGED <<msg, PKT_BUF, FRAME, arp_table, rx_ring, irq, unheard>>,
         \A i \in 1 .. Len(tx') : Good(tx'[i], arp_table),
         f.k \in ArpKinds => f.from \in Hosts,
         f.k = "echo request" /\ ~unheard => NextHop(f.from) \in arp_table \cup Told(rx_ring) \cup Told(out[h]),
         \A x \in Hosts : x \in knows' => x \in knows \/ (x = h /\ x \in Tells(f))
  PROVE  FrameInv' /\ HeardInv'
<1>1. out[h] \in Seq(Ins) /\ out'[h] = Append(out[h], f)
      /\ \A x \in Hosts : x # h => out'[x] = out[x]
  BY ZenonT(60) DEF TypeOK, Says
<1>2. Local(out'[h])
  BY ZenonT(60), <1>1, LocalAppend DEF FrameInv
<1>3. FrameInv'
  BY ZenonT(60), <1>1, <1>2 DEF FrameInv
<1>4. Told(out'[h]) = Told(out[h]) \cup Tells(f)
  BY ZenonT(60), <1>1, ToldAppend
<1>5. ~unheard => Covered(out'[h], arp_table \cup Told(rx_ring))
  BY ZenonT(60), <1>1, CoveredAppend DEF HeardInv
<1>6. HeardInv'
  <2> SUFFICES ASSUME ~unheard PROVE HeardInv'
    BY ZenonT(60) DEF HeardInv
  <2>1. \A x \in Hosts : Covered(out'[x], arp_table \cup Told(rx_ring))
    BY ZenonT(60), <1>1, <1>5 DEF HeardInv
  <2>2. \A x \in Hosts : x \in knows' => x \in arp_table \cup Told(rx_ring) \cup Told(out'[x])
    BY <1>1, <1>4, Zenon DEF HeardInv
  <2> QED
    BY ZenonT(60), <2>1, <2>2 DEF HeardInv
<1> QED
  BY <1>3, <1>6, Zenon

LEMMA HeardCard == ASSUME Room, TypeOK, FrameInv, HeardInv, CardSends PROVE FrameInv' /\ HeardInv'
<1> DEFINE f == Head(tx)
           to == f.header.to
           hop == NextHop(to)
<1>1. UNCHANGED <<msg, PKT_BUF, FRAME, arp_table, rx_ring, irq, unheard>>
  BY DEF CardSends, thread, buffers, history
<1>2. tx \in Seq(Packets) /\ tx # <<>> /\ tx' = Tail(tx)
  BY DEF CardSends, TypeOK
<1>3. f \in Packets /\ f = tx[1] /\ 1 \in 1 .. Len(tx) /\ Len(tx') = Len(tx) - 1
      /\ \A i \in 1 .. Len(tx') : i + 1 \in 1 .. Len(tx) /\ tx'[i] = tx[i + 1]
  BY <1>2
<1>4. Good(f, arp_table) /\ \A i \in 1 .. Len(tx') : Good(tx'[i], arp_table)
  BY ZenonT(60), <1>3 DEF FrameInv
<1>5. to \in Any /\ f.body.v \in Nat /\ f.body.n \in Answers /\ hop \in Hosts
  BY <1>3, HopIsHost DEF Packets, Msgs
<1>6. Answer(f) \/ UNCHANGED <<knows, out>>
  BY DEF CardSends
<1> HIDE DEF f
<1>7. CASE UNCHANGED <<knows, out>>
  BY ZenonT(60), <1>1, <1>4, <1>7 DEF FrameInv, HeardInv
<1>8. ASSUME f.header.k = "arp request", knows' = knows \cup {to},
             Says(to, In("arp reply", to, 0, Nothing))
      PROVE  FrameInv' /\ HeardInv'
  <2> DEFINE g == In("arp reply", to, 0, Nothing)
  <2>1. to \in Hosts
    BY ZenonT(60), <1>4, <1>8 DEF Good, ArpKinds
  <2>2. g \in Ins
    BY ZenonT(60), <1>5, MsgTyped DEF Answers, Kinds
  <2>3. g.k = "arp reply" /\ g.from = to
    BY DEF In
  <2> HIDE DEF g, to
  <2>4. to \in Tells(g) /\ g.k # "echo request"
    BY <2>1, <2>3, Zenon DEF Tells, ArpKinds
  <2>5. Says(to, g)
    BY ZenonT(60), <1>8 DEF g
  <2> QED
    BY ZenonT(60), <1>1, <1>4, <1>8, <2>1, <2>2, <2>3, <2>4, <2>5, SaysHeard
<1>9. ASSUME f.header.k = "arp reply", knows' = knows \cup {to}, UNCHANGED out
      PROVE  FrameInv' /\ HeardInv'
  <2>1. to \in arp_table
    BY ZenonT(60), <1>4, <1>9 DEF Good
  <2> QED
    BY ZenonT(60), <1>1, <1>4, <1>9, <2>1 DEF FrameInv, HeardInv
<1>10. ASSUME NEW g \in Ins, g.k \in {"echo reply", "dns answer"}, Says(hop, g), UNCHANGED knows
       PROVE  FrameInv' /\ HeardInv'
  <2> HIDE DEF hop
  <2>1. g.k \notin ArpKinds /\ g.k # "echo request"
    BY ZenonT(60), <1>10 DEF ArpKinds
  <2> QED
    BY <1>1, <1>4, <1>5, <1>10, <2>1, SaysHeard, Zenon
<1>11. /\ In("echo reply", to, 0, Nothing) \in Ins
       /\ In("echo reply", to, 0, Nothing).k = "echo reply"
       /\ In("dns answer", to, f.body.v, f.body.n) \in Ins
       /\ In("dns answer", to, f.body.v, f.body.n).k = "dns answer"
  <2>1. In("echo reply", to, 0, Nothing) \in Ins /\ In("dns answer", to, f.body.v, f.body.n) \in Ins
    BY <1>5, MsgTyped, Zenon DEF Answers, Kinds
  <2> QED
    BY ZenonT(60), <2>1 DEF In
<1> QED
  BY ZenonT(60), <1>6, <1>7, <1>8, <1>9, <1>10, <1>11 DEF Answer

LEMMA HeardArrives ==
  ASSUME TypeOK, FrameInv, HeardInv, NEW h \in Hosts, Arrives(h) PROVE FrameInv' /\ HeardInv'
<1> DEFINE f == Head(out[h])
<1>1. out[h] \in Seq(Ins) /\ out[h] # <<>> /\ rx_ring \in Seq(Ins)
  BY Zenon DEF Arrives, TypeOK
<1>2. f \in Ins
  BY <1>1, TailFacts
<1>3. out'[h] = Tail(out[h]) /\ \A x \in Hosts : x # h => out'[x] = out[x]
  BY Zenon DEF Arrives, TypeOK
<1>4. UNCHANGED <<msg, PKT_BUF, FRAME, arp_table, knows, irq, tx>>
  BY ZenonT(60) DEF Arrives, FrameStored, nic, thread, buffers
<1>5. Local(out'[h]) /\ (f.k \in ArpKinds => f.from \in Hosts)
  BY <1>1, <1>3, LocalTail DEF FrameInv
<1>6. \/ rx_ring' = Append(rx_ring, f) /\ UNCHANGED unheard
      \/ rx_ring' = rx_ring /\ unheard' = (unheard \/ f.k \in {"arp request", "arp reply"})
  BY ZenonT(60) DEF Arrives, FrameStored, nic
<1>7. Told(out[h]) = Told(out'[h]) \cup Tells(f)
  BY <1>1, <1>3, ToldTail
<1>8. ~unheard => /\ Covered(out'[h], arp_table \cup Told(rx_ring) \cup Tells(f))
                  /\ f.k = "echo request" => NextHop(f.from) \in arp_table \cup Told(rx_ring)
  BY ZenonT(60), <1>1, <1>3, CoveredTail DEF HeardInv
<1> HIDE DEF f
<1>9. FrameInv'
  <2>1. Local(rx_ring')
    BY ZenonT(60), <1>1, <1>2, <1>5, <1>6, LocalAppend DEF FrameInv
  <2> QED
    BY ZenonT(60), <1>3, <1>4, <1>5, <2>1 DEF FrameInv
<1>10. HeardInv'
  <2> SUFFICES ASSUME ~unheard' PROVE HeardInv'
    BY ZenonT(60) DEF HeardInv
  <2>1. ~unheard
    BY <1>6, Zenon
  <2>2. Told(rx_ring') = Told(rx_ring) \cup Tells(f)
    <3>1. CASE rx_ring' = Append(rx_ring, f)
      BY Zenon, <1>1, <1>2, <3>1, ToldAppend
    <3>2. CASE rx_ring' = rx_ring /\ f.k \notin ArpKinds
      BY <3>2 DEF Tells
    <3> QED
      BY ZenonT(60), <1>6, <3>1, <3>2 DEF ArpKinds
  <2>3. Covered(rx_ring', arp_table)
    <3>1. CASE rx_ring' = Append(rx_ring, f)
      BY ZenonT(60), <1>1, <1>2, <1>8, <2>1, <3>1, CoveredAppend DEF HeardInv
    <3> QED
      BY ZenonT(60), <1>6, <2>1, <3>1 DEF HeardInv
  <2>4. ASSUME NEW x \in Hosts PROVE Covered(out'[x], arp_table \cup Told(rx_ring'))
    <3>1. CASE x = h
      <4>1. arp_table \cup Told(rx_ring) \cup Tells(f) = arp_table \cup Told(rx_ring')
        BY Zenon, <2>2
      <4> QED
        BY ZenonT(60), <1>8, <2>1, <3>1, <4>1
    <3>2. CASE x # h
      <4>1. Covered(out[x], arp_table \cup Told(rx_ring))
        BY <2>1 DEF HeardInv
      <4>2. arp_table \cup Told(rx_ring) \subseteq arp_table \cup Told(rx_ring')
        BY Zenon, <2>2
      <4> QED
        BY Zenon, <1>3, <3>2, <4>1, <4>2, CoveredMore
    <3> QED
      BY <3>1, <3>2
  <2>5. \A x \in Hosts : x \in knows => x \in arp_table \cup Told(rx_ring') \cup Told(out'[x])
    BY Zenon, <1>3, <1>7, <2>1, <2>2 DEF HeardInv
  <2>6. irq # "stuck"
    BY <2>1 DEF HeardInv
  <2> QED
    BY Zenon, <1>4, <2>3, <2>4, <2>5, <2>6 DEF HeardInv
<1> QED
  BY <1>9, <1>10

heard == <<arp_table, rx_ring, out, knows, irq, unheard>>

\* A step that only changes our own messages keeps what was heard.
LEMMA FrameOnly ==
  ASSUME FrameInv, HeardInv, UNCHANGED heard,
         msg'.k \notin ArpKinds, PKT_BUF'.header.k \notin ArpKinds, Good(FRAME', arp_table),
         \A i \in 1 .. Len(tx') : Good(tx'[i], arp_table)
  PROVE  FrameInv' /\ HeardInv'
BY ZenonT(60) DEF FrameInv, HeardInv, heard

LEMMA KeepsFrames ==
  ASSUME FrameInv, HeardInv, UNCHANGED <<heard, msg, PKT_BUF, FRAME, tx>>
  PROVE  FrameInv' /\ HeardInv'
BY Zenon DEF FrameInv, HeardInv, heard

LEMMA HeardThread == ASSUME TypeOK, FrameInv, HeardInv, Thread PROVE FrameInv' /\ HeardInv'
<1>1. PKT_BUF \in [header : Msgs, body : Msgs] /\ tx \in Seq(Packets) /\ FRAME \in Packets
  BY DEF TypeOK
<1>2. UNCHANGED heard
  BY ZenonT(60) DEF Thread, SendHeader, SendBody, Request, SendRequest, GiveUp, Wait, Build, Send, Hlt,
     PollReply, PollAnswer, heard, nic, buffers, network, history
<1>3. msg.k \notin ArpKinds /\ PKT_BUF.header.k \notin ArpKinds /\ Good(FRAME, arp_table)
      /\ \A i \in 1 .. Len(tx) : Good(tx[i], arp_table)
  BY Zenon DEF FrameInv
<1>4. CASE SendHeader \/ SendBody
  <2>1. PKT_BUF'.header.k \notin ArpKinds /\ UNCHANGED <<msg, FRAME, tx>>
    BY Zenon, <1>1, <1>3, <1>4 DEF SendHeader, SendBody, nic
  <2> QED
    BY <1>2, <1>3, <2>1, FrameOnly
<1>5. CASE Request \/ Build
  <2>1. Good(FRAME', arp_table)
    <3>1. CASE Request
      BY ZenonT(60), <3>1, HopIsHost, GoodArp DEF Request
    <3>2. CASE Build
      BY ZenonT(60), <1>3, <3>2, GoodIp DEF Build
    <3> QED
      BY <1>5, <3>1, <3>2
  <2>2. UNCHANGED <<msg, PKT_BUF, tx>>
    BY ZenonT(60), <1>5 DEF Request, Build, nic
  <2> QED
    BY <1>2, <1>3, <2>1, <2>2, FrameOnly
<1>6. CASE SendRequest \/ Send
  <2>1. tx' = Queued(tx, FRAME) /\ UNCHANGED <<msg, PKT_BUF, FRAME>>
    BY ZenonT(60), <1>6 DEF SendRequest, Send, buffers
  <2>2. \A i \in 1 .. Len(tx') : Good(tx'[i], arp_table)
    BY ZenonT(60), <1>1, <1>3, <2>1, GoodQueued
  <2> QED
    BY Zenon, <1>2, <1>3, <2>1, <2>2, FrameOnly
<1>7. CASE PollReply \/ PollAnswer
  <2>1. NoMsg.k \notin ArpKinds /\ Echo(msg.to, msg.v + 1).k \notin ArpKinds
    BY DEF NoMsg, Echo, Msg, ArpKinds
  <2>2. msg' \in {msg, NoMsg, Echo(msg.to, msg.v + 1)} /\ UNCHANGED <<PKT_BUF, FRAME, tx>>
    BY ZenonT(60), <1>7 DEF PollReply, PollAnswer, NextEcho, nic
  <2> QED
    BY ZenonT(60), <1>2, <1>3, <2>1, <2>2, FrameOnly
<1>8. CASE GiveUp \/ Wait \/ Hlt
  BY ZenonT(60), <1>2, <1>8, KeepsFrames DEF GiveUp, Wait, Hlt, nic, buffers
<1> QED
  BY Zenon, <1>4, <1>5, <1>6, <1>7, <1>8 DEF Thread

LEMMA HeardStep == Room /\ TypeOK /\ FrameInv /\ HeardInv /\ [Next]_vars => FrameInv' /\ HeardInv'
<1> SUFFICES ASSUME Room, TypeOK, FrameInv, HeardInv, [Next]_vars PROVE FrameInv' /\ HeardInv'
  OBVIOUS
<1>1. ASSUME NEW ip \in Targets, Ping(ip) PROVE FrameInv' /\ HeardInv'
  <2>1. msg'.k \notin ArpKinds
    BY <1>1, Zenon DEF Ping, Echo, Msg, ArpKinds
  <2>2. UNCHANGED <<heard, PKT_BUF, FRAME, tx>>
    BY <1>1 DEF Ping, heard, nic, buffers, history
  <2> QED
    BY <2>1, <2>2, FrameOnly, Zenon DEF FrameInv, heard
<1>2. CASE Resolve
  <2>1. msg' = msg \/ msg' = udp_send(Server, dns'.query, left.commands)
    BY <1>2 DEF Resolve, thread
  <2>2. msg'.k \notin ArpKinds
    <3>1. udp_send(Server, dns'.query, left.commands).k = "dns query"
      BY DEF udp_send, Msg
    <3>2. "dns query" \notin ArpKinds
      BY DEF ArpKinds
    <3>3. msg.k \notin ArpKinds
      BY DEF FrameInv
    <3> QED
      BY ZenonT(60), <2>1, <3>1, <3>2, <3>3
  <2>3. UNCHANGED <<heard, PKT_BUF, FRAME, tx>>
    BY <1>2 DEF Resolve, heard, nic, history
  <2> QED
    BY <2>2, <2>3, FrameOnly, Zenon DEF FrameInv, heard
<1>3. ASSUME NEW ip \in Callers, HostPings(ip) PROVE FrameInv' /\ HeardInv'
  <2> DEFINE f == In("echo request", ip, 0, Nothing)
             h == NextHop(ip)
  <2>1. f \in Ins
    BY ZenonT(60), NetAssumption, MsgTyped DEF Any, Answers, Kinds
  <2>2. f.k = "echo request" /\ f.from = ip /\ h \in Hosts
    BY HopIsHost DEF In
  <2>3. h \in knows /\ Says(h, f) /\ UNCHANGED knows
        /\ UNCHANGED <<msg, PKT_BUF, FRAME, arp_table, rx_ring, irq, unheard, tx>>
    BY ZenonT(60), <1>3 DEF HostPings, heard, nic, thread, buffers, history
  <2> HIDE DEF f
  <2>4. ~unheard => NextHop(f.from) \in arp_table \cup Told(rx_ring) \cup Told(out[h])
    BY ZenonT(60), <2>2, <2>3 DEF HeardInv
  <2>5. f.k \notin ArpKinds /\ \A i \in 1 .. Len(tx') : Good(tx'[i], arp_table)
    BY ZenonT(60), <2>2, <2>3 DEF ArpKinds, FrameInv
  <2> HIDE DEF h
  <2> QED
    BY ZenonT(60), <2>1, <2>2, <2>3, <2>4, <2>5, SaysHeard
<1>4. ASSUME NEW h \in Hosts, HostAsks(h) PROVE FrameInv' /\ HeardInv'
  <2> DEFINE f == In("arp request", h, 0, Nothing)
  <2>1. f \in Ins
    BY ZenonT(60), MsgTyped DEF Any, Answers, Kinds
  <2>2. f.k = "arp request" /\ f.from = h
    BY DEF In
  <2>3. Says(h, f) /\ UNCHANGED knows
        /\ UNCHANGED <<msg, PKT_BUF, FRAME, arp_table, rx_ring, irq, unheard, tx>>
    BY ZenonT(60), <1>4 DEF HostAsks, nic, thread, buffers, history
  <2> HIDE DEF f
  <2>4. \A i \in 1 .. Len(tx') : Good(tx'[i], arp_table)
    BY ZenonT(60), <2>3 DEF FrameInv
  <2> QED
    BY ZenonT(60), <2>1, <2>2, <2>3, <2>4, SaysHeard
<1>5. CASE Interrupt \/ Acknowledge \/ Tick
  <2>1. irq' # "stuck" \/ UNCHANGED irq
    BY Zenon, <1>5 DEF Interrupt, Enter, Acknowledge, Ack, Tick, nic
  <2>2. UNCHANGED <<msg, PKT_BUF, FRAME, tx, arp_table, rx_ring, out, knows, unheard>>
    BY Zenon, <1>5 DEF Interrupt, Enter, Acknowledge, Ack, Tick, nic, thread, buffers, network, history
  <2> QED
    BY ZenonT(60), <2>1, <2>2 DEF FrameInv, HeardInv
<1>6. CASE UNCHANGED vars
  BY <1>6, KeepsFrames DEF vars, heard, nic, thread, buffers, network, history
<1> QED
  BY Zenon, <1>1, <1>2, <1>3, <1>4, <1>5, <1>6, FrameRx, HeardRx, HeardCard, HeardArrives, HeardThread
     DEF Next, Handler, Network

\* The handler never sleeps in arp::resolve with interrupts disabled, whatever
\* the stations, the order of frames and the sizes of the card's buffers, if the
\* ARP table has room for every station and no ARP frame to us is lost.
THEOREM HandlerNeverStuck == Spec => []NeverStuck
<1>1. Init => TypeOK /\ FrameInv /\ HeardInv
  <2> SUFFICES ASSUME Init PROVE TypeOK /\ FrameInv /\ HeardInv
    OBVIOUS
  <2>1. NoMsg.k = "none"
    BY Zenon DEF NoMsg, Msg
  <2>2. rx_ring = <<>> /\ tx = <<>> /\ arp_table = {} /\ knows = {} /\ irq = "out"
        /\ \A h \in Hosts : out[h] = <<>>
    BY Zenon DEF Init, NicInit
  <2>3. msg = NoMsg /\ PKT_BUF.header = NoMsg /\ FRAME.header = NoMsg
    BY ZenonT(60) DEF Init, Frame
  <2>4. "none" \notin ArpKinds /\ Good(FRAME, arp_table)
    BY <2>1, <2>3, Zenon DEF Good, ArpKinds
  <2>5. \A q : q = <<>> => Local(q) /\ Covered(q, arp_table) /\ Covered(q, arp_table \cup Told(rx_ring))
    <3>1. 1 .. Len(<<>>) = {}
      OBVIOUS
    <3> QED
      BY <3>1, Zenon DEF Local, Covered
  <2>6. FrameInv
    <3>1. \A i \in 1 .. Len(tx) : Good(tx[i], arp_table)
      BY <2>2
    <3> QED
      BY Zenon, <2>1, <2>2, <2>3, <2>4, <2>5, <3>1 DEF FrameInv
  <2>7. HeardInv
    BY Zenon, <2>2, <2>5 DEF HeardInv
  <2> QED
    BY <2>6, <2>7, TypeInit
<1> DEFINE I == TypeOK /\ (Room => FrameInv /\ HeardInv)
<1>2. I /\ [Next]_vars => I'
  BY Zenon, TypeStep, HeardStep DEF Room
<1>3. I => NeverStuck
  BY DEF NeverStuck, HeardInv, Room
<1> QED
  BY <1>1, <1>2, <1>3, PTL DEF Spec

-----------------------------------------------------------------------------
(* The answer that dns::resolve returns.                                   *)

\* The query ids do not come round.
FewQueries == MaxCommands < ID_MOD

\* A query or an answer on its way has an id that was given out, and if that is
\* the current one it is for the current name.
Asked(v, n) == v \in 1 .. dns.query /\ (cmd = "resolve" /\ v = dns.query => n = msg.n)
Query(m)    == m.k = "dns query" => Asked(m.v, m.n)
Reply(f)    == f.k = "dns answer" => Asked(f.v, f.n)

DnsInv ==
  /\ pc = "idle" => cmd = "none"
  /\ cmd = "resolve" => msg.k = "dns query" /\ msg.v = dns.query
  /\ Query(msg) /\ Query(PKT_BUF.body) /\ Query(FRAME.body)
  /\ \A i \in 1 .. Len(tx) : Query(tx[i].body)
  /\ \A h \in Hosts : \A i \in 1 .. Len(out[h]) : Reply(out[h][i])
  /\ \A i \in 1 .. Len(rx_ring) : Reply(rx_ring[i])
  /\ cmd = "resolve" /\ Answered => dns.ip = msg.n
  /\ dns.query + left.commands <= MaxCommands

\* A step that starts no query may move what is on its way, if it makes up none.
LEMMA DnsKept ==
  ASSUME DnsInv, dns'.query = dns.query, cmd' = "resolve" => cmd = "resolve" /\ msg' = msg,
         pc' = "idle" => cmd' = "none",
         Query(msg'), Query(PKT_BUF'.body), Query(FRAME'.body),
         \A i \in 1 .. Len(tx') : Query(tx'[i].body),
         \A h \in Hosts : \A i \in 1 .. Len(out'[h]) : Reply(out'[h][i]),
         \A i \in 1 .. Len(rx_ring') : Reply(rx_ring'[i]),
         cmd' = "resolve" /\ Answered' => dns'.ip = msg'.n,
         left'.commands = left.commands
  PROVE  DnsInv'
<1>1. \A v, n : Asked(v, n) => Asked(v, n)'
  BY DEF Asked
<1>2. \A m : (Query(m) => Query(m)') /\ (Reply(m) => Reply(m)')
  BY ZenonT(60), <1>1 DEF Query, Reply
<1>3. \A h \in Hosts : \A i \in 1 .. Len(out'[h]) : Reply(out[h][i])'
  BY Zenon, <1>2
<1>4. \A i \in 1 .. Len(tx') : Query(tx[i].body)'
  BY Zenon, <1>2
<1>5. \A i \in 1 .. Len(rx_ring') : Reply(rx_ring[i])'
  BY ZenonT(60), <1>2
<1>6. Query(msg)' /\ Query(PKT_BUF.body)' /\ Query(FRAME.body)'
  BY ZenonT(60), <1>2
<1>7. cmd' = "resolve" => msg'.k = "dns query" /\ msg'.v = dns'.query
  BY ZenonT(60) DEF DnsInv
<1>8. dns'.query + left'.commands <= MaxCommands
  BY Zenon DEF DnsInv
<1> QED
  BY ZenonT(60), <1>3, <1>4, <1>5, <1>6, <1>7, <1>8 DEF DnsInv

\* What happens to a queue of frames: one joins it or the first one leaves.
LEMMA ReplyAppend ==
  ASSUME NEW q \in Seq(Ins), NEW f \in Ins, Reply(f), \A i \in 1 .. Len(q) : Reply(q[i])
  PROVE  \A i \in 1 .. Len(Append(q, f)) : Reply(Append(q, f)[i])
BY ZenonT(60), AppendIndex

LEMMA ReplyTail ==
  ASSUME NEW q \in Seq(Ins), q # <<>>, \A i \in 1 .. Len(q) : Reply(q[i])
  PROVE  Reply(Head(q)) /\ \A i \in 1 .. Len(Tail(q)) : Reply(Tail(q)[i])
<1>1. Len(q) \in Nat \ {0} /\ Len(Tail(q)) = Len(q) - 1
  BY TailFacts
<1>2. 1 \in 1 .. Len(q) /\ \A i \in 1 .. Len(Tail(q)) : i + 1 \in 1 .. Len(q)
  BY <1>1
<1>3. Head(q) = q[1] /\ \A i \in 1 .. Len(Tail(q)) : Tail(q)[i] = q[i + 1]
  BY TailFacts, Zenon
<1> QED
  BY <1>2, <1>3, Zenon

LEMMA QueryQueued ==
  ASSUME NEW q \in Seq(Packets), NEW f \in Packets, Query(f.body),
         \A i \in 1 .. Len(q) : Query(q[i].body)
  PROVE  \A i \in 1 .. Len(Queued(q, f)) : Query(Queued(q, f)[i].body)
BY QueuedTyped, Zenon

LEMMA DnsRx == ASSUME TypeOK, DnsInv, Rx PROVE DnsInv'
<1> DEFINE f == Head(rx_ring)
<1>1. rx_ring \in Seq(Ins) /\ rx_ring # <<>> /\ net_rx(f) /\ rx_ring' = Tail(rx_ring)
      /\ UNCHANGED <<thread, out, left>>
  BY DEF TypeOK, Rx, network
<1>2. Reply(f) /\ \A i \in 1 .. Len(rx_ring') : Reply(rx_ring'[i])
  BY <1>1, ReplyTail, Zenon DEF DnsInv
<1>3. dns \in [query : Nat, ready : BOOLEAN, id : Nat, ip : Answers] /\ tx \in Seq(Packets)
      /\ f \in Ins
  BY <1>1, TailFacts DEF TypeOK
<1> HIDE DEF f
<1>4. ASSUME UNCHANGED dns, Query(PKT_BUF'.body), Query(FRAME'.body),
             \A i \in 1 .. Len(tx') : Query(tx'[i].body)
      PROVE  DnsInv'
  BY Zenon, <1>1, <1>2, <1>4, DnsKept DEF DnsInv, thread, Answered
<1>5. ASSUME NEW g \in Packets, Query(g.body), Transmit(g)
      PROVE  Query(FRAME'.body) /\ \A i \in 1 .. Len(tx') : Query(tx'[i].body)
  BY Zenon, <1>3, <1>5, QueryQueued DEF Transmit, DnsInv
<1>6. CASE arp_rx(f)
  <2>1. Arp("arp reply", f.from) \in Packets
    BY <1>3, ArpTyped, Zenon DEF Kinds, Ins
  <2>2. Query(Arp("arp reply", f.from).body)
    BY Zenon DEF Arp, Frame, Msg, Query
  <2>3. UNCHANGED <<dns, PKT_BUF>>
        /\ (Transmit(Arp("arp reply", f.from)) \/ UNCHANGED <<tx, FRAME>>)
    BY <1>6, Zenon DEF arp_rx
  <2> QED
    BY Zenon, <1>4, <1>5, <2>1, <2>2, <2>3 DEF DnsInv
<1>7. CASE icmp_rx_request(f)
  <2> DEFINE m == Msg("echo reply", f.from, 0, Nothing)
             hop == NextHop(f.from)
  <2>1. m \in Msgs /\ hop \in Any
    <3>1. m \in Msgs
      BY <1>3, Zenon DEF Msg, Msgs, Answers, Kinds, Ins
    <3> QED
      BY ZenonT(60), <3>1, HopIsHost DEF Any
  <2>2. Frame(hop, m, m) \in Packets /\ Arp("arp request", hop) \in Packets
    BY ZenonT(60), <2>1, FrameTyped, ArpTyped DEF Kinds
  <2>3. Query(m) /\ Query(Frame(hop, m, m).body) /\ Query(Arp("arp request", hop).body)
    BY Zenon DEF Arp, Frame, Msg, Query
  <2>4. PKT_BUF' = [header |-> m, body |-> m] /\ UNCHANGED dns
        /\ (Transmit(Frame(hop, m, m)) \/ Transmit(Arp("arp request", hop)))
    BY ZenonT(60), <1>7 DEF icmp_rx_request
  <2> HIDE DEF m, hop
  <2>5. Query(PKT_BUF'.body)
    BY <2>3, <2>4, Zenon
  <2> QED
    BY Zenon, <1>4, <1>5, <2>2, <2>3, <2>4, <2>5
<1>8. CASE icmp_rx_reply(f)
  BY <1>4, <1>8, Zenon DEF icmp_rx_reply, DnsInv
<1>9. CASE udp_rx(f)
  <2>1. UNCHANGED <<tx, PKT_BUF, FRAME>> /\ f.k = "dns answer"
        /\ dns' = IF f.v = dns.query
                  THEN [dns EXCEPT !.ready = TRUE, !.id = f.v, !.ip = f.n] ELSE dns
    BY <1>9, Zenon DEF udp_rx, dns_rx
  <2>2. CASE f.v # dns.query
    BY Zenon, <1>4, <2>1, <2>2 DEF DnsInv
  <2>3. CASE f.v = dns.query
    <3>1. dns'.query = dns.query /\ dns'.ip = f.n
      BY <1>3, <2>1, <2>3, Zenon
    <3>2. cmd = "resolve" => f.n = msg.n
      BY <1>2, <2>1, <2>3, Zenon DEF Reply, Asked
    <3> QED
      BY Zenon, <1>1, <1>2, <2>1, <3>1, <3>2, DnsKept DEF DnsInv, thread
  <2> QED
    BY <2>2, <2>3
<1> QED
  BY Zenon, <1>1, <1>6, <1>7, <1>8, <1>9 DEF net_rx, ipv4_rx

\* The stations and the card only repeat what was asked.
LEMMA DnsNetwork ==
  ASSUME TypeOK, DnsInv, UNCHANGED <<thread, buffers>>, left'.commands = left.commands,
         \A i \in 1 .. Len(tx') : Query(tx'[i].body),
         \A h \in Hosts : \A i \in 1 .. Len(out'[h]) : Reply(out'[h][i]),
         \A i \in 1 .. Len(rx_ring') : Reply(rx_ring'[i])
  PROVE  DnsInv'
BY Zenon, DnsKept DEF DnsInv, thread, buffers, Answered

LEMMA EventCommands ==
  ASSUME TypeOK, Event \/ UNCHANGED left PROVE left'.commands = left.commands
BY Zenon DEF TypeOK, Event

LEMMA SaysReplies ==
  ASSUME TypeOK, DnsInv, NEW h, NEW f \in Ins, Reply(f), Says(h, f)
  PROVE  \A g \in Hosts : \A i \in 1 .. Len(out'[g]) : Reply(out'[g][i])
<1> SUFFICES ASSUME NEW g \in Hosts PROVE \A i \in 1 .. Len(out'[g]) : Reply(out'[g][i])
  OBVIOUS
<1>1. out[g] \in Seq(Ins) /\ \A i \in 1 .. Len(out[g]) : Reply(out[g][i])
  BY Zenon DEF TypeOK, DnsInv
<1>2. out'[g] = IF g = h THEN Append(out[g], f) ELSE out[g]
  BY Zenon DEF Says, TypeOK
<1> QED
  BY Zenon, <1>1, <1>2, ReplyAppend

LEMMA DnsCard == ASSUME TypeOK, DnsInv, CardSends PROVE DnsInv'
<1> DEFINE f == Head(tx)
<1>1. tx \in Seq(Packets) /\ tx # <<>> /\ tx' = Tail(tx) /\ UNCHANGED <<thread, buffers, rx_ring>>
  BY DEF TypeOK, CardSends
<1>2. f \in Packets /\ f = tx[1] /\ Len(tx) \in Nat \ {0} /\ Len(Tail(tx)) = Len(tx) - 1
      /\ \A i \in 1 .. Len(Tail(tx)) : Tail(tx)[i] = tx[i + 1]
  BY <1>1
<1>3. 1 \in 1 .. Len(tx) /\ \A i \in 1 .. Len(tx') : i + 1 \in 1 .. Len(tx)
  BY <1>1, <1>2
<1>4. Query(f.body) /\ \A i \in 1 .. Len(tx') : Query(tx'[i].body)
  BY Zenon, <1>1, <1>2, <1>3 DEF DnsInv
<1>5. (Answer(f) /\ UNCHANGED left) \/ (Event /\ UNCHANGED out)
  BY ZenonT(60) DEF CardSends
<1>6. f.header.to \in Any /\ f.body.v \in Nat /\ f.body.n \in Answers
  BY <1>2 DEF Packets, Msgs
<1> HIDE DEF f
<1>7. In("arp reply", f.header.to, 0, Nothing) \in Ins
      /\ In("echo reply", f.header.to, 0, Nothing) \in Ins
      /\ In("dns answer", f.header.to, f.body.v, f.body.n) \in Ins
  BY ZenonT(60), <1>6, MsgTyped DEF Answers, Kinds
<1>8. Reply(In("arp reply", f.header.to, 0, Nothing))
      /\ Reply(In("echo reply", f.header.to, 0, Nothing))
      /\ (f.body.k = "dns query" => Reply(In("dns answer", f.header.to, f.body.v, f.body.n)))
  BY <1>4, Zenon DEF In, Reply, Query
<1>9. Answer(f) => \/ UNCHANGED out
                   \/ \E h : \E g \in Ins : Reply(g) /\ Says(h, g)
  BY <1>7, <1>8, Zenon DEF Answer
<1>10. \A h \in Hosts : \A i \in 1 .. Len(out'[h]) : Reply(out'[h][i])
  BY ZenonT(60), <1>5, <1>9, SaysReplies DEF DnsInv
<1>11. \A i \in 1 .. Len(rx_ring') : Reply(rx_ring'[i])
  BY ZenonT(60), <1>1 DEF DnsInv
<1> QED
  BY Zenon, <1>1, <1>4, <1>5, <1>10, <1>11, DnsNetwork, EventCommands

LEMMA DnsArrives == ASSUME TypeOK, DnsInv, NEW h \in Hosts, Arrives(h) PROVE DnsInv'
<1> DEFINE f == Head(out[h])
<1>1. out[h] \in Seq(Ins) /\ out[h] # <<>> /\ \A i \in 1 .. Len(out[h]) : Reply(out[h][i])
  BY ZenonT(60) DEF Arrives, TypeOK, DnsInv
<1>2. Reply(f) /\ f \in Ins /\ \A i \in 1 .. Len(Tail(out[h])) : Reply(Tail(out[h])[i])
  BY <1>1, ReplyTail, TailFacts
<1>3. /\ out' = [out EXCEPT ![h] = Tail(@)] /\ UNCHANGED <<thread, buffers>>
      /\ FrameStored(f) \/ UNCHANGED nic
      /\ Event \/ UNCHANGED left
  BY Zenon DEF Arrives
<1>4. \A g \in Hosts : out'[g] = IF g = h THEN Tail(out[h]) ELSE out[g]
  BY <1>3 DEF TypeOK
<1>5. \A g \in Hosts : \A i \in 1 .. Len(out'[g]) : Reply(out'[g][i])
  BY <1>2, <1>4, Zenon DEF DnsInv
<1> HIDE DEF f
<1>6. tx' = tx /\ (rx_ring' = rx_ring \/ rx_ring' = Append(rx_ring, f))
  BY <1>3 DEF FrameStored, nic
<1>7. \A i \in 1 .. Len(rx_ring') : Reply(rx_ring'[i])
  BY ZenonT(60), <1>2, <1>6, ReplyAppend DEF DnsInv, TypeOK
<1>8. \A i \in 1 .. Len(tx') : Query(tx'[i].body)
  BY <1>6, Zenon DEF DnsInv
<1> QED
  BY Zenon, <1>3, <1>5, <1>7, <1>8, DnsNetwork, EventCommands

LEMMA DnsThread == ASSUME TypeOK, DnsInv, Thread PROVE DnsInv'
<1>1. /\ PKT_BUF \in [header : Msgs, body : Msgs] /\ tx \in Seq(Packets) /\ FRAME \in Packets
      /\ dns \in [query : Nat, ready : BOOLEAN, id : Nat, ip : Answers]
  BY DEF TypeOK
<1>2. UNCHANGED <<rx_ring, out, left>>
  BY Zenon DEF Thread, SendHeader, SendBody, Request, SendRequest, GiveUp, Wait, Build, Send, Hlt,
     PollReply, PollAnswer, nic, network
<1>3. ASSUME UNCHANGED <<dns, cmd, msg>>, pc' # "idle",
             Query(PKT_BUF'.body), Query(FRAME'.body), \A i \in 1 .. Len(tx') : Query(tx'[i].body)
      PROVE  DnsInv'
  BY Zenon, <1>2, <1>3, DnsKept DEF DnsInv, Answered
<1>4. CASE SendHeader \/ SendBody
  <2>1. PKT_BUF'.body \in {PKT_BUF.body, msg} /\ UNCHANGED <<dns, cmd, msg, FRAME, tx>>
        /\ pc' # "idle"
    BY <1>1, <1>4 DEF SendHeader, SendBody, nic, Goto
  <2> QED
    BY Zenon, <1>3, <2>1 DEF DnsInv
<1>5. CASE Request \/ Build
  <2>1. Query(FRAME'.body)
    <3>1. CASE Request
      BY ZenonT(60), <3>1 DEF Request, Arp, Frame, Msg, Query
    <3>2. CASE Build
      BY <3>2, Zenon DEF Build, Frame, DnsInv
    <3> QED
      BY <1>5, <3>1, <3>2
  <2>2. UNCHANGED <<dns, cmd, msg, PKT_BUF, tx>> /\ pc' # "idle"
    BY ZenonT(60), <1>5 DEF Request, Build, nic, Goto
  <2> QED
    BY Zenon, <1>3, <2>1, <2>2 DEF DnsInv
<1>6. CASE SendRequest \/ Send
  <2>1. tx' = Queued(tx, FRAME) /\ UNCHANGED <<dns, cmd, msg, PKT_BUF, FRAME>> /\ pc' # "idle"
    BY ZenonT(60), <1>6 DEF SendRequest, Send, Sent, Goto, buffers
  <2>2. \A i \in 1 .. Len(tx') : Query(tx'[i].body)
    BY Zenon, <1>1, <2>1, QueryQueued DEF DnsInv
  <2> QED
    BY Zenon, <1>3, <2>1, <2>2 DEF DnsInv
<1>7. CASE PollReply
  <2>1. cmd = "ping" /\ UNCHANGED <<dns, PKT_BUF, FRAME, tx>>
    BY <1>7, Zenon DEF PollReply, nic
  <2>2. \/ pc' # "idle" /\ UNCHANGED cmd
        \/ cmd' = "none"
    BY <1>7, Zenon DEF PollReply, NextEcho, Goto
  <2>3. msg' \in {msg, NoMsg, Echo(msg.to, msg.v + 1)}
    BY ZenonT(60), <1>7 DEF PollReply, NextEcho
  <2>4. Query(NoMsg) /\ Query(Echo(msg.to, msg.v + 1))
    BY DEF NoMsg, Echo, Msg, Query
  <2>5. cmd' # "resolve" /\ (pc' = "idle" => cmd' = "none")
    BY <2>1, <2>2
  <2>6. Query(msg')
    BY <2>3, <2>4, Zenon DEF DnsInv
  <2> QED
    BY Zenon, <1>2, <2>1, <2>5, <2>6, DnsKept DEF DnsInv
<1>8. CASE PollAnswer
  <2>1. UNCHANGED <<PKT_BUF, FRAME, tx>> /\ dns' \in {dns, [dns EXCEPT !.ready = FALSE]}
    BY <1>8, Zenon DEF PollAnswer, nic
  <2>2. \/ pc' # "idle" /\ UNCHANGED <<cmd, msg, dns>>
        \/ cmd' = "none" /\ msg' = NoMsg
    BY <1>8, Zenon DEF PollAnswer, Goto
  <2>3. Query(NoMsg) /\ dns'.query = dns.query
    BY <1>1, <2>1 DEF NoMsg, Msg, Query
  <2>4. Query(msg') /\ (pc' = "idle" => cmd' = "none")
        /\ (cmd' = "resolve" => cmd = "resolve" /\ msg' = msg /\ dns' = dns)
    BY <2>2, <2>3, Zenon DEF DnsInv
  <2> QED
    BY ZenonT(60), <1>2, <2>1, <2>3, <2>4, DnsKept DEF DnsInv, Answered
<1>9. CASE GiveUp \/ Wait \/ Hlt
  BY Zenon, <1>3, <1>9 DEF GiveUp, Wait, Hlt, Sent, Goto, nic, buffers, DnsInv
<1> QED
  BY Zenon, <1>4, <1>5, <1>6, <1>7, <1>8, <1>9 DEF Thread

\* A new query has an id that nothing on its way has.
LEMMA DnsResolve == ASSUME FewQueries, TypeOK, DnsInv, Resolve PROVE DnsInv'
<1>1. /\ dns \in [query : Nat, ready : BOOLEAN, id : Nat, ip : Answers]
      /\ left \in [commands : Nat, events : Nat] /\ MaxCommands \in Nat /\ ID_MOD \in Nat \ {0}
  BY ZenonT(60), NetAssumption DEF TypeOK
<1>2. /\ pc = "idle" /\ left.commands > 0
      /\ left' = [left EXCEPT !.commands = @ - 1]
      /\ dns' = [dns EXCEPT !.query = NextQueryId(@), !.ready = FALSE]
      /\ \/ UNCHANGED thread
         \/ cmd' = "resolve" /\ msg' = udp_send(Server, dns'.query, left.commands) /\ pc' = "header"
      /\ UNCHANGED <<tx, rx_ring, out, PKT_BUF, FRAME>>
  BY Zenon DEF Resolve, At, Goto, nic
<1>3. dns.query + left.commands <= MaxCommands /\ cmd = "none"
  BY Zenon, <1>2 DEF DnsInv
<1>4. NextQueryId(dns.query) = dns.query + 1
  <2>1. dns.query + 1 \in Nat /\ dns.query + 1 < ID_MOD
    BY <1>1, <1>2, <1>3 DEF FewQueries
  <2> QED
    BY <1>1, <2>1 DEF NextQueryId
<1>5. dns'.query = dns.query + 1 /\ dns'.ready = FALSE /\ dns.query \in Nat
      /\ left'.commands = left.commands - 1 /\ left.commands \in Nat
  BY Zenon, <1>1, <1>2, <1>4
<1>6. \A v, n : Asked(v, n) => Asked(v, n)'
  BY <1>5 DEF Asked
<1>7. \A m : (Query(m) => Query(m)') /\ (Reply(m) => Reply(m)')
  BY <1>6, Zenon DEF Query, Reply
<1>8. \A h \in Hosts : \A i \in 1 .. Len(out'[h]) : Reply(out[h][i])'
  BY <1>2, <1>7 DEF DnsInv
<1>9. (\A i \in 1 .. Len(tx') : Query(tx[i].body)') /\ \A i \in 1 .. Len(rx_ring') : Reply(rx_ring[i])'
  BY <1>2, <1>7 DEF DnsInv
<1>10. Query(PKT_BUF.body)' /\ Query(FRAME.body)'
  BY ZenonT(60), <1>2, <1>7 DEF DnsInv
<1>11. CASE UNCHANGED thread
  <2>1. Query(msg)' /\ cmd' = "none"
    BY Zenon, <1>3, <1>7, <1>11 DEF DnsInv, thread
  <2>2. dns'.query + left'.commands <= MaxCommands
    BY <1>3, <1>5
  <2> QED
    BY <1>2, <1>8, <1>9, <1>10, <2>1, <2>2, ZenonT(60) DEF DnsInv
<1>12. CASE cmd' = "resolve" /\ msg' = udp_send(Server, dns'.query, left.commands) /\ pc' = "header"
  <2>1. msg'.k = "dns query" /\ msg'.v = dns'.query
    BY <1>12, Zenon DEF udp_send, Msg
  <2>2. Query(msg)'
    <3>1. dns'.query \in 1 .. dns'.query
      BY <1>5
    <3> QED
      BY ZenonT(60), <2>1, <3>1 DEF Query, Asked
  <2>3. dns'.query + left'.commands <= MaxCommands
    BY <1>1, <1>3, <1>5
  <2>4. ~Answered'
    BY <1>5 DEF Answered
  <2>5. pc' # "idle"
    BY <1>12
  <2> QED
    BY ZenonT(60), <1>8, <1>9, <1>10, <2>1, <2>2, <2>3, <2>4, <2>5 DEF DnsInv
<1> QED
  BY ZenonT(60), <1>2, <1>11, <1>12

LEMMA DnsStep == FewQueries /\ TypeOK /\ DnsInv /\ [Next]_vars => DnsInv'
<1> SUFFICES ASSUME FewQueries, TypeOK, DnsInv, [Next]_vars PROVE DnsInv'
  OBVIOUS
<1>1. ASSUME NEW ip \in Targets, Ping(ip) PROVE DnsInv'
  <2>1. /\ cmd' = "ping" /\ msg' = Echo(ip, 1) /\ pc' = "header" /\ left.commands > 0
        /\ left' = [left EXCEPT !.commands = @ - 1]
        /\ UNCHANGED <<dns, tx, rx_ring, out, PKT_BUF, FRAME>>
    BY Zenon, <1>1 DEF Ping, Goto, nic, buffers
  <2>2. left.commands \in Nat /\ left'.commands = left.commands - 1
        /\ dns.query \in Nat /\ MaxCommands \in Nat
    BY <2>1, NetAssumption DEF TypeOK
  <2>3. \A m : (Query(m) => Query(m)') /\ (Reply(m) => Reply(m)')
    BY <2>1, Zenon DEF Query, Reply, Asked
  <2>4. Query(msg)'
    BY <2>1, Zenon DEF Query, Echo, Msg
  <2>5. \A h \in Hosts : \A i \in 1 .. Len(out'[h]) : Reply(out[h][i])'
    BY <2>1, <2>3, Zenon DEF DnsInv
  <2>6. (\A i \in 1 .. Len(tx') : Query(tx[i].body)') /\ \A i \in 1 .. Len(rx_ring') : Reply(rx_ring[i])'
    BY <2>1, <2>3, Zenon DEF DnsInv
  <2>7. Query(PKT_BUF.body)' /\ Query(FRAME.body)'
    BY <2>1, <2>3, Zenon DEF DnsInv
  <2>8. dns'.query + left'.commands <= MaxCommands
    <3>1. dns.query + left.commands <= MaxCommands
      BY Zenon DEF DnsInv
    <3>2. dns'.query = dns.query
      BY <2>1
    <3> QED
      BY <2>2, <3>1, <3>2
  <2>9. cmd' # "resolve" /\ pc' # "idle"
    BY <2>1
  <2> QED
    BY ZenonT(60), <2>4, <2>5, <2>6, <2>7, <2>8, <2>9 DEF DnsInv
<1>2. ASSUME NEW ip \in Callers, HostPings(ip) PROVE DnsInv'
  <2> DEFINE f == In("echo request", ip, 0, Nothing)
  <2>1. f \in Ins
    BY Zenon, NetAssumption DEF In, Ins, Any, Answers, Kinds
  <2>2. Reply(f)
    BY DEF In, Reply
  <2>3. Says(NextHop(ip), f) /\ Event /\ UNCHANGED <<thread, buffers, tx, rx_ring>>
    BY <1>2, Zenon DEF HostPings, nic
  <2> HIDE DEF f
  <2> QED
    BY ZenonT(60), <2>1, <2>2, <2>3, SaysReplies, EventCommands, DnsNetwork DEF DnsInv
<1>3. ASSUME NEW h \in Hosts, HostAsks(h) PROVE DnsInv'
  <2> DEFINE f == In("arp request", h, 0, Nothing)
  <2>1. f \in Ins
    BY ZenonT(60), MsgTyped DEF Any, Answers, Kinds
  <2>2. Reply(f)
    BY DEF In, Reply
  <2>3. Says(h, f) /\ Event /\ UNCHANGED <<thread, buffers, tx, rx_ring>>
    BY ZenonT(60), <1>3 DEF HostAsks, nic
  <2> HIDE DEF f
  <2> QED
    BY ZenonT(60), <2>1, <2>2, <2>3, SaysReplies, EventCommands, DnsNetwork DEF DnsInv
<1>4. CASE Interrupt \/ Acknowledge \/ Tick
  <2>1. UNCHANGED <<pc, cmd, msg, buffers, tx, rx_ring, out, left>>
    BY <1>4, Zenon DEF Interrupt, Enter, Acknowledge, Ack, Tick, nic, thread, network
  <2> QED
    BY ZenonT(60), <2>1 DEF buffers, DnsInv, Query, Reply, Asked, Answered
<1>5. CASE UNCHANGED vars
  BY <1>5, Zenon DEF vars, nic, thread, buffers, network, DnsInv, Query, Reply, Asked, Answered
<1> QED
  BY <1>1, <1>2, <1>3, <1>4, <1>5, DnsRx, DnsResolve, DnsCard, DnsArrives, DnsThread
     DEF Next, Handler, Network

LEMMA TicksTyped == cmd_ticks \in Nat /\ [Next]_vars => cmd_ticks' \in Nat
<1> SUFFICES ASSUME cmd_ticks \in Nat, [Next]_vars PROVE cmd_ticks' \in Nat
  BY Zenon
<1>1. CASE Tick
  BY <1>1 DEF Tick
<1>2. cmd_ticks' \in {cmd_ticks, 0} \/ Tick
  BY Zenon DEF Next, Thread, Handler, Network, vars, SendHeader, SendBody, Request, SendRequest,
     GiveUp, Wait, Build, Send, Sent, Hlt, PollReply, NextEcho, PollAnswer, Ping, Resolve, HostPings,
     HostAsks, Arrives, CardSends, Interrupt, Rx, Acknowledge, thread
<1> QED
  BY <1>1, <1>2

\* dns::resolve returns the answer to the name it was given, whatever earlier
\* queries were given up, lost, answered late or answered twice, as long as the
\* 16-bit query ids have not come round.
THEOREM DnsAlwaysRight == ASSUME FewQueries PROVE Spec => DnsRight
<1>1. Init => TypeOK /\ DnsInv
  <2> SUFFICES ASSUME Init PROVE DnsInv
    BY TypeInit
  <2>1. NoMsg.k = "none"
    BY Zenon DEF NoMsg, Msg
  <2>2. /\ rx_ring = <<>> /\ tx = <<>> /\ cmd = "none" /\ dns.query = 0
        /\ left.commands = MaxCommands /\ \A h \in Hosts : out[h] = <<>>
    BY Zenon DEF Init, NicInit
  <2>3. msg = NoMsg /\ PKT_BUF.body = NoMsg /\ FRAME.body = NoMsg
    BY Zenon DEF Init, Frame
  <2>4. dns.query + left.commands <= MaxCommands /\ 1 .. Len(<<>>) = {}
    BY <2>2, NetAssumption
  <2>5. Query(msg) /\ Query(PKT_BUF.body) /\ Query(FRAME.body)
    BY <2>1, <2>3, Zenon DEF Query
  <2> QED
    BY Zenon, <2>2, <2>4, <2>5 DEF DnsInv
<1>2. TypeOK /\ DnsInv /\ [Next]_vars => DnsInv'
  BY DnsStep
<1>3. TypeOK /\ DnsInv /\ cmd_ticks \in Nat /\ [Next]_vars =>
        (cmd = "resolve" /\ cmd' = "none" /\ cmd_ticks < WAIT_TICKS => dns.ip = msg.n)
  <2> SUFFICES ASSUME TypeOK, DnsInv, cmd_ticks \in Nat, [Next]_vars,
                      cmd = "resolve", cmd' = "none", cmd_ticks < WAIT_TICKS
               PROVE  dns.ip = msg.n
    BY ZenonT(60)
  <2>1. PollAnswer
    BY ZenonT(60) DEF Next, Thread, Handler, Network, vars, SendHeader, SendBody, Request, SendRequest,
       GiveUp, Wait, Build, Send, Hlt, PollReply, Goto, Ping, Resolve, HostPings,
       HostAsks, Arrives, CardSends, Interrupt, Rx, Acknowledge, Tick, thread
  <2>2. ~(cmd_ticks >= WAIT_TICKS)
    BY NetAssumption
  <2>3. Answered
    BY ZenonT(60), <2>1, <2>2 DEF PollAnswer
  <2> QED
    BY ZenonT(60), <2>3 DEF DnsInv
<1>4. Init => cmd_ticks \in Nat
  BY DEF Init
<1> DEFINE I == TypeOK /\ DnsInv /\ cmd_ticks \in Nat
           Right == cmd = "resolve" /\ cmd' = "none" /\ cmd_ticks < WAIT_TICKS => dns.ip = msg.n
<1>5. Init => I
  BY <1>1, <1>4
<1>6. I /\ [Next]_vars => I'
  BY Zenon, <1>2, TypeStep, TicksTyped
<1>7. I /\ [Next]_vars => [Right]_vars
  BY <1>3
<1> HIDE DEF I
<1> QED
  BY <1>5, <1>6, <1>7, PTL DEF Spec, DnsRight
=============================================================================
