--------------------------------- MODULE Net ---------------------------------
(***************************************************************************)
(* Ethernet, ARP, IPv4, ICMP, UDP and DNS (src/net.rs, arp.rs, ipv4.rs,    *)
(* icmp.rs, udp.rs, dns.rs) on the card of Nic: the shell's ping and       *)
(* resolve in thread 0 against the interrupt handler, which answers ARP    *)
(* requests and pings from the same static buffers.                        *)
(*                                                                         *)
(* A station's MAC is the station itself.  A message is its kind, where it *)
(* goes, a sequence number or query id and a host name; PKT_BUF is an IP   *)
(* header and a body, filled in that order.  The header is one unit: an    *)
(* interrupt among its stores ends like one before or after them, or with  *)
(* the other packet's length.  The checks of lengths and checksums are     *)
(* left out: the network delivers a frame or loses it.                     *)
(***************************************************************************)
EXTENDS Nic, FiniteSets

CONSTANTS
  Hosts,           \* stations of the subnet
  Far,             \* addresses behind the gateway
  Gateway,         \* NET_GATEWAY
  Server,          \* DNS_SERVER
  ARP_TABLE_SIZE,
  ARP_TRIES,       \* 3 in the code
  ARP_TICKS,       \* 20 in the code
  WAIT_TICKS,      \* 200 in the code
  PINGS,           \* echo requests of a ping command (4 in the code)
  ID_MOD,          \* query ids (2^16 in the code)
  Nothing,
  Targets,         \* bound: the addresses pinged from here
  Callers,         \* bound: the addresses that ping us
  MaxCommands,     \* bound: commands typed
  MaxEvents,       \* bound: frames the stations send of their own accord, and frames lost
  MaxQueue         \* bound: frames on the way from one station to us

ASSUME NetAssumption ==
  /\ IsFiniteSet(Hosts) /\ Gateway \in Hosts /\ Server \in Hosts /\ Hosts \cap Far = {}
  /\ Targets \cup Callers \subseteq Hosts \cup Far
  /\ {ARP_TABLE_SIZE, ARP_TICKS, WAIT_TICKS, MaxCommands, MaxEvents, MaxQueue} \subseteq Nat
  /\ {ARP_TRIES, PINGS, ID_MOD} \subseteq Nat \ {0}

VARIABLES
  arp_table,      \* ARP_TABLE: the stations it has
  PKT_BUF,        \* ipv4::send's buffer
  FRAME,          \* send_ethernet's buffer
  reply,          \* REPLY_RECEIVED (what the reply says is only printed)
  dns,            \* DNS_QUERY_ID, DNS_REPLY_READY, DNS_REPLY_ID, DNS_REPLY_IP
  pc,             \* where thread 0 is
  cmd,            \* its command: "none", "ping", "resolve"
  msg,            \* the message it sends
  arp_tries,      \* requests of arp::resolve, 0 outside it
  arp_ticks,      \* ticks since resolve's `start`
  cmd_ticks,      \* ticks since the command's `start`
  intr, halted,   \* RFLAGS.IF; the CPU sleeps in hlt
  knows,          \* network: the stations that know our MAC
  out,            \* network: what each station is sending us
  left,           \* bounds: what commands and events are left
  meddled,        \* history: the handler sent a packet during ipv4::send
  unheard         \* history: an ARP frame to us was lost

thread == <<pc, cmd, msg, arp_tries, arp_ticks, cmd_ticks>>
buffers == <<arp_table, PKT_BUF, FRAME, reply, dns>>
network == <<knows, out, left>>
history == <<meddled, unheard>>
vars == <<nic, thread, buffers, intr, halted, network, history>>

Msg(k, to, v, n) == [k |-> k, to |-> to, v |-> v, n |-> n]
Frame(mac, header, body) == [mac |-> mac, header |-> header, body |-> body]
Arp(k, to) == Frame(to, Msg(k, to, 0, Nothing), Msg(k, to, 0, Nothing))
In(k, from, v, n) == [k |-> k, from |-> from, v |-> v, n |-> n]
NoMsg == Msg("none", Nothing, 0, Nothing)

Init ==
  /\ NicInit
  /\ arp_table = {} /\ FRAME = Frame(Nothing, NoMsg, NoMsg)
  /\ PKT_BUF = [header |-> NoMsg, body |-> NoMsg] /\ reply = FALSE
  /\ dns = [query |-> 0, ready |-> FALSE, id |-> 0, ip |-> Nothing]
  /\ pc = "idle" /\ cmd = "none" /\ msg = NoMsg
  /\ arp_tries = 0 /\ arp_ticks = 0 /\ cmd_ticks = 0
  /\ intr = TRUE /\ halted = FALSE
  /\ knows = {} /\ out = [h \in Hosts |-> <<>>]
  /\ left = [commands |-> MaxCommands, events |-> MaxEvents]
  /\ meddled = FALSE /\ unheard = FALSE

\* ipv4::send: to a station of the subnet directly, else to the gateway.
NextHop(ip) == IF ip \in Hosts THEN ip ELSE Gateway

-----------------------------------------------------------------------------
(* The interrupt handler.  It has the CPU to itself: net::rx is one step.  *)

\* arp_table_update: a full table takes no new station.
arp_table_update(h) ==
  IF h \in arp_table \/ Cardinality(arp_table) < ARP_TABLE_SIZE
  THEN arp_table \cup {h} ELSE arp_table

\* Mutant: only replies are learnt from.
LearnReplies(f) == IF f.k = "arp reply" THEN arp_table_update(f.from) ELSE arp_table

\* "Always learn from incoming ARP packets".
Learn(f) == arp_table_update(f.from)

Transmit(f) == tx' = Queued(tx, f) /\ FRAME' = f

arp_rx(f) ==
  /\ f.k \in {"arp request", "arp reply"}
  /\ arp_table' = Learn(f)
  /\ IF f.k = "arp request" THEN Transmit(Arp("arp reply", f.from)) ELSE UNCHANGED <<tx, FRAME>>
  /\ irq' = NextAfter(Tail(rx_ring)) /\ UNCHANGED <<PKT_BUF, reply, dns, meddled>>

\* A ping from elsewhere: ipv4::send in the handler.  When the next hop is not
\* in the table, resolve sends a request and sleeps with interrupts disabled.
icmp_rx_request(f) ==
  LET m == Msg("echo reply", f.from, 0, Nothing)
      hop == NextHop(f.from)
  IN /\ f.k = "echo request"
     /\ PKT_BUF' = [header |-> m, body |-> m] /\ meddled' = (cmd # "none")
     /\ IF hop \in arp_table
        THEN Transmit(Frame(hop, m, m)) /\ irq' = NextAfter(Tail(rx_ring))
        ELSE Transmit(Arp("arp request", hop)) /\ irq' = "stuck"
     /\ UNCHANGED <<arp_table, reply, dns>>

icmp_rx_reply(f) ==
  /\ f.k = "echo reply"
  /\ reply' = TRUE
  /\ irq' = NextAfter(Tail(rx_ring)) /\ UNCHANGED <<tx, arp_table, PKT_BUF, FRAME, dns, meddled>>

\* An answer to the current query, with an A record.
dns_rx(f) ==
  /\ dns' = IF f.v = dns.query
            THEN [dns EXCEPT !.ready = TRUE, !.id = f.v, !.ip = f.n] ELSE dns
  /\ irq' = NextAfter(Tail(rx_ring))
  /\ UNCHANGED <<tx, arp_table, PKT_BUF, FRAME, reply, meddled>>

\* The dispatch: dns_rx is the one handler bound to a port.
udp_rx(f) == f.k = "dns answer" /\ dns_rx(f)
ipv4_rx(f) == icmp_rx_request(f) \/ icmp_rx_reply(f) \/ udp_rx(f)
net_rx(f) == arp_rx(f) \/ ipv4_rx(f)

Rx ==
  /\ irq = "drain" /\ rx_ring # <<>>
  /\ LET f == Head(rx_ring)
     IN net_rx(f)
  /\ rx_ring' = Tail(rx_ring)
  /\ UNCHANGED <<isr, raced, thread, intr, halted, network, unheard>>

\* isr_handler, when interrupts are enabled; it ends a hlt.
Interrupt ==
  /\ intr /\ Enter /\ halted' = FALSE
  /\ UNCHANGED <<thread, buffers, intr, network, history>>

Acknowledge == Ack /\ UNCHANGED <<thread, buffers, intr, halted, network, history>>

Handler == Interrupt \/ Rx \/ Acknowledge

\* The timer interrupt, as far as the waits below count it: arp::resolve from
\* its request on, dns::resolve from its query on, cmd_ping all the time.
Resolving == pc \in {"wait", "hlt wait"}
Polling == pc \in {"poll", "hlt poll"}

Tick ==
  /\ intr /\ irq = "out" /\ cmd # "none"
  /\ halted' = FALSE
  /\ arp_ticks' = IF Resolving /\ arp_ticks < ARP_TICKS THEN arp_ticks + 1 ELSE arp_ticks
  /\ cmd_ticks' = IF (cmd = "ping" \/ Polling) /\ cmd_ticks < WAIT_TICKS
                  THEN cmd_ticks + 1 ELSE cmd_ticks
  /\ UNCHANGED <<nic, buffers, pc, cmd, msg, arp_tries, intr, network, history>>

-----------------------------------------------------------------------------
(* Thread 0.  Interrupts come between its steps unless it disables them.   *)

At(p) == pc = p /\ irq = "out" /\ ~halted

Goto(p) == pc' = p

\* cmd_ping of an address (that of a name is a Resolve first): one echo request
\* after the other.
Echo(to, seq) == Msg("echo request", to, seq, Nothing)

Ping(to) ==
  /\ At("idle") /\ left.commands > 0
  /\ left' = [left EXCEPT !.commands = @ - 1]
  /\ cmd' = "ping" /\ msg' = Echo(to, 1) /\ cmd_ticks' = 0 /\ Goto("header")
  /\ UNCHANGED <<nic, buffers, arp_tries, arp_ticks, intr, halted, knows, out, history>>

\* Mutant: the query id stays the same.
SameQueryId(id) == id

NextQueryId(id) == (id + 1) % ID_MOD

udp_send(to, id, n) == Msg("dns query", to, id, n)

\* dns::resolve up to its packet; a name that cannot be encoded ends it.  Every
\* query is for a name of its own, numbered by the commands left.
Resolve ==
  /\ At("idle") /\ left.commands > 0
  /\ left' = [left EXCEPT !.commands = @ - 1]
  /\ dns' = [dns EXCEPT !.query = NextQueryId(@), !.ready = FALSE]
  /\ \/ UNCHANGED thread
     \/ /\ cmd' = "resolve" /\ msg' = udp_send(Server, dns'.query, left.commands)
        /\ Goto("header") /\ UNCHANGED <<arp_tries, arp_ticks, cmd_ticks>>
  /\ UNCHANGED <<nic, arp_table, PKT_BUF, FRAME, reply, intr, halted, knows, out, history>>

\* ipv4::send.
SendHeader ==
  /\ At("header") /\ PKT_BUF' = [PKT_BUF EXCEPT !.header = msg] /\ Goto("body")
  /\ meddled' = FALSE
  /\ UNCHANGED <<nic, arp_table, FRAME, reply, dns, cmd, msg, arp_tries, arp_ticks, cmd_ticks,
                 intr, halted, network, unheard>>

\* ... and arp::resolve's first look at the table.
SendBody ==
  /\ At("body") /\ PKT_BUF' = [PKT_BUF EXCEPT !.body = msg]
  /\ Goto(IF NextHop(msg.to) \in arp_table THEN "frame" ELSE "request")
  /\ UNCHANGED <<nic, arp_table, FRAME, reply, dns, cmd, msg, arp_tries, arp_ticks, cmd_ticks,
                 intr, halted, network, history>>

\* After ipv4::send, successful or not, the caller starts waiting.  dns::resolve
\* reads its clock only here, cmd_ping before it sends.
Sent == Goto("poll") /\ cmd_ticks' = IF cmd = "resolve" THEN 0 ELSE cmd_ticks

\* Mutant: send_ethernet leaves interrupts enabled.
NoCli == UNCHANGED intr

Cli == intr' = FALSE

\* send_ethernet, with interrupts disabled from the first copy to the last.
Request ==
  /\ At("request") /\ arp_tries < ARP_TRIES
  /\ Cli /\ FRAME' = Arp("arp request", NextHop(msg.to)) /\ Goto("send request")
  /\ UNCHANGED <<nic, arp_table, PKT_BUF, reply, dns, cmd, msg, arp_tries, arp_ticks, cmd_ticks,
                 halted, network, history>>

\* Mutant: a request that was not answered does not count.
SameTry(n) == n

NextTry(n) == n + 1

SendRequest ==
  /\ At("send request") /\ tx' = Queued(tx, FRAME) /\ intr' = TRUE
  /\ arp_tries' = NextTry(arp_tries) /\ arp_ticks' = 0 /\ Goto("wait")
  /\ UNCHANGED <<rx_ring, isr, irq, raced, buffers, cmd, msg, cmd_ticks, halted, network, history>>

GiveUp ==
  /\ At("request") /\ arp_tries = ARP_TRIES /\ arp_tries' = 0 /\ Sent
  /\ UNCHANGED <<nic, buffers, cmd, msg, arp_ticks, intr, halted, network, history>>

Wait ==
  /\ At("wait")
  /\ Goto(IF arp_ticks >= ARP_TICKS THEN "request"
          ELSE IF NextHop(msg.to) \in arp_table THEN "frame" ELSE "hlt wait")
  /\ arp_tries' = IF pc' = "frame" THEN 0 ELSE arp_tries
  /\ arp_ticks' = IF pc' = "hlt wait" THEN arp_ticks ELSE 0
  /\ UNCHANGED <<nic, buffers, cmd, msg, cmd_ticks, intr, halted, network, history>>

Build ==
  /\ At("frame")
  /\ Cli /\ FRAME' = Frame(NextHop(msg.to), PKT_BUF.header, PKT_BUF.body) /\ Goto("send")
  /\ UNCHANGED <<nic, arp_table, PKT_BUF, reply, dns, cmd, msg, arp_tries, arp_ticks, cmd_ticks,
                 halted, network, history>>

Send ==
  /\ At("send") /\ tx' = Queued(tx, FRAME) /\ intr' = TRUE /\ Sent
  /\ UNCHANGED <<rx_ring, isr, irq, raced, buffers, cmd, msg, arp_tries, arp_ticks, halted, network, history>>

Hlt ==
  /\ pc \in {"hlt wait", "hlt poll"} /\ irq = "out" /\ ~halted
  /\ halted' = TRUE /\ Goto(IF pc = "hlt wait" THEN "wait" ELSE "poll")
  /\ UNCHANGED <<nic, buffers, cmd, msg, arp_tries, arp_ticks, cmd_ticks, intr, network, history>>

\* The end of one echo request: the next one after a pause, or the command's.
NextEcho ==
  IF msg.v < PINGS
  THEN Goto("header") /\ msg' = Echo(msg.to, msg.v + 1) /\ cmd_ticks' = 0 /\ UNCHANGED cmd
  ELSE Goto("idle") /\ msg' = NoMsg /\ cmd' = "none" /\ cmd_ticks' = 0

\* cmd_ping's loop with got_reply, which tests and clears with interrupts
\* disabled.  Any reply will do: neither sender nor number is compared.
PollReply ==
  /\ At("poll") /\ cmd = "ping"
  /\ \/ /\ cmd_ticks >= WAIT_TICKS /\ NextEcho /\ UNCHANGED reply
     \/ /\ cmd_ticks < WAIT_TICKS /\ reply
        /\ reply' = FALSE /\ NextEcho
     \/ /\ cmd_ticks < WAIT_TICKS /\ ~reply
        /\ Goto("hlt poll") /\ UNCHANGED <<cmd, msg, cmd_ticks, reply>>
  /\ UNCHANGED <<nic, arp_table, PKT_BUF, FRAME, dns, arp_tries, arp_ticks, intr, halted, network, history>>

\* dns::resolve's loop: test and clear with interrupts disabled.
Answered == dns.ready /\ dns.id = dns.query

PollAnswer ==
  /\ At("poll") /\ cmd = "resolve"
  /\ \/ /\ cmd_ticks >= WAIT_TICKS \/ Answered
        /\ dns' = IF cmd_ticks < WAIT_TICKS THEN [dns EXCEPT !.ready = FALSE] ELSE dns
        /\ Goto("idle") /\ cmd' = "none" /\ msg' = NoMsg /\ cmd_ticks' = 0
     \/ /\ cmd_ticks < WAIT_TICKS /\ ~Answered
        /\ Goto("hlt poll") /\ UNCHANGED <<cmd, msg, dns, cmd_ticks>>
  /\ UNCHANGED <<nic, arp_table, PKT_BUF, FRAME, reply, arp_tries, arp_ticks, intr, halted, network, history>>

Thread == SendHeader \/ SendBody \/ Request \/ SendRequest \/ GiveUp \/ Wait \/ Build
          \/ Send \/ Hlt \/ PollReply \/ PollAnswer

-----------------------------------------------------------------------------
(* The network (external).  A station sends an IP packet only if it knows  *)
(* our MAC, from our ARP request for it or our reply to its own.           *)

Event == left.events > 0 /\ left' = [left EXCEPT !.events = @ - 1]

Says(h, f) == Len(out[h]) < MaxQueue /\ out' = [out EXCEPT ![h] = Append(@, f)]

HostAsks(h) ==
  /\ h \notin knows /\ Event /\ Says(h, In("arp request", h, 0, Nothing))
  /\ UNCHANGED <<nic, thread, buffers, intr, halted, knows, history>>

HostPings(ip) ==
  /\ NextHop(ip) \in knows /\ Event
  /\ Says(NextHop(ip), In("echo request", ip, 0, Nothing))
  /\ UNCHANGED <<nic, thread, buffers, intr, halted, knows, history>>

\* What the stations do with a frame of ours.
Answer(f) ==
  LET hop == NextHop(f.header.to)
      to == f.header.to
  IN CASE f.header.k = "arp request" -> knows' = knows \cup {to} /\ Says(to, In("arp reply", to, 0, Nothing))
       [] f.header.k = "arp reply" -> knows' = knows \cup {to} /\ UNCHANGED out
       [] f.header.k = "echo request" /\ f.body.k = "echo request" /\ f.mac = hop /\ hop \in knows ->
            Says(hop, In("echo reply", to, 0, Nothing)) /\ UNCHANGED knows
       [] f.header.k = "dns query" /\ f.body.k = "dns query" /\ f.mac = hop /\ hop \in knows ->
            Says(hop, In("dns answer", to, f.body.v, f.body.n)) /\ UNCHANGED knows
       [] OTHER -> UNCHANGED <<knows, out>>

CardSends ==
  /\ tx # <<>> /\ tx' = Tail(tx)
  /\ \/ Answer(Head(tx)) /\ UNCHANGED left
     \/ Event /\ UNCHANGED <<knows, out>>
  /\ UNCHANGED <<rx_ring, isr, irq, raced, thread, buffers, intr, halted, history>>

\* A frame for us arrives, or is lost on the way or at the card.
Arrives(h) ==
  /\ out[h] # <<>> /\ out' = [out EXCEPT ![h] = Tail(@)]
  /\ LET f == Head(out[h])
     IN \/ FrameStored(f) /\ UNCHANGED <<left, unheard>>
        \/ /\ Event \/ (~Stored /\ UNCHANGED left)
           /\ unheard' = (unheard \/ f.k \in {"arp request", "arp reply"})
           /\ UNCHANGED nic
  /\ UNCHANGED <<thread, buffers, intr, halted, knows, meddled>>

Network == CardSends \/ \E h \in Hosts : HostAsks(h) \/ Arrives(h)

Next ==
  \/ \E ip \in Targets : Ping(ip)
  \/ \E ip \in Callers : HostPings(ip)
  \/ Resolve \/ Thread \/ Handler \/ Tick \/ Network

Spec == Init /\ [][Next]_vars

\* The CPU executes the code of thread 0 or of the handler, and the PIT ticks.
FairSpec == Spec /\ WF_vars(Thread \/ Handler) /\ WF_vars(Tick)

-----------------------------------------------------------------------------
\* What thread 0 hands to the card is the packet it was asked to send, to the
\* MAC of its next hop, whatever ARP traffic the handler takes in and answers
\* from the same frame buffer while thread 0 builds, resolves, sleeps and sends.
\* The exception is a packet that the handler itself has sent meanwhile, from
\* the PKT_BUF that thread 0 had filled.
PacketRight ==
  [][pc = "send" /\ pc' = "poll" /\ ~meddled
       => tx'[Len(tx')] = Frame(NextHop(msg.to), msg, msg)]_vars

\* The handler does not go to sleep in arp::resolve, with interrupts disabled
\* for ever, as long as the table has room for every station and no ARP frame
\* to us is lost: whoever can send us a packet is in the table before it comes.
NeverStuck ==
  ~unheard /\ Cardinality(Hosts) <= ARP_TABLE_SIZE => irq # "stuck"

\* dns::resolve returns the answer to the name it was given, never one that an
\* earlier query, given up or answered twice, left behind or receives late.
DnsRight ==
  [][cmd = "resolve" /\ cmd' = "none" /\ cmd_ticks < WAIT_TICKS => dns.ip = msg.n]_vars

\* ping and resolve come to an end, answers or none, unless the handler is stuck.
CommandsReturn == (cmd # "none") ~> (cmd = "none" \/ irq = "stuck")
=============================================================================
