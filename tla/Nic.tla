--------------------------------- MODULE Nic ---------------------------------
(***************************************************************************)
(* The network card and its driver (src/rtl8139.rs).  The receive buffer   *)
(* is a queue of frames and the interrupt status its ROK bit: TOK has no   *)
(* effect on the driver, and the card stores no frame with errors.  Frames *)
(* arrive at any time, also between two steps of the interrupt handler.    *)
(***************************************************************************)
EXTENDS Integers, Sequences

CONSTANTS
  RX_FRAMES,  \* frames the receive buffer holds
  TX_SLOTS    \* transmit descriptors (4 in the code)

ASSUME NicAssumption == RX_FRAMES \in Nat \ {0} /\ TX_SLOTS \in Nat \ {0}

VARIABLES
  rx_ring,   \* received frames from RX_OFFSET on
  isr,       \* ROK in the interrupt status register
  irq,       \* where the handler is: "out", "drain", "ack", "stuck"
  tx,        \* frames handed to the card and not yet sent, oldest first
  raced      \* history: a frame came between the last drain and its acknowledgement

nic == <<rx_ring, isr, irq, tx, raced>>

NicInit == rx_ring = <<>> /\ isr = FALSE /\ irq = "out" /\ tx = <<>> /\ raced = FALSE

\* The card stores a frame, or has no room for it.
Stored == Len(rx_ring) < RX_FRAMES

FrameStored(f) ==
  /\ Stored
  /\ rx_ring' = Append(rx_ring, f) /\ isr' = TRUE /\ raced' = (raced \/ irq = "ack")
  /\ UNCHANGED <<irq, tx>>

\* rtl8139_handler reads the status ...
Enter == irq = "out" /\ isr /\ irq' = "drain" /\ UNCHANGED <<rx_ring, isr, tx, raced>>

\* Mutant: the loop of rtl8139_rx ends after one frame.
NextAfterOne(rest) == "ack"

\* ... rtl8139_rx goes on while the buffer is not empty; ROK is set only when
\* it has a first frame ...
NextAfter(rest) == IF rest = <<>> THEN "ack" ELSE "drain"

\* ... and the status as it was read is acknowledged.
Ack ==
  /\ irq = "ack" /\ irq' = "out" /\ isr' = FALSE
  /\ raced' = (raced /\ rx_ring # <<>>)
  /\ UNCHANGED <<rx_ring, tx>>

\* send: whatever the poll of OWN finds, it ends and the slot is reused; if the
\* card has not sent the frame in it, that is lost.
Queued(q, f) == Append(IF Len(q) < TX_SLOTS THEN q ELSE Tail(q), f)

\* A frame waits in the buffer without an interrupt to come or a handler to
\* take it only if it came after the handler last saw the buffer empty and
\* before it acknowledged: no other frame depends on the next one's interrupt.
RingWatched ==
  rx_ring # <<>> /\ irq = "out" => isr \/ raced
=============================================================================
