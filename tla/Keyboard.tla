------------------------------ MODULE Keyboard ------------------------------
(***************************************************************************)
(* The PS/2 keyboard driver (src/keyboard.rs) and the console reader on    *)
(* top of it (console_getchar in src/shell.rs): IRQ1 fills a ring buffer   *)
(* while a reader drains it, tests it and goes to sleep in hlt.            *)
(*                                                                         *)
(* A scancode is a record: a make or a break code of a key.  A character   *)
(* is the key and the table it was looked up in.                           *)
(***************************************************************************)
EXTENDS Integers, Sequences

CONSTANTS
  BUFFER_SIZE,  \* slots of the ring (256 in the code)
  Keys,         \* keys the tables map to a character
  OtherKeys,    \* keys outside the tables, or mapped to 0
  NoChar,       \* no character: an empty slot, or None
  NoCode,       \* the controller holds no scancode
  ReaderIntr    \* RFLAGS.IF of the reader: TRUE in thread 0, FALSE in a
                \* spawned thread (see Scheduler, InterruptInv)

ShiftKeys == {"left", "right"}
Codes == [key : Keys \cup OtherKeys \cup ShiftKeys, make : BOOLEAN]
Chars == [key : Keys, shift : {0, 1}]

ASSUME RingAssumption == BUFFER_SIZE \in Nat \ {0, 1}
ASSUME CharAssumption == NoChar \notin Chars /\ NoCode \notin Codes
ASSUME IntrAssumption == ReaderIntr \in BOOLEAN

VARIABLES
  BUFFER, BUF_HEAD, BUF_TAIL, SHIFT_HELD,
  port,      \* the scancode in the controller's output register
  held,      \* the shift keys that are physically down
  serial,    \* a byte waits in the UART
  mode,      \* the function the reader is in
  at, c,     \* where the reader is in it, and its local c
  got,       \* the last character taken from the ring
  asleep     \* the CPU sleeps in hlt

ring == <<BUFFER, BUF_HEAD, BUF_TAIL>>
ring_vars == <<ring, SHIFT_HELD, port, held, serial, mode, at, c, got, asleep>>

Pos == 0 .. BUFFER_SIZE - 1

RingInit ==
  /\ BUFFER = [i \in Pos |-> NoChar]
  /\ BUF_HEAD = 0 /\ BUF_TAIL = 0 /\ SHIFT_HELD = 0
  /\ port = NoCode /\ held = {} /\ serial = FALSE
  /\ mode = "none" /\ at = "idle" /\ c = NoChar /\ got = NoChar
  /\ asleep = FALSE

-----------------------------------------------------------------------------
(* The hardware.                                                           *)

\* A key is pressed or released; a held shift key is not pressed again.
KeyEvent(k) ==
  /\ port = NoCode
  /\ k.key \in ShiftKeys => (k.make <=> k.key \notin held)
  /\ port' = k
  /\ held' = IF k.key \notin ShiftKeys THEN held
             ELSE IF k.make THEN held \cup {k.key} ELSE held \ {k.key}
  /\ UNCHANGED <<ring, SHIFT_HELD, serial, mode, at, c, got, asleep>>

SerialArrives ==
  /\ ~serial /\ serial' = TRUE
  /\ UNCHANGED <<ring, SHIFT_HELD, port, held, mode, at, c, got, asleep>>

\* Any other interrupt (the timer, 100 times a second) ends a hlt.
OtherIrq ==
  /\ ReaderIntr /\ asleep
  /\ asleep' = FALSE
  /\ UNCHANGED <<ring, SHIFT_HELD, port, held, serial, mode, at, c, got>>

-----------------------------------------------------------------------------
(* keyboard_handler.                                                       *)

NextPos(i) == (i + 1) % BUFFER_SIZE

\* Mutant: a full buffer is not noticed.
RoomUnchecked == TRUE

Room == NextPos(BUF_HEAD) # BUF_TAIL

Push(ch) ==
  /\ IF Room
     THEN /\ BUFFER' = [BUFFER EXCEPT ![BUF_HEAD] = ch]
          /\ BUF_HEAD' = NextPos(BUF_HEAD)
     ELSE UNCHANGED <<BUFFER, BUF_HEAD>>
  /\ UNCHANGED BUF_TAIL

ShiftState(code) == IF code.make THEN 1 ELSE 0

keyboard_handler ==
  /\ ReaderIntr /\ port # NoCode
  /\ port' = NoCode
  /\ asleep' = FALSE
  /\ \/ /\ port.key \in ShiftKeys
        /\ SHIFT_HELD' = ShiftState(port)
        /\ UNCHANGED ring
     \/ /\ port.key \in OtherKeys \/ (port.key \in Keys /\ ~port.make)
        /\ UNCHANGED <<SHIFT_HELD, ring>>
     \/ /\ port.key \in Keys /\ port.make
        /\ Push([key |-> port.key, shift |-> SHIFT_HELD])
        /\ UNCHANGED SHIFT_HELD
  /\ UNCHANGED <<held, serial, mode, at, c, got>>

-----------------------------------------------------------------------------
(* The reader: getchar, try_getchar or console_getchar.  keyboard_handler  *)
(* can run between any two steps.                                          *)

Begin(m) ==
  /\ at = "idle"
  /\ mode' = m /\ at' = "check"
  /\ UNCHANGED <<ring, SHIFT_HELD, port, held, serial, c, got, asleep>>

\* console_getchar asks the serial port first.
TakeSerial ==
  /\ at = "check" /\ mode = "console" /\ serial /\ ~asleep
  /\ serial' = FALSE /\ at' = "idle"
  /\ UNCHANGED <<ring, SHIFT_HELD, port, held, mode, c, got, asleep>>

\* Is the ring empty?  try_getchar returns None, the others go to sleep.
Check ==
  /\ at = "check" /\ ~asleep
  /\ mode = "console" => ~serial
  /\ at' = IF BUF_HEAD # BUF_TAIL THEN "load"
           ELSE IF mode = "try" THEN "idle" ELSE "hlt"
  /\ UNCHANGED <<ring, SHIFT_HELD, port, held, serial, mode, c, got, asleep>>

\* Mutant: hlt is executed again and again without looking at the ring.
HltAgain ==
  /\ at = "hlt" /\ ~asleep
  /\ asleep' = TRUE
  /\ UNCHANGED <<ring, SHIFT_HELD, port, held, serial, mode, at, c, got>>

Hlt ==
  /\ at = "hlt"
  /\ asleep' = TRUE /\ at' = "check"
  /\ UNCHANGED <<ring, SHIFT_HELD, port, held, serial, mode, c, got>>

Load ==
  /\ at = "load"
  /\ c' = BUFFER[BUF_TAIL] /\ at' = "advance"
  /\ UNCHANGED <<ring, SHIFT_HELD, port, held, serial, mode, got, asleep>>

\* The store to BUF_TAIL, and the return.
Advance ==
  /\ at = "advance"
  /\ BUF_TAIL' = NextPos(BUF_TAIL)
  /\ got' = c /\ at' = "idle"
  /\ UNCHANGED <<BUFFER, BUF_HEAD, SHIFT_HELD, port, held, serial, mode, c,
                 asleep>>

Reader == TakeSerial \/ Check \/ Hlt \/ Load \/ Advance

RingNext ==
  \/ \E k \in Codes : KeyEvent(k)
  \/ SerialArrives \/ OtherIrq \/ keyboard_handler
  \/ \E m \in {"getchar", "try", "console"} : Begin(m)
  \/ Reader

RingSpec == RingInit /\ [][RingNext]_ring_vars

\* The reader executes its code, pending interrupts are delivered, and the
\* timer ticks.  Nobody has to press a key.
FairRingSpec ==
  RingSpec /\ WF_ring_vars(Reader) /\ WF_ring_vars(keyboard_handler) /\ WF_ring_vars(OtherIrq)

-----------------------------------------------------------------------------
RingTypeOK ==
  /\ BUFFER \in [Pos -> Chars \cup {NoChar}]
  /\ BUF_HEAD \in Pos /\ BUF_TAIL \in Pos /\ SHIFT_HELD \in {0, 1}
  /\ port \in Codes \cup {NoCode} /\ held \subseteq ShiftKeys
  /\ mode \in {"none", "getchar", "try", "console"}
  /\ at \in {"idle", "check", "hlt", "load", "advance"}
  /\ c \in Chars \cup {NoChar} /\ got \in Chars \cup {NoChar}
  /\ serial \in BOOLEAN /\ asleep \in BOOLEAN

\* The characters between tail and head, oldest first.
Pending ==
  [i \in 1 .. (BUF_HEAD - BUF_TAIL) % BUFFER_SIZE |->
     BUFFER[(BUF_TAIL + i - 1) % BUFFER_SIZE]]

Fifo == INSTANCE BoundedFifo
          WITH Values <- Chars, Capacity <- BUFFER_SIZE - 1, queue <- Pending

\* The ring, filled by IRQ1 and drained by a reader it interrupts, is a bounded
\* FIFO: no keystroke is lost, doubled or overtaken once it is accepted.
IsFifo == Fifo!Spec

\* A reader that waits in getchar or console_getchar while a character is in
\* the ring returns, even if IRQ1 came between its test and its hlt.
WaitingReaderReturns ==
  (at # "idle" /\ BUF_HEAD # BUF_TAIL) ~> (at = "idle")

=============================================================================
