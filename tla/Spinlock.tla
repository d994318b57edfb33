------------------------------ MODULE Spinlock ------------------------------
(***************************************************************************)
(* The kernel's spinlock (src/sync.rs): on one core, lock() remembers      *)
(* RFLAGS and disables interrupts, unlock() restores RFLAGS.  Threads and  *)
(* interrupt handlers take locks (VGA_LOCK, HEAP_LOCK, ARP_LOCK), possibly *)
(* nested; a thread can be interrupted or preempted wherever IF = 1.       *)
(***************************************************************************)
EXTENDS Naturals, Sequences

CONSTANTS
  Threads,   \* kernel threads
  Boot,      \* the thread that runs first, with interrupts enabled
  Irqs,      \* interrupt handlers that take locks
  NoIrq,     \* the CPU is not in an interrupt handler
  Locks

Actors == Threads \cup Irqs

ASSUME ActorAssumption ==
  Boot \in Threads /\ Threads \cap Irqs = {} /\ NoIrq \notin Irqs

VARIABLES
  saved_flags, \* of each lock, reduced to IF
  locked,    \* locked of each lock
  irqs_on,   \* RFLAGS.IF
  thread,    \* the thread that has the CPU
  irq,       \* the handler that has interrupted it, or NoIrq
  parked,    \* IF a thread resumes with when it gets the CPU back
  holding,   \* the locks an actor is inside, innermost last
  flags,     \* the local `flags` of an actor's lock()
  wants,     \* the lock an actor is between pushfq and cli for, or << >>
  before     \* history: IF when the actor took its outermost lock

lock_vars ==
  <<saved_flags, locked, irqs_on, thread, irq, parked, holding, flags, wants, before>>

Running == IF irq = NoIrq THEN thread ELSE irq

LockInit ==
  /\ saved_flags = [l \in Locks |-> FALSE] /\ locked = [l \in Locks |-> 0]
  /\ irqs_on = TRUE /\ thread = Boot /\ irq = NoIrq
  /\ parked = [t \in Threads |-> FALSE]
  /\ holding = [a \in Actors |-> << >>]
  /\ flags = [a \in Actors |-> FALSE]
  /\ wants = [a \in Actors |-> << >>]
  /\ before = [a \in Actors |-> FALSE]

-----------------------------------------------------------------------------
Holds(a, l) == \E i \in 1 .. Len(holding[a]) : holding[a][i] = l

\* lock(): pushfq, pop.  No code takes a lock it is already inside.
LockPushf(l) ==
  LET a == Running IN
  /\ wants[a] = << >> /\ ~Holds(a, l)
  /\ flags' = [flags EXCEPT ![a] = irqs_on]
  /\ wants' = [wants EXCEPT ![a] = << l >>]
  /\ UNCHANGED <<saved_flags, locked, irqs_on, thread, irq, parked, holding, before>>

\* Mutant: interrupts stay enabled.
DisableNothing == UNCHANGED irqs_on

Disable == irqs_on' = FALSE

\* cli, then the stores, which nothing can interrupt any more.
LockCli ==
  LET a == Running IN
  /\ wants[a] # << >>
  /\ LET l == wants[a][1] IN
     /\ saved_flags' = [saved_flags EXCEPT ![l] = flags[a]]
     /\ locked' = [locked EXCEPT ![l] = 1]
     /\ holding' = [holding EXCEPT ![a] = Append(@, l)]
  /\ Disable
  /\ wants' = [wants EXCEPT ![a] = << >>]
  /\ before' = [before EXCEPT ![a] = IF holding[a] = << >> THEN irqs_on ELSE @]
  /\ UNCHANGED <<thread, irq, parked, flags>>

\* Mutant: unlock() simply enables interrupts.
RestoreOn(l) == irqs_on' = TRUE

Restore(l) == irqs_on' = saved_flags[l]

Clear(l) == locked' = [locked EXCEPT ![l] = 0]

\* unlock() of the innermost lock.
Unlock ==
  LET a == Running
      n == Len(holding[a])
  IN /\ wants[a] = << >> /\ n > 0
     /\ Clear(holding[a][n])
     /\ Restore(holding[a][n])
     /\ holding' = [holding EXCEPT ![a] = SubSeq(@, 1, n - 1)]
     /\ UNCHANGED <<saved_flags, thread, irq, parked, flags, wants, before>>

-----------------------------------------------------------------------------
\* An interrupt: the gate clears IF, iretq sets it again.
Interrupt(i) ==
  /\ irqs_on /\ irq = NoIrq
  /\ irq' = i /\ irqs_on' = FALSE
  /\ UNCHANGED <<saved_flags, locked, thread, parked, holding, flags, wants, before>>

Iret ==
  /\ irq # NoIrq /\ holding[irq] = << >> /\ wants[irq] = << >>
  /\ irq' = NoIrq /\ irqs_on' = TRUE
  /\ UNCHANGED <<saved_flags, locked, thread, parked, holding, flags, wants, before>>

\* The timer interrupt preempts the thread; it resumes with IF = 1.  A thread
\* that runs for the first time starts with IF = 0.
Preempt(t) ==
  /\ irqs_on /\ irq = NoIrq
  /\ parked' = [parked EXCEPT ![thread] = TRUE]
  /\ thread' = t /\ irqs_on' = parked'[t]
  /\ UNCHANGED <<saved_flags, locked, irq, holding, flags, wants, before>>

\* yield_thread(), outside every critical section.
yield_thread(t) ==
  /\ irq = NoIrq /\ holding[thread] = << >> /\ wants[thread] = << >>
  /\ parked' = [parked EXCEPT ![thread] = irqs_on]
  /\ thread' = t /\ irqs_on' = parked'[t]
  /\ UNCHANGED <<saved_flags, locked, irq, holding, flags, wants, before>>

LockNext ==
  \/ \E l \in Locks : LockPushf(l)
  \/ LockCli \/ Unlock \/ Iret
  \/ \E i \in Irqs : Interrupt(i)
  \/ \E t \in Threads : Preempt(t) \/ yield_thread(t)

LockSpec == LockInit /\ [][LockNext]_lock_vars

-----------------------------------------------------------------------------
LockTypeOK ==
  /\ saved_flags \in [Locks -> BOOLEAN] /\ locked \in [Locks -> {0, 1}]
  /\ irqs_on \in BOOLEAN /\ thread \in Threads /\ irq \in Irqs \cup {NoIrq}
  /\ parked \in [Threads -> BOOLEAN]
  /\ holding \in [Actors -> Seq(Locks)]
  /\ flags \in [Actors -> BOOLEAN]
  /\ wants \in [Actors -> {<< >>} \cup {<< l >> : l \in Locks}]
  /\ before \in [Actors -> BOOLEAN]

\* lock() does not look at `locked` and never waits: it is disabling interrupts
\* that keeps a second thread or a handler out of every critical section.
MutualExclusion ==
  \A a, b \in Actors : \A l \in Locks : Holds(a, l) /\ Holds(b, l) => a = b

\* A lock that somebody is inside has locked = 1, and only such a lock.
LockedIffHeld ==
  \A l \in Locks : locked[l] = 1 <=> \E a \in Actors : Holds(a, l)

\* "nested lock/unlock pairs work correctly and interrupt-context callers don't
\* accidentally re-enable interrupts on unlock": leaving the outermost lock
\* gives back the interrupt flag the actor had before it, and no other unlock
\* enables interrupts.
FlagsRestored ==
  [][\A a \in Actors :
       Len(holding'[a]) < Len(holding[a]) =>
         irqs_on' = (holding'[a] = << >> /\ before[a])]_lock_vars

=============================================================================
