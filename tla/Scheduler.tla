------------------------------ MODULE Scheduler ------------------------------
(***************************************************************************)
(* The kernel thread scheduler (src/thread.rs) together with the parts of  *)
(* the machine it depends on: the interrupt flag, the timer interrupt      *)
(* (src/timer.rs) and its end-of-interrupt (src/idt.rs, src/pic.rs), and   *)
(* the stack swap of context_switch (boot/boot.s).                         *)
(*                                                                         *)
(* A slot's `rsp` is abstracted to the stack it points into; what the      *)
(* saved frame does when context_switch returns to it is `frame`:          *)
(*   "fresh"    the frame create() builds: `ret` enters the thread         *)
(*   "yieldOn"  inside yield_thread(), which will execute sti              *)
(*   "yieldOff" inside yield_thread(), called with interrupts disabled     *)
(*   "irq"      inside timer_handler(): isr_handler sends the EOI, iretq   *)
(*              restores IF = 1                                            *)
(*   "never"    the frame of a thread that called exit()                   *)
(***************************************************************************)
EXTENDS Integers

CONSTANTS
  MAX_THREADS,  \* slots of the thread table (32 in the code)
  Stacks,       \* the stacks kmalloc can hand out
  BootStack,    \* the stack boot.s sets up for thread 0
  NoStack,      \* the null pointer
  TimeSlice,    \* ticks between two preemptions (10 in the code)
  TickWrap,     \* modulus of TICK_COUNT (2^32 in the code)
  WaitTicks,    \* the argument of timer::wait (50 for the test thread)
  Rounds,       \* calls of timer::wait the test thread makes (5 in the code)
  MaxId,        \* bound: no thread is created once NEXT_ID exceeds it
  Entries       \* entry points thread 0 spawns: subset of {"test", "program"}

ASSUME ThreadsAssumption == MAX_THREADS \in Nat \ {0, 1}
ASSUME StacksAssumption ==
  BootStack \notin Stacks /\ NoStack \notin Stacks /\ BootStack # NoStack
ASSUME TicksAssumption ==
  /\ TimeSlice \in Nat \ {0} /\ TickWrap \in Nat \ {0}
  /\ WaitTicks \in 1 .. TickWrap - 1 /\ Rounds \in Nat
ASSUME SpawnAssumption == MaxId \in Nat /\ Entries \subseteq {"test", "program"}

Slots == 0 .. MAX_THREADS - 1
Frames == {"fresh", "yieldOn", "yieldOff", "irq", "never"}

VARIABLES
  state,        \* THREADS[s].state
  id,           \* THREADS[s].id
  rsp,          \* the stack THREADS[s].rsp points into
  stack_base,   \* THREADS[s].stack_base
  current,      \* CURRENT_THREAD
  next_id,      \* NEXT_ID
  pending,      \* PENDING_FREE_STACK
  allocated,    \* the stacks kmalloc'd and not yet kfree'd
  frame,        \* what resuming the slot does (see above)
  kind,         \* the entry point the slot runs
  pc,           \* where the code running in the slot is
  start,        \* `start` of the slot's call of timer::wait
  left,         \* calls of timer::wait the slot's test thread has left
  draft,        \* create()'s locals: the slot and the stack it works on
  intr,         \* RFLAGS.IF
  in_service,   \* IRQ0 is acknowledged by the CPU and awaits its EOI
  halted,       \* the CPU sleeps in hlt
  ticks         \* TICK_COUNT

table == <<state, id, rsp, stack_base, frame, kind>>
cpu   == <<intr, in_service, halted, ticks>>
vars  == <<table, current, next_id, pending, allocated, pc, start, left, draft, cpu>>

Live(s) == state[s] # "Dead"
NoDraft == [slot |-> 0, stack |-> NoStack]

-----------------------------------------------------------------------------
\* thread::init, and the machine when kernel_main executes sti.
Init ==
  /\ state = [s \in Slots |-> IF s = 0 THEN "Running" ELSE "Dead"]
  /\ id = [s \in Slots |-> 0]
  /\ rsp = [s \in Slots |-> IF s = 0 THEN BootStack ELSE NoStack]
  /\ stack_base = [s \in Slots |-> NoStack]
  /\ frame = [s \in Slots |-> "never"]
  /\ kind = [s \in Slots |-> "shell"]
  /\ current = 0 /\ next_id = 1 /\ pending = NoStack
  /\ allocated = {}
  /\ pc = [s \in Slots |-> "run"]
  /\ start = [s \in Slots |-> 0]
  /\ left = [s \in Slots |-> 0]
  /\ draft = NoDraft
  /\ intr = TRUE /\ in_service = FALSE /\ halted = FALSE /\ ticks = 0

-----------------------------------------------------------------------------
(* schedule(), called with the table's states `st`, the pending stack      *)
(* `pend`, IRQ0 in service or not, and `saved` the frame the caller leaves *)
(* on its own stack.                                                       *)

\* `next` is what the scan of the table from old + 1 on finds.
RoundRobin(st, old, next) ==
  \/ \E i \in 1 .. MAX_THREADS :
       /\ next = (old + i) % MAX_THREADS
       /\ st[next] = "Ready"
       /\ \A j \in 1 .. i - 1 : st[(old + j) % MAX_THREADS] # "Ready"
  \/ /\ next = old
     /\ \A j \in 1 .. MAX_THREADS : st[(old + j) % MAX_THREADS] # "Ready"

\* Mutant: the thread that gives up the CPU stays Running.
SwitchStatesNoDemote(st, old, next) ==
  IF next = old THEN st ELSE [st EXCEPT ![next] = "Running"]

\* The states after the switch: `old` steps down only if it was Running.
SwitchStates(st, old, next) ==
  IF next = old THEN st
  ELSE [st EXCEPT ![old] = IF @ = "Running" THEN "Ready" ELSE @,
                  ![next] = "Running"]

\* Mutant: PENDING_FREE_STACK is not cleared.
FreePendingAgain(pend) ==
  /\ allocated' = allocated \ {pend}
  /\ pending' = pend

\* kfree of the pending stack, at the top of schedule().
FreePending(pend) ==
  /\ allocated' = allocated \ {pend}
  /\ pending' = NoStack

\* Mutant: the EOI is sent only for ticks that do not switch threads.
ResumeWithoutEoi(f, service) ==
  /\ intr' = (f \in {"yieldOn", "irq"})
  /\ in_service' = service
  /\ halted' = (f = "never")

\* context_switch returns into frame f: what happens to the CPU.
Resume(f, service) ==
  /\ intr' = (f \in {"yieldOn", "irq"})
  /\ in_service' = (service /\ f # "irq")
  /\ halted' = (f = "never")

Schedule(st, saved, pend, service) ==
  /\ FreePending(pend)
  /\ \E next \in Slots :
       /\ RoundRobin(st, current, next)
       /\ state' = SwitchStates(st, current, next)
       /\ current' = next
       /\ frame' = [frame EXCEPT ![current] = saved]
       /\ Resume(IF next = current THEN saved ELSE frame[next], service)

-----------------------------------------------------------------------------
(* thread::create, called by thread 0 only (cmd_spawn, run_protected).     *)
(* Nothing disables interrupts, so a tick may fall between its steps.      *)

\* `slot` after the scan: the first Dead slot, MAX_THREADS if there is none.
ScanForDead(s) ==
  /\ s < MAX_THREADS => ~Live(s)
  /\ \A t \in Slots : t < s => Live(t)

FreeSlot(s) == ScanForDead(s) /\ s # MAX_THREADS

TakeId == next_id' = next_id + 1

CreateFindSlot(e) ==
  /\ current = 0 /\ pc[0] = "run" /\ ~halted
  /\ next_id <= MaxId
  /\ \E s \in 0 .. MAX_THREADS :
       /\ FreeSlot(s)
       /\ draft' = [slot |-> s, stack |-> NoStack]
  /\ pc' = [pc EXCEPT ![0] = e]
  /\ UNCHANGED <<table, current, next_id, pending, allocated, start, left, cpu>>

CreateKmalloc ==
  /\ current = 0 /\ pc[0] \in Entries /\ draft.stack = NoStack
  /\ \/ \E k \in Stacks \ allocated :
          /\ allocated' = allocated \cup {k}
          /\ draft' = [draft EXCEPT !.stack = k]
          /\ pc' = pc
     \/ /\ pc' = [pc EXCEPT ![0] = "run"]   \* kmalloc returns null
        /\ UNCHANGED <<allocated, draft>>
  /\ UNCHANGED <<table, current, next_id, pending, start, left, cpu>>

\* The stores to id, rsp and state: from here on schedule() may pick the slot.
CreatePublish ==
  /\ current = 0 /\ pc[0] \in Entries /\ draft.stack # NoStack
  /\ id' = [id EXCEPT ![draft.slot] = next_id]
  /\ rsp' = [rsp EXCEPT ![draft.slot] = draft.stack]
  /\ state' = [state EXCEPT ![draft.slot] = "Ready"]
  /\ frame' = [frame EXCEPT ![draft.slot] = "fresh"]
  /\ kind' = [kind EXCEPT ![draft.slot] = pc[0]]
  /\ TakeId
  /\ pc' = [pc EXCEPT ![0] = "base", ![draft.slot] = "run"]
  /\ left' = [left EXCEPT ![draft.slot] = Rounds]
  /\ UNCHANGED <<stack_base, current, pending, allocated, start, draft, cpu>>

\* The last store, to stack_base.
CreateSetBase ==
  /\ current = 0 /\ pc[0] = "base"
  /\ stack_base' = [stack_base EXCEPT ![draft.slot] = draft.stack]
  /\ draft' = NoDraft
  /\ pc' = [pc EXCEPT ![0] = "run"]
  /\ UNCHANGED <<state, id, rsp, frame, kind, current, next_id, pending,
                 allocated, start, left, cpu>>

-----------------------------------------------------------------------------
\* yield_thread(): the shell thread, in the wait loop of run_protected.
Yield ==
  /\ current = 0 /\ pc[0] = "run" /\ ~halted
  /\ Schedule(state, IF intr THEN "yieldOn" ELSE "yieldOff", pending, in_service)
  /\ UNCHANGED <<id, rsp, stack_base, kind, next_id, pc, start, left, draft,
                 ticks>>

\* exit(): a thread returns from its entry point, calls sys_exit, or is killed
\* by the exception branch of isr_handler.
Exit ==
  /\ current # 0 /\ pc[current] = "run" /\ ~halted
  /\ kind[current] = "test" => left[current] = 0
  /\ LET base == stack_base[current]
     IN /\ stack_base' = [stack_base EXCEPT ![current] = NoStack]
        /\ Schedule([state EXCEPT ![current] = "Dead"], "never",
                    IF base # NoStack THEN base ELSE pending, in_service)
  /\ UNCHANGED <<id, rsp, kind, next_id, pc, start, left, draft,
                 ticks>>

\* timer::wait: remember the tick count, then hlt until enough have passed.
\* The shell waits too, between two pings.
WaitBegin ==
  /\ pc[current] = "run" /\ ~halted
  /\ \/ current = 0 /\ left' = left
     \/ /\ current # 0 /\ kind[current] = "test" /\ left[current] > 0
        /\ left' = [left EXCEPT ![current] = @ - 1]
  /\ start' = [start EXCEPT ![current] = ticks]
  /\ pc' = [pc EXCEPT ![current] = "check"]
  /\ UNCHANGED <<table, current, next_id, pending, allocated, draft, cpu>>

Elapsed(s) == (ticks - start[s]) % TickWrap

WaitCheck ==
  /\ pc[current] = "check" /\ ~halted
  /\ pc' = [pc EXCEPT ![current] = IF Elapsed(current) < WaitTicks
                                   THEN "hlt" ELSE "run"]
  /\ UNCHANGED <<table, current, next_id, pending, allocated, start, left, draft, cpu>>

WaitHlt ==
  /\ pc[current] = "hlt"
  /\ halted' = TRUE
  /\ pc' = [pc EXCEPT ![current] = "check"]
  /\ UNCHANGED <<table, current, next_id, pending, allocated, start, left, draft,
                 intr, in_service, ticks>>

-----------------------------------------------------------------------------
\* IRQ0: the tick, and every TimeSlice ticks a yield from inside the handler.
\* isr_handler sends the EOI after the handler returns.
TimerInterrupt ==
  /\ intr /\ ~in_service
  /\ ticks' = (ticks + 1) % TickWrap
  /\ \/ /\ ticks' % TimeSlice # 0
        /\ halted' = FALSE
        /\ UNCHANGED <<state, frame, current, pending, allocated, intr, in_service>>
     \/ /\ ticks' % TimeSlice = 0
        /\ Schedule(state, "irq", pending, TRUE)
  /\ UNCHANGED <<id, rsp, stack_base, kind, next_id, pc, start, left, draft>>

Create == (\E e \in Entries : CreateFindSlot(e)) \/ CreateKmalloc
          \/ CreatePublish \/ CreateSetBase
Wait == WaitBegin \/ WaitCheck \/ WaitHlt

Next == Create \/ Yield \/ Exit \/ Wait \/ TimerInterrupt

Spec == Init /\ [][Next]_vars

-----------------------------------------------------------------------------
TypeOK ==
  /\ state \in [Slots -> {"Ready", "Running", "Dead"}]
  /\ id \in [Slots -> Nat]
  /\ rsp \in [Slots -> Stacks \cup {BootStack, NoStack}]
  /\ stack_base \in [Slots -> Stacks \cup {NoStack}]
  /\ frame \in [Slots -> Frames]
  /\ kind \in [Slots -> {"shell", "test", "program"}]
  /\ current \in Slots
  /\ next_id \in Nat
  /\ pending \in Stacks \cup {NoStack}
  /\ allocated \subseteq Stacks
  /\ pc \in [Slots -> {"run", "test", "program", "base", "check", "hlt"}]
  /\ start \in [Slots -> 0 .. TickWrap - 1]
  /\ left \in [Slots -> Nat]
  /\ draft \in [slot : Slots, stack : Stacks \cup {NoStack}]
  /\ intr \in BOOLEAN /\ in_service \in BOOLEAN /\ halted \in BOOLEAN
  /\ ticks \in 0 .. TickWrap - 1

\* schedule() leaves exactly one slot Running, and it is CURRENT_THREAD: a
\* dying thread always finds somebody to switch to, so the hlt loop at the end
\* of exit() is never entered.
OneRunning ==
  \A s \in Slots : state[s] = "Running" <=> s = current

\* No two live threads share a stack, and no live thread's stack has been
\* given back to the heap, whatever the interleaving of create() and exit().
LiveStacksExclusive ==
  \A s \in Slots : Live(s) =>
    /\ rsp[s] \in allocated \cup {BootStack}
    /\ \A t \in Slots : Live(t) /\ t # s => rsp[t] # rsp[s]

\* is_alive() and get_by_id() look a thread up by id: an id names at most one
\* live thread.
IdsUnique ==
  \A s, t \in Slots : Live(s) /\ Live(t) /\ id[s] = id[t] => s = t

\* The PIC's in-service bit for IRQ0 stays set over a thread switch exactly
\* while thread 0 is parked inside timer_handler: whenever the timer is
\* blocked, somebody still owes the EOI that unblocks it.
EoiOwed ==
  in_service <=> (current # 0 /\ frame[0] = "irq")

\* What the comment on PENDING_FREE_STACK says: "schedule() actually calls
\* kfree AFTER context_switch has moved execution to a different stack".
FreedOffStack ==
  [][\A k \in allocated \ allocated' : k # rsp[current]]_vars

=============================================================================
