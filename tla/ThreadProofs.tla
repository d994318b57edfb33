---------------------------- MODULE ThreadProofs ----------------------------
(***************************************************************************)
(* Proofs about the scheduler, for every size of the thread table, every   *)
(* set of stacks and every time slice, and about run_protected on top of   *)
(* it.  Then, about the keystrokes an interrupt hands to a thread: the     *)
(* ring implements a bounded FIFO, for every buffer size.                  *)
(***************************************************************************)
EXTENDS Recovery, Keyboard, TLAPS

\* A leaf is given to the SMT solver and then to Zenon, a minute each.
USE SMTT(60), ZenonT(60)

-----------------------------------------------------------------------------
(* The inductive invariant.                                                *)

\* Thread 0 never dies and keeps the boot stack, which is never freed.
BootInv == Live(0) /\ rsp[0] = BootStack /\ stack_base[0] = NoStack

\* Who may use or free which stack, whatever create() has stored so far.
StackInv ==
  /\ pending = NoStack
  /\ \A s \in Slots \ {0} : Live(s) => rsp[s] \in allocated
  /\ \A s, t \in Slots : s # t /\ Live(s) /\ Live(t) => rsp[s] # rsp[t]
  /\ \A s \in Slots : stack_base[s] # NoStack => stack_base[s] \in allocated
  /\ \A s, t \in Slots : s # t /\ stack_base[s] # NoStack =>
       stack_base[s] # stack_base[t] /\ (Live(t) => rsp[t] # stack_base[s])

\* The slot and the stack create() works on belong to nobody else.
DraftInv ==
  /\ pc[0] \in {"test", "program"} => draft.slot # 0 /\ ~Live(draft.slot)
  /\ pc[0] = "base" => draft.slot # 0 /\ draft.stack # NoStack
  /\ pc[0] \in {"test", "program", "base"} /\ draft.stack # NoStack =>
       /\ draft.stack \in allocated
       /\ \A s \in Slots : stack_base[s] # draft.stack
       /\ \A s \in Slots : Live(s) /\ rsp[s] = draft.stack => s = draft.slot

IdInv ==
  /\ \A s \in Slots : Live(s) => id[s] < next_id
  /\ IdsUnique

\* Interrupts are enabled exactly while thread 0 runs; a spawned thread starts
\* in its fresh frame and is never preempted, so it never leaves another one.
InterruptInv ==
  /\ current = 0 => intr /\ ~in_service
  /\ current # 0 => /\ ~intr /\ frame[0] \in {"yieldOn", "irq"}
                    /\ in_service <=> frame[0] = "irq"
  /\ \A s \in Slots \ {0} : state[s] = "Ready" => frame[s] = "fresh"

IInv == TypeOK /\ OneRunning /\ BootInv /\ StackInv /\ DraftInv /\ IdInv
        /\ InterruptInv

-----------------------------------------------------------------------------
\* The scan of schedule() always meets slot 0 when another thread starts it.
LEMMA ScanReachesZero ==
  ASSUME NEW old \in Slots \ {0}
  PROVE  /\ MAX_THREADS - old \in 1 .. MAX_THREADS
         /\ (old + (MAX_THREADS - old)) % MAX_THREADS = 0
<1>1. old \in Nat /\ old > 0 /\ old < MAX_THREADS /\ MAX_THREADS \in Nat
  BY ThreadsAssumption DEF Slots
<1>2. old + (MAX_THREADS - old) = MAX_THREADS
  BY <1>1
<1>3. MAX_THREADS % MAX_THREADS = 0
  BY <1>1
<1> QED
  BY <1>1, <1>2, <1>3

\* What a call of schedule() does to the table and to the CPU: nobody dies or
\* comes to life, one thread is Running, and it is a Ready one or the caller.
LEMMA ScheduleStep ==
  ASSUME TypeOK,
         NEW st \in [Slots -> {"Ready", "Running", "Dead"}],
         \A s \in Slots : st[s] = "Running" => s = current,
         \/ current = 0 /\ st[0] = "Running"
         \/ current # 0 /\ st[current] = "Dead" /\ st[0] = "Ready",
         NEW saved, NEW pend, NEW service,
         Schedule(st, saved, pend, service)
  PROVE  /\ state' \in [Slots -> {"Ready", "Running", "Dead"}]
         /\ current' \in Slots
         /\ \A s \in Slots : state'[s] = "Running" <=> s = current'
         /\ \A s \in Slots : state'[s] = "Dead" <=> st[s] = "Dead"
         /\ \A s \in Slots : state'[s] = "Ready" => st[s] = "Ready" \/ s = 0
         /\ current' = current => current = 0
         /\ current' # current => st[current'] = "Ready"
         /\ frame' = [frame EXCEPT ![current] = saved]
         /\ Resume(IF current' = current THEN saved ELSE frame[current'], service)
         /\ allocated' = allocated \ {pend} /\ pending' = NoStack
<1>0. 0 \in Slots /\ current \in Slots
  BY ThreadsAssumption DEF Slots, TypeOK
<1>1. PICK next \in Slots :
        /\ RoundRobin(st, current, next)
        /\ state' = SwitchStates(st, current, next)
        /\ current' = next
        /\ frame' = [frame EXCEPT ![current] = saved]
        /\ Resume(IF next = current THEN saved ELSE frame[next], service)
  BY DEF Schedule
<1>2. next # current => st[next] = "Ready"
  BY <1>1 DEF RoundRobin
<1>3. next = current => current = 0
  <2> SUFFICES ASSUME current # 0, next = current PROVE FALSE
    OBVIOUS
  <2>1. st[current] = "Dead" /\ st[0] = "Ready"
    OBVIOUS
  <2>2. \A j \in 1 .. MAX_THREADS : st[(current + j) % MAX_THREADS] # "Ready"
    BY <1>1, <2>1 DEF RoundRobin
  <2>3. st[(current + (MAX_THREADS - current)) % MAX_THREADS] # "Ready"
    BY <2>2, <1>0, ScanReachesZero
  <2> QED
    BY <2>1, <2>3, <1>0, ScanReachesZero
<1>4. CASE next = current
  BY <1>0, <1>1, <1>3, <1>4 DEF Schedule, FreePending, SwitchStates
<1>5. CASE next # current
  <2>1. state' = [st EXCEPT ![current] = IF st[current] = "Running" THEN "Ready"
                                         ELSE st[current],
                            ![next] = "Running"]
    BY <1>1, <1>5 DEF SwitchStates
  <2>2. state' \in [Slots -> {"Ready", "Running", "Dead"}]
    BY <2>1, <1>0
  <2>3. \A s \in Slots : state'[s] = "Running" <=> s = next
    BY <2>1, <1>0, <1>5
  <2>4. \A s \in Slots : state'[s] = "Dead" <=> st[s] = "Dead"
    BY <2>1, <1>0, <1>2, <1>5
  <2>5. \A s \in Slots : state'[s] = "Ready" => st[s] = "Ready" \/ s = 0
    BY <2>1, <1>0, <1>2, <1>5
  <2> QED
    BY <2>2, <2>3, <2>4, <2>5, <1>1, <1>2, <1>5 DEF Schedule, FreePending
<1> QED
  BY <1>4, <1>5

-----------------------------------------------------------------------------
\* The three callers of schedule() keep the invariant: `st` is the table's
\* states as the caller leaves them, `pend` the stack it has put aside.
LEMMA ScheduleKeepsInv ==
  ASSUME IInv,
         NEW st, NEW saved \in Frames, NEW pend, NEW service \in BOOLEAN,
         Schedule(st, saved, pend, service),
         \/ /\ current = 0 /\ st = state /\ pend = NoStack
            /\ \/ saved = "irq" /\ service
               \/ saved = "yieldOn" /\ ~service
            /\ UNCHANGED stack_base
         \/ /\ current # 0 /\ st = [state EXCEPT ![current] = "Dead"]
            /\ saved = "never" /\ service = in_service
            /\ pend = stack_base[current]
            /\ stack_base' = [stack_base EXCEPT ![current] = NoStack],
         UNCHANGED <<id, rsp, kind, next_id, pc, start, left, draft>>,
         ticks' \in 0 .. TickWrap - 1
  PROVE  IInv'
<1>0. 0 \in Slots /\ current \in Slots
  BY ThreadsAssumption DEF Slots, IInv, TypeOK
<1>1. state[0] # "Dead" /\ (current # 0 => state[0] = "Ready")
      /\ (current = 0 => state[0] = "Running")
  BY <1>0 DEF IInv, BootInv, Live, OneRunning, TypeOK
<1>2. /\ st \in [Slots -> {"Ready", "Running", "Dead"}]
      /\ \A s \in Slots : st[s] = "Running" => s = current
      /\ \A s \in Slots : st[s] # "Dead" => Live(s)
      /\ \A s \in Slots : s # current => st[s] = state[s]
      /\ \/ current = 0 /\ st[0] = "Running"
         \/ current # 0 /\ st[current] = "Dead" /\ st[0] = "Ready"
  BY <1>0, <1>1 DEF IInv, TypeOK, OneRunning, Live
<1>3. /\ state' \in [Slots -> {"Ready", "Running", "Dead"}]
      /\ current' \in Slots
      /\ \A s \in Slots : state'[s] = "Running" <=> s = current'
      /\ \A s \in Slots : state'[s] = "Dead" <=> st[s] = "Dead"
      /\ \A s \in Slots : state'[s] = "Ready" => st[s] = "Ready" \/ s = 0
      /\ current' = current => current = 0
      /\ current' # current => st[current'] = "Ready"
      /\ frame' = [frame EXCEPT ![current] = saved]
      /\ Resume(IF current' = current THEN saved ELSE frame[current'], service)
      /\ allocated' = allocated \ {pend} /\ pending' = NoStack
  BY <1>2, ScheduleStep DEF IInv
<1>4. \A s \in Slots : Live(s)' <=> st[s] # "Dead"
  BY <1>3 DEF Live
<1>5. TypeOK'
  BY <1>0, <1>3 DEF IInv, TypeOK, Resume, Frames
<1>6. OneRunning'
  BY <1>3 DEF OneRunning
<1>7. BootInv'
  BY <1>0, <1>2, <1>4 DEF IInv, BootInv, TypeOK
<1>8. StackInv'
  <2>1. \A s \in Slots : Live(s)' => Live(s) /\ (current # 0 => s # current)
    BY <1>2, <1>4
  <2>2. \A s \in Slots : /\ stack_base'[s] # NoStack => stack_base'[s] = stack_base[s]
                         /\ current # 0 => stack_base'[current] = NoStack
    BY <1>0 DEF IInv, TypeOK
  <2>3. pend = NoStack \/ (current # 0 /\ pend = stack_base[current])
    OBVIOUS
  <2>4. \A s \in Slots \ {0} : Live(s)' => rsp[s] \in allocated'
    BY <1>0, <1>3, <2>1, <2>3, StacksAssumption DEF IInv, StackInv, TypeOK
  <2>5. \A s \in Slots : stack_base'[s] # NoStack => stack_base'[s] \in allocated'
    BY <1>0, <1>3, <2>2, <2>3, StacksAssumption DEF IInv, StackInv, TypeOK
  <2>6. \A s, t \in Slots : s # t /\ stack_base'[s] # NoStack =>
          stack_base'[s] # stack_base'[t] /\ (Live(t)' => rsp[t] # stack_base'[s])
    BY <2>1, <2>2 DEF IInv, StackInv
  <2> QED
    BY <1>3, <2>1, <2>4, <2>5, <2>6 DEF IInv, StackInv
<1>9. DraftInv'
  BY <1>0, <1>2, <1>3, <1>4, StacksAssumption DEF IInv, DraftInv, TypeOK
<1>10. IdInv'
  BY <1>0, <1>2, <1>4 DEF IInv, IdInv, IdsUnique
<1>11. InterruptInv'
  <2> DEFINE f == IF current' = current THEN saved ELSE frame[current']
  <2>1. \A s \in Slots \ {0} : state'[s] = "Ready" => frame'[s] = "fresh"
    BY <1>0, <1>2, <1>3 DEF IInv, InterruptInv, TypeOK
  <2>2. current' = 0 => f \in {"yieldOn", "irq"} /\ (service /\ f # "irq" => FALSE)
    BY <1>0, <1>2, <1>3 DEF IInv, InterruptInv, TypeOK
  <2>3. current' # 0 => /\ f = "fresh"
                        /\ frame'[0] \in {"yieldOn", "irq"}
                        /\ service <=> frame'[0] = "irq"
    BY <1>0, <1>2, <1>3 DEF IInv, InterruptInv, TypeOK
  <2>4. (intr' <=> f \in {"yieldOn", "irq"}) /\ (in_service' <=> service /\ f # "irq")
    BY <1>3, Zenon DEF Resume
  <2> QED
    BY <2>1, <2>2, <2>3, <2>4 DEF InterruptInv
<1> QED
  BY <1>5, <1>6, <1>7, <1>8, <1>9, <1>10, <1>11 DEF IInv

\* The invariant holds when the kernel enables interrupts.
LEMMA InitInv == Init => IInv
<1> SUFFICES ASSUME Init PROVE IInv
  OBVIOUS
<1>0. 0 \in Slots /\ Slots \subseteq Nat
  BY ThreadsAssumption DEF Slots
<1>1. TypeOK
  <2>1. 0 \in 0 .. TickWrap - 1
    BY TicksAssumption
  <2>2. draft \in [slot : Slots, stack : Stacks \cup {NoStack}]
    BY <1>0 DEF Init, NoDraft
  <2> QED
    BY Zenon, <1>0, <2>1, <2>2 DEF Init, TypeOK, Frames
<1> QED
  BY <1>0, <1>1 DEF Init, IInv, OneRunning, BootInv, StackInv, DraftInv, IdInv,
     IdsUnique, InterruptInv, Live, NoDraft

\* create() keeps the invariant at each of its stores.
LEMMA CreateKeepsInv == IInv /\ Create => IInv'
<1> SUFFICES ASSUME IInv, Create PROVE IInv'
  OBVIOUS
<1>0. 0 \in Slots /\ Slots \subseteq Nat
  BY ThreadsAssumption DEF Slots
<1> USE DEF IInv
<1>1. ASSUME NEW e \in Entries, CreateFindSlot(e) PROVE IInv'
  <2>1. PICK s \in 0 .. MAX_THREADS :
          FreeSlot(s) /\ draft' = [slot |-> s, stack |-> NoStack]
    BY <1>1 DEF CreateFindSlot
  <2>2. s \in Slots /\ s # 0 /\ ~Live(s)
    BY <1>0, <2>1, ThreadsAssumption DEF FreeSlot, ScanForDead, Slots, BootInv
  <2>3. UNCHANGED <<table, current, next_id, pending, allocated, start, left, cpu>>
        /\ pc' = [pc EXCEPT ![0] = e] /\ e \in {"test", "program"}
    BY <1>1, SpawnAssumption DEF CreateFindSlot
  <2>4. TypeOK'
    BY <1>0, <2>1, <2>2, <2>3 DEF TypeOK, table, cpu
  <2>5. DraftInv'
    BY <1>0, <2>1, <2>2, <2>3 DEF DraftInv, TypeOK, Live, table
  <2> QED
    BY <2>3, <2>4, <2>5 DEF OneRunning, BootInv, StackInv, IdInv, IdsUnique,
       InterruptInv, Live, table, cpu
<1>2. ASSUME CreateKmalloc PROVE IInv'
  <2>1. UNCHANGED <<table, current, next_id, pending, start, left, cpu>>
        /\ pc[0] \in {"test", "program"} /\ draft.stack = NoStack
    BY Zenon, <1>2, SpawnAssumption DEF CreateKmalloc
  <2>2. ASSUME NEW k \in Stacks \ allocated,
               allocated' = allocated \cup {k},
               draft' = [draft EXCEPT !.stack = k], pc' = pc
        PROVE  IInv'
    <3>1. TypeOK'
      BY <2>1, <2>2 DEF TypeOK, table, cpu
    <3>2. \A s \in Slots : stack_base[s] # k /\ (Live(s) => rsp[s] # k)
      BY <1>0, <2>2, StacksAssumption DEF StackInv, BootInv, TypeOK
    <3>3. DraftInv'
      BY <1>0, <2>1, <2>2, <3>2 DEF DraftInv, TypeOK, Live, table
    <3>4. StackInv'
      BY Zenon, <2>1, <2>2 DEF StackInv, Live, table
    <3> QED
      BY <2>1, <3>1, <3>3, <3>4 DEF OneRunning, BootInv, IdInv, IdsUnique,
         InterruptInv, Live, table, cpu
  <2>3. ASSUME pc' = [pc EXCEPT ![0] = "run"], UNCHANGED <<allocated, draft>>
        PROVE  IInv'
    <3>1. TypeOK' /\ pc'[0] = "run"
      BY <1>0, <2>1, <2>3 DEF TypeOK, table, cpu
    <3> QED
      BY <2>1, <2>3, <3>1 DEF OneRunning, BootInv, StackInv, DraftInv, IdInv,
         IdsUnique, InterruptInv, Live, table, cpu
  <2> QED
    BY <1>2, <2>2, <2>3 DEF CreateKmalloc
<1>3. ASSUME CreatePublish PROVE IInv'
  <2> DEFINE d == draft.slot
             k == draft.stack
  <2>1. d \in Slots \ {0} /\ ~Live(d) /\ k \in Stacks /\ current = 0 /\ k \in allocated
    BY <1>3, SpawnAssumption DEF CreatePublish, DraftInv, TypeOK
  <2>2. d # current /\ pc[0] \in {"test", "program"} /\ k # NoStack
    BY Zenon, <1>3, <2>1, SpawnAssumption DEF CreatePublish
  <2>3. \A s \in Slots : Live(s)' <=> Live(s) \/ s = d
    BY Zenon, <1>3, <2>1 DEF CreatePublish, Live, TypeOK
  <2>4. TypeOK'
    BY <1>0, <1>3, <2>1, <2>2, TicksAssumption
       DEF CreatePublish, TakeId, TypeOK, Frames, cpu
  <2>5. OneRunning' /\ BootInv'
    BY <1>0, <1>3, <2>1, <2>2 DEF CreatePublish, OneRunning, BootInv, Live, TypeOK
  <2>6. /\ \A s \in Slots : s # d => rsp'[s] = rsp[s] /\ (Live(s) => rsp[s] # k)
        /\ rsp'[d] = k
        /\ \A s \in Slots : stack_base[s] # k
    BY Zenon, <1>3, <2>1, <2>2 DEF CreatePublish, DraftInv, TypeOK
  <2>7. StackInv'
    BY <1>3, <2>1, <2>3, <2>6 DEF CreatePublish, StackInv
  <2>8. DraftInv'
    <3>1. pc'[0] = "base" /\ draft' = draft /\ allocated' = allocated
          /\ stack_base' = stack_base
      BY <1>0, <1>3, <2>1 DEF CreatePublish, TypeOK
    <3> QED
      BY Zenon, <3>1, <2>1, <2>2, <2>3, <2>6 DEF DraftInv
  <2>9. IdInv'
    <3>1. next_id' = next_id + 1 /\ id'[d] = next_id
          /\ \A s \in Slots : s # d => id'[s] = id[s]
      BY <1>3, <2>1 DEF CreatePublish, TakeId, TypeOK
    <3> QED
      BY <3>1, <2>1, <2>3 DEF IdInv, IdsUnique, TypeOK
  <2>10. InterruptInv'
    BY <1>0, <1>3, <2>1 DEF CreatePublish, InterruptInv, TypeOK, cpu
  <2> QED
    BY <2>4, <2>5, <2>7, <2>8, <2>9, <2>10
<1>4. ASSUME CreateSetBase PROVE IInv'
  <2> DEFINE d == draft.slot
             k == draft.stack
  <2>1. /\ d \in Slots \ {0} /\ k \in Stacks /\ k \in allocated
        /\ \A s \in Slots : stack_base[s] # k
        /\ \A s \in Slots : Live(s) /\ rsp[s] = k => s = d
    BY <1>4, StacksAssumption DEF CreateSetBase, DraftInv, TypeOK
  <2>2. /\ stack_base'[d] = k /\ pc'[0] = "run"
        /\ \A s \in Slots : s # d => stack_base'[s] = stack_base[s]
    BY <1>0, <1>4, <2>1 DEF CreateSetBase, TypeOK
  <2>3. TypeOK'
    BY Zenon, <1>0, <1>4, <2>1 DEF CreateSetBase, NoDraft, TypeOK, cpu
  <2>4. StackInv'
    BY <1>4, <2>1, <2>2 DEF CreateSetBase, StackInv, Live
  <2>5. BootInv' /\ DraftInv'
    BY ZenonT(60), <1>0, <1>4, <2>1, <2>2 DEF CreateSetBase, BootInv, DraftInv, Live
  <2> QED
    BY <1>4, <2>3, <2>4, <2>5 DEF CreateSetBase, OneRunning, IdInv, IdsUnique,
       InterruptInv, Live, cpu
<1> QED
  BY <1>1, <1>2, <1>3, <1>4 DEF Create

\* Every step of the kernel keeps the invariant.
LEMMA NextInv == IInv /\ [Next]_vars => IInv'
<1> SUFFICES ASSUME IInv, [Next]_vars PROVE IInv'
  OBVIOUS
<1>0. 0 \in Slots /\ current \in Slots /\ pending = NoStack
  BY ThreadsAssumption DEF Slots, IInv, TypeOK, StackInv
<1>1. CASE Create
  BY <1>1, CreateKeepsInv
<1>2. CASE Yield
  <2>1. current = 0 /\ intr /\ ~in_service
    BY <1>2 DEF Yield, IInv, InterruptInv
  <2>2. Schedule(state, "yieldOn", NoStack, FALSE)
    <3>1. in_service = FALSE
      BY <2>1 DEF IInv, TypeOK
    <3> QED
      BY Zenon, <1>0, <1>2, <2>1, <3>1 DEF Yield
  <2>3. /\ UNCHANGED <<id, rsp, kind, next_id, pc, start, left, draft>>
        /\ UNCHANGED stack_base /\ ticks' \in 0 .. TickWrap - 1
    BY <1>2 DEF Yield, IInv, TypeOK
  <2>4. "yieldOn" \in Frames
    BY DEF Frames
  <2> QED
    BY Zenon, <2>1, <2>2, <2>3, <2>4, ScheduleKeepsInv
<1>3. CASE Exit
  <2>1. current # 0
    BY <1>3 DEF Exit
  <2>2. Schedule([state EXCEPT ![current] = "Dead"], "never", stack_base[current],
                 in_service)
    BY <1>0, <1>3 DEF Exit
  <2>3. /\ UNCHANGED <<id, rsp, kind, next_id, pc, start, left, draft>>
        /\ stack_base' = [stack_base EXCEPT ![current] = NoStack]
        /\ ticks' \in 0 .. TickWrap - 1
    BY <1>3 DEF Exit, IInv, TypeOK
  <2>4. "never" \in Frames /\ in_service \in BOOLEAN
    BY Zenon DEF Frames, IInv, TypeOK
  <2> QED
    BY <2>1, <2>2, <2>3, <2>4, ScheduleKeepsInv
<1>4. CASE Wait
  <2>1. /\ UNCHANGED <<table, current, next_id, pending, allocated, draft, intr,
                       in_service, ticks>>
        /\ start' \in [Slots -> 0 .. TickWrap - 1] /\ left' \in [Slots -> Nat]
        /\ halted' \in BOOLEAN
        /\ \E l \in {"run", "check", "hlt"} : pc' = [pc EXCEPT ![current] = l]
    <3> USE <1>0 DEF IInv, TypeOK, cpu
    <3>1. CASE WaitBegin
      BY <3>1 DEF WaitBegin
    <3>2. CASE WaitCheck
      BY Zenon, <3>2 DEF WaitCheck
    <3>3. CASE WaitHlt
      BY Zenon, <3>3 DEF WaitHlt
    <3> QED
      BY Zenon, <1>4, <3>1, <3>2, <3>3 DEF Wait
  <2>2. TypeOK'
    BY <1>0, <2>1 DEF IInv, TypeOK, table
  <2>3. DraftInv'
    <3>1. pc'[0] = pc[0] \/ pc'[0] \in {"run", "check", "hlt"}
      BY <1>0, <2>1 DEF IInv, TypeOK
    <3> QED
      BY Zenon, <2>1, <3>1 DEF IInv, DraftInv, Live, table
  <2> QED
    BY Zenon, <2>1, <2>2, <2>3 DEF IInv, OneRunning, BootInv, StackInv, IdInv, IdsUnique,
       InterruptInv, Live, table
<1>5. CASE TimerInterrupt
  <2>1. current = 0
    BY <1>5 DEF TimerInterrupt, IInv, InterruptInv
  <2>2. ticks' \in 0 .. TickWrap - 1
    <3>1. ticks + 1 \in Nat /\ ticks' = (ticks + 1) % TickWrap
      BY <1>5, TicksAssumption DEF TimerInterrupt, IInv, TypeOK
    <3> QED
      BY <3>1, TicksAssumption
  <2>3. UNCHANGED <<id, rsp, stack_base, kind, next_id, pc, start, left, draft>>
    BY <1>5 DEF TimerInterrupt
  <2>4. CASE Schedule(state, "irq", pending, TRUE)
    <3>1. "irq" \in Frames
      BY DEF Frames
    <3> QED
      BY Zenon, <1>0, <2>1, <2>2, <2>3, <2>4, <3>1, ScheduleKeepsInv
  <2>5. CASE /\ halted' = FALSE
             /\ UNCHANGED <<state, frame, current, pending, allocated, intr,
                            in_service>>
    <3>1. TypeOK'
      BY Zenon, <2>2, <2>3, <2>5 DEF IInv, TypeOK
    <3>2. OneRunning' /\ BootInv' /\ IdInv' /\ InterruptInv'
      BY Zenon, <2>3, <2>5 DEF IInv, OneRunning, BootInv, IdInv, IdsUnique, InterruptInv,
         Live
    <3>3. StackInv' /\ DraftInv'
      BY ZenonT(60), <2>3, <2>5 DEF IInv, StackInv, DraftInv, Live
    <3> QED
      BY <3>1, <3>2, <3>3 DEF IInv
  <2> QED
    BY Zenon, <1>5, <2>4, <2>5 DEF TimerInterrupt
<1>6. CASE UNCHANGED vars
  <2>1. TypeOK'
    BY ZenonT(60), <1>6 DEF vars, table, cpu, IInv, TypeOK
  <2>2. OneRunning' /\ BootInv' /\ StackInv' /\ DraftInv'
    BY ZenonT(60), <1>6 DEF vars, table, cpu, IInv, OneRunning, BootInv, StackInv,
       DraftInv, Live
  <2>3. IdInv' /\ InterruptInv'
    BY ZenonT(60), <1>6 DEF vars, table, cpu, IInv, IdInv, IdsUnique, InterruptInv, Live
  <2> QED
    BY Zenon, <2>1, <2>2, <2>3 DEF IInv
<1> QED
  BY <1>1, <1>2, <1>3, <1>4, <1>5, <1>6 DEF Next

\* IInv holds in every reachable state of the scheduler.
THEOREM Invariance == Spec => []IInv
BY InitInv, NextInv, PTL DEF Spec

\* Every variable of the scheduler keeps its type (TypeOK).
THEOREM TypeCorrect == Spec => []TypeOK
<1>1. IInv => TypeOK
  BY DEF IInv
<1> QED
  BY <1>1, Invariance, PTL

\* Exactly the slot CURRENT_THREAD names is Running: a dying thread always
\* finds a Ready one, because thread 0 cannot die and is not running.
THEOREM OneRunningAlways == Spec => []OneRunning
<1>1. IInv => OneRunning
  BY ZenonT(60) DEF IInv
<1> QED
  BY <1>1, Invariance, PTL

\* No live thread's stack is freed or shared, at any point of create(), exit()
\* and the timer interrupt.
THEOREM StacksAlwaysExclusive == Spec => []LiveStacksExclusive
<1>1. IInv => LiveStacksExclusive
  BY ZenonT(60) DEF IInv, LiveStacksExclusive, BootInv, StackInv
<1> QED
  BY <1>1, Invariance, PTL

\* Thread ids are unique among the live threads.
THEOREM IdsAlwaysUnique == Spec => []IdsUnique
<1>1. IInv => IdsUnique
  BY DEF IInv, IdInv
<1> QED
  BY <1>1, Invariance, PTL

\* The timer is never left blocked without a thread that will send its EOI.
THEOREM EoiAlwaysOwed == Spec => []EoiOwed
<1>1. IInv => EoiOwed
  BY DEF IInv, EoiOwed, InterruptInv
<1> QED
  BY <1>1, Invariance, PTL

-----------------------------------------------------------------------------
(* run_protected on top of the scheduler.                                  *)

\* Every step of run_protected, of the program and of the interrupts is one
\* step of the scheduler, or none.
LEMMA SchedulerStep == [RNext]_rvars => [Next]_vars
<1> SUFFICES ASSUME [RNext]_rvars PROVE [Next]_vars
  OBVIOUS
<1> USE DEF Next
<1>1. CASE RunProtected \/ CreateFails \/ PollDone \/ PollAlive
  BY Zenon, <1>1 DEF RunProtected, CreateFails, PollDone, PollAlive
<1>2. CASE CreateChild
  <2>1. CreateFindSlot("program") \/ CreateKmalloc \/ CreatePublish \/ CreateSetBase
    BY Zenon, <1>2 DEF CreateChild
  <2>2. "program" \in Entries
    BY ResultsAssumption
  <2> QED
    BY Zenon, <2>1, <2>2 DEF Create
<1>3. CASE PollYield \/ ChildReturns \/ ThreadExits \/ Tick \/ Waits
  BY Zenon, <1>3 DEF PollYield, ChildReturns, ThreadExits, Tick, Waits
<1>4. CASE SpawnTest
  BY Zenon, <1>4 DEF SpawnTest, Create
<1>5. CASE UNCHANGED rvars
  BY Zenon, <1>5 DEF rvars
<1> QED
  BY Zenon, <1>1, <1>2, <1>3, <1>4, <1>5 DEF RNext

\* run_protected uses the scheduler as the scheduler is specified: whatever is
\* proved of Spec holds while programs run, too.
THEOREM RecoveryUsesScheduler == RSpec => Spec
<1>1. RInit => Init
  BY DEF RInit
<1> QED
  BY <1>1, SchedulerStep, PTL DEF RSpec, Spec

-----------------------------------------------------------------------------
\* A program's thread that is still in the table.
Program(s) == Live(s) /\ kind[s] = "program"

\* Where create() is, as seen from run_protected.
PhaseInv ==
  /\ phase \in {"idle", "create", "done?", "alive?", "yield"}
  /\ pc[0] = "program" => phase = "create"
  /\ phase = "create" => pc[0] \in {"run", "program", "base"}
  /\ phase \in {"done?", "alive?", "yield"} => pc[0] = "run"

\* There is no program before create() has published one and none once it has
\* set CHILD_DONE; the one there is has the id run_protected polls for; and
\* CHILD_RESULT always says how the program has ended so far.
ChildInv ==
  /\ phase = "idle" \/ (phase = "create" /\ pc[0] # "base") =>
       \A s \in Slots : ~Program(s)
  /\ child_done # 0 => \A s \in Slots : ~Program(s)
  /\ \A s \in Slots : Program(s) => id[s] = tid
  /\ phase = "create" /\ pc[0] # "base" => child_done = 0 /\ outcome = Crashed
  /\ phase # "idle" => child_result = outcome

\* The steps that call schedule() or wait bring nobody to life.
LEMMA NobodyReturns ==
  ASSUME IInv, Yield \/ Exit \/ TimerInterrupt \/ Wait
  PROVE  /\ \A s \in Slots : Live(s)' => Live(s)
         /\ Exit => state'[current] = "Dead"
         /\ UNCHANGED <<id, kind>>
<1>0. 0 \in Slots /\ current \in Slots /\ TypeOK
  BY ThreadsAssumption DEF Slots, IInv, TypeOK
<1>1. /\ state[0] # "Dead" /\ (current # 0 => state[0] = "Ready")
      /\ (current = 0 => state[0] = "Running")
      /\ \A s \in Slots : state[s] = "Running" <=> s = current
  BY <1>0 DEF IInv, BootInv, Live, OneRunning, TypeOK
<1>2. CASE Exit
  <2> DEFINE st == [state EXCEPT ![current] = "Dead"]
  <2>1. PICK pend : Schedule(st, "never", pend, in_service)
    BY ZenonT(60), <1>2 DEF Exit
  <2>2. /\ st \in [Slots -> {"Ready", "Running", "Dead"}]
        /\ \A s \in Slots : st[s] = "Running" => s = current
        /\ current # 0 /\ st[current] = "Dead" /\ st[0] = "Ready"
        /\ \A s \in Slots : state[s] = "Dead" => st[s] = "Dead"
    BY ZenonT(60), <1>0, <1>1, <1>2 DEF Exit, TypeOK
  <2>3. \A s \in Slots : state'[s] = "Dead" <=> st[s] = "Dead"
    <3> HIDE DEF st
    <3> QED
      BY Zenon, <1>0, <2>1, <2>2, ScheduleStep
  <2> QED
    BY ZenonT(60), <1>0, <1>2, <2>2, <2>3 DEF Exit, Live
<1>3. ASSUME NEW saved, NEW pend, NEW service, current = 0,
             Schedule(state, saved, pend, service)
      PROVE  \A s \in Slots : Live(s)' => Live(s)
  <2>1. \A s \in Slots : state'[s] = "Dead" <=> state[s] = "Dead"
    BY Zenon, <1>0, <1>1, <1>3, ScheduleStep DEF TypeOK
  <2> QED
    BY <2>1 DEF Live
<1>4. CASE Yield
  BY Zenon, <1>3, <1>4 DEF Yield, Exit
<1>5. CASE TimerInterrupt
  <2>1. current = 0
    BY <1>5 DEF TimerInterrupt, IInv, InterruptInv
  <2> QED
    BY Zenon, <1>3, <1>5, <2>1 DEF TimerInterrupt, Exit, Live
<1>6. CASE Wait
  <2>1. UNCHANGED <<table, current, draft>>
    BY ZenonT(60), <1>6 DEF Wait, WaitBegin, WaitCheck, WaitHlt
  <2>2. ~Exit
    BY ZenonT(60), <1>6, <1>0 DEF Wait, WaitBegin, WaitCheck, WaitHlt, Exit, TypeOK, cpu
  <2> QED
    BY <2>1, <2>2 DEF table, Live
<1> QED
  BY Zenon, <1>2, <1>4, <1>5, <1>6

\* The three steps of create() before the last, as run_protected and cmd_spawn
\* take them: only the publication changes the table.
LEMMA CreateStep ==
  ASSUME IInv, NEW e \in {"test", "program"},
         CreateFindSlot(e) \/ CreateKmalloc \/ CreatePublish \/ CreateSetBase
  PROVE  /\ CreateFindSlot(e) => pc[0] = "run" /\ pc'[0] = e
         /\ CreateKmalloc => pc[0] \in {"test", "program"} /\ pc'[0] \in {pc[0], "run"}
         /\ CreatePublish => pc[0] \in {"test", "program"} /\ pc'[0] = "base"
         /\ CreateSetBase => pc[0] = "base" /\ pc'[0] = "run"
         /\ ~CreatePublish => \A s \in Slots : Program(s)' <=> Program(s)
         /\ ~CreatePublish => UNCHANGED id
<1>0. 0 \in Slots /\ pc \in [Slots -> {"run", "test", "program", "base", "check", "hlt"}]
  BY ThreadsAssumption DEF Slots, IInv, TypeOK
<1>1. CreateFindSlot(e) => pc[0] = "run" /\ pc'[0] = e /\ UNCHANGED table
  BY ZenonT(60), <1>0 DEF CreateFindSlot
<1>2. CreateKmalloc => pc[0] \in {"test", "program"} /\ pc'[0] \in {pc[0], "run"}
                       /\ UNCHANGED table
  BY <1>0, SpawnAssumption DEF CreateKmalloc
<1>3. CreatePublish => pc[0] \in {"test", "program"} /\ pc'[0] = "base"
  <2> SUFFICES ASSUME CreatePublish PROVE pc[0] \in {"test", "program"} /\ pc'[0] = "base"
    OBVIOUS
  <2>1. pc[0] \in {"test", "program"}
    BY SpawnAssumption, Zenon DEF CreatePublish
  <2>2. draft.slot \in Slots \ {0}
    BY Zenon, <2>1 DEF IInv, DraftInv, TypeOK
  <2>3. pc' = [pc EXCEPT ![0] = "base", ![draft.slot] = "run"]
    BY ZenonT(60) DEF CreatePublish
  <2> QED
    BY <1>0, <2>1, <2>2, <2>3
<1>4. CreateSetBase => pc[0] = "base" /\ pc'[0] = "run" /\ UNCHANGED <<state, id, kind>>
  BY <1>0 DEF CreateSetBase
<1> QED
  BY <1>1, <1>2, <1>3, <1>4, Zenon DEF table, Program, Live

\* What the publication adds: one thread, of the kind create() was called for.
LEMMA PublishStep ==
  ASSUME IInv, CreatePublish
  PROVE  \E d \in Slots : /\ \A s \in Slots \ {d} : /\ Program(s)' <=> Program(s)
                                                    /\ id'[s] = id[s]
                          /\ Program(d)' <=> pc[0] = "program"
                          /\ id'[d] = next_id
<1>1. draft.slot \in Slots \ {0} /\ pc[0] \in {"test", "program"}
  BY ZenonT(60), SpawnAssumption DEF CreatePublish, IInv, DraftInv, TypeOK
<1>2. PICK d \in Slots : d = draft.slot
  BY <1>1
<1>3. /\ id' = [id EXCEPT ![d] = next_id]
      /\ state' = [state EXCEPT ![d] = "Ready"]
      /\ kind' = [kind EXCEPT ![d] = pc[0]]
  BY Zenon, <1>2 DEF CreatePublish
<1>4. /\ \A s \in Slots \ {d} : (Program(s)' <=> Program(s)) /\ id'[s] = id[s]
      /\ Program(d)' <=> pc[0] = "program"
      /\ id'[d] = next_id
  BY <1>1, <1>3 DEF Program, Live, IInv, TypeOK
<1> QED
  BY ZenonT(60), <1>4

\* Every step keeps what run_protected relies on.
LEMMA RecoveryStep ==
  ASSUME IInv, PhaseInv, ChildInv, [RNext]_rvars
  PROVE  PhaseInv' /\ ChildInv'
<1>0. 0 \in Slots /\ current \in Slots /\ Crashed = -99
      /\ pc \in [Slots -> {"run", "test", "program", "base", "check", "hlt"}]
  BY ThreadsAssumption DEF Slots, IInv, TypeOK, Crashed
<1> USE DEF PhaseInv, ChildInv
<1>1. CASE RunProtected
  <2>1. UNCHANGED <<pc, id, kind, state, tid>>
    BY Zenon, <1>1 DEF RunProtected, vars, table
  <2> QED
    BY ZenonT(60), <1>1, <2>1 DEF RunProtected, Arm, Program, Live
<1>2. CASE CreateFails \/ PollDone \/ PollAlive
  <2>1. UNCHANGED <<pc, id, kind, state, tid, child>>
    BY ZenonT(60), <1>2 DEF CreateFails, PollDone, PollAlive, vars, table
  <2>2. \A s \in Slots : Program(s)' <=> Program(s)
    BY Zenon, <2>1 DEF Program, Live
  <2>3. PollAlive /\ phase' = "idle" => \A s \in Slots : ~Program(s)
    BY Zenon, <1>2 DEF PollAlive, IsAlive, Program
  <2>4. PollDone /\ phase' = "idle" => \A s \in Slots : ~Program(s)
    BY <1>2 DEF PollDone
  <2>5. CreateFails => phase = "create" /\ pc[0] = "run"
    BY Zenon DEF CreateFails
  <2>6. /\ phase' \in {"idle", "done?", "alive?", "yield"}
        /\ phase' # "idle" => phase \in {"done?", "alive?"}
    BY <1>2 DEF CreateFails, PollDone, PollAlive, Return
  <2>7. phase # "idle" /\ (pc[0] = "program" => CreateFails)
    BY ZenonT(60), <1>2 DEF CreateFails, PollDone, PollAlive
  <2> QED
    BY ZenonT(60), <1>2, <2>1, <2>2, <2>3, <2>4, <2>5, <2>6, <2>7 DEF child
<1>3. ASSUME Yield \/ Exit \/ TimerInterrupt \/ Wait,
             UNCHANGED <<child, tid>>,
             /\ phase' \in {"done?", phase} /\ (phase' # phase => phase = "yield")
             /\ phase # "idle" => pc'[0] = pc[0]
             /\ pc'[0] = "program" => pc[0] = "program"
      PROVE  PhaseInv' /\ ChildInv'
  <2>1. \A s \in Slots : /\ Program(s)' => Program(s)
                         /\ id'[s] = id[s]
    BY Zenon, <1>3, NobodyReturns DEF Program
  <2>2. PhaseInv'
    BY <1>3
  <2>3. ChildInv'
    BY <1>3, <2>1 DEF child
  <2> QED
    BY Zenon, <2>2, <2>3
<1>4. CASE PollYield
  BY Zenon, <1>3, <1>4 DEF PollYield, Yield
<1>5. CASE ThreadExits \/ Tick
  BY Zenon, <1>3, <1>5 DEF ThreadExits, Exit, Tick, TimerInterrupt
<1>6. CASE Waits
  <2>1. \E l \in {"run", "check", "hlt"} : pc' = [pc EXCEPT ![current] = l]
    BY Zenon, <1>6 DEF Waits, Wait, WaitBegin, WaitCheck, WaitHlt
  <2>2. (phase # "idle" => pc'[0] = pc[0]) /\ (pc'[0] = "program" => pc[0] = "program")
    BY ZenonT(60), <1>0, <1>6, <2>1 DEF Waits
  <2> QED
    BY Zenon, <1>3, <1>6, <2>2 DEF Waits
<1>7. CASE ChildReturns
  <2>1. /\ \A s \in Slots : /\ Program(s)' => Program(s)
                            /\ id'[s] = id[s]
        /\ state'[current] = "Dead" /\ UNCHANGED <<pc, phase, tid>>
    <3>1. ChildReturns => Exit /\ UNCHANGED <<phase, tid>>
      BY DEF ChildReturns
    <3>2. state'[current] = "Dead"
      BY Zenon, <1>7, <3>1, NobodyReturns
    <3> QED
      BY Zenon, <1>7, <3>1, <3>2, NobodyReturns DEF Program, Live, Exit
  <2>2. Program(current) /\ child_done' = 1 /\ child_result' = outcome'
    BY ZenonT(60), <1>0, <1>7 DEF ChildReturns, SetChildResult, Program, Live, IInv, OneRunning
  <2>3. \A s \in Slots : Program(s) => s = current
    BY Zenon, <1>0, <2>2 DEF IInv, IdInv, IdsUnique, Program
  <2>4. \A s \in Slots : ~Program(s)'
    BY ZenonT(60), <2>1, <2>3 DEF Program, Live
  <2>5. phase # "idle" /\ ~(phase = "create" /\ pc[0] # "base")
    BY Zenon, <1>0, <2>2
  <2> QED
    BY ZenonT(60), <2>1, <2>2, <2>4, <2>5
<1>8. CASE SpawnTest
  <2>1. /\ phase = "idle" /\ UNCHANGED <<child, phase, tid>>
        /\ CreateFindSlot("test") \/ CreateKmalloc \/ CreatePublish \/ CreateSetBase
    BY Zenon, <1>8 DEF SpawnTest
  <2>2. pc'[0] # "program" /\ (~CreatePublish => \A s \in Slots : Program(s)' <=> Program(s))
        /\ (~CreatePublish => UNCHANGED id)
    BY Zenon, <2>1, CreateStep
  <2>3. \A s \in Slots : ~Program(s)'
    BY <2>1, <2>2, PublishStep
  <2> QED
    BY <2>1, <2>2, <2>3 DEF child
<1>9. CASE CreateChild
  <2>0. phase = "create" /\ UNCHANGED child
    BY <1>9 DEF CreateChild
  <2>1. CASE CreateFindSlot("program") /\ UNCHANGED <<phase, tid>>
    BY ZenonT(60), <2>0, <2>1, CreateStep DEF child, CreatePublish, CreateFindSlot
  <2>2. CASE CreateKmalloc /\ UNCHANGED tid
             /\ IF pc'[0] = "run" THEN phase' = "idle" ELSE UNCHANGED phase
    <3>1. pc[0] \in {"test", "program"} /\ pc'[0] \in {pc[0], "run"}
      BY <2>2, CreateStep
    <3>2. UNCHANGED table
      BY Zenon, <2>2 DEF CreateKmalloc
    <3>3. \A s \in Slots : (Program(s)' <=> Program(s)) /\ id'[s] = id[s]
      BY Zenon, <3>2 DEF Program, Live, table
    <3> QED
      BY Zenon, <2>0, <2>2, <3>1, <3>3 DEF child
  <2>3. CASE CreatePublish /\ tid' = next_id /\ UNCHANGED phase
    <3>1. pc[0] \in {"test", "program"} /\ pc'[0] = "base"
      BY Zenon, <2>3, CreateStep
    <3>2. \A s \in Slots : Program(s)' => id'[s] = tid'
      BY ZenonT(60), <2>0, <2>3, <3>1, PublishStep
    <3> QED
      BY Zenon, <2>0, <2>3, <3>1, <3>2 DEF child
  <2>4. CASE CreateSetBase /\ phase' = "done?" /\ UNCHANGED tid
    <3>1. pc[0] = "base" /\ pc'[0] = "run" 
      BY Zenon, <2>4, CreateStep
    <3>2. \A s \in Slots : (Program(s)' <=> Program(s)) /\ id'[s] = id[s]
      BY ZenonT(60), <2>4 DEF CreateSetBase, Program, Live
    <3> QED
      BY ZenonT(60), <2>0, <2>4, <3>1, <3>2 DEF child
  <2> QED
    BY Zenon, <1>9, <2>1, <2>2, <2>3, <2>4 DEF CreateChild
<1>10. CASE UNCHANGED rvars
  BY ZenonT(60), <1>10 DEF rvars, vars, table, child, Program, Live
<1> QED
  BY Zenon, <1>1, <1>2, <1>4, <1>5, <1>6, <1>7, <1>8, <1>9, <1>10 DEF RNext

\* run_protected returns how this program has ended: the value the program
\* returned or passed to sys_exit, or -99 if it was killed or never created,
\* for every interleaving of the shell's polls with the program's end.
THEOREM OutcomeReturned == RSpec => ReturnsOutcome
<1>1. RInit => PhaseInv /\ ChildInv
  <2> SUFFICES ASSUME RInit PROVE PhaseInv /\ ChildInv
    OBVIOUS
  <2>1. 0 \in Slots
    BY ThreadsAssumption DEF Slots
  <2>2. pc[0] = "run" /\ phase = "idle" /\ child_done = 0
        /\ \A s \in Slots : kind[s] = "shell"
    BY <2>1 DEF RInit, Init
  <2> QED
    BY ZenonT(60), <2>2 DEF PhaseInv, ChildInv, Program
<1>2. IInv /\ PhaseInv /\ ChildInv /\ [RNext]_rvars => PhaseInv' /\ ChildInv'
  BY Zenon, RecoveryStep
<1>3. IInv /\ PhaseInv /\ ChildInv /\ [RNext]_rvars =>
        (phase # "idle" /\ phase' = "idle" => ret' = outcome)
  <2> SUFFICES ASSUME IInv, PhaseInv, ChildInv, [RNext]_rvars,
                      phase # "idle", phase' = "idle"
               PROVE  ret' = outcome
    BY Zenon
  <2>1. \/ CreateFails \/ PollDone \/ PollAlive
        \/ phase = "create" /\ CreateKmalloc /\ ret' = Crashed
    BY DEF RNext, RunProtected, CreateChild, PollYield, ChildReturns, ThreadExits,
       Tick, SpawnTest, Waits, rvars
  <2>2. CreateKmalloc => pc[0] # "base"
    BY SpawnAssumption DEF CreateKmalloc
  <2> QED
    BY <2>1, <2>2 DEF CreateFails, PollDone, PollAlive, Return, ChildInv
<1> QED
  BY <1>1, <1>2, <1>3, Invariance, RecoveryUsesScheduler, PTL DEF RSpec, ReturnsOutcome

-----------------------------------------------------------------------------
(* Index arithmetic: what % does on the sums and differences of positions. *)

\* A position is its own remainder.
LEMMA ModLow == ASSUME NEW x \in Pos PROVE x % BUFFER_SIZE = x
  BY RingAssumption DEF Pos

\* A sum of two positions wraps at most once.
LEMMA ModHigh ==
  ASSUME NEW x \in BUFFER_SIZE .. BUFFER_SIZE + BUFFER_SIZE - 1
  PROVE  x % BUFFER_SIZE = x - BUFFER_SIZE
  BY RingAssumption

\* A difference of two positions wraps at most once.
LEMMA ModNeg ==
  ASSUME NEW x \in -BUFFER_SIZE .. -1
  PROVE  x % BUFFER_SIZE = x + BUFFER_SIZE
  BY RingAssumption

\* The number of characters waiting, and the slot of the i-th, without %.
Dist(h, t) == IF t <= h THEN h - t ELSE h - t + BUFFER_SIZE
Count == Dist(BUF_HEAD, BUF_TAIL)
SlotAt(t, i) == IF t + i - 1 < BUFFER_SIZE THEN t + i - 1
                ELSE t + i - 1 - BUFFER_SIZE

\* NextPos without %.
LEMMA NextPosValue ==
  ASSUME NEW x \in Pos
  PROVE  NextPos(x) = IF x + 1 = BUFFER_SIZE THEN 0 ELSE x + 1
<1>1. CASE x + 1 = BUFFER_SIZE
  BY <1>1, ModHigh, RingAssumption DEF NextPos, Pos
<1>2. CASE x + 1 # BUFFER_SIZE
  BY <1>2, ModLow, RingAssumption DEF NextPos, Pos
<1> QED
  BY <1>1, <1>2

\* The refinement mapping without %.
LEMMA PendingValue ==
  ASSUME RingTypeOK
  PROVE  /\ Count \in 0 .. BUFFER_SIZE - 1
         /\ Pending = [i \in 1 .. Count |-> BUFFER[SlotAt(BUF_TAIL, i)]]
<1>1. BUF_HEAD \in Pos /\ BUF_TAIL \in Pos
  BY DEF RingTypeOK
<1>2. Count \in 0 .. BUFFER_SIZE - 1
  BY <1>1, RingAssumption DEF Count, Dist, Pos
<1>3. (BUF_HEAD - BUF_TAIL) % BUFFER_SIZE = Count
  <2>1. CASE BUF_TAIL <= BUF_HEAD
    BY <1>1, <2>1, ModLow, RingAssumption DEF Count, Dist, Pos
  <2>2. CASE ~(BUF_TAIL <= BUF_HEAD)
    <3>1. BUF_HEAD - BUF_TAIL \in -BUFFER_SIZE .. -1
      BY <1>1, <2>2, RingAssumption DEF Pos
    <3> QED
      BY <2>2, <3>1, ModNeg DEF Count, Dist
  <2> QED
    BY <2>1, <2>2
<1>4. \A i \in 1 .. Count : (BUF_TAIL + i - 1) % BUFFER_SIZE = SlotAt(BUF_TAIL, i)
  <2> SUFFICES ASSUME NEW i \in 1 .. Count
               PROVE  (BUF_TAIL + i - 1) % BUFFER_SIZE = SlotAt(BUF_TAIL, i)
    OBVIOUS
  <2>1. CASE BUF_TAIL + i - 1 < BUFFER_SIZE
    <3>1. BUF_TAIL + i - 1 \in Pos
      BY <1>1, <1>2, <2>1, RingAssumption DEF Pos
    <3> QED
      BY <2>1, <3>1, ModLow DEF SlotAt
  <2>2. CASE ~(BUF_TAIL + i - 1 < BUFFER_SIZE)
    <3>1. BUF_TAIL + i - 1 \in BUFFER_SIZE .. BUFFER_SIZE + BUFFER_SIZE - 1
      BY <1>1, <1>2, <2>2, RingAssumption DEF Pos
    <3> QED
      BY <1>1, <1>2, <2>2, <3>1, ModHigh, RingAssumption DEF SlotAt, Pos
  <2> QED
    BY <2>1, <2>2
<1> QED
  BY <1>2, <1>3, <1>4 DEF Pending

\* Moving the head takes the slot after the last waiting character, moving the
\* tail drops the first one.
LEMMA MoveHead ==
  ASSUME NEW h \in Pos, NEW t \in Pos, NextPos(h) # t
  PROVE  /\ NextPos(h) \in Pos
         /\ Dist(NextPos(h), t) = Dist(h, t) + 1
         /\ SlotAt(t, Dist(h, t) + 1) = h
         /\ \A i \in 1 .. Dist(h, t) : SlotAt(t, i) \in Pos \ {h}
  BY NextPosValue, RingAssumption DEF Dist, SlotAt, Pos

LEMMA MoveTail ==
  ASSUME NEW h \in Pos, NEW t \in Pos, h # t
  PROVE  /\ NextPos(t) \in Pos
         /\ Dist(h, t) >= 1
         /\ Dist(h, NextPos(t)) = Dist(h, t) - 1
         /\ SlotAt(t, 1) = t
         /\ \A i \in 1 .. Dist(h, t) - 1 : SlotAt(NextPos(t), i) = SlotAt(t, i + 1)
  BY NextPosValue, RingAssumption DEF Dist, SlotAt, Pos

-----------------------------------------------------------------------------
\* The inductive invariant: every waiting slot holds a character, and the one
\* the reader has loaded is still the oldest.
RingInv ==
  /\ RingTypeOK
  /\ \A i \in 1 .. Count : BUFFER[SlotAt(BUF_TAIL, i)] \in Chars
  /\ at \in {"load", "advance"} => BUF_HEAD # BUF_TAIL
  /\ at = "advance" => c = BUFFER[BUF_TAIL]

LEMMA InitRing == RingInit => RingInv
<1> SUFFICES ASSUME RingInit PROVE RingInv
  OBVIOUS
<1>0. 0 \in Pos
  BY RingAssumption DEF Pos
<1>1. RingTypeOK
  BY Zenon, <1>0 DEF RingInit, RingTypeOK
<1>2. Count = 0
  BY DEF RingInit, Count, Dist
<1> QED
  BY <1>1, <1>2 DEF RingInv, RingInit

\* A push either drops the character or appends it to the waiting ones.
LEMMA PushRing ==
  ASSUME RingInv, NEW ch \in Chars, Push(ch)
  PROVE  /\ BUFFER' \in [Pos -> Chars \cup {NoChar}] /\ BUF_HEAD' \in Pos
         /\ BUF_TAIL' = BUF_TAIL
         /\ \/ UNCHANGED <<BUFFER, BUF_HEAD>>
            \/ /\ Count' = Count + 1 /\ Count < BUFFER_SIZE - 1
               /\ BUFFER'[SlotAt(BUF_TAIL, Count + 1)] = ch
               /\ \A i \in 1 .. Count :
                    BUFFER'[SlotAt(BUF_TAIL, i)] = BUFFER[SlotAt(BUF_TAIL, i)]
         /\ BUF_HEAD # BUF_TAIL => /\ BUF_HEAD' # BUF_TAIL
                                   /\ BUFFER'[BUF_TAIL] = BUFFER[BUF_TAIL]
<1>0. BUF_HEAD \in Pos /\ BUF_TAIL \in Pos /\ BUFFER \in [Pos -> Chars \cup {NoChar}]
  BY Zenon DEF RingInv, RingTypeOK
<1>1. CASE Room
  <2>1. /\ BUFFER' = [BUFFER EXCEPT ![BUF_HEAD] = ch]
        /\ BUF_HEAD' = NextPos(BUF_HEAD) /\ BUF_TAIL' = BUF_TAIL
        /\ NextPos(BUF_HEAD) # BUF_TAIL
    BY Zenon, <1>1 DEF Push, Room
  <2>2. /\ NextPos(BUF_HEAD) \in Pos
        /\ Count' = Count + 1
        /\ SlotAt(BUF_TAIL, Count + 1) = BUF_HEAD
        /\ \A i \in 1 .. Count : SlotAt(BUF_TAIL, i) \in Pos \ {BUF_HEAD}
    BY Zenon, <1>0, <2>1, MoveHead DEF Count
  <2>3. Count < BUFFER_SIZE - 1
    BY <1>0, <2>1, <2>2, RingAssumption DEF Count, Dist, Pos
  <2> QED
    BY ZenonT(60), <1>0, <2>1, <2>2, <2>3
<1>2. CASE ~Room
  BY <1>0, <1>2 DEF Push
<1> QED
  BY ZenonT(60), <1>1, <1>2

\* Returning from a read frees the slot of the oldest character only.
LEMMA AdvanceRing ==
  ASSUME RingInv, Advance
  PROVE  /\ BUF_TAIL' \in Pos /\ Count >= 1 /\ Count' = Count - 1
         /\ c = BUFFER[SlotAt(BUF_TAIL, 1)]
         /\ \A i \in 1 .. Count - 1 :
              BUFFER'[SlotAt(BUF_TAIL', i)] = BUFFER[SlotAt(BUF_TAIL, i + 1)]
<1>1. /\ BUF_HEAD \in Pos /\ BUF_TAIL \in Pos /\ BUF_HEAD # BUF_TAIL
      /\ BUF_TAIL' = NextPos(BUF_TAIL) /\ c = BUFFER[BUF_TAIL]
      /\ UNCHANGED <<BUFFER, BUF_HEAD>>
  BY ZenonT(60) DEF RingInv, RingTypeOK, Advance
<1>2. /\ NextPos(BUF_TAIL) \in Pos
      /\ Count >= 1
      /\ Count' = Count - 1
      /\ SlotAt(BUF_TAIL, 1) = BUF_TAIL
      /\ \A i \in 1 .. Count - 1 :
           SlotAt(BUF_TAIL', i) = SlotAt(BUF_TAIL, i + 1)
  BY ZenonT(60), <1>1, MoveTail DEF Count
<1> QED
  BY Zenon, <1>1, <1>2

\* Every step of the driver and of its readers keeps the invariant.
LEMMA NextRing == RingInv /\ [RingNext]_ring_vars => RingInv'
<1> SUFFICES ASSUME RingInv, [RingNext]_ring_vars PROVE RingInv'
  OBVIOUS
<1> USE DEF RingInv
<1>1. ASSUME UNCHANGED ring, RingTypeOK',
             at' \in {"load", "advance"} => BUF_HEAD # BUF_TAIL,
             at' = "advance" => c' = BUFFER[BUF_TAIL]
      PROVE  RingInv'
  BY <1>1 DEF ring, Count
<1>2. ASSUME NEW k \in Codes, KeyEvent(k) PROVE RingInv'
  BY ZenonT(60), <1>1, <1>2 DEF KeyEvent, RingTypeOK, ring, ShiftKeys
<1>3. CASE SerialArrives \/ OtherIrq
  BY ZenonT(60), <1>1, <1>3 DEF SerialArrives, OtherIrq, RingTypeOK, ring
<1>4. CASE keyboard_handler
  <2>1. UNCHANGED <<held, serial, mode, at, c, got>> /\ port' = NoCode
        /\ asleep' = FALSE /\ port \in Codes
    BY ZenonT(60), <1>4 DEF keyboard_handler, RingTypeOK
  <2>2. CASE UNCHANGED ring /\ SHIFT_HELD' \in {0, 1}
    BY ZenonT(60), <1>1, <2>1, <2>2 DEF RingTypeOK, ring
  <2>3. CASE /\ port.key \in Keys /\ UNCHANGED SHIFT_HELD
             /\ Push([key |-> port.key, shift |-> SHIFT_HELD])
    <3> DEFINE ch == [key |-> port.key, shift |-> SHIFT_HELD]
    <3>1. ch \in Chars
      BY Zenon, <2>3 DEF Chars, RingTypeOK
    <3>2. /\ BUFFER' \in [Pos -> Chars \cup {NoChar}] /\ BUF_HEAD' \in Pos
          /\ BUF_TAIL' = BUF_TAIL
          /\ \/ UNCHANGED <<BUFFER, BUF_HEAD>>
             \/ /\ Count' = Count + 1 /\ Count < BUFFER_SIZE - 1
                /\ BUFFER'[SlotAt(BUF_TAIL, Count + 1)] = ch
                /\ \A i \in 1 .. Count :
                     BUFFER'[SlotAt(BUF_TAIL, i)] = BUFFER[SlotAt(BUF_TAIL, i)]
          /\ BUF_HEAD # BUF_TAIL => /\ BUF_HEAD' # BUF_TAIL
                                    /\ BUFFER'[BUF_TAIL] = BUFFER[BUF_TAIL]
      BY ZenonT(60), <2>3, <3>1, PushRing
    <3>3. RingTypeOK'
      BY Zenon, <2>1, <2>3, <3>2 DEF RingTypeOK
    <3>4. \A i \in 1 .. Count' : BUFFER'[SlotAt(BUF_TAIL', i)] \in Chars
      <4>1. CASE UNCHANGED <<BUFFER, BUF_HEAD>>
        BY ZenonT(60), <3>2, <4>1 DEF Count
      <4>2. CASE /\ Count' = Count + 1
                 /\ BUFFER'[SlotAt(BUF_TAIL, Count + 1)] = ch
                 /\ \A i \in 1 .. Count :
                      BUFFER'[SlotAt(BUF_TAIL, i)] = BUFFER[SlotAt(BUF_TAIL, i)]
        <5>1. Count \in Nat
          BY PendingValue, RingAssumption
        <5>2. \A i \in 1 .. Count + 1 : i \in 1 .. Count \/ i = Count + 1
          BY <5>1
        <5> QED
          BY ZenonT(60), <3>1, <3>2, <4>2, <5>2
      <4> QED
        BY Zenon, <3>2, <4>1, <4>2
    <3> QED
      BY Zenon, <2>1, <3>2, <3>3, <3>4
  <2> QED
    BY Zenon, <1>4, <2>2, <2>3 DEF keyboard_handler, ShiftState, RingTypeOK
<1>5. ASSUME NEW m \in {"getchar", "try", "console"}, Begin(m) PROVE RingInv'
  BY ZenonT(60), <1>1, <1>5 DEF Begin, RingTypeOK, ring
<1>6. CASE TakeSerial \/ Check \/ Hlt
  BY ZenonT(60), <1>1, <1>6 DEF TakeSerial, Check, Hlt, RingTypeOK, ring
<1>7. CASE Load
  BY Zenon, <1>1, <1>7 DEF Load, RingTypeOK, ring
<1>8. CASE Advance
  <2>1. /\ BUF_TAIL' \in Pos /\ Count >= 1 /\ Count' = Count - 1
        /\ \A i \in 1 .. Count - 1 :
             BUFFER'[SlotAt(BUF_TAIL', i)] = BUFFER[SlotAt(BUF_TAIL, i + 1)]
    BY Zenon, <1>8, AdvanceRing
  <2>2. RingTypeOK' /\ at' = "idle"
    BY Zenon, <1>8, <2>1 DEF Advance, RingTypeOK
  <2>3. Count \in Nat
    BY PendingValue, RingAssumption
  <2>4. \A i \in 1 .. Count' : BUFFER'[SlotAt(BUF_TAIL', i)] \in Chars
    BY <2>1, <2>3
  <2> QED
    BY Zenon, <2>2, <2>4
<1>9. CASE UNCHANGED ring_vars
  <2>1. UNCHANGED ring /\ UNCHANGED <<SHIFT_HELD, port, held, serial, mode, at, c, got, asleep>>
    BY Zenon, <1>9 DEF ring_vars
  <2>2. RingTypeOK'
    BY ZenonT(60), <2>1 DEF ring, RingTypeOK
  <2> QED
    BY ZenonT(60), <1>1, <2>1, <2>2
<1> QED
  BY ZenonT(60), <1>2, <1>3, <1>4, <1>5, <1>6, <1>7, <1>8, <1>9 DEF RingNext, Reader

-----------------------------------------------------------------------------
(* The refinement.                                                         *)

PendingIsSeq ==
  /\ Count \in Nat /\ Pending \in Seq(Chars) /\ Len(Pending) = Count
  /\ \A i \in 1 .. Count : Pending[i] = BUFFER[SlotAt(BUF_TAIL, i)]

\* The waiting characters are a sequence of Count characters.
LEMMA PendingSeq == RingInv => PendingIsSeq
<1> SUFFICES ASSUME RingInv PROVE PendingIsSeq
  OBVIOUS
<1>1. /\ Count \in Nat
      /\ Pending = [i \in 1 .. Count |-> BUFFER[SlotAt(BUF_TAIL, i)]]
  BY PendingValue, RingAssumption DEF RingInv
<1>2. \A i \in 1 .. Count : BUFFER[SlotAt(BUF_TAIL, i)] \in Chars
  BY DEF RingInv
<1> QED
  BY <1>1, <1>2 DEF PendingIsSeq

\* Two sequences of the same length with the same elements are equal.
LEMMA SameSeq ==
  ASSUME NEW s \in Seq(Chars), NEW t \in Seq(Chars), Len(s) = Len(t),
         \A i \in 1 .. Len(s) : s[i] = t[i]
  PROVE  s = t
<1>1. s = [i \in 1 .. Len(s) |-> s[i]] /\ t = [i \in 1 .. Len(t) |-> t[i]]
  OBVIOUS
<1> QED
  BY <1>1

\* What Append and Tail do to a sequence of n characters.
LEMMA Appended ==
  ASSUME NEW s \in Seq(Chars), NEW ch \in Chars, NEW n \in Nat, Len(s) = n
  PROVE  /\ Append(s, ch) \in Seq(Chars) /\ Len(Append(s, ch)) = n + 1
         /\ \A i \in 1 .. n : Append(s, ch)[i] = s[i]
         /\ Append(s, ch)[n + 1] = ch
<1>1. Append(s, ch) \in Seq(Chars)
  OBVIOUS
<1>2. Len(Append(s, ch)) = n + 1
  OBVIOUS
<1>3. \A i \in 1 .. n : Append(s, ch)[i] = s[i]
  OBVIOUS
<1>4. Append(s, ch)[n + 1] = ch
  OBVIOUS
<1> QED
  BY Zenon, <1>1, <1>2, <1>3, <1>4

LEMMA Shortened ==
  ASSUME NEW s \in Seq(Chars), NEW n \in Nat, Len(s) = n, n >= 1
  PROVE  /\ s # << >> /\ Head(s) = s[1]
         /\ Tail(s) \in Seq(Chars) /\ Len(Tail(s)) = n - 1
         /\ \A i \in 1 .. n - 1 : Tail(s)[i] = s[i + 1]
<1>1. s # << >>
  OBVIOUS
<1>2. Head(s) = s[1]
  BY <1>1
<1>3. Tail(s) \in Seq(Chars) /\ Len(Tail(s)) = n - 1
  BY <1>1
<1>4. \A i \in 1 .. n - 1 : Tail(s)[i] = s[i + 1]
  BY <1>1
<1> QED
  BY Zenon, <1>1, <1>2, <1>3, <1>4

\* Every step of the driver is a Put, a Get or no step of the FIFO.
LEMMA StepRefines ==
  RingInv /\ RingInv' /\ [RingNext]_ring_vars => [Fifo!Next]_<<Pending, got>>
<1> SUFFICES ASSUME RingInv, RingInv', [RingNext]_ring_vars
             PROVE  [Fifo!Next]_<<Pending, got>>
  OBVIOUS
<1>1. ASSUME UNCHANGED ring, UNCHANGED got PROVE UNCHANGED <<Pending, got>>
  BY Zenon, <1>1 DEF ring, Pending
<1>2. /\ Count \in Nat /\ Pending \in Seq(Chars) /\ Len(Pending) = Count
      /\ \A i \in 1 .. Count : Pending[i] = BUFFER[SlotAt(BUF_TAIL, i)]
  BY Zenon, PendingSeq DEF PendingIsSeq
<1>3. /\ Count' \in Nat /\ Pending' \in Seq(Chars) /\ Len(Pending') = Count'
      /\ \A i \in 1 .. Count' : Pending'[i] = BUFFER'[SlotAt(BUF_TAIL', i)]
  <2>1. PendingIsSeq'
    BY PendingSeq, PTL
  <2> QED
    BY <2>1 DEF PendingIsSeq
<1>4. CASE keyboard_handler
  <2>1. UNCHANGED got /\ port \in Codes /\ SHIFT_HELD \in {0, 1}
    BY ZenonT(60), <1>4 DEF keyboard_handler, RingInv, RingTypeOK
  <2>2. CASE UNCHANGED ring
    BY Zenon, <1>1, <2>1, <2>2
  <2>3. CASE /\ port.key \in Keys
             /\ Push([key |-> port.key, shift |-> SHIFT_HELD])
    <3> DEFINE ch == [key |-> port.key, shift |-> SHIFT_HELD]
    <3>1. ch \in Chars /\ Push(ch)
      BY Zenon, <2>1, <2>3 DEF Chars
    <3> HIDE DEF ch
    <3>2. /\ BUF_TAIL' = BUF_TAIL
          /\ \/ UNCHANGED <<BUFFER, BUF_HEAD>>
             \/ /\ Count' = Count + 1 /\ Count < BUFFER_SIZE - 1
                /\ BUFFER'[SlotAt(BUF_TAIL, Count + 1)] = ch
                /\ \A i \in 1 .. Count :
                     BUFFER'[SlotAt(BUF_TAIL, i)] = BUFFER[SlotAt(BUF_TAIL, i)]
      BY Zenon, <3>1, PushRing
    <3>3. CASE UNCHANGED <<BUFFER, BUF_HEAD>>
      BY <1>1, <2>1, <3>2, <3>3 DEF ring
    <3>4. CASE /\ Count' = Count + 1 /\ Count < BUFFER_SIZE - 1
               /\ BUFFER'[SlotAt(BUF_TAIL, Count + 1)] = ch
               /\ \A i \in 1 .. Count :
                    BUFFER'[SlotAt(BUF_TAIL, i)] = BUFFER[SlotAt(BUF_TAIL, i)]
      <4>1. /\ Append(Pending, ch) \in Seq(Chars)
            /\ Len(Append(Pending, ch)) = Count + 1
            /\ \A i \in 1 .. Count : Append(Pending, ch)[i] = Pending[i]
            /\ Append(Pending, ch)[Count + 1] = ch
        BY ZenonT(60), <1>2, <3>1, Appended
      <4>2. ASSUME NEW i \in 1 .. Count + 1
            PROVE  /\ i \in 1 .. Count \/ i = Count + 1
                   /\ i \in 1 .. Count'
        <5>1. Count \in Nat /\ Count' = Count + 1
          BY Zenon, <1>2, <3>4
        <5> QED
          BY <5>1
      <4>3. ASSUME NEW i \in 1 .. Count + 1 PROVE Pending'[i] = Append(Pending, ch)[i]
        <5>1. Pending'[i] = BUFFER'[SlotAt(BUF_TAIL, i)]
          BY Zenon, <1>3, <3>2, <4>2
        <5>2. CASE i \in 1 .. Count
          BY Zenon, <1>2, <3>4, <4>1, <5>1, <5>2
        <5>3. CASE i = Count + 1
          BY Zenon, <3>4, <4>1, <5>1, <5>3
        <5> QED
          BY Zenon, <4>2, <5>2, <5>3
      <4>4. Pending' = Append(Pending, ch)
        BY Zenon, <1>3, <3>4, <4>1, <4>3, SameSeq
      <4>5. Fifo!Put(ch)
        BY <1>2, <2>1, <3>4, <4>4 DEF Fifo!Put
      <4> QED
        BY Zenon, <3>1, <4>5 DEF Fifo!Next
    <3> QED
      BY <3>2, <3>3, <3>4
  <2> QED
    BY ZenonT(60), <1>4, <2>2, <2>3 DEF keyboard_handler, ring
<1>5. CASE Advance
  <2>1. /\ Count >= 1 /\ Count' = Count - 1
        /\ c = BUFFER[SlotAt(BUF_TAIL, 1)]
        /\ \A i \in 1 .. Count - 1 :
             BUFFER'[SlotAt(BUF_TAIL', i)] = BUFFER[SlotAt(BUF_TAIL, i + 1)]
    BY Zenon, <1>5, AdvanceRing
  <2>2. /\ Pending # << >> /\ Head(Pending) = Pending[1]
        /\ Tail(Pending) \in Seq(Chars) /\ Len(Tail(Pending)) = Count - 1
        /\ \A i \in 1 .. Count - 1 : Tail(Pending)[i] = Pending[i + 1]
    BY Zenon, <1>2, <2>1, Shortened
  <2>3. 1 \in 1 .. Count /\ \A i \in 1 .. Count - 1 : i + 1 \in 1 .. Count
    BY <1>2, <2>1
  <2>4. Head(Pending) = c /\ \A i \in 1 .. Count - 1 : Pending'[i] = Tail(Pending)[i]
    BY Zenon, <1>2, <1>3, <2>1, <2>2, <2>3
  <2>5. Pending' = Tail(Pending)
    BY Zenon, <1>3, <2>1, <2>2, <2>4, SameSeq
  <2>6. Fifo!Get
    BY Zenon, <1>5, <2>2, <2>4, <2>5 DEF Fifo!Get, Advance
  <2> QED
    BY Zenon, <2>6 DEF Fifo!Next
<1>6. CASE \/ (\E k \in Codes : KeyEvent(k)) \/ SerialArrives \/ OtherIrq
           \/ (\E m \in {"getchar", "try", "console"} : Begin(m))
           \/ TakeSerial \/ Check \/ Hlt \/ Load
  <2>1. UNCHANGED ring /\ UNCHANGED got
    BY ZenonT(60), <1>6 DEF KeyEvent, SerialArrives, OtherIrq, Begin, TakeSerial, Check, Hlt, Load
  <2> QED
    BY ZenonT(60), <1>1, <2>1
<1>7. CASE UNCHANGED ring_vars
  BY <1>1, <1>7 DEF ring_vars
<1> QED
  BY <1>4, <1>5, <1>6, <1>7 DEF RingNext, Reader

\* RingInv holds in every reachable state of the driver.
THEOREM RingInvariance == RingSpec => []RingInv
BY InitRing, NextRing, PTL DEF RingSpec

\* The variables of the driver keep their types; head and tail stay in range.
THEOREM RingTypeCorrect == RingSpec => []RingTypeOK
<1>1. RingInv => RingTypeOK
  BY DEF RingInv
<1> QED
  BY <1>1, RingInvariance, PTL

\* The driver implements the bounded FIFO, for every buffer size: whatever
\* IRQ1 does between the steps of a read, keystrokes come out once, in order.
THEOREM KeyboardIsFifo == RingSpec => IsFifo
<1>1. RingInit => Fifo!Init
  <2> SUFFICES ASSUME RingInit PROVE Fifo!Init
    OBVIOUS
  <2>1. RingInv
    BY InitRing
  <2>2. Count = 0
    BY DEF RingInit, Count, Dist
  <2>3. Pending = << >>
    BY <2>1, <2>2, PendingSeq DEF PendingIsSeq
  <2> QED
    BY <2>3, CharAssumption DEF RingInit, Fifo!Init
<1> QED
  BY <1>1, RingInvariance, StepRefines, PTL DEF RingSpec, IsFifo, Fifo!Spec

=============================================================================
