------------------------------ MODULE Recovery ------------------------------
(***************************************************************************)
(* run_protected (src/recovery.rs): thread 0 runs a program in a thread of *)
(* its own and polls for its end, on top of the scheduler.  The program    *)
(* ends in one of three ways: its entry point returns, it calls sys_exit   *)
(* (src/syscall.rs), or isr_handler kills it after a CPU exception.        *)
(***************************************************************************)
EXTENDS Scheduler

CONSTANT Results  \* the values a program can return or pass to sys_exit

\* child_wrapper is one of the entry points threads are created with.
ASSUME ResultsAssumption == Results \subseteq Int /\ "program" \in Entries

Crashed == -99

VARIABLES
  child_done,     \* CHILD_DONE
  child_result,   \* CHILD_RESULT
  phase,          \* where thread 0 is in run_protected
  tid,            \* what create() returned
  ret,            \* what the last run_protected returned
  outcome         \* history: how the program really ended

child == <<child_done, child_result, outcome>>
rvars == <<vars, child, phase, tid, ret>>

RInit ==
  /\ Init
  /\ child_done = 0 /\ child_result = 0
  /\ phase = "idle" /\ tid = 0 /\ ret = Crashed /\ outcome = Crashed

-----------------------------------------------------------------------------
(* Thread 0: run_protected.                                                *)

\* Mutant: CHILD_RESULT keeps the value of the program before.
ArmWithoutResult == child_done' = 0 /\ UNCHANGED child_result

Arm == child_done' = 0 /\ child_result' = Crashed

RunProtected ==
  /\ current = 0 /\ phase = "idle" /\ pc[0] = "run" /\ ~halted
  /\ next_id <= MaxId
  /\ Arm
  /\ outcome' = Crashed
  /\ phase' = "create"
  /\ UNCHANGED <<vars, tid, ret>>

\* create(child_wrapper) runs through its steps; a null kmalloc ends it early.
CreateChild ==
  /\ phase = "create"
  /\ \/ CreateFindSlot("program") /\ UNCHANGED <<phase, tid, ret>>
     \/ /\ CreateKmalloc
        /\ IF pc'[0] = "run" THEN phase' = "idle" /\ ret' = Crashed
                             ELSE UNCHANGED <<phase, ret>>
        /\ UNCHANGED tid
     \/ CreatePublish /\ tid' = next_id /\ UNCHANGED <<phase, ret>>
     \/ CreateSetBase /\ phase' = "done?" /\ UNCHANGED <<tid, ret>>
  /\ UNCHANGED child

\* create() finds no Dead slot: run_protected returns -99.
CreateFails ==
  /\ current = 0 /\ phase = "create" /\ pc[0] = "run" /\ ~halted
  /\ \A s \in Slots : Live(s)
  /\ phase' = "idle" /\ ret' = Crashed
  /\ UNCHANGED <<vars, child, tid>>

Return == phase' = "idle" /\ ret' = child_result

PollDone ==
  /\ current = 0 /\ phase = "done?"
  /\ IF child_done # 0 THEN Return ELSE phase' = "alive?" /\ UNCHANGED ret
  /\ UNCHANGED <<vars, child, tid>>

\* thread::is_alive.
IsAlive(i) == \E s \in Slots : Live(s) /\ id[s] = i

\* Mutant: the loop does not look whether the thread still exists.
PollAliveSkipped ==
  /\ current = 0 /\ phase = "alive?"
  /\ phase' = "yield" /\ UNCHANGED ret
  /\ UNCHANGED <<vars, child, tid>>

PollAlive ==
  /\ current = 0 /\ phase = "alive?"
  /\ IF IsAlive(tid) THEN phase' = "yield" /\ UNCHANGED ret ELSE Return
  /\ UNCHANGED <<vars, child, tid>>

PollYield ==
  /\ phase = "yield" /\ Yield /\ phase' = "done?"
  /\ UNCHANGED <<child, tid, ret>>

-----------------------------------------------------------------------------
(* The program's thread.                                                   *)

\* set_child_result, and the same two stores in child_wrapper.
SetChildResult(v) == child_result' = v /\ child_done' = 1

\* child_wrapper after entry() returned, or sys_exit.  Interrupts are disabled
\* in a spawned thread, so the stores and exit() are one step for thread 0.
ChildReturns ==
  /\ kind[current] = "program"
  /\ \E v \in Results : SetChildResult(v) /\ outcome' = v
  /\ Exit
  /\ UNCHANGED <<phase, tid, ret>>

\* An exception in the program: isr_handler calls thread::exit().  The end of
\* a test thread leaves run_protected's globals alone, too.
ThreadExits == Exit /\ UNCHANGED <<child, phase, tid, ret>>

Tick == TimerInterrupt /\ UNCHANGED <<child, phase, tid, ret>>

\* cmd_spawn, between two programs.
SpawnTest ==
  /\ phase = "idle"
  /\ \/ "test" \in Entries /\ CreateFindSlot("test")
     \/ CreateKmalloc \/ CreatePublish \/ CreateSetBase
  /\ UNCHANGED <<child, phase, tid, ret>>

\* timer::wait, in a test thread or in the shell between two programs.
Waits == (phase = "idle" \/ current # 0) /\ Wait /\ UNCHANGED <<child, phase, tid, ret>>

RNext == \/ RunProtected \/ CreateChild \/ CreateFails \/ PollDone \/ PollAlive
         \/ PollYield \/ ChildReturns \/ ThreadExits \/ Tick \/ SpawnTest \/ Waits

RSpec == RInit /\ [][RNext]_rvars

\* Thread 0 makes progress in run_protected whenever it has the CPU again and
\* again; the PIT ticks; a program that has the CPU ends.
RFairness ==
  /\ WF_rvars(Tick)
  /\ SF_rvars(CreateChild \/ CreateFails)
  /\ SF_rvars(PollDone) /\ SF_rvars(PollAlive) /\ SF_rvars(PollYield)
  /\ WF_rvars(ChildReturns \/ ThreadExits)

RFairSpec == RSpec /\ RFairness

-----------------------------------------------------------------------------
\* "Returns the child's return value, or -99 on fault/creation failure": what
\* run_protected returns is how this program ended, never a leftover of an
\* earlier one and never a result that arrived between two polls and was missed.
ReturnsOutcome ==
  [][phase # "idle" /\ phase' = "idle" => ret' = outcome]_rvars

\* run_protected terminates: every program that ends, one way or another, gives
\* the shell its prompt back.
RunProtectedReturns == (phase # "idle") ~> (phase = "idle")

=============================================================================
