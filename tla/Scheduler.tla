------------------------------ MODULE Scheduler ------------------------------
(***************************************************************************)
(* The round-robin scheduler of src/task/scheduler.c.  Slots of the task   *)
(* table are handed out in order and never taken back; the timer only      *)
(* raises a flag, and the CPU changes hands inside scheduler_yield.        *)
(***************************************************************************)
EXTENDS Integers, FiniteSetsExt

CONSTANTS
  MaxTasks,   \* slots of the task table
  Quantum     \* timer ticks between two preemption requests

ASSUME SchedulerAssumption ==
  /\ MaxTasks \in Nat \ {0}
  /\ Quantum \in Nat \ {0}

VARIABLES
  state,      \* tasks[].state
  count,      \* task_count
  current,    \* current_index, -1 before scheduler_start
  pending,    \* preempt_pending
  ticks       \* tick_quantum_counter

schedVars == <<state, count, current, pending, ticks>>

Slots    == 0 .. MaxTasks - 1
NoTask   == -1
Runnable == {"ready", "running"}

SchedTypeOK ==
  /\ state \in [Slots -> {"unused", "ready", "running", "terminated"}]
  /\ count \in 0 .. MaxTasks
  /\ current \in Slots \union {NoTask}
  /\ pending \in BOOLEAN
  /\ ticks \in 0 .. Quantum - 1

\* scheduler_init
SchedInit ==
  /\ state = [t \in Slots |-> "unused"]
  /\ count = 0
  /\ current = NoTask
  /\ pending = FALSE
  /\ ticks = 0

\* Mutant: the search begins with the current task.
TurnFromCurrent(i) == (current + i) % count

\* The slot scheduler_pick_next looks at in turn i.
Turn(i) == (current + 1 + i) % count

\* The slot it settles on: the first runnable one after the current task, the
\* current one last; the current slot when nothing is runnable.
NextTask ==
  LET turns == {i \in 0 .. count - 1 : state[Turn(i)] \in Runnable}
  IN IF turns = {} THEN current ELSE Turn(Min(turns))

\* Mutant: the task that loses the CPU stays marked running.
PickNextNoDemote ==
  /\ current' = NextTask
  /\ state' = [t \in Slots |->
       IF t = NextTask /\ state[t] \in Runnable THEN "running" ELSE state[t]]

\* scheduler_pick_next: the running task is demoted, the chosen one promoted.
PickNext ==
  /\ current' = NextTask
  /\ state' = [t \in Slots |->
       IF t = NextTask /\ state[t] \in Runnable THEN "running"
       ELSE IF t = current /\ state[t] = "running" THEN "ready"
       ELSE state[t]]

\* scheduler_create_task
CreateTask ==
  /\ count < MaxTasks
  /\ state' = [state EXCEPT ![count] = "ready"]
  /\ count' = count + 1
  /\ UNCHANGED <<current, pending, ticks>>

\* scheduler_start; with no task it panics.
Start ==
  /\ current = NoTask
  /\ count > 0
  /\ PickNext
  /\ UNCHANGED <<count, pending, ticks>>

\* scheduler_yield of the current task; alone in the table it goes on.
Yield ==
  /\ current # NoTask
  /\ IF count < 2 THEN UNCHANGED <<state, current>> ELSE PickNext
  /\ UNCHANGED <<count, pending, ticks>>

\* Mutant: the end of a quantum raises no flag.
OnTickNoFlag ==
  /\ ticks' = (ticks + 1) % Quantum
  /\ UNCHANGED <<state, count, current, pending>>

\* scheduler_on_tick, in the timer interrupt.
OnTick ==
  /\ ticks' = (ticks + 1) % Quantum
  /\ pending' = (pending \/ ticks + 1 = Quantum)
  /\ UNCHANGED <<state, count, current>>

\* scheduler_maybe_preempt of the current task.
MaybePreempt ==
  /\ current # NoTask
  /\ pending' = FALSE
  /\ IF pending /\ count >= 2 THEN PickNext ELSE UNCHANGED <<state, current>>
  /\ UNCHANGED <<count, ticks>>

\* task_bootstrap after the entry function returned; the yields that follow are
\* those of Yield.
Exit ==
  /\ current # NoTask
  /\ state[current] = "running"
  /\ state' = [state EXCEPT ![current] = "terminated"]
  /\ UNCHANGED <<count, current, pending, ticks>>

SchedNext == CreateTask \/ Start \/ Yield \/ OnTick \/ MaybePreempt \/ Exit

SchedSpec == SchedInit /\ [][SchedNext]_schedVars

-----------------------------------------------------------------------------
(* Properties.                                                             *)

\* scheduler.c and everything that asks for scheduler_current_tid rely on this:
\* a task is marked running exactly when it holds the CPU, and the table is
\* filled without holes.
OneRunning ==
  /\ \A t \in Slots : state[t] = "running" => t = current
  /\ current # NoTask => current < count /\ state[current] \in {"running", "terminated"}
  /\ \A t \in Slots : state[t] = "unused" <=> t >= count

\* A task whose function returned never runs again: nothing but a new task in its
\* slot revives it, and the CPU only ever moves to a task that was ready or running.
DeadStayDead ==
  [][/\ \A t \in Slots : state[t] = "terminated" /\ ~CreateTask => state'[t] = "terminated"
     /\ current' # current => state[current'] \in Runnable]_schedVars

\* The slot of a task that has terminated can be used for a new task, as scheduler.h
\* says of TASK_TERMINATED: scheduler_create_task refuses only while MAX_TASKS tasks
\* are alive.
SlotsAreReused ==
  (\E t \in Slots : state[t] \in {"unused", "terminated"}) => ENABLED CreateTask

=============================================================================
