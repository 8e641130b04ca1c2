---------------------------- MODULE ConsoleProofs ----------------------------
(***************************************************************************)
(* Proofs about the console: the scheduler for every size of the task      *)
(* table and every quantum, the keyboard for every size of its rings and   *)
(* every set of keys, and the command line for every size of its array and *)
(* of the window, all command names and all output.                        *)
(***************************************************************************)
EXTENDS Console, Cli, SequenceTheorems, FiniteSetTheorems, WellFoundedInduction, TLAPS

-----------------------------------------------------------------------------
(* The scheduler.                                                          *)

\* OneRunning is not inductive: that scheduler_start finds a task to run needs
\* the tasks created before it to be ready, and that the current slot is an
\* index of the table needs the types.
SchedInv ==
  /\ SchedTypeOK
  /\ OneRunning
  /\ current = NoTask => \A t \in Slots : t < count => state[t] = "ready"

\* Min yields an element, and the least one: the turn scheduler_pick_next stops at,
\* the first NUL of a string.
LEMMA LeastElement ==
  ASSUME NEW S \in SUBSET Nat, S # {}
  PROVE  Min(S) \in S /\ \A y \in S : Min(S) <= y
<1> DEFINE R == {p \in Nat \X Nat : p[1] < p[2]}
<1>1. IsWellFoundedOn(R, Nat)
  BY NatLessThanWellFounded, Zenon DEF OpToRel
<1> HIDE DEF R
<1>2. \E x \in S : \A y \in S : ~(<<y, x>> \in R)
  BY <1>1, WFMin
<1>3. \A x, y \in Nat : y < x => <<y, x>> \in R
  BY SMT DEF R
<1>4. PICK x \in S : \A y \in S : ~(<<y, x>> \in R)
  BY <1>2
<1>5. \A y \in S : y \in Nat /\ x \in Nat /\ ~(y < x)
  BY <1>3, <1>4, Zenon
<1>6. \A y \in S : x =< y
  BY <1>5
<1> QED
  BY <1>6 DEF Min

\* Turn of scheduler.c stays inside the filled part of the table.
LEMMA TurnInRange ==
  ASSUME SchedTypeOK, count > 0, NEW i \in 0 .. count - 1
  PROVE  Turn(i) \in 0 .. count - 1
  BY SchedulerAssumption DEF SchedTypeOK, Turn, Slots, NoTask

\* What scheduler_pick_next settles on: a runnable task, or the current one when
\* there is none, which the first call never meets.
LEMMA NextTaskChoice ==
  ASSUME SchedInv, count > 0
  PROVE  \/ NextTask \in 0 .. count - 1 /\ state[NextTask] \in Runnable
         \/ NextTask = current /\ current # NoTask /\ state[current] \notin Runnable
<1> DEFINE turns == {i \in 0 .. count - 1 : state[Turn(i)] \in Runnable}
<1>1. CASE turns = {}
  <2>1. current # NoTask
    <3>1. ASSUME current = NoTask PROVE FALSE
      <4>1. count \in Nat /\ count # 0 /\ count <= MaxTasks /\ 0 \in Slots
        BY SchedulerAssumption DEF SchedInv, SchedTypeOK, Slots
      <4>2. Turn(0) = 0
        BY <3>1, <4>1 DEF Turn, NoTask
      <4>3. state[0] = "ready"
        BY <3>1, <4>1 DEF SchedInv
      <4> QED
        BY <1>1, <4>1, <4>2, <4>3 DEF Runnable
    <3> QED
      BY <3>1
  <2>2. current \in 0 .. count - 1
    BY <2>1 DEF SchedInv, SchedTypeOK, OneRunning, Slots, NoTask
  <2>3. PICK i \in 0 .. count - 1 : Turn(i) = current
    <3>1. count \in Nat /\ count - 1 \in 0 .. count - 1 /\ (current + count) % count = current
      BY <2>2 DEF SchedInv, SchedTypeOK
    <3>2. Turn(count - 1) = (current + count) % count
      BY <2>2, <3>1 DEF Turn
    <3> QED
      BY <3>1, <3>2
  <2>4. NextTask = current /\ state[current] \notin Runnable
    BY <1>1, <2>3 DEF NextTask
  <2> QED
    BY <2>1, <2>4
<1>2. CASE turns # {}
  <2>1. turns \in SUBSET Nat
    BY DEF SchedInv, SchedTypeOK
  <2>2. Min(turns) \in turns
    BY <1>2, <2>1, LeastElement
  <2>3. NextTask = Turn(Min(turns))
    BY <1>2 DEF NextTask
  <2> QED
    BY <2>2, <2>3, TurnInRange DEF SchedInv
<1> QED
  BY <1>1, <1>2

\* The heart of the proof: scheduler_pick_next keeps exactly the holder of the
\* CPU marked running and never picks a terminated task.
LEMMA PickNextKeeps ==
  ASSUME SchedInv, count > 0, PickNext, UNCHANGED count, ticks' \in 0 .. Quantum - 1,
         pending' \in BOOLEAN
  PROVE  /\ SchedInv'
         /\ \A t \in Slots : state[t] = "terminated" => state'[t] = "terminated"
         /\ current' # current => state[current'] \in Runnable
<1>1. \/ NextTask \in 0 .. count - 1 /\ state[NextTask] \in Runnable
      \/ NextTask = current /\ current # NoTask /\ state[current] \notin Runnable
  BY NextTaskChoice
<1>2. NextTask \in 0 .. count - 1 /\ NextTask \in Slots /\ NextTask # NoTask
  BY <1>1, SchedulerAssumption DEF SchedInv, SchedTypeOK, OneRunning, Slots, NoTask
<1>3. SchedTypeOK'
  BY <1>2 DEF PickNext, SchedInv, SchedTypeOK, Runnable
<1>4. OneRunning'
  BY <1>1, <1>2 DEF PickNext, SchedInv, SchedTypeOK, OneRunning, Runnable, Slots
<1> QED
  BY <1>1, <1>2, <1>3, <1>4 DEF PickNext, SchedInv, Runnable

\* Every step of scheduler.c keeps the invariant and brings no task back.
LEMMA SchedStep ==
  ASSUME SchedInv, [SchedNext]_schedVars
  PROVE  /\ SchedInv'
         /\ \A t \in Slots : state[t] = "terminated" => state'[t] = "terminated"
         /\ current' # current => state[current'] \in Runnable
<1> USE SchedulerAssumption DEF SchedInv
<1>1. CASE CreateTask
  BY <1>1 DEF CreateTask, SchedTypeOK, OneRunning, Slots, NoTask, Runnable
<1>2. CASE Start
  BY <1>2, PickNextKeeps DEF Start, SchedTypeOK
<1>3. CASE Yield
  <2>1. count > 0
    BY <1>3 DEF Yield, SchedTypeOK, OneRunning, Slots, NoTask
  <2>2. CASE count < 2
    BY <1>3, <2>2 DEF Yield, SchedTypeOK, OneRunning
  <2> QED
    BY <1>3, <2>1, <2>2, PickNextKeeps DEF Yield, SchedTypeOK
<1>4. CASE OnTick
  BY <1>4 DEF OnTick, SchedTypeOK, OneRunning
<1>5. CASE MaybePreempt
  <2>1. count > 0
    BY <1>5 DEF MaybePreempt, SchedTypeOK, OneRunning, Slots, NoTask
  <2>2. CASE ~(pending /\ count >= 2)
    BY <1>5, <2>2 DEF MaybePreempt, SchedTypeOK, OneRunning
  <2> QED
    BY <1>5, <2>1, <2>2, PickNextKeeps DEF MaybePreempt, SchedTypeOK
<1>6. CASE Exit
  BY <1>6 DEF Exit, SchedTypeOK, OneRunning, Slots, NoTask, Runnable
<1>7. CASE UNCHANGED schedVars
  BY <1>7 DEF schedVars, SchedTypeOK, OneRunning
<1> QED
  BY <1>1, <1>2, <1>3, <1>4, <1>5, <1>6, <1>7 DEF SchedNext

\* The invariant of scheduler.c, for every table size and quantum.
THEOREM SchedInvariance == SchedSpec => []SchedInv
<1>1. SchedInit => SchedInv
  <2>1. SchedInit => SchedTypeOK
    <3>1. SchedInit => count \in 0 .. MaxTasks /\ ticks \in 0 .. Quantum - 1
      BY SchedulerAssumption DEF SchedInit
    <3> QED
      BY <3>1, Zenon DEF SchedInit, SchedTypeOK
  <2>2. SchedInit => \A t \in Slots : t >= count /\ ~(t < count) /\ state[t] = "unused"
    BY SchedulerAssumption DEF SchedInit, Slots
  <2>3. SchedInit => OneRunning
    BY <2>2 DEF SchedInit, OneRunning
  <2> QED
    BY <2>1, <2>2, <2>3 DEF SchedInv
<1>2. SchedInv /\ [SchedNext]_schedVars => SchedInv'
  BY SchedStep
<1> QED
  BY <1>1, <1>2, PTL DEF SchedSpec

\* The tasks of the running kernel use scheduler.c through its operations alone.
THEOREM KernelSchedules == Spec => SchedSpec
<1>1. Init => SchedInit
  BY DEF Init
<1>2. [Next]_vars => [SchedNext]_schedVars
  <2>1. Boot \/ TimerIrq => SchedNext
    BY DEF Boot, TimerIrq, SchedNext
  <2>2. CpuStep => SchedNext \/ UNCHANGED schedVars
    BY DEF CpuStep, ReadKey, Poll, Halt, Run, Syscall, Iret, SchedNext
  <2>3. KeyboardIrq \/ MouseIrq \/ UNCHANGED vars => UNCHANGED schedVars
    BY DEF KeyboardIrq, MouseIrq, vars
  <2> QED
    BY <2>1, <2>2, <2>3 DEF Next
<1> QED
  BY <1>1, <1>2, PTL DEF Spec, SchedSpec

\* A task is marked running exactly when it holds the CPU, and the slots of the
\* table of scheduler.c fill without holes.
THEOREM OneRunningCorrect == Spec => []OneRunning
<1>1. SchedInv => OneRunning
  BY DEF SchedInv
<1> QED
  BY <1>1, KernelSchedules, SchedInvariance, PTL

\* scheduler_pick_next only ever moves the CPU to a ready or running task, and no
\* terminated task of scheduler.c is revived but by a new one in its slot.
THEOREM DeadStayDeadCorrect == SchedSpec => DeadStayDead
<1> DEFINE A == /\ \A t \in Slots : state[t] = "terminated" /\ ~CreateTask => state'[t] = "terminated"
                /\ current' # current => state[current'] \in Runnable
<1>1. SchedInv /\ [SchedNext]_schedVars => [A]_schedVars
  BY SchedStep
<1> QED
  BY <1>1, SchedInvariance, PTL DEF SchedSpec, DeadStayDead

-----------------------------------------------------------------------------
(* The rings of the keyboard.                                              *)

\* Only a terminal's task reads a ring, so where the idle task is matters.
KeysInv ==
  /\ KbTypeOK
  /\ focus \in Rings
  /\ where \in [Slots -> {"try", "poll", "halt", "run", "iret"}]
  /\ where[Idle] \in {"poll", "halt"}

LEMMA ModStep ==
  ASSUME NEW x \in 0 .. RingSize + RingSize - 1
  PROVE  x % RingSize = IF x < RingSize THEN x ELSE x - RingSize
  BY KeyboardAssumption

LEMMA Distance ==
  ASSUME NEW h \in 0 .. RingSize - 1, NEW t \in 0 .. RingSize - 1
  PROVE  (h - t + RingSize) % RingSize = IF t <= h THEN h - t ELSE h - t + RingSize
<1> DEFINE x == h - t + RingSize
<1>1. x \in 0 .. RingSize + RingSize - 1
  BY KeyboardAssumption
<1>2. x % RingSize = IF x < RingSize THEN x ELSE x - RingSize
  BY <1>1, ModStep
<1> QED
  BY <1>2, KeyboardAssumption

LEMMA Position ==
  ASSUME NEW t \in 0 .. RingSize - 1, NEW i \in 1 .. RingSize
  PROVE  (t + i - 1) % RingSize = IF t + i - 1 < RingSize THEN t + i - 1 ELSE t + i - 1 - RingSize
<1> DEFINE x == t + i - 1
<1>1. x \in 0 .. RingSize + RingSize - 1
  BY KeyboardAssumption
<1>2. x % RingSize = IF x < RingSize THEN x ELSE x - RingSize
  BY <1>1, ModStep
<1> QED
  BY <1>2, KeyboardAssumption

\* How many keys wait, and in which cells.
LEMMA WaitingKeys ==
  ASSUME KbTypeOK, NEW r \in Rings
  PROVE  /\ Waiting(r) = IF tail[r] <= head[r] THEN head[r] - tail[r] ELSE head[r] - tail[r] + RingSize
         /\ Waiting(r) \in 0 .. RingSize - 1
         /\ IsEmpty(r) <=> Waiting(r) = 0
         /\ IsFull(r) <=> Waiting(r) = RingSize - 1
<1>1. /\ RingSize \in Nat /\ RingSize >= 2
      /\ head[r] \in 0 .. RingSize - 1 /\ tail[r] \in 0 .. RingSize - 1
  BY KeyboardAssumption DEF KbTypeOK, Cells
<1>2. /\ head[r] - tail[r] + RingSize \in 0 .. RingSize + RingSize - 1
      /\ head[r] + 1 \in 0 .. RingSize + RingSize - 1
  BY <1>1
<1>3. Waiting(r) = IF tail[r] <= head[r] THEN head[r] - tail[r] ELSE head[r] - tail[r] + RingSize
  BY <1>1, <1>2, ModStep DEF Waiting
<1>4. (head[r] + 1) % RingSize = IF head[r] + 1 < RingSize THEN head[r] + 1 ELSE 0
  BY <1>1, <1>2, ModStep
<1> QED
  BY <1>1, <1>3, <1>4 DEF IsEmpty, IsFull

\* The cell of the i-th key that waits.
Cell(r, i) == (tail[r] + i - 1) % RingSize

LEMMA CellOf ==
  ASSUME KbTypeOK, NEW r \in Rings, NEW i \in 1 .. RingSize
  PROVE  /\ Cell(r, i) = IF tail[r] + i - 1 < RingSize THEN tail[r] + i - 1 ELSE tail[r] + i - 1 - RingSize
         /\ Cell(r, i) \in Cells
<1>1. RingSize \in Nat /\ RingSize >= 2 /\ tail[r] \in 0 .. RingSize - 1
  BY KeyboardAssumption DEF KbTypeOK, Cells
<1>2. tail[r] + i - 1 \in 0 .. RingSize + RingSize - 1
  BY <1>1
<1> QED
  BY <1>1, <1>2, ModStep DEF Cell, Cells

LEMMA QueuedIs ==
  ASSUME NEW r \in Rings
  PROVE  Queued[r] = [i \in 1 .. Waiting(r) |-> buf[r][Cell(r, i)]]
  BY DEF Queued, Cell

\* A ring of another terminal is a queue of another terminal.
LEMMA OthersKeep ==
  ASSUME KbTypeOK, NEW r \in Rings,
         head'[r] = head[r], tail'[r] = tail[r], buf'[r] = buf[r]
  PROVE  Queued'[r] = Queued[r]
  BY DEF Queued, Waiting

\* The write index is never a cell that holds a key, so pushing appends.
LEMMA PushAppends ==
  ASSUME KbTypeOK, KbTypeOK', NEW r \in Rings, NEW key \in Keys, ~IsFull(r), Push(r, key),
         tail' = tail
  PROVE  Abstract!Push(r, key)
<1> DEFINE w == Waiting(r)
<1>1. /\ buf' = [buf EXCEPT ![r][head[r]] = key]
      /\ head' = [head EXCEPT ![r] = (@ + 1) % RingSize]
  BY DEF Push
<1>2. /\ RingSize \in Nat /\ RingSize >= 2
      /\ head[r] \in 0 .. RingSize - 1 /\ tail[r] \in 0 .. RingSize - 1
      /\ buf \in [Rings -> [Cells -> Keys \union {NoKey}]] /\ head \in [Rings -> Cells]
  BY KeyboardAssumption DEF KbTypeOK, Cells
<1>3. w \in 0 .. RingSize - 2
      /\ w = IF tail[r] <= head[r] THEN head[r] - tail[r] ELSE head[r] - tail[r] + RingSize
  BY <1>2, WaitingKeys
<1>4. head'[r] = IF head[r] + 1 < RingSize THEN head[r] + 1 ELSE 0
  <2>1. head[r] + 1 \in 0 .. RingSize + RingSize - 1
    BY <1>2
  <2> QED
    BY <1>1, <1>2, <2>1, ModStep
<1>5. Waiting(r)' = w + 1
  <2>1. Waiting(r)' = IF tail[r] <= head'[r] THEN head'[r] - tail[r] ELSE head'[r] - tail[r] + RingSize
    <3>1. head'[r] \in 0 .. RingSize - 1
      BY <1>2, <1>4
    <3> QED
      BY <1>2, <3>1, Distance DEF Waiting
  <2> HIDE DEF w
  <2>2. CASE head[r] + 1 < RingSize
    <3>1. tail[r] <= head'[r] <=> tail[r] <= head[r]
      BY <1>2, <1>3, <1>4, <2>2
    <3>2. head'[r] = head[r] + 1
      BY <1>4, <2>2
    <3>3. CASE tail[r] <= head[r]
      BY <1>2, <1>3, <2>1, <3>1, <3>2, <3>3
    <3>4. CASE ~(tail[r] <= head[r])
      BY <1>2, <1>3, <2>1, <3>1, <3>2, <3>4
    <3> QED
      BY <3>3, <3>4
  <2>3. CASE head[r] + 1 >= RingSize
    <3>1. head[r] = RingSize - 1 /\ head'[r] = 0 /\ tail[r] <= head[r]
      BY <1>2, <1>4, <2>3
    <3>2. tail[r] # 0
      BY <1>2, <1>3, <3>1
    <3> QED
      BY <1>2, <1>3, <2>1, <3>1, <3>2
  <2> QED
    BY <1>2, <2>2, <2>3
<1>6. \A i \in 1 .. w : buf'[r][Cell(r, i)] = buf[r][Cell(r, i)]
  <2> SUFFICES ASSUME NEW i \in 1 .. w PROVE buf'[r][Cell(r, i)] = buf[r][Cell(r, i)]
    OBVIOUS
  <2>1. i \in 1 .. RingSize
    BY <1>2, <1>3
  <2>2. Cell(r, i) \in Cells /\ Cell(r, i) # head[r]
    <3>1. Cell(r, i) \in Cells
          /\ Cell(r, i) = IF tail[r] + i - 1 < RingSize THEN tail[r] + i - 1
                          ELSE tail[r] + i - 1 - RingSize
      BY <2>1, CellOf
    <3> HIDE DEF w
    <3> QED
      BY <1>2, <1>3, <3>1
  <2> QED
    BY <1>1, <1>2, <2>2
<1>7. Cell(r, w + 1) = head[r] /\ buf'[r][head[r]] = key
  <2>1. w + 1 \in 1 .. RingSize
    BY <1>2, <1>3
  <2>2. Cell(r, w + 1) = IF tail[r] + (w + 1) - 1 < RingSize THEN tail[r] + (w + 1) - 1
                         ELSE tail[r] + (w + 1) - 1 - RingSize
    BY <2>1, CellOf
  <2>3. buf'[r][head[r]] = key
    BY <1>1, <1>2 DEF Cells
  <2> HIDE DEF w
  <2> QED
    BY <1>2, <1>3, <2>2, <2>3
<1>8. Queued'[r] = [i \in 1 .. w + 1 |-> buf'[r][Cell(r, i)]]
  BY <1>5 DEF Queued, Cell
<1>9. Queued[r] = [i \in 1 .. w |-> buf[r][Cell(r, i)]] /\ Len(Queued[r]) = w
  BY <1>3, QueuedIs
<1>10. Queued'[r] = Append(Queued[r], key)
  <2> HIDE DEF w
  <2>1. Append(Queued[r], key) =
          [i \in 1 .. w + 1 |-> IF i \in 1 .. w THEN Queued[r][i] ELSE key]
    BY <1>3, <1>9
  <2>2. ASSUME NEW i \in 1 .. w + 1
        PROVE  buf'[r][Cell(r, i)] = IF i \in 1 .. w THEN Queued[r][i] ELSE key
    <3>1. CASE i \in 1 .. w
      BY <1>6, <1>9, <3>1
    <3>2. CASE i \notin 1 .. w
      <4>1. i = w + 1
        BY <1>3, <3>2
      <4> QED
        BY <1>7, <3>2, <4>1
    <3> QED
      BY <3>1, <3>2
  <2> QED
    BY <1>8, <2>1, <2>2, Zenon
<1>11. \A q \in Rings : q # r => Queued'[q] = Queued[q]
  <2> SUFFICES ASSUME NEW q \in Rings, q # r PROVE Queued'[q] = Queued[q]
    OBVIOUS
  <2> QED
    BY <1>1, <1>2, OthersKeep
<1>12. Queued' = [Queued EXCEPT ![r] = Append(@, key)]
  BY <1>10, <1>11 DEF Queued
<1>13. Len(Queued[r]) < RingSize - 1
  BY <1>2, <1>3, <1>9
<1> QED
  BY <1>12, <1>13 DEF Abstract!Push

\* The reader's step takes the key that was accepted first.
LEMMA PopTakes ==
  ASSUME KbTypeOK, KbTypeOK', NEW r \in Rings, Pop(r)
  PROVE  Abstract!Pop(r)
<1> DEFINE w == Waiting(r)
<1>1. ~IsEmpty(r) /\ tail' = [tail EXCEPT ![r] = (@ + 1) % RingSize] /\ UNCHANGED <<buf, head>>
  BY DEF Pop
<1>2. /\ RingSize \in Nat /\ RingSize >= 2
      /\ head[r] \in 0 .. RingSize - 1 /\ tail[r] \in 0 .. RingSize - 1
      /\ tail \in [Rings -> Cells]
  BY KeyboardAssumption DEF KbTypeOK, Cells
<1>3. w \in 1 .. RingSize - 1
      /\ w = IF tail[r] <= head[r] THEN head[r] - tail[r] ELSE head[r] - tail[r] + RingSize
  BY <1>1, <1>2, WaitingKeys
<1>4. tail'[r] = IF tail[r] + 1 < RingSize THEN tail[r] + 1 ELSE 0
  <2>1. tail[r] + 1 \in 0 .. RingSize + RingSize - 1
    BY <1>2
  <2> QED
    BY <1>1, <1>2, <2>1, ModStep
<1>5. Waiting(r)' = w - 1
  <2>1. tail'[r] \in 0 .. RingSize - 1
    BY <1>2, <1>4
  <2>2. Waiting(r)' = IF tail'[r] <= head[r] THEN head[r] - tail'[r] ELSE head[r] - tail'[r] + RingSize
    BY <1>1, <1>2, <2>1, Distance DEF Waiting
  <2> HIDE DEF w
  <2> QED
    BY <1>2, <1>3, <1>4, <2>1, <2>2
<1>6. \A i \in 1 .. w - 1 : Cell(r, i)' = Cell(r, i + 1)
  <2> SUFFICES ASSUME NEW i \in 1 .. w - 1 PROVE Cell(r, i)' = Cell(r, i + 1)
    OBVIOUS
  <2>1. i + 1 \in 1 .. RingSize /\ i \in 1 .. RingSize
    BY <1>2, <1>3
  <2>2. Cell(r, i + 1) = IF tail[r] + (i + 1) - 1 < RingSize THEN tail[r] + (i + 1) - 1
                         ELSE tail[r] + (i + 1) - 1 - RingSize
    BY <2>1, CellOf
  <2>3. tail'[r] \in 0 .. RingSize - 1
    BY <1>2, <1>4
  <2>4. Cell(r, i)' = IF tail'[r] + i - 1 < RingSize THEN tail'[r] + i - 1
                      ELSE tail'[r] + i - 1 - RingSize
    BY <2>1, <2>3, Position DEF Cell
  <2> HIDE DEF w
  <2> QED
    BY <1>2, <1>3, <1>4, <2>1, <2>2, <2>4
<1>7. Queued'[r] = [i \in 1 .. w - 1 |-> buf[r][Cell(r, i)']]
  BY <1>1, <1>5 DEF Queued, Cell
<1>8. Queued[r] = [i \in 1 .. w |-> buf[r][Cell(r, i)]] /\ Len(Queued[r]) = w
  BY <1>3, QueuedIs
<1>9. Queued'[r] = Tail(Queued[r]) /\ Queued[r] # <<>>
  <2> HIDE DEF w
  <2>1. Tail(Queued[r]) = [i \in 1 .. w - 1 |-> Queued[r][i + 1]]
    BY <1>3, <1>8
  <2>2. \A i \in 1 .. w - 1 : buf[r][Cell(r, i)'] = Queued[r][i + 1]
    <3>1. \A i \in 1 .. w - 1 : i + 1 \in 1 .. w
      BY <1>3
    <3> QED
      BY <1>6, <1>8, <3>1
  <2>3. Queued[r] # <<>>
    BY <1>3, <1>8
  <2> QED
    BY <1>7, <2>1, <2>2, <2>3, Zenon
<1>10. \A q \in Rings : q # r => Queued'[q] = Queued[q]
  <2> SUFFICES ASSUME NEW q \in Rings, q # r PROVE Queued'[q] = Queued[q]
    OBVIOUS
  <2> QED
    BY <1>1, <1>2, OthersKeep
<1>11. Queued' = [Queued EXCEPT ![r] = Tail(@)]
  BY <1>9, <1>10 DEF Queued
<1> QED
  BY <1>9, <1>11 DEF Abstract!Pop

-----------------------------------------------------------------------------
(* The keyboard in the kernel.                                             *)

LEMMA DecodedKey == ASSUME NEW s, Decoded(s) # NoKey, KbTypeOK PROVE Decoded(s) \in Keys
  BY DEF Decoded, Keys, KbTypeOK

\* What the interrupt handler does to the rings: nothing, or a push to one.
LEMMA IrqHandlerRings ==
  ASSUME KbTypeOK, NEW s \in Scancodes, NEW f \in Rings, IrqHandler(s, f)
  PROVE  /\ tail' = tail /\ KbTypeOK'
         /\ \/ UNCHANGED <<buf, head>>
            \/ \E key \in Keys : ~IsFull(f) /\ Push(f, key)
<1>1. tail' = tail /\ extended' \in BOOLEAN /\ shift' \in BOOLEAN
  BY DEF IrqHandler, KbTypeOK
<1>2. \/ UNCHANGED <<buf, head>>
      \/ \E key \in Keys : ~IsFull(f) /\ Push(f, key)
  BY DecodedKey DEF IrqHandler, Push
<1>3. ASSUME NEW key \in Keys, ~IsFull(f), Push(f, key)
      PROVE  buf' \in [Rings -> [Cells -> Keys \union {NoKey}]] /\ head' \in [Rings -> Cells]
  <2>1. (head[f] + 1) % RingSize \in Cells
    BY KeyboardAssumption DEF KbTypeOK, Cells
  <2> QED
    BY <1>3, <2>1 DEF Push, KbTypeOK
<1> QED
  BY <1>1, <1>2, <1>3 DEF KbTypeOK

\* A task that reads is a terminal's, and it reads its own ring.
LEMMA ReaderIsTerminal ==
  ASSUME KeysInv, NEW t \in Slots, ReadKey(t)
  PROVE  t \in Terminals /\ t \in Rings
<1>1. where[t] = "try"
  BY DEF ReadKey, At
<1>2. t # Idle
  BY <1>1 DEF KeysInv
<1> QED
  BY <1>2, ConsoleAssumption, SchedulerAssumption DEF Idle, Slots, Rings

LEMMA PopTypes ==
  ASSUME KbTypeOK, NEW r \in Rings, Pop(r)
  PROVE  KbTypeOK'
<1>1. (tail[r] + 1) % RingSize \in Cells
  BY KeyboardAssumption DEF KbTypeOK, Cells
<1> QED
  BY <1>1 DEF Pop, KbTypeOK

LEMMA KeysStep == ASSUME KeysInv, [Next]_vars PROVE KeysInv'
<1> USE DEF KeysInv
<1>1. CASE Boot
  BY <1>1 DEF Boot, kbVars, KbTypeOK
<1>2. ASSUME NEW t \in Slots, NEW l, NEW m \in {"try", "poll", "halt", "run", "iret"}, At(t, l, m),
             t = Idle => m \in {"poll", "halt"}
      PROVE  /\ focus' \in Rings
             /\ where' \in [Slots -> {"try", "poll", "halt", "run", "iret"}]
             /\ where'[Idle] \in {"poll", "halt"}
  <2>1. Idle \in Slots
    BY SchedulerAssumption DEF Idle, Slots
  <2> QED
    BY <1>2, <2>1 DEF At
<1>3. ASSUME NEW t \in Slots, ReadKey(t) PROVE KeysInv'
  <2>1. t \in Rings /\ t # Idle
    BY <1>3, ReaderIsTerminal DEF ReadKey, At
  <2>2. KbTypeOK'
    BY <1>3, <2>1, PopTypes DEF ReadKey, kbVars, KbTypeOK
  <2> QED
    BY <1>2, <1>3, <2>1, <2>2 DEF ReadKey
<1>4. ASSUME NEW t \in Slots, Poll(t) \/ Halt(t) PROVE KeysInv'
  BY <1>2, <1>4 DEF Poll, Halt, kbVars, KbTypeOK
<1>5. ASSUME NEW t \in Slots, Run(t) \/ Syscall(t) \/ Iret(t) PROVE KeysInv'
  <2>1. where[t] \in {"run", "iret"}
    BY <1>5 DEF Run, Syscall, Iret, At
  <2>2. t # Idle
    BY <2>1
  <2> QED
    BY <1>2, <1>5, <2>2 DEF Run, Syscall, Iret, kbVars, KbTypeOK
<1>6. CASE TimerIrq
  BY <1>6 DEF TimerIrq, Interrupt, kbVars, KbTypeOK
<1>7. CASE KeyboardIrq
  BY <1>7, IrqHandlerRings DEF KeyboardIrq, Interrupt
<1>8. CASE MouseIrq
  BY <1>8 DEF MouseIrq, Interrupt, kbVars, KbTypeOK
<1>9. CASE UNCHANGED vars
  BY <1>9 DEF vars, kbVars, KbTypeOK
<1> QED
  BY <1>1, <1>3, <1>4, <1>5, <1>6, <1>7, <1>8, <1>9 DEF Next, CpuStep

\* In every step of the kernel at most one ring is touched, by its writer or by
\* its reader.
LEMMA RingStep ==
  ASSUME KeysInv, [Next]_vars
  PROVE  \/ UNCHANGED <<buf, head, tail>>
         \/ \E r \in Rings : Pop(r)
         \/ tail' = tail /\ \E r \in Rings, key \in Keys : ~IsFull(r) /\ Push(r, key)
<1>1. CASE \E t \in Slots : ReadKey(t)
  BY <1>1, ReaderIsTerminal DEF ReadKey, kbVars
<1>2. CASE KeyboardIrq
  BY <1>2, IrqHandlerRings DEF KeyboardIrq, KeysInv
<1> QED
  BY <1>1, <1>2 DEF Next, vars, kbVars, Boot, CpuStep, Poll, Halt, Run, Syscall, Iret, TimerIrq, MouseIrq

LEMMA KeysInit == Init => KeysInv
<1> SUFFICES ASSUME Init PROVE KeysInv
  OBVIOUS
<1>1. 0 \in Cells /\ Idle \in Slots
  BY KeyboardAssumption, SchedulerAssumption DEF Cells, Idle, Slots
<1>2. KbTypeOK
  BY <1>1 DEF Init, KbInit, KbTypeOK
<1>3. focus \in Rings
  BY ConsoleAssumption, SchedulerAssumption DEF Init, Rings
<1>4. /\ where \in [Slots -> {"try", "poll", "halt", "run", "iret"}]
      /\ where[Idle] \in {"poll", "halt"}
  BY <1>1 DEF Init
<1> QED
  BY <1>2, <1>3, <1>4 DEF KeysInv

\* The keyboard's data stay well formed, and only terminals' tasks read keys.
THEOREM KeysInvariance == Spec => []KeysInv
  BY KeysInit, KeysStep, PTL DEF Spec

\* ImplementsKeyQueue: seen through Queued, every step of the running kernel is a
\* step of the bounded queues of KeyQueue or leaves them alone.
THEOREM ImplementsKeyQueueCorrect == Spec => ImplementsKeyQueue
<1>1. Init => Abstract!Init
  <2> SUFFICES ASSUME Init PROVE Abstract!Init
    OBVIOUS
  <2>1. KbTypeOK /\ \A r \in Rings : IsEmpty(r)
    BY KeysInit DEF KeysInv, Init, KbInit, IsEmpty
  <2>2. \A r \in Rings : Waiting(r) = 0
    BY <2>1, WaitingKeys
  <2>3. \A r \in Rings : Queued[r] = <<>>
    BY <2>2 DEF Queued
  <2> QED
    BY <2>3 DEF Queued, Abstract!Init
<1>2. ASSUME KeysInv, KeysInv', [Next]_vars PROVE [Abstract!Next]_Queued
  <2>1. CASE UNCHANGED <<buf, head, tail>>
    BY <2>1 DEF Queued, Waiting
  <2>2. CASE \E r \in Rings : Pop(r)
    BY <1>2, <2>2, PopTakes DEF KeysInv, Abstract!Next
  <2>3. CASE tail' = tail /\ \E r \in Rings, key \in Keys : ~IsFull(r) /\ Push(r, key)
    BY <1>2, <2>3, PushAppends DEF KeysInv, Abstract!Next
  <2> QED
    BY <1>2, <2>1, <2>2, <2>3, RingStep
<1> QED
  BY <1>1, <1>2, KeysInvariance, PTL DEF Spec, ImplementsKeyQueue, Abstract!Spec

-----------------------------------------------------------------------------
(* The decoder of the keyboard.                                            *)

\* What kb_extended remembers is whether the last scancode was the prefix.
DecoderInv == extended <=> latest = Prefix

\* The interrupt handler of keyboard.c takes a scancode as the one before it says,
\* and leaves nothing for the one after the next.
LEMMA KeyboardFacts ==
  ASSUME KeysInv, DecoderInv, KeyboardIrq
  PROVE  /\ extended' <=> latest' = Prefix
         /\ shift' = IF latest'.code = "shift" /\ latest # Prefix THEN ~latest'.up ELSE shift
         /\ \A r \in Rings : head'[r] # head[r] =>
              /\ ~latest'.up /\ buf'[r][head[r]].code = latest'.code
              /\ latest'.code \in Cursors <=> latest = Prefix
<1>1. focus \in Rings /\ IrqHandler(latest', focus)
  BY DEF KeyboardIrq, KeysInv
<1>2. latest' \in Scancodes /\ KbTypeOK /\ (extended <=> latest = Prefix)
  BY DEF KeyboardIrq, KeysInv, DecoderInv
<1>3. extended' <=> latest' = Prefix
  BY <1>1 DEF IrqHandler
<1>4. shift' = IF latest'.code = "shift" /\ latest # Prefix THEN ~latest'.up ELSE shift
  BY <1>1, <1>2 DEF IrqHandler, Prefix
<1>5. ASSUME NEW r \in Rings, head'[r] # head[r]
      PROVE  /\ ~latest'.up /\ buf'[r][head[r]].code = latest'.code
             /\ latest'.code \in Cursors <=> latest = Prefix
  <2>1. latest' # Prefix /\ Decoded(latest') # NoKey /\ Push(focus, Decoded(latest')) /\ ~IsFull(focus)
    BY <1>1, <1>5 DEF IrqHandler, Push
  <2>2. r = focus
    BY <1>2, <1>5, <2>1 DEF Push, KbTypeOK
  <2>3. buf'[r][head[r]] = Decoded(latest')
    BY <1>2, <2>1, <2>2 DEF Push, KbTypeOK
  <2>4. /\ ~latest'.up /\ Decoded(latest').code = latest'.code
        /\ extended => latest'.code \in Cursors
        /\ ~extended => latest'.code \in Chars \union Functions
    BY <2>1 DEF Decoded
  <2>5. ~extended => latest'.code \notin Cursors
    BY <2>4, KeyboardAssumption
  <2> QED
    BY <1>2, <2>3, <2>4, <2>5
<1> QED
  BY <1>3, <1>4, <1>5

\* Only the keyboard interrupt moves the decoder.
LEMMA DecoderStep == ASSUME KeysInv, DecoderInv, [Next]_vars PROVE DecoderInv'
<1>1. CASE KeyboardIrq
  BY <1>1, KeyboardFacts DEF DecoderInv
<1>2. CASE UNCHANGED <<extended, latest>>
  BY <1>2 DEF DecoderInv
<1>3. KeyboardIrq \/ UNCHANGED <<extended, latest>>
  <2>1. CpuStep => UNCHANGED <<extended, latest>>
    BY DEF CpuStep, ReadKey, Poll, Halt, Run, Syscall, Iret, At, Pop, kbVars
  <2>2. Boot \/ TimerIrq \/ MouseIrq \/ UNCHANGED vars => UNCHANGED <<extended, latest>>
    BY DEF Boot, TimerIrq, MouseIrq, kbVars, vars
  <2> QED
    BY <2>1, <2>2 DEF Next
<1> QED
  BY <1>1, <1>2, <1>3

\* PrefixIsOneShot, for any rings and keys and with whatever between two interrupts
\* of the keyboard: the prefix 0xE0 holds for the next scancode alone, and nothing
\* else is remembered but shift.
THEOREM PrefixIsOneShotCorrect == Spec => PrefixIsOneShot
<1> DEFINE A == KeyboardIrq =>
                  /\ extended' <=> latest' = Prefix
                  /\ shift' = IF latest'.code = "shift" /\ latest # Prefix THEN ~latest'.up ELSE shift
                  /\ \A r \in Rings : head'[r] # head[r] =>
                       /\ ~latest'.up /\ buf'[r][head[r]].code = latest'.code
                       /\ latest'.code \in Cursors <=> latest = Prefix
<1>1. Init => DecoderInv
  BY DEF Init, KbInit, DecoderInv, NoScancode, Prefix
<1>2. KeysInv /\ DecoderInv /\ [Next]_vars => DecoderInv'
  BY DecoderStep
<1>3. KeysInv /\ DecoderInv /\ [Next]_vars => [A]_vars
  BY KeyboardFacts
<1> QED
  BY <1>1, <1>2, <1>3, KeysInvariance, PTL DEF Spec, PrefixIsOneShot

-----------------------------------------------------------------------------
(* The command line.                                                       *)

\* The k-th of the calls with which m characters are written behind the prompt: the
\* first n characters of a, blanks, and then the cursor is put at c.
LineCall(a, n, c, m, k) ==
  IF k = 1 THEN <<"goto", 0>>
  ELSE IF k <= m + 1 THEN <<"put", IF k - 1 <= n THEN a[k - 2] ELSE Space>>
  ELSE IF k = m + 2 THEN <<"goto", c>>
  ELSE <<"refresh">>

Call(m, k) == LineCall(input, len, cursor, m, k)

\* Behind its first q calls, out is such a redraw, of which d calls were made.
Redrawing(q, m, d) ==
  /\ Len(out) = q + m + 3 - d
  /\ \A i \in 1 .. m + 3 - d : out[q + i] = Call(m, d + i)

\* The cursor shows.
InWindow == row < rows /\ col < cols

\* What shows from column c of row r on, and below it, is blank.
BlankBehind(r, c) ==
  \A i \in 0 .. rows - 1 : \A j \in 0 .. cols - 1 :
    i > r \/ (i = r /\ j >= c) => cells[i][j] = Space

\* A command or a list of matches prints, the q-th call is the end of a prompt, and
\* the line, if there is one, is drawn behind it.  Output goes forward on a screen
\* that is blank behind the cursor, from where it has left the line.
Printing(q) ==
  /\ out[q] = <<"prompt">>
  /\ \A i \in 1 .. q - 1 : out[i][1] \in {"put", "refresh", "clear", "pause"}
  /\ \/ Len(out) = q /\ len = 0
     \/ cursor = len /\ Redrawing(q, len, 0)
  /\ ~littered => /\ InWindow
                  /\ BlankBehind(row, IF out[1] = <<"put", Newline>> THEN cols ELSE col)

\* How many of the m characters of a redraw are written after d calls.
Written(m, d) == IF d = 0 THEN 0 ELSE IF d <= m + 1 THEN d - 1 ELSE m

\* The line is drawn, over an older one of at most m characters.
Editing(m, d) ==
  /\ Redrawing(0, m, d)
  /\ ~spoilt =>
       /\ promptRow < rows /\ promptCol + Written(m, d) < cols
       /\ \A i \in 0 .. Written(m, d) - 1 :
            cells[promptRow][promptCol + i] = IF i < len THEN input[i] ELSE Space
       /\ d \in 1 .. m => row = promptRow /\ col = promptCol + Written(m, d)
       /\ d >= m + 2 => row = promptRow /\ col <= promptCol + cursor
       /\ d >= m + 2 /\ (d = m + 2 \/ ~nudged) => col = promptCol + cursor
       /\ ~littered => BlankBehind(promptRow, promptCol + m)
  /\ spoilt /\ ~littered => d \in 1 .. m + 1 /\ InWindow /\ BlankBehind(row, col)

\* The line is made of characters, and is as long as the one drawn last.
LineOK ==
  /\ prevLen = len
  /\ \A i \in 0 .. len - 1 : input[i] \in Printable \union {Space}

\* Something is printed, or the line is drawn.
ScreenOK ==
  \/ \E q \in 1 .. Len(out) : Printing(q)
  \/ \E m \in len .. InputMax - 1 : \E d \in 0 .. m + 3 : Editing(m, d)

CliInv == CliTypeOK /\ LineOK /\ ScreenOK

\* The part of the types that the screen's operations need.
ScreenTypeOK ==
  /\ cells \in [0 .. MaxRows - 1 -> [0 .. MaxCols - 1 -> Glyphs]]
  /\ row \in 0 .. MaxRows - 1 /\ col \in 0 .. MaxCols - 1 /\ window \in WindowSizes

\* A window has at least one row and one column and no more than a session.
LEMMA WindowFacts ==
  ASSUME NEW w \in WindowSizes
  PROVE  /\ w[1] \in Nat /\ 0 < w[1] /\ w[1] <= MaxRows
         /\ w[2] \in Nat /\ 0 < w[2] /\ w[2] <= MaxCols
         /\ MaxRows \in Nat /\ MaxCols \in Nat
  BY TerminalAssumption

\* Scrolling leaves well-formed cells.
LEMMA ScrolledType ==
  ASSUME NEW cs \in [0 .. MaxRows - 1 -> [0 .. MaxCols - 1 -> Glyphs]], window \in WindowSizes,
         NEW r \in 0 .. MaxRows
  PROVE  Scrolled(cs, r) \in [0 .. MaxRows - 1 -> [0 .. MaxCols - 1 -> Glyphs]]
<1>1. CASE r < rows
  BY <1>1 DEF Scrolled
<1>2. CASE ~(r < rows)
  <2>1. rows \in Nat /\ 0 < rows /\ rows <= MaxRows /\ MaxRows \in Nat
    BY WindowFacts DEF rows
  <2>2. ASSUME NEW i \in 0 .. MaxRows - 1, NEW j \in 0 .. MaxCols - 1
        PROVE  /\ cs[i][j] \in Glyphs /\ Space \in Glyphs
               /\ i < rows /\ i # rows - 1 => cs[i + 1][j] \in Glyphs
    <3>1. i < rows /\ i # rows - 1 => i + 1 \in 0 .. MaxRows - 1
      BY <2>1
    <3>2. cs[i] \in [0 .. MaxCols - 1 -> Glyphs]
      OBVIOUS
    <3>3. i < rows /\ i # rows - 1 => cs[i + 1] \in [0 .. MaxCols - 1 -> Glyphs]
      BY <3>1
    <3>4. cs[i][j] \in Glyphs
      BY <3>2
    <3>5. i < rows /\ i # rows - 1 => cs[i + 1][j] \in Glyphs
      BY <3>3
    <3>6. Space \in Glyphs
      BY CliAssumption
    <3> QED
      BY <3>4, <3>5, <3>6
  <2>3. DOMAIN cs = 0 .. MaxRows - 1 /\ \A i \in 0 .. MaxRows - 1 : DOMAIN cs[i] = 0 .. MaxCols - 1
    OBVIOUS
  <2>4. Scrolled(cs, r) =
          [i \in 0 .. MaxRows - 1 |-> [j \in 0 .. MaxCols - 1 |->
             IF j >= cols \/ i >= rows THEN cs[i][j]
             ELSE IF i = rows - 1 THEN Space ELSE cs[i + 1][j]]]
    BY <1>2, <2>3 DEF Scrolled
  <2>5. \A i \in 0 .. MaxRows - 1 : i >= rows \/ i < rows
    BY <2>1
  <2> QED
    BY <2>2, <2>4, <2>5
<1> QED
  BY <1>1, <1>2

\* What is in row i of the part that shows after it was scrolled for a cursor in row r.
LEMMA ScrolledCell ==
  ASSUME NEW cs \in [0 .. MaxRows - 1 -> [0 .. MaxCols - 1 -> Glyphs]], window \in WindowSizes,
         NEW r, NEW i \in 0 .. rows - 1, NEW j \in 0 .. cols - 1
  PROVE  Scrolled(cs, r)[i][j] = IF r < rows THEN cs[i][j]
                                 ELSE IF i = rows - 1 THEN Space ELSE cs[i + 1][j]
<1>1. /\ rows \in Nat /\ rows <= MaxRows /\ MaxRows \in Nat
      /\ cols \in Nat /\ cols <= MaxCols /\ MaxCols \in Nat
  BY WindowFacts DEF rows, cols
<1>2. i \in DOMAIN cs /\ j \in DOMAIN cs[i]
  <2>1. i \in 0 .. MaxRows - 1 /\ j \in 0 .. MaxCols - 1
    BY <1>1
  <2> QED
    BY <2>1
<1>3. ~(j >= cols \/ i >= rows)
  BY <1>1
<1> QED
  BY <1>2, <1>3 DEF Scrolled

\* The next row: what was blank below the cursor is blank behind it.
LEMMA NextRowKeeps ==
  ASSUME NEW cs \in [0 .. MaxRows - 1 -> [0 .. MaxCols - 1 -> Glyphs]], ScreenTypeOK,
         NextRow(cs), UNCHANGED window
  PROVE  /\ ScreenTypeOK'
         /\ row < rows /\ (\A i \in 0 .. rows - 1 : \A j \in 0 .. cols - 1 :
                             i > row => cs[i][j] = Space)
              => InWindow' /\ BlankBehind(row, col)'
<1>1. /\ rows \in Nat /\ 0 < rows /\ rows <= MaxRows /\ MaxRows \in Nat
      /\ cols \in Nat /\ 0 < cols /\ cols <= MaxCols /\ MaxCols \in Nat /\ row \in Nat
      /\ row \in 0 .. MaxRows - 1 /\ window \in WindowSizes
  BY WindowFacts DEF rows, cols, ScreenTypeOK
<1>2. /\ cells' = Scrolled(cs, row + 1) /\ col' = 0
      /\ row' = IF row + 1 < rows THEN row + 1 ELSE rows - 1
      /\ rows' = rows /\ cols' = cols /\ window' = window
  BY DEF NextRow, rows, cols
<1>3. ScreenTypeOK'
  <2>1. row + 1 \in 0 .. MaxRows
    BY <1>1
  <2>2. cells' \in [0 .. MaxRows - 1 -> [0 .. MaxCols - 1 -> Glyphs]]
    BY <1>1, <1>2, <2>1, ScrolledType
  <2>3. row' \in 0 .. MaxRows - 1 /\ col' \in 0 .. MaxCols - 1
    BY <1>1, <1>2
  <2> QED
    BY <1>1, <1>2, <2>2, <2>3 DEF ScreenTypeOK
<1>4. ASSUME row < rows, \A i \in 0 .. rows - 1 : \A j \in 0 .. cols - 1 :
                           i > row => cs[i][j] = Space
      PROVE  InWindow' /\ BlankBehind(row, col)'
  <2>1. InWindow'
    BY <1>1, <1>2 DEF InWindow
  <2>2. ASSUME NEW i \in 0 .. rows - 1, NEW j \in 0 .. cols - 1, i >= row'
        PROVE  cells'[i][j] = Space
    <3>1. cells'[i][j] = IF row + 1 < rows THEN cs[i][j]
                         ELSE IF i = rows - 1 THEN Space ELSE cs[i + 1][j]
      <4>1. window \in WindowSizes
        BY <1>1
      <4>2. Scrolled(cs, row + 1)[i][j] = IF row + 1 < rows THEN cs[i][j]
                                          ELSE IF i = rows - 1 THEN Space ELSE cs[i + 1][j]
        BY <4>1, ScrolledCell
      <4> QED
        BY <1>2, <4>2
    <3>2. CASE row + 1 < rows
      <4>1. i > row
        BY <1>1, <1>2, <2>2, <3>2
      <4> QED
        BY <1>4, <3>1, <3>2, <4>1
    <3>3. CASE ~(row + 1 < rows)
      <4>1. i = rows - 1
        BY <1>1, <1>2, <2>2, <3>3
      <4> QED
        BY <3>1, <3>3, <4>1
    <3> QED
      BY <3>2, <3>3
  <2>3. ASSUME NEW i \in 0 .. rows - 1, NEW j \in 0 .. cols - 1, i > row' \/ i = row'
        PROVE  cells'[i][j] = Space
    <3>1. i >= row'
      BY <1>1, <1>2, <2>3
    <3> QED
      BY <2>2, <3>1
  <2>4. BlankBehind(row, col)'
    BY <1>2, <2>3 DEF BlankBehind
  <2> QED
    BY <2>1, <2>4
<1> QED
  BY <1>3, <1>4

\* A character: the screen stays well formed, and blank behind the cursor.
LEMMA PutKeeps ==
  ASSUME ScreenTypeOK, NEW c \in Glyphs, PutChar(c)
  PROVE  /\ ScreenTypeOK' /\ rows' = rows /\ cols' = cols
         /\ InWindow /\ BlankBehind(row, IF c = Newline THEN cols ELSE col + 1)
              => InWindow' /\ BlankBehind(row, col)'
<1> DEFINE written == [cells EXCEPT ![row][col] = c]
<1>1. /\ rows \in Nat /\ 0 < rows /\ rows <= MaxRows /\ MaxRows \in Nat
      /\ cols \in Nat /\ 0 < cols /\ cols <= MaxCols /\ MaxCols \in Nat
      /\ row \in Nat /\ col \in Nat
      /\ row \in 0 .. MaxRows - 1 /\ col \in 0 .. MaxCols - 1
  BY WindowFacts DEF rows, cols, ScreenTypeOK
<1>2. /\ cells \in [0 .. MaxRows - 1 -> [0 .. MaxCols - 1 -> Glyphs]]
      /\ written \in [0 .. MaxRows - 1 -> [0 .. MaxCols - 1 -> Glyphs]]
  BY DEF ScreenTypeOK
<1>3. UNCHANGED window /\ rows' = rows /\ cols' = cols
  BY DEF PutChar, rows, cols
<1>4. CASE c = Newline
  <2>1. NextRow(cells)
    BY <1>4 DEF PutChar
  <2>2. BlankBehind(row, cols) => \A i \in 0 .. rows - 1 : \A j \in 0 .. cols - 1 :
                                    i > row => cells[i][j] = Space
    BY DEF BlankBehind
  <2> QED
    BY <1>2, <1>3, <1>4, <2>1, <2>2, NextRowKeeps DEF InWindow
<1>5. CASE c # Newline /\ col + 1 >= cols
  <2>1. NextRow(written)
    BY <1>5 DEF PutChar
  <2>2. ASSUME BlankBehind(row, col + 1), NEW i \in 0 .. rows - 1, NEW j \in 0 .. cols - 1, i > row
        PROVE  written[i][j] = Space
    <3>1. cells[i][j] = Space
      BY <2>2 DEF BlankBehind
    <3>2. i # row
      BY <1>1, <2>2
    <3>3. written[i] = cells[i]
      BY <1>1, <1>2, <3>2
    <3> QED
      BY <3>1, <3>3
  <2> HIDE DEF written
  <2> QED
    BY <1>2, <1>3, <1>5, <2>1, <2>2, NextRowKeeps DEF InWindow
<1>6. CASE c # Newline /\ ~(col + 1 >= cols)
  <2>1. cells' = written /\ col' = col + 1 /\ row' = row
    BY <1>6 DEF PutChar
  <2>2. ScreenTypeOK'
    <3>1. col + 1 \in 0 .. MaxCols - 1
      BY <1>1, <1>6
    <3> QED
      BY <1>2, <1>3, <2>1, <3>1 DEF ScreenTypeOK
  <2>3. ASSUME InWindow, BlankBehind(row, col + 1)
        PROVE  InWindow' /\ BlankBehind(row, col)'
    <3>1. InWindow'
      BY <1>1, <1>3, <1>6, <2>1, <2>3 DEF InWindow
    <3>2. ASSUME NEW i \in 0 .. rows - 1, NEW j \in 0 .. cols - 1,
                 i > row \/ (i = row /\ j >= col + 1)
          PROVE  written[i][j] = Space
      <4>1. cells[i][j] = Space /\ ~(i = row /\ j = col)
        BY <1>1, <2>3, <3>2 DEF BlankBehind
      <4>2. i \in 0 .. MaxRows - 1 /\ j \in 0 .. MaxCols - 1
        BY <1>1
      <4> QED
        BY <1>1, <1>2, <4>1, <4>2
    <3>3. BlankBehind(row, col)'
      BY <1>3, <2>1, <3>2 DEF BlankBehind
    <3> QED
      BY <3>1, <3>3
  <2> QED
    BY <1>3, <1>6, <2>2, <2>3
<1> QED
  BY <1>4, <1>5, <1>6

\* A character that is not the last of its row: it is there, and nothing else moved.
LEMMA PutInRow ==
  ASSUME ScreenTypeOK, NEW c \in Glyphs, c # Newline, PutChar(c), col + 1 < cols
  PROVE  /\ row' = row /\ col' = col + 1 /\ cells'[row][col] = c
         /\ \A i \in 0 .. rows - 1 : \A j \in 0 .. cols - 1 :
              ~(i = row /\ j = col) => cells'[i][j] = cells[i][j]
<1>1. /\ rows \in Nat /\ rows <= MaxRows /\ MaxRows \in Nat
      /\ cols \in Nat /\ cols <= MaxCols /\ MaxCols \in Nat
      /\ row \in 0 .. MaxRows - 1 /\ col \in 0 .. MaxCols - 1
      /\ cells \in [0 .. MaxRows - 1 -> [0 .. MaxCols - 1 -> Glyphs]]
  BY WindowFacts DEF rows, cols, ScreenTypeOK
<1>2. cells' = [cells EXCEPT ![row][col] = c] /\ col' = col + 1 /\ row' = row
  <2>1. ~(col + 1 >= cols)
    BY <1>1
  <2> QED
    BY <2>1 DEF PutChar
<1>3. ASSUME NEW i \in 0 .. rows - 1, NEW j \in 0 .. cols - 1, ~(i = row /\ j = col)
      PROVE  cells'[i][j] = cells[i][j]
  <2>1. i \in 0 .. MaxRows - 1 /\ j \in 0 .. MaxCols - 1
    BY <1>1
  <2> QED
    BY <1>1, <1>2, <1>3, <2>1
<1>4. cells'[row][col] = c
  BY <1>1, <1>2
<1> QED
  BY <1>2, <1>3, <1>4

\* The cursor is put where it was told, if that shows.
LEMMA SetCursorKeeps ==
  ASSUME ScreenTypeOK, NEW r \in Nat, NEW c \in Nat, SetCursor(r, c)
  PROVE  /\ ScreenTypeOK' /\ cells' = cells /\ rows' = rows /\ cols' = cols
         /\ r < rows /\ c < cols => row' = r /\ col' = c
<1>1. /\ rows \in Nat /\ 0 < rows /\ rows <= MaxRows /\ MaxRows \in Nat
      /\ cols \in Nat /\ 0 < cols /\ cols <= MaxCols /\ MaxCols \in Nat
  BY WindowFacts DEF rows, cols, ScreenTypeOK
<1>2. /\ row' = (IF r < rows - 1 THEN r ELSE rows - 1)
      /\ col' = (IF c < cols - 1 THEN c ELSE cols - 1)
      /\ cells' = cells /\ window' = window
  BY DEF SetCursor, Lesser
<1>3. row' \in 0 .. MaxRows - 1 /\ col' \in 0 .. MaxCols - 1
  BY <1>1, <1>2
<1>4. r < rows /\ c < cols => row' = r /\ col' = c
  BY <1>1, <1>2
<1> QED
  BY <1>2, <1>3, <1>4 DEF ScreenTypeOK, rows, cols

\* Clearing the screen.
LEMMA ClearKeeps ==
  ASSUME ScreenTypeOK, ClearScreen
  PROVE  /\ ScreenTypeOK' /\ InWindow'
         /\ \A c \in Nat : BlankBehind(row, c)'
<1>1. /\ rows \in Nat /\ 0 < rows /\ rows <= MaxRows /\ MaxRows \in Nat
      /\ cols \in Nat /\ 0 < cols /\ cols <= MaxCols /\ MaxCols \in Nat
      /\ cells \in [0 .. MaxRows - 1 -> [0 .. MaxCols - 1 -> Glyphs]]
  BY WindowFacts DEF rows, cols, ScreenTypeOK
<1>2. /\ cells' = [r \in 0 .. MaxRows - 1 |-> [c \in 0 .. MaxCols - 1 |-> Space]]
      /\ row' = 0 /\ col' = 0 /\ window' = window /\ rows' = rows /\ cols' = cols
  <2>1. DOMAIN cells = 0 .. MaxRows - 1 /\ \A r \in 0 .. MaxRows - 1 : DOMAIN cells[r] = 0 .. MaxCols - 1
    BY <1>1
  <2> QED
    BY <2>1 DEF ClearScreen, rows, cols
<1>3. Space \in Glyphs /\ 0 \in 0 .. MaxRows - 1 /\ 0 \in 0 .. MaxCols - 1
  BY <1>1, CliAssumption
<1>4. ScreenTypeOK' /\ InWindow'
  BY <1>1, <1>2, <1>3 DEF ScreenTypeOK, InWindow
<1>5. \A i \in 0 .. rows - 1 : \A j \in 0 .. cols - 1 : cells'[i][j] = Space
  <2>1. \A i \in 0 .. rows - 1 : i \in 0 .. MaxRows - 1
    BY <1>1
  <2>2. \A j \in 0 .. cols - 1 : j \in 0 .. MaxCols - 1
    BY <1>1
  <2> QED
    BY <1>2, <2>1, <2>2
<1> QED
  BY <1>2, <1>4, <1>5 DEF BlankBehind

\* A display call is of one of six kinds.
LEMMA CallFacts ==
  ASSUME NEW op \in Calls
  PROVE  \/ op[1] = "put" /\ op[2] \in Glyphs /\ op = <<"put", op[2]>>
         \/ op[1] = "goto" /\ op[2] \in Nat
         \/ op[1] = "refresh"
         \/ op[1] = "clear"
         \/ op[1] = "prompt"
         \/ op[1] = "pause"
  BY DEF Calls

\* The call in front is taken away.
LEMMA NextCall ==
  ASSUME out \in Seq(Calls), Display
  PROVE  /\ Len(out) \in Nat /\ Len(out) > 0 /\ Head(out) = out[1] /\ out[1] \in Calls
         /\ out' \in Seq(Calls) /\ Len(out') = Len(out) - 1
         /\ \A i \in 1 .. Len(out) - 1 : out'[i] = out[i + 1]
<1>1. out # <<>> /\ out' = Tail(out)
  BY DEF Display
<1>2. Len(out) \in Nat /\ Len(out) > 0
  BY <1>1, EmptySeq
<1>3. Head(out) = out[1]
  BY <1>1, <1>2
<1>4. out[1] \in Calls
  BY <1>2, ElementOfSeq
<1> QED
  BY <1>1, <1>2, <1>3, <1>4, HeadTailProperties

\* What the call in front does, by its kind.
LEMMA DisplayCases ==
  ASSUME CliTypeOK, Display
  PROVE  LET op == out[1]
         IN /\ UNCHANGED <<input, len, cursor, history, pos, prevLen>>
            /\ \/ /\ op[1] = "put" /\ op[2] \in Glyphs /\ op = <<"put", op[2]>>
                  /\ PutChar(op[2])
                  /\ spoilt' = (spoilt \/ col + 1 >= cols) /\ littered' = littered
                  /\ UNCHANGED <<promptRow, promptCol>>
               \/ /\ op[1] = "goto" /\ op[2] \in Nat
                  /\ SetCursor(promptRow, promptCol + op[2])
                  /\ spoilt' = (spoilt \/ promptCol + op[2] >= cols)
                  /\ littered' = (littered \/ spoilt)
                  /\ UNCHANGED <<promptRow, promptCol>>
               \/ /\ op[1] = "refresh" /\ SetCursor(row, col)
                  /\ UNCHANGED <<promptRow, promptCol, spoilt, littered>>
               \/ /\ op[1] = "clear" /\ ClearScreen /\ littered' = FALSE
                  /\ UNCHANGED <<promptRow, promptCol, spoilt>>
               \/ /\ op[1] = "prompt" /\ UNCHANGED termVars /\ UNCHANGED littered
                  /\ promptRow' = row /\ promptCol' = col
                  /\ spoilt' = (row >= rows \/ col >= cols)
               \/ /\ op[1] = "pause" /\ UNCHANGED termVars
                  /\ UNCHANGED <<promptRow, promptCol, spoilt, littered>>
<1> DEFINE op == out[1]
<1>1. Head(out) = op /\ op \in Calls
  BY NextCall DEF CliTypeOK
<1>2. UNCHANGED <<input, len, cursor, history, pos, prevLen>>
  BY DEF Display, lineVars
<1> HIDE DEF op
<1>9. /\ CASE op[1] = "put"     -> PutChar(op[2])
           [] op[1] = "goto"    -> SetCursor(promptRow, promptCol + op[2])
           [] op[1] = "refresh" -> Refresh
           [] op[1] = "clear"   -> ClearScreen
           [] op[1] \in {"prompt", "pause"} -> UNCHANGED termVars
      /\ IF op[1] = "prompt" THEN promptRow' = row /\ promptCol' = col
         ELSE UNCHANGED <<promptRow, promptCol>>
      /\ spoilt' = CASE op[1] = "prompt" -> row >= rows \/ col >= cols
                     [] op[1] = "put"    -> spoilt \/ col + 1 >= cols
                     [] op[1] = "goto"   -> spoilt \/ promptCol + op[2] >= cols
                     [] OTHER            -> spoilt
      /\ littered' = CASE op[1] = "clear" -> FALSE
                       [] op[1] = "goto"  -> littered \/ spoilt
                       [] OTHER           -> littered
  BY <1>1, Zenon DEF Display
<1>3. CASE op[1] = "put" /\ op[2] \in Glyphs /\ op = <<"put", op[2]>>
  BY <1>2, <1>3, <1>9 DEF op
<1>4. CASE op[1] = "goto" /\ op[2] \in Nat
  BY <1>2, <1>4, <1>9 DEF op
<1>5. CASE op[1] = "refresh"
  BY <1>2, <1>5, <1>9 DEF op, Refresh
<1>6. CASE op[1] = "clear"
  BY <1>2, <1>6, <1>9 DEF op
<1>7. CASE op[1] = "prompt"
  BY <1>2, <1>7, <1>9 DEF op
<1>8. CASE op[1] = "pause"
  BY <1>2, <1>8, <1>9 DEF op
<1> QED
  BY <1>1, <1>3, <1>4, <1>5, <1>6, <1>7, <1>8, CallFacts DEF op

\* Types are kept by display calls.
LEMMA DisplayTypes ==
  ASSUME CliTypeOK, Display
  PROVE  CliTypeOK'
<1>1. ScreenTypeOK /\ out \in Seq(Calls)
  BY DEF CliTypeOK, ScreenTypeOK
<1>2. out' \in Seq(Calls)
  BY <1>1, NextCall
<1>3. /\ row \in Nat /\ col \in Nat /\ promptRow \in Nat /\ promptCol \in Nat
  BY DEF CliTypeOK
<1>4. /\ ScreenTypeOK'
      /\ promptRow' \in 0 .. MaxRows - 1 /\ promptCol' \in 0 .. MaxCols - 1
      /\ spoilt' \in BOOLEAN /\ littered' \in BOOLEAN
      /\ nudged' \in BOOLEAN
      /\ UNCHANGED <<input, len, cursor, history, pos, prevLen>>
  <2>1. \A n \in Nat : promptCol + n \in Nat
    BY <1>3
  <2>2. (UNCHANGED termVars) => ScreenTypeOK'
    BY <1>1 DEF ScreenTypeOK, termVars
  <2>3. spoilt \in BOOLEAN /\ littered \in BOOLEAN
        /\ promptRow \in 0 .. MaxRows - 1 /\ promptCol \in 0 .. MaxCols - 1
        /\ row \in 0 .. MaxRows - 1 /\ col \in 0 .. MaxCols - 1
    BY DEF CliTypeOK
  <2>4. nudged' = FALSE
    BY DEF Display
  <2> QED
    BY <1>1, <1>3, <2>1, <2>2, <2>3, <2>4, DisplayCases, PutKeeps, SetCursorKeeps, ClearKeeps
<1> QED
  BY <1>2, <1>4 DEF CliTypeOK, ScreenTypeOK, InputCells

\* The calls of a redraw that is still to come move up by one.
LEMMA RedrawComes ==
  ASSUME out \in Seq(Calls), Display, NEW q \in Nat \ {0}, NEW m \in Nat, NEW d \in 0 .. m + 3,
         Redrawing(q, m, d), UNCHANGED <<input, len, cursor>>
  PROVE  Redrawing(q - 1, m, d)'
<1>1. /\ Len(out') = Len(out) - 1 /\ Len(out) = q + m + 3 - d
      /\ \A i \in 1 .. Len(out) - 1 : out'[i] = out[i + 1]
  BY NextCall DEF Redrawing
<1>2. ASSUME NEW i \in 1 .. m + 3 - d
      PROVE  out'[q - 1 + i] = Call(m, d + i)'
  <2>1. q - 1 + i \in 1 .. Len(out) - 1 /\ (q - 1 + i) + 1 = q + i
    BY <1>1
  <2>2. out'[q - 1 + i] = out[q + i]
    BY <1>1, <2>1
  <2>3. Call(m, d + i)' = Call(m, d + i)
    BY DEF Call, LineCall
  <2> QED
    BY <2>2, <2>3 DEF Redrawing
<1>3. Len(out') = (q - 1) + m + 3 - d
  BY <1>1
<1> QED
  BY <1>2, <1>3 DEF Redrawing

\* A redraw goes on by one call.
LEMMA RedrawGoesOn ==
  ASSUME out \in Seq(Calls), Display, NEW m \in Nat, NEW d \in 0 .. m + 3,
         Redrawing(0, m, d), UNCHANGED <<input, len, cursor>>
  PROVE  /\ d < m + 3 /\ out[1] = Call(m, d + 1)
         /\ Redrawing(0, m, d + 1)'
<1>1. /\ Len(out') = Len(out) - 1 /\ Len(out) = m + 3 - d /\ Len(out) > 0
      /\ \A i \in 1 .. Len(out) - 1 : out'[i] = out[i + 1]
  BY NextCall DEF Redrawing
<1>2. ASSUME NEW i \in 1 .. m + 3 - (d + 1)
      PROVE  out'[0 + i] = Call(m, d + 1 + i)'
  <2>1. i \in 1 .. Len(out) - 1 /\ i + 1 \in 1 .. m + 3 - d /\ d + (i + 1) = d + 1 + i
    BY <1>1
  <2>2. out'[i] = out[0 + (i + 1)]
    <3>1. out'[i] = out[i + 1]
      BY <1>1, <2>1
    <3>2. 0 + (i + 1) = i + 1
      OBVIOUS
    <3> QED
      BY <3>1, <3>2
  <2>3. out[0 + (i + 1)] = Call(m, d + (i + 1))
    BY <2>1 DEF Redrawing
  <2>4. Call(m, d + 1 + i)' = Call(m, d + 1 + i)
    BY DEF Call, LineCall
  <2> QED
    BY <2>1, <2>2, <2>3, <2>4
<1>3. out[0 + 1] = Call(m, d + 1)
  <2>1. 1 \in 1 .. m + 3 - d
    BY <1>1
  <2> QED
    BY <2>1 DEF Redrawing
<1> QED
  BY <1>1, <1>2, <1>3 DEF Redrawing

\* While something is printed.
LEMMA DisplayPrinting ==
  ASSUME CliTypeOK, Display, NEW q \in 1 .. Len(out), Printing(q)
  PROVE  ScreenOK'
<1> USE DEF Printing
<1>1. /\ len \in 0 .. InputMax - 1 /\ InputMax \in Nat /\ out \in Seq(Calls)
      /\ ScreenTypeOK /\ cursor \in 0 .. len
  BY CliAssumption DEF CliTypeOK, ScreenTypeOK
<1>2. /\ Len(out) \in Nat /\ q \in Nat /\ Len(out') = Len(out) - 1
      /\ \A i \in 1 .. Len(out) - 1 : out'[i] = out[i + 1]
      /\ UNCHANGED <<input, len, cursor>>
  BY <1>1, NextCall, DisplayCases
<1>3. /\ rows \in Nat /\ 0 < rows /\ cols \in Nat /\ 0 < cols /\ row \in Nat /\ col \in Nat
  BY <1>1, WindowFacts DEF rows, cols, ScreenTypeOK
<1>4. CASE q = 1
  <2>1. out[1][1] = "prompt"
    BY <1>4
  <2>2. /\ UNCHANGED termVars /\ UNCHANGED littered /\ promptRow' = row /\ promptCol' = col
        /\ spoilt' = (row >= rows \/ col >= cols)
    BY <2>1, DisplayCases
  <2>0. PICK m \in Nat : m = len
    BY <1>1
  <2>8. PICK d \in 0 .. m + 3 : d = IF Len(out) = q /\ len = 0 THEN m + 3 ELSE 0
    BY <1>1
  <2>3. Redrawing(0, m, d)'
    <3>1. CASE Len(out) = q /\ len = 0
      BY <1>2, <1>4, <2>0, <2>8, <3>1 DEF Redrawing
    <3>2. CASE ~(Len(out) = q /\ len = 0)
      <4>1. Redrawing(1, m, 0) /\ 0 \in 0 .. m + 3
        BY <1>1, <1>4, <2>0, <2>8, <3>2
      <4>2. Redrawing(1 - 1, m, 0)'
        BY <1>1, <1>2, <4>1, RedrawComes
      <4> QED
        BY <2>8, <3>2, <4>2
    <3> QED
      BY <3>1, <3>2
  <2>4. /\ Written(m, d) = 0 /\ ~(d \in 1 .. m) /\ (d >= m + 2 => cursor = 0)
        /\ m \in len .. InputMax - 1
    BY <1>1, <2>0, <2>8 DEF Written
  <2>5. /\ window' = window /\ cells' = cells /\ row' = row /\ col' = col
        /\ rows' = rows /\ cols' = cols /\ cursor' = cursor /\ len' = len /\ input' = input
        /\ littered' = littered
    BY <1>2, <2>2 DEF termVars, rows, cols
  <2>9. Editing(m, d)' => ScreenOK'
    <3>1. m \in len' .. InputMax - 1
      BY <2>4, <2>5
    <3> QED
      BY <2>8, <3>1 DEF ScreenOK
  <2>10. spoilt' <=> ~InWindow
    <3>1. InWindow <=> ~(row >= rows \/ col >= cols)
      BY <1>3 DEF InWindow
    <3> QED
      BY <2>2, <3>1, Zenon
  <2>6. CASE spoilt'
    <3>1. littered'
      BY <2>5, <2>6, <2>10, Zenon
    <3> QED
      BY <2>3, <2>6, <2>9, <3>1 DEF Editing
  <2>7. CASE ~spoilt'
    <3>1. row < rows /\ col < cols
      BY <2>7, <2>10 DEF InWindow
    <3>2. ~littered => BlankBehind(row, col + m)
      <4>1. ~littered => BlankBehind(row, col)
        BY <1>4
      <4>2. ASSUME NEW j \in 0 .. cols - 1, j >= col + m PROVE j >= col
        BY <1>1, <1>3, <2>0, <4>2
      <4> QED
        BY <4>1, <4>2 DEF BlankBehind
    <3>3. ~littered' => BlankBehind(promptRow, promptCol + m)'
      BY <2>2, <2>5, <3>2 DEF BlankBehind
    <3>4. /\ promptRow' < rows' /\ promptCol' + 0 < cols'
          /\ row' = promptRow' /\ col' = promptCol' + 0
      BY <1>3, <2>2, <2>5, <3>1
    <3>5. Editing(m, d)'
      BY <1>3, <2>2, <2>3, <2>4, <2>5, <2>7, <3>3, <3>4 DEF Editing, Written
    <3> QED
      BY <2>9, <3>5
  <2> QED
    BY <2>6, <2>7
<1>5. CASE q # 1
  <2>1. q - 1 \in 1 .. Len(out') /\ 1 \in 1 .. q - 1
    BY <1>2, <1>5
  <2>2. out'[q - 1] = <<"prompt">>
    <3>1. q - 1 \in 1 .. Len(out) - 1 /\ (q - 1) + 1 = q
      BY <1>2, <1>5
    <3> QED
      BY <1>2, <3>1
  <2>3. \A i \in 1 .. q - 1 - 1 : out'[i][1] \in {"put", "refresh", "clear", "pause"}
    <3>1. ASSUME NEW i \in 1 .. q - 1 - 1
          PROVE  out'[i][1] \in {"put", "refresh", "clear", "pause"}
      <4>1. i \in 1 .. Len(out) - 1 /\ i + 1 \in 1 .. q - 1
        BY <1>2
      <4> QED
        BY <1>2, <4>1
    <3> QED
      BY <3>1
  <2>4. \/ Len(out') = q - 1 /\ len' = 0
        \/ cursor' = len' /\ Redrawing(q - 1, len, 0)'
    <3>1. CASE Len(out) = q /\ len = 0
      BY <1>2, <3>1
    <3>2. CASE cursor = len /\ Redrawing(q, len, 0)
      <4>1. q \in Nat \ {0} /\ len \in Nat /\ 0 \in 0 .. len + 3
        BY <1>1, <1>2
      <4>2. Redrawing(q - 1, len, 0)'
        <5>1. \A m \in Nat : m = len => Redrawing(q - 1, m, 0)'
          BY <1>1, <1>2, <3>2, <4>1, RedrawComes
        <5> QED
          BY <1>2, <4>1, <5>1 DEF Redrawing, Call, LineCall
      <4> QED
        BY <1>2, <3>2, <4>2
    <3> QED
      BY <3>1, <3>2
  <2>5. out[1][1] \in {"put", "refresh", "clear", "pause"}
    BY <2>1
  <2>6. ~littered' => InWindow' /\ BlankBehind(row, col)'
    <3>1. CASE out[1][1] = "put"
      <4> DEFINE c == out[1][2]
      <4>1. /\ c \in Glyphs /\ out[1] = <<"put", c>> /\ PutChar(c) /\ littered' = littered
        BY <3>1, DisplayCases
      <4>2. ~littered => InWindow /\ BlankBehind(row, IF c = Newline THEN cols ELSE col)
        BY <4>1
      <4>3. BlankBehind(row, col) => BlankBehind(row, col + 1)
        BY <1>3 DEF BlankBehind
      <4> HIDE DEF c
      <4>4. ~littered => InWindow /\ BlankBehind(row, IF c = Newline THEN cols ELSE col + 1)
        BY <4>2, <4>3
      <4> QED
        BY <1>1, <4>1, <4>4, PutKeeps
    <3>2. CASE out[1][1] = "refresh"
      <4>1. SetCursor(row, col) /\ littered' = littered
        BY <3>2, DisplayCases
      <4>2. ~littered => InWindow /\ BlankBehind(row, col)
        BY <3>2
      <4>3. /\ cells' = cells /\ rows' = rows /\ cols' = cols
            /\ (InWindow => row' = row /\ col' = col)
        BY <1>1, <1>3, <4>1, SetCursorKeeps DEF InWindow
      <4> QED
        BY <4>1, <4>2, <4>3 DEF InWindow, BlankBehind
    <3>3. CASE out[1][1] = "clear"
      <4>1. ClearScreen
        BY <3>3, DisplayCases
      <4>2. InWindow' /\ \A c \in Nat : BlankBehind(row, c)'
        BY <1>1, <4>1, ClearKeeps
      <4>3. col' = 0
        BY <4>1 DEF ClearScreen
      <4>4. BlankBehind(row, 0)'
        BY <4>2
      <4> QED
        BY <4>2, <4>3, <4>4 DEF BlankBehind
    <3>4. CASE out[1][1] = "pause"
      <4>1. UNCHANGED <<cells, row, col, window>> /\ littered' = littered
        BY <3>4, DisplayCases DEF termVars
      <4>2. ~littered => InWindow /\ BlankBehind(row, col)
        BY <3>4
      <4> QED
        BY <4>1, <4>2 DEF InWindow, BlankBehind, rows, cols
    <3> QED
      BY <2>5, <3>1, <3>2, <3>3, <3>4
  <2>7. ~littered' => InWindow' /\ BlankBehind(row, IF out[1] = <<"put", Newline>> THEN cols ELSE col)'
    <3>1. ScreenTypeOK' /\ CliTypeOK'
      BY <1>1, DisplayTypes DEF CliTypeOK, ScreenTypeOK
    <3>2. InWindow' /\ BlankBehind(row, col)' => BlankBehind(row, cols)'
      <4>1. cols' \in Nat /\ col' \in Nat
        BY <3>1, WindowFacts DEF ScreenTypeOK, cols
      <4>2. ASSUME InWindow', NEW j \in 0 .. cols' - 1, j >= cols' PROVE j >= col'
        BY <4>1, <4>2 DEF InWindow
      <4> QED
        BY <4>2 DEF BlankBehind
    <3> QED
      BY <2>6, <3>2
  <2>8. Printing(q - 1)'
    <3> QED
      BY <2>2, <2>3, <2>4, <2>7
  <2> QED
    BY <2>1, <2>8 DEF ScreenOK
<1> QED
  BY <1>4, <1>5


\* While the line is drawn.
LEMMA DisplayEditing ==
  ASSUME CliTypeOK, LineOK, Display, NEW m \in Nat, m \in len .. InputMax - 1,
         NEW d \in 0 .. m + 3, Editing(m, d)
  PROVE  ScreenOK'
<1>1. /\ len \in Nat /\ InputMax \in Nat /\ out \in Seq(Calls) /\ ScreenTypeOK
      /\ cursor \in Nat /\ cursor <= len /\ len <= m
      /\ promptRow \in Nat /\ promptCol \in Nat /\ row \in Nat /\ col \in Nat
  BY CliAssumption DEF CliTypeOK, ScreenTypeOK
<1>2. /\ rows \in Nat /\ 0 < rows /\ cols \in Nat /\ 0 < cols
  BY <1>1, WindowFacts DEF rows, cols, ScreenTypeOK
<1>3. UNCHANGED <<input, len, cursor>>
  BY DisplayCases
<1>4. /\ d < m + 3 /\ out[1] = Call(m, d + 1)
      /\ Redrawing(0, m, d + 1)'
  BY <1>1, <1>3, RedrawGoesOn DEF Editing
<1>5. /\ spoilt /\ ~littered => d \in 1 .. m + 1 /\ InWindow /\ BlankBehind(row, col)
      /\ ~spoilt /\ ~littered => BlankBehind(promptRow, promptCol + m)
      /\ ~spoilt => /\ promptRow < rows /\ promptCol + Written(m, d) < cols
                    /\ \A i \in 0 .. Written(m, d) - 1 :
                         cells[promptRow][promptCol + i] = IF i < len THEN input[i] ELSE Space
                    /\ d \in 1 .. m => row = promptRow /\ col = promptCol + Written(m, d)
                    /\ d = m + 2 => row = promptRow /\ col = promptCol + cursor
  BY <1>1 DEF Editing
<1>6. SUFFICES Editing(m, d + 1)'
  <2>1. m \in len' .. InputMax - 1 /\ d + 1 \in 0 .. m + 3
    BY <1>3, <1>4
  <2> QED
    BY <2>1 DEF ScreenOK
<1>7. CASE d = 0
  <2>1. out[1] = <<"goto", 0>>
    BY <1>4, <1>7 DEF Call, LineCall
  <2>2. /\ SetCursor(promptRow, promptCol + 0) /\ littered' = (littered \/ spoilt)
        /\ spoilt' = (spoilt \/ promptCol + 0 >= cols) /\ UNCHANGED <<promptRow, promptCol>>
    BY <2>1, DisplayCases
  <2>3. /\ cells' = cells /\ rows' = rows /\ cols' = cols
        /\ promptRow < rows /\ promptCol < cols => row' = promptRow /\ col' = promptCol
    BY <1>1, <2>2, SetCursorKeeps
  <2>4. Written(m, d) = 0 /\ Written(m, d + 1) = 0 /\ ~(d \in 1 .. m + 1) /\ ~(d + 1 >= m + 2)
    BY <1>7 DEF Written
  <2>5. (spoilt' => spoilt \/ promptCol >= cols) /\ (~spoilt' => ~spoilt)
        /\ (~littered' => ~littered /\ ~spoilt)
    <3>1. (spoilt' <=> spoilt \/ promptCol + 0 >= cols) /\ (littered' <=> littered \/ spoilt)
      BY <2>2, Zenon
    <3> QED
      BY <1>1, <3>1
  <2>6. ~littered' => ~spoilt'
    BY <1>1, <1>2, <1>5, <2>4, <2>5
  <2>7. ~spoilt' /\ ~littered' => BlankBehind(promptRow, promptCol + m)'
    BY <1>5, <2>2, <2>3, <2>5 DEF BlankBehind
  <2>8. ~spoilt' => promptRow' < rows' /\ promptCol' + 0 < cols'
                    /\ row' = promptRow' /\ col' = promptCol' + 0
    BY <1>1, <1>2, <1>5, <2>2, <2>3, <2>4, <2>5
  <2> QED
    BY <1>4, <2>4, <2>6, <2>7, <2>8 DEF Editing, Written
<1>8. CASE d \in 1 .. m
  <2> DEFINE x == IF d <= len THEN input[d - 1] ELSE Space
  <2>1. out[1] = <<"put", x>>
    <3>1. d + 1 # 1 /\ d + 1 <= m + 1 /\ (d + 1) - 1 = d /\ (d + 1) - 2 = d - 1
      BY <1>8
    <3> QED
      BY <1>4, <3>1 DEF Call, LineCall
  <2>2. x \in Glyphs /\ x # Newline
    <3>1. d <= len => d - 1 \in 0 .. len - 1
      BY <1>1, <1>8
    <3>2. x \in Printable \union {Space}
      BY <3>1 DEF LineOK
    <3>3. Space # Newline
      BY DEF Space, Newline
    <3> QED
      BY <3>2, <3>3, CliAssumption
  <2>3. /\ Written(m, d) = d - 1 /\ Written(m, d + 1) = d /\ d \in 1 .. m + 1 /\ ~(d + 1 >= m + 2)
        /\ d + 1 \in 1 .. m + 1
    BY <1>8 DEF Written
  <2>9. x = IF d - 1 < len THEN input[d - 1] ELSE Space
    BY <1>1, <1>8
  <2> HIDE DEF x
  <2>4. /\ PutChar(x) /\ littered' = littered
        /\ spoilt' = (spoilt \/ col + 1 >= cols) /\ UNCHANGED <<promptRow, promptCol>>
    BY <2>1, DisplayCases
  <2>5. (spoilt' <=> spoilt \/ col + 1 >= cols) /\ (littered' <=> littered)
    BY <2>4, Zenon
  <2>6. /\ rows' = rows /\ cols' = cols
        /\ InWindow /\ BlankBehind(row, col + 1) => InWindow' /\ BlankBehind(row, col)'
    BY <1>1, <2>2, <2>4, PutKeeps
  <2>7. ASSUME spoilt', ~littered'
        PROVE  InWindow' /\ BlankBehind(row, col)'
    <3>1. CASE spoilt
      <4>1. InWindow /\ BlankBehind(row, col)
        BY <1>5, <2>5, <2>7, <3>1
      <4>2. ASSUME NEW i \in 0 .. rows - 1, NEW j \in 0 .. cols - 1,
                   i > row \/ (i = row /\ j >= col + 1)
            PROVE  cells[i][j] = Space
        <5>1. i > row \/ (i = row /\ j >= col)
          BY <1>1, <1>2, <4>2
        <5> QED
          BY <4>1, <5>1 DEF BlankBehind
      <4>3. BlankBehind(row, col + 1)
        BY <4>2 DEF BlankBehind
      <4> QED
        BY <2>6, <4>1, <4>3
    <3>2. CASE ~spoilt
      <4>1. /\ row = promptRow /\ col = promptCol + (d - 1) /\ promptRow < rows
            /\ promptCol + (d - 1) < cols /\ col + 1 >= cols
            /\ BlankBehind(promptRow, promptCol + m)
        BY <1>5, <1>8, <2>3, <2>5, <2>7, <3>2
      <4>2. InWindow
        BY <4>1 DEF InWindow
      <4>4. ASSUME NEW i \in 0 .. rows - 1, NEW j \in 0 .. cols - 1,
                   i > row \/ (i = row /\ j >= col + 1)
            PROVE  cells[i][j] = Space
        <5>1. i > promptRow
          BY <1>1, <1>2, <4>1, <4>4
        <5> QED
          BY <4>1, <5>1 DEF BlankBehind
      <4>3. BlankBehind(row, col + 1)
        BY <4>4 DEF BlankBehind
      <4> QED
        BY <2>6, <4>2, <4>3
    <3> QED
      BY <3>1, <3>2
  <2>8. ASSUME ~spoilt'
        PROVE  /\ promptRow' < rows' /\ promptCol' + d < cols'
               /\ \A i \in 0 .. d - 1 :
                    cells'[promptRow'][promptCol' + i] = IF i < len' THEN input'[i] ELSE Space
               /\ row' = promptRow' /\ col' = promptCol' + d
               /\ ~littered' => BlankBehind(promptRow, promptCol + m)'
    <3>1. ~spoilt /\ col + 1 < cols
      BY <1>1, <1>2, <2>5, <2>8
    <3>2. /\ row = promptRow /\ col = promptCol + (d - 1) /\ promptRow < rows
          /\ \A i \in 0 .. d - 2 :
               cells[promptRow][promptCol + i] = IF i < len THEN input[i] ELSE Space
      <4>1. 0 .. d - 2 = 0 .. (d - 1) - 1
        BY <1>8
      <4> QED
        BY <1>5, <1>8, <2>3, <3>1, <4>1
    <3>3. /\ row' = row /\ col' = col + 1 /\ cells'[row][col] = x
          /\ \A i \in 0 .. rows - 1 : \A j \in 0 .. cols - 1 :
               ~(i = row /\ j = col) => cells'[i][j] = cells[i][j]
      BY <1>1, <2>2, <2>4, <3>1, PutInRow
    <3>4. /\ promptRow' < rows' /\ promptCol' + d < cols' /\ row' = promptRow' /\ col' = promptCol' + d
      BY <1>1, <1>2, <1>8, <2>4, <2>6, <3>1, <3>2, <3>3
    <3>5. ASSUME NEW i \in 0 .. d - 1
          PROVE  cells'[promptRow'][promptCol' + i] = IF i < len' THEN input'[i] ELSE Space
      <4>1. CASE i = d - 1
        BY <1>3, <2>4, <2>9, <3>2, <3>3, <4>1
      <4>2. CASE i # d - 1
        <5>0. i \in Nat /\ d \in Nat /\ i < d - 1
          BY <1>8, <4>2
        <5>1. /\ i \in 0 .. d - 2 /\ promptRow \in 0 .. rows - 1 /\ promptCol + i \in 0 .. cols - 1
              /\ promptCol + i # col
          <6>1. col = promptCol + (d - 1) /\ col + 1 < cols /\ promptRow < rows
            BY <3>1, <3>2
          <6> QED
            BY <1>1, <1>2, <5>0, <6>1
        <5>2. cells'[promptRow][promptCol + i] = cells[promptRow][promptCol + i]
          BY <3>3, <5>1
        <5> QED
          BY <1>3, <2>4, <3>2, <5>1, <5>2
      <4> QED
        BY <4>1, <4>2
    <3>6. ASSUME ~littered'
          PROVE  BlankBehind(promptRow, promptCol + m)'
      <4>1. BlankBehind(promptRow, promptCol + m)
        BY <1>5, <2>5, <3>1, <3>6
      <4>2. ASSUME NEW i \in 0 .. rows - 1, NEW j \in 0 .. cols - 1,
                   i > promptRow \/ (i = promptRow /\ j >= promptCol + m)
            PROVE  cells'[i][j] = Space
        <5>1. cells[i][j] = Space
          BY <4>1, <4>2 DEF BlankBehind
        <5>2. ~(i = row /\ j = col)
          BY <1>1, <1>8, <3>2, <4>2
        <5> QED
          BY <3>3, <5>1, <5>2
      <4> QED
        BY <2>4, <2>6, <4>2 DEF BlankBehind
    <3> QED
      BY <3>4, <3>5, <3>6
  <2> QED
    BY <1>4, <2>3, <2>7, <2>8 DEF Editing, Written
<1>9. CASE d = m + 1
  <2>1. out[1] = <<"goto", cursor>>
    <3>1. d + 1 # 1 /\ ~(d + 1 <= m + 1) /\ d + 1 = m + 2
      BY <1>9
    <3> QED
      BY <1>4, <3>1 DEF Call, LineCall
  <2>2. /\ SetCursor(promptRow, promptCol + cursor) /\ littered' = (littered \/ spoilt)
        /\ spoilt' = (spoilt \/ promptCol + cursor >= cols) /\ UNCHANGED <<promptRow, promptCol>>
    BY <2>1, DisplayCases
  <2>3. /\ cells' = cells /\ rows' = rows /\ cols' = cols
        /\ promptRow < rows /\ promptCol + cursor < cols
             => row' = promptRow /\ col' = promptCol + cursor
    BY <1>1, <2>2, SetCursorKeeps
  <2>4. Written(m, d) = m /\ Written(m, d + 1) = m /\ ~(d + 1 \in 1 .. m)
    BY <1>9 DEF Written
  <2>5. /\ spoilt' <=> spoilt \/ promptCol + cursor >= cols
        /\ littered' <=> littered \/ spoilt
    BY <2>2, Zenon
  <2>6. ~littered' => ~spoilt'
    BY <1>1, <1>2, <1>5, <2>4, <2>5
  <2>7. ~spoilt' /\ ~littered' => BlankBehind(promptRow, promptCol + m)'
    BY <1>5, <2>2, <2>3, <2>5 DEF BlankBehind
  <2>8. ~spoilt' => /\ promptRow' < rows' /\ promptCol' + m < cols'
                    /\ row' = promptRow' /\ col' = promptCol' + cursor'
                    /\ \A i \in 0 .. m - 1 :
                         cells'[promptRow'][promptCol' + i] = IF i < len' THEN input'[i] ELSE Space
    <3>1. ~spoilt' => \A i \in 0 .. m - 1 :
                        cells[promptRow][promptCol + i] = IF i < len THEN input[i] ELSE Space
      BY <1>5, <2>4, <2>5
    <3>2. ~spoilt' => promptRow < rows /\ promptCol + m < cols
      BY <1>5, <2>4, <2>5
    <3>3. ~spoilt' => row' = promptRow /\ col' = promptCol + cursor
      BY <1>1, <1>2, <1>5, <2>3, <2>4, <2>5, <3>2
    <3> QED
      BY <1>3, <2>2, <2>3, <3>1, <3>2, <3>3
  <2>9. ~spoilt' => col' <= promptCol' + cursor'
    BY <1>1, <1>3, <2>2, <2>8
  <2> QED
    BY <1>4, <2>4, <2>6, <2>7, <2>8, <2>9 DEF Editing, Written
<1>10. CASE d = m + 2
  <2>1. out[1] = <<"refresh">>
    <3>1. d + 1 # 1 /\ ~(d + 1 <= m + 1) /\ d + 1 # m + 2
      BY <1>10
    <3> QED
      BY <1>4, <3>1 DEF Call, LineCall
  <2>2. SetCursor(row, col) /\ UNCHANGED <<promptRow, promptCol, spoilt, littered>>
    BY <2>1, DisplayCases
  <2>3. /\ cells' = cells /\ rows' = rows /\ cols' = cols
        /\ row < rows /\ col < cols => row' = row /\ col' = col
    BY <1>1, <2>2, SetCursorKeeps
  <2>4. Written(m, d) = m /\ Written(m, d + 1) = m /\ ~(d + 1 \in 1 .. m) /\ ~(d \in 1 .. m + 1)
        /\ d = m + 2
    BY <1>10 DEF Written
  <2>5. (spoilt' <=> spoilt) /\ (littered' <=> littered)
    BY <2>2, Zenon
  <2>6. spoilt' => littered'
    BY <1>5, <2>4, <2>5
  <2>7. ~spoilt' /\ ~littered' => BlankBehind(promptRow, promptCol + m)'
    BY <1>5, <2>2, <2>3, <2>5 DEF BlankBehind
  <2>8. ~spoilt' => /\ promptRow' < rows' /\ promptCol' + m < cols'
                    /\ row' = promptRow' /\ col' = promptCol' + cursor'
                    /\ \A i \in 0 .. m - 1 :
                         cells'[promptRow'][promptCol' + i] = IF i < len' THEN input'[i] ELSE Space
    <3>1. ~spoilt' => \A i \in 0 .. m - 1 :
                        cells[promptRow][promptCol + i] = IF i < len THEN input[i] ELSE Space
      BY <1>5, <2>4, <2>5
    <3>2. ~spoilt' => promptRow < rows /\ promptCol + m < cols
      BY <1>5, <2>4, <2>5
    <3>3. ~spoilt' => row' = promptRow /\ col' = promptCol + cursor
      <4>1. ~spoilt' => row = promptRow /\ col = promptCol + cursor
        BY <1>5, <2>4, <2>5
      <4>2. ~spoilt' => row < rows /\ col < cols
        BY <1>1, <1>2, <3>2, <4>1
      <4> QED
        BY <2>3, <4>1, <4>2
    <3> QED
      BY <1>3, <2>2, <2>3, <3>1, <3>2, <3>3
  <2>9. ~spoilt' => col' <= promptCol' + cursor'
    BY <1>1, <1>3, <2>2, <2>8
  <2> QED
    BY <1>4, <2>4, <2>6, <2>7, <2>8, <2>9 DEF Editing, Written
<1> QED
  BY <1>4, <1>7, <1>8, <1>9, <1>10

\* A display call.
LEMMA DisplayKeeps ==
  ASSUME CliInv, Display
  PROVE  CliInv'
<1>1. CliTypeOK'
  BY DisplayTypes DEF CliInv
<1>2. LineOK'
  <2>1. UNCHANGED <<input, len, prevLen>>
    BY DisplayCases DEF CliInv
  <2> QED
    BY <2>1 DEF CliInv, LineOK
<1>3. ScreenOK'
  <2>1. len \in Nat
    BY DEF CliInv, CliTypeOK
  <2>2. ASSUME NEW m \in len .. InputMax - 1 PROVE m \in Nat
    BY <2>1, CliAssumption
  <2> QED
    BY <2>2, DisplayPrinting, DisplayEditing DEF CliInv, ScreenOK
<1> QED
  BY <1>1, <1>2, <1>3 DEF CliInv

\* What a concatenation is made of.
LEMMA Joined ==
  ASSUME NEW S, NEW s \in Seq(S), NEW t \in Seq(S)
  PROVE  /\ s \o t \in Seq(S) /\ Len(s \o t) = Len(s) + Len(t)
         /\ \A i \in 1 .. Len(s) : (s \o t)[i] = s[i]
         /\ \A i \in 1 .. Len(t) : (s \o t)[Len(s) + i] = t[i]
<1> DEFINE u == s \o t
           a == Len(s)
           b == Len(t)
<1>1. /\ u \in Seq(S) /\ Len(u) = a + b
      /\ \A i \in 1 .. a + b : u[i] = IF i <= a THEN s[i] ELSE t[i - a]
  BY ConcatProperties, Zenon
<1>2. a \in Nat /\ b \in Nat
  BY LenProperties
<1> HIDE DEF u, a, b
<1>3. /\ \A i \in 1 .. a : u[i] = s[i]
      /\ \A i \in 1 .. b : u[a + i] = t[i]
  <2>1. \A i \in 1 .. a : i \in 1 .. a + b /\ i <= a
    BY <1>2
  <2>2. \A i \in 1 .. b : a + i \in 1 .. a + b /\ ~(a + i <= a) /\ (a + i) - a = i
    BY <1>2
  <2> QED
    BY <1>1, <2>1, <2>2
<1> QED
  BY <1>1, <1>3 DEF u, a, b

\* Calls that may precede a prompt.
PrintCalls == ({"put"} \X Glyphs) \union {<<"refresh">>, <<"clear">>, <<"pause">>}

\* What PrintCalls are.
LEMMA PrintCallFacts ==
  /\ PrintCalls \subseteq Calls
  /\ \A op \in PrintCalls : op[1] \in {"put", "refresh", "clear", "pause"}
  /\ {<<"refresh">>, <<"clear">>, <<"pause">>} \subseteq PrintCalls
  /\ \A c \in Glyphs : <<"put", c>> \in PrintCalls
  BY DEF PrintCalls, Calls

\* A string, put character by character.
LEMMA PutIs ==
  ASSUME NEW s \in Seq(Glyphs)
  PROVE  /\ Put(s) \in Seq(PrintCalls) /\ Len(Put(s)) = Len(s)
         /\ \A i \in 1 .. Len(s) : Put(s)[i] = <<"put", s[i]>>
<1>1. Len(s) \in Nat /\ \A i \in 1 .. Len(s) : s[i] \in Glyphs
  BY ElementOfSeq
<1>2. \A i \in 1 .. Len(s) : <<"put", s[i]>> \in PrintCalls
  BY <1>1, PrintCallFacts
<1> QED
  BY <1>1, <1>2 DEF Put

\* A string that is shown.
LEMMA ShownIs ==
  ASSUME NEW s \in Seq(Glyphs)
  PROVE  /\ Shown(s) \in Seq(PrintCalls) /\ Len(Shown(s)) = Len(s) + 1
         /\ s # <<>> => Shown(s)[1] = <<"put", s[1]>>
<1>1. Refreshed \in Seq(PrintCalls) /\ Len(Refreshed) = 1
  BY PrintCallFacts DEF Refreshed
<1>2. Put(s) \in Seq(PrintCalls) /\ Len(Put(s)) = Len(s)
      /\ \A i \in 1 .. Len(s) : Put(s)[i] = <<"put", s[i]>>
  BY PutIs
<1>3. Len(s) \in Nat /\ 1 \in Nat /\ (s # <<>> => 1 \in 1 .. Len(s))
  BY EmptySeq
<1>4. /\ Shown(s) \in Seq(PrintCalls) /\ Len(Shown(s)) = Len(s) + 1
      /\ \A i \in 1 .. Len(s) : Shown(s)[i] = Put(s)[i]
  <2>0. Put(s) \in Seq(PrintCalls) /\ Refreshed \in Seq(PrintCalls)
    BY <1>1, <1>2
  <2>1. /\ Shown(s) \in Seq(PrintCalls) /\ Len(Shown(s)) = Len(Put(s)) + Len(Refreshed)
        /\ \A i \in 1 .. Len(Put(s)) : Shown(s)[i] = Put(s)[i]
    BY <2>0, Joined, Zenon DEF Shown
  <2> QED
    BY <1>1, <1>2, <2>1
<1> QED
  BY <1>2, <1>3, <1>4, Zenon

\* The calls of print_prompt.
LEMMA NewPromptIs ==
  /\ NewPrompt \in Seq(Calls) /\ Len(NewPrompt) = 3
  /\ NewPrompt[1] = <<"put", Prompt[1]>> /\ NewPrompt[1] \in PrintCalls
  /\ NewPrompt[2] \in PrintCalls
  /\ NewPrompt[3] = <<"prompt">>
<1>1. Prompt \in Seq(Glyphs) /\ Len(Prompt) = 1 /\ Prompt # <<>>
  <2>1. Prompt[1] \in Glyphs
    BY CliAssumption
  <2> QED
    BY <2>1 DEF Prompt
<1>2. Shown(Prompt) \in Seq(PrintCalls) /\ Len(Shown(Prompt)) = 2
      /\ Shown(Prompt)[1] = <<"put", Prompt[1]>>
  <2>1. Shown(Prompt) \in Seq(PrintCalls) /\ Len(Shown(Prompt)) = Len(Prompt) + 1
        /\ Shown(Prompt)[1] = <<"put", Prompt[1]>>
    BY <1>1, ShownIs, Zenon
  <2> QED
    BY <1>1, <2>1
<1>3. Shown(Prompt)[1] \in PrintCalls /\ Shown(Prompt)[2] \in PrintCalls
  <2>1. 1 \in 1 .. 2 /\ 2 \in 1 .. 2
    OBVIOUS
  <2> QED
    BY <1>2, <2>1, ElementOfSeq, Zenon
<1>4. Shown(Prompt) \in Seq(Calls)
  BY <1>2, PrintCallFacts
<1>5. <<<<"prompt">>>> \in Seq(Calls) /\ Len(<<<<"prompt">>>>) = 1
  BY DEF Calls
<1> QED
  <2>1. 1 \in 1 .. 2 /\ 2 \in 1 .. 2 /\ 1 \in 1 .. 1 /\ 2 + 1 = 3
    OBVIOUS
  <2> DEFINE p == <<<<"prompt">>>>
  <2>2. p[1] = <<"prompt">>
    OBVIOUS
  <2> HIDE DEF p
  <2>3. p \in Seq(Calls) /\ Len(p) = 1 /\ NewPrompt = Shown(Prompt) \o p
    BY <1>5 DEF p, NewPrompt
  <2>4. 1 \in Nat /\ 2 \in Nat
    OBVIOUS
  <2>5. /\ NewPrompt \in Seq(Calls) /\ Len(NewPrompt) = 2 + 1
        /\ \A i \in 1 .. 2 : NewPrompt[i] = Shown(Prompt)[i]
        /\ \A i \in 1 .. 1 : NewPrompt[2 + i] = p[i]
    <3>1. /\ NewPrompt \in Seq(Calls) /\ Len(NewPrompt) = Len(Shown(Prompt)) + Len(p)
          /\ \A i \in 1 .. Len(Shown(Prompt)) : NewPrompt[i] = Shown(Prompt)[i]
          /\ \A i \in 1 .. Len(p) : NewPrompt[Len(Shown(Prompt)) + i] = p[i]
      <4>1. Shown(Prompt) \in Seq(Calls) /\ p \in Seq(Calls)
        BY <1>4, <2>3
      <4> QED
        <5> DEFINE u == Shown(Prompt) \o p
        <5>1. /\ u \in Seq(Calls) /\ Len(u) = Len(Shown(Prompt)) + Len(p)
              /\ \A i \in 1 .. Len(Shown(Prompt)) : u[i] = Shown(Prompt)[i]
              /\ \A i \in 1 .. Len(p) : u[Len(Shown(Prompt)) + i] = p[i]
          BY <4>1, Joined
        <5>2. u = NewPrompt
          BY <2>3
        <5> QED
          BY <5>1, <5>2, Zenon
    <3> QED
      BY <1>2, <2>3, <3>1
  <2> HIDE DEF NewPrompt, Prompt, Shown
  <2> QED
    BY <1>2, <1>3, <2>1, <2>2, <2>5

\* r is a whole redraw of m characters.
IsRedraw(r, a, n, c, m) ==
  /\ r \in Seq(Calls) /\ Len(r) = m + 3
  /\ \A i \in 1 .. m + 3 : r[i] = LineCall(a, n, c, m, i)

\* What a redraw is made of.
LEMMA RedrawIs ==
  ASSUME NEW a, NEW n \in Nat, prevLen \in Nat, NEW c \in Nat,
         \A i \in 0 .. n - 1 : a[i] \in Glyphs,
         NEW m \in Nat, m = IF n < prevLen THEN prevLen ELSE n
  PROVE  IsRedraw(Redraw(a, n, c), a, n, c, m)
<1> DEFINE txt == Text(a, n)
           bl  == [i \in 1 .. prevLen - n |-> Space]
           g0  == GoTo(0)
           gc  == GoTo(c)
<1>1. /\ txt \in Seq(Glyphs) /\ Len(txt) = n /\ \A i \in 1 .. n : txt[i] = a[i - 1]
  <2>1. \A i \in 1 .. n : a[i - 1] \in Glyphs
    OBVIOUS
  <2> QED
    BY <2>1 DEF Text
<1>2. /\ bl \in Seq(Glyphs) /\ Len(bl) = m - n /\ \A i \in 1 .. m - n : bl[i] = Space
  <2>1. Space \in Glyphs
    BY CliAssumption
  <2>2. bl = [i \in 1 .. m - n |-> Space] /\ m - n \in Nat
    <3>1. CASE n < prevLen
      BY <3>1
    <3>2. CASE ~(n < prevLen)
      <4>1. 1 .. prevLen - n = 1 .. m - n
        BY <3>2
      <4> QED
        BY <3>2, <4>1
    <3> QED
      BY <3>1, <3>2
  <2> HIDE DEF bl
  <2> QED
    BY <2>1, <2>2
<1>3. /\ g0 \in Seq(Calls) /\ Len(g0) = 1 /\ g0[1] = <<"goto", 0>>
      /\ gc \in Seq(Calls) /\ Len(gc) = 1 /\ gc[1] = <<"goto", c>>
      /\ Refreshed \in Seq(Calls) /\ Len(Refreshed) = 1 /\ Refreshed[1] = <<"refresh">>
  BY DEF GoTo, Refreshed, Calls
<1>4. Redraw(a, n, c) = g0 \o Put(txt) \o Put(bl) \o gc \o Refreshed
  BY DEF Redraw
<1> HIDE DEF txt, bl, g0, gc
<1>5. /\ Put(txt) \in Seq(Calls) /\ Len(Put(txt)) = n
      /\ \A i \in 1 .. n : Put(txt)[i] = <<"put", a[i - 1]>>
  BY <1>1, PutIs, PrintCallFacts
<1>6. /\ Put(bl) \in Seq(Calls) /\ Len(Put(bl)) = m - n
      /\ \A i \in 1 .. m - n : Put(bl)[i] = <<"put", Space>>
  BY <1>2, PutIs, PrintCallFacts
<1> DEFINE w == g0 \o Put(txt)
           x == w \o Put(bl)
           y == x \o gc
           z == y \o Refreshed
<1>0. /\ 1 \in Nat /\ n + 1 \in Nat /\ m - n \in Nat /\ m + 1 \in Nat /\ m + 2 \in Nat
      /\ n <= m
  OBVIOUS
<1>7. /\ w \in Seq(Calls) /\ Len(w) = n + 1
      /\ \A i \in 1 .. 1 : w[i] = g0[i]
      /\ \A i \in 1 .. n : w[1 + i] = Put(txt)[i]
  <2>0. g0 \in Seq(Calls) /\ Put(txt) \in Seq(Calls)
    BY <1>3, <1>5
  <2>1. /\ w \in Seq(Calls) /\ Len(w) = Len(g0) + Len(Put(txt))
        /\ \A i \in 1 .. Len(g0) : w[i] = g0[i]
        /\ \A i \in 1 .. Len(Put(txt)) : w[Len(g0) + i] = Put(txt)[i]
    BY <2>0, Joined
  <2> HIDE DEF w
  <2> QED
    BY <1>0, <1>3, <1>5, <2>1
<1> HIDE DEF w
<1>8. /\ x \in Seq(Calls) /\ Len(x) = m + 1
      /\ \A i \in 1 .. n + 1 : x[i] = w[i]
      /\ \A i \in 1 .. m - n : x[(n + 1) + i] = Put(bl)[i]
  <2>0. w \in Seq(Calls) /\ Put(bl) \in Seq(Calls)
    BY <1>6, <1>7
  <2>1. /\ x \in Seq(Calls) /\ Len(x) = Len(w) + Len(Put(bl))
        /\ \A i \in 1 .. Len(w) : x[i] = w[i]
        /\ \A i \in 1 .. Len(Put(bl)) : x[Len(w) + i] = Put(bl)[i]
    BY <2>0, Joined
  <2> HIDE DEF x
  <2> QED
    BY <1>0, <1>6, <1>7, <2>1
<1> HIDE DEF x
<1>9. /\ y \in Seq(Calls) /\ Len(y) = m + 2
      /\ \A i \in 1 .. m + 1 : y[i] = x[i]
      /\ \A i \in 1 .. 1 : y[(m + 1) + i] = gc[i]
  <2>0. x \in Seq(Calls) /\ gc \in Seq(Calls)
    BY <1>3, <1>8
  <2>1. /\ y \in Seq(Calls) /\ Len(y) = Len(x) + Len(gc)
        /\ \A i \in 1 .. Len(x) : y[i] = x[i]
        /\ \A i \in 1 .. Len(gc) : y[Len(x) + i] = gc[i]
    BY <2>0, Joined
  <2> HIDE DEF y
  <2> QED
    BY <1>0, <1>3, <1>8, <2>1
<1> HIDE DEF y
<1>10. /\ z \in Seq(Calls) /\ Len(z) = m + 3
       /\ \A i \in 1 .. m + 2 : z[i] = y[i]
       /\ \A i \in 1 .. 1 : z[(m + 2) + i] = Refreshed[i]
  <2>0. y \in Seq(Calls) /\ Refreshed \in Seq(Calls)
    BY <1>3, <1>9
  <2>1. /\ z \in Seq(Calls) /\ Len(z) = Len(y) + Len(Refreshed)
        /\ \A i \in 1 .. Len(y) : z[i] = y[i]
        /\ \A i \in 1 .. Len(Refreshed) : z[Len(y) + i] = Refreshed[i]
    BY <2>0, Joined
  <2> HIDE DEF z
  <2> QED
    BY <1>0, <1>3, <1>9, <2>1
<1>11. Redraw(a, n, c) = z
  BY <1>4 DEF w, x, y
<1> HIDE DEF z
<1>12. ASSUME NEW i \in 1 .. m + 3
       PROVE  z[i] = LineCall(a, n, c, m, i)
  <2> USE DEF LineCall
  <2>0. n <= m
    OBVIOUS
  <2>1. CASE i = 1
    <3>1. z[1] = y[1] /\ y[1] = x[1] /\ x[1] = w[1] /\ w[1] = g0[1]
      <4>1. 1 \in 1 .. 1 /\ 1 \in 1 .. n + 1 /\ 1 \in 1 .. m + 1 /\ 1 \in 1 .. m + 2
        OBVIOUS
      <4> QED
        BY <1>7, <1>8, <1>9, <1>10, <4>1
    <3> QED
      BY <1>3, <2>1, <3>1
  <2>2. CASE i # 1 /\ i <= n + 1
    <3>1. i - 1 \in 1 .. n /\ i - 1 <= n /\ (i - 1) - 1 = i - 2 /\ i \in 1 .. n + 1
      BY <2>2
    <3>2. w[i] = <<"put", a[i - 2]>>
      <4>1. 1 + (i - 1) = i
        OBVIOUS
      <4>2. w[1 + (i - 1)] = Put(txt)[i - 1]
        BY <1>7, <3>1
      <4>3. Put(txt)[i - 1] = <<"put", a[(i - 1) - 1]>>
        BY <1>5, <3>1
      <4> QED
        BY <3>1, <4>1, <4>2, <4>3
    <3>3. z[i] = w[i]
      <4>1. i \in 1 .. n + 1 /\ i \in 1 .. m + 1 /\ i \in 1 .. m + 2
        BY <2>0, <2>2
      <4> QED
        BY <1>8, <1>9, <1>10, <4>1
    <3> QED
      BY <2>0, <2>2, <3>1, <3>2, <3>3
  <2>3. CASE i > n + 1 /\ i <= m + 1
    <3>1. i - (n + 1) \in 1 .. m - n
      BY <2>3
    <3>2. x[i] = <<"put", Space>>
      <4>1. (n + 1) + (i - (n + 1)) = i
        OBVIOUS
      <4>2. x[(n + 1) + (i - (n + 1))] = Put(bl)[i - (n + 1)]
        BY <1>8, <3>1
      <4>3. Put(bl)[i - (n + 1)] = <<"put", Space>>
        BY <1>6, <3>1
      <4> QED
        BY <4>1, <4>2, <4>3
    <3>3. z[i] = x[i]
      BY <1>9, <1>10, <2>3
    <3> QED
      BY <2>3, <3>2, <3>3
  <2>4. CASE i = m + 2
    <3>1. z[i] = y[m + 2] /\ y[m + 2] = gc[1]
      BY <1>9, <1>10, <2>4
    <3> QED
      BY <1>3, <2>4, <3>1
  <2>5. CASE i = m + 3
    <3>1. z[i] = Refreshed[1]
      BY <1>10, <2>5
    <3> QED
      BY <1>3, <2>5, <3>1
  <2> QED
    BY <2>1, <2>2, <2>3, <2>4, <2>5
<1> QED
  BY <1>10, <1>11, <1>12 DEF IsRedraw

-----------------------------------------------------------------------------
(* What a key does to the line and to the screen.                          *)

\* With no call left, what shows is the line, unless the screen is spoilt.
LEMMA IdleScreen ==
  ASSUME CliInv, out = <<>>
  PROVE  /\ spoilt => littered
         /\ ~spoilt => /\ promptRow < rows /\ promptCol + len < cols
                       /\ row = promptRow /\ col <= promptCol + cursor
                       /\ ~nudged => col = promptCol + cursor
                       /\ \A i \in 0 .. len - 1 : cells[promptRow][promptCol + i] = input[i]
                       /\ ~littered => BlankBehind(promptRow, promptCol + len)
<1>1. /\ len \in Nat /\ InputMax \in Nat /\ ScreenTypeOK
      /\ promptRow \in Nat /\ promptCol \in Nat
  BY CliAssumption DEF CliInv, CliTypeOK, ScreenTypeOK
<1>2. /\ rows \in Nat /\ cols \in Nat
  BY <1>1, WindowFacts DEF rows, cols, ScreenTypeOK
<1>3. PICK m \in len .. InputMax - 1 : \E d \in 0 .. m + 3 : Editing(m, d)
  <2>1. 1 .. Len(out) = {}
    OBVIOUS
  <2> QED
    BY <2>1 DEF CliInv, ScreenOK
<1>4. m \in Nat /\ len <= m
  BY <1>1
<1>5. PICK d \in 0 .. m + 3 : Editing(m, d)
  BY <1>3
<1>6. d = m + 3 /\ Written(m, d) = m /\ d >= m + 2 /\ ~(d \in 1 .. m + 1)
  BY <1>4, <1>5 DEF Editing, Redrawing, Written
<1>7. /\ spoilt => littered
      /\ ~spoilt => /\ promptRow < rows /\ promptCol + m < cols
                    /\ \A i \in 0 .. m - 1 :
                         cells[promptRow][promptCol + i] = IF i < len THEN input[i] ELSE Space
                    /\ row = promptRow /\ col <= promptCol + cursor
                    /\ ~nudged => col = promptCol + cursor
                    /\ ~littered => BlankBehind(promptRow, promptCol + m)
  BY <1>5, <1>6 DEF Editing
<1>8. ASSUME ~spoilt
      PROVE  /\ promptRow < rows /\ promptCol + len < cols
             /\ row = promptRow /\ col <= promptCol + cursor
             /\ ~nudged => col = promptCol + cursor
             /\ \A i \in 0 .. len - 1 : cells[promptRow][promptCol + i] = input[i]
  <2>1. promptCol + len < cols
    BY <1>1, <1>2, <1>4, <1>7, <1>8
  <2>2. ASSUME NEW i \in 0 .. len - 1 PROVE cells[promptRow][promptCol + i] = input[i]
    <3>1. i \in 0 .. m - 1 /\ i < len
      BY <1>1, <1>4
    <3> QED
      BY <1>7, <1>8, <3>1
  <2> QED
    BY <1>7, <1>8, <2>1, <2>2
<1>9. ASSUME ~spoilt, ~littered
      PROVE  BlankBehind(promptRow, promptCol + len)
  <2>1. ASSUME NEW i \in 0 .. rows - 1, NEW j \in 0 .. cols - 1,
               i > promptRow \/ (i = promptRow /\ j >= promptCol + len)
        PROVE  cells[i][j] = Space
    <3>1. CASE i > promptRow \/ (i = promptRow /\ j >= promptCol + m)
      BY <1>7, <1>9, <3>1 DEF BlankBehind
    <3>2. CASE i = promptRow /\ j < promptCol + m
      <4>1. j - promptCol \in 0 .. m - 1 /\ ~(j - promptCol < len) /\ promptCol + (j - promptCol) = j
        BY <1>1, <1>2, <1>4, <2>1, <3>2
      <4> QED
        BY <1>7, <1>9, <3>2, <4>1
    <3> QED
      BY <1>1, <1>2, <1>4, <2>1, <3>1, <3>2
  <2> QED
    BY <2>1 DEF BlankBehind
<1> QED
  BY <1>7, <1>8, <1>9

\* A key leaves the screen alone.
LEMMA KeyKeepsScreen ==
  ASSUME CliTypeOK, Key
  PROVE  /\ out = <<>>
         /\ UNCHANGED <<cells, row, col, window, promptRow, promptCol, spoilt, littered, nudged>>
         /\ rows' = rows /\ cols' = cols
         /\ ScreenTypeOK' /\ promptRow' \in 0 .. MaxRows - 1 /\ promptCol' \in 0 .. MaxCols - 1
         /\ spoilt' \in BOOLEAN /\ littered' \in BOOLEAN /\ nudged' \in BOOLEAN
         /\ \A r, c : BlankBehind(r, c) => BlankBehind(r, c)'
<1>1. /\ out = <<>>
      /\ UNCHANGED <<cells, row, col, window, promptRow, promptCol, spoilt, littered, nudged>>
      /\ rows' = rows /\ cols' = cols
  BY DEF Key, screenVars, termVars, rows, cols
<1>2. \A r, c : BlankBehind(r, c) => BlankBehind(r, c)'
  BY <1>1 DEF BlankBehind
<1>3. /\ ScreenTypeOK' /\ promptRow' \in 0 .. MaxRows - 1 /\ promptCol' \in 0 .. MaxCols - 1
      /\ spoilt' \in BOOLEAN /\ littered' \in BOOLEAN /\ nudged' \in BOOLEAN
  BY <1>1 DEF CliTypeOK, ScreenTypeOK
<1> QED
  BY <1>1, <1>2, <1>3

\* A new line is redrawn over the old one.
LEMMA SetLineKeeps ==
  ASSUME CliInv, Key, NEW a \in [InputCells -> Printable \union Junk \union {NUL, Space}],
         NEW n \in 0 .. InputMax - 1, NEW c \in 0 .. n,
         \A i \in 0 .. n - 1 : a[i] \in Printable \union {Space},
         SetLine(a, n, c), UNCHANGED history, pos' \in 0 .. Len(history)
  PROVE  CliInv'
<1>1. /\ len \in Nat /\ len <= InputMax - 1 /\ prevLen = len /\ InputMax \in Nat
      /\ n \in Nat /\ c \in Nat /\ CliTypeOK /\ LineOK
      /\ promptRow \in Nat /\ promptCol \in Nat
  <2>1. CliTypeOK /\ LineOK /\ InputMax \in Nat
    BY CliAssumption DEF CliInv
  <2>2. prevLen = len
    BY <2>1 DEF LineOK
  <2>3. len \in 0 .. InputMax - 1 /\ promptRow \in Nat /\ promptCol \in Nat
    BY <2>1 DEF CliTypeOK
  <2> QED
    BY <2>1, <2>2, <2>3
<1>2. PICK m \in Nat : m = IF n < prevLen THEN prevLen ELSE n
  BY <1>1
<1>3. m \in n .. InputMax - 1 /\ len <= m
  BY <1>1, <1>2
<1>4. /\ input' = a /\ len' = n /\ cursor' = c /\ prevLen' = n /\ out' = Redraw(a, n, c)
  BY DEF SetLine
<1>5. /\ out' \in Seq(Calls) /\ Len(out') = m + 3
      /\ \A i \in 1 .. m + 3 : out'[i] = LineCall(a, n, c, m, i)
  <2>1. \A i \in 0 .. n - 1 : a[i] \in Glyphs
    BY CliAssumption
  <2> QED
    <3> DEFINE r == Redraw(a, n, c)
    <3>1. prevLen \in Nat /\ n \in Nat /\ c \in Nat
      BY <1>1
    <3>2. IsRedraw(r, a, n, c, m)
      BY <1>2, <2>1, <3>1, RedrawIs
    <3> HIDE DEF r
    <3>3. out' = r
      BY <1>4 DEF r
    <3> QED
      BY <3>2, <3>3 DEF IsRedraw
<1>6. CliTypeOK'
  <2>1. ScreenTypeOK' /\ promptRow' \in 0 .. MaxRows - 1 /\ promptCol' \in 0 .. MaxCols - 1
        /\ spoilt' \in BOOLEAN /\ littered' \in BOOLEAN /\ nudged' \in BOOLEAN
    BY <1>1, KeyKeepsScreen
  <2>2. /\ history' \in Seq(Seq(Printable \union {Space})) /\ Len(history') <= HistoryMax
        /\ \A h \in 1 .. Len(history') : Len(history'[h]) < InputMax
        /\ pos' \in 0 .. Len(history')
    BY <1>1 DEF CliTypeOK
  <2> QED
    BY <1>4, <1>5, <2>1, <2>2 DEF CliTypeOK, ScreenTypeOK, InputCells
<1>7. LineOK'
  BY <1>4 DEF LineOK
<1>8. Redrawing(0, m, 0)'
  BY <1>4, <1>5 DEF Redrawing, Call, LineCall
<1>9. Editing(m, 0)'
  <2>1. /\ spoilt => littered
        /\ ~spoilt => promptRow < rows /\ promptCol + len < cols
        /\ ~spoilt /\ ~littered => BlankBehind(promptRow, promptCol + len)
    BY IdleScreen DEF Key
  <2>2. Written(m, 0) = 0 /\ ~(0 \in 1 .. m) /\ ~(0 >= m + 2)
    BY DEF Written
  <2>3. /\ UNCHANGED <<cells, row, col, window, promptRow, promptCol, spoilt, littered, nudged>>
        /\ rows' = rows /\ cols' = cols /\ rows \in Nat /\ cols \in Nat
    BY <1>1, KeyKeepsScreen, WindowFacts DEF CliTypeOK, rows, cols
  <2>4. ~spoilt /\ ~littered => BlankBehind(promptRow, promptCol + m)
    <3>1. \A j \in 0 .. cols - 1 : j >= promptCol + m => j >= promptCol + len
      BY <1>1, <1>3, <2>3
    <3> QED
      BY <2>1, <3>1 DEF BlankBehind
  <2>5. ~spoilt' /\ ~littered' => BlankBehind(promptRow, promptCol + m)'
    BY <2>3, <2>4 DEF BlankBehind
  <2>6. ~spoilt' => promptRow' < rows' /\ promptCol' + 0 < cols'
    BY <1>1, <2>1, <2>3
  <2>7. spoilt' => littered'
    BY <2>1, <2>3
  <2> QED
    BY <1>8, <2>2, <2>5, <2>6, <2>7 DEF Editing, Written
<1>10. ScreenOK'
  <2>1. m \in len' .. InputMax - 1 /\ 0 \in 0 .. m + 3
    BY <1>3, <1>4
  <2> QED
    BY <1>9, <2>1 DEF ScreenOK
<1> QED
  BY <1>6, <1>7, <1>10 DEF CliInv

\* The cursor moves within the line.
LEMMA MoveKeeps ==
  ASSUME CliInv, NEW c, Move(c)
  PROVE  CliInv'
<1>1. /\ len \in Nat /\ len <= InputMax - 1 /\ InputMax \in Nat /\ CliTypeOK /\ LineOK
      /\ promptRow \in Nat /\ promptCol \in Nat
  BY CliAssumption DEF CliInv, CliTypeOK, LineOK
<1>2. /\ Key /\ c \in 0 .. len /\ cursor' = c /\ out' = GoTo(c) \o Refreshed
      /\ UNCHANGED <<input, len, prevLen, history, pos>>
  BY DEF Move
<1>3. /\ out' \in Seq(Calls) /\ Len(out') = 2 /\ out'[1] = <<"goto", c>> /\ out'[2] = <<"refresh">>
  BY <1>1, <1>2 DEF GoTo, Refreshed, Calls
<1>4. /\ ScreenTypeOK' /\ promptRow' \in 0 .. MaxRows - 1 /\ promptCol' \in 0 .. MaxCols - 1
      /\ spoilt' \in BOOLEAN /\ littered' \in BOOLEAN /\ nudged' \in BOOLEAN
      /\ UNCHANGED <<cells, row, col, window, promptRow, promptCol, spoilt, littered, nudged>>
      /\ rows' = rows /\ cols' = cols
      /\ \A r, k : BlankBehind(r, k) => BlankBehind(r, k)'
  BY <1>1, <1>2, KeyKeepsScreen
<1>5. CliTypeOK'
  BY <1>1, <1>2, <1>3, <1>4 DEF CliTypeOK, ScreenTypeOK, InputCells
<1>6. LineOK'
  BY <1>1, <1>2 DEF LineOK
<1>7. PICK m \in Nat : m = len
  BY <1>1
<1>8. Redrawing(0, m, m + 1)'
  <2>1. \A i \in 1 .. m + 3 - (m + 1) : i = 1 \/ i = 2
    OBVIOUS
  <2>2. Call(m, m + 1 + 1)' = <<"goto", c>> /\ Call(m, m + 1 + 2)' = <<"refresh">>
    BY <1>2 DEF Call, LineCall
  <2>3. Len(out') = 0 + m + 3 - (m + 1)
    BY <1>3
  <2>4. \A i \in 1 .. m + 3 - (m + 1) : out'[0 + i] = Call(m, m + 1 + i)'
    BY <1>3, <2>1, <2>2
  <2> QED
    BY <2>3, <2>4 DEF Redrawing
<1>9. Editing(m, m + 1)'
  <2>1. /\ spoilt => littered
        /\ ~spoilt => /\ promptRow < rows /\ promptCol + m < cols
                      /\ \A i \in 0 .. m - 1 : cells[promptRow][promptCol + i] = input[i]
                      /\ ~littered => BlankBehind(promptRow, promptCol + m)
    BY <1>2, <1>7, IdleScreen DEF Key
  <2>2. Written(m, m + 1) = m /\ ~(m + 1 \in 1 .. m) /\ ~(m + 1 >= m + 2)
    BY DEF Written
  <2>3. ~spoilt' /\ ~littered' => BlankBehind(promptRow, promptCol + m)'
    BY <1>4, <2>1 DEF BlankBehind
  <2>4. ~spoilt' => /\ promptRow' < rows' /\ promptCol' + m < cols'
                    /\ \A i \in 0 .. m - 1 : cells'[promptRow'][promptCol' + i] =
                                               IF i < len' THEN input'[i] ELSE Space
    BY <1>2, <1>4, <1>7, <2>1
  <2>5. spoilt' => littered'
    BY <1>4, <2>1
  <2> QED
    BY <1>8, <2>2, <2>3, <2>4, <2>5 DEF Editing
<1>10. ScreenOK'
  <2>1. m \in len' .. InputMax - 1 /\ m + 1 \in 0 .. m + 3
    BY <1>1, <1>2, <1>7
  <2> QED
    BY <1>9, <2>1 DEF ScreenOK
<1> QED
  BY <1>5, <1>6, <1>10 DEF CliInv

\* cli_run starts with its first prompt.
LEMMA CliInitKeeps ==
  ASSUME CliInit
  PROVE  CliInv
<1>1. /\ len = 0 /\ cursor = 0 /\ prevLen = 0 /\ promptRow = 0 /\ promptCol = 0
      /\ history = <<>> /\ pos = 0 /\ out = NewPrompt /\ littered \in BOOLEAN /\ spoilt \in BOOLEAN
      /\ nudged \in BOOLEAN
      /\ cells = [r \in 0 .. MaxRows - 1 |-> [c \in 0 .. MaxCols - 1 |-> Space]]
      /\ row = 0 /\ col = 0 /\ window \in WindowSizes
  BY DEF CliInit, TermInit
<1>2. /\ rows \in Nat /\ 0 < rows /\ rows <= MaxRows /\ MaxRows \in Nat
      /\ cols \in Nat /\ 0 < cols /\ cols <= MaxCols /\ MaxCols \in Nat
      /\ InputMax \in Nat /\ InputMax > 0 /\ HistoryMax \in Nat
  BY <1>1, WindowFacts, CliAssumption DEF rows, cols
<1>3. input \in [InputCells -> Printable \union Junk \union {NUL, Space}]
  <2>1. PICK j \in [InputCells -> Junk] : input = [j EXCEPT ![0] = NUL]
    BY DEF CliInit
  <2> QED
    BY <2>1
<1>4. CliTypeOK
  <2>1. history \in Seq(Seq(Printable \union {Space})) /\ Len(history) = 0
    BY <1>1, EmptySeq
  <2>2. out \in Seq(Calls)
    BY <1>1, NewPromptIs
  <2>3. cells \in [0 .. MaxRows - 1 -> [0 .. MaxCols - 1 -> Glyphs]]
    <3>1. Space \in Glyphs
      BY CliAssumption
    <3> QED
      BY <1>1, <3>1
  <2>4. /\ len \in 0 .. InputMax - 1 /\ cursor \in 0 .. len /\ prevLen \in 0 .. InputMax - 1
        /\ row \in 0 .. MaxRows - 1 /\ col \in 0 .. MaxCols - 1
        /\ promptRow \in 0 .. MaxRows - 1 /\ promptCol \in 0 .. MaxCols - 1
    BY <1>1, <1>2
  <2>5. /\ Len(history) <= HistoryMax /\ pos \in 0 .. Len(history)
        /\ \A h \in 1 .. Len(history) : Len(history[h]) < InputMax
    BY <1>1, <1>2, <2>1
  <2> QED
    BY <1>1, <1>3, <2>1, <2>2, <2>3, <2>4, <2>5 DEF CliTypeOK
<1>5. LineOK
  BY <1>1 DEF LineOK
<1>6. Printing(3)
  <2>1. /\ out[3] = <<"prompt">> /\ Len(out) = 3
        /\ out[1] \in PrintCalls /\ out[2] \in PrintCalls
        /\ out[1][1] \in {"put", "refresh", "clear", "pause"}
        /\ out[2][1] \in {"put", "refresh", "clear", "pause"}
    BY <1>1, NewPromptIs, PrintCallFacts
  <2>2. InWindow
    BY <1>1, <1>2 DEF InWindow
  <2>3. ASSUME NEW i \in 0 .. rows - 1, NEW j \in 0 .. cols - 1
        PROVE  cells[i][j] = Space
    <3>1. i \in 0 .. MaxRows - 1 /\ j \in 0 .. MaxCols - 1
      BY <1>2
    <3> QED
      BY <1>1, <3>1
  <2>4. \A r, c : BlankBehind(r, c)
    BY <2>3 DEF BlankBehind
  <2>5. \A i \in 1 .. 3 - 1 : i = 1 \/ i = 2
    OBVIOUS
  <2> QED
    BY <1>1, <2>1, <2>2, <2>4, <2>5 DEF Printing
<1>7. ScreenOK
  <2>1. 3 \in 1 .. Len(out)
    BY <1>1, NewPromptIs
  <2> QED
    BY <1>6, <2>1 DEF ScreenOK
<1> QED
  BY <1>4, <1>5, <1>7 DEF CliInv

\* The window changes its size at any time.
LEMMA ResizeKeeps ==
  ASSUME CliInv, ResizeWindow
  PROVE  CliInv'
<1>1. /\ UNCHANGED <<input, len, cursor, history, pos, prevLen, out, promptRow, promptCol>>
      /\ UNCHANGED <<cells, row, col>> /\ window' \in WindowSizes
      /\ spoilt' = TRUE /\ littered' = TRUE /\ nudged' = nudged
  BY DEF ResizeWindow, Resize, lineVars
<1>2. CliTypeOK'
  BY <1>1 DEF CliInv, CliTypeOK, InputCells
<1>3. LineOK'
  BY <1>1 DEF CliInv, LineOK
<1>4. \A q, m, d : Redrawing(q, m, d) => Redrawing(q, m, d)'
  BY <1>1 DEF Redrawing, Call, LineCall
<1>5. ASSUME NEW q \in 1 .. Len(out), Printing(q)
      PROVE  ScreenOK'
  <2>1. \/ Len(out') = q /\ len' = 0
        \/ cursor' = len' /\ Redrawing(q, len, 0)'
    <3>1. CASE Len(out) = q /\ len = 0
      BY <1>1, <3>1
    <3>2. CASE cursor = len /\ Redrawing(q, len, 0)
      <4>1. PICK m : m = len
        OBVIOUS
      <4>2. Redrawing(q, m, 0)'
        BY <1>4, <3>2, <4>1
      <4>3. m = len'
        BY <1>1, <4>1
      <4> QED
        BY <1>1, <3>2, <4>2, <4>3 DEF Redrawing
    <3> QED
      BY <1>5, <3>1, <3>2 DEF Printing
  <2>2. /\ out'[q] = <<"prompt">>
        /\ \A i \in 1 .. q - 1 : out'[i][1] \in {"put", "refresh", "clear", "pause"}
    BY <1>1, <1>5 DEF Printing
  <2>3. q \in 1 .. Len(out')
    BY <1>1
  <2>4. Printing(q)'
    BY <1>1, <2>1, <2>2 DEF Printing
  <2> QED
    BY <2>3, <2>4 DEF ScreenOK
<1>6. ASSUME NEW m \in len .. InputMax - 1, NEW d \in 0 .. m + 3, Editing(m, d)
      PROVE  ScreenOK'
  <2>1. Editing(m, d)'
    BY <1>1, <1>4, <1>6 DEF Editing
  <2>2. m \in len' .. InputMax - 1
    BY <1>1
  <2> QED
    BY <2>1, <2>2 DEF ScreenOK
<1>7. ScreenOK'
  BY <1>5, <1>6 DEF CliInv, ScreenOK
<1> QED
  BY <1>2, <1>3, <1>7 DEF CliInv

\* A redraw by another task may move the cursor.
LEMMA OthersKeeps ==
  ASSUME CliInv, OthersRefresh
  PROVE  CliInv'
<1>1. /\ UNCHANGED <<input, len, cursor, history, pos, prevLen, out, promptRow, promptCol>>
      /\ UNCHANGED <<cells, row, window, spoilt>> /\ rows' = rows /\ cols' = cols
  BY DEF OthersRefresh, ClampByOther, lineVars, rows, cols
<1>2. nudged' = (nudged \/ col' # col) /\ littered' = (littered \/ (out # <<>> /\ col' # col))
  BY DEF OthersRefresh
<1>3. nudged' \in BOOLEAN /\ littered' \in BOOLEAN
  BY <1>2 DEF CliInv, CliTypeOK
<1>4. CliTypeOK /\ col \in 0 .. MaxCols - 1 /\ MaxCols \in Nat /\ out \in Seq(Calls)
  BY TerminalAssumption DEF CliInv, CliTypeOK
<1>5. col' \in 0 .. MaxCols - 1 /\ col' <= col
  <2>1. PICK w \in WindowSizes : col' = Lesser(col, w[2] - 1)
    BY DEF OthersRefresh, ClampByOther
  <2> QED
    BY <1>4, <2>1, WindowFacts DEF Lesser
<1>6. CliTypeOK'
  BY <1>1, <1>3, <1>4, <1>5 DEF CliTypeOK, InputCells
<1>7. LineOK'
  BY <1>1 DEF CliInv, LineOK
<1>8. /\ \A q, m, d : Redrawing(q, m, d)' <=> Redrawing(q, m, d)
      /\ \A r, c : BlankBehind(r, c)' <=> BlankBehind(r, c)
  BY <1>1 DEF Redrawing, Call, LineCall, BlankBehind
<1>9. ASSUME NEW q \in 1 .. Len(out), Printing(q)
      PROVE  ScreenOK'
  <2>1. out # <<>>
    BY <1>4, <1>9, EmptySeq
  <2>2. ~littered' => ~littered /\ col' = col
    BY <1>2, <2>1, Zenon
  <2>3. /\ out[q] = <<"prompt">>
        /\ \A i \in 1 .. q - 1 : out[i][1] \in {"put", "refresh", "clear", "pause"}
        /\ \/ Len(out) = q /\ len = 0
           \/ cursor = len /\ Redrawing(q, len, 0)
        /\ ~littered => /\ InWindow
                        /\ BlankBehind(row, IF out[1] = <<"put", Newline>> THEN cols ELSE col)
    BY <1>9 DEF Printing
  <2>4. ~littered' => /\ InWindow'
                      /\ BlankBehind(row, IF out[1] = <<"put", Newline>> THEN cols ELSE col)'
    BY <1>1, <2>2, <2>3 DEF InWindow, BlankBehind
  <2>5. \/ Len(out') = q /\ len' = 0
        \/ cursor' = len' /\ Redrawing(q, len, 0)'
    BY <1>1, <2>3 DEF Redrawing, Call, LineCall
  <2>6. Printing(q)'
    BY <1>1, <2>3, <2>4, <2>5 DEF Printing
  <2> QED
    BY <1>1, <2>6 DEF ScreenOK
<1>10. ASSUME NEW m \in len .. InputMax - 1, NEW d \in 0 .. m + 3, Editing(m, d)
       PROVE  ScreenOK'
  <2>1. len \in Nat /\ m \in Nat /\ d \in Nat /\ promptCol \in Nat /\ cursor \in Nat
        /\ col \in Nat /\ col' \in Nat /\ promptCol' + cursor' = promptCol + cursor
    BY <1>1, <1>4, <1>5, CliAssumption DEF CliTypeOK
  <2>2. out = <<>> /\ d = m + 3
    <3>1. Len(out) = m + 3 - d /\ \A i \in 1 .. m + 3 - d : out[0 + i] = Call(m, d + i)
      BY <2>1, <1>10 DEF Editing, Redrawing
    <3>2. CASE out = <<>>
      BY <2>1, <3>1, <3>2
    <3>3. CASE out # <<>>
      <4>1. Head(out) = <<"pause">> /\ Len(out) \in Nat /\ Len(out) > 0 /\ Head(out) = out[1]
        BY <1>4, <3>3, EmptySeq DEF OthersRefresh
      <4>2. out[0 + 1] = Call(m, d + 1)
        BY <2>1, <3>1, <4>1
      <4>3. Call(m, d + 1)[1] \in {"goto", "put", "refresh"}
        BY DEF Call, LineCall
      <4>4. out[0 + 1] = <<"pause">>
        BY <4>1
      <4>5. <<"pause">>[1] \in {"goto", "put", "refresh"}
        BY <4>2, <4>3, <4>4
      <4> QED
        BY <4>5
    <3> QED
      BY <3>2, <3>3
  <2>3. littered' = littered /\ (nudged' <=> nudged \/ col' # col)
    BY <1>2, <1>4, <2>2 DEF CliTypeOK
  <2>4. Written(m, d) = m /\ ~(d \in 1 .. m) /\ ~(d \in 1 .. m + 1) /\ d >= m + 2 /\ d # m + 2
    BY <2>1, <2>2 DEF Written
  <2>5. Editing(m, d)'
    <3>1. /\ Redrawing(0, m, d)
          /\ spoilt => littered
          /\ ~spoilt =>
               /\ promptRow < rows /\ promptCol + m < cols
               /\ \A i \in 0 .. m - 1 :
                    cells[promptRow][promptCol + i] = IF i < len THEN input[i] ELSE Space
               /\ row = promptRow /\ col <= promptCol + cursor
               /\ ~nudged => col = promptCol + cursor
               /\ ~littered => BlankBehind(promptRow, promptCol + m)
      BY <1>10, <2>4 DEF Editing
    <3>2. ~spoilt => /\ col' <= promptCol + cursor
                     /\ ~nudged' => col' = promptCol + cursor
      BY <1>5, <2>1, <2>3, <3>1
    <3>3. Redrawing(0, m, d)'
      BY <1>8, <3>1
    <3>4. ~spoilt' =>
               /\ promptRow' < rows' /\ promptCol' + m < cols'
               /\ \A i \in 0 .. m - 1 :
                    cells'[promptRow'][promptCol' + i] = IF i < len' THEN input'[i] ELSE Space
               /\ row' = promptRow' /\ col' <= promptCol' + cursor'
               /\ ~nudged' => col' = promptCol' + cursor'
               /\ ~littered' => BlankBehind(promptRow, promptCol + m)'
      BY <1>1, <2>3, <3>1, <3>2 DEF BlankBehind
    <3>5. spoilt' => littered'
      BY <1>1, <2>3, <3>1
    <3> QED
      BY <2>4, <3>3, <3>4, <3>5 DEF Editing
  <2> QED
    BY <1>1, <2>5 DEF ScreenOK
<1>11. ScreenOK'
  BY <1>9, <1>10 DEF CliInv, ScreenOK
<1> QED
  BY <1>6, <1>7, <1>11 DEF CliInv

\* KEY_DELETE and backspace.
LEMMA DeleteKeeps ==
  ASSUME CliInv, NEW i, Delete(i)
  PROVE  CliInv'
<1>1. /\ len \in Nat /\ len <= InputMax - 1 /\ InputMax \in Nat
      /\ input \in [InputCells -> Printable \union Junk \union {NUL, Space}]
      /\ \A k \in 0 .. len - 1 : input[k] \in Printable \union {Space}
      /\ pos \in 0 .. Len(history)
  BY CliAssumption DEF CliInv, CliTypeOK, LineOK
<1>2. /\ Key /\ i \in 0 .. len - 1 /\ SetLine(Without(i), len - 1, i)
      /\ UNCHANGED <<history, pos>>
  BY DEF Delete
<1>3. Without(i) \in [InputCells -> Printable \union Junk \union {NUL, Space}]
  <2>1. \A k \in InputCells : k + 1 < len => k + 1 \in InputCells
    BY <1>1 DEF InputCells
  <2> QED
    BY <1>1, <2>1 DEF Without
<1>4. ASSUME NEW k \in 0 .. (len - 1) - 1
      PROVE  Without(i)[k] \in Printable \union {Space}
  <2>1. k \in InputCells /\ k \in 0 .. len - 1 /\ k + 1 \in 0 .. len - 1
    BY <1>1 DEF InputCells
  <2> QED
    BY <1>1, <2>1 DEF Without
<1>5. len - 1 \in 0 .. InputMax - 1 /\ i \in 0 .. len - 1
  BY <1>1, <1>2
<1>6. PICK n \in 0 .. InputMax - 1, w \in [InputCells -> Printable \union Junk \union {NUL, Space}] :
        n = len - 1 /\ w = Without(i)
  BY <1>3, <1>5
<1>7. i \in 0 .. n /\ SetLine(w, n, i) /\ \A k \in 0 .. n - 1 : w[k] \in Printable \union {Space}
  BY <1>2, <1>4, <1>5, <1>6
<1> QED
  BY <1>1, <1>2, <1>7, SetLineKeeps

\* A printable character.
LEMMA InsertKeeps ==
  ASSUME CliInv, NEW c \in Printable, Insert(c)
  PROVE  CliInv'
<1>1. /\ len \in Nat /\ len <= InputMax - 1 /\ InputMax \in Nat /\ cursor \in 0 .. len
      /\ input \in [InputCells -> Printable \union Junk \union {NUL, Space}]
      /\ \A k \in 0 .. len - 1 : input[k] \in Printable \union {Space}
      /\ pos \in 0 .. Len(history)
  BY CliAssumption DEF CliInv, CliTypeOK, LineOK
<1>2. PICK w : w = [k \in InputCells |-> IF k = cursor THEN c
                                         ELSE IF cursor < k /\ k <= len THEN input[k - 1] ELSE input[k]]
  OBVIOUS
<1>3. /\ Key /\ len < InputMax - 1 /\ SetLine(w, len + 1, cursor + 1) /\ UNCHANGED <<history, pos>>
  BY <1>2 DEF Insert
<1>4. w \in [InputCells -> Printable \union Junk \union {NUL, Space}]
  <2>1. \A k \in InputCells : cursor < k => k - 1 \in InputCells
    BY <1>1 DEF InputCells
  <2> QED
    BY <1>1, <1>2, <2>1
<1>5. ASSUME NEW k \in 0 .. len
      PROVE  w[k] \in Printable \union {Space}
  <2>1. k \in InputCells
    BY <1>1, <1>3 DEF InputCells
  <2>2. CASE k = cursor
    BY <1>2, <2>1, <2>2
  <2>3. CASE k < cursor
    <3>1. k \in 0 .. len - 1 /\ ~(k = cursor) /\ ~(cursor < k)
      BY <1>1, <2>3
    <3> QED
      BY <1>1, <1>2, <2>1, <3>1
  <2>4. CASE cursor < k
    <3>1. k - 1 \in 0 .. len - 1 /\ ~(k = cursor) /\ k <= len
      BY <1>1, <2>4
    <3> QED
      BY <1>1, <1>2, <2>1, <2>4, <3>1
  <2> QED
    BY <1>1, <2>2, <2>3, <2>4
<1>6. PICK n \in 0 .. InputMax - 1, k \in 0 .. len + 1 : n = len + 1 /\ k = cursor + 1
  BY <1>1, <1>3
<1>7. k \in 0 .. n /\ SetLine(w, n, k) /\ \A j \in 0 .. n - 1 : w[j] \in Printable \union {Space}
  BY <1>1, <1>3, <1>5, <1>6
<1> QED
  BY <1>1, <1>3, <1>4, <1>7, SetLineKeeps

-----------------------------------------------------------------------------
(* Strings in the array.                                                   *)

\* The string that starts at an array ends before the first NUL.
LEMMA StringEnds ==
  ASSUME NEW a
  PROVE  /\ StringLen(a) \in 0 .. InputMax
         /\ \A i \in 0 .. StringLen(a) - 1 : a[i] # NUL
         /\ StringLen(a) < InputMax => a[StringLen(a)] = NUL
<1> DEFINE S == {i \in 0 .. InputMax - 1 : a[i] = NUL}
           Ends(n) == /\ \A i \in 0 .. n - 1 : a[i] # NUL
                      /\ n < InputMax => a[n] = NUL
<1>1. InputMax \in Nat
  BY CliAssumption
<1>2. \E n \in 0 .. InputMax : Ends(n)
  <2>1. CASE S = {}
    <3>1. Ends(InputMax)
      BY <1>1, <2>1
    <3> QED
      BY <1>1, <3>1
  <2>2. CASE S # {}
    <3>1. S \in SUBSET Nat
      BY <1>1
    <3> HIDE DEF S
    <3>2. Min(S) \in S /\ \A y \in S : Min(S) <= y
      BY <2>2, <3>1, LeastElement
    <3>3. PICK n \in S : \A y \in S : n <= y
      BY <3>2
    <3> USE DEF S
    <3>4. n \in 0 .. InputMax - 1 /\ a[n] = NUL
      OBVIOUS
    <3>5. ASSUME NEW i \in 0 .. n - 1 PROVE a[i] # NUL
      <4>1. i \in 0 .. InputMax - 1 /\ ~(n <= i)
        BY <1>1, <3>4
      <4> QED
        BY <3>3, <4>1
    <3> QED
      BY <1>1, <3>4, <3>5
  <2> QED
    BY <2>1, <2>2
<1>3. StringLen(a) = CHOOSE n \in 0 .. InputMax : Ends(n)
  BY DEF StringLen
<1>4. StringLen(a) \in 0 .. InputMax /\ Ends(StringLen(a))
  <2> HIDE DEF Ends
  <2> QED
    BY <1>2, <1>3
<1> QED
  BY <1>4

\* A string that was copied into the array is read back.
LEMMA CopyIsRead ==
  ASSUME CliTypeOK, NEW s \in Seq(Printable \union {Space}), Len(s) < InputMax
  PROVE  /\ CopyStr(input, s) \in [InputCells -> Printable \union Junk \union {NUL, Space}]
         /\ \A i \in 0 .. Len(s) - 1 : CopyStr(input, s)[i] = s[i + 1]
         /\ \A i \in 0 .. Len(s) - 1 : CopyStr(input, s)[i] \in Printable \union {Space}
         /\ StringLen(CopyStr(input, s)) = Len(s)
<1> DEFINE a == CopyStr(input, s)
<1>1. InputMax \in Nat /\ Len(s) \in Nat
      /\ input \in [InputCells -> Printable \union Junk \union {NUL, Space}]
  BY CliAssumption, LenProperties DEF CliTypeOK
<1>2. \A i \in 0 .. Len(s) - 1 : s[i + 1] \in Printable \union {Space}
  <2>1. \A i \in 0 .. Len(s) - 1 : i + 1 \in 1 .. Len(s)
    BY <1>1
  <2> QED
    BY <2>1, ElementOfSeq
<1>3. a \in [InputCells -> Printable \union Junk \union {NUL, Space}]
  <2>1. \A i \in InputCells : i < Len(s) => i \in 0 .. Len(s) - 1
    BY <1>1 DEF InputCells
  <2> QED
    BY <1>1, <1>2, <2>1 DEF CopyStr
<1>4. /\ \A i \in 0 .. Len(s) - 1 : a[i] = s[i + 1]
      /\ a[Len(s)] = NUL
  <2>1. \A i \in 0 .. Len(s) : i \in InputCells
    BY <1>1 DEF InputCells
  <2> QED
    BY <1>1, <2>1 DEF CopyStr
<1>5. NUL \notin Printable \union {Space}
  BY CliAssumption DEF NUL, Space
<1> HIDE DEF a
<1>6. StringLen(a) = Len(s)
  <2>1. /\ StringLen(a) \in 0 .. InputMax
        /\ \A i \in 0 .. StringLen(a) - 1 : a[i] # NUL
        /\ StringLen(a) < InputMax => a[StringLen(a)] = NUL
    BY StringEnds
  <2> DEFINE n == StringLen(a)
  <2> HIDE DEF n
  <2>2. n \in 0 .. InputMax /\ (\A i \in 0 .. n - 1 : a[i] # NUL) /\ (n < InputMax => a[n] = NUL)
    BY <2>1 DEF n
  <2>3. ~(Len(s) < n)
    BY <1>1, <1>4, <2>2
  <2>4. ~(n < Len(s))
    <3> SUFFICES ASSUME n < Len(s) PROVE FALSE
      OBVIOUS
    <3>1. n \in 0 .. Len(s) - 1 /\ n < InputMax
      BY <1>1, <2>2
    <3> QED
      BY <1>2, <1>4, <1>5, <2>2, <3>1
  <2>5. n = Len(s)
    BY <1>1, <2>2, <2>3, <2>4
  <2> QED
    BY <2>5 DEF n
<1> QED
  BY <1>2, <1>3, <1>4, <1>6 DEF a

\* A string becomes the line.
LEMMA CopyKeeps ==
  ASSUME CliInv, Key, NEW s \in Seq(Printable \union {Space}), Len(s) < InputMax,
         SetLine(CopyStr(input, s), StringLen(CopyStr(input, s)), StringLen(CopyStr(input, s))),
         UNCHANGED history, pos' \in 0 .. Len(history)
  PROVE  CliInv'
<1> DEFINE w == CopyStr(input, s)
<1>1. /\ w \in [InputCells -> Printable \union Junk \union {NUL, Space}]
      /\ \A i \in 0 .. Len(s) - 1 : w[i] \in Printable \union {Space}
      /\ StringLen(w) = Len(s)
  BY CopyIsRead DEF CliInv
<1>2. InputMax \in Nat /\ Len(s) \in Nat
  BY CliAssumption, LenProperties
<1>3. SetLine(w, StringLen(w), StringLen(w))
  OBVIOUS
<1> HIDE DEF w
<1>4. Len(s) \in 0 .. InputMax - 1 /\ Len(s) \in 0 .. Len(s) /\ SetLine(w, Len(s), Len(s))
  BY <1>1, <1>2, <1>3
<1> QED
  BY <1>1, <1>4, SetLineKeeps

\* KEY_UP recalls an earlier command.
LEMMA UpKeeps ==
  ASSUME CliInv, Up
  PROVE  CliInv'
<1>1. /\ history \in Seq(Seq(Printable \union {Space}))
      /\ \A h \in 1 .. Len(history) : Len(history[h]) < InputMax
      /\ pos \in 0 .. Len(history)
  BY DEF CliInv, CliTypeOK
<1>2. /\ Key /\ history # <<>> /\ UNCHANGED history
      /\ pos' = IF pos = 0 THEN Len(history) ELSE IF pos > 1 THEN pos - 1 ELSE pos
      /\ SetLine(CopyStr(input, history[pos']), StringLen(CopyStr(input, history[pos'])),
                 StringLen(CopyStr(input, history[pos'])))
  BY DEF Up
<1>3. Len(history) \in Nat /\ Len(history) > 0
  BY <1>1, <1>2, EmptySeq
<1>4. PICK h \in 1 .. Len(history) : h = pos'
  BY <1>1, <1>2, <1>3
<1>5. history[h] \in Seq(Printable \union {Space}) /\ Len(history[h]) < InputMax
  BY <1>1, ElementOfSeq
<1>6. PICK s \in Seq(Printable \union {Space}) : s = history[h]
  BY <1>5
<1>7. /\ Len(s) < InputMax /\ pos' \in 0 .. Len(history)
      /\ SetLine(CopyStr(input, s), StringLen(CopyStr(input, s)), StringLen(CopyStr(input, s)))
  BY <1>2, <1>4, <1>5, <1>6
<1> QED
  BY <1>2, <1>7, CopyKeeps

\* KEY_DOWN recalls a later one, or an empty line.
LEMMA DownKeeps ==
  ASSUME CliInv, Down
  PROVE  CliInv'
<1>1. /\ history \in Seq(Seq(Printable \union {Space}))
      /\ \A h \in 1 .. Len(history) : Len(history[h]) < InputMax
      /\ pos \in 0 .. Len(history) /\ InputMax \in Nat /\ InputMax > 0
  BY CliAssumption DEF CliInv, CliTypeOK
<1>2. /\ Key /\ pos # 0 /\ UNCHANGED history
      /\ pos' = IF pos < Len(history) THEN pos + 1 ELSE 0
  BY DEF Down
<1>3. Len(history) \in Nat
  BY <1>1, LenProperties
<1>4. PICK s : s = IF pos' = 0 THEN <<>> ELSE history[pos']
  OBVIOUS
<1>5. s \in Seq(Printable \union {Space}) /\ Len(s) < InputMax
  <2>1. CASE pos' = 0
    BY <1>1, <1>4, <2>1, EmptySeq
  <2>2. CASE pos' # 0
    <3>1. PICK h \in 1 .. Len(history) : h = pos'
      BY <1>1, <1>2, <1>3, <2>2
    <3> QED
      BY <1>1, <1>4, <2>2, <3>1, ElementOfSeq
  <2> QED
    BY <2>1, <2>2
<1>6. SetLine(CopyStr(input, s), StringLen(CopyStr(input, s)), StringLen(CopyStr(input, s)))
  BY <1>4 DEF Down
<1>7. pos' \in 0 .. Len(history)
  BY <1>1, <1>2, <1>3
<1> QED
  BY <1>2, <1>5, <1>6, <1>7, CopyKeeps

-----------------------------------------------------------------------------
(* Output, and a new prompt.                                               *)

\* Output that begins with a newline, and a prompt behind it.
LEMMA PromptAfter ==
  ASSUME NEW pr \in Seq(PrintCalls), Len(pr) > 0, pr[1] = <<"put", Newline>>
  PROVE  /\ pr \o NewPrompt \in Seq(Calls) /\ Len(pr \o NewPrompt) = Len(pr) + 3
         /\ (pr \o NewPrompt)[1] = <<"put", Newline>>
         /\ (pr \o NewPrompt)[Len(pr) + 3] = <<"prompt">>
         /\ \A i \in 1 .. Len(pr) + 2 : (pr \o NewPrompt)[i][1] \in {"put", "refresh", "clear", "pause"}
<1> DEFINE p == pr \o NewPrompt
           k == Len(pr)
<1>1. pr \in Seq(Calls) /\ NewPrompt \in Seq(Calls)
  BY PrintCallFacts, NewPromptIs
<1>2. /\ p \in Seq(Calls) /\ Len(p) = k + Len(NewPrompt)
      /\ \A i \in 1 .. k : p[i] = pr[i]
      /\ \A i \in 1 .. Len(NewPrompt) : p[k + i] = NewPrompt[i]
  BY <1>1, Joined
<1>3. /\ Len(NewPrompt) = 3 /\ NewPrompt[1] \in PrintCalls /\ NewPrompt[2] \in PrintCalls
      /\ NewPrompt[3] = <<"prompt">>
  BY NewPromptIs
<1>4. k \in Nat /\ 0 < k
  BY LenProperties
<1>5. \A i \in 1 .. k : pr[i] \in PrintCalls
  BY ElementOfSeq
<1> HIDE DEF p, k
<1>6. /\ Len(p) = k + 3 /\ p[k + 1] = NewPrompt[1] /\ p[k + 2] = NewPrompt[2]
      /\ p[k + 3] = NewPrompt[3] /\ p[1] = pr[1]
  <2>1. 1 \in 1 .. 3 /\ 2 \in 1 .. 3 /\ 3 \in 1 .. 3 /\ 1 \in 1 .. k
    BY <1>4
  <2> QED
    BY <1>2, <1>3, <2>1
<1>7. ASSUME NEW i \in 1 .. k + 2
      PROVE  p[i][1] \in {"put", "refresh", "clear", "pause"}
  <2>1. i \in 1 .. k \/ i = k + 1 \/ i = k + 2
    BY <1>4
  <2>2. p[i] \in PrintCalls
    BY <1>2, <1>3, <1>5, <1>6, <2>1
  <2> QED
    BY <2>2, PrintCallFacts
<1> QED
  BY <1>2, <1>3, <1>6, <1>7 DEF p, k

\* The newline that ends the line goes to a screen that is blank below it.
LEMMA KeyPrints ==
  ASSUME CliInv, Key
  PROVE  ~littered' => InWindow' /\ BlankBehind(row, cols)'
<1>1. SUFFICES ASSUME ~littered' PROVE InWindow' /\ BlankBehind(row, cols)'
  OBVIOUS
<1>2. CliTypeOK /\ out = <<>> /\ len \in Nat /\ cursor \in Nat /\ cursor <= len /\ promptCol \in Nat
      /\ col \in Nat
  BY DEF CliInv, CliTypeOK, Key
<1>3. /\ UNCHANGED <<cells, row, col, window, promptRow, promptCol, spoilt, littered, nudged>>
      /\ rows' = rows /\ cols' = cols /\ rows \in Nat /\ cols \in Nat
  BY <1>2, KeyKeepsScreen, WindowFacts DEF CliTypeOK, rows, cols
<1>4. ~littered /\ ~spoilt
  BY <1>1, <1>2, <1>3, IdleScreen
<1>5. /\ promptRow < rows /\ promptCol + len < cols /\ row = promptRow /\ col <= promptCol + cursor
      /\ BlankBehind(promptRow, promptCol + len)
  BY <1>2, <1>4, IdleScreen
<1>6. InWindow'
  BY <1>2, <1>3, <1>5 DEF InWindow
<1>7. ASSUME NEW i \in 0 .. rows - 1, NEW j \in 0 .. cols - 1, i > row \/ (i = row /\ j >= cols)
      PROVE  cells[i][j] = Space
  <2>1. i > promptRow
    BY <1>3, <1>5, <1>7
  <2> QED
    BY <1>5, <2>1 DEF BlankBehind
<1>8. BlankBehind(row, cols)'
  BY <1>3, <1>7 DEF BlankBehind
<1> QED
  BY <1>6, <1>8

\* Output and a prompt without a line behind it.
LEMMA PrintKeeps ==
  ASSUME CliInv, Key, NEW pr \in Seq(PrintCalls), Len(pr) > 0, pr[1] = <<"put", Newline>>,
         out' = pr \o NewPrompt, len' = 0
  PROVE  out' \in Seq(Calls) /\ ScreenOK'
<1>1. PICK q \in Nat : q = Len(pr) + 3
  BY LenProperties
<1>2. /\ out' \in Seq(Calls) /\ Len(out') = q /\ out'[1] = <<"put", Newline>>
      /\ out'[q] = <<"prompt">>
      /\ \A i \in 1 .. q - 1 : out'[i][1] \in {"put", "refresh", "clear", "pause"}
  <2>1. 1 .. q - 1 = 1 .. Len(pr) + 2
    BY <1>1, LenProperties
  <2>2. /\ out' \in Seq(Calls) /\ Len(out') = Len(pr) + 3
        /\ out'[1] = <<"put", Newline>>
        /\ out'[Len(pr) + 3] = <<"prompt">>
        /\ \A i \in 1 .. Len(pr) + 2 : out'[i][1] \in {"put", "refresh", "clear", "pause"}
    BY PromptAfter, Zenon
  <2> QED
    BY <1>1, <2>1, <2>2, Zenon
<1>3. q \in 1 .. Len(out')
  BY <1>1, <1>2, LenProperties
<1>4. Printing(q)'
  BY <1>2, KeyPrints DEF Printing
<1> QED
  BY <1>2, <1>3, <1>4 DEF ScreenOK

\* Output, a prompt, and the line again behind it.
LEMMA ListKeeps ==
  ASSUME CliInv, Key, NEW pr \in Seq(PrintCalls), Len(pr) > 0, pr[1] = <<"put", Newline>>,
         out' = (pr \o NewPrompt) \o Redraw(input, len, len), cursor = len,
         UNCHANGED <<input, len, cursor>>
  PROVE  out' \in Seq(Calls) /\ ScreenOK'
<1> DEFINE p == pr \o NewPrompt
           r == Redraw(input, len, len)
<1>1. PICK q \in Nat : q = Len(pr) + 3
  BY LenProperties
<1>2. /\ p \in Seq(Calls) /\ Len(p) = q /\ p[1] = <<"put", Newline>>
      /\ p[q] = <<"prompt">>
      /\ \A i \in 1 .. q - 1 : p[i][1] \in {"put", "refresh", "clear", "pause"}
  <2>1. 1 .. q - 1 = 1 .. Len(pr) + 2
    BY <1>1, LenProperties
  <2>2. /\ p \in Seq(Calls) /\ Len(p) = Len(pr) + 3
        /\ p[1] = <<"put", Newline>>
        /\ p[Len(pr) + 3] = <<"prompt">>
        /\ \A i \in 1 .. Len(pr) + 2 : p[i][1] \in {"put", "refresh", "clear", "pause"}
    BY PromptAfter, Zenon
  <2> QED
    BY <1>1, <2>1, <2>2, Zenon
<1>3. /\ len \in Nat /\ prevLen = len
      /\ \A i \in 0 .. len - 1 : input[i] \in Glyphs
  <2>1. \A i \in 0 .. len - 1 : input[i] \in Printable \union {Space}
    BY DEF CliInv, LineOK
  <2> QED
    <3>1. len \in Nat
      BY DEF CliInv, CliTypeOK
    <3>2. prevLen = len
      BY DEF CliInv, LineOK
    <3> QED
      BY <2>1, <3>1, <3>2, CliAssumption
<1>4. PICK m \in Nat : m = len
  BY <1>3
<1>5. IsRedraw(r, input, len, len, m)
  <2>1. prevLen \in Nat /\ len \in Nat
    BY <1>3
  <2>2. m = IF len < prevLen THEN prevLen ELSE len
    BY <1>3, <1>4
  <2>3. \A i \in 0 .. len - 1 : input[i] \in Glyphs
    BY <1>3
  <2> QED
    BY <2>1, <2>2, <2>3, RedrawIs
<1>6. out' = p \o r
  OBVIOUS
<1> HIDE DEF p, r
<1>7. /\ p \o r \in Seq(Calls) /\ Len(p \o r) = Len(p) + Len(r)
      /\ \A i \in 1 .. Len(p) : (p \o r)[i] = p[i]
      /\ \A i \in 1 .. Len(r) : (p \o r)[Len(p) + i] = r[i]
  <2>1. p \in Seq(Calls) /\ r \in Seq(Calls)
    BY <1>2, <1>5 DEF IsRedraw
  <2> QED
    BY <2>1, Joined
<1>8. /\ out' \in Seq(Calls) /\ Len(out') = q + (m + 3)
      /\ \A i \in 1 .. q : out'[i] = p[i]
      /\ \A i \in 1 .. m + 3 : out'[q + i] = LineCall(input, len, len, m, i)
  <2>1. /\ Len(r) = m + 3 /\ \A i \in 1 .. m + 3 : r[i] = LineCall(input, len, len, m, i)
    BY <1>5 DEF IsRedraw
  <2> QED
    BY <1>2, <1>6, <1>7, <2>1
<1>9. Redrawing(q, m, 0)'
  <2>1. Len(out') = q + m + 3 - 0
    BY <1>8
  <2>2. ASSUME NEW i \in 1 .. m + 3 - 0 PROVE out'[q + i] = Call(m, 0 + i)'
    <3>0. i \in 1 .. m + 3
      OBVIOUS
    <3>1. out'[q + i] = LineCall(input, len, len, m, i)
      BY <1>8, <3>0
    <3>2. Call(m, i)' = LineCall(input, len, len, m, i)
      BY DEF Call
    <3>3. 0 + i = i
      OBVIOUS
    <3> QED
      BY <3>1, <3>2, <3>3
  <2> QED
    BY <2>1, <2>2 DEF Redrawing
<1>10. q > 0 /\ 1 \in 1 .. q /\ q \in 1 .. q /\ 1 .. q - 1 \subseteq 1 .. q
  BY <1>1, LenProperties
<1>11. q \in 1 .. Len(out')
  BY <1>8, <1>10
<1>12. Printing(q)'
  <2>1. out'[q] = <<"prompt">> /\ out'[1] = <<"put", Newline>>
        /\ \A i \in 1 .. q - 1 : out'[i][1] \in {"put", "refresh", "clear", "pause"}
    BY <1>2, <1>8, <1>10
  <2>2. m = len' /\ cursor' = len'
    BY <1>4
  <2>3. cursor' = len' /\ Redrawing(q, len, 0)'
    BY <1>9, <2>2 DEF Redrawing
  <2> QED
    BY <2>1, <2>3, KeyPrints DEF Printing
<1> QED
  BY <1>8, <1>11, <1>12 DEF ScreenOK

\* Sequences of a set joined together are a sequence of that set.
LEMMA FlattenIs ==
  ASSUME NEW S, NEW ss \in Seq(Seq(S))
  PROVE  FlattenSeq(ss) \in Seq(S)
<1> DEFINE Flat(g, m) == g = [i \in 1 .. m |-> IF i = 1 THEN ss[i] ELSE g[i - 1] \o ss[i]]
           Missing == {m \in Nat : ~ \E g : Flat(g, m)}
<1>1. Missing = {}
  <2> SUFFICES ASSUME Missing # {} PROVE FALSE
    OBVIOUS
  <2>1. PICK m \in Missing : \A k \in Missing : m <= k
    <3>1. Missing \in SUBSET Nat
      OBVIOUS
    <3> HIDE DEF Missing
    <3> QED
      BY <3>1, LeastElement
  <2>2. CASE m = 0
    <3> DEFINE g == [i \in 1 .. 0 |-> ss[i]]
    <3>1. Flat(g, 0)
      OBVIOUS
    <3> QED
      BY <2>2, <3>1
  <2>3. CASE m # 0
    <3>1. m - 1 \in Nat /\ m - 1 \notin Missing
      <4>1. m \in Nat
        OBVIOUS
      <4> HIDE DEF Missing
      <4> QED
        BY <2>1, <2>3, <4>1
    <3>2. PICK f : Flat(f, m - 1)
      BY <3>1
    <3> DEFINE g == [i \in 1 .. m |-> IF i = 1 THEN ss[i] ELSE f[i - 1] \o ss[i]]
    <3>3. \A i \in 1 .. m - 1 : g[i] = f[i]
      <4>1. \A i \in 1 .. m - 1 : f[i] = IF i = 1 THEN ss[i] ELSE f[i - 1] \o ss[i]
        BY <3>2, Zenon
      <4>2. \A i \in 1 .. m - 1 : i \in 1 .. m
        BY <3>1
      <4>3. \A i \in 1 .. m : g[i] = IF i = 1 THEN ss[i] ELSE f[i - 1] \o ss[i]
        BY Zenon
      <4> HIDE DEF g
      <4> QED
        BY <4>1, <4>2, <4>3, Zenon
    <3>4. \A i \in 1 .. m : i # 1 => f[i - 1] = g[i - 1]
      <4>1. \A i \in 1 .. m : i # 1 => i - 1 \in 1 .. m - 1
        BY <3>1
      <4> HIDE DEF g
      <4> QED
        BY <3>3, <4>1
    <3>5. Flat(g, m)
      <4>1. \A i \in 1 .. m : (IF i = 1 THEN ss[i] ELSE f[i - 1] \o ss[i])
                              = (IF i = 1 THEN ss[i] ELSE g[i - 1] \o ss[i])
        <5> HIDE DEF g
        <5> QED
          BY <3>4, Zenon
      <4> QED
        BY <4>1, Zenon
    <3> QED
      BY <3>5
  <2> QED
    BY <2>2, <2>3
<1>2. CASE Len(ss) = 0
  BY <1>2, EmptySeq DEF FlattenSeq
<1>3. CASE Len(ss) # 0
  <2>1. Len(ss) \in Nat /\ \A i \in 1 .. Len(ss) : ss[i] \in Seq(S)
    BY LenProperties, ElementOfSeq
  <2>2. \E g : Flat(g, Len(ss))
    BY <1>1, <2>1
  <2> HIDE DEF Missing
  <2>3. PICK g : g = CHOOSE h : Flat(h, Len(ss))
    OBVIOUS
  <2>4. Flat(g, Len(ss))
    BY <2>2, <2>3
  <2>5. FlattenSeq(ss) = g[Len(ss)]
    BY <1>3, <2>3 DEF FlattenSeq
  <2> DEFINE Bad == {i \in 1 .. Len(ss) : g[i] \notin Seq(S)}
  <2>6. Bad = {}
    <3> SUFFICES ASSUME Bad # {} PROVE FALSE
      OBVIOUS
    <3>1. PICK i \in Bad : \A k \in Bad : i <= k
      <4>1. Bad \in SUBSET Nat
        OBVIOUS
      <4> HIDE DEF Bad
      <4> QED
        BY <4>1, LeastElement
    <3>2. i \in 1 .. Len(ss) /\ g[i] \notin Seq(S)
      OBVIOUS
    <3>3. g[i] = IF i = 1 THEN ss[i] ELSE g[i - 1] \o ss[i]
      BY <2>4, <3>2
    <3>4. i # 1
      BY <2>1, <3>2, <3>3
    <3>5. g[i - 1] \in Seq(S)
      <4>1. i - 1 \in 1 .. Len(ss) /\ ~(i <= i - 1)
        BY <2>1, <3>2, <3>4
      <4> QED
        BY <3>1, <4>1
    <3>6. g[i - 1] \o ss[i] \in Seq(S)
      BY <2>1, <3>2, <3>5, ConcatProperties
    <3> QED
      BY <3>2, <3>3, <3>4, <3>6
  <2>7. Len(ss) \in 1 .. Len(ss)
    BY <1>3, <2>1
  <2> QED
    BY <2>5, <2>6, <2>7
<1> QED
  BY <1>2, <1>3

\* The matches are names that begin with what was typed.
LEMMA MatchesAre ==
  /\ Len(Matches) \in Nat
  /\ \A i \in 1 .. Len(Matches) : Matches[i] \in Names /\ StartsWith(Matches[i])
<1> DEFINE M == {n \in Names : StartsWith(n)}
           k == Cardinality(M)
<1>1. IsFiniteSet(M)
  BY CliAssumption, FS_Subset
<1>2. k \in Nat /\ ExistsBijection(1 .. k, M)
  BY <1>1, FS_CardinalityType
<1>3. \E f \in [1 .. k -> M] : IsInjective(f)
  BY <1>2 DEF ExistsBijection, Bijection, Injection, IsInjective
<1>4. Matches = CHOOSE f \in [1 .. k -> M] : IsInjective(f)
  BY DEF Matches, SetToSeq
<1> HIDE DEF k
<1>5. Matches \in [1 .. k -> M]
  BY <1>3, <1>4
<1> HIDE DEF M
<1>6. Len(Matches) = k
  BY <1>2, <1>5
<1>7. \A i \in 1 .. k : Matches[i] \in M
  BY <1>5
<1> QED
  BY <1>2, <1>6, <1>7 DEF M

\* A prefix, character by character.
LEMMA PrefixIs ==
  ASSUME NEW S, NEW s \in Seq(S), NEW t \in Seq(S)
  PROVE  IsPrefix(s, t) <=> Len(s) <= Len(t) /\ \A i \in 1 .. Len(s) : s[i] = t[i]
<1>1. Len(s) \in Nat /\ Len(t) \in Nat
  BY LenProperties
<1> DEFINE a == SubSeq(s, 1, Len(s))
           b == SubSeq(t, 1, Len(s))
<1>2. SUFFICES ASSUME Len(s) <= Len(t)
               PROVE  a = b <=> \A i \in 1 .. Len(s) : s[i] = t[i]
  BY DEF IsPrefix
<1>3. /\ \A i \in 1 .. Len(s) : s[i] \in S /\ t[i] \in S
  <2>1. \A i \in 1 .. Len(s) : i \in 1 .. Len(t)
    BY <1>1, <1>2
  <2> QED
    BY <2>1, ElementOfSeq
<1>4. a = [i \in 1 .. Len(s) |-> s[i]] /\ b = [i \in 1 .. Len(s) |-> t[i]]
  BY <1>1, <1>2
<1> QED
  BY <1>4

-----------------------------------------------------------------------------
(* Enter and Tab.                                                          *)

\* The history after a command.
LEMMA RememberedKeeps ==
  ASSUME CliTypeOK, NEW s \in Seq(Printable \union {Space}), Len(s) < InputMax
  PROVE  /\ Remembered(s) \in Seq(Seq(Printable \union {Space}))
         /\ Len(Remembered(s)) <= HistoryMax
         /\ \A h \in 1 .. Len(Remembered(s)) : Len(Remembered(s)[h]) < InputMax
<1> DEFINE T == Seq(Printable \union {Space})
           Fits(x) == /\ x \in Seq(T) /\ Len(x) <= HistoryMax
                      /\ \A h \in 1 .. Len(x) : Len(x[h]) < InputMax
<1>1. Fits(history) /\ HistoryMax \in Nat /\ HistoryMax > 0
  BY CliAssumption DEF CliTypeOK
<1>2. SUFFICES Fits(Remembered(s))
  OBVIOUS
<1>3. CASE history # <<>> /\ Last(history) = s
  <2>1. Remembered(s) = history
    BY <1>3 DEF Remembered
  <2> HIDE DEF Fits
  <2> QED
    BY <1>1, <2>1
<1>4. CASE ~(history # <<>> /\ Last(history) = s)
  <2>1. PICK x : x = IF Len(history) < HistoryMax THEN history ELSE Tail(history)
    OBVIOUS
  <2>2. /\ x \in Seq(T) /\ Len(x) < HistoryMax /\ \A h \in 1 .. Len(x) : Len(x[h]) < InputMax
    <3>1. CASE Len(history) < HistoryMax
      BY <1>1, <2>1, <3>1
    <3>2. CASE ~(Len(history) < HistoryMax)
      <4>1. Len(history) \in Nat /\ history # <<>>
        <5>1. Len(history) \in Nat
          BY <1>1, LenProperties
        <5> QED
          BY <1>1, <3>2, <5>1
      <4>2. /\ Tail(history) \in Seq(T) /\ Len(Tail(history)) = Len(history) - 1
            /\ \A i \in 1 .. Len(Tail(history)) : Tail(history)[i] = history[i + 1]
        BY <1>1, <4>1, HeadTailProperties
      <4>3. x = Tail(history)
        BY <2>1, <3>2
      <4>4. ASSUME NEW h \in 1 .. Len(x) PROVE Len(x[h]) < InputMax
        <5>1. h + 1 \in 1 .. Len(history)
          BY <4>1, <4>2, <4>3
        <5>2. x[h] = history[h + 1]
          BY <4>2, <4>3
        <5> QED
          BY <1>1, <5>1, <5>2
      <4> QED
        BY <1>1, <4>1, <4>2, <4>3, <4>4
    <3> QED
      BY <3>1, <3>2
  <2>3. Remembered(s) = Append(x, s)
    BY <1>4, <2>1, Zenon DEF Remembered
  <2>4. /\ Append(x, s) \in Seq(T) /\ Len(Append(x, s)) = Len(x) + 1
        /\ \A i \in 1 .. Len(x) : Append(x, s)[i] = x[i]
        /\ Append(x, s)[Len(x) + 1] = s
    <3> HIDE DEF T
    <3>1. x \in Seq(T) /\ s \in T
      BY <2>2 DEF T
    <3> QED
      BY <3>1, AppendProperties
  <2>5. Len(x) \in Nat
    BY <2>2, LenProperties
  <2> DEFINE y == Append(x, s)
  <2> HIDE DEF T, y
  <2>6. /\ y \in Seq(T) /\ Len(y) = Len(x) + 1 /\ y[Len(x) + 1] = s
        /\ \A i \in 1 .. Len(x) : y[i] = x[i]
    BY <2>4 DEF y
  <2>7. \A h \in 1 .. Len(y) : h \in 1 .. Len(x) \/ h = Len(x) + 1
    BY <2>5, <2>6
  <2>8. \A h \in 1 .. Len(y) : Len(y[h]) < InputMax
    BY <2>2, <2>6, <2>7
  <2>9. Len(y) <= HistoryMax
    BY <1>1, <2>2, <2>5, <2>6
  <2> QED
    BY <2>3, <2>6, <2>8, <2>9 DEF y
<1> QED
  BY <1>3, <1>4

\* A newline that is shown.
LEMMA NewlineShown ==
  /\ Shown(<<Newline>>) \in Seq(PrintCalls) /\ Len(Shown(<<Newline>>)) = 2
  /\ Shown(<<Newline>>)[1] = <<"put", Newline>>
<1> DEFINE w == <<Newline>>
<1>1. w \in Seq(Glyphs) /\ Len(w) = 1 /\ w # <<>> /\ w[1] = Newline
  <2>1. Newline \in Glyphs
    BY CliAssumption
  <2> QED
    BY <2>1
<1> HIDE DEF w
<1>2. /\ Shown(w) \in Seq(PrintCalls) /\ Len(Shown(w)) = Len(w) + 1
      /\ Shown(w)[1] = <<"put", w[1]>>
  BY <1>1, ShownIs
<1>3. Shown(w) \in Seq(PrintCalls) /\ Len(Shown(w)) = 2 /\ Shown(w)[1] = <<"put", Newline>>
  BY <1>1, <1>2
<1> QED
  BY <1>3, Zenon DEF w

\* More output behind some.
LEMMA LongerIs ==
  ASSUME NEW s \in Seq(PrintCalls), Len(s) > 0, NEW t \in Seq(PrintCalls)
  PROVE  \E u \in Seq(PrintCalls) : u = s \o t /\ Len(u) > 0 /\ u[1] = s[1]
<1>1. Len(s) \in Nat /\ Len(t) \in Nat /\ 1 \in 1 .. Len(s)
  BY LenProperties
<1>2. /\ s \o t \in Seq(PrintCalls) /\ Len(s \o t) = Len(s) + Len(t)
      /\ \A i \in 1 .. Len(s) : (s \o t)[i] = s[i]
  BY Joined
<1>3. Len(s \o t) > 0 /\ (s \o t)[1] = s[1]
  BY <1>1, <1>2
<1> QED
  BY <1>2, <1>3

\* What a command prints behind the newline, between two pauses.
LEMMA OutputIs ==
  ASSUME NEW nl \in Seq(PrintCalls), Len(nl) > 0, NEW x \in Seq(PrintCalls)
  PROVE  \E pr \in Seq(PrintCalls) :
           pr = nl \o Pause \o x \o Pause /\ Len(pr) > 0 /\ pr[1] = nl[1]
<1>1. Pause \in Seq(PrintCalls) /\ Len(Pause) = 1
  BY PrintCallFacts DEF Pause
<1>2. PICK y \in Seq(PrintCalls) : y = nl \o Pause /\ Len(y) > 0 /\ y[1] = nl[1]
  BY <1>1, LongerIs
<1>3. PICK z \in Seq(PrintCalls) : z = y \o x /\ Len(z) > 0 /\ z[1] = y[1]
  BY <1>2, LongerIs
<1>4. PICK pr \in Seq(PrintCalls) : pr = z \o Pause /\ Len(pr) > 0 /\ pr[1] = z[1]
  BY <1>1, <1>3, LongerIs
<1> QED
  BY <1>2, <1>3, <1>4

\* Enter.
LEMMA EnterKeeps ==
  ASSUME CliInv, Enter
  PROVE  CliInv'
<1>1. /\ CliTypeOK /\ len \in Nat /\ len < InputMax /\ InputMax \in Nat /\ InputMax > 0
      /\ input \in [InputCells -> Printable \union Junk \union {NUL, Space}]
      /\ \A i \in 0 .. len - 1 : input[i] \in Printable \union {Space}
  BY CliAssumption DEF CliInv, CliTypeOK, LineOK
<1>2. PICK s : s = Text([input EXCEPT ![len] = NUL], len)
  OBVIOUS
<1>3. /\ Key /\ input' = [input EXCEPT ![len] = NUL, ![0] = NUL]
      /\ len' = 0 /\ cursor' = 0 /\ prevLen' = 0 /\ pos' = 0
      /\ \/ out' = Shown(<<Newline>>) \o NewPrompt /\ UNCHANGED history
         \/ /\ history' = Remembered(s)
            /\ \E o \in Outputs :
                 out' = Shown(<<Newline>>) \o Pause
                        \o (IF o = "clear" THEN <<<<"clear">>>> ELSE Shown(o))
                        \o Pause \o NewPrompt
  BY <1>2, Zenon DEF Enter
<1>4. s \in Seq(Printable \union {Space}) /\ Len(s) < InputMax
  <2>1. \A i \in 1 .. len : [input EXCEPT ![len] = NUL][i - 1] = input[i - 1]
    <3>1. \A i \in 1 .. len : i - 1 \in InputCells /\ i - 1 # len
      BY <1>1 DEF InputCells
    <3> QED
      BY <1>1, <3>1
  <2>2. \A i \in 1 .. len : input[i - 1] \in Printable \union {Space}
    <3>1. \A i \in 1 .. len : i - 1 \in 0 .. len - 1
      BY <1>1
    <3> QED
      BY <1>1, <3>1
  <2>3. s = [i \in 1 .. len |-> [input EXCEPT ![len] = NUL][i - 1]]
    BY <1>2 DEF Text
  <2>4. s = [i \in 1 .. len |-> input[i - 1]]
    BY <2>1, <2>3
  <2> QED
    BY <1>1, <2>2, <2>4
<1>5. /\ history' \in Seq(Seq(Printable \union {Space})) /\ Len(history') <= HistoryMax
      /\ \A h \in 1 .. Len(history') : Len(history'[h]) < InputMax
  <2>1. CASE UNCHANGED history
    BY <1>1, <2>1 DEF CliTypeOK
  <2>2. CASE history' = Remembered(s)
    BY <1>1, <1>4, <2>2, RememberedKeeps
  <2> QED
    BY <1>3, <2>1, <2>2
<1>6. PICK nl : nl = Shown(<<Newline>>)
  OBVIOUS
<1>7. nl \in Seq(PrintCalls) /\ Len(nl) = 2 /\ nl[1] = <<"put", Newline>>
  BY <1>6, NewlineShown, Zenon
<1>8. \E pr \in Seq(PrintCalls) :
        Len(pr) > 0 /\ pr[1] = <<"put", Newline>> /\ out' = pr \o NewPrompt
  <2>1. CASE out' = Shown(<<Newline>>) \o NewPrompt
    <3>1. out' = nl \o NewPrompt
      BY <1>6, <2>1, Zenon
    <3>2. Len(nl) > 0
      BY <1>7
    <3> QED
      BY <1>7, <3>1, <3>2, Zenon
  <2>2. ASSUME NEW o \in Outputs,
               out' = Shown(<<Newline>>) \o Pause
                      \o (IF o = "clear" THEN <<<<"clear">>>> ELSE Shown(o))
                      \o Pause \o NewPrompt
        PROVE  \E pr \in Seq(PrintCalls) :
                 Len(pr) > 0 /\ pr[1] = <<"put", Newline>> /\ out' = pr \o NewPrompt
    <3>1. PICK x : x = IF o = "clear" THEN <<<<"clear">>>> ELSE Shown(o)
      OBVIOUS
    <3>2. x \in Seq(PrintCalls)
      <4>1. CASE o = "clear"
        BY <3>1, <4>1, PrintCallFacts
      <4>2. CASE o # "clear"
        <5>1. o \in Seq(Glyphs)
          BY <4>2, CliAssumption
        <5> QED
          BY <3>1, <4>2, <5>1, ShownIs
      <4> QED
        BY <4>1, <4>2
    <3>3. PICK pr \in Seq(PrintCalls) :
            pr = nl \o Pause \o x \o Pause /\ Len(pr) > 0 /\ pr[1] = nl[1]
      <4>1. nl \in Seq(PrintCalls) /\ Len(nl) > 0
        BY <1>7
      <4> QED
        BY <3>2, <4>1, OutputIs, Zenon
    <3>4. out' = (nl \o Pause \o x \o Pause) \o NewPrompt
      BY <1>6, <2>2, <3>1, Zenon
    <3>5. pr[1] = <<"put", Newline>> /\ out' = pr \o NewPrompt
      BY <1>7, <3>3, <3>4
    <3> QED
      BY <3>3, <3>5, Zenon
  <2> QED
    BY <1>3, <2>1, <2>2, Zenon
<1>9. out' \in Seq(Calls) /\ ScreenOK'
  BY <1>3, <1>8, PrintKeeps
<1>10. input' \in [InputCells -> Printable \union Junk \union {NUL, Space}]
  BY <1>1, <1>3
<1>11. CliTypeOK'
  <2>1. ScreenTypeOK' /\ promptRow' \in 0 .. MaxRows - 1 /\ promptCol' \in 0 .. MaxCols - 1
        /\ spoilt' \in BOOLEAN /\ littered' \in BOOLEAN /\ nudged' \in BOOLEAN
    BY <1>1, <1>3, KeyKeepsScreen
  <2>2. /\ len' \in 0 .. InputMax - 1 /\ cursor' \in 0 .. len' /\ prevLen' \in 0 .. InputMax - 1
        /\ pos' \in 0 .. Len(history')
    <3>1. Len(history') \in Nat
      BY <1>5, LenProperties
    <3> QED
      BY <1>1, <1>3, <3>1
  <2> QED
    BY <1>5, <1>9, <1>10, <2>1, <2>2 DEF CliTypeOK, ScreenTypeOK, InputCells
<1>12. LineOK'
  BY <1>3 DEF LineOK
<1> QED
  BY <1>9, <1>11, <1>12 DEF CliInv

\* Tab, with one match.
LEMMA TabCompletes ==
  ASSUME CliInv, Tab, Len(Matches) = 1
  PROVE  \E n \in Names :
           /\ StartsWith(n)
           /\ Append(n, Space) \in Seq(Printable \union {Space}) /\ Len(Append(n, Space)) < InputMax
           /\ SetLine(CopyStr(input, Append(n, Space)), StringLen(CopyStr(input, Append(n, Space))),
                      StringLen(CopyStr(input, Append(n, Space))))
<1>1. PICK n : n = Matches[1]
  OBVIOUS
<1>2. n \in Names /\ StartsWith(n)
  <2>1. 1 \in 1 .. Len(Matches)
    OBVIOUS
  <2> QED
    BY <1>1, <2>1, MatchesAre
<1>3. n \in Seq(Printable \union {Space}) /\ Len(n) + 1 < InputMax
  <2>1. n \in Seq(Printable \ {Space}) /\ Len(n) + 1 < InputMax
    BY <1>2, CliAssumption
  <2> QED
    BY <2>1
<1>4. Append(n, Space) \in Seq(Printable \union {Space}) /\ Len(Append(n, Space)) < InputMax
  <2>1. Space \in Printable \union {Space}
    OBVIOUS
  <2>2. Append(n, Space) \in Seq(Printable \union {Space}) /\ Len(Append(n, Space)) = Len(n) + 1
    BY <1>3, <2>1, AppendProperties
  <2> QED
    BY <1>3, <2>2
<1>5. SetLine(CopyStr(input, Append(Matches[1], Space)),
              StringLen(CopyStr(input, Append(Matches[1], Space))),
              StringLen(CopyStr(input, Append(Matches[1], Space))))
  <2>1. ~(Len(Matches) > 1)
    OBVIOUS
  <2> QED
    BY <2>1, Zenon DEF Tab
<1> QED
  BY <1>1, <1>2, <1>4, <1>5, Zenon

\* What Tab prints before the prompt, with several matches.
LEMMA ListIsPrinted ==
  LET fl == FlattenSeq([i \in 1 .. Len(Matches) |-> Shown(Matches[i]) \o Shown(<<Space>>)])
      pr == Shown(<<Newline>>) \o fl \o Shown(<<Newline>>)
  IN pr \in Seq(PrintCalls) /\ Len(pr) > 0 /\ pr[1] = <<"put", Newline>>
<1> DEFINE ss == [i \in 1 .. Len(Matches) |-> Shown(Matches[i]) \o Shown(<<Space>>)]
           fl == FlattenSeq(ss)
           nl == Shown(<<Newline>>)
<1>1. ASSUME NEW i \in 1 .. Len(Matches)
      PROVE  Shown(Matches[i]) \o Shown(<<Space>>) \in Seq(PrintCalls)
  <2>1. Matches[i] \in Seq(Glyphs)
    <3>1. Matches[i] \in Names
      BY MatchesAre
    <3>2. Matches[i] \in Seq(Printable \ {Space})
      BY <3>1, CliAssumption
    <3> QED
      BY <3>2, CliAssumption
  <2>2. <<Space>> \in Seq(Glyphs)
    <3>1. Space \in Glyphs
      BY CliAssumption
    <3> QED
      BY <3>1
  <2>3. Shown(Matches[i]) \in Seq(PrintCalls) /\ Shown(<<Space>>) \in Seq(PrintCalls)
    BY <2>1, <2>2, ShownIs
  <2> QED
    BY <2>3, ConcatProperties
<1>2. ss \in Seq(Seq(PrintCalls))
  BY <1>1, MatchesAre
<1> HIDE DEF ss
<1>3. fl \in Seq(PrintCalls)
  BY <1>2, FlattenIs
<1>4. nl \in Seq(PrintCalls) /\ Len(nl) = 2 /\ nl[1] = <<"put", Newline>>
  BY NewlineShown
<1> HIDE DEF fl, nl
<1> DEFINE a == nl \o fl
           b == a \o nl
<1>5. /\ a \in Seq(PrintCalls) /\ Len(a) = Len(nl) + Len(fl)
      /\ \A i \in 1 .. Len(nl) : a[i] = nl[i]
  <2>1. nl \in Seq(PrintCalls)
    BY <1>4
  <2> QED
    BY <1>3, <2>1, Joined
<1> HIDE DEF a
<1>6. Len(a) \in Nat /\ Len(a) > 0 /\ a[1] = <<"put", Newline>>
  <2>1. Len(fl) \in Nat /\ 1 \in 1 .. Len(nl)
    BY <1>3, <1>4, LenProperties
  <2> QED
    BY <1>4, <1>5, <2>1
<1>7. /\ b \in Seq(PrintCalls) /\ Len(b) = Len(a) + Len(nl)
      /\ \A i \in 1 .. Len(a) : b[i] = a[i]
  <2>1. a \in Seq(PrintCalls) /\ nl \in Seq(PrintCalls)
    BY <1>4, <1>5
  <2> QED
    BY <2>1, Joined
<1>8. Len(b) > 0 /\ b[1] = <<"put", Newline>>
  <2>1. 1 \in 1 .. Len(a)
    BY <1>6
  <2> HIDE DEF b
  <2> QED
    BY <1>4, <1>6, <1>7, <2>1
<1> QED
  BY <1>7, <1>8, Zenon DEF a, fl, ss, nl

\* Tab completes the line or lists the matches.
LEMMA TabKeeps ==
  ASSUME CliInv, Tab
  PROVE  CliInv'
<1>1. /\ Key /\ cursor = len /\ UNCHANGED <<history, pos>> /\ pos \in 0 .. Len(history)
      /\ CliTypeOK /\ len \in 0 .. InputMax - 1
  BY DEF Tab, CliInv, CliTypeOK
<1>2. CASE Len(Matches) = 1
  <2>1. PICK s \in Seq(Printable \union {Space}) :
          /\ Len(s) < InputMax
          /\ SetLine(CopyStr(input, s), StringLen(CopyStr(input, s)), StringLen(CopyStr(input, s)))
    BY <1>2, TabCompletes, Zenon
  <2> QED
    BY <1>1, <2>1, CopyKeeps
<1>3. CASE Len(Matches) > 1
  <2>1. /\ out' = Shown(<<Newline>>)
                  \o FlattenSeq([i \in 1 .. Len(Matches) |-> Shown(Matches[i]) \o Shown(<<Space>>)])
                  \o Shown(<<Newline>>) \o NewPrompt \o Redraw(input, len, len)
        /\ prevLen' = len /\ UNCHANGED <<input, len, cursor>>
    <3>1. Len(Matches) # 1
      BY <1>3, MatchesAre
    <3> QED
      BY <3>1, Zenon DEF Tab
  <2>2. \E pr \in Seq(PrintCalls) :
          /\ Len(pr) > 0 /\ pr[1] = <<"put", Newline>>
          /\ out' = (pr \o NewPrompt) \o Redraw(input, len, len)
    BY <2>1, ListIsPrinted, Zenon
  <2>3. out' \in Seq(Calls) /\ ScreenOK'
    BY <1>1, <2>1, <2>2, ListKeeps
  <2>4. ScreenTypeOK' /\ promptRow' \in 0 .. MaxRows - 1 /\ promptCol' \in 0 .. MaxCols - 1
        /\ spoilt' \in BOOLEAN /\ littered' \in BOOLEAN /\ nudged' \in BOOLEAN
    BY <1>1, KeyKeepsScreen
  <2>5. CliTypeOK'
    BY <1>1, <2>1, <2>3, <2>4 DEF CliTypeOK, ScreenTypeOK, InputCells
  <2>6. LineOK'
    BY <2>1 DEF CliInv, LineOK
  <2> QED
    BY <2>3, <2>5, <2>6 DEF CliInv
<1>4. Len(Matches) = 1 \/ Len(Matches) > 1
  BY DEF Tab
<1> QED
  BY <1>2, <1>3, <1>4

\* Every step of cli_run, every change of the window and every redraw by another task
\* keeps the invariant.
LEMMA CliStep == ASSUME CliInv, [CliNext]_cliVars PROVE CliInv'
<1>1. CASE Display
  BY <1>1, DisplayKeeps
<1>2. CASE ResizeWindow
  BY <1>2, ResizeKeeps
<1>3. CASE Up
  BY <1>3, UpKeeps
<1>4. CASE Down
  BY <1>4, DownKeeps
<1>5. CASE Tab
  BY <1>5, TabKeeps
<1>6. CASE Enter
  BY <1>6, EnterKeeps
<1>7. CASE \E i \in InputCells : Move(i) \/ Delete(i)
  BY <1>7, MoveKeeps, DeleteKeeps
<1>8. CASE \E c \in Printable : Insert(c)
  BY <1>8, InsertKeeps
<1>9. CASE OthersRefresh
  BY <1>9, OthersKeeps
<1>10. CASE UNCHANGED cliVars
  <2>1. /\ UNCHANGED <<input, len, cursor, prevLen, promptRow, promptCol, history, pos, out>>
        /\ UNCHANGED <<cells, row, col, window, spoilt, littered, nudged>>
    BY <1>10 DEF cliVars, lineVars, screenVars, termVars
  <2>2. CliTypeOK' /\ LineOK'
    BY <2>1 DEF CliInv, CliTypeOK, LineOK, InputCells
  <2>3. ScreenOK'
    <3>1. /\ \A q, m, d : Redrawing(q, m, d)' <=> Redrawing(q, m, d)
          /\ \A r, c : BlankBehind(r, c)' <=> BlankBehind(r, c)
          /\ InWindow' <=> InWindow
      BY <2>1 DEF Redrawing, Call, BlankBehind, InWindow, rows, cols
    <3>2. /\ \A q : Printing(q)' <=> Printing(q)
          /\ \A m, d : Editing(m, d)' <=> Editing(m, d)
      BY <2>1 DEF Printing, Editing, Redrawing, Call, BlankBehind, InWindow, rows, cols
    <3> QED
      BY <2>1, <3>2 DEF CliInv, ScreenOK
  <2> QED
    BY <2>2, <2>3 DEF CliInv
<1> QED
  BY <1>1, <1>2, <1>3, <1>4, <1>5, <1>6, <1>7, <1>8, <1>9, <1>10 DEF CliNext

\* The calls still to make are a known part of the script of cli_run: output and a
\* prompt (run_command, list_matches, print_prompt), or the rest of one
\* redraw_input_line, and the screen is as far as those made have brought it.
THEOREM CliInvariance == CliSpec => []CliInv
<1>1. CliInit => CliInv
  BY CliInitKeeps
<1>2. CliInv /\ [CliNext]_cliVars => CliInv'
  BY CliStep
<1> QED
  BY <1>1, <1>2, PTL DEF CliSpec

\* When cli_run waits for a key, the row behind the prompt shows the line that
\* Enter will run, followed by blanks, for every size of the array and of the window,
\* all command names and all output, while the line fits its row and the window keeps
\* its size; the cursor is in its place unless another task has redrawn the screen
\* since, and then not to the right of it.
THEOREM LineOnScreenCorrect == CliSpec => []LineOnScreen
<1>1. CliInv => LineOnScreen
  <2> SUFFICES ASSUME CliInv PROVE LineOnScreen
    OBVIOUS
  <2>1. \A i \in 0 .. len - 1 : input[i] \in Printable \union {Space}
    BY DEF CliInv, LineOK
  <2>2. /\ len \in Nat /\ promptRow \in Nat /\ promptCol \in Nat /\ rows \in Nat /\ cols \in Nat
    BY WindowFacts DEF CliInv, CliTypeOK, rows, cols
  <2>3. ASSUME out = <<>>, ~spoilt
        PROVE  /\ row = promptRow
               /\ IF nudged THEN col <= promptCol + cursor ELSE col = promptCol + cursor
               /\ \A i \in 0 .. cols - 1 - promptCol :
                    IF i < len THEN cells[promptRow][promptCol + i] = input[i]
                    ELSE ~littered => cells[promptRow][promptCol + i] = Space
    <3>1. /\ promptRow < rows /\ row = promptRow /\ col <= promptCol + cursor
          /\ ~nudged => col = promptCol + cursor
          /\ \A i \in 0 .. len - 1 : cells[promptRow][promptCol + i] = input[i]
          /\ ~littered => BlankBehind(promptRow, promptCol + len)
      BY <2>3, IdleScreen
    <3>2. ASSUME NEW i \in 0 .. cols - 1 - promptCol
          PROVE  IF i < len THEN cells[promptRow][promptCol + i] = input[i]
                 ELSE ~littered => cells[promptRow][promptCol + i] = Space
      <4>1. CASE i < len
        <5>1. i \in 0 .. len - 1
          BY <2>2, <4>1
        <5> QED
          BY <3>1, <4>1, <5>1
      <4>2. CASE ~(i < len)
        <5>1. promptRow \in 0 .. rows - 1 /\ promptCol + i \in 0 .. cols - 1
              /\ promptCol + i >= promptCol + len
          BY <2>2, <3>1, <4>2
        <5>2. ~littered => cells[promptRow][promptCol + i] = Space
          BY <3>1, <5>1 DEF BlankBehind
        <5> QED
          BY <4>2, <5>2
      <4> QED
        BY <4>1, <4>2
    <3> QED
      BY <3>1, <3>2
  <2> QED
    BY <2>1, <2>3 DEF LineOnScreen
<1> QED
  BY <1>1, CliInvariance, PTL

\* The string that complete_input compares is the whole line, or begins with it.
LEMMA LineIsRead ==
  ASSUME CliInv
  PROVE  StringLen(input) \in Nat /\ len <= StringLen(input)
<1>1. /\ len \in Nat /\ len < InputMax /\ InputMax \in Nat
      /\ \A i \in 0 .. len - 1 : input[i] \in Printable \union {Space}
  BY CliAssumption DEF CliInv, CliTypeOK, LineOK
<1>2. NUL \notin Printable \union {Space}
  BY CliAssumption DEF NUL, Space
<1> DEFINE n == StringLen(input)
<1>3. n \in 0 .. InputMax /\ (n < InputMax => input[n] = NUL)
  BY StringEnds
<1> HIDE DEF n
<1>4. ~(n < len)
  <2> SUFFICES ASSUME n < len PROVE FALSE
    OBVIOUS
  <2>1. n \in 0 .. len - 1 /\ n < InputMax
    BY <1>1, <1>3
  <2> QED
    BY <1>1, <1>2, <1>3, <2>1
<1> QED
  BY <1>1, <1>3, <1>4 DEF n

\* Tab leaves the line alone or makes it a command name that begins with it.
LEMMA TabKeepsStep ==
  ASSUME CliInv, Tab
  PROVE  LET typed == Text(input, len)
             after == Text(input', len')
         IN after = typed \/ \E n \in Names : IsPrefix(typed, n) /\ after = Append(n, Space)
<1>1. CASE Len(Matches) > 1
  <2>1. Len(Matches) # 1
    BY <1>1, MatchesAre
  <2>2. UNCHANGED <<input, len>>
    BY <2>1, Zenon DEF Tab
  <2> QED
    BY <2>2 DEF Text
<1>2. CASE Len(Matches) = 1
  <2>1. PICK n \in Names :
          /\ StartsWith(n)
          /\ Append(n, Space) \in Seq(Printable \union {Space}) /\ Len(Append(n, Space)) < InputMax
          /\ SetLine(CopyStr(input, Append(n, Space)), StringLen(CopyStr(input, Append(n, Space))),
                     StringLen(CopyStr(input, Append(n, Space))))
    BY <1>2, TabCompletes, Zenon
  <2>2. Text(input', len') = Append(n, Space)
    <3>1. PICK s \in Seq(Printable \union {Space}) : s = Append(n, Space)
      BY <2>1
    <3>2. /\ \A i \in 0 .. Len(s) - 1 : CopyStr(input, s)[i] = s[i + 1]
          /\ StringLen(CopyStr(input, s)) = Len(s)
      BY <2>1, <3>1, CopyIsRead DEF CliInv
    <3>3. input' = CopyStr(input, s) /\ len' = Len(s)
      BY <2>1, <3>1, <3>2, Zenon DEF SetLine
    <3>4. Len(s) \in Nat /\ s = [i \in 1 .. Len(s) |-> s[i]]
      BY LenProperties
    <3>5. \A i \in 1 .. Len(s) : i - 1 \in 0 .. Len(s) - 1 /\ (i - 1) + 1 = i
      BY <3>4
    <3>6. \A i \in 1 .. Len(s) : input'[i - 1] = s[i]
      BY <3>2, <3>3, <3>5
    <3>7. Text(input', len') = [i \in 1 .. Len(s) |-> input'[i - 1]]
      BY <3>3 DEF Text
    <3>8. Text(input', len') = s
      BY <3>4, <3>6, <3>7
    <3> QED
      BY <3>1, <3>8
  <2>3. IsPrefix(Text(input, len), n)
    <3> DEFINE T == Printable \union Junk \union {NUL, Space}
    <3>1. StringLen(input) \in Nat /\ len \in Nat /\ len <= StringLen(input)
          /\ StringLen(input) \in 0 .. InputMax /\ InputMax \in Nat
          /\ input \in [InputCells -> T]
      <4>1. StringLen(input) \in 0 .. InputMax
        BY StringEnds
      <4>2. InputMax \in Nat /\ len \in Nat /\ input \in [InputCells -> T]
        BY CliAssumption DEF CliInv, CliTypeOK
      <4> QED
        BY <4>1, <4>2, LineIsRead
    <3>2. PICK l \in Nat : l = StringLen(input)
      BY <3>1
    <3>3. \A k \in 0 .. l - 1 : input[k] \in T
      <4>1. \A k \in 0 .. l - 1 : k \in InputCells
        BY <3>1, <3>2 DEF InputCells
      <4> QED
        BY <3>1, <4>1
    <3>4. \A m \in 0 .. l : /\ Text(input, m) \in Seq(T) /\ Len(Text(input, m)) = m
                            /\ \A i \in 1 .. m : Text(input, m)[i] = input[i - 1]
      <4>1. ASSUME NEW m \in 0 .. l
            PROVE  /\ Text(input, m) \in Seq(T) /\ Len(Text(input, m)) = m
                   /\ \A i \in 1 .. m : Text(input, m)[i] = input[i - 1]
        <5>1. \A i \in 1 .. m : input[i - 1] \in T
          <6>1. \A i \in 1 .. m : i - 1 \in 0 .. l - 1
            BY <3>2
          <6> QED
            BY <3>3, <6>1
        <5> HIDE DEF T
        <5> QED
          BY <5>1 DEF Text
      <4> QED
        BY <4>1
    <3>5. n \in Seq(T)
      <4>1. n \in Seq(Printable \ {Space})
        BY CliAssumption
      <4> QED
        BY <4>1
    <3>6. IsPrefix(Text(input, l), n)
      BY <2>1, <3>2, Zenon DEF StartsWith
    <3> HIDE DEF T
    <3>7. l <= Len(n) /\ \A i \in 1 .. l : Text(input, l)[i] = n[i]
      <4>1. l \in 0 .. l
        BY <3>2
      <4>2. Text(input, l) \in Seq(T) /\ Len(Text(input, l)) = l
        BY <3>4, <4>1
      <4> QED
        BY <3>5, <3>6, <4>2, PrefixIs
    <3>8. PICK m \in 0 .. l : m = len
      BY <3>1, <3>2
    <3>9. m <= Len(n) /\ \A i \in 1 .. m : Text(input, m)[i] = n[i]
      <4>1. Len(n) \in Nat
        BY <3>5, LenProperties
      <4>2. \A i \in 1 .. m : i \in 1 .. l
        BY <3>8
      <4>3. l \in 0 .. l /\ m <= l
        BY <3>8
      <4>4. m <= Len(n)
        BY <3>2, <3>7, <4>1, <4>3
      <4>5. \A i \in 1 .. m : Text(input, m)[i] = Text(input, l)[i]
        BY <3>4, <4>2, <4>3
      <4> QED
        BY <3>7, <4>2, <4>4, <4>5
    <3>10. Text(input, m) \in Seq(T) /\ Len(Text(input, m)) = m
      BY <3>4, <3>8
    <3>11. IsPrefix(Text(input, m), n)
      BY <3>5, <3>9, <3>10, PrefixIs
    <3> QED
      BY <3>8, <3>11
  <2> QED
    BY <2>2, <2>3, Zenon
<1>3. Len(Matches) = 1 \/ Len(Matches) > 1
  BY DEF Tab
<1> QED
  BY <1>1, <1>2, <1>3

\* complete_input never takes back what was typed, whatever bytes the array holds
\* behind the line it compares with the command names.
THEOREM TabKeepsTypedCorrect == CliSpec => TabKeepsTyped
<1>1. CliInv /\ [CliNext]_cliVars =>
        [Tab => LET typed == Text(input, len)
                    after == Text(input', len')
                IN after = typed \/ \E n \in Names : IsPrefix(typed, n) /\ after = Append(n, Space)]_cliVars
  BY TabKeepsStep
<1> QED
  BY <1>1, CliInvariance, PTL DEF CliSpec, TabKeepsTyped

=============================================================================
