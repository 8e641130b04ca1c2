------------------------------- MODULE Console -------------------------------
(***************************************************************************)
(* The running kernel: one CPU with its interrupt flag, the scheduler, the *)
(* timer, keyboard and mouse interrupts, a CLI task per terminal that      *)
(* reads its keyboard ring, and the idle task.                             *)
(*                                                                         *)
(* Terminal sessions and their tasks have the same numbers: kmain creates  *)
(* the sessions first, in order, and the idle task last.  A label of where *)
(* says what a task does when it next gets the CPU; code between two       *)
(* labels runs without giving it up.  context_switch saves no EFLAGS, so   *)
(* the interrupt flag is the CPU's and not the task's.                     *)
(***************************************************************************)
EXTENDS Scheduler, Keyboard

CONSTANTS
  Commands,   \* what a CLI task may do with a key: see Run
  MaxKeys     \* bound: scancodes the keyboard sends

Idle == MaxTasks - 1

ASSUME ConsoleAssumption ==
  /\ MaxTasks >= 2
  /\ Terminals = 0 .. MaxTasks - 2
  /\ Commands \subseteq {"edit", "print", "yield", "syscall"}
  /\ MaxKeys \in Nat

VARIABLES
  intFlag,    \* may an interrupt reach the CPU?
  halted,     \* the CPU waits in hlt
  where,      \* resumption point of every task
  focus,      \* the focused terminal session, or NoFocus
  sent,       \* scancodes sent so far
  latest      \* history: the last scancode

vars == <<schedVars, kbVars, intFlag, halted, where, focus, sent, latest>>

NoScancode == [code |-> "none", up |-> TRUE]

TypeOK ==
  /\ SchedTypeOK
  /\ KbTypeOK
  /\ intFlag \in BOOLEAN
  /\ halted \in BOOLEAN
  /\ where \in [Slots -> {"try", "poll", "halt", "run", "iret"}]
  /\ focus \in Rings
  /\ sent \in 0 .. MaxKeys
  /\ latest \in Scancodes \union {NoScancode}

\* kmain up to scheduler_init; interrupts are on since interrupts_init.
Init ==
  /\ SchedInit
  /\ KbInit
  /\ intFlag = TRUE
  /\ halted = FALSE
  /\ where = [t \in Slots |-> IF t = Idle THEN "poll" ELSE "try"]
  /\ focus = 0
  /\ sent = 0
  /\ latest = NoScancode

\* The rest of kmain: the terminal tasks and the idle task, then the start.
Boot ==
  /\ current = NoTask
  /\ CreateTask \/ (count = MaxTasks /\ Start)
  /\ UNCHANGED <<kbVars, intFlag, halted, where, focus, sent, latest>>

\* Task t has the CPU and is at label l; it goes on at label m.
At(t, l, m) ==
  /\ ~halted
  /\ current = t
  /\ where[t] = l
  /\ where' = [where EXCEPT ![t] = m]
  /\ UNCHANGED <<focus, sent, latest>>

\* One turn of keyboard_read_key_for_terminal up to interrupts_enable.
ReadKey(t) ==
  /\ At(t, "try", IF IsEmpty(t) THEN "poll" ELSE "run")
  /\ IF IsEmpty(t) THEN UNCHANGED kbVars ELSE Pop(t)
  /\ intFlag' = TRUE
  /\ UNCHANGED <<schedVars, halted>>

\* scheduler_maybe_preempt of the read loop and of idle_task.
Poll(t) ==
  /\ At(t, "poll", "halt")
  /\ MaybePreempt
  /\ UNCHANGED <<kbVars, intFlag, halted>>

\* interrupts_halt of both loops.
Halt(t) ==
  /\ At(t, "halt", IF t = Idle THEN "poll" ELSE "try")
  /\ halted' = TRUE
  /\ UNCHANGED <<schedVars, kbVars, intFlag>>

\* cli_run handles the key.  Editing keys and most commands go straight back to
\* reading, a printable character passes scheduler_maybe_preempt first, the
\* command yield calls scheduler_yield.
Run(t) ==
  /\ At(t, "run", "try")
  /\ \/ "edit" \in Commands /\ UNCHANGED schedVars
     \/ "print" \in Commands /\ MaybePreempt
     \/ "yield" \in Commands /\ Yield
  /\ UNCHANGED <<kbVars, intFlag, halted>>

\* The command syscall: int 0x80 enters syscall_handler through an interrupt
\* gate, which clears the flag, and SYS_YIELD switches tasks from there.
Syscall(t) ==
  /\ "syscall" \in Commands
  /\ At(t, "run", "iret")
  /\ Yield
  /\ intFlag' = FALSE
  /\ UNCHANGED <<kbVars, halted>>

\* isr128_stub returns: iretd restores the caller's flag.
Iret(t) ==
  /\ At(t, "iret", "try")
  /\ intFlag' = TRUE
  /\ UNCHANGED <<schedVars, kbVars, halted>>

CpuStep ==
  \E t \in Slots : ReadKey(t) \/ Poll(t) \/ Halt(t) \/ Run(t) \/ Syscall(t) \/ Iret(t)

\* The interrupts.  Each one ends a hlt.
Interrupt == intFlag /\ halted' = FALSE /\ UNCHANGED <<intFlag, where>>

TimerIrq == Interrupt /\ OnTick /\ UNCHANGED <<kbVars, focus, sent, latest>>

KeyboardIrq ==
  /\ Interrupt
  /\ sent < MaxKeys
  /\ sent' = sent + 1
  /\ latest' \in Scancodes
  /\ IrqHandler(latest', focus)
  /\ UNCHANGED <<schedVars, focus>>

\* A click brings another terminal to the front, or closes the last one.
MouseIrq ==
  /\ Interrupt
  /\ focus' \in Rings
  /\ UNCHANGED <<schedVars, kbVars, sent, latest>>

Next == Boot \/ CpuStep \/ TimerIrq \/ KeyboardIrq \/ MouseIrq

\* The CPU executes, and the 100 Hz timer interrupts when it may.
Spec == Init /\ [][Next]_vars /\ WF_vars(Boot) /\ WF_vars(CpuStep) /\ WF_vars(TimerIrq)

-----------------------------------------------------------------------------
(* Properties.                                                             *)

\* scheduler.h says of scheduler_yield: "Safe to call from any kernel task at
\* any time."  So no yield leaves the CPU in hlt with interrupts off for good.
NeverWedged == ~(halted /\ ~intFlag)

\* Nobody starves: with the timer's flag, the places at which tasks ask for a switch
\* and the round robin of scheduler_pick_next, every ready task gets the CPU in
\* the end, as keys do not come for ever.
NoStarvation ==
  []NeverWedged =>
    \A t \in Slots : state[t] = "ready" /\ current # NoTask ~> state[t] = "running"

\* Nothing but the scancode directly before it decides how keyboard_irq_handler
\* takes a scancode: the prefix holds for exactly one, be it a key or its release;
\* shift follows the plain shift keys alone; and a key enters a ring when it goes
\* down, an arrow or Delete only behind the prefix and every other key only
\* without it.
PrefixIsOneShot ==
  [][KeyboardIrq =>
       /\ extended' <=> latest' = Prefix
       /\ shift' = IF latest'.code = "shift" /\ latest # Prefix THEN ~latest'.up ELSE shift
       /\ \A r \in Rings : head'[r] # head[r] =>
            /\ ~latest'.up /\ buf'[r][head[r]].code = latest'.code
            /\ latest'.code \in Cursors <=> latest = Prefix]_vars

\* Every key that reached a terminal's ring is read by that terminal's task,
\* although the key may arrive between the sti of the read loop and its hlt,
\* or while another task sleeps in hlt: the timer ends every hlt and its flag
\* moves the CPU on.  Only the command syscall can prevent it (NeverWedged).
KeysAreRead == []NeverWedged => \A t \in Terminals : ~IsEmpty(t) ~> IsEmpty(t)

=============================================================================
