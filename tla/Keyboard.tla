------------------------------ MODULE Keyboard ------------------------------
(***************************************************************************)
(* The keyboard driver of src/drivers/keyboard.c: the decoder of the       *)
(* interrupt handler and the ring buffers, one per terminal and a global   *)
(* one, written by the interrupt handler and drained by tasks.  A task     *)
(* reads with interrupts off, so a read is one step.                       *)
(***************************************************************************)
EXTENDS Integers, Sequences

CONSTANTS
  Terminals,    \* terminal sessions
  RingSize,     \* KB_BUFFER_SIZE
  Chars,        \* keys with a character in the scancode tables
  Functions,    \* F2 and F10
  Cursors       \* arrows and Delete, keys only after the 0xE0 prefix

NoFocus == -1

ASSUME KeyboardAssumption ==
  /\ RingSize \in Nat /\ RingSize >= 2
  /\ NoFocus \notin Terminals
  /\ (Chars \union Functions) \intersect Cursors = {}

\* A scancode names a key and says whether it went down or up; 0xE0, which has the
\* bit of a release, announces that the next one belongs to the extended set.
Codes     == Chars \union Functions \union Cursors \union {"shift", "other"}
Prefix    == [code |-> "E0", up |-> TRUE]
Scancodes == [code : Codes, up : BOOLEAN] \union {Prefix}

\* A key as readers get it.
Keys  == [code : Chars \union Functions \union Cursors, shifted : BOOLEAN]
NoKey == [code |-> "none", shifted |-> FALSE]

Rings == Terminals \union {NoFocus}
Cells == 0 .. RingSize - 1

VARIABLES
  buf,        \* term_kb_buffer, and kb_buffer at NoFocus
  head,       \* next cell to write
  tail,       \* next cell to read
  extended,   \* kb_extended
  shift       \* kb_shift_down

kbVars == <<buf, head, tail, extended, shift>>

KbTypeOK ==
  /\ buf \in [Rings -> [Cells -> Keys \union {NoKey}]]
  /\ head \in [Rings -> Cells]
  /\ tail \in [Rings -> Cells]
  /\ extended \in BOOLEAN
  /\ shift \in BOOLEAN

\* keyboard_init
KbInit ==
  /\ buf = [r \in Rings |-> [c \in Cells |-> NoKey]]
  /\ head = [r \in Rings |-> 0]
  /\ tail = [r \in Rings |-> 0]
  /\ extended = FALSE
  /\ shift = FALSE

IsEmpty(r) == head[r] = tail[r]

\* Mutant: the writer overtakes the reader.
NeverFull(r) == FALSE

IsFull(r)  == (head[r] + 1) % RingSize = tail[r]

\* Pushing: a key that finds the ring full is dropped.
Push(r, key) ==
  IF IsFull(r)
  THEN UNCHANGED <<buf, head>>
  ELSE /\ buf' = [buf EXCEPT ![r][head[r]] = key]
       /\ head' = [head EXCEPT ![r] = (@ + 1) % RingSize]

\* What the decoder makes of a scancode after the prefix and of a plain one.
Decoded(s) ==
  IF s.up THEN NoKey
  ELSE IF extended
       THEN IF s.code \in Cursors THEN [code |-> s.code, shifted |-> FALSE] ELSE NoKey
  ELSE IF s.code \in Chars THEN [code |-> s.code, shifted |-> shift]
  ELSE IF s.code \in Functions THEN [code |-> s.code, shifted |-> FALSE]
  ELSE NoKey

\* Mutant: a release behind the prefix leaves the handler before the reset.
IrqHandlerKeepsPrefix(s, focus) ==
  IF s = Prefix
  THEN extended' = TRUE /\ UNCHANGED <<buf, head, tail, shift>>
  ELSE /\ extended' = (extended /\ s.up)
       /\ shift' = IF s.code = "shift" /\ ~extended THEN ~s.up ELSE shift
       /\ IF Decoded(s) = NoKey THEN UNCHANGED <<buf, head>>
          ELSE Push(focus, Decoded(s))
       /\ UNCHANGED tail

\* keyboard_irq_handler and keyboard_route_key: the key goes to the ring of the
\* terminal that has the focus at this moment, else to the global one.
IrqHandler(s, focus) ==
  IF s = Prefix
  THEN extended' = TRUE /\ UNCHANGED <<buf, head, tail, shift>>
  ELSE /\ extended' = FALSE
       /\ shift' = IF s.code = "shift" /\ ~extended THEN ~s.up ELSE shift
       /\ IF Decoded(s) = NoKey THEN UNCHANGED <<buf, head>>
          ELSE Push(focus, Decoded(s))
       /\ UNCHANGED tail

\* keyboard_read_key_for_terminal, keyboard_read_key: the pop of one turn.
Pop(r) ==
  /\ ~IsEmpty(r)
  /\ tail' = [tail EXCEPT ![r] = (@ + 1) % RingSize]
  /\ UNCHANGED <<buf, head, extended, shift>>

-----------------------------------------------------------------------------
(* Properties.                                                             *)

Waiting(r) == (head[r] - tail[r] + RingSize) % RingSize

Queued ==
  [r \in Rings |-> [i \in 1 .. Waiting(r) |-> buf[r][(tail[r] + i - 1) % RingSize]]]

Abstract == INSTANCE KeyQueue WITH
  Queues <- Rings, Capacity <- RingSize - 1, queue <- Queued

\* The two indices of each ring of keyboard.c, moved by two parties, behave as
\* a queue of RingSize - 1 keys: wrapping around never loses, repeats or
\* reorders a key that was accepted, and a full ring keeps what it has.
ImplementsKeyQueue == Abstract!Spec

=============================================================================
