--------------------------------- MODULE Cli ---------------------------------
(***************************************************************************)
(* The command line of a terminal: cli_run of src/core/cli.c, which edits  *)
(* one line in a fixed array, remembers commands, completes their names,   *)
(* and keeps the row behind the prompt like the line with display calls.   *)
(*                                                                         *)
(* A key is handled in one step, which leaves the display calls to make in *)
(* out; they are made one at a time, and the window may change its size    *)
(* between two of them.  While the task waits for a key, or a command      *)
(* gives the processor away, other tasks may redraw the screen.  The array *)
(* keeps what earlier and longer lines left in it, and holds anything at   *)
(* first.                                                                  *)
(***************************************************************************)
EXTENDS Terminal, Sequences, SequencesExt

CONSTANTS
  Printable,    \* characters one can type
  Glyphs,       \* characters the screen can show
  Junk,         \* what the array can hold at first
  Names,        \* names of commands, sequences of characters
  Outputs,      \* what a command prints, or "clear"
  InputMax,     \* size of the array
  HistoryMax,   \* commands remembered
  MaxTyped,     \* bound: keys pressed
  MaxResizes    \* bound: changes of the window's size

NUL    == "nul"
Prompt == <<">">>

ASSUME CliAssumption ==
  /\ {Newline, NUL} \intersect Printable = {}
  /\ {InputMax, HistoryMax} \subseteq Nat \ {0}
  /\ {MaxTyped, MaxResizes} \subseteq Nat
  /\ Printable \union {Newline, Space, Prompt[1]} \subseteq Glyphs
  /\ IsFiniteSet(Names)
  /\ \A n \in Names : n \in Seq(Printable \ {Space}) /\ Len(n) + 1 < InputMax
  /\ \A o \in Outputs : o = "clear" \/ o \in Seq(Glyphs)

VARIABLES
  input,        \* input
  len,          \* len
  cursor,       \* cursor
  prevLen,      \* prev_len
  promptRow,    \* prompt_row
  promptCol,    \* prompt_col
  history,      \* history, up to history_count
  pos,          \* history_pos, counted from 1, or 0
  out,          \* display calls still to make
  keys,         \* keys pressed so far
  spoilt,       \* history: since the prompt a line was wrapped or the window resized
  littered,     \* history: since the screen was cleared, the cursor went back in a
                \* spoilt line, the window was resized, or another task moved the
                \* cursor under a command
  nudged,       \* history: since the last display call, another task moved the cursor
  resizes       \* history: changes of the window's size so far

lineVars   == <<input, len, cursor, history, pos>>
screenVars == <<termVars, promptRow, promptCol, spoilt, littered, nudged, resizes>>
cliVars    == <<lineVars, prevLen, out, keys, screenVars>>

InputCells == 0 .. InputMax - 1

\* Display calls: which, and with what; at a pause other tasks run.
Calls == ({"put"} \X Glyphs) \union ({"goto"} \X Nat)
         \union {<<"refresh">>, <<"clear">>, <<"prompt">>, <<"pause">>}

CliTypeOK ==
  /\ input \in [InputCells -> Printable \union Junk \union {NUL, Space}]
  /\ len \in 0 .. InputMax - 1
  /\ cursor \in 0 .. len
  /\ prevLen \in 0 .. InputMax - 1
  /\ cells \in [0 .. MaxRows - 1 -> [0 .. MaxCols - 1 -> Glyphs]]
  /\ row \in 0 .. MaxRows - 1 /\ col \in 0 .. MaxCols - 1 /\ window \in WindowSizes
  /\ promptRow \in 0 .. MaxRows - 1 /\ promptCol \in 0 .. MaxCols - 1
  /\ history \in Seq(Seq(Printable \union {Space})) /\ Len(history) <= HistoryMax
  /\ \A h \in 1 .. Len(history) : Len(history[h]) < InputMax
  /\ pos \in 0 .. Len(history)
  /\ out \in Seq(Calls)
  /\ spoilt \in BOOLEAN /\ littered \in BOOLEAN /\ nudged \in BOOLEAN

-----------------------------------------------------------------------------
(* Strings in arrays.                                                      *)

\* The first n characters of an array.
Text(a, n) == [i \in 1 .. n |-> a[i - 1]]

\* The string that starts there: up to the first NUL.
StringLen(a) ==
  CHOOSE n \in 0 .. InputMax : /\ \A i \in 0 .. n - 1 : a[i] # NUL
                               /\ n < InputMax => a[n] = NUL

\* copy_str: what lies behind the NUL stays.
CopyStr(a, s) ==
  [i \in InputCells |-> IF i < Len(s) THEN s[i + 1] ELSE IF i = Len(s) THEN NUL ELSE a[i]]

\* Mutant: only the first character counts.
StartsWithFirst(name) == input[0] = NUL \/ (name # <<>> /\ name[1] = input[0])

\* starts_with(name, input): the array is read up to its NUL, wherever the line
\* ends.
StartsWith(name) == IsPrefix(Text(input, StringLen(input)), name)

-----------------------------------------------------------------------------
(* Display calls.                                                          *)

Put(s)     == [i \in 1 .. Len(s) |-> <<"put", s[i]>>]
GoTo(n)    == <<<<"goto", n>>>>
Refreshed  == <<<<"refresh">>>>
Shown(s)   == Put(s) \o Refreshed
Pause      == <<<<"pause">>>>
NewPrompt  == Shown(Prompt) \o <<<<"prompt">>>>

\* Mutant: what a longer line left is not blanked out.
RedrawNoErase(a, n, c) == GoTo(0) \o Put(Text(a, n)) \o GoTo(c) \o Refreshed

\* redraw_input_line
Redraw(a, n, c) ==
  GoTo(0) \o Put(Text(a, n)) \o Put([i \in 1 .. prevLen - n |-> Space]) \o GoTo(c) \o Refreshed

\* The call in front is made.  The line is spoilt when a character ends up in
\* the last column or the cursor is not where it was to be.
Display ==
  LET op == Head(out)
  IN /\ out # <<>>
     /\ out' = Tail(out)
     /\ CASE op[1] = "put"     -> PutChar(op[2])
          [] op[1] = "goto"    -> SetCursor(promptRow, promptCol + op[2])
          [] op[1] = "refresh" -> Refresh
          [] op[1] = "clear"   -> ClearScreen
          [] op[1] \in {"prompt", "pause"} -> UNCHANGED termVars
     /\ IF op[1] = "prompt" THEN promptRow' = row /\ promptCol' = col
        ELSE UNCHANGED <<promptRow, promptCol>>
     /\ spoilt' = CASE op[1] = "prompt" -> row >= rows \/ col >= cols
                    [] op[1] = "put"    -> spoilt \/ col + 1 >= cols
                    [] op[1] = "goto"   -> spoilt \/ promptCol + op[2] >= cols
                    [] OTHER            -> spoilt
     /\ littered' = CASE op[1] = "clear" -> FALSE
                      [] op[1] = "goto"  -> littered \/ spoilt
                      [] OTHER           -> littered
     /\ nudged' = FALSE
     /\ UNCHANGED <<lineVars, prevLen, keys, resizes>>

ResizeWindow ==
  /\ resizes < MaxResizes
  /\ resizes' = resizes + 1
  /\ Resize
  /\ spoilt' = TRUE
  /\ littered' = TRUE
  /\ UNCHANGED <<lineVars, prevLen, out, keys, promptRow, promptCol, nudged>>

\* Another task draws while this one waits for a key or its command has yielded.
OthersRefresh ==
  /\ out # <<>> => Head(out) = <<"pause">>
  /\ ClampByOther
  /\ nudged' = (nudged \/ col' # col)
  /\ littered' = (littered \/ (out # <<>> /\ col' # col))
  /\ UNCHANGED <<lineVars, prevLen, out, keys, promptRow, promptCol, spoilt, resizes>>

\* cli_run up to its loop.
CliInit ==
  /\ TermInit
  /\ \E j \in [InputCells -> Junk] : input = [j EXCEPT ![0] = NUL]
  /\ len = 0
  /\ cursor = 0
  /\ prevLen = 0
  /\ promptRow = 0
  /\ promptCol = 0
  /\ history = <<>>
  /\ pos = 0
  /\ out = NewPrompt
  /\ keys = 0
  /\ spoilt = FALSE
  /\ littered = FALSE
  /\ nudged = FALSE
  /\ resizes = 0

-----------------------------------------------------------------------------
(* Keys.                                                                   *)

Key == out = <<>> /\ keys < MaxTyped /\ keys' = keys + 1 /\ UNCHANGED screenVars

\* The line becomes the first n bytes of a, with the cursor at c, and is redrawn.
SetLine(a, n, c) ==
  /\ input' = a
  /\ len' = n
  /\ cursor' = c
  /\ prevLen' = n
  /\ out' = Redraw(a, n, c)

\* KEY_LEFT and KEY_RIGHT
Move(c) ==
  /\ Key
  /\ c \in {cursor - 1, cursor + 1} \intersect (0 .. len)
  /\ cursor' = c
  /\ out' = GoTo(c) \o Refreshed
  /\ UNCHANGED <<input, len, prevLen, history, pos>>

\* The characters behind position i move down; the last one stays where it was.
Without(i) == [k \in InputCells |-> IF i <= k /\ k + 1 < len THEN input[k + 1] ELSE input[k]]

\* KEY_DELETE and backspace
Delete(i) ==
  /\ Key
  /\ i \in {cursor, cursor - 1} \intersect (0 .. len - 1)
  /\ SetLine(Without(i), len - 1, i)
  /\ UNCHANGED <<history, pos>>

\* KEY_UP
Up ==
  /\ Key
  /\ history # <<>>
  /\ pos' = IF pos = 0 THEN Len(history) ELSE IF pos > 1 THEN pos - 1 ELSE pos
  /\ LET a == CopyStr(input, history[pos']) IN SetLine(a, StringLen(a), StringLen(a))
  /\ UNCHANGED history

\* KEY_DOWN
Down ==
  /\ Key
  /\ pos # 0
  /\ pos' = IF pos < Len(history) THEN pos + 1 ELSE 0
  /\ LET a == CopyStr(input, IF pos' = 0 THEN <<>> ELSE history[pos'])
     IN SetLine(a, StringLen(a), StringLen(a))
  /\ UNCHANGED history

\* The names that match, in the order of the command table.
Matches == SetToSeq({n \in Names : StartsWith(n)})

\* Tab completes the only match, or lists the matches.
Tab ==
  /\ Key
  /\ cursor = len /\ len # 0
  /\ \A i \in 0 .. len - 1 : input[i] # Space
  /\ \/ /\ Len(Matches) = 1
        /\ LET a == CopyStr(input, Append(Matches[1], Space))
           IN SetLine(a, StringLen(a), StringLen(a))
     \/ /\ Len(Matches) > 1
        /\ out' = Shown(<<Newline>>)
                  \o FlattenSeq([i \in 1 .. Len(Matches) |-> Shown(Matches[i]) \o Shown(<<Space>>)])
                  \o Shown(<<Newline>>) \o NewPrompt \o Redraw(input, len, len)
        /\ prevLen' = len
        /\ UNCHANGED <<input, len, cursor>>
  /\ UNCHANGED <<history, pos>>

\* The history after command s: not twice in a row, the oldest one makes room.
Remembered(s) ==
  IF history # <<>> /\ Last(history) = s THEN history
  ELSE Append(IF Len(history) < HistoryMax THEN history ELSE Tail(history), s)

\* Enter runs the line and starts a new one; a command may yield or wait.
Enter ==
  /\ Key
  /\ LET s == Text([input EXCEPT ![len] = NUL], len)
     IN \/ /\ len = 0
           /\ out' = Shown(<<Newline>>) \o NewPrompt
           /\ UNCHANGED history
        \/ /\ len > 0
           /\ history' = Remembered(s)
           /\ \E o \in Outputs :
                out' = Shown(<<Newline>>) \o Pause
                       \o (IF o = "clear" THEN <<<<"clear">>>> ELSE Shown(o))
                       \o Pause \o NewPrompt
  /\ input' = [input EXCEPT ![len] = NUL, ![0] = NUL]
  /\ len' = 0
  /\ cursor' = 0
  /\ prevLen' = 0
  /\ pos' = 0

\* A printable character goes in at the cursor.
Insert(c) ==
  /\ Key
  /\ len < InputMax - 1
  /\ SetLine([k \in InputCells |-> IF k = cursor THEN c
                              ELSE IF cursor < k /\ k <= len THEN input[k - 1] ELSE input[k]],
             len + 1, cursor + 1)
  /\ UNCHANGED <<history, pos>>

CliNext ==
  \/ Display \/ ResizeWindow \/ OthersRefresh \/ Up \/ Down \/ Tab \/ Enter
  \/ \E i \in InputCells : Move(i) \/ Delete(i)
  \/ \E c \in Printable : Insert(c)

CliSpec == CliInit /\ [][CliNext]_cliVars

-----------------------------------------------------------------------------
(* Properties.                                                             *)

\* What the user sees behind the prompt is the line that Enter will run, followed
\* by blanks, with the cursor where the next character goes in, however the line
\* came about; no byte that was not typed, recalled or completed is part of it.
\* It holds while the line fits its row and the window keeps its size; the cursor may
\* stand further left when another task has redrawn the screen since.
LineOnScreen ==
  /\ \A i \in 0 .. len - 1 : input[i] \in Printable \union {Space}
  /\ out = <<>> /\ ~spoilt =>
       /\ row = promptRow
       /\ IF nudged THEN col <= promptCol + cursor ELSE col = promptCol + cursor
       /\ \A i \in 0 .. cols - 1 - promptCol :
            LET c == cells[promptRow][promptCol + i]
            IN IF i < len THEN c = input[i] ELSE ~littered => c = Space

\* Completion never takes back what was typed: it leaves the line alone or makes
\* it a command that begins with it, whatever the array holds behind the line.
TabKeepsTyped ==
  [][Tab => LET typed == Text(input, len)
                after == Text(input', len')
            IN after = typed \/ \E n \in Names : IsPrefix(typed, n) /\ after = Append(n, Space)]_cliVars

=============================================================================
