------------------------------ MODULE Terminal ------------------------------
(***************************************************************************)
(* The text of one terminal session in src/video/display.c: its character  *)
(* cells and its cursor, and what writing to it does in a window of a      *)
(* given size.  The cells of a session are written by its own task alone,  *)
(* but a full redraw by any task may move the cursor; the mouse interrupt  *)
(* may change the size of the window between any two characters.           *)
(* Callers print text and newlines; backspace is left out.                 *)
(***************************************************************************)
EXTENDS Integers

CONSTANTS
  MaxRows,      \* GFX_MAX_ROWS
  MaxCols,      \* GFX_MAX_COLS
  WindowSizes   \* rows and columns a window can have room for

ASSUME TerminalAssumption ==
  /\ {MaxRows, MaxCols} \subseteq Nat \ {0}
  /\ WindowSizes \subseteq (1 .. MaxRows) \X (1 .. MaxCols)

Newline == "newline"
Space   == "space"

VARIABLES
  cells,      \* text_cells
  row,        \* cursor_row
  col,        \* cursor_col
  window      \* rows and columns its window has room for

termVars == <<cells, row, col, window>>

\* visible_rows and visible_cols
rows == window[1]
cols == window[2]

\* display_init
TermInit ==
  /\ cells = [r \in 0 .. MaxRows - 1 |-> [c \in 0 .. MaxCols - 1 |-> Space]]
  /\ row = 0
  /\ col = 0
  /\ window \in WindowSizes

\* scroll_if_needed, with cells cs and the cursor in row r: only the part that
\* shows in the window moves.
Scrolled(cs, r) ==
  IF r < rows THEN cs
  ELSE [i \in DOMAIN cs |-> [j \in DOMAIN cs[i] |->
         IF j >= cols \/ i >= rows THEN cs[i][j]
         ELSE IF i = rows - 1 THEN Space ELSE cs[i + 1][j]]]

NextRow(cs) ==
  /\ cells' = Scrolled(cs, row + 1)
  /\ row' = IF row + 1 < rows THEN row + 1 ELSE rows - 1
  /\ col' = 0

\* display_put_char_internal
PutChar(c) ==
  LET written == [cells EXCEPT ![row][col] = c]
  IN /\ IF c = Newline THEN NextRow(cells)
        ELSE IF col + 1 >= cols THEN NextRow(written)
        ELSE cells' = written /\ col' = col + 1 /\ UNCHANGED row
     /\ UNCHANGED window

Lesser(a, b) == IF a < b THEN a ELSE b

\* display_set_cursor
SetCursor(r, c) ==
  /\ row' = Lesser(r, rows - 1)
  /\ col' = Lesser(c, cols - 1)
  /\ UNCHANGED <<cells, window>>

\* What display_refresh does to the cursor.
Refresh == SetCursor(row, col)

\* A task that runs in another window redraws everything: gfx_render_full keeps the
\* cursor of the active session within the width of the window of the running task.
ClampByOther ==
  /\ \E w \in WindowSizes : col' = Lesser(col, w[2] - 1)
  /\ UNCHANGED <<cells, row, window>>

\* display_clear
ClearScreen ==
  /\ cells' = [r \in DOMAIN cells |-> [c \in DOMAIN cells[r] |-> Space]]
  /\ row' = 0
  /\ col' = 0
  /\ UNCHANGED window

\* The user resizes the window.
Resize ==
  /\ window' \in WindowSizes \ {window}
  /\ UNCHANGED <<cells, row, col>>

=============================================================================
