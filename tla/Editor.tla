------------------------------- MODULE Editor -------------------------------
(***************************************************************************)
(* The console editor of src/core/editor.c.  All terminals that run it     *)
(* share the one g_ed, the variable ed; the CPU changes hands only in      *)
(* keyboard_read_key, so a step is what the editor does from one key to    *)
(* the next, the redraw at the head of its loop included.  A screen row    *)
(* is the text of the line it shows; gutter, header, status bar and        *)
(* columns are left out.  Positions count the characters before them, as   *)
(* in C.                                                                   *)
(***************************************************************************)
EXTENDS Integers, FiniteSets, FiniteSetsExt, SequencesExt

CONSTANTS
  Terminals,    \* terminal sessions
  Paths,        \* file names
  Chars,        \* printable characters that are typed
  MaxBytes,     \* EDIT_MAX_BYTES
  TabSpaces,    \* EDIT_TAB_SPACES
  Rows,         \* EDIT_CONTENT_ROWS
  InitFiles,    \* what the paths may name at the start, a set of functions
  Chunk,        \* bytes load_file reads at a time
  DiskErrors,   \* may calls of the VFS fail?
  MaxKeys       \* bound: commands and keys given

NL  == "nl"
Tab == "tab"
Spc == " "

\* The bytes of a text.
Bytes == Chars \union {NL, Tab, Spc}

Absent  == [kind |-> "none", data |-> <<>>]
File(s) == [kind |-> "file", data |-> s]

\* What a path may name; load_file gets nothing from what is not a file.
Contents == {f \in [kind : {"none", "dir", "file"}, data : Seq(Bytes)] :
               f.kind # "file" => f.data = <<>>}

ASSUME EditorAssumption ==
  /\ {MaxBytes, TabSpaces, Rows, Chunk} \subseteq Nat \ {0}
  /\ {NL, Tab} \intersect Chars = {}
  /\ Paths # {}
  /\ InitFiles \subseteq [Paths -> Contents]
  /\ DiskErrors \in BOOLEAN
  /\ MaxKeys \in Nat

VARIABLES
  ed,       \* g_ed
  files,    \* what every path names
  screen,   \* the content rows of every terminal
  pc,       \* where every terminal waits for a key
  sole,     \* history: no other terminal edits since the last first open
  intact,   \* history: neither the last load was cut short nor a later save failed
  pending,  \* history: terminals that changed the text since the last save
  keys      \* commands and keys so far

vars == <<ed, files, screen, pc, sole, intact, pending, keys>>

Blank == [r \in 0 .. Rows - 1 |-> <<>>]

TypeOK ==
  /\ ed.buf \in Seq(Bytes)
  /\ Len(ed.buf) <= MaxBytes
  /\ ed.cursor \in 0 .. Len(ed.buf)
  /\ {ed.top, ed.pref, ed.prevLine, ed.prevTop, ed.prevTotal} \subseteq 0 .. MaxBytes + 1
  /\ {ed.keep, ed.dirty, ed.first, sole, intact} \subseteq BOOLEAN
  /\ DOMAIN files = Paths
  /\ \A t \in Terminals : DOMAIN screen[t] = 0 .. Rows - 1
  /\ pc \in [Terminals -> {"shell", "edit", "unsaved", "menu", "prompt"}]
  /\ pending \subseteq Terminals
  /\ keys \in 0 .. MaxKeys

-----------------------------------------------------------------------------
(* Positions and lines of the text b.                                      *)

Newlines(b, n) == {i \in 1 .. n : b[i] = NL}

\* line_col_for_pos, its first result.
LineOf(b, pos) == Cardinality(Newlines(b, pos))

TotalLines(b) == LineOf(b, Len(b)) + 1

PosForLine(b, line) ==
  Min({i \in 0 .. Len(b) : LineOf(b, i) = line} \union {Len(b)})

LineStart(b, pos) == Max({i \in 0 .. pos : i = 0 \/ b[i] = NL})

LineEnd(b, pos) == Min({i \in pos .. Len(b) : i = Len(b) \/ b[i + 1] = NL})

PosForLineCol(b, line, col) ==
  LET start == PosForLine(b, line) IN Min({start + col, LineEnd(b, start)})

\* render_line: what it writes after the line number.
RenderLine(b, line) ==
  LET start == PosForLine(b, line) IN SubSeq(b, start + 1, LineEnd(b, start))

-----------------------------------------------------------------------------
(* Changes of the buffer; each yields the new g_ed.                        *)

\* insert_at_cursor of n characters c, as many as there is room for.
Insert(e, c, n) ==
  LET k == Min({n, MaxBytes - Len(e.buf)})
  IN [e EXCEPT !.buf    = SubSeq(@, 1, e.cursor) \o [i \in 1 .. k |-> c]
                          \o SubSeq(@, e.cursor + 1, Len(@)),
               !.cursor = @ + k,
               !.dirty  = @ \/ k > 0]

\* delete_backspace
DeleteBackspace(e) ==
  IF e.cursor = 0 THEN e
  ELSE [e EXCEPT !.buf = RemoveAt(@, e.cursor), !.cursor = @ - 1, !.dirty = TRUE]

\* Mutant: the character goes and the flag stays.
DeleteForwardClean(e) ==
  IF e.cursor >= Len(e.buf) THEN e
  ELSE [e EXCEPT !.buf = RemoveAt(@, e.cursor + 1)]

\* delete_forward
DeleteForward(e) ==
  IF e.cursor >= Len(e.buf) THEN e
  ELSE [e EXCEPT !.buf = RemoveAt(@, e.cursor + 1), !.dirty = TRUE]

\* The width of the white space the text s begins with.
Indent(s) ==
  LET lead == {i \in 1 .. Len(s) : \A j \in 1 .. i : s[j] \in {Spc, Tab}}
      tabs == {i \in lead : s[i] = Tab}
  IN Cardinality(lead \ tabs) + TabSpaces * Cardinality(tabs)

\* insert_newline_with_indent: the white space is that of the line up to the cursor.
InsertNewline(e) ==
  IF Len(e.buf) >= MaxBytes THEN e
  ELSE Insert(Insert(e, NL, 1), Spc,
              Indent(SubSeq(e.buf, LineStart(e.buf, e.cursor) + 1, e.cursor)))

\* KEY_LEFT and KEY_RIGHT: a move by d that stays in the text.
Move(e, d) == [e EXCEPT !.cursor = Max({0, Min({Len(e.buf), @ + d})}), !.keep = FALSE]

\* KEY_UP and KEY_DOWN, to the line to if there is one.
MoveLine(e, to) ==
  LET line == LineOf(e.buf, e.cursor)
      col  == e.cursor - LineStart(e.buf, e.cursor)
      pref == IF e.keep THEN e.pref ELSE col
  IN [e EXCEPT !.pref = pref, !.keep = TRUE,
               !.cursor = IF to \in 0 .. TotalLines(e.buf) - 1
                          THEN PosForLineCol(e.buf, to, pref) ELSE @]

\* Mutant: the view follows the cursor up only.
EnsureVisibleUp(e) ==
  LET line == LineOf(e.buf, e.cursor)
  IN IF line < e.top THEN [e EXCEPT !.top = line] ELSE e

\* ensure_cursor_visible
EnsureVisible(e) ==
  LET line == LineOf(e.buf, e.cursor)
  IN IF line < e.top THEN [e EXCEPT !.top = line]
     ELSE IF line >= e.top + Rows THEN [e EXCEPT !.top = line - Rows + 1]
     ELSE e

\* Mutant: a changed number of lines does not redraw the rows below.
FullRedrawScroll(e) == e.first \/ e.top # e.prevTop

\* The condition of draw_editor for drawing all rows.
FullRedraw(e) ==
  e.first \/ e.top # e.prevTop \/ TotalLines(e.buf) # e.prevTotal

\* draw_editor on the rows of t: all of them, or the cursor's old and new line.
Draw(t, e0) ==
  LET e    == EnsureVisible(e0)
      line == LineOf(e.buf, e.cursor)
      text(l) == IF l < TotalLines(e.buf) THEN RenderLine(e.buf, l) ELSE <<>>
  IN /\ screen' = [screen EXCEPT ![t] =
           [r \in 0 .. Rows - 1 |->
              IF FullRedraw(e) \/ e.top + r \in {line, e.prevLine}
              THEN text(e.top + r) ELSE @[r]]]
     /\ ed' = [e EXCEPT !.first = FALSE, !.prevLine = line, !.prevTop = e.top,
                        !.prevTotal = TotalLines(e.buf)]

-----------------------------------------------------------------------------
(* Files.                                                                  *)

\* load_file of path p, of which it got the text s.
Loaded(p, s) ==
  [path |-> p, buf |-> s, cursor |-> 0, top |-> 0, pref |-> 0, keep |-> FALSE,
   dirty |-> FALSE, first |-> TRUE, prevLine |-> 0, prevTop |-> 0, prevTotal |-> 0]

\* What load_file may get: nothing unless p is a file, at most MaxBytes, and less
\* when a read fails, which looks like the end of the file.
Readable(p) ==
  LET whole == SubSeq(files[p].data, 1, Min({MaxBytes, Len(files[p].data)}))
  IN {whole} \union (IF DiskErrors /\ files[p].kind = "file"
                     THEN {SubSeq(whole, 1, n) :
                             n \in {i \in 0 .. Len(whole) : i % Chunk = 0}} ELSE {})

\* What a failed save leaves: the file is created or emptied before the write, and
\* a failed flush after a complete write is a failure too.
Wrecks(p, s) ==
  IF files[p].kind = "dir" THEN {files[p]}
  ELSE IF ~DiskErrors THEN {}
  ELSE {File(<<>>), File(s)} \union ({files[p]} \intersect {Absent})

\* save_to_path without its effect on dirty, which Saved has.
SaveToPath(e, p, ok) ==
  /\ \/ ok /\ files[p].kind # "dir" /\ files' = [files EXCEPT ![p] = File(e.buf)]
     \/ ~ok /\ \E f \in Wrecks(p, e.buf) : files' = [files EXCEPT ![p] = f]
  /\ pending' = IF ok THEN {} ELSE pending
  /\ intact' = (ok \/ (intact /\ p # e.path))

\* Mutant: dirty is reset whether or not the write was complete.
SavedAlways(e, p, ok) == [e EXCEPT !.dirty = FALSE, !.path = IF ok THEN p ELSE @]

\* g_ed after save_to_path, and after a save under a new path.
Saved(e, p, ok) == IF ok THEN [e EXCEPT !.dirty = FALSE, !.path = p] ELSE e

-----------------------------------------------------------------------------
(* The loop of editor_open and its prompts.                                *)

Init ==
  /\ files \in InitFiles
  /\ ed = [Loaded(CHOOSE p \in Paths : TRUE, <<>>) EXCEPT !.first = FALSE]
  /\ screen = [t \in Terminals |-> Blank]
  /\ pc = [t \in Terminals |-> "shell"]
  /\ sole = TRUE /\ intact = FALSE /\ pending = {} /\ keys = 0

\* Terminal t waits at l for a key, gets one, and waits at m for the next.
Key(t, l, m) ==
  /\ pc[t] = l
  /\ pc' = [pc EXCEPT ![t] = m]
  /\ keys < MaxKeys
  /\ keys' = keys + 1

\* The command edit.
EditorOpen(t, p) ==
  /\ Key(t, "shell", "edit")
  /\ \E s \in Readable(p) :
       Draw(t, Loaded(p, s)) /\ intact' = (s = files[p].data)
  /\ sole' = \A u \in Terminals \ {t} : pc[u] = "shell"
  /\ pending' = pending \ {t}
  /\ UNCHANGED files

\* The editor of t returns: display_clear, and g_ed stays as it is.
Quit(t, l) ==
  /\ Key(t, l, "shell")
  /\ screen' = [screen EXCEPT ![t] = Blank]
  /\ UNCHANGED sole

\* The loop takes a key that changes g_ed to e, and draws.
Handle(t, e) ==
  /\ Key(t, "edit", "edit")
  /\ Draw(t, e)
  /\ pending' = IF e.buf = ed.buf THEN pending ELSE pending \union {t}
  /\ UNCHANGED <<files, sole, intact>>

\* KEY_LEFT, KEY_RIGHT, KEY_UP and KEY_DOWN.
ArrowKey(t) ==
  \E d \in {-1, 1} :
    Handle(t, Move(ed, d)) \/ Handle(t, MoveLine(ed, LineOf(ed.buf, ed.cursor) + d))

\* The keys that change the text.
TextKey(t) ==
  LET e == [ed EXCEPT !.keep = FALSE]
  IN \/ Handle(t, DeleteForward(e))
     \/ Handle(t, DeleteBackspace(e))
     \/ Handle(t, InsertNewline(e))
     \/ Handle(t, Insert(e, Spc, TabSpaces))
     \/ \E c \in Chars : Handle(t, Insert(e, c, 1))

\* A save under path p while waiting at l; the editor draws and goes on.
SaveKey(t, l, p) ==
  /\ Key(t, l, "edit")
  /\ \E ok \in BOOLEAN : SaveToPath(ed, p, ok) /\ Draw(t, Saved(ed, p, ok))
  /\ UNCHANGED sole

\* A key after which the editor only shows a status and waits at m.
StatusKey(t, l, m) ==
  /\ Key(t, l, m)
  /\ Draw(t, ed)
  /\ UNCHANGED <<files, sole, intact, pending>>

\* KEY_F10: quit, or ask when there are unsaved changes.
F10Key(t) ==
  \/ ed.dirty /\ StatusKey(t, "edit", "unsaved")
  \/ ~ed.dirty /\ Quit(t, "edit") /\ UNCHANGED <<ed, files, intact, pending>>

\* The answer to that question: F10 discards, F2 saves and quits, any other key
\* and a failed save go on editing.
Answer(t) ==
  \/ Quit(t, "unsaved") /\ pending' = pending \ {t} /\ UNCHANGED <<ed, files, intact>>
  \/ /\ Quit(t, "unsaved")
     /\ SaveToPath(ed, ed.path, TRUE)
     /\ ed' = Saved(ed, ed.path, TRUE)
  \/ /\ Key(t, "unsaved", "edit")
     /\ SaveToPath(ed, ed.path, FALSE)
     /\ Draw(t, Saved(ed, ed.path, FALSE))
     /\ UNCHANGED sole
  \/ StatusKey(t, "unsaved", "edit")

\* The menu of ESC: save, save as, quit if nothing is unsaved, go on.
Menu(t) ==
  \/ SaveKey(t, "menu", ed.path)
  \/ Key(t, "menu", "prompt") /\ UNCHANGED <<ed, files, screen, sole, intact, pending>>
  \/ ~ed.dirty /\ Quit(t, "menu") /\ UNCHANGED <<ed, files, intact, pending>>
  \/ StatusKey(t, "menu", "edit")

\* prompt_path ends with a path, or without one.
Prompt(t) ==
  \/ \E p \in Paths : SaveKey(t, "prompt", p)
  \/ StatusKey(t, "prompt", "edit")

Next ==
  \E t \in Terminals :
    \/ \E p \in Paths : EditorOpen(t, p)
    \/ ArrowKey(t)
    \/ TextKey(t)
    \/ SaveKey(t, "edit", ed.path)
    \/ F10Key(t)
    \/ Answer(t)
    \/ StatusKey(t, "edit", "menu")
    \/ Menu(t)
    \/ Prompt(t)

Spec == Init /\ [][Next]_vars

-----------------------------------------------------------------------------
(* Properties.                                                             *)

Editing == {t \in Terminals : pc[t] # "shell"}

\* Wherever edits, loads and saves of several terminals leave the one cursor, the
\* line it is on is one of the rows last drawn, so that ensure_cursor_visible
\* never needs more than the line the cursor moved to.
CursorVisible ==
  Editing # {} => LineOf(ed.buf, ed.cursor) \in ed.top .. ed.top + Rows - 1

\* draw_editor redraws as little as it can: the cursor's old and new line, or all
\* when the view or the number of lines changed.  As long as one terminal edits,
\* that is enough: every row shows the line of the buffer it stands for.
ScreenShowsBuffer ==
  \A t \in Editing : sole =>
    \A r \in 0 .. Rows - 1 :
      screen[t][r] = IF ed.top + r < TotalLines(ed.buf)
                     THEN RenderLine(ed.buf, ed.top + r) ELSE <<>>

\* A buffer that is not dirty is what the file holds: every change of the text, by
\* whichever terminal, sets dirty and only a complete save resets it.  Left out
\* are a load that was cut short and a file that a failed save has emptied.
CleanIsSaved == ~ed.dirty /\ intact => files[ed.path].data = ed.buf

\* docs/DEVELOPING.md: "F10: quit (asks before discarding unsaved changes)".  A
\* terminal that edits alone never leaves the editor without the question while
\* its last changes have not been saved completely, through F10 or the menu.
AsksBeforeDiscarding ==
  [][\A t \in pending : sole /\ pc[t] \in {"edit", "menu"} => pc'[t] # "shell"]_vars
=============================================================================
