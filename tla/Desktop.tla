------------------------------- MODULE Desktop -------------------------------
(***************************************************************************)
(* The window manager of src/video/display.c and gui.c: the array of       *)
(* windows, whose order is what lies over what, the terminal sessions and  *)
(* their tasks, the focus, the start menu, the process manager, and        *)
(* display_refresh.                                                        *)
(*                                                                         *)
(* display_handle_mouse_event runs in the mouse interrupt, which may come  *)
(* at any point of a task's display_refresh; tasks give up the CPU at no   *)
(* point of it.  It reads and writes the same array and redraws all.       *)
(* display_refresh is split where it reads that array again: between the   *)
(* two halves of every swap that brings a new window to the front, and     *)
(* between the frame of a window, its content and the next window.  What a *)
(* drawing loop holds in locals, the place of a window, is `brush': after  *)
(* an interrupt it may paint where that window no longer is.               *)
(*                                                                         *)
(* A mouse event that changes the array between the two halves of a swap   *)
(* loses one window and leaves another one there twice.  That state is     *)
(* reached here, as `torn', and nothing is modelled after it.              *)
(*                                                                         *)
(* Of the geometry only what a click hits is kept: any visible window may  *)
(* show at the pointer, any part of it, and any two windows may overlap.   *)
(* Drawing is kept as what the screen shows: whose text is not shown, and  *)
(* which row of the process manager is highlighted (its window is taken to *)
(* be tall enough for its rows).  The pointer and the underline of the     *)
(* text cursor are left out.                                               *)
(***************************************************************************)
EXTENDS Integers, FiniteSetsExt

CONSTANTS
  TerminalSlots,   \* WIN_TERMINAL_SLOTS
  BootSessions,    \* sessions kmain creates
  MaxTasks         \* slots of the scheduler's task table

ASSUME DesktopAssumption ==
  /\ {TerminalSlots, BootSessions, MaxTasks} \subseteq Nat \ {0}
  /\ BootSessions <= TerminalSlots
  /\ BootSessions + 1 <= MaxTasks

Sessions == 0 .. TerminalSlots - 1
None     == -1

\* A window is its session, or one of two more; the desktop below them all never
\* moves and is left out.
Settings       == TerminalSlots
ProcessManager == TerminalSlots + 1
Windows        == 0 .. TerminalSlots + 1

\* Indices into g_windows, from WIN_TERMINAL_FIRST to WIN_COUNT - 1.
TerminalLast == TerminalSlots
Top          == TerminalSlots + 2
Indices      == 1 .. Top

VARIABLES
  order,       \* the window at each index of g_windows
  visible,     \* windows with the visible flag
  bound,       \* sessions with a task: g_terminal_task_ids
  focus,       \* g_focused_terminal_session
  selected,    \* g_pm_selected_index
  menu,        \* g_start_menu_open
  pending,     \* g_pending_terminal_spawn
  grab,        \* g_drag_window or g_resize_window; g_interactive_move_active
  force,       \* terminal_force_full_redraw
  pc,          \* where the current display_refresh is
  at,          \* its index into g_windows: wi, index, i or tw
  target,      \* the session it creates or takes the text from: session, ts
  brush,       \* the window whose place it holds in locals, None when a drag has
               \* changed that place since; in the middle of a swap, tmp
  dirty,       \* screen: visible terminals with text that was not drawn yet
  covered,     \* screen: visible terminals left blank or painted over
  highlight,   \* screen: the window whose row is highlighted, or None
  clicked,     \* history: a mouse event has redrawn all during the painting of cells
  displaced,   \* history: a new session was given a window that is not its own
  shifted,     \* history: a terminal was created since the selection changed
  crossed,     \* history: after a mouse event something was painted where its
               \* window no longer is, or over a window above it
  torn         \* history: a mouse event changed the array in the middle of a swap

windowVars  == <<order, visible, bound, focus>>
mouseVars   == <<selected, menu, pending, grab>>
refreshVars == <<force, pc, at, target, brush>>
screen      == <<dirty, covered, highlight>>
history     == <<clicked, displaced, shifted, crossed, torn>>
vars == <<windowVars, mouseVars, refreshVars, screen, history>>

TypeOK ==
  /\ order \in [Indices -> Windows]
  /\ visible \subseteq Windows
  /\ bound \subseteq Sessions
  /\ focus \in Sessions \union {None}
  /\ selected \in Indices \union {None}
  /\ {menu, pending, force, clicked, displaced, shifted, crossed, torn} \subseteq BOOLEAN
  /\ grab \in Indices \union {None}
  /\ pc \in {"idle", "show", "lift", "swap", "draw", "frame", "content", "menu",
             "paint", "cell"}
  /\ at \in Indices \union {None}
  /\ target \in Sessions \union {None}
  /\ brush \in Windows \union {None}
  /\ dirty \subseteq Sessions /\ covered \subseteq Sessions
  /\ highlight \in Windows \union {None}

-----------------------------------------------------------------------------
(* Searches.                                                               *)

\* bring_window_to_front: the others move down by one.
ToFront(ord, i) ==
  [k \in Indices |-> IF k < i THEN ord[k] ELSE IF k = Top THEN ord[i] ELSE ord[k + 1]]

\* Visible windows the array holds at the indices from i to j.
Between(ord, vis, i, j) == vis \intersect {ord[k] : k \in Indices \intersect (i .. j)}

\* ensure_valid_terminal_focus: the focus while its window is visible, or else
\* the topmost visible terminal.
ValidFocus(f, ord, vis) ==
  LET shown == {i \in Indices : ord[i] \in Sessions \intersect vis}
  IN IF f \in Between(ord, vis, 1, Top) THEN f
     ELSE IF shown = {} THEN None ELSE ord[Max(shown)]

\* Mutant: the last slot is not searched.
HiddenSlotsShort ==
  {i \in 1 .. TerminalLast - 1 : order[i] \in bound \ visible}

\* Mutant: a session without a task is shown too.
HiddenSlotsAny ==
  {i \in 1 .. TerminalLast : order[i] \in Sessions \ visible}

\* The slots find_hidden_terminal_slot searches: those that held the terminals
\* at first, whatever they hold now.
HiddenSlots ==
  {i \in 1 .. TerminalLast : order[i] \in bound \ visible}

\* visible_terminal_count looks at the same slots.
VisibleCount == Cardinality({i \in 1 .. TerminalLast : order[i] \in Sessions \intersect visible})

\* build_running_process_list
Rows(ord, vis, bnd) == {i \in Indices : ord[i] \in vis \intersect bnd}

\* Mutant: a selection is only dropped when nothing is left to select.
StillListedLoose(sel, ord, vis, bnd) == IF Rows(ord, vis, bnd) = {} THEN None ELSE sel

\* What gfx_render_process_manager_content leaves of the selection.
StillListed(sel, ord, vis, bnd) == IF sel \in Rows(ord, vis, bnd) THEN sel ELSE None

IndexOf(w) == CHOOSE i \in Indices : order[i] = w

-----------------------------------------------------------------------------
(* The redraw at the end of a mouse event.                                 *)

\* Windows gfx_render_window draws with their contents: all that are visible, but
\* while one is dragged or resized only that one.
Drawn ==
  IF grab' = None THEN Between(order', visible', 1, Top) ELSE visible' \intersect {order'[grab']}

\* What a drawing loop in progress still holds the place of: a window that was
\* moved or resized has left it, and the contents of the two other windows are
\* drawn where the window at the loop's index is now.
Held ==
  LET dragged == pc \in {"frame", "content", "cell"} /\ grab # None /\ grab' # None
                   /\ order[grab] = brush
      turned  == pc = "content" /\ brush \in {Settings, ProcessManager}
                   /\ \/ order'[at] # brush
                      \/ brush = ProcessManager
                           /\ Rows(order', visible', bound) # Rows(order, visible, bound)
  IN IF dragged \/ turned THEN None ELSE brush

\* gfx_render_scene_no_cursor: it puts the focus f right and draws everything.
\* The process manager drops a selection it has no row for.
RenderScene(f, sel) ==
  LET drawn == Drawn
      s == IF ProcessManager \in drawn THEN StillListed(sel, order', visible', bound') ELSE sel
  IN /\ focus' = ValidFocus(f, order', visible')
     /\ selected' = s
     /\ brush' = Held
     /\ dirty' = (dirty \intersect visible') \ drawn
     /\ covered' = (visible' \intersect Sessions) \ drawn
     /\ highlight' = IF ProcessManager \in drawn /\ s # None THEN order'[s] ELSE None
     /\ clicked' = (pc \in {"paint", "cell"})
     /\ crossed' = FALSE
     /\ shifted' = (shifted /\ s # None /\ s = selected)
     /\ torn' = (torn \/ (pc = "swap" /\ <<order', visible'>> # <<order, visible>>))

\* display_init; kmain creates its sessions and shows the first one, which brings
\* that window to the front, and refreshes.
Init ==
  /\ order = ToFront([i \in Indices |-> i - 1], 1)
  /\ visible = {0}
  /\ bound = 0 .. BootSessions - 1
  /\ focus = 0
  /\ selected = None
  /\ menu = FALSE /\ pending = FALSE
  /\ grab = None
  /\ force = FALSE
  /\ pc = "idle"
  /\ at = None /\ target = None /\ brush = None
  /\ dirty = {} /\ covered = {}
  /\ highlight = None
  /\ clicked = FALSE /\ displaced = FALSE /\ shifted = FALSE /\ crossed = FALSE /\ torn = FALSE

-----------------------------------------------------------------------------
(* display_refresh: a request for a new terminal.                          *)

\* A task writes text to its terminal and calls display_refresh; clearing and
\* scrolling ask for a full redraw.  The refresh first serves a request for a new
\* terminal, for the first session without a task; without a free session or a
\* free slot in the task table nothing comes of it.
Refresh(s, full) ==
  LET new == IF pending /\ bound # Sessions /\ Cardinality(bound) + 1 < MaxTasks
             THEN {Min(Sessions \ bound)} ELSE {}
  IN /\ pc = "idle"
     /\ s \in bound
     /\ pending' = FALSE
     /\ force' = (force \/ full)
     /\ bound' = bound \union new
     /\ IF new = {} THEN pc' = "draw" /\ UNCHANGED <<at, target>>
        ELSE LET n == Min(new) IN pc' = "show" /\ at' = 1 + n /\ target' = n
     /\ dirty' = (dirty \union {s} \union new) \intersect visible
     /\ UNCHANGED <<order, visible, focus, selected, menu, grab, brush, covered, highlight, history>>

\* display_create_terminal_session shows the window at the index its own had at
\* first.
ShowNew ==
  /\ pc = "show"
  /\ pc' = "lift"
  /\ visible' = visible \union {order[at]}
  /\ displaced' = (displaced \/ order[at] # target)
  /\ dirty' = dirty \union ({order[at]} \intersect Sessions)
  /\ UNCHANGED <<order, bound, focus, mouseVars, force, at, target, brush, covered, highlight,
                 clicked, shifted, crossed, torn>>

\* gui_bring_window_to_front: tmp takes the lower of two windows and the upper one
\* moves down.
SwapDown ==
  /\ pc = "lift" /\ at < Top
  /\ pc' = "swap"
  /\ brush' = order[at]
  /\ order' = [order EXCEPT ![at] = order[at + 1]]
  /\ shifted' = (shifted \/ selected # None)
  /\ UNCHANGED <<visible, bound, focus, mouseVars, force, at, target, screen, clicked, displaced,
                 crossed, torn>>

\* The window in tmp moves up.
SwapUp ==
  /\ pc = "swap"
  /\ pc' = "lift"
  /\ order' = [order EXCEPT ![at + 1] = brush]
  /\ at' = at + 1
  /\ brush' = None
  /\ shifted' = (shifted \/ selected # None)
  /\ UNCHANGED <<visible, bound, focus, mouseVars, force, target, screen, clicked, displaced,
                 crossed, torn>>

\* The new session has the focus, and everything is to be drawn.
FocusNew ==
  /\ pc = "lift" /\ at = Top
  /\ pc' = "draw"
  /\ focus' = target
  /\ force' = TRUE
  /\ at' = None /\ target' = None
  /\ UNCHANGED <<order, visible, bound, mouseVars, brush, screen, history>>

-----------------------------------------------------------------------------
(* display_refresh: everything is drawn.                                   *)

\* The loop of gfx_render_windows goes on at index k, to the next visible window;
\* after the last one gfx_render_start_menu follows.
GoOn(k) ==
  LET next == {i \in Indices : k <= i /\ order[i] \in visible}
  IN IF next # {}
     THEN pc' = "frame" /\ at' = Min(next) /\ brush' = order[Min(next)] /\ UNCHANGED force
     ELSE /\ at' = None /\ brush' = None
          /\ IF menu THEN pc' = "menu" /\ UNCHANGED force
             ELSE pc' = "idle" /\ force' = FALSE

\* Something was painted over the windows in set S.
PaintedOver(S) ==
  /\ covered' = covered \union (S \intersect Sessions)
  /\ crossed' = (crossed \/ S # {})

\* The index terminal_window returns: the terminal with the focus, or else the
\* topmost visible one; with none visible, the first.
ActiveIndex(f) ==
  Min({i \in Indices : order[i] \in Sessions /\ (f # None => order[i] = f)})

\* Everything is drawn when that was asked for or more than one terminal was
\* counted; or else gfx_refresh_terminal_incremental takes the window and the text
\* of the active terminal.
Draw ==
  LET f == ValidFocus(focus, order, visible)
  IN /\ pc = "draw"
     /\ focus' = f
     /\ UNCHANGED <<order, visible, bound, mouseVars, dirty, highlight, clicked, displaced,
                    shifted, torn>>
     /\ IF force \/ VisibleCount > 1
        THEN /\ GoOn(1)
             /\ covered' = visible \intersect Sessions
             /\ crossed' = FALSE
             /\ UNCHANGED target
        ELSE /\ pc' = "paint"
             /\ at' = ActiveIndex(f)
             /\ target' = order[ActiveIndex(f)]
             /\ UNCHANGED <<force, brush, covered, crossed>>

\* What lies over the place the drawing holds and was drawn already, by the mouse
\* event that came in between; the windows above index `at' are drawn after it.
Over ==
  IF brush \in visible THEN Between(order, visible, IndexOf(brush) + 1, at)
  ELSE Between(order, visible, 1, at)

\* gfx_render_window up to the content, which is left out while another window is
\* dragged.  A mouse event since the loop came to this index was before or after
\* the visible flag and the place of the close button were read.
RenderFrame ==
  \E late \in BOOLEAN :
    LET w    == order[at]
        over == IF ~late THEN {} ELSE IF w \in visible THEN Over
                ELSE Between(order, visible, 1, at)
    IN /\ pc = "frame"
       /\ UNCHANGED <<windowVars, menu, pending, grab, target, dirty, clicked, displaced, shifted,
                      torn>>
       /\ IF w \notin visible /\ ~late
          THEN GoOn(at + 1) /\ UNCHANGED <<selected, covered, highlight, crossed>>
          ELSE IF grab \notin {None, at}
          THEN /\ GoOn(at + 1)
               /\ PaintedOver(over)
               /\ highlight' = IF w = ProcessManager THEN None ELSE highlight
               /\ UNCHANGED selected
          ELSE /\ pc' = "content" /\ brush' = w
               /\ PaintedOver(over)
               /\ selected' = IF w = ProcessManager
                              THEN StillListed(selected, order, visible, bound) ELSE selected
               /\ highlight' = IF w = ProcessManager /\ selected' = None THEN None ELSE highlight
               /\ UNCHANGED <<at, force>>

\* gfx_render_terminal_content and the two others: loops that hold the window's
\* place.
RenderContent ==
  LET whole == brush \in visible /\ grab \in {None, IndexOf(brush)}
  IN /\ pc = "content"
     /\ GoOn(at + 1)
     /\ covered' = (IF whole THEN covered \ {brush} ELSE covered) \union (Over \intersect Sessions)
     /\ dirty' = IF whole THEN dirty \ {brush} ELSE dirty
     /\ crossed' = (crossed \/ Over # {})
     /\ highlight' = IF whole /\ brush = ProcessManager
                     THEN IF selected = None THEN None ELSE order[selected]
                     ELSE highlight
     /\ UNCHANGED <<windowVars, mouseVars, target, clicked, displaced, shifted, torn>>

\* gfx_render_start_menu: a mouse event may have closed the menu since.
RenderStartMenu ==
  /\ pc = "menu"
  /\ pc' = "idle"
  /\ force' = FALSE
  /\ PaintedOver(IF menu THEN {} ELSE visible)
  /\ UNCHANGED <<windowVars, mouseVars, at, target, brush, dirty, highlight, clicked, displaced,
                 shifted, torn>>

-----------------------------------------------------------------------------
(* display_refresh: only the cells that changed are drawn.                 *)

\* gfx_render_terminal_cell takes the place and the text of the window that is at
\* the index now, visible or not.
TakeCell ==
  /\ pc = "paint"
  /\ pc' = "cell"
  /\ brush' = order[at]
  /\ UNCHANGED <<windowVars, mouseVars, force, at, target, screen, history>>

\* It paints the cell, over whatever lies above that place.
PaintCell ==
  LET over == IF brush \notin visible THEN Between(order, visible, 1, Top)
              ELSE Between(order, visible, IF brush \in Sessions THEN IndexOf(brush) + 1
                                           ELSE IndexOf(brush), Top)
  IN /\ pc = "cell"
     /\ pc' = "paint"
     /\ brush' = None
     /\ covered' = covered \union (over \intersect Sessions)
     /\ crossed' = (crossed \/ (clicked /\ over # {}))
     /\ UNCHANGED <<windowVars, mouseVars, force, at, target, dirty, highlight, clicked, displaced,
                    shifted, torn>>

\* The changes of the text count as drawn, wherever its cells were painted.
EndPaint ==
  /\ pc = "paint"
  /\ pc' = "idle"
  /\ dirty' = dirty \ {target}
  /\ covered' = IF order[at] = target THEN covered ELSE covered \union (dirty \intersect {target})
  /\ at' = None /\ target' = None
  /\ clicked' = FALSE
  /\ UNCHANGED <<windowVars, mouseVars, force, brush, highlight, displaced, shifted, crossed, torn>>

-----------------------------------------------------------------------------
(* display_handle_mouse_event, in the mouse interrupt.                     *)

\* The left button goes down.  Unless that grabs a window, nothing happens until
\* it is released, nor then: the release is taken together with it.
Press ==
  /\ grab = None
  /\ UNCHANGED <<bound, force, pc, at, target, displaced>>

\* The start button.
StartButton ==
  /\ Press
  /\ menu' = ~menu
  /\ UNCHANGED <<order, visible, pending, grab>>
  /\ RenderScene(focus, selected)

\* A menu entry that shows the window at index i and gives f the focus.
Show(i, f) ==
  /\ visible' = visible \union {order[i]}
  /\ order' = ToFront(order, i)
  /\ UNCHANGED pending
  /\ RenderScene(f, selected)

MenuTerminal ==
  /\ Press /\ menu /\ menu' = FALSE
  /\ UNCHANGED grab
  /\ IF HiddenSlots # {}
     THEN Show(Min(HiddenSlots), order[Min(HiddenSlots)])
     ELSE pending' = TRUE /\ UNCHANGED <<order, visible>> /\ RenderScene(focus, selected)

\* The entries Settings and Process Manager, whose window is found unless it is
\* just in tmp; the fourth entry does nothing.
MenuOther(w) ==
  /\ Press /\ menu /\ menu' = FALSE
  /\ UNCHANGED grab
  /\ IF \E i \in Indices : order[i] = w THEN Show(IndexOf(w), None)
     ELSE UNCHANGED <<order, visible, pending>> /\ RenderScene(focus, selected)

\* The selection and the focus after an open menu was closed, which redraws
\* everything.
Selection ==
  IF menu /\ ProcessManager \in Between(order, visible, 1, Top)
  THEN StillListed(selected, order, visible, bound) ELSE selected

Focus == IF menu THEN ValidFocus(focus, order, visible) ELSE focus

\* The press hits the window at index i, after it has closed the menu.
Hit(i) ==
  /\ Press
  /\ order[i] \in visible
  /\ menu' = FALSE
  /\ order' = ToFront(order, i)
  /\ UNCHANGED pending

\* The close button.
Close(i) ==
  LET w == order[i]
  IN /\ Hit(i)
     /\ visible' = visible \ {w}
     /\ UNCHANGED grab
     /\ RenderScene(Focus, IF w = ProcessManager \/ Selection = Top THEN None ELSE Selection)

\* A swatch of the settings window changes the colours.
Swatch(i) ==
  /\ order[i] = Settings
  /\ Hit(i)
  /\ UNCHANGED <<visible, grab>>
  /\ RenderScene(Focus, Selection)

\* A row of the process manager.
SelectRow(i, row) ==
  /\ order[i] = ProcessManager
  /\ Hit(i)
  /\ row \in Rows(order', visible, bound)
  /\ UNCHANGED <<visible, grab>>
  /\ RenderScene(Focus, row)

\* The button KILL: process_manager_kill_selected hides the window.
Kill(i) ==
  /\ order[i] = ProcessManager
  /\ Hit(i)
  /\ visible' = IF Selection = None THEN visible ELSE visible \ {order'[Selection]}
  /\ UNCHANGED grab
  /\ RenderScene(Focus, None)

\* Anywhere else: the window gets the focus; its title and its corner can be
\* dragged until the button is released.
Grab(i, handle) ==
  /\ Hit(i)
  /\ grab' = IF handle THEN Top ELSE None
  /\ UNCHANGED visible
  /\ RenderScene(IF order[i] \in Sessions THEN order[i] ELSE None, Selection)

\* The press hits no window.
Background ==
  /\ Press
  /\ menu' = FALSE
  /\ UNCHANGED <<order, visible, pending, grab>>
  /\ IF menu THEN RenderScene(focus, selected)
     ELSE UNCHANGED <<focus, selected, brush, screen, history>>

\* A move with the button down redraws when the window at index grab is moved.
Drag ==
  /\ grab # None
  /\ UNCHANGED <<order, visible, bound, menu, pending, grab, force, pc, at, target, displaced>>
  /\ RenderScene(focus, selected)

\* Mutant: the end of a drag redraws nothing.
ReleaseLazy ==
  /\ grab # None
  /\ grab' = None
  /\ UNCHANGED <<windowVars, selected, menu, pending, refreshVars, screen, history>>

\* The button is released.
Release ==
  /\ grab # None
  /\ grab' = None
  /\ UNCHANGED <<order, visible, bound, menu, pending, force, pc, at, target, displaced>>
  /\ RenderScene(focus, selected)

MouseEvent ==
  \/ StartButton \/ MenuTerminal \/ Background \/ Drag \/ Release
  \/ \E w \in {Settings, ProcessManager, None} : MenuOther(w)
  \/ \E i \in Indices :
       \/ Close(i) \/ Swatch(i) \/ Kill(i)
       \/ \E row \in Indices : SelectRow(i, row)
       \/ \E handle \in BOOLEAN : Grab(i, handle)

\* keyboard_irq_handler asks display_get_focused_terminal_session.
KeyEvent ==
  /\ focus' = ValidFocus(focus, order, visible)
  /\ UNCHANGED <<order, visible, bound, mouseVars, refreshVars, screen, history>>

\* What a task does in display_refresh.
Display ==
  \/ \E s \in Sessions, full \in BOOLEAN : Refresh(s, full)
  \/ ShowNew \/ SwapDown \/ SwapUp \/ FocusNew
  \/ Draw \/ RenderFrame \/ RenderContent \/ RenderStartMenu
  \/ TakeCell \/ PaintCell \/ EndPaint

\* A torn array is not followed any further.
Torn == torn /\ UNCHANGED vars

Next == (~torn /\ (Display \/ MouseEvent \/ KeyEvent)) \/ Torn

Spec == Init /\ [][Next]_vars

-----------------------------------------------------------------------------
(* Properties.                                                             *)

\* What the button KILL hides is the window whose row the screen showed as
\* selected when the button was pressed, or nothing when no row was, although
\* the selection is an index and every click on a window shifts indices: clicks
\* that would leave it above the process manager's own index make it vanish.
\* Only a terminal created since the row was selected, or just being created,
\* breaks this, or a screen that a mouse event has left wrong.
KillHitsHighlighted ==
  [][pc # "swap" /\ ~shifted /\ ~crossed /\ order'[Top] = ProcessManager
       /\ (\E i \in Indices : Kill(i)) =>
       visible \ visible' = {highlight} \ {None}]_vars

\* There is always a way to a terminal: when all are closed, the start menu's
\* Terminal finds one to show, although it searches only the indices that
\* terminals had at first, because at most two can have left these.  In the middle
\* of a swap a window is at no index.
NeverLockedOut ==
  pc # "swap" /\ ~torn /\ Cardinality(bound) > 2 /\ visible \intersect Sessions = {} =>
    HiddenSlots # {}

\* A key never goes to a ring nobody reads: the session keyboard_irq_handler is
\* told has a task.  Only a new session given another one's window breaks this.
KeysHaveReader ==
  ~displaced /\ ~torn => ValidFocus(focus, order, visible) \in bound \union {None}

\* Between two refreshes the active terminal's text is on the screen, and that of
\* every visible terminal when more than one is counted, whatever was created,
\* shown, closed or brought to the front in the middle of a refresh.  Not so while
\* a window is dragged, nor after a mouse event in the middle of a refresh left it
\* painting where its window no longer is, or over one brought above it.
ScreenIsFresh ==
  pc = "idle" /\ grab = None /\ ~crossed /\ ~torn =>
    /\ ValidFocus(focus, order, visible) \notin dirty \union covered
    /\ VisibleCount > 1 => visible \intersect (dirty \union covered) = {}

=============================================================================
