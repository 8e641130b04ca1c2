------------------------------ MODULE MCDesktop ------------------------------
(***************************************************************************)
(* An instance of Desktop for TLC.  With two sessions everything is        *)
(* explored.  A third session multiplies that, and is there for what only  *)
(* many terminals can do to the array of windows and to the focus.         *)
(* Drawing changes neither the order of the windows nor which are visible  *)
(* or bound, nor does a drag after its first click, and a mouse event may  *)
(* come before the drawing as well as in its middle: once there is a third *)
(* session, a refresh is followed to the point where it starts to draw,    *)
(* and a drag no further than its first click.                             *)
(***************************************************************************)
EXTENDS Desktop

Three == Cardinality(bound) > 2

BeforeDrawing == Three => grab = None /\ pc \in {"idle", "show", "lift", "swap", "draw"}

\* States that differ only in what neither a later step nor a property depends on
\* count as one: anything in a torn state; what the screen shows while a window is
\* dragged, as Release draws everything; what is painted over while ScreenIsFresh
\* says nothing.  With a third session only the windows are followed, not what the
\* screen shows of them nor which row is selected: a row that KILL hides can also be
\* selected just before.  All sessions have tasks then, and a request is dropped.
Look ==
  IF torn THEN <<>>
  ELSE IF Three
  THEN <<windowVars, menu, grab, pc, at, target, brush, displaced>>
  ELSE IF grab # None THEN <<windowVars, mouseVars, refreshVars, displaced, shifted>>
  ELSE <<windowVars, mouseVars, refreshVars, displaced, shifted, crossed, clicked,
         dirty, IF crossed THEN {} ELSE covered, highlight>>

==============================================================================
