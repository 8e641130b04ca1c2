---------------------------- MODULE DesktopProofs ----------------------------
(***************************************************************************)
(* Proofs about Desktop, for every number of terminal slots, of sessions   *)
(* created at the boot and of tasks.                                       *)
(***************************************************************************)
EXTENDS Desktop, FiniteSetTheorems, WellFoundedInduction, TLAPS

\* What the variables of display_refresh hold where it is.
PhaseOK ==
  /\ pc \in {"show", "lift", "swap", "frame", "content", "paint", "cell"} => at \in Indices
  /\ pc \in {"show", "lift", "swap", "paint", "cell"} => target \in Sessions
  /\ pc = "show" => target \in bound
  /\ pc = "swap" => at < Top /\ brush \in Windows
  /\ clicked => pc \in {"paint", "cell"}

Permuted(ord) ==
  /\ \A i, j \in Indices : ord[i] = ord[j] => i = j
  /\ \A w \in Windows : \E i \in Indices : ord[i] = w

\* g_windows with the window that a swap holds in tmp.
Whole == IF pc = "swap" THEN [order EXCEPT ![at + 1] = brush] ELSE order

\* g_windows is only ever permuted: every window is at one index.
OrderOK == Permuted(Whole)

\* While each new session got its own window, a terminal that is shown has a task.
ReadersOK == ~displaced => visible \intersect Sessions \subseteq bound

Stale  == dirty \union covered
Active == ValidFocus(focus, order, visible)

\* The windows a full redraw has still to draw are at the loop's index or above.
Ahead ==
  /\ brush = order[at] /\ brush \in visible
  /\ \A w \in Stale : \E k \in Indices : at <= k /\ order[k] = w

\* An incremental redraw has chosen the active terminal, and paints that one.
Chosen ==
  /\ ~(VisibleCount > 1)
  /\ Active \in {target, None} /\ Active \notin covered
  /\ order[at] = target
  /\ pc = "cell" => brush = target

\* What is not on the screen: nothing between refreshes, unless one terminal at
\* most is counted and another one than the active one is not shown; what a full
\* redraw has yet to reach; and what an incremental redraw is there to draw, or
\* nothing once a mouse event has drawn everything.
FreshOK ==
  /\ Stale \subseteq visible
  /\ grab = None /\ ~crossed =>
       /\ pc = "idle" => Stale = {} \/ (~(VisibleCount > 1) /\ Active \notin Stale)
       /\ pc = "draw" => force \/ Active \notin covered
       /\ pc \in {"frame", "content"} => Stale = {} \/ Ahead
       /\ pc = "menu" => Stale = {}
       /\ pc \in {"paint", "cell"} => IF clicked THEN Stale = {} ELSE Chosen

\* The process manager is shown while it has a selection; unless a terminal was
\* created since, the selected index lies below that of the process manager, or
\* is just that until the end of a drag, and its row is the highlighted one.
SelectionOK ==
  /\ selected # None => ProcessManager \in visible
  /\ grab = None /\ selected = None => highlight = None
  /\ ~shifted /\ selected # None /\ pc # "swap" =>
       /\ \A p \in Indices : order[p] = ProcessManager => selected <= p
       /\ grab = None => /\ selected \in Rows(order, visible, bound)
                         /\ highlight = order[selected]

WindowsOK == OrderOK /\ ReadersOK /\ FreshOK /\ SelectionOK

DesktopInv == TypeOK /\ PhaseOK /\ (~torn => WindowsOK)

-----------------------------------------------------------------------------
(* Indices, windows and searches.                                          *)

LEMMA Numbers ==
  /\ Indices \subseteq Nat /\ Top \in Indices /\ \A i \in Indices : i <= Top
  /\ Sessions \subseteq Windows /\ Sessions \subseteq Nat /\ 0 \in Sessions
  /\ {Settings, ProcessManager} \subseteq Windows \ Sessions
  /\ None \notin Windows /\ None \notin Indices /\ None \notin Sessions
  /\ \A s \in Sessions : 1 + s \in Indices
  /\ TerminalLast \in Indices /\ 1 .. TerminalLast \subseteq Indices
  BY DesktopAssumption DEF Indices, Top, Sessions, Windows, Settings, ProcessManager, None,
     TerminalLast

\* The slot a search from below stops at exists.
LEMMA LeastElement ==
  ASSUME NEW S \in SUBSET Nat, S # {}
  PROVE  Min(S) \in S /\ \A y \in S : Min(S) <= y
<1> DEFINE R == {p \in Nat \X Nat : p[1] < p[2]}
<1>1. IsWellFoundedOn(R, Nat)
  BY NatLessThanWellFounded, Zenon DEF OpToRel
<1> HIDE DEF R
<1>2. PICK x \in S : \A y \in S : ~(<<y, x>> \in R)
  BY <1>1, WFMin
<1>3. \A u, v \in Nat : u < v => <<u, v>> \in R
  BY SMT DEF R
<1>4. \A y \in S : y \in Nat /\ x \in Nat /\ ~(y < x)
  BY <1>2, <1>3, Zenon
<1>5. \A y \in S : x =< y
  BY <1>4
<1> QED
  BY <1>5, Zenon DEF Min

\* So does the one a search from above stops at.
LEMMA GreatestElement ==
  ASSUME NEW S \in SUBSET Indices, S # {}
  PROVE  Max(S) \in S
<1> DEFINE D == {Top - i : i \in S}
<1>1. D \in SUBSET Nat /\ D # {}
  <2>1. \A i \in S : Top - i \in Nat
    BY Numbers
  <2> QED
    BY <2>1
<1>2. Min(D) \in D /\ \A y \in D : Min(D) <= y
  BY <1>1, LeastElement
<1>3. PICK x \in S : Min(D) = Top - x
  BY <1>2
<1>4. \A y \in S : Top - x <= Top - y
  BY <1>2, <1>3
<1>5. \A y \in S : x >= y
  BY <1>4, Numbers
<1> QED
  BY <1>3, <1>5 DEF Max

LEMMA BetweenFacts ==
  ASSUME NEW ord \in [Indices -> Windows], NEW vis \in SUBSET Windows, NEW i \in Int, NEW j \in Int
  PROVE  /\ Between(ord, vis, i, j) \subseteq vis
         /\ \A w \in Between(ord, vis, i, j) : \E k \in Indices : i <= k /\ k <= j /\ ord[k] = w
         /\ \A k \in Indices : i <= k /\ k <= j /\ ord[k] \in vis => ord[k] \in Between(ord, vis, i, j)
<1>1. \A k \in Indices : k \in Int
  BY Numbers
<1>2. \A k \in Indices : k \in i .. j <=> i <= k /\ k <= j
  BY <1>1
<1> QED
  BY <1>2 DEF Between

\* While no window is in tmp, a visible window is one the array holds.
LEMMA AllBetween ==
  ASSUME NEW ord \in [Indices -> Windows], Permuted(ord), NEW vis \in SUBSET Windows
  PROVE  Between(ord, vis, 1, Top) = vis
<1>1. 1 \in Int /\ Top \in Int /\ \A k \in Indices : 1 <= k /\ k <= Top
  BY Numbers DEF Indices
<1> QED
  BY <1>1, BetweenFacts DEF Permuted

\* ensure_valid_terminal_focus answers with a terminal that is visible, or with
\* none; asked again it gives the same answer.
LEMMA ValidFocusFacts ==
  ASSUME NEW f \in Sessions \union {None}, NEW ord \in [Indices -> Windows],
         NEW vis \in SUBSET Windows
  PROVE  /\ ValidFocus(f, ord, vis) \in (Sessions \intersect vis) \union {None}
         /\ ValidFocus(ValidFocus(f, ord, vis), ord, vis) = ValidFocus(f, ord, vis)
         /\ ValidFocus(f, ord, vis) = None =>
              \A i \in Indices : ord[i] \notin Sessions \intersect vis
<1> DEFINE shown == {i \in Indices : ord[i] \in Sessions \intersect vis}
<1>1. 1 \in Int /\ Top \in Int /\ \A k \in Indices : 1 <= k /\ k <= Top
  BY Numbers DEF Indices
<1>2. /\ Between(ord, vis, 1, Top) \subseteq vis
      /\ \A k \in Indices : ord[k] \in vis => ord[k] \in Between(ord, vis, 1, Top)
  BY <1>1, BetweenFacts
<1>3. shown # {} => Max(shown) \in Indices /\ ord[Max(shown)] \in Sessions \intersect vis
  BY GreatestElement
<1>4. ValidFocus(f, ord, vis) = IF f \in Between(ord, vis, 1, Top) THEN f
                                ELSE IF shown = {} THEN None ELSE ord[Max(shown)]
  BY DEF ValidFocus
<1>5. \A g : ValidFocus(g, ord, vis) = IF g \in Between(ord, vis, 1, Top) THEN g
                                       ELSE IF shown = {} THEN None ELSE ord[Max(shown)]
  BY DEF ValidFocus
<1>6. None \notin vis /\ None \notin Sessions
  BY Numbers
<1>7. f \in vis => f \in Sessions
  BY <1>6
<1> HIDE DEF shown
<1>8. CASE f \in Between(ord, vis, 1, Top)
  BY <1>2, <1>4, <1>5, <1>6, <1>7, <1>8
<1>9. CASE f \notin Between(ord, vis, 1, Top) /\ shown # {}
  BY <1>2, <1>3, <1>4, <1>5, <1>6, <1>9
<1>10. CASE f \notin Between(ord, vis, 1, Top) /\ shown = {}
  <2>1. ValidFocus(f, ord, vis) = None /\ ValidFocus(None, ord, vis) = None
    BY <1>2, <1>5, <1>6, <1>10
  <2>2. \A i \in Indices : ord[i] \notin Sessions \intersect vis
    BY <1>10 DEF shown
  <2> QED
    BY <2>1, <2>2
<1> QED
  BY <1>8, <1>9, <1>10

\* bring_window_to_front permutes the windows.
LEMMA ToFrontFacts ==
  ASSUME NEW ord \in [Indices -> Windows], NEW i \in Indices
  PROVE  /\ ToFront(ord, i) \in [Indices -> Windows]
         /\ ToFront(ord, i)[Top] = ord[i]
         /\ \A k \in Indices : k < i => ToFront(ord, i)[k] = ord[k]
         /\ \A k \in Indices : i <= k /\ k # Top =>
              k + 1 \in Indices /\ ToFront(ord, i)[k] = ord[k + 1]
         /\ Permuted(ord) => Permuted(ToFront(ord, i))
<1> DEFINE new == ToFront(ord, i)
<1>1. \A k \in Indices : k # Top => k + 1 \in Indices
  BY Numbers DEF Indices
<1>2. new \in [Indices -> Windows]
  BY <1>1, Numbers DEF ToFront
<1>3. new[Top] = ord[i]
  BY Numbers DEF ToFront
<1>4. \A k \in Indices : k < i => new[k] = ord[k]
  BY DEF ToFront
<1>5. \A k \in Indices : i <= k /\ k # Top => new[k] = ord[k + 1]
  BY Numbers DEF ToFront
<1> HIDE DEF new
<1>6. ASSUME Permuted(ord), NEW j \in Indices, NEW k \in Indices, new[j] = new[k] PROVE j = k
  <2>1. \A a \in Indices : a < i \/ (i <= a /\ a # Top) \/ a = Top
    BY Numbers
  <2> QED
    BY <1>1, <1>3, <1>4, <1>5, <1>6, <2>1, Numbers DEF Permuted
<1>7. ASSUME Permuted(ord), NEW w \in Windows PROVE \E k \in Indices : new[k] = w
  <2>1. PICK k \in Indices : ord[k] = w
    BY <1>7 DEF Permuted
  <2>2. CASE k < i
    BY <1>4, <2>1, <2>2
  <2>3. CASE k = i
    BY <1>3, <2>1, <2>3, Numbers
  <2>4. CASE k > i
    <3>1. k - 1 \in Indices /\ k - 1 # Top /\ i <= k - 1 /\ (k - 1) + 1 = k
      BY <2>4, Numbers DEF Indices
    <3> QED
      BY <1>5, <2>1, <3>1
  <2> QED
    BY <2>2, <2>3, <2>4, Numbers
<1>8. Permuted(ord) => Permuted(new)
  BY <1>6, <1>7 DEF Permuted
<1> QED
  BY <1>1, <1>2, <1>3, <1>4, <1>5, <1>8 DEF new

\* So does each swap it consists of.
LEMMA SwapPermutes ==
  ASSUME NEW ord \in [Indices -> Windows], Permuted(ord), NEW a \in Indices, a < Top,
         NEW new, new = [[ord EXCEPT ![a] = ord[a + 1]] EXCEPT ![a + 1] = ord[a]]
  PROVE  Permuted(new)
<1>1. a + 1 \in Indices /\ a # a + 1
  BY Numbers DEF Indices
<1>2. /\ new[a] = ord[a + 1] /\ new[a + 1] = ord[a]
      /\ \A k \in Indices : k # a /\ k # a + 1 => new[k] = ord[k]
  BY <1>1
<1>3. ASSUME NEW j \in Indices, NEW k \in Indices, new[j] = new[k] PROVE j = k
  BY <1>1, <1>2, <1>3 DEF Permuted
<1>4. ASSUME NEW w \in Windows PROVE \E k \in Indices : new[k] = w
  <2>1. PICK k \in Indices : ord[k] = w
    BY DEF Permuted
  <2> QED
    BY <1>1, <1>2, <2>1
<1> QED
  BY <1>3, <1>4 DEF Permuted

\* A window that the array holds is found.
LEMMA IndexOfFacts ==
  ASSUME NEW w, \E i \in Indices : order[i] = w
  PROVE  IndexOf(w) \in Indices /\ order[IndexOf(w)] = w
  BY DEF IndexOf

\* terminal_window finds a terminal, the one with the focus if there is one.
LEMMA ActiveIndexFacts ==
  ASSUME Permuted(order), NEW f \in Sessions \union {None}
  PROVE  /\ ActiveIndex(f) \in Indices
         /\ order[ActiveIndex(f)] \in Sessions
         /\ f # None => order[ActiveIndex(f)] = f
<1> DEFINE S == {i \in Indices : order[i] \in Sessions /\ (f # None => order[i] = f)}
<1>1. S # {}
  <2>1. PICK i \in Indices : order[i] = IF f = None THEN 0 ELSE f
    BY Numbers DEF Permuted
  <2> QED
    BY <2>1, Numbers
<1>2. S \in SUBSET Nat
  BY Numbers
<1>3. Min(S) \in S
  BY <1>1, <1>2, LeastElement
<1> QED
  BY <1>3 DEF ActiveIndex

\* So is a slot to show a terminal from, where there is one.
LEMMA HiddenSlotFacts ==
  ASSUME TypeOK, HiddenSlots # {}
  PROVE  Min(HiddenSlots) \in Indices /\ order[Min(HiddenSlots)] \in bound \ visible
<1>1. HiddenSlots \in SUBSET Nat
  BY Numbers DEF HiddenSlots
<1>2. Min(HiddenSlots) \in HiddenSlots
  BY <1>1, LeastElement
<1> QED
  BY <1>2, Numbers DEF HiddenSlots

LEMMA FreeSessionFacts ==
  ASSUME TypeOK, bound # Sessions
  PROVE  Min(Sessions \ bound) \in Sessions \ bound
<1>1. Sessions \ bound # {} /\ Sessions \ bound \in SUBSET Nat
  BY Numbers DEF TypeOK
<1> QED
  BY <1>1, LeastElement

-----------------------------------------------------------------------------
(* The mouse interrupt.                                                    *)

\* A redraw leaves no text unshown unless a window is held, and leaves a selection
\* only with its row highlighted.
LEMMA RenderFacts ==
  ASSUME NEW sel \in Indices \union {None}, NEW f \in Sessions \union {None}, RenderScene(f, sel),
         shifted \in BOOLEAN, torn \in BOOLEAN, brush \in Windows \union {None},
         dirty \subseteq Sessions,
         order' \in [Indices -> Windows], visible' \in SUBSET Windows, bound' \subseteq Sessions,
         grab' \in Indices \union {None}
  PROVE  /\ focus' \in Sessions \union {None}
         /\ selected' \in {sel, None}
         /\ brush' \in Windows \union {None} /\ (pc = "swap" => brush' = brush)
         /\ dirty' \subseteq Sessions /\ covered' \subseteq Sessions
         /\ highlight' \in Windows \union {None}
         /\ {clicked', crossed', shifted', torn'} \subseteq BOOLEAN
         /\ clicked' <=> pc \in {"paint", "cell"}
         /\ (dirty' \union covered') \subseteq visible'
         /\ grab' = None /\ Permuted(order') => dirty' = {} /\ covered' = {}
<1> DEFINE s == IF ProcessManager \in Drawn THEN StillListed(sel, order', visible', bound') ELSE sel
<1>1. /\ focus' = ValidFocus(f, order', visible')
      /\ selected' = s
      /\ brush' = Held
      /\ dirty' = (dirty \intersect visible') \ Drawn
      /\ covered' = (visible' \intersect Sessions) \ Drawn
      /\ highlight' = IF ProcessManager \in Drawn /\ s # None THEN order'[s] ELSE None
      /\ clicked' = (pc \in {"paint", "cell"})
      /\ crossed' = FALSE
      /\ shifted' = (shifted /\ s # None /\ s = selected)
      /\ torn' = (torn \/ (pc = "swap" /\ <<order', visible'>> # <<order, visible>>))
  BY DEF RenderScene
<1>2. s \in {sel, None}
  BY DEF StillListed
<1>3. Held \in {brush, None} /\ (pc = "swap" => Held = brush)
  BY DEF Held
<1>4. grab' = None /\ Permuted(order') => Drawn = visible'
  BY AllBetween DEF Drawn
<1> HIDE DEF s
<1>5. focus' \in Sessions \union {None}
  BY <1>1, ValidFocusFacts
<1>6. highlight' \in Windows \union {None}
  BY <1>1, <1>2, Numbers
<1>7. /\ dirty' \subseteq Sessions /\ covered' \subseteq Sessions
      /\ (dirty' \union covered') \subseteq visible'
      /\ grab' = None /\ Permuted(order') => dirty' = {} /\ covered' = {}
  BY <1>1, <1>4
<1>8. {clicked', crossed', shifted', torn'} \subseteq BOOLEAN
  <2>1. clicked' \in BOOLEAN
    BY <1>1
  <2>2. crossed' \in BOOLEAN
    BY <1>1
  <2>3. shifted' \in BOOLEAN
    BY <1>1
  <2>4. torn' \in BOOLEAN
    BY <1>1
  <2> QED
    BY <2>1, <2>2, <2>3, <2>4
<1>9. selected' \in {sel, None} /\ clicked' = (pc \in {"paint", "cell"})
  BY <1>1, <1>2
<1>10. brush' \in Windows \union {None} /\ (pc = "swap" => brush' = brush)
  BY <1>1, <1>3
<1> QED
  BY <1>5, <1>6, <1>7, <1>8, <1>9, <1>10

LEMMA RenderSelection ==
  ASSUME NEW sel \in Indices \union {None}, NEW f, RenderScene(f, sel),
         order' \in [Indices -> Windows], visible' \in SUBSET Windows,
         pc' = pc, pc # "swap" => Permuted(order'),
         sel # None => ProcessManager \in visible',
         sel # None /\ pc # "swap" /\ (~shifted \/ sel # selected) =>
           \A p \in Indices : order'[p] = ProcessManager => sel <= p
  PROVE  SelectionOK'
<1> DEFINE s == IF ProcessManager \in Drawn THEN StillListed(sel, order', visible', bound') ELSE sel
<1>1. /\ selected' = s
      /\ highlight' = IF ProcessManager \in Drawn /\ s # None THEN order'[s] ELSE None
      /\ shifted' = (shifted /\ s # None /\ s = selected)
  BY DEF RenderScene
<1>2. s = sel \/ s = None
  BY DEF StillListed
<1>3. grab' = None /\ pc # "swap" => Drawn = visible'
  BY AllBetween DEF Drawn
<1>4. ProcessManager \in Drawn /\ s # None => s \in Rows(order', visible', bound')
  BY DEF StillListed
<1> HIDE DEF s
<1>5. selected' # None => ProcessManager \in visible'
  BY <1>1, <1>2
<1>6. grab' = None /\ selected' = None => highlight' = None
  BY <1>1
<1>7. ASSUME ~shifted', selected' # None, pc # "swap"
      PROVE  /\ \A p \in Indices : order'[p] = ProcessManager => selected' <= p
             /\ grab' = None => /\ selected' \in Rows(order', visible', bound')
                                /\ highlight' = order'[selected']
  <2>1. s = sel /\ s # None /\ (~shifted \/ s # selected)
    BY <1>1, <1>2, <1>7
  <2>2. \A p \in Indices : order'[p] = ProcessManager => s <= p
    BY <1>7, <2>1
  <2>3. grab' = None => s \in Rows(order', visible', bound') /\ highlight' = order'[s]
    BY <1>1, <1>3, <1>4, <1>5, <1>7, <2>1
  <2> QED
    BY <1>1, <2>2, <2>3
<1> QED
  BY <1>5, <1>6, <1>7 DEF SelectionOK, Rows, ProcessManager, Indices, None

\* A redraw re-establishes the whole invariant, or tears the array.
LEMMA SceneKeeps ==
  ASSUME DesktopInv, ~torn, NEW sel \in Indices \union {None},
         NEW f \in Sessions \union {None}, RenderScene(f, sel),
         order' \in [Indices -> Windows], visible' \in SUBSET Windows,
         grab' \in Indices \union {None}, {menu', pending'} \subseteq BOOLEAN,
         UNCHANGED <<bound, force, pc, at, target, displaced>>,
         Permuted(order) => Permuted(order'),
         ~displaced => visible' \intersect Sessions \subseteq bound,
         sel # None => ProcessManager \in visible',
         sel # None /\ pc # "swap" /\ (~shifted \/ sel # selected) =>
           \A p \in Indices : order'[p] = ProcessManager => sel <= p
  PROVE  DesktopInv'
<1>1. /\ shifted \in BOOLEAN /\ torn \in BOOLEAN /\ brush \in Windows \union {None}
      /\ dirty \subseteq Sessions /\ bound' \subseteq Sessions
  BY DEF DesktopInv, TypeOK
<1>2. /\ focus' \in Sessions \union {None}
      /\ selected' \in {sel, None}
      /\ brush' \in Windows \union {None} /\ (pc = "swap" => brush' = brush)
      /\ dirty' \subseteq Sessions /\ covered' \subseteq Sessions
      /\ highlight' \in Windows \union {None}
      /\ {clicked', crossed', shifted', torn'} \subseteq BOOLEAN
      /\ clicked' <=> pc \in {"paint", "cell"}
      /\ (dirty' \union covered') \subseteq visible'
      /\ grab' = None /\ Permuted(order') => dirty' = {} /\ covered' = {}
  BY <1>1, RenderFacts
<1>3. TypeOK'
  BY <1>1, <1>2 DEF DesktopInv, TypeOK
<1>4. PhaseOK'
  BY <1>2 DEF DesktopInv, PhaseOK
<1>5. pc # "swap" => Permuted(order')
  BY DEF DesktopInv, WindowsOK, OrderOK, Whole
<1>6. ASSUME ~torn' PROVE OrderOK'
  <2>1. CASE pc = "swap"
    <3>1. order' = order
      BY <1>6, <2>1 DEF RenderScene
    <3>2. Whole' = Whole
      BY <1>2, <2>1, <3>1 DEF Whole
    <3> QED
      BY <3>2 DEF DesktopInv, WindowsOK, OrderOK, Permuted
  <2>2. CASE pc # "swap"
    <3>1. Whole' = order'
      BY <2>2 DEF Whole
    <3> QED
      BY <1>5, <2>2, <3>1 DEF OrderOK, Permuted
  <2> QED
    BY <2>1, <2>2
<1>7. ReadersOK'
  BY DEF ReadersOK
<1>8. FreshOK'
  <2>1. Stale' = dirty' \union covered'
    BY DEF Stale
  <2>2. ASSUME grab' = None, pc # "swap" PROVE Stale' = {} /\ covered' = {} /\ Active' \notin covered'
    BY <1>2, <1>5, <2>1, <2>2
  <2>3. Stale' \subseteq visible'
    BY <1>2, <2>1
  <2> QED
    BY <1>2, <2>2, <2>3 DEF FreshOK
<1>9. SelectionOK'
  BY <1>5, RenderSelection
<1> QED
  BY <1>3, <1>4, <1>6, <1>7, <1>8, <1>9 DEF DesktopInv, WindowsOK

\* The selected index stays at or below the process manager's when a window is
\* brought to the front.
LEMMA FrontBelow ==
  ASSUME DesktopInv, ~torn, grab = None, NEW i \in Indices, order' = ToFront(order, i),
         selected # None, ~shifted, pc # "swap", NEW p \in Indices, order'[p] = ProcessManager
  PROVE  selected <= p
<1> USE DEF DesktopInv, WindowsOK
<1>1. selected \in Indices /\ order[selected] \in Sessions /\ order \in [Indices -> Windows]
  BY DEF TypeOK, SelectionOK, Rows
<1>2. \A q \in Indices : order[q] = ProcessManager => selected < q
  BY <1>1, Numbers DEF SelectionOK
<1>3. CASE p = Top
  BY <1>1, <1>3, Numbers
<1>4. CASE p < i
  BY <1>1, <1>2, <1>4, ToFrontFacts, Numbers
<1>5. CASE i <= p /\ p # Top
  <2>1. p + 1 \in Indices /\ order[p + 1] = ProcessManager
    BY <1>1, <1>5, ToFrontFacts
  <2> QED
    BY <1>1, <1>2, <2>1, Numbers
<1> QED
  BY <1>3, <1>4, <1>5, Numbers

\* What the mouse events that hit a window or a menu entry have in common.
LEMMA FrontKeeps ==
  ASSUME DesktopInv, ~torn, grab = None, NEW i \in Indices, order' = ToFront(order, i),
         NEW sel \in {selected, None}, NEW f \in Sessions \union {None}, RenderScene(f, sel),
         visible' \in SUBSET Windows, grab' \in {None, Top},
         {menu', pending'} \subseteq BOOLEAN,
         UNCHANGED <<bound, force, pc, at, target, displaced>>,
         ~displaced => visible' \intersect Sessions \subseteq bound,
         sel # None => ProcessManager \in visible'
  PROVE  DesktopInv'
<1>1. order \in [Indices -> Windows] /\ sel \in Indices \union {None}
  BY DEF DesktopInv, TypeOK
<1>2. order' \in [Indices -> Windows] /\ (Permuted(order) => Permuted(order'))
  BY <1>1, ToFrontFacts
<1>3. sel # None /\ pc # "swap" /\ (~shifted \/ sel # selected) =>
        \A p \in Indices : order'[p] = ProcessManager => sel <= p
  BY FrontBelow
<1>4. grab' \in Indices \union {None}
  BY Numbers
<1> QED
  BY <1>1, <1>2, <1>3, <1>4, SceneKeeps

\* A redraw in which no window moves.
LEMMA StillKeeps ==
  ASSUME DesktopInv, ~torn, NEW f \in Sessions \union {None}, RenderScene(f, selected),
         UNCHANGED <<order, visible, bound, force, pc, at, target, displaced>>,
         grab' \in {grab, None}, {menu', pending'} \subseteq BOOLEAN
  PROVE  DesktopInv'
<1>1. /\ selected \in Indices \union {None} /\ grab' \in Indices \union {None}
      /\ order' \in [Indices -> Windows] /\ visible' \in SUBSET Windows
  BY DEF DesktopInv, TypeOK
<1>2. /\ ~displaced => visible' \intersect Sessions \subseteq bound
      /\ selected # None => ProcessManager \in visible'
      /\ selected # None /\ pc # "swap" /\ (~shifted \/ selected # selected) =>
           \A p \in Indices : order'[p] = ProcessManager => selected <= p
      /\ Permuted(order) => Permuted(order')
  BY DEF DesktopInv, WindowsOK, ReadersOK, SelectionOK, Permuted
<1> QED
  BY <1>1, <1>2, SceneKeeps

LEMMA SelectionFacts ==
  ASSUME DesktopInv, ~torn
  PROVE  /\ Selection \in {selected, None}
         /\ selected \in Indices \union {None}
         /\ selected # None => ProcessManager \in visible
         /\ focus \in Sessions \union {None} /\ Focus \in Sessions \union {None}
<1>1. /\ focus \in Sessions \union {None} /\ order \in [Indices -> Windows]
      /\ visible \in SUBSET Windows
  BY DEF DesktopInv, TypeOK
<1>2. Focus \in Sessions \union {None}
  BY <1>1, ValidFocusFacts DEF Focus
<1> QED
  BY <1>1, <1>2 DEF Selection, StillListed, DesktopInv, WindowsOK, SelectionOK, TypeOK

\* Show leaves a terminal shown only when it has a task, and hides nothing.
LEMMA ShowKeeps ==
  ASSUME DesktopInv, ~torn, NEW i \in Indices, NEW f \in Sessions \union {None}, Show(i, f),
         order[i] \in Sessions => order[i] \in bound,
         Press, menu' = FALSE, UNCHANGED grab
  PROVE  DesktopInv'
<1>1. /\ grab = None /\ order' = ToFront(order, i) /\ grab' \in {None, Top}
      /\ UNCHANGED <<bound, force, pc, at, target, displaced>> /\ RenderScene(f, selected)
  BY DEF Press, Show
<1>2. {menu', pending'} \subseteq BOOLEAN
  BY DEF Show, DesktopInv, TypeOK
<1>3. visible' \in SUBSET Windows
  BY DEF Show, DesktopInv, TypeOK
<1>4. ~displaced => visible' \intersect Sessions \subseteq bound
  BY DEF Show, DesktopInv, WindowsOK, ReadersOK
<1>5. selected # None => ProcessManager \in visible'
  BY DEF Show, DesktopInv, WindowsOK, SelectionOK
<1> QED
  BY <1>1, <1>2, <1>3, <1>4, <1>5, FrontKeeps

LEMMA MenuTerminalKeeps == ASSUME DesktopInv, ~torn, MenuTerminal PROVE DesktopInv'
<1>1. CASE HiddenSlots # {}
  <2> DEFINE i == Min(HiddenSlots)
  <2>1. i \in Indices /\ order[i] \in bound /\ order[i] \in Sessions
    BY <1>1, HiddenSlotFacts DEF DesktopInv, TypeOK
  <2>2. Show(i, order[i]) /\ Press /\ menu' = FALSE /\ UNCHANGED grab
    BY <1>1 DEF MenuTerminal
  <2> HIDE DEF i
  <2> QED
    BY <2>1, <2>2, ShowKeeps
<1>2. CASE HiddenSlots = {}
  <2>1. /\ RenderScene(focus, selected)
        /\ UNCHANGED <<order, visible, bound, force, pc, at, target, displaced>>
        /\ grab' \in {grab, None} /\ {menu', pending'} \subseteq BOOLEAN
    BY <1>2 DEF MenuTerminal, Press
  <2> QED
    BY <2>1, SelectionFacts, StillKeeps
<1> QED
  BY <1>1, <1>2

LEMMA MenuOtherKeeps ==
  ASSUME DesktopInv, ~torn, NEW w \in {Settings, ProcessManager, None}, MenuOther(w)
  PROVE  DesktopInv'
<1>1. CASE \E i \in Indices : order[i] = w
  <2>1. IndexOf(w) \in Indices /\ order[IndexOf(w)] = w /\ w \notin Sessions
    BY <1>1, IndexOfFacts, Numbers
  <2>2. Show(IndexOf(w), None) /\ Press /\ menu' = FALSE /\ UNCHANGED grab
    BY <1>1 DEF MenuOther
  <2> QED
    BY <2>1, <2>2, ShowKeeps
<1>2. CASE ~\E i \in Indices : order[i] = w
  <2>1. /\ RenderScene(focus, selected)
        /\ UNCHANGED <<order, visible, bound, force, pc, at, target, displaced, pending>>
        /\ grab' \in {grab, None} /\ menu' = FALSE
    BY <1>2 DEF MenuOther, Press
  <2>2. {menu', pending'} \subseteq BOOLEAN
    BY <2>1 DEF DesktopInv, TypeOK
  <2> QED
    BY <2>1, <2>2, SelectionFacts, StillKeeps
<1> QED
  BY <1>1, <1>2

\* What a press on a window leaves as it is.
LEMMA HitFacts ==
  ASSUME DesktopInv, NEW i \in Indices, Hit(i)
  PROVE  /\ grab = None /\ order' = ToFront(order, i) /\ order' \in [Indices -> Windows]
         /\ Permuted(order) => Permuted(order')
         /\ order'[Top] = order[i] /\ order[i] \in visible
         /\ UNCHANGED <<bound, force, pc, at, target, displaced>>
         /\ {menu', pending'} \subseteq BOOLEAN
<1>1. /\ grab = None /\ order' = ToFront(order, i) /\ order[i] \in visible
      /\ UNCHANGED <<bound, force, pc, at, target, displaced>> /\ menu' = FALSE /\ pending' = pending
  BY DEF Hit, Press
<1>2. order \in [Indices -> Windows] /\ {menu', pending'} \subseteq BOOLEAN
  BY <1>1 DEF DesktopInv, TypeOK
<1> QED
  BY <1>1, <1>2, ToFrontFacts

\* A hit that shows nothing new, and what it asks of the redraw.
LEMMA HitKeeps ==
  ASSUME DesktopInv, ~torn, NEW i \in Indices, Hit(i), visible' \subseteq visible,
         grab' \in {None, Top}, NEW sel \in {selected, None},
         NEW f \in Sessions \union {None}, RenderScene(f, sel),
         sel # None => ProcessManager \in visible'
  PROVE  DesktopInv'
<1>1. visible' \in SUBSET Windows /\ (~displaced => visible' \intersect Sessions \subseteq bound)
  BY DEF DesktopInv, TypeOK, WindowsOK, ReadersOK
<1> QED
  BY <1>1, HitFacts, FrontKeeps

LEMMA CloseKeeps == ASSUME DesktopInv, ~torn, NEW i \in Indices, Close(i) PROVE DesktopInv'
<1> DEFINE sel == IF order[i] = ProcessManager \/ Selection = Top THEN None ELSE Selection
<1>1. Hit(i) /\ visible' = visible \ {order[i]} /\ grab' = grab /\ RenderScene(Focus, sel)
  BY DEF Close
<1>2. sel \in {selected, None} /\ (sel # None => ProcessManager \in visible')
  BY <1>1, SelectionFacts
<1> HIDE DEF sel
<1> QED
  BY <1>1, <1>2, SelectionFacts, HitFacts, HitKeeps

LEMMA SwatchKeeps == ASSUME DesktopInv, ~torn, NEW i \in Indices, Swatch(i) PROVE DesktopInv'
<1>1. Hit(i) /\ UNCHANGED <<visible, grab>> /\ RenderScene(Focus, Selection)
  BY DEF Swatch
<1> QED
  BY <1>1, SelectionFacts, HitFacts, HitKeeps

LEMMA GrabKeeps ==
  ASSUME DesktopInv, ~torn, NEW i \in Indices, NEW handle \in BOOLEAN, Grab(i, handle)
  PROVE  DesktopInv'
<1> DEFINE f == IF order[i] \in Sessions THEN order[i] ELSE None
<1>1. Hit(i) /\ visible' = visible /\ RenderScene(f, Selection) /\ grab' \in {None, Top}
  BY DEF Grab
<1>2. f \in Sessions \union {None}
  OBVIOUS
<1> HIDE DEF f
<1> QED
  BY <1>1, <1>2, SelectionFacts, HitKeeps

\* A row lies below the process manager, which the click has brought to the top.
LEMMA SelectRowKeeps ==
  ASSUME DesktopInv, ~torn, NEW i \in Indices, NEW row \in Indices, SelectRow(i, row)
  PROVE  DesktopInv'
<1>1. /\ Hit(i) /\ order[i] = ProcessManager /\ UNCHANGED <<visible, grab>>
      /\ RenderScene(Focus, row)
  BY DEF SelectRow
<1>2. /\ visible' \in SUBSET Windows /\ (~displaced => visible' \intersect Sessions \subseteq bound)
      /\ grab' \in Indices \union {None} /\ ProcessManager \in visible'
  BY <1>1, HitFacts DEF DesktopInv, TypeOK, WindowsOK, ReadersOK
<1>3. pc # "swap" => Permuted(order)
  BY DEF DesktopInv, WindowsOK, OrderOK, Whole
<1>4. pc # "swap" => \A p \in Indices : order'[p] = ProcessManager => p = Top
  BY <1>1, <1>3, HitFacts, Numbers DEF Permuted
<1>5. pc # "swap" => \A p \in Indices : order'[p] = ProcessManager => row <= p
  BY <1>4, Numbers
<1> QED
  BY <1>1, <1>2, <1>5, HitFacts, SelectionFacts, SceneKeeps

LEMMA KillKeeps == ASSUME DesktopInv, ~torn, NEW i \in Indices, Kill(i) PROVE DesktopInv'
<1>1. Hit(i) /\ grab' = grab /\ RenderScene(Focus, None) /\ visible' \subseteq visible
  BY DEF Kill
<1> QED
  BY <1>1, SelectionFacts, HitFacts, HitKeeps

LEMMA BackgroundKeeps == ASSUME DesktopInv, ~torn, Background PROVE DesktopInv'
<1>1. CASE menu
  <2>1. /\ RenderScene(focus, selected)
        /\ UNCHANGED <<order, visible, bound, force, pc, at, target, displaced, pending>>
        /\ grab' \in {grab, None} /\ menu' = FALSE
    BY <1>1 DEF Background, Press
  <2>2. {menu', pending'} \subseteq BOOLEAN
    BY <2>1 DEF DesktopInv, TypeOK
  <2> QED
    BY <2>1, <2>2, SelectionFacts, StillKeeps
<1>2. CASE ~menu
  <2>1. UNCHANGED <<order, visible, bound, focus, selected, pending, grab, force, pc, at, target,
                    brush, dirty, covered, highlight, clicked, displaced, shifted, crossed, torn>>
        /\ menu' = FALSE
    BY <1>2 DEF Background, Press, screen, history
  <2>2. TypeOK' /\ PhaseOK'
    BY <2>1 DEF DesktopInv, TypeOK, PhaseOK
  <2>3. Whole' = Whole /\ Stale' = Stale /\ Active' = Active /\ VisibleCount' = VisibleCount
    BY <2>1 DEF Whole, Stale, Active, VisibleCount
  <2>4. WindowsOK => WindowsOK'
    BY <2>1, <2>3 DEF WindowsOK, OrderOK, Permuted, ReadersOK, FreshOK, Ahead, Chosen, SelectionOK
  <2> QED
    BY <2>1, <2>2, <2>4 DEF DesktopInv
<1> QED
  BY <1>1, <1>2

LEMMA MouseKeeps == ASSUME DesktopInv, ~torn, MouseEvent PROVE DesktopInv'
<1>1. CASE StartButton \/ Drag \/ Release
  <2>1. /\ RenderScene(focus, selected)
        /\ UNCHANGED <<order, visible, bound, force, pc, at, target, displaced, pending>>
        /\ grab' \in {grab, None} /\ menu' \in {menu, ~menu}
    BY <1>1 DEF StartButton, Drag, Release, Press
  <2>2. {menu', pending'} \subseteq BOOLEAN
    BY <2>1 DEF DesktopInv, TypeOK
  <2> QED
    BY <2>1, <2>2, SelectionFacts, StillKeeps
<1> QED
  BY <1>1, MenuTerminalKeeps, BackgroundKeeps, MenuOtherKeeps, CloseKeeps, SwatchKeeps, KillKeeps,
     SelectRowKeeps, GrabKeeps DEF MouseEvent


-----------------------------------------------------------------------------
(* display_refresh.                                                        *)

\* Outside a swap g_windows is whole.
LEMMA WholeFacts ==
  ASSUME DesktopInv, ~torn, pc # "swap"
  PROVE  Permuted(order) /\ order \in [Indices -> Windows] /\ visible \in SUBSET Windows
  BY DEF DesktopInv, TypeOK, WindowsOK, OrderOK, Whole

LEMMA RefreshKeeps ==
  ASSUME DesktopInv, ~torn, NEW s \in Sessions, NEW full \in BOOLEAN, Refresh(s, full)
  PROVE  DesktopInv'
<1> DEFINE new == IF pending /\ bound # Sessions /\ Cardinality(bound) + 1 < MaxTasks
                  THEN {Min(Sessions \ bound)} ELSE {}
<1> USE DEF DesktopInv
<1>1. /\ pc = "idle" /\ s \in bound /\ pending' = FALSE /\ force' = (force \/ full)
      /\ bound' = bound \union new
      /\ IF new = {} THEN pc' = "draw" /\ UNCHANGED <<at, target>>
         ELSE pc' = "show" /\ at' = 1 + Min(new) /\ target' = Min(new)
      /\ dirty' = (dirty \union {s} \union new) \intersect visible
      /\ UNCHANGED <<order, visible, focus, selected, menu, grab, brush, covered, highlight,
                     clicked, displaced, shifted, crossed, torn>>
  BY Zenon DEF Refresh, history
<1>2. new \in SUBSET Sessions
  BY FreeSessionFacts DEF TypeOK
<1>3. new # {} => Min(new) \in new
  BY <1>2, Numbers, LeastElement
<1> HIDE DEF new
<1>4. new # {} => at' \in Indices /\ target' \in Sessions /\ target' \in bound'
  BY <1>1, <1>2, <1>3, Numbers
<1>5. force' \in BOOLEAN
  BY <1>1 DEF TypeOK
<1>6. TypeOK'
  BY <1>1, <1>2, <1>4, <1>5 DEF TypeOK
<1>7. PhaseOK'
  BY <1>1, <1>4 DEF PhaseOK
<1>8. Stale' \subseteq visible' /\ Active' = Active
  BY <1>1 DEF WindowsOK, FreshOK, Stale, Active
<1>9. FreshOK'
  BY <1>1, <1>8 DEF WindowsOK, FreshOK, Stale
<1>10. OrderOK' /\ ReadersOK'
  <2>1. Whole' = Whole
    BY <1>1 DEF Whole
  <2> QED
    BY <1>1, <2>1 DEF WindowsOK, OrderOK, ReadersOK, Permuted
<1>11. SelectionOK'
  BY <1>1 DEF WindowsOK, SelectionOK, Rows
<1> QED
  BY <1>6, <1>7, <1>9, <1>10, <1>11 DEF WindowsOK

LEMMA ShowNewKeeps == ASSUME DesktopInv, ~torn, ShowNew PROVE DesktopInv'
<1> USE DEF DesktopInv
<1>1. /\ pc = "show" /\ pc' = "lift" /\ visible' = visible \union {order[at]}
      /\ displaced' = (displaced \/ order[at] # target)
      /\ dirty' = dirty \union ({order[at]} \intersect Sessions)
      /\ UNCHANGED <<order, bound, focus, selected, menu, pending, grab, force, at, target, brush,
                     covered, highlight, clicked, shifted, crossed, torn>>
  BY DEF ShowNew, mouseVars
<1>2. at \in Indices /\ order[at] \in Windows /\ target \in bound
  BY <1>1 DEF PhaseOK, TypeOK
<1>3. displaced' \in BOOLEAN
  BY <1>1 DEF TypeOK
<1>4. TypeOK'
  BY <1>1, <1>2, <1>3 DEF TypeOK
<1>5. PhaseOK'
  BY <1>1 DEF PhaseOK
<1>6. OrderOK' /\ ReadersOK'
  <2>1. Whole' = Whole
    BY <1>1 DEF Whole
  <2> QED
    BY <1>1, <1>2, <2>1 DEF WindowsOK, OrderOK, ReadersOK, Permuted
<1>7. FreshOK'
  BY <1>1 DEF WindowsOK, FreshOK, Stale
<1>8. SelectionOK'
  BY <1>1 DEF WindowsOK, SelectionOK, Rows
<1> QED
  BY <1>4, <1>5, <1>6, <1>7, <1>8 DEF WindowsOK

LEMMA SwapDownKeeps == ASSUME DesktopInv, ~torn, SwapDown PROVE DesktopInv'
<1> USE DEF DesktopInv
<1>1. /\ pc = "lift" /\ at < Top /\ pc' = "swap" /\ brush' = order[at]
      /\ order' = [order EXCEPT ![at] = order[at + 1]]
      /\ shifted' = (shifted \/ selected # None)
      /\ UNCHANGED <<visible, bound, focus, selected, menu, pending, grab, force, at, target, dirty,
                     covered, highlight, clicked, displaced, crossed, torn>>
  BY DEF SwapDown, mouseVars, screen
<1>2. Permuted(order) /\ at \in Indices /\ at + 1 \in Indices /\ order \in [Indices -> Windows]
  BY <1>1, WholeFacts, Numbers DEF PhaseOK, Indices
<1>3. shifted' \in BOOLEAN
  BY <1>1 DEF TypeOK
<1>4. order' \in [Indices -> Windows] /\ brush' \in Windows
  BY <1>1, <1>2
<1>5. TypeOK'
  BY <1>1, <1>3, <1>4 DEF TypeOK
<1>6. PhaseOK'
  BY <1>1, <1>4 DEF PhaseOK
<1>7. OrderOK' /\ ReadersOK'
  <2>1. Whole' = [[order EXCEPT ![at] = order[at + 1]] EXCEPT ![at + 1] = order[at]]
    BY <1>1 DEF Whole
  <2>2. Permuted(Whole')
    BY <1>1, <1>2, <2>1, SwapPermutes
  <2> QED
    BY <1>1, <2>2 DEF WindowsOK, OrderOK, ReadersOK, Permuted
<1>8. FreshOK'
  BY <1>1 DEF WindowsOK, FreshOK, Stale
<1>9. SelectionOK'
  BY <1>1 DEF WindowsOK, SelectionOK
<1> QED
  BY <1>5, <1>6, <1>7, <1>8, <1>9 DEF WindowsOK

LEMMA SwapUpKeeps == ASSUME DesktopInv, ~torn, SwapUp PROVE DesktopInv'
<1> USE DEF DesktopInv
<1>1. /\ pc = "swap" /\ pc' = "lift" /\ brush' = None /\ at' = at + 1
      /\ order' = [order EXCEPT ![at + 1] = brush]
      /\ shifted' = (shifted \/ selected # None)
      /\ UNCHANGED <<visible, bound, focus, selected, menu, pending, grab, force, target, dirty,
                     covered, highlight, clicked, displaced, crossed, torn>>
  BY DEF SwapUp, mouseVars, screen
<1>2. at + 1 \in Indices /\ brush \in Windows /\ target \in Sessions
  BY <1>1, Numbers DEF PhaseOK, Indices
<1>3. shifted' \in BOOLEAN
  BY <1>1 DEF TypeOK
<1>4. TypeOK'
  BY <1>1, <1>2, <1>3 DEF TypeOK
<1>5. PhaseOK'
  BY <1>1, <1>2 DEF PhaseOK
<1>6. OrderOK' /\ ReadersOK'
  <2>1. Whole' = Whole
    BY <1>1 DEF Whole
  <2> QED
    BY <1>1, <2>1 DEF WindowsOK, OrderOK, ReadersOK, Permuted
<1>7. FreshOK'
  BY <1>1 DEF WindowsOK, FreshOK, Stale
<1>8. SelectionOK'
  BY <1>1 DEF WindowsOK, SelectionOK
<1> QED
  BY <1>4, <1>5, <1>6, <1>7, <1>8 DEF WindowsOK

LEMMA FocusNewKeeps == ASSUME DesktopInv, ~torn, FocusNew PROVE DesktopInv'
<1> USE DEF DesktopInv
<1>1. /\ pc = "lift" /\ pc' = "draw" /\ focus' = target /\ force' = TRUE
      /\ at' = None /\ target' = None
      /\ UNCHANGED <<order, visible, bound, selected, menu, pending, grab, brush, dirty, covered,
                     highlight, clicked, displaced, shifted, crossed, torn>>
  BY DEF FocusNew, mouseVars, screen, history
<1>2. focus' \in Sessions
  BY <1>1 DEF PhaseOK
<1>3. TypeOK' /\ PhaseOK'
  BY <1>1, <1>2 DEF TypeOK, PhaseOK
<1>4. OrderOK' /\ ReadersOK'
  <2>1. Whole' = Whole
    BY <1>1 DEF Whole
  <2> QED
    BY <1>1, <2>1 DEF WindowsOK, OrderOK, ReadersOK, Permuted
<1>5. FreshOK'
  BY <1>1 DEF WindowsOK, FreshOK, Stale
<1>6. SelectionOK'
  BY <1>1 DEF WindowsOK, SelectionOK
<1> QED
  BY <1>3, <1>4, <1>5, <1>6 DEF WindowsOK

\* The loop of gfx_render_windows goes on at the next visible window, or ends when
\* no visible window is left.
LEMMA GoOnFacts ==
  ASSUME NEW k \in Int, GoOn(k)
  PROVE  \/ /\ pc' = "frame" /\ at' \in Indices /\ k <= at' /\ force' = force
            /\ brush' = order[at'] /\ order[at'] \in visible
            /\ \A i \in Indices : k <= i /\ order[i] \in visible => at' <= i
         \/ /\ pc' \in {"menu", "idle"} /\ at' = None /\ force' \in {force, FALSE}
            /\ brush' = None
            /\ \A i \in Indices : k <= i => order[i] \notin visible
<1> DEFINE next == {i \in Indices : k <= i /\ order[i] \in visible}
<1>1. CASE next # {}
  <2>1. Min(next) \in next /\ \A i \in next : Min(next) <= i
    BY <1>1, Numbers, LeastElement
  <2>2. pc' = "frame" /\ at' = Min(next) /\ brush' = order[Min(next)] /\ force' = force
    BY <1>1 DEF GoOn
  <2> QED
    BY <2>1, <2>2
<1>2. CASE next = {}
  <2>1. pc' \in {"menu", "idle"} /\ at' = None /\ force' \in {force, FALSE} /\ brush' = None
    BY <1>2 DEF GoOn
  <2> QED
    BY <1>2, <2>1
<1> QED
  BY <1>1, <1>2

\* The loop leaves nothing undrawn behind it.
LEMMA LoopKeeps ==
  ASSUME DesktopInv, ~torn, pc \in {"draw", "frame", "content"}, NEW k \in Int, GoOn(k),
         UNCHANGED <<order, visible, bound, menu, pending, grab, target, clicked, displaced, torn>>,
         focus' \in Sessions \union {None}, selected' \in Indices \union {None},
         {shifted', crossed'} \subseteq BOOLEAN,
         dirty' \subseteq Sessions, covered' \subseteq Sessions,
         highlight' \in Windows \union {None},
         Stale' \subseteq visible,
         grab = None /\ ~crossed' => \A w \in Stale' : \E i \in Indices : k <= i /\ order[i] = w,
         SelectionOK'
  PROVE  DesktopInv'
<1> USE DEF DesktopInv
<1>1. \/ /\ pc' = "frame" /\ at' \in Indices /\ k <= at' /\ force' = force
         /\ brush' = order[at'] /\ order[at'] \in visible
         /\ \A i \in Indices : k <= i /\ order[i] \in visible => at' <= i
      \/ /\ pc' \in {"menu", "idle"} /\ at' = None /\ force' \in {force, FALSE}
         /\ brush' = None
         /\ \A i \in Indices : k <= i => order[i] \notin visible
  BY GoOnFacts
<1>2. Permuted(order) /\ order \in [Indices -> Windows] /\ visible \in SUBSET Windows /\ ~clicked
  BY WholeFacts DEF PhaseOK
<1>3. /\ at' \in Indices \union {None} /\ force' \in BOOLEAN /\ brush' \in Windows \union {None}
      /\ pc' \in {"frame", "menu", "idle"}
  BY <1>1, <1>2 DEF TypeOK
<1>4. TypeOK'
  BY <1>3 DEF TypeOK
<1>5. PhaseOK'
  BY <1>1, <1>2 DEF PhaseOK
<1>6. OrderOK' /\ ReadersOK'
  <2>1. Whole' = order
    BY <1>1 DEF Whole
  <2> QED
    BY <1>2, <2>1 DEF WindowsOK, OrderOK, ReadersOK, Permuted
<1>7. FreshOK'
  <2>1. CASE pc' = "frame"
    <3>1. grab = None /\ ~crossed' => Ahead'
      BY <1>1, <2>1 DEF Ahead
    <3> QED
      BY <2>1, <3>1 DEF FreshOK
  <2>2. CASE pc' \in {"menu", "idle"}
    <3>1. grab = None /\ ~crossed' => Stale' = {}
      BY <1>1, <2>2
    <3> QED
      BY <2>2, <3>1 DEF FreshOK
  <2> QED
    BY <1>3, <2>1, <2>2
<1> QED
  BY <1>4, <1>5, <1>6, <1>7 DEF WindowsOK

LEMMA DrawKeeps == ASSUME DesktopInv, ~torn, Draw PROVE DesktopInv'
<1> DEFINE f == ValidFocus(focus, order, visible)
<1> USE DEF DesktopInv
<1>1. /\ pc = "draw" /\ focus' = f
      /\ UNCHANGED <<order, visible, bound, selected, menu, pending, grab, dirty, highlight, clicked,
                     displaced, shifted, torn>>
  BY DEF Draw, mouseVars
<1>2. Permuted(order) /\ order \in [Indices -> Windows] /\ visible \in SUBSET Windows
  BY <1>1, WholeFacts
<1>3. /\ f \in (Sessions \intersect visible) \union {None}
      /\ ValidFocus(f, order, visible) = f
  BY <1>2, ValidFocusFacts DEF TypeOK
<1>4. SelectionOK'
  BY <1>1 DEF WindowsOK, SelectionOK, Rows
<1>5. CASE force \/ VisibleCount > 1
  <2>1. GoOn(1) /\ covered' = visible \intersect Sessions /\ crossed' = FALSE /\ target' = target
    BY <1>5 DEF Draw
  <2>2. 1 \in Int /\ \A i \in Indices : 1 <= i
    BY DEF Indices
  <2>3. Stale' \subseteq visible
    BY <1>1, <2>1 DEF WindowsOK, FreshOK, Stale
  <2>4. \A w \in Stale' : \E i \in Indices : 1 <= i /\ order[i] = w
    BY <1>2, <2>2, <2>3 DEF Permuted
  <2>5. dirty' \subseteq Sessions /\ covered' \subseteq Sessions /\ {shifted', crossed'} \subseteq BOOLEAN
    BY <1>1, <2>1 DEF TypeOK
  <2>6. /\ focus' \in Sessions \union {None} /\ selected' \in Indices \union {None}
        /\ highlight' \in Windows \union {None}
    BY <1>1, <1>3 DEF TypeOK
  <2> HIDE DEF f, DesktopInv
  <2> QED
    BY <1>1, <1>4, <2>1, <2>2, <2>3, <2>4, <2>5, <2>6, LoopKeeps
<1>6. CASE ~(force \/ VisibleCount > 1)
  <2>1. /\ pc' = "paint" /\ at' = ActiveIndex(f) /\ target' = order[ActiveIndex(f)]
        /\ UNCHANGED <<force, brush, covered, crossed>>
    BY <1>6 DEF Draw
  <2>2. /\ ActiveIndex(f) \in Indices /\ order[ActiveIndex(f)] \in Sessions
        /\ f # None => order[ActiveIndex(f)] = f
    BY <1>2, <1>3, ActiveIndexFacts
  <2>3. Active = f /\ Active' = f /\ VisibleCount' = VisibleCount
    BY <1>1, <1>3 DEF Active, VisibleCount
  <2> HIDE DEF f
  <2>4. TypeOK' /\ PhaseOK'
    BY <1>1, <1>3, <2>1, <2>2 DEF TypeOK, PhaseOK
  <2>5. OrderOK' /\ ReadersOK'
    <3>1. Whole' = Whole
      BY <1>1, <2>1 DEF Whole
    <3> QED
      BY <1>1, <3>1 DEF WindowsOK, OrderOK, ReadersOK, Permuted
  <2>6. Stale' = Stale
    BY <1>1, <2>1 DEF Stale
  <2>7. grab = None /\ ~crossed => Chosen'
    <3>1. grab = None /\ ~crossed => Active \notin covered
      BY <1>1, <1>6 DEF WindowsOK, FreshOK
    <3> QED
      BY <1>1, <1>6, <2>1, <2>2, <2>3, <3>1 DEF Chosen
  <2>8. FreshOK'
    BY <1>1, <2>1, <2>6, <2>7 DEF WindowsOK, FreshOK, PhaseOK
  <2> QED
    BY <1>4, <2>4, <2>5, <2>8 DEF WindowsOK
<1> QED
  BY <1>5, <1>6

\* What lies over a place is visible.
LEMMA OverVisible ==
  /\ Over \subseteq visible
  /\ \A i, j \in Int : Between(order, visible, i, j) \subseteq visible
  BY DEF Over, Between

LEMMA RenderFrameKeeps == ASSUME DesktopInv, ~torn, RenderFrame PROVE DesktopInv'
<1> DEFINE w == order[at]
           over(late) == IF ~late THEN {} ELSE IF w \in visible THEN Over
                         ELSE Between(order, visible, 1, at)
<1> USE DEF DesktopInv
<1>1. /\ pc = "frame"
      /\ UNCHANGED <<order, visible, bound, focus, menu, pending, grab, target, dirty, clicked,
                     displaced, shifted, torn>>
  BY DEF RenderFrame, windowVars
<1>2. PICK late \in BOOLEAN :
        IF w \notin visible /\ ~late
        THEN GoOn(at + 1) /\ UNCHANGED <<selected, covered, highlight, crossed>>
        ELSE IF grab \notin {None, at}
        THEN /\ GoOn(at + 1)
             /\ PaintedOver(over(late))
             /\ highlight' = IF w = ProcessManager THEN None ELSE highlight
             /\ UNCHANGED selected
        ELSE /\ pc' = "content" /\ brush' = w
             /\ PaintedOver(over(late))
             /\ selected' = IF w = ProcessManager
                            THEN StillListed(selected, order, visible, bound) ELSE selected
             /\ highlight' = IF w = ProcessManager /\ selected' = None THEN None ELSE highlight
             /\ UNCHANGED <<at, force>>
  BY DEF RenderFrame
<1>3. Permuted(order) /\ order \in [Indices -> Windows] /\ visible \in SUBSET Windows
  BY <1>1, WholeFacts
<1>4. at \in Indices /\ at \in Int /\ at + 1 \in Int /\ w \in Windows
  <2>1. at \in Indices
    BY <1>1 DEF PhaseOK
  <2>2. at \in Nat
    BY <2>1, Numbers
  <2> QED
    BY <1>3, <2>1, <2>2
<1>5. over(late) \subseteq visible
  <2>1. 1 \in Int
    OBVIOUS
  <2> QED
    BY <1>4, <2>1, OverVisible
<1>6. Stale \subseteq visible /\ (grab = None /\ ~crossed => Stale = {} \/ Ahead)
  BY <1>1 DEF WindowsOK, FreshOK
<1> HIDE DEF over
<1>7. CASE w \notin visible /\ ~late
  <2>1. GoOn(at + 1) /\ UNCHANGED <<selected, covered, highlight, crossed>>
    BY <1>2, <1>7
  <2>2. SelectionOK'
    <3>1. pc' # "swap"
      BY <2>1 DEF GoOn
    <3> QED
      BY <1>1, <2>1 DEF WindowsOK, SelectionOK, Rows
  <2>3. Stale' = Stale /\ (grab = None /\ ~crossed => Stale = {})
    BY <1>1, <1>6, <1>7, <2>1 DEF Stale, Ahead
  <2>4. dirty' \subseteq Sessions /\ covered' \subseteq Sessions /\ {shifted', crossed'} \subseteq BOOLEAN
    BY <1>1, <2>1 DEF TypeOK
  <2>5. /\ focus' \in Sessions \union {None} /\ selected' \in Indices \union {None}
        /\ highlight' \in Windows \union {None}
    BY <1>1, <2>1 DEF TypeOK
  <2>6. grab = None /\ ~crossed' => \A v \in Stale' : \E i \in Indices : at + 1 <= i /\ order[i] = v
    BY <2>1, <2>3
  <2> HIDE DEF w, DesktopInv
  <2> QED
    BY <1>1, <1>4, <1>6, <2>1, <2>2, <2>3, <2>4, <2>5, <2>6, LoopKeeps
<1>8. ASSUME PaintedOver(over(late))
      PROVE  /\ covered' \subseteq Sessions /\ crossed' \in BOOLEAN /\ Stale' \subseteq visible
             /\ ~crossed' => ~crossed /\ Stale' = Stale
  <2>1. /\ covered' = covered \union (over(late) \intersect Sessions)
        /\ crossed' = (crossed \/ over(late) # {})
    BY <1>8 DEF PaintedOver
  <2>2. crossed' \in BOOLEAN
    BY <2>1 DEF TypeOK
  <2>3. covered' \subseteq Sessions
    BY <2>1 DEF TypeOK
  <2> QED
    BY <1>1, <1>5, <1>6, <2>1, <2>2, <2>3 DEF Stale
<1>9. CASE (w \in visible \/ late) /\ grab \notin {None, at}
  <2>1. /\ GoOn(at + 1) /\ PaintedOver(over(late)) /\ selected' = selected
        /\ highlight' = IF w = ProcessManager THEN None ELSE highlight
    BY <1>2, <1>9
  <2>2. SelectionOK'
    <3>1. /\ selected' # None => ProcessManager \in visible'
          /\ \A p \in Indices : (~shifted /\ selected # None /\ order[p] = ProcessManager => selected <= p)
      BY <1>1, <2>1 DEF WindowsOK, SelectionOK
    <3> QED
      BY <1>1, <1>9, <2>1, <3>1 DEF SelectionOK
  <2>3. dirty' \subseteq Sessions /\ {shifted', crossed'} \subseteq BOOLEAN
    BY <1>1, <1>8, <2>1 DEF TypeOK
  <2>4. /\ focus' \in Sessions \union {None} /\ selected' \in Indices \union {None}
        /\ highlight' \in Windows \union {None}
    BY <1>1, <2>1 DEF TypeOK
  <2> HIDE DEF w, DesktopInv
  <2> QED
    BY <1>1, <1>4, <1>8, <1>9, <2>1, <2>2, <2>3, <2>4, LoopKeeps
<1>10. CASE (w \in visible \/ late) /\ grab \in {None, at}
  <2>1. /\ pc' = "content" /\ brush' = w /\ PaintedOver(over(late))
        /\ selected' = IF w = ProcessManager
                       THEN StillListed(selected, order, visible, bound) ELSE selected
        /\ highlight' = IF w = ProcessManager /\ selected' = None THEN None ELSE highlight
        /\ UNCHANGED <<at, force>>
    BY <1>2, <1>10
  <2>2. selected' \in {selected, None}
    BY <2>1 DEF StillListed
  <2>3. highlight' \in {highlight, None} /\ (selected' # None => highlight' = highlight)
    BY <2>1
  <2>4. TypeOK'
    BY <1>1, <1>4, <1>8, <2>1, <2>2, <2>3 DEF TypeOK
  <2>5. PhaseOK'
    BY <1>1, <1>4, <2>1 DEF PhaseOK
  <2>6. OrderOK' /\ ReadersOK'
    <3>1. Whole' = order
      BY <1>1, <2>1 DEF Whole
    <3> QED
      BY <1>1, <1>3, <3>1 DEF WindowsOK, OrderOK, ReadersOK, Permuted
  <2>7. FreshOK'
    <3>1. grab = None /\ ~crossed' => Stale' = {} \/ Ahead'
      BY <1>1, <1>6, <1>8, <2>1 DEF Ahead
    <3> QED
      BY <1>1, <1>8, <2>1, <3>1 DEF FreshOK
  <2>8. SelectionOK'
    <3>1. selected' # None => ProcessManager \in visible
      BY <2>2 DEF WindowsOK, SelectionOK
    <3>2. grab = None /\ selected' = None => highlight' = None
      BY <2>1 DEF WindowsOK, SelectionOK
    <3>3. ASSUME ~shifted, selected' # None
          PROVE  /\ \A p \in Indices : order[p] = ProcessManager => selected' <= p
                 /\ grab = None => /\ selected' \in Rows(order, visible, bound)
                                   /\ highlight' = order[selected']
      BY <1>1, <2>2, <2>3, <3>3 DEF WindowsOK, SelectionOK
    <3> QED
      BY <1>1, <3>1, <3>2, <3>3 DEF SelectionOK
  <2> QED
    BY <1>1, <2>4, <2>5, <2>6, <2>7, <2>8 DEF WindowsOK
<1> QED
  BY <1>7, <1>9, <1>10

LEMMA RenderContentKeeps == ASSUME DesktopInv, ~torn, RenderContent PROVE DesktopInv'
<1> DEFINE whole == brush \in visible /\ grab \in {None, IndexOf(brush)}
<1> USE DEF DesktopInv
<1>1. /\ pc = "content" /\ GoOn(at + 1)
      /\ covered' = (IF whole THEN covered \ {brush} ELSE covered) \union (Over \intersect Sessions)
      /\ dirty' = IF whole THEN dirty \ {brush} ELSE dirty
      /\ crossed' = (crossed \/ Over # {})
      /\ highlight' = IF whole /\ brush = ProcessManager
                      THEN IF selected = None THEN None ELSE order[selected]
                      ELSE highlight
      /\ UNCHANGED <<order, visible, bound, focus, selected, menu, pending, grab, target, clicked,
                     displaced, shifted, torn>>
  BY Zenon DEF RenderContent, windowVars, mouseVars
<1>2. Permuted(order) /\ order \in [Indices -> Windows] /\ visible \in SUBSET Windows
  BY <1>1, WholeFacts
<1>3. at \in Indices /\ at \in Int /\ at + 1 \in Int
  <2>1. at \in Indices
    BY <1>1 DEF PhaseOK
  <2>2. at \in Nat
    BY <2>1, Numbers
  <2> QED
    BY <2>1, <2>2
<1>4. crossed' \in BOOLEAN
  BY <1>1 DEF TypeOK
<1>5. dirty' \subseteq Sessions /\ covered' \subseteq Sessions /\ shifted' \in BOOLEAN
  BY <1>1 DEF TypeOK
<1>6. /\ focus' \in Sessions \union {None} /\ selected' \in Indices \union {None}
      /\ highlight' \in Windows \union {None}
  BY <1>1, <1>2 DEF TypeOK
<1>7. Stale' \subseteq visible
  BY <1>1, OverVisible DEF WindowsOK, FreshOK, Stale
<1>8. grab = None /\ ~crossed' => \A w \in Stale' : \E i \in Indices : at + 1 <= i /\ order[i] = w
  <2> SUFFICES ASSUME grab = None, ~crossed', NEW w \in Stale'
               PROVE  \E i \in Indices : at + 1 <= i /\ order[i] = w
    OBVIOUS
  <2>1. ~crossed /\ Over = {}
    BY <1>1
  <2>2. w \in Stale
    BY <1>1, <2>1 DEF Stale
  <2>3. Ahead
    BY <1>1, <2>1, <2>2 DEF WindowsOK, FreshOK
  <2>4. whole /\ w # order[at]
    BY <1>1, <2>1, <2>3 DEF Ahead, Stale
  <2>5. PICK i \in Indices : at <= i /\ order[i] = w
    BY <2>2, <2>3 DEF Ahead
  <2>6. at + 1 <= i
    BY <1>3, <2>4, <2>5, Numbers
  <2> QED
    BY <2>5, <2>6
<1>9. SelectionOK'
  <2>1. selected # None => ProcessManager \in visible
    BY DEF WindowsOK, SelectionOK
  <2>2. grab = None /\ selected = None => highlight' = None
    BY <1>1 DEF WindowsOK, SelectionOK
  <2>3. ASSUME ~shifted, selected # None
        PROVE  /\ \A p \in Indices : order[p] = ProcessManager => selected <= p
               /\ grab = None => /\ selected \in Rows(order, visible, bound)
                                 /\ highlight' = order[selected]
    BY <1>1, <2>3 DEF WindowsOK, SelectionOK
  <2> QED
    BY <1>1, <2>1, <2>2, <2>3 DEF SelectionOK
<1> HIDE DEF whole, DesktopInv
<1> QED
  BY <1>1, <1>3, <1>4, <1>5, <1>6, <1>7, <1>8, <1>9, LoopKeeps

LEMMA RenderStartMenuKeeps == ASSUME DesktopInv, ~torn, RenderStartMenu PROVE DesktopInv'
<1> DEFINE S == IF menu THEN {} ELSE visible
<1> USE DEF DesktopInv
<1>1. /\ pc = "menu" /\ pc' = "idle" /\ force' = FALSE
      /\ covered' = covered \union (S \intersect Sessions) /\ crossed' = (crossed \/ S # {})
      /\ UNCHANGED <<order, visible, bound, focus, selected, menu, pending, grab, at, target, brush,
                     dirty, highlight, clicked, displaced, shifted, torn>>
  BY DEF RenderStartMenu, PaintedOver, windowVars, mouseVars
<1>2. crossed' \in BOOLEAN
  BY <1>1 DEF TypeOK
<1>3. TypeOK' /\ PhaseOK'
  BY <1>1, <1>2 DEF TypeOK, PhaseOK
<1>4. OrderOK' /\ ReadersOK'
  <2>1. Whole' = Whole
    BY <1>1 DEF Whole
  <2> QED
    BY <1>1, <2>1 DEF WindowsOK, OrderOK, ReadersOK, Permuted
<1>5. FreshOK'
  <2>1. Stale' \subseteq visible' /\ (~crossed' => ~crossed /\ Stale' = Stale)
    BY <1>1 DEF WindowsOK, FreshOK, Stale
  <2> QED
    BY <1>1, <2>1 DEF WindowsOK, FreshOK
<1>6. SelectionOK'
  BY <1>1 DEF WindowsOK, SelectionOK, Rows
<1> QED
  BY <1>1, <1>3, <1>4, <1>5, <1>6 DEF WindowsOK

LEMMA TakeCellKeeps == ASSUME DesktopInv, ~torn, TakeCell PROVE DesktopInv'
<1> USE DEF DesktopInv
<1>1. /\ pc = "paint" /\ pc' = "cell" /\ brush' = order[at]
      /\ UNCHANGED <<order, visible, bound, focus, selected, menu, pending, grab, force, at, target,
                     dirty, covered, highlight, clicked, displaced, shifted, crossed, torn>>
  BY DEF TakeCell, windowVars, mouseVars, screen, history
<1>2. brush' \in Windows
  BY <1>1 DEF TypeOK, PhaseOK
<1>3. TypeOK' /\ PhaseOK'
  BY <1>1, <1>2 DEF TypeOK, PhaseOK
<1>4. OrderOK' /\ ReadersOK'
  <2>1. Whole' = Whole
    BY <1>1 DEF Whole
  <2> QED
    BY <1>1, <2>1 DEF WindowsOK, OrderOK, ReadersOK, Permuted
<1>5. FreshOK'
  <2>1. Stale' = Stale /\ Active' = Active /\ VisibleCount' = VisibleCount
    BY <1>1 DEF Stale, Active, VisibleCount
  <2>2. Chosen => Chosen'
    BY <1>1, <2>1 DEF Chosen
  <2> QED
    BY <1>1, <2>1, <2>2 DEF WindowsOK, FreshOK
<1>6. SelectionOK'
  BY <1>1 DEF WindowsOK, SelectionOK, Rows
<1> QED
  BY <1>1, <1>3, <1>4, <1>5, <1>6 DEF WindowsOK

\* The cell of the active terminal spoils only terminals below it in the order of
\* the focus: those above it are not the active one.
LEMMA PaintCellKeeps == ASSUME DesktopInv, ~torn, PaintCell PROVE DesktopInv'
<1> DEFINE over == IF brush \notin visible THEN Between(order, visible, 1, Top)
                   ELSE Between(order, visible, IF brush \in Sessions THEN IndexOf(brush) + 1
                                                ELSE IndexOf(brush), Top)
<1> USE DEF DesktopInv
<1>1. /\ pc = "cell" /\ pc' = "paint" /\ brush' = None
      /\ covered' = covered \union (over \intersect Sessions)
      /\ crossed' = (crossed \/ (clicked /\ over # {}))
      /\ UNCHANGED <<order, visible, bound, focus, selected, menu, pending, grab, force, at, target,
                     dirty, highlight, clicked, displaced, shifted, torn>>
  BY Zenon DEF PaintCell, windowVars, mouseVars
<1>2. Permuted(order) /\ order \in [Indices -> Windows] /\ visible \in SUBSET Windows
  BY <1>1, WholeFacts
<1>3. over \subseteq visible
  BY DEF Between
<1>4. ASSUME brush \in Sessions, brush \in visible PROVE brush \notin over
  <2>1. IndexOf(brush) \in Indices /\ order[IndexOf(brush)] = brush
    BY <1>2, <1>4, IndexOfFacts DEF Permuted
  <2>2. IndexOf(brush) \in Nat /\ Top \in Nat
    BY <2>1, Numbers
  <2>3. \A w \in over : \E k \in Indices : IndexOf(brush) + 1 <= k /\ k <= Top /\ order[k] = w
    <3>1. over = Between(order, visible, IndexOf(brush) + 1, Top)
      BY <1>4
    <3>2. IndexOf(brush) + 1 \in Int /\ Top \in Int
      BY <2>2
    <3> HIDE DEF over, DesktopInv
    <3> QED
      BY <1>2, <3>1, <3>2, BetweenFacts
  <2>4. \A k \in Indices : order[k] = brush => k = IndexOf(brush)
    BY <1>2, <2>1 DEF Permuted
  <2> HIDE DEF over
  <2> QED
    BY <2>2, <2>3, <2>4
<1> HIDE DEF over
<1>5. crossed' \in BOOLEAN
  BY <1>1 DEF TypeOK
<1>6. TypeOK'
  BY <1>1, <1>5 DEF TypeOK
<1>7. PhaseOK'
  BY <1>1 DEF PhaseOK
<1>8. OrderOK' /\ ReadersOK'
  <2>1. Whole' = Whole
    BY <1>1 DEF Whole
  <2> QED
    BY <1>1, <2>1 DEF WindowsOK, OrderOK, ReadersOK, Permuted
<1>9. FreshOK'
  <2>1. Active' = Active /\ VisibleCount' = VisibleCount
    BY <1>1 DEF Active, VisibleCount
  <2>2. Stale' \subseteq visible'
    BY <1>1, <1>3 DEF WindowsOK, FreshOK, Stale
  <2>3. ASSUME grab = None, ~crossed' PROVE IF clicked THEN Stale' = {} ELSE Chosen'
    <3>1. ~crossed /\ (clicked => over = {})
      BY <1>1, <2>3
    <3>2. IF clicked THEN Stale = {} ELSE Chosen
      BY <1>1, <2>3, <3>1 DEF WindowsOK, FreshOK
    <3>3. CASE clicked
      BY <1>1, <3>1, <3>2, <3>3 DEF Stale
    <3>4. CASE ~clicked
      <4>1. Active \in (Sessions \intersect visible) \union {None} /\ None \notin Sessions
        BY <1>2, ValidFocusFacts, Numbers DEF TypeOK, Active
      <4>2. Active # None => Active = brush
        BY <1>1, <3>2, <3>4 DEF Chosen
      <4>3. Active \notin over \intersect Sessions
        BY <1>4, <4>1, <4>2
      <4> QED
        BY <1>1, <2>1, <3>2, <3>4, <4>3 DEF Chosen
    <3> QED
      BY <3>3, <3>4
  <2> QED
    BY <1>1, <2>2, <2>3 DEF FreshOK
<1>10. SelectionOK'
  BY <1>1 DEF WindowsOK, SelectionOK, Rows
<1> QED
  BY <1>1, <1>6, <1>7, <1>8, <1>9, <1>10 DEF WindowsOK

LEMMA EndPaintKeeps == ASSUME DesktopInv, ~torn, EndPaint PROVE DesktopInv'
<1> USE DEF DesktopInv
<1>1. /\ pc = "paint" /\ pc' = "idle" /\ dirty' = dirty \ {target}
      /\ covered' = IF order[at] = target THEN covered ELSE covered \union (dirty \intersect {target})
      /\ at' = None /\ target' = None /\ clicked' = FALSE
      /\ UNCHANGED <<order, visible, bound, focus, selected, menu, pending, grab, force, brush,
                     highlight, displaced, shifted, crossed, torn>>
  BY DEF EndPaint, windowVars, mouseVars
<1>2. Permuted(order) /\ order \in [Indices -> Windows] /\ visible \in SUBSET Windows
  BY <1>1, WholeFacts
<1>3. TypeOK' /\ PhaseOK'
  BY <1>1 DEF TypeOK, PhaseOK
<1>4. OrderOK' /\ ReadersOK'
  <2>1. Whole' = Whole
    BY <1>1 DEF Whole
  <2> QED
    BY <1>1, <2>1 DEF WindowsOK, OrderOK, ReadersOK, Permuted
<1>5. FreshOK'
  <2>1. Active' = Active /\ VisibleCount' = VisibleCount
    BY <1>1 DEF Active, VisibleCount
  <2>2. Stale' \subseteq visible' /\ Stale' \subseteq Stale
    BY <1>1 DEF WindowsOK, FreshOK, Stale
  <2>3. ASSUME grab = None, ~crossed
        PROVE  Stale' = {} \/ (~(VisibleCount' > 1) /\ Active' \notin Stale')
    <3>1. IF clicked THEN Stale = {} ELSE Chosen
      BY <1>1, <2>3 DEF WindowsOK, FreshOK
    <3>2. CASE clicked
      BY <2>2, <3>1, <3>2
    <3>3. CASE ~clicked
      <4>1. None \notin Sessions /\ dirty \subseteq Sessions
        BY Numbers DEF TypeOK
      <4>2. Active \notin dirty' /\ Active \notin covered'
        BY <1>1, <3>1, <3>3, <4>1 DEF Chosen
      <4> QED
        BY <2>1, <3>1, <3>3, <4>2 DEF Chosen, Stale
    <3> QED
      BY <3>2, <3>3
  <2> QED
    BY <1>1, <2>2, <2>3 DEF FreshOK
<1>6. SelectionOK'
  BY <1>1 DEF WindowsOK, SelectionOK, Rows
<1> QED
  BY <1>1, <1>3, <1>4, <1>5, <1>6 DEF WindowsOK

LEMMA KeyEventKeeps == ASSUME DesktopInv, ~torn, KeyEvent PROVE DesktopInv'
<1> USE DEF DesktopInv
<1>1. /\ focus' = ValidFocus(focus, order, visible)
      /\ UNCHANGED <<order, visible, bound, selected, menu, pending, grab, force, pc, at, target,
                     brush, dirty, covered, highlight, clicked, displaced, shifted, crossed, torn>>
  BY DEF KeyEvent, mouseVars, refreshVars, screen, history
<1>2. focus' \in Sessions \union {None} /\ ValidFocus(focus', order, visible) = focus'
  BY <1>1, ValidFocusFacts DEF TypeOK
<1>3. TypeOK' /\ PhaseOK'
  BY <1>1, <1>2 DEF TypeOK, PhaseOK
<1>4. OrderOK' /\ ReadersOK'
  <2>1. Whole' = Whole
    BY <1>1 DEF Whole
  <2> QED
    BY <1>1, <2>1 DEF WindowsOK, OrderOK, ReadersOK, Permuted
<1>5. FreshOK'
  <2>1. Stale' = Stale /\ Active' = Active /\ VisibleCount' = VisibleCount
    BY <1>1, <1>2 DEF Stale, Active, VisibleCount
  <2> QED
    BY <1>1, <2>1 DEF WindowsOK, FreshOK, Ahead, Chosen
<1>6. SelectionOK'
  BY <1>1 DEF WindowsOK, SelectionOK, Rows
<1> QED
  BY <1>1, <1>3, <1>4, <1>5, <1>6 DEF WindowsOK

LEMMA DisplayKeeps == ASSUME DesktopInv, ~torn, Display PROVE DesktopInv'
  BY RefreshKeeps, ShowNewKeeps, SwapDownKeeps, SwapUpKeeps, FocusNewKeeps, DrawKeeps,
     RenderFrameKeeps, RenderContentKeeps, RenderStartMenuKeeps, TakeCellKeeps, PaintCellKeeps,
     EndPaintKeeps DEF Display

\* A step that changes no variable.
LEMMA StutterKeeps == ASSUME DesktopInv, UNCHANGED vars PROVE DesktopInv'
<1>1. UNCHANGED <<order, visible, bound, focus, selected, menu, pending, grab, force, pc, at, target,
                  brush, dirty, covered, highlight, clicked, displaced, shifted, crossed, torn>>
  BY DEF vars, windowVars, mouseVars, refreshVars, screen, history
<1>2. TypeOK' /\ PhaseOK'
  BY <1>1 DEF DesktopInv, TypeOK, PhaseOK
<1>3. Whole' = Whole /\ Stale' = Stale /\ Active' = Active /\ VisibleCount' = VisibleCount
  BY <1>1 DEF Whole, Stale, Active, VisibleCount
<1>4. WindowsOK => WindowsOK'
  BY <1>1, <1>3 DEF WindowsOK, OrderOK, ReadersOK, Permuted, FreshOK, Ahead, Chosen, SelectionOK, Rows
<1> QED
  BY <1>1, <1>2, <1>4 DEF DesktopInv

LEMMA StepKeeps == ASSUME DesktopInv, [Next]_vars PROVE DesktopInv'
<1>1. CASE ~torn /\ (Display \/ MouseEvent \/ KeyEvent)
  BY <1>1, DisplayKeeps, MouseKeeps, KeyEventKeeps
<1>2. CASE UNCHANGED vars
  BY <1>2, StutterKeeps
<1> QED
  BY <1>1, <1>2 DEF Next, Torn

-----------------------------------------------------------------------------
(* The theorems.                                                           *)

\* The windows stay a permutation, and what is not on the screen yet is what the
\* refresh in progress will still draw, until a mouse event tears a swap.
THEOREM DesktopInvariance == Spec => []DesktopInv
<1>1. Init => DesktopInv
  <2> DEFINE start == [i \in Indices |-> i - 1]
  <2> SUFFICES ASSUME Init PROVE DesktopInv
    OBVIOUS
  <2>1. /\ start \in [Indices -> Windows] /\ \A i \in Indices : start[i] = i - 1
        /\ \A w \in Windows : w + 1 \in Indices /\ (w + 1) - 1 = w
        /\ 1 \in Indices
    BY DesktopAssumption DEF Indices, Windows, Top
  <2>2. Permuted(start)
    BY <2>1, Numbers DEF Permuted
  <2> HIDE DEF start
  <2>3. order \in [Indices -> Windows] /\ Permuted(order)
    BY <2>1, <2>2, ToFrontFacts DEF Init, start
  <2>4. bound \subseteq Sessions /\ 0 \in bound
    BY DesktopAssumption DEF Init, Sessions
  <2>5. TypeOK /\ PhaseOK
    BY <2>3, <2>4, Numbers DEF Init, TypeOK, PhaseOK
  <2>6. OrderOK
    BY <2>3 DEF Init, OrderOK, Whole
  <2>7. ReadersOK /\ FreshOK /\ SelectionOK
    BY <2>4 DEF Init, ReadersOK, FreshOK, SelectionOK, Stale
  <2> QED
    BY <2>5, <2>6, <2>7 DEF DesktopInv, WindowsOK
<1>2. DesktopInv /\ [Next]_vars => DesktopInv'
  BY StepKeeps
<1> QED
  BY <1>1, <1>2, PTL DEF Spec

\* A key pressed is never put into the ring of a session without a task, unless
\* display_create_terminal_session has given a session another one's window, or a
\* mouse event has torn a swap.
THEOREM KeysHaveReaderCorrect == Spec => []KeysHaveReader
<1>1. DesktopInv => KeysHaveReader
  BY ValidFocusFacts DEF DesktopInv, TypeOK, WindowsOK, ReadersOK, KeysHaveReader
<1> QED
  BY <1>1, DesktopInvariance, PTL

\* The start menu finds a hidden terminal when all are closed: only two indices
\* lie beyond those find_hidden_terminal_slot searches, and no two windows are
\* at one index, so of three terminals one is found, except in the middle of a
\* swap or after a torn one.
THEOREM NeverLockedOutCorrect == Spec => []NeverLockedOut
<1>1. ASSUME DesktopInv, pc # "swap", ~torn, Cardinality(bound) > 2,
             visible \intersect Sessions = {}, HiddenSlots = {}
      PROVE  FALSE
  <2> DEFINE last == {order[Top - 1], order[Top]}
  <2>1. bound \subseteq last
    <3>1. SUFFICES ASSUME NEW b \in bound PROVE b \in last
      OBVIOUS
    <3>2. b \in Sessions /\ b \in Windows /\ b \notin visible
      BY <1>1, Numbers DEF DesktopInv, TypeOK
    <3>3. PICK i \in Indices : order[i] = b
      BY <1>1, <3>2, WholeFacts DEF Permuted
    <3>4. i \notin 1 .. TerminalLast
      BY <1>1, <3>2, <3>3 DEF HiddenSlots
    <3>5. i = Top - 1 \/ i = Top
      BY <3>4, DesktopAssumption DEF Indices, Top, TerminalLast
    <3> QED
      BY <3>3, <3>5
  <2>2. IsFiniteSet(last) /\ Cardinality(last) <= 2
    <3>1. IsFiniteSet({order[Top - 1]}) /\ Cardinality({order[Top - 1]}) = 1
      BY FS_Singleton
    <3>2. last = {order[Top - 1]} \union {order[Top]}
      OBVIOUS
    <3> QED
      BY <3>1, <3>2, FS_AddElement
  <2>3. Cardinality(bound) <= Cardinality(last) /\ Cardinality(bound) \in Nat
    BY <2>1, <2>2, FS_Subset, FS_CardinalityType
  <2>4. Cardinality(last) \in Nat
    BY <2>2, FS_CardinalityType
  <2> HIDE DEF last
  <2> QED
    BY <1>1, <2>2, <2>3, <2>4
<1>2. DesktopInv => NeverLockedOut
  BY <1>1 DEF NeverLockedOut
<1> QED
  BY <1>2, DesktopInvariance, PTL

\* Between two refreshes, while no window is dragged, no swap is torn and nothing
\* was painted out of its place after a mouse event, the text of the active
\* terminal is on the screen, and that of all visible ones when display_refresh
\* counts more than one.
THEOREM ScreenIsFreshCorrect == Spec => []ScreenIsFresh
<1>1. DesktopInv => ScreenIsFresh
  <2> SUFFICES ASSUME DesktopInv, pc = "idle", grab = None, ~crossed, ~torn
               PROVE  /\ ValidFocus(focus, order, visible) \notin dirty \union covered
                      /\ VisibleCount > 1 => visible \intersect (dirty \union covered) = {}
    BY DEF ScreenIsFresh
  <2>1. Stale = {} \/ (~(VisibleCount > 1) /\ Active \notin Stale)
    BY DEF DesktopInv, WindowsOK, FreshOK
  <2> QED
    BY <2>1 DEF Stale, Active
<1> QED
  BY <1>1, DesktopInvariance, PTL

\* The button KILL of the process manager hides the window whose row is
\* highlighted, and nothing when none is, as long as no terminal was created since
\* the row was selected and no mouse event has left the screen wrong.
THEOREM KillHitsHighlightedCorrect == Spec => KillHitsHighlighted
<1> DEFINE A == pc # "swap" /\ ~shifted /\ ~crossed /\ order'[Top] = ProcessManager
                  /\ (\E i \in Indices : Kill(i)) =>
                  visible \ visible' = {highlight} \ {None}
<1>1. ASSUME DesktopInv, ~torn, pc # "swap", ~shifted, NEW i \in Indices, Kill(i)
      PROVE  visible \ visible' = {highlight} \ {None}
  <2>1. Permuted(order) /\ order \in [Indices -> Windows]
    BY <1>1, WholeFacts
  <2>2. Hit(i) /\ order[i] = ProcessManager
    BY <1>1 DEF Kill
  <2>3. grab = None /\ ProcessManager \in visible /\ order' = ToFront(order, i)
    BY <2>2 DEF Hit, Press
  <2>4. /\ selected \in Indices \union {None} /\ SelectionOK
        /\ bound \subseteq Sessions /\ visible \subseteq Windows
    BY <1>1 DEF DesktopInv, TypeOK, WindowsOK
  <2>5. CASE selected = None
    <3>1. Selection = None /\ highlight = None
      BY <2>3, <2>4, <2>5 DEF Selection, StillListed, SelectionOK
    <3> QED
      BY <1>1, <3>1 DEF Kill
  <2>6. CASE selected # None
    <3>1. selected \in Rows(order, visible, bound) /\ highlight = order[selected] /\ selected <= i
      BY <1>1, <2>2, <2>3, <2>4, <2>6 DEF SelectionOK
    <3>2. Selection = selected
      BY <3>1 DEF Selection, StillListed
    <3>3. selected \in Indices /\ order[selected] \in visible /\ order[selected] \in Sessions
      BY <2>4, <3>1 DEF Rows
    <3>4. selected < i
      <4>1. selected # i
        BY <2>2, <3>3, Numbers
      <4>2. selected \in Nat /\ i \in Nat
        BY <3>3, Numbers
      <4> QED
        BY <3>1, <4>1, <4>2
    <3>5. order'[selected] = order[selected]
      BY <2>1, <2>3, <3>3, <3>4, ToFrontFacts
    <3>6. visible' = visible \ {order'[selected]}
      BY <1>1, <2>6, <3>2 DEF Kill
    <3>7. highlight # None
      BY <3>1, <3>3, Numbers
    <3> QED
      BY <3>1, <3>3, <3>5, <3>6, <3>7
  <2> QED
    BY <2>5, <2>6
<1>2. DesktopInv /\ [Next]_vars => [A]_vars
  <2> SUFFICES ASSUME DesktopInv, Next, pc # "swap", ~shifted, NEW i \in Indices, Kill(i),
                      ~UNCHANGED vars
               PROVE  visible \ visible' = {highlight} \ {None}
    OBVIOUS
  <2>1. ~torn
    BY DEF Next, Torn
  <2> QED
    BY <1>1, <2>1
<1> QED
  BY <1>2, DesktopInvariance, PTL DEF Spec, KillHitsHighlighted

=============================================================================
