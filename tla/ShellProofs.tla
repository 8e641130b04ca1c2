----------------------------- MODULE ShellProofs -----------------------------
(***************************************************************************)
(* Proofs about the file commands, for every table size, every number of   *)
(* descriptors and terminals, and all paths: no command leaks a            *)
(* descriptor, mv never loses a file's contents, and no call breaks the    *)
(* tree.  What a path leads to is a walk over its components; facts about  *)
(* its end are proved by looking at the first step that breaks them.       *)
(***************************************************************************)
EXTENDS Shell, SequenceTheorems, WellFoundedInduction, TLAPS

-----------------------------------------------------------------------------
(* Walks over the table.                                                   *)

\* Min yields an element, and the least one.
LEMMA LeastElement ==
  ASSUME NEW S \in SUBSET Nat, S # {}
  PROVE  \E x \in S : Min(S) = x /\ \A y \in S : x <= y
<1> DEFINE R == {p \in Nat \X Nat : p[1] < p[2]}
<1>1. IsWellFoundedOn(R, Nat)
  BY NatLessThanWellFounded, Zenon DEF OpToRel
<1> HIDE DEF R
<1>2. PICK x \in S : \A y \in S : ~(<<y, x>> \in R)
  BY <1>1, WFMin
<1>3. \A a, b \in Nat : a < b => <<a, b>> \in R
  BY SMT DEF R
<1>4. \A y \in S : y \in Nat /\ x \in Nat /\ ~(y < x)
  BY <1>2, <1>3, Zenon
<1>5. \A y \in S : x =< y
  BY <1>4
<1> QED
  BY <1>5 DEF Min

\* What holds at the start of a walk and is kept by each step holds at its end.
LEMMA WalkKeeps ==
  ASSUME NEW m \in Nat, NEW cur, NEW T, cur[0] \in T,
         \A n \in 1 .. m : cur[n - 1] \in T => cur[n] \in T
  PROVE  cur[m] \in T
<1> DEFINE Bad == {n \in 0 .. m : cur[n] \notin T}
<1>1. SUFFICES ASSUME Bad # {} PROVE FALSE
  OBVIOUS
<1>2. PICK n \in Bad : \A k \in Bad : n <= k
  <2>1. Bad \in SUBSET Nat
    OBVIOUS
  <2> HIDE DEF Bad
  <2> QED
    BY <1>1, <2>1, LeastElement
<1>3. n \in 1 .. m /\ n - 1 \in 0 .. m
  BY <1>2
<1>4. n - 1 \notin Bad
  BY <1>2, <1>3
<1> QED
  BY <1>2, <1>3, <1>4

\* The walk of Resolve.
LEMMA ResolveWalk ==
  ASSUME NEW es, NEW dir, NEW p \in Path
  PROVE  \E cur :
           /\ cur = [n \in 0 .. Len(p.comps) |->
                       IF n = 0 THEN StartOf(p, dir) ELSE ResolveStep(es, cur[n - 1], p.comps[n])]
           /\ Resolve(es, dir, p) = cur[Len(p.comps)]
<1> DEFINE Walk(g, m) ==
             g = [n \in 0 .. m |->
                    IF n = 0 THEN StartOf(p, dir) ELSE ResolveStep(es, g[n - 1], p.comps[n])]
           Missing == {m \in Nat : ~ \E g : Walk(g, m)}
<1>1. Missing = {}
  <2> SUFFICES ASSUME Missing # {} PROVE FALSE
    OBVIOUS
  <2>1. PICK m \in Missing : \A k \in Missing : m <= k
    <3>1. Missing \in SUBSET Nat
      OBVIOUS
    <3> HIDE DEF Missing
    <3> QED
      BY <3>1, LeastElement
  <2>2. CASE m = 0
    <3> DEFINE g == [n \in 0 .. 0 |-> StartOf(p, dir)]
    <3>1. Walk(g, 0)
      OBVIOUS
    <3> QED
      BY <2>2, <3>1
  <2>3. CASE m # 0
    <3>1. m - 1 \in Nat /\ m - 1 \notin Missing
      <4>1. m \in Nat
        OBVIOUS
      <4> HIDE DEF Missing
      <4> QED
        BY <2>1, <2>3, <4>1
    <3>2. PICK f : Walk(f, m - 1)
      BY <3>1
    <3> DEFINE g == [n \in 0 .. m |->
                       IF n = m THEN ResolveStep(es, f[m - 1], p.comps[m]) ELSE f[n]]
    <3>3. Walk(g, m)
      BY <2>1, <2>3, <3>2
    <3> QED
      BY <3>3
  <2> QED
    BY <2>2, <2>3
<1>2. PICK g : Walk(g, Len(p.comps))
  <2>1. Len(p.comps) \in Nat
    BY DEF Path
  <2> QED
    BY <1>1, <2>1
<1> HIDE DEF Missing
<1>3. Walk((CHOOSE h : Walk(h, Len(p.comps))), Len(p.comps))
  BY <1>2
<1>4. Resolve(es, dir, p) = (CHOOSE h : Walk(h, Len(p.comps)))[Len(p.comps)]
  BY DEF Resolve
<1> QED
  BY <1>3, <1>4

\* The walk of CreateTarget, which may stop before the last component.
LEMMA TargetWalk ==
  ASSUME NEW es, NEW dir, NEW p \in Path, p.comps # <<>>
  PROVE  \E m \in 0 .. Len(p.comps) : \E cur :
           /\ cur = [n \in 0 .. m |->
                       IF n = 0 THEN StartOf(p, dir) ELSE DescendStep(es, cur[n - 1], p.comps[n])]
           /\ CreateTarget(es, dir, p).dir = cur[m]
           /\ CreateTarget(es, dir, p).name = p.comps[Len(p.comps)]
<1> DEFINE cut == IF ~p.slash /\ Last(p.comps) \in Comps THEN 1 ELSE 0
           last == Len(p.comps) - cut
           Walk(g, m) ==
             g = [n \in 0 .. m |->
                    IF n = 0 THEN StartOf(p, dir) ELSE DescendStep(es, g[n - 1], p.comps[n])]
           Missing == {m \in Nat : ~ \E g : Walk(g, m)}
<1>1. Missing = {}
  <2> SUFFICES ASSUME Missing # {} PROVE FALSE
    OBVIOUS
  <2>1. PICK m \in Missing : \A k \in Missing : m <= k
    <3>1. Missing \in SUBSET Nat
      OBVIOUS
    <3> HIDE DEF Missing
    <3> QED
      BY <3>1, LeastElement
  <2>2. CASE m = 0
    <3> DEFINE g == [n \in 0 .. 0 |-> StartOf(p, dir)]
    <3>1. Walk(g, 0)
      OBVIOUS
    <3> QED
      BY <2>2, <3>1
  <2>3. CASE m # 0
    <3>1. m - 1 \in Nat /\ m - 1 \notin Missing
      <4>1. m \in Nat
        OBVIOUS
      <4> HIDE DEF Missing
      <4> QED
        BY <2>1, <2>3, <4>1
    <3>2. PICK f : Walk(f, m - 1)
      BY <3>1
    <3> DEFINE g == [n \in 0 .. m |->
                       IF n = m THEN DescendStep(es, f[m - 1], p.comps[m]) ELSE f[n]]
    <3>3. Walk(g, m)
      BY <2>1, <2>3, <3>2
    <3> QED
      BY <3>3
  <2> QED
    BY <2>2, <2>3
<1>2. last \in 0 .. Len(p.comps) /\ last \in Nat
  <2>1. p.comps \in Seq(AnyName)
    BY DEF Path
  <2>2. Len(p.comps) \in Nat \ {0}
    BY <2>1, EmptySeq
  <2>3. cut = 0 \/ cut = 1
    BY Zenon
  <2> HIDE DEF cut
  <2> QED
    BY <2>2, <2>3
<1>3. PICK g : Walk(g, last)
  <2> HIDE DEF last
  <2> QED
    BY <1>1, <1>2
<1> HIDE DEF Missing
<1>4. Walk((CHOOSE h : Walk(h, last)), last)
  BY <1>3
<1>5. /\ CreateTarget(es, dir, p).dir = (CHOOSE h : Walk(h, last))[last]
      /\ CreateTarget(es, dir, p).name = p.comps[Len(p.comps)]
  BY DEF CreateTarget, Last
<1> HIDE DEF last
<1> QED
  BY <1>2, <1>4, <1>5

-----------------------------------------------------------------------------
(* Slots.                                                                  *)

LEMMA Slots ==
  /\ Ids \subseteq Nat /\ Root \in Ids /\ NoNode \notin Ids
  /\ FreeEntry \in Entry /\ ~FreeEntry.used
<1>1. Ids \subseteq Nat /\ Root \in Ids /\ NoNode \notin Ids
  <2>1. MaxEntries \in Nat \ {0}
    BY TableAssumption, Zenon
  <2> QED
    BY <2>1 DEF Ids, Root, NoNode
<1>2. 0 \in Ids /\ 0 \in Nat
  BY <1>1 DEF Root
<1>3. FreeEntry \in Entry /\ ~FreeEntry.used
  BY <1>2 DEF FreeEntry, Entry
<1> QED
  BY <1>1, <1>3

\* sfs_find_free_entry returns a free slot, or -1.
LEMMA FreeEntryFacts ==
  ASSUME NEW es, FindFreeEntry(es) # NoNode
  PROVE  FindFreeEntry(es) \in Ids /\ ~es[FindFreeEntry(es)].used
<1> DEFINE S == {i \in Ids : ~es[i].used}
<1>1. S # {} /\ S \in SUBSET Nat
  BY Slots DEF FindFreeEntry, Lowest
<1>2. FindFreeEntry(es) = Min(S)
  BY <1>1 DEF FindFreeEntry, Lowest
<1>3. Min(S) \in S
  <2> HIDE DEF S
  <2> QED
    BY <1>1, LeastElement
<1> QED
  BY <1>2, <1>3

\* sfs_find_child returns an entry of the directory with that name, or -1 if there
\* is none.
LEMMA ChildFacts ==
  ASSUME NEW es, NEW dir, NEW name
  PROVE  LET child == FindChild(es, dir, name)
         IN \/ child \in Ids /\ es[child].used /\ es[child].parent = dir /\ es[child].name = name
            \/ /\ child = NoNode
               /\ \A i \in Ids : es[i].used /\ es[i].parent = dir => es[i].name # name
<1> DEFINE S == {i \in Ids : es[i].used /\ es[i].parent = dir /\ es[i].name = name}
<1>1. S \in SUBSET Nat
  BY Slots
<1>2. CASE S = {}
  BY <1>2 DEF FindChild, Lowest
<1>3. CASE S # {}
  <2>1. FindChild(es, dir, name) = Min(S)
    BY <1>3 DEF FindChild, Lowest
  <2>2. Min(S) \in S
    <3> HIDE DEF S
    <3> QED
      BY <1>1, <1>3, LeastElement
  <2> QED
    BY <2>1, <2>2
<1> QED
  BY <1>2, <1>3

\* A path leads to a slot or nowhere.
LEMMA ResolveType ==
  ASSUME NEW es \in [Ids -> Entry], NEW dir \in Ids, NEW p \in Path
  PROVE  Resolve(es, dir, p) \in Ids \union {NoNode}
<1> DEFINE T == Ids \union {NoNode}
<1>1. PICK cur :
        /\ cur = [n \in 0 .. Len(p.comps) |->
                    IF n = 0 THEN StartOf(p, dir) ELSE ResolveStep(es, cur[n - 1], p.comps[n])]
        /\ Resolve(es, dir, p) = cur[Len(p.comps)]
  BY ResolveWalk
<1>2. Len(p.comps) \in Nat
  BY DEF Path
<1>3. cur[0] \in T
  BY <1>1, <1>2, Slots DEF StartOf
<1>4. ASSUME NEW n \in 1 .. Len(p.comps), cur[n - 1] \in T
      PROVE  cur[n] \in T
  <2>1. cur[n] = ResolveStep(es, cur[n - 1], p.comps[n])
    BY <1>1, <1>2
  <2>2. cur[n - 1] # NoNode => es[cur[n - 1]].parent \in Ids
    BY <1>4 DEF Entry
  <2> QED
    BY <1>4, <2>1, <2>2, ChildFacts DEF ResolveStep
<1> HIDE DEF T
<1>5. cur[Len(p.comps)] \in T
  BY <1>2, <1>3, <1>4, WalkKeeps
<1> QED
  BY <1>1, <1>5 DEF T

\* So does the walk to the directory of a new node, whose name is a component.
LEMMA TargetType ==
  ASSUME NEW es \in [Ids -> Entry], NEW dir \in Ids, NEW p \in Path, p.comps # <<>>
  PROVE  /\ CreateTarget(es, dir, p).dir \in Ids \union {NoNode}
         /\ CreateTarget(es, dir, p).name \in AnyName
<1> DEFINE T == Ids \union {NoNode}
<1>0. PICK m \in 0 .. Len(p.comps) : \E cur :
        /\ cur = [n \in 0 .. m |->
                    IF n = 0 THEN StartOf(p, dir) ELSE DescendStep(es, cur[n - 1], p.comps[n])]
        /\ CreateTarget(es, dir, p).dir = cur[m]
        /\ CreateTarget(es, dir, p).name = p.comps[Len(p.comps)]
  BY TargetWalk
<1>1. PICK cur :
        /\ cur = [n \in 0 .. m |->
                    IF n = 0 THEN StartOf(p, dir) ELSE DescendStep(es, cur[n - 1], p.comps[n])]
        /\ CreateTarget(es, dir, p).dir = cur[m]
        /\ CreateTarget(es, dir, p).name = p.comps[Len(p.comps)]
  BY <1>0
<1>2. p.comps \in Seq(AnyName) /\ m \in Nat
  BY DEF Path
<1>3. cur[0] \in T
  BY <1>1, <1>2, Slots DEF StartOf
<1>4. ASSUME NEW n \in 1 .. m, cur[n - 1] \in T
      PROVE  cur[n] \in T
  <2>1. cur[n] = DescendStep(es, cur[n - 1], p.comps[n])
    BY <1>1, <1>2
  <2>2. cur[n - 1] # NoNode => es[cur[n - 1]].parent \in Ids
    BY <1>4 DEF Entry
  <2>3. ResolveStep(es, cur[n - 1], p.comps[n]) \in T
    BY <1>4, <2>2, ChildFacts DEF ResolveStep
  <2> QED
    BY <2>1, <2>3 DEF DescendStep
<1>5. p.comps[Len(p.comps)] \in AnyName
  <2>1. Len(p.comps) \in Nat \ {0}
    BY <1>2, EmptySeq
  <2>2. Len(p.comps) \in 1 .. Len(p.comps)
    BY <2>1
  <2> QED
    BY <1>2, <2>2, ElementOfSeq
<1> HIDE DEF T
<1>6. cur[m] \in T
  BY <1>2, <1>3, <1>4, WalkKeeps
<1> QED
  BY <1>1, <1>5, <1>6 DEF T

\* sfs_create takes a free slot, in a directory that has no such name yet.
LEMMA CreateFacts ==
  ASSUME NEW es \in [Ids -> Entry], NEW dir \in Ids, NEW p \in Path,
         CreateSlot(es, dir, p) # NoNode
  PROVE  LET slot   == CreateSlot(es, dir, p)
             target == CreateTarget(es, dir, p)
         IN /\ p.comps # <<>>
            /\ slot \in Ids /\ ~es[slot].used
            /\ target.dir \in Ids /\ target.name \in AnyName
            /\ \A i \in Ids : es[i].used /\ es[i].parent = target.dir
                                => es[i].name # target.name
<1>1. /\ p.comps # <<>> /\ CreateTarget(es, dir, p).dir # NoNode
      /\ FindChild(es, CreateTarget(es, dir, p).dir, CreateTarget(es, dir, p).name) = NoNode
      /\ CreateSlot(es, dir, p) = FindFreeEntry(es)
  BY Zenon DEF CreateSlot
<1>2. CreateTarget(es, dir, p).dir \in Ids /\ CreateTarget(es, dir, p).name \in AnyName
  BY <1>1, TargetType
<1> QED
  BY <1>1, <1>2, FreeEntryFacts, ChildFacts, Slots

-----------------------------------------------------------------------------
(* The tree.                                                               *)

\* In a tree, a walk from a directory in use that ends somewhere ends in a
\* directory in use.
LEMMA TargetLive ==
  ASSUME NEW es \in [Ids -> Entry], NEW dir \in Ids, NEW p \in Path, p.comps # <<>>,
         TreeOK(es), es[dir].used, es[dir].type = "dir"
  PROVE  LET to == CreateTarget(es, dir, p).dir
         IN to # NoNode => to \in Ids /\ es[to].used /\ es[to].type = "dir"
<1> DEFINE T == {i \in Ids : es[i].used /\ es[i].type = "dir"} \union {NoNode}
<1>0. PICK m \in 0 .. Len(p.comps) : \E cur :
        /\ cur = [n \in 0 .. m |->
                    IF n = 0 THEN StartOf(p, dir) ELSE DescendStep(es, cur[n - 1], p.comps[n])]
        /\ CreateTarget(es, dir, p).dir = cur[m]
        /\ CreateTarget(es, dir, p).name = p.comps[Len(p.comps)]
  BY TargetWalk
<1>1. PICK cur :
        /\ cur = [n \in 0 .. m |->
                    IF n = 0 THEN StartOf(p, dir) ELSE DescendStep(es, cur[n - 1], p.comps[n])]
        /\ CreateTarget(es, dir, p).dir = cur[m]
        /\ CreateTarget(es, dir, p).name = p.comps[Len(p.comps)]
  BY <1>0
<1>2. p.comps \in Seq(AnyName) /\ m \in Nat /\ Len(p.comps) \in Nat
  BY DEF Path
<1>3. cur[0] \in T
  <2>1. cur[0] = StartOf(p, dir)
    BY <1>1, <1>2
  <2>2. CASE p.abs
    BY <2>1, <2>2, Slots DEF StartOf, TreeOK
  <2>3. CASE ~p.abs
    BY <2>1, <2>3 DEF StartOf
  <2> QED
    BY <2>2, <2>3
<1>4. ASSUME NEW n \in 1 .. m, cur[n - 1] \in T
      PROVE  cur[n] \in T
  <2> DEFINE at == cur[n - 1]
             c  == p.comps[n]
  <2>1. cur[n] = DescendStep(es, at, c)
    BY <1>1, <1>2
  <2>2. c \in AnyName
    BY <1>2, ElementOfSeq
  <2>3. at \in T
    BY <1>4
  <2> HIDE DEF at, c
  <2>4. CASE at = NoNode \/ c = "."
    BY <2>1, <2>3, <2>4 DEF DescendStep, ResolveStep
  <2>5. CASE at # NoNode /\ c = ".."
    <3>1. at \in Ids /\ es[at].used /\ es[at].parent \in Ids
      BY <2>3, <2>5 DEF Entry
    <3>2. es[es[at].parent].used /\ es[es[at].parent].type = "dir"
      BY <3>1 DEF TreeOK
    <3> QED
      BY <2>1, <2>5, <3>1, <3>2 DEF DescendStep, ResolveStep
  <2>6. CASE at # NoNode /\ c \notin {".", ".."}
    <3>1. ResolveStep(es, at, c) = FindChild(es, at, c) /\ c \in Comps
      BY <2>2, <2>6 DEF ResolveStep, AnyName
    <3> QED
      BY <2>1, <3>1, ChildFacts DEF DescendStep
  <2> QED
    BY <2>4, <2>5, <2>6
<1> HIDE DEF T
<1>5. cur[m] \in T
  BY <1>2, <1>3, <1>4, WalkKeeps
<1> QED
  BY <1>1, <1>5 DEF T

\* A new node in a directory in use keeps the tree.
LEMMA CreateKeepsTree ==
  ASSUME NEW es \in [Ids -> Entry], TreeOK(es), NEW slot \in Ids, ~es[slot].used,
         NEW dir \in Ids, es[dir].used, es[dir].type = "dir",
         NEW name, \A i \in Ids : es[i].used /\ es[i].parent = dir => es[i].name # name,
         NEW type
  PROVE  TreeOK([es EXCEPT ![slot] = NewEntry(dir, type, name)])
<1> DEFINE fs == [es EXCEPT ![slot] = NewEntry(dir, type, name)]
<1>1. /\ \A i \in Ids : i # slot => fs[i] = es[i]
      /\ fs[slot].used /\ fs[slot].parent = dir /\ fs[slot].name = name
  BY DEF NewEntry
<1> HIDE DEF fs
<1>2. slot # dir /\ slot # Root
  BY DEF TreeOK
<1>3. fs[Root].used /\ fs[Root].type = "dir"
  BY <1>1, <1>2, Slots DEF TreeOK
<1>4. ASSUME NEW i \in Ids, fs[i].used
      PROVE  fs[fs[i].parent].used /\ fs[fs[i].parent].type = "dir"
  <2>1. CASE i = slot
    BY <1>1, <1>2, <2>1
  <2>2. CASE i # slot
    <3>1. /\ es[i].used /\ fs[i].parent = es[i].parent /\ es[i].parent \in Ids
          /\ es[es[i].parent].used /\ es[es[i].parent].type = "dir"
      BY <1>1, <1>4, <2>2 DEF TreeOK, Entry
    <3> QED
      BY <1>1, <3>1
  <2> QED
    BY <2>1, <2>2
<1>5. ASSUME NEW i \in Ids \ {Root}, NEW j \in Ids \ {Root},
             fs[i].used, fs[j].used, i # j, fs[i].parent = fs[j].parent
      PROVE  fs[i].name # fs[j].name
  <2>1. CASE i = slot
    BY <1>1, <1>5, <2>1
  <2>2. CASE j = slot
    BY <1>1, <1>5, <2>2
  <2>3. CASE i # slot /\ j # slot
    BY <1>1, <1>5, <2>3 DEF TreeOK
  <2> QED
    BY <2>1, <2>2, <2>3
<1> QED
  BY <1>3, <1>4, <1>5 DEF TreeOK, fs

\* Removing a node in use that sfs_remove accepts keeps the tree.
LEMMA RemoveKeepsTree ==
  ASSUME NEW es \in [Ids -> Entry], TreeOK(es), NEW dir \in Ids, NEW p \in Path,
         RemoveSlot(es, dir, p) # NoNode
  PROVE  /\ RemoveSlot(es, dir, p) \in Ids
         /\ TreeOK([es EXCEPT ![RemoveSlot(es, dir, p)] = FreeEntry])
<1> DEFINE id == RemoveSlot(es, dir, p)
           fs == [es EXCEPT ![id] = FreeEntry]
<1>1. /\ id = Resolve(es, dir, p) /\ id # Root
      /\ es[id].type = "dir" => \A i \in Ids : es[i].used => es[i].parent # id
  BY Zenon DEF RemoveSlot
<1>2. id \in Ids
  BY <1>1, ResolveType
<1> HIDE DEF id
<1>3. fs[id] = FreeEntry /\ \A i \in Ids : i # id => fs[i] = es[i]
  BY <1>2
<1> HIDE DEF fs
<1>4. fs[Root].used /\ fs[Root].type = "dir"
  BY <1>1, <1>3, Slots DEF TreeOK
<1>5. ASSUME NEW i \in Ids, fs[i].used
      PROVE  fs[fs[i].parent].used /\ fs[fs[i].parent].type = "dir"
  <2>1. i # id /\ fs[i] = es[i]
    BY <1>3, <1>5, Slots
  <2>2. es[i].parent \in Ids /\ es[es[i].parent].used /\ es[es[i].parent].type = "dir"
    BY <1>5, <2>1 DEF TreeOK, Entry
  <2>3. es[i].parent # id
    BY <1>1, <1>5, <2>1, <2>2
  <2> QED
    BY <1>3, <2>1, <2>2, <2>3
<1>6. ASSUME NEW i \in Ids \ {Root}, NEW j \in Ids \ {Root},
             fs[i].used, fs[j].used, i # j, fs[i].parent = fs[j].parent
      PROVE  fs[i].name # fs[j].name
  <2>1. i # id /\ j # id
    BY <1>3, <1>6, Slots
  <2> QED
    BY <1>3, <1>6, <2>1 DEF TreeOK
<1> QED
  BY <1>2, <1>4, <1>5, <1>6 DEF TreeOK, fs, id

-----------------------------------------------------------------------------
(* The calls of vfs.c.                                                     *)

LEMMA LesserOf ==
  ASSUME NEW a \in Nat, NEW b \in Nat
  PROVE  Min({a, b}) \in {a, b} /\ Min({a, b}) <= a /\ Min({a, b}) <= b
<1>1. {a, b} \in SUBSET Nat /\ {a, b} # {}
  OBVIOUS
<1>2. PICK x \in {a, b} : Min({a, b}) = x /\ \A y \in {a, b} : x <= y
  BY <1>1, LeastElement
<1> QED
  BY <1>2

\* vfs_open finds a free descriptor, or none.
LEMMA FreeFdFacts ==
  ASSUME FreeFd # NoFd
  PROVE  FreeFd \in Fds /\ ~fds[FreeFd].used
<1> DEFINE S == {f \in Fds : ~fds[f].used}
<1>1. S # {} /\ S \in SUBSET Nat
  <2>1. Fds \in SUBSET Nat
    BY VfsAssumption DEF Fds
  <2> QED
    BY <2>1 DEF FreeFd
<1>2. FreeFd = Min(S)
  BY <1>1 DEF FreeFd
<1>3. Min(S) \in S
  <2> HIDE DEF S
  <2> QED
    BY <1>1, LeastElement
<1> QED
  BY <1>2, <1>3

\* An open of path p does not take node id for that of another path in use.
Spares(t, p, id) == \A i \in Ids : nodes[i].used /\ i # Resolve(nodes, cwd[t], p) => i # id

\* vfs_open gave fd for node id.
Opened(t, p, flags, fd, id) ==
  /\ fd # NoFd /\ fd = FreeFd
  /\ fds' = [fds EXCEPT ![fd] = [used |-> TRUE, node |-> id, off |-> 0, flags |-> flags]]
  /\ "create" \notin flags => id = Resolve(nodes, cwd[t], p) /\ nodes' = nodes
  /\ "trunc" \in flags => IsFile(nodes', id)
  /\ files' = IF "trunc" \in flags THEN [files EXCEPT ![id] = <<>>] ELSE files
  /\ Spares(t, p, id)

\* What vfs_open does to the table, the files and the descriptors.
LEMMA OpenFacts ==
  ASSUME VfsTypeOK, NEW t \in Terminals, NEW p \in Path, NEW flags \in SUBSET Flags, NEW fd,
         Open(t, p, flags, fd)
  PROVE  /\ cwd' = cwd
         /\ \/ nodes' = nodes
            \/ CreateSlot(nodes, cwd[t], p) # NoNode /\ nodes' = Created(t, p, "file")
         /\ \/ fd = NoFd /\ fds' = fds
            \/ \E id \in Ids : Opened(t, p, flags, fd, id)
         /\ \A i \in Ids : nodes[i].used => nodes'[i] = nodes[i]
         /\ \/ files' = files
            \/ \E id \in Ids :
                 files' = [files EXCEPT ![id] = <<>>] /\ Spares(t, p, id)
<1> DEFINE found == Resolve(nodes, cwd[t], p)
           slot  == IF "create" \in flags THEN CreateSlot(nodes, cwd[t], p) ELSE NoNode
<1>1. cwd' = cwd /\ nodes \in [Ids -> Entry] /\ cwd[t] \in Ids
  BY DEF Open, VfsTypeOK
<1>2. found \in Ids \union {NoNode}
  BY <1>1, ResolveType
<1>3. slot # NoNode => /\ slot = CreateSlot(nodes, cwd[t], p) /\ "create" \in flags
                       /\ slot \in Ids /\ ~nodes[slot].used
  BY <1>1, CreateFacts
<1>4. ASSUME NEW id \in Ids, OpenNode(id, flags, fd)
      PROVE  \/ fd = NoFd /\ fds' = fds /\ files' \in {files, [files EXCEPT ![id] = <<>>]}
             \/ /\ fd # NoFd /\ fd = FreeFd
                /\ fds' = [fds EXCEPT ![fd] = [used |-> TRUE, node |-> id, off |-> 0, flags |-> flags]]
                /\ "trunc" \in flags => IsFile(nodes', id)
                /\ files' = IF "trunc" \in flags THEN [files EXCEPT ![id] = <<>>] ELSE files
  BY <1>4, Zenon DEF OpenNode
<1> HIDE DEF found, slot
<1>5. \/ found # NoNode /\ nodes' = nodes /\ OpenNode(found, flags, fd)
      \/ /\ found = NoNode /\ slot # NoNode
         /\ nodes' = Created(t, p, "file")
         /\ \/ OpenNode(slot, flags, fd)
            \/ fd = NoFd /\ files' = files /\ fds' = fds
      \/ found = NoNode /\ slot = NoNode /\ fd = NoFd /\ nodes' = nodes /\ files' = files /\ fds' = fds
  BY DEF Open, found, slot
<1>6. CASE found # NoNode /\ nodes' = nodes /\ OpenNode(found, flags, fd)
  <2>1. found \in Ids
    BY <1>2, <1>6
  <2> QED
    BY <1>1, <1>4, <1>6, <2>1 DEF found, Opened, Spares
<1>7. CASE found = NoNode /\ slot # NoNode /\ nodes' = Created(t, p, "file")
  <2>1. \A i \in Ids : nodes[i].used => i # slot /\ nodes'[i] = nodes[i]
    BY <1>1, <1>3, <1>7 DEF Created
  <2>2. CASE OpenNode(slot, flags, fd)
    BY <1>1, <1>3, <1>4, <1>7, <2>1, <2>2 DEF Opened, Spares
  <2>3. CASE fd = NoFd /\ files' = files /\ fds' = fds
    BY <1>1, <1>3, <1>7, <2>1, <2>3
  <2> QED
    BY <1>5, <1>7, <2>2, <2>3
<1>8. CASE found = NoNode /\ slot = NoNode /\ fd = NoFd /\ nodes' = nodes /\ files' = files /\ fds' = fds
  BY <1>1, <1>8
<1> QED
  BY <1>5, <1>6, <1>7, <1>8

\* A new entry is typed.
LEMMA CreatedType ==
  ASSUME VfsTypeOK, NEW t \in Terminals, NEW p \in Path, NEW type \in {"file", "dir"},
         CreateSlot(nodes, cwd[t], p) # NoNode
  PROVE  Created(t, p, type) \in [Ids -> Entry]
<1> DEFINE target == CreateTarget(nodes, cwd[t], p)
<1>1. nodes \in [Ids -> Entry] /\ cwd[t] \in Ids
  BY DEF VfsTypeOK
<1>2. target.dir \in Ids /\ target.name \in AnyName
  BY <1>1, CreateFacts
<1> HIDE DEF target
<1>3. NewEntry(target.dir, type, target.name) \in Entry
  BY <1>2 DEF NewEntry, Entry
<1> QED
  BY <1>1, <1>3 DEF Created, target

LEMMA OpenType ==
  ASSUME VfsTypeOK, NEW t \in Terminals, NEW p \in Path, NEW flags \in SUBSET Flags, NEW fd,
         Open(t, p, flags, fd)
  PROVE  VfsTypeOK'
<1>1. nodes' \in [Ids -> Entry] /\ cwd' = cwd
  <2>1. /\ cwd' = cwd
        /\ \/ nodes' = nodes
           \/ CreateSlot(nodes, cwd[t], p) # NoNode /\ nodes' = Created(t, p, "file")
    BY OpenFacts, Zenon
  <2>2. CreateSlot(nodes, cwd[t], p) # NoNode => Created(t, p, "file") \in [Ids -> Entry]
    BY CreatedType
  <2> QED
    BY <2>1, <2>2, Zenon DEF VfsTypeOK
<1>2. files' \in [Ids -> Seq(Bytes)]
  <2>1. <<>> \in Seq(Bytes) /\ files \in [Ids -> Seq(Bytes)]
    BY EmptySeq DEF VfsTypeOK
  <2>2. files' = files \/ \E id \in Ids : files' = [files EXCEPT ![id] = <<>>]
    BY OpenFacts
  <2> QED
    BY <2>1, <2>2
<1>3. fds' \in [Fds -> [used : BOOLEAN, node : Ids, off : Nat, flags : SUBSET Flags]]
  <2>1. \/ fds' = fds
        \/ \E id \in Ids :
             fds' = [fds EXCEPT ![fd] = [used |-> TRUE, node |-> id, off |-> 0, flags |-> flags]]
    <3>1. fds' = fds \/ \E id \in Ids : Opened(t, p, flags, fd, id)
      BY OpenFacts
    <3> QED
      BY <3>1, Zenon DEF Opened
  <2>2. \A id \in Ids : [used |-> TRUE, node |-> id, off |-> 0, flags |-> flags]
                          \in [used : BOOLEAN, node : Ids, off : Nat, flags : SUBSET Flags]
    OBVIOUS
  <2> DEFINE R == [used : BOOLEAN, node : Ids, off : Nat, flags : SUBSET Flags]
  <2>3. fds \in [Fds -> R]
    BY DEF VfsTypeOK
  <2> HIDE DEF R
  <2> QED
    BY <2>1, <2>2, <2>3 DEF R
<1> QED
  BY <1>1, <1>2, <1>3 DEF VfsTypeOK

LEMMA Advanced ==
  ASSUME NEW f \in [used : BOOLEAN, node : Ids, off : Nat, flags : SUBSET Flags], NEW k \in Nat
  PROVE  [f EXCEPT !.off = @ + k] \in [used : BOOLEAN, node : Ids, off : Nat, flags : SUBSET Flags]
<1>1. f.off + k \in Nat
  OBVIOUS
<1> QED
  BY <1>1

\* vfs_read advances its descriptor by what it yields; without an error that is
\* the next part of the file, and nothing only at its end.
LEMMA ReadFacts ==
  ASSUME VfsTypeOK, NEW fd \in Fds, NEW len \in Nat \ {0}, NEW chunk \in Seq(Bytes),
         Read(fd, len, chunk)
  PROVE  /\ nodes' = nodes /\ files' = files /\ cwd' = cwd
         /\ fds' = [fds EXCEPT ![fd].off = @ + Len(chunk)]
         /\ VfsTypeOK'
         /\ LET node == fds[fd].node
                off  == fds[fd].off
            IN ~ReadErrors /\ IsFile(nodes, node) /\ off <= Len(files[node]) =>
                 /\ off + Len(chunk) <= Len(files[node])
                 /\ chunk = SubSeq(files[node], off + 1, off + Len(chunk))
                 /\ chunk = <<>> => off = Len(files[node])
<1> DEFINE node == fds[fd].node
           off  == fds[fd].off
           size == Len(files[node])
           rest == SubSeq(files[node], off + 1, Min({off + len, size}))
<1>1. /\ nodes' = nodes /\ files' = files /\ cwd' = cwd
      /\ fds' = [fds EXCEPT ![fd].off = @ + Len(chunk)]
  BY DEF Read
<1>2. node \in Ids /\ off \in Nat /\ files[node] \in Seq(Bytes) /\ size \in Nat /\ Len(chunk) \in Nat
  BY DEF VfsTypeOK
<1>3. VfsTypeOK'
  <2> DEFINE R == [used : BOOLEAN, node : Ids, off : Nat, flags : SUBSET Flags]
  <2>1. fds \in [Fds -> R] /\ [fds[fd] EXCEPT !.off = @ + Len(chunk)] \in R
    <3>1. fds \in [Fds -> R] /\ fds[fd] \in R
      BY DEF VfsTypeOK
    <3> QED
      BY <1>2, <3>1, Advanced
  <2>2. fds' = [fds EXCEPT ![fd] = [fds[fd] EXCEPT !.off = @ + Len(chunk)]]
    BY <1>1
  <2> HIDE DEF R
  <2>3. fds' \in [Fds -> R]
    BY <2>1, <2>2
  <2> QED
    BY <1>1, <2>3 DEF VfsTypeOK, R
<1>4. ASSUME ~ReadErrors, IsFile(nodes, node), off <= size
      PROVE  /\ off + Len(chunk) <= size
             /\ chunk = SubSeq(files[node], off + 1, off + Len(chunk))
             /\ chunk = <<>> => off = size
  <2>1. chunk = rest
    BY <1>4 DEF Read
  <2> DEFINE top == Min({off + len, size})
  <2> HIDE DEF node, off, size
  <2>2. off + len \in Nat
    BY <1>2
  <2>3. top \in {off + len, size} /\ top <= size /\ top <= off + len
    BY <1>2, <2>2, LesserOf
  <2> HIDE DEF top
  <2>4. off <= top /\ top \in Nat
    BY <1>2, <1>4, <2>2, <2>3
  <2>5. Len(SubSeq(files[node], off + 1, top)) = top - off
    <3>1. \A i \in off + 1 .. top : files[node][i] \in Bytes
      BY <1>2, <2>3, <2>4 DEF size
    <3>2. off + 1 \in Int /\ top \in Int
      BY <1>2, <2>4
    <3>3. Len(SubSeq(files[node], off + 1, top)) = IF off + 1 <= top THEN top - (off + 1) + 1 ELSE 0
      BY <3>1, <3>2, SubSeqProperties
    <3> QED
      BY <1>2, <2>4, <3>3
  <2>6. chunk = SubSeq(files[node], off + 1, top) /\ off + Len(chunk) = top
    <3>1. chunk = SubSeq(files[node], off + 1, top)
      BY <2>1 DEF top, node, off, size
    <3> QED
      BY <1>2, <2>4, <2>5, <3>1
  <2>7. ASSUME chunk = <<>> PROVE off = size
    <3>1. top = off
      BY <1>2, <2>4, <2>6, <2>7
    <3> QED
      BY <1>2, <2>3, <3>1
  <2> QED
    BY <1>4, <2>3, <2>6, <2>7 DEF size
<1> QED
  BY <1>1, <1>3, <1>4

\* A write at the end of a file appends.
LEMMA AtEndAppends ==
  ASSUME NEW old \in Seq(Bytes), NEW buf \in Seq(Bytes), NEW k \in 0 .. Len(buf)
  PROVE  LET new == SubSeq(old, 1, Len(old)) \o SubSeq(buf, 1, k)
                      \o SubSeq(old, Len(old) + k + 1, Len(old))
         IN /\ new \in Seq(Bytes) /\ new = old \o SubSeq(buf, 1, k)
            /\ SubSeq(new, 1, Len(old)) \in Seq(Bytes)
<1>1. SubSeq(old, 1, Len(old)) = old
  BY SubSeqFull
<1>2. Len(old) \in Nat /\ k \in Nat /\ Len(buf) \in Nat /\ k <= Len(buf)
  OBVIOUS
<1>3. SubSeq(old, Len(old) + k + 1, Len(old)) = <<>>
  <2>1. Len(old) + k + 1 \in Int /\ Len(old) \in Int /\ Len(old) < Len(old) + k + 1
    BY <1>2
  <2> QED
    BY <2>1, SubSeqEmpty
<1>4. SubSeq(buf, 1, k) \in Seq(Bytes)
  <2>1. \A i \in 1 .. k : buf[i] \in Bytes
    BY <1>2
  <2> QED
    BY <1>2, <2>1, SubSeqProperties
<1>5. old \o SubSeq(buf, 1, k) \in Seq(Bytes)
  BY <1>4, ConcatProperties
<1>6. (old \o SubSeq(buf, 1, k)) \o <<>> = old \o SubSeq(buf, 1, k)
  BY <1>5, ConcatEmptySeq
<1> DEFINE new == old \o SubSeq(buf, 1, k)
<1>7. SubSeq(new, 1, Len(old)) \in Seq(Bytes)
  <2>1. \A i \in 1 .. Len(old) : new[i] \in Bytes
    <3>1. Len(new) = Len(old) + Len(SubSeq(buf, 1, k)) /\ Len(SubSeq(buf, 1, k)) \in Nat
      BY <1>4, ConcatProperties
    <3>2. new \in Seq(Bytes)
      BY <1>5
    <3> HIDE DEF new
    <3>3. \A i \in 1 .. Len(old) : i \in 1 .. Len(new)
      BY <1>2, <3>1
    <3> QED
      BY <3>2, <3>3, ElementOfSeq
  <2> HIDE DEF new
  <2> QED
    BY <1>2, <2>1, SubSeqProperties
<1> QED
  BY <1>1, <1>3, <1>5, <1>6, <1>7

\* vfs_write at the end of a file: it appends the buffer, or reports a failure.
LEMMA WriteFacts ==
  ASSUME VfsTypeOK, NEW fd \in Fds, NEW buf \in Seq(Bytes), NEW ok \in BOOLEAN,
         fds[fd].off = Len(files[fds[fd].node]), Write(fd, buf, ok)
  PROVE  LET node == fds[fd].node
         IN /\ nodes' = nodes /\ cwd' = cwd
            /\ fds' = IF ok THEN [fds EXCEPT ![fd].off = @ + Len(buf)] ELSE fds
            /\ \E bytes \in Seq(Bytes) : files' = [files EXCEPT ![node] = bytes]
            /\ ok => files' = [files EXCEPT ![node] = @ \o buf]
            /\ VfsTypeOK'
<1> DEFINE node       == fds[fd].node
           old        == files[node]
           written(k) == SubSeq(old, 1, fds[fd].off) \o SubSeq(buf, 1, k)
                         \o SubSeq(old, fds[fd].off + k + 1, Len(old))
<1>1. /\ nodes' = nodes /\ cwd' = cwd
      /\ fds' = IF ok THEN [fds EXCEPT ![fd].off = @ + Len(buf)] ELSE fds
  BY DEF Write
<1>2. /\ node \in Ids /\ old \in Seq(Bytes) /\ files \in [Ids -> Seq(Bytes)] /\ Len(buf) \in Nat
      /\ fds[fd].off = Len(old)
  BY DEF VfsTypeOK
<1>3. \A k \in 0 .. Len(buf) : /\ written(k) \in Seq(Bytes) /\ written(k) = old \o SubSeq(buf, 1, k)
                               /\ SubSeq(written(k), 1, Len(old)) \in Seq(Bytes)
  <2> SUFFICES ASSUME NEW k \in 0 .. Len(buf)
               PROVE  /\ written(k) \in Seq(Bytes) /\ written(k) = old \o SubSeq(buf, 1, k)
                      /\ SubSeq(written(k), 1, Len(old)) \in Seq(Bytes)
    OBVIOUS
  <2> HIDE DEF old
  <2>1. written(k) = SubSeq(old, 1, Len(old)) \o SubSeq(buf, 1, k)
                       \o SubSeq(old, Len(old) + k + 1, Len(old))
    BY <1>2
  <2> HIDE DEF written
  <2> QED
    BY <1>2, <2>1, AtEndAppends
<1>4. Len(buf) \in 0 .. Len(buf) /\ SubSeq(buf, 1, Len(buf)) = buf
  BY <1>2, SubSeqFull
<1>5. written(Len(buf)) = old \o buf /\ written(Len(buf)) \in Seq(Bytes)
  BY <1>3, <1>4
<1>6. \/ files' = [files EXCEPT ![node] = written(Len(buf))]
      \/ ~ok /\ \E k \in 0 .. Len(buf) : files' = [files EXCEPT ![node] = SubSeq(written(k), 1, Len(old))]
      \/ ~ok /\ files' = files
  BY Zenon DEF Write
<1>7. files = [files EXCEPT ![node] = old]
  BY <1>2
<1> HIDE DEF written, old, node
<1>8. \E bytes \in Seq(Bytes) : files' = [files EXCEPT ![node] = bytes]
  BY <1>2, <1>3, <1>5, <1>6, <1>7
<1>9. ok => files' = [files EXCEPT ![node] = @ \o buf]
  BY <1>2, <1>5, <1>6 DEF old
<1>10. VfsTypeOK'
  <2> DEFINE R == [used : BOOLEAN, node : Ids, off : Nat, flags : SUBSET Flags]
  <2>1. fds \in [Fds -> R] /\ [fds[fd] EXCEPT !.off = @ + Len(buf)] \in R
    <3>1. fds \in [Fds -> R] /\ fds[fd] \in R
      BY DEF VfsTypeOK
    <3> QED
      BY <1>2, <3>1, Advanced
  <2>2. ok => fds' = [fds EXCEPT ![fd] = [fds[fd] EXCEPT !.off = @ + Len(buf)]]
    BY <1>1
  <2> HIDE DEF R
  <2>3. fds' \in [Fds -> R]
    BY <1>1, <2>1, <2>2
  <2>4. files' \in [Ids -> Seq(Bytes)]
    BY <1>2, <1>8
  <2> QED
    BY <1>1, <2>3, <2>4 DEF VfsTypeOK, R
<1> QED
  BY <1>1, <1>8, <1>9, <1>10 DEF node

-----------------------------------------------------------------------------
(* The invariant of the commands.                                          *)

\* Descriptors that the command has open.
Held == IF cmd.pc \in {"idle", "unlink"} THEN {} ELSE {cmd.in, cmd.out}

FdsHeld == \A f \in Fds : fds[f].used => f \in Held

\* The descriptors a command uses are its own, and two.
Handles ==
  /\ cmd.pc = "dst" => cmd.in \in Fds /\ fds[cmd.in].used /\ cmd.out = NoFd /\ ~cmd.ok
  /\ cmd.pc = "read" => cmd.in \in Fds /\ (cmd.name # "cat" => cmd.out \in Fds)
  /\ cmd.pc = "write" => cmd.out \in Fds /\ (cmd.name # "write" => cmd.in \in Fds)
  /\ cmd.pc \in {"read", "write"} => cmd.in # cmd.out

\* A file that is written is written at its end.
AtEnd ==
  cmd.pc \in {"read", "write"} /\ cmd.out # NoFd =>
    fds[cmd.out].off = Len(files[fds[cmd.out].node])

ShellInv == TypeOK /\ FdsHeld /\ Handles /\ AtEnd

LEMMA ChunksType == ASSUME NEW chunk \in Chunks PROVE chunk \in Seq(Bytes)
<1>1. PICK n \in 0 .. ChunkSize : chunk \in [1 .. n -> Bytes]
  BY DEF Chunks
<1>2. n \in Nat
  BY ShellAssumption
<1> QED
  BY <1>1, <1>2

LEMMA PathTypes ==
  /\ NoPath \in Path /\ Paths \subseteq Path
  /\ cmd \in Command => cmd.src \in Path /\ cmd.dst \in Path
<1>1. NoPath \in Path
  BY EmptySeq DEF NoPath, Path
<1>2. Paths \subseteq Path
  BY ShellAssumption
<1>3. ASSUME cmd \in Command PROVE cmd.src \in Path /\ cmd.dst \in Path
  <2>1. cmd.src \in Paths \union {NoPath} /\ cmd.dst \in Paths \union {NoPath}
    BY <1>3 DEF Command
  <2> QED
    BY <1>1, <1>2, <2>1
<1> QED
  BY <1>1, <1>2, <1>3

LEMMA NoFdFact == NoFd \notin Fds
<1>1. MaxFds \in Nat
  BY VfsAssumption
<1> QED
  BY <1>1 DEF NoFd, Fds

LEMMA NoCmdType ==
  /\ NoCmd \in Command /\ NoCmd.pc = "idle"
  /\ \A c \in Command : [NoCmd EXCEPT !.name = c.name, !.saved = c.saved] \in Command
<1>1. 0 \in Terminals /\ <<>> \in Seq(Bytes) /\ {} \in SUBSET Seq(Bytes)
  BY ShellAssumption, EmptySeq
<1> QED
  BY <1>1 DEF NoCmd, Command

\* A command begun with descriptors that only it has.
LEMMA BegunWith ==
  ASSUME VfsTypeOK', cmd' \in Command,
         \A f \in Fds : fds'[f].used => f \in Held',
         Handles', AtEnd'
  PROVE  ShellInv'
BY DEF ShellInv, TypeOK, FdsHeld

\* No descriptor is in use when the prompt is back.
LEMMA BackAtPrompt ==
  ASSUME VfsTypeOK', cmd' \in Command, cmd'.pc \in {"idle", "unlink", "close"},
         \A f \in Fds : fds'[f].used => f \in Held'
  PROVE  ShellInv'
BY DEF ShellInv, TypeOK, FdsHeld, Handles, AtEnd

LEMMA InitInv == Init => ShellInv
<1> SUFFICES ASSUME Init PROVE ShellInv
  OBVIOUS
<1>1. cmd \in Command /\ cmd.pc = "idle"
  BY NoCmdType DEF Init
<1>2. nodes \in [Ids -> Entry]
  <2>1. NewEntry(Root, "dir", "/") \in Entry
    BY Slots DEF NewEntry, Entry
  <2> QED
    BY <2>1, Slots DEF Init, VfsInit, FormattedTable
<1>3. files \in [Ids -> Seq(Bytes)] /\ cwd \in [Terminals -> Ids]
  BY EmptySeq, Slots DEF Init, VfsInit
<1>4. /\ fds \in [Fds -> [used : BOOLEAN, node : Ids, off : Nat, flags : SUBSET Flags]]
      /\ \A f \in Fds : ~fds[f].used
  <2>1. ClosedFd \in [used : BOOLEAN, node : Ids, off : Nat, flags : SUBSET Flags] /\ ~ClosedFd.used
    BY Slots DEF ClosedFd
  <2> QED
    BY <2>1 DEF Init, VfsInit
<1> QED
  BY <1>1, <1>2, <1>3, <1>4 DEF ShellInv, TypeOK, VfsTypeOK, FdsHeld, Handles, AtEnd

\* Calls that leave the descriptors alone.
LEMMA NodeCallsType ==
  ASSUME VfsTypeOK, NEW t \in Terminals, NEW p \in Path, NEW ok \in BOOLEAN,
         Mkdir(t, p, ok) \/ RemovePath(t, p, ok) \/ Chdir(t, p, ok)
  PROVE  VfsTypeOK' /\ fds' = fds
<1>1. nodes \in [Ids -> Entry] /\ files \in [Ids -> Seq(Bytes)] /\ cwd \in [Terminals -> Ids]
  BY DEF VfsTypeOK
<1>2. CASE Mkdir(t, p, ok)
  <2>1. CreateSlot(nodes, cwd[t], p) # NoNode => Created(t, p, "dir") \in [Ids -> Entry]
    BY CreatedType
  <2> QED
    BY <1>2, <2>1 DEF Mkdir, VfsTypeOK
<1>3. CASE RemovePath(t, p, ok)
  <2> DEFINE id == RemoveSlot(nodes, cwd[t], p)
  <2>1. [nodes EXCEPT ![id] = FreeEntry] \in [Ids -> Entry]
    BY <1>1, Slots
  <2>2. [files EXCEPT ![id] = <<>>] \in [Ids -> Seq(Bytes)]
    BY <1>1, EmptySeq
  <2>3. fds' = fds /\ cwd' = cwd
    BY <1>3 DEF RemovePath
  <2>4. \/ nodes' = nodes /\ files' = files
        \/ nodes' = [nodes EXCEPT ![id] = FreeEntry] /\ files' = [files EXCEPT ![id] = <<>>]
    BY <1>3, Zenon DEF RemovePath
  <2> QED
    BY <1>1, <2>1, <2>2, <2>3, <2>4 DEF VfsTypeOK
<1>4. CASE Chdir(t, p, ok)
  <2>1. Resolve(nodes, cwd[t], p) \in Ids \union {NoNode}
    BY <1>1, ResolveType
  <2> QED
    BY <1>1, <1>4, <2>1 DEF Chdir, VfsTypeOK
<1> QED
  BY <1>2, <1>3, <1>4

LEMMA CallStep ==
  ASSUME ShellInv, NEW t \in Terminals, NEW p \in Paths,
         CmdMkdir(t, p) \/ CmdRm(t, p) \/ CmdCd(t, p)
  PROVE  ShellInv'
<1>1. p \in Path /\ cmd.pc = "idle" /\ cmd' = NoCmd
  BY PathTypes DEF CmdMkdir, CmdRm, CmdCd, Given
<1>2. PICK ok \in BOOLEAN : Mkdir(t, p, ok) \/ RemovePath(t, p, ok) \/ Chdir(t, p, ok)
  BY DEF CmdMkdir, CmdRm, CmdCd
<1>3. VfsTypeOK' /\ fds' = fds
  BY <1>1, <1>2, NodeCallsType DEF ShellInv, TypeOK
<1>4. \A f \in Fds : ~fds[f].used
  BY <1>1 DEF ShellInv, FdsHeld, Held
<1> QED
  BY <1>1, <1>3, <1>4, NoCmdType, BackAtPrompt

\* What every opening command starts from: no descriptor is in use, and then the
\* one that was opened.
LEMMA FirstOpen ==
  ASSUME ShellInv, cmd.pc = "idle", NEW t \in Terminals, NEW p \in Path,
         NEW flags \in SUBSET Flags, NEW fd \in Fds \union {NoFd}, Open(t, p, flags, fd)
  PROVE  /\ VfsTypeOK'
         /\ \A f \in Fds : fds'[f].used => f = fd
         /\ fd # NoFd => /\ fd \in Fds /\ fds'[fd].used
                         /\ \E id \in Ids : Opened(t, p, flags, fd, id)
         /\ fd # NoFd /\ "trunc" \in flags => fds'[fd].off = Len(files'[fds'[fd].node])
<1>1. VfsTypeOK /\ \A f \in Fds : ~fds[f].used
  BY DEF ShellInv, TypeOK, FdsHeld, Held
<1>2. VfsTypeOK'
  BY <1>1, OpenType
<1>3. \/ fd = NoFd /\ fds' = fds
      \/ \E id \in Ids : Opened(t, p, flags, fd, id)
  BY <1>1, OpenFacts
<1>4. CASE fd = NoFd /\ fds' = fds
  BY <1>1, <1>2, <1>4
<1>5. CASE \E id \in Ids : Opened(t, p, flags, fd, id)
  <2>1. PICK id \in Ids : Opened(t, p, flags, fd, id)
    BY <1>5
  <2>2. /\ fd \in Fds /\ fd # NoFd
        /\ fds' = [fds EXCEPT ![fd] = [used |-> TRUE, node |-> id, off |-> 0, flags |-> flags]]
    BY <2>1 DEF Opened
  <2>3. DOMAIN fds = Fds /\ DOMAIN files = Ids
    BY <1>1 DEF VfsTypeOK
  <2>4. fds'[fd] = [used |-> TRUE, node |-> id, off |-> 0, flags |-> flags]
    BY <2>2, <2>3
  <2>5. \A f \in Fds : f # fd => fds'[f] = fds[f]
    BY <2>2, <2>3
  <2>6. "trunc" \in flags => files'[id] = <<>>
    BY <2>1, <2>3 DEF Opened
  <2>7. Len(<<>>) = 0
    BY EmptySeq
  <2> QED
    BY <1>1, <1>2, <2>1, <2>2, <2>4, <2>5, <2>6, <2>7
<1> QED
  BY <1>3, <1>4, <1>5

LEMMA TouchStep ==
  ASSUME ShellInv, NEW t \in Terminals, NEW p \in Paths, CmdTouch(t, p)
  PROVE  ShellInv'
<1>1. p \in Path /\ cmd.pc = "idle" /\ "touch" \in Names
  BY PathTypes DEF CmdTouch, Given
<1>2. PICK fd \in Fds \union {NoFd} :
        /\ Open(t, p, {"write", "create"}, fd)
        /\ cmd' = IF fd = NoFd THEN NoCmd
                  ELSE [NoCmd EXCEPT !.t = t, !.name = "touch", !.in = fd, !.pc = "close"]
  BY DEF CmdTouch
<1>3. VfsTypeOK' /\ \A f \in Fds : fds'[f].used => f = fd
  BY <1>1, <1>2, FirstOpen DEF Flags
<1>4. CASE fd = NoFd
  BY <1>2, <1>3, <1>4, NoFdFact, NoCmdType, BackAtPrompt
<1>5. CASE fd # NoFd
  <2>1. cmd' \in Command /\ cmd'.pc = "close" /\ cmd'.in = fd
    <3>1. cmd' = [NoCmd EXCEPT !.t = t, !.name = "touch", !.in = fd, !.pc = "close"]
      BY <1>2, <1>5
    <3> QED
      BY <1>1, <3>1, NoCmdType DEF Command
  <2>2. \A f \in Fds : fds'[f].used => f \in Held'
    BY <1>3, <2>1 DEF Held
  <2> QED
    BY <1>3, <2>1, <2>2, BackAtPrompt
<1> QED
  BY <1>4, <1>5

LEMMA WriteStep ==
  ASSUME ShellInv, NEW t \in Terminals, NEW p \in Paths, NEW text \in Texts, CmdWrite(t, p, text)
  PROVE  ShellInv'
<1>1. p \in Path /\ cmd.pc = "idle" /\ "write" \in Names /\ text \in Seq(Bytes)
  BY PathTypes, ShellAssumption DEF CmdWrite, Given
<1>2. PICK fd \in Fds \union {NoFd} :
        /\ Open(t, p, {"write", "create", "trunc"}, fd)
        /\ cmd' = IF fd = NoFd THEN NoCmd
                  ELSE [NoCmd EXCEPT !.t = t, !.name = "write", !.out = fd,
                                     !.pc = "write", !.buf = text]
  BY DEF CmdWrite
<1>3. /\ VfsTypeOK' /\ \A f \in Fds : fds'[f].used => f = fd
      /\ fd # NoFd => fd \in Fds /\ fds'[fd].off = Len(files'[fds'[fd].node])
  <2> DEFINE flags == {"write", "create", "trunc"}
  <2>1. flags \in SUBSET Flags /\ "trunc" \in flags /\ Open(t, p, flags, fd)
    BY <1>2 DEF Flags
  <2> HIDE DEF flags
  <2> QED
    BY <1>1, <2>1, FirstOpen
<1>4. CASE fd = NoFd
  BY <1>2, <1>3, <1>4, NoFdFact, NoCmdType, BackAtPrompt
<1>5. CASE fd # NoFd
  <2>1. /\ cmd' \in Command /\ cmd'.pc = "write" /\ cmd'.name = "write"
        /\ cmd'.out = fd /\ cmd'.in = NoFd
    <3>1. cmd' = [NoCmd EXCEPT !.t = t, !.name = "write", !.out = fd, !.pc = "write", !.buf = text]
      BY <1>2, <1>5
    <3> QED
      BY <1>1, <3>1, NoCmdType DEF Command, NoCmd
  <2>2. \A f \in Fds : fds'[f].used => f \in Held'
    BY <1>3, <2>1 DEF Held
  <2>3. Handles' /\ AtEnd'
    BY <1>3, <1>5, <2>1, NoFdFact DEF Handles, AtEnd
  <2> QED
    BY <1>3, <2>1, <2>2, <2>3, BegunWith
<1> QED
  BY <1>4, <1>5

LEMMA CatStep ==
  ASSUME ShellInv, NEW t \in Terminals, NEW p \in Paths, CmdCat(t, p)
  PROVE  ShellInv'
<1>1. p \in Path /\ cmd.pc = "idle" /\ "cat" \in Names
  BY PathTypes DEF CmdCat, Given
<1>2. PICK fd \in Fds \union {NoFd} :
        /\ Open(t, p, {"read"}, fd)
        /\ cmd' = IF fd = NoFd THEN NoCmd
                  ELSE [NoCmd EXCEPT !.t = t, !.name = "cat", !.in = fd, !.pc = "read"]
  BY DEF CmdCat
<1>3. /\ VfsTypeOK' /\ \A f \in Fds : fds'[f].used => f = fd
      /\ fd # NoFd => fd \in Fds
  BY <1>1, <1>2, FirstOpen DEF Flags
<1>4. CASE fd = NoFd
  BY <1>2, <1>3, <1>4, NoFdFact, NoCmdType, BackAtPrompt
<1>5. CASE fd # NoFd
  <2>1. /\ cmd' \in Command /\ cmd'.pc = "read" /\ cmd'.name = "cat"
        /\ cmd'.in = fd /\ cmd'.out = NoFd
    <3>1. cmd' = [NoCmd EXCEPT !.t = t, !.name = "cat", !.in = fd, !.pc = "read"]
      BY <1>2, <1>5
    <3> QED
      BY <1>1, <3>1, NoCmdType DEF Command, NoCmd
  <2>2. \A f \in Fds : fds'[f].used => f \in Held'
    BY <1>3, <2>1 DEF Held
  <2>3. Handles' /\ AtEnd'
    BY <1>3, <1>5, <2>1, NoFdFact DEF Handles, AtEnd
  <2> QED
    BY <1>3, <2>1, <2>2, <2>3, BegunWith
<1> QED
  BY <1>4, <1>5

LEMMA CopyStep ==
  ASSUME ShellInv, NEW t \in Terminals, NEW name \in {"cp", "mv"},
         NEW src \in Paths, NEW dst \in Paths, CmdCopy(t, name, src, dst)
  PROVE  /\ ShellInv'
         /\ \/ cmd' = NoCmd
            \/ /\ cmd'.pc = "dst" /\ cmd'.name = name /\ cmd'.t = t /\ cmd'.dst = dst
               /\ nodes' = nodes /\ files' = files /\ cwd' = cwd
               /\ \A bytes \in cmd'.saved :
                    LET id == fds'[cmd'.in].node
                    IN /\ id \in Ids /\ IsFile(nodes, id) /\ files[id] = bytes
                       /\ id # Resolve(nodes, cwd[t], dst) /\ fds'[cmd'.in].off = 0
<1> DEFINE id == Resolve(nodes, cwd[t], src)
           saved == IF IsFile(nodes, id) /\ id # Resolve(nodes, cwd[t], dst) THEN {files[id]} ELSE {}
<1>1. src \in Path /\ cmd.pc = "idle" /\ name \in Names
  BY PathTypes DEF CmdCopy, Given
<1>2. PICK fd \in Fds \union {NoFd} :
        /\ Open(t, src, {"read"}, fd)
        /\ cmd' = IF fd = NoFd THEN NoCmd
                  ELSE [NoCmd EXCEPT !.t = t, !.name = name, !.src = src, !.dst = dst,
                          !.in = fd, !.pc = "dst", !.saved = saved]
  BY Zenon DEF CmdCopy
<1> HIDE DEF saved
<1> DEFINE flags == {"read"}
<1>3. flags \in SUBSET Flags /\ "create" \notin flags /\ "trunc" \notin flags /\ Open(t, src, flags, fd)
  BY <1>2 DEF Flags
<1> HIDE DEF flags
<1>4. /\ VfsTypeOK' /\ \A f \in Fds : fds'[f].used => f = fd
      /\ fd # NoFd => /\ fd \in Fds /\ fds'[fd].used
                      /\ \E n \in Ids : Opened(t, src, flags, fd, n)
  BY <1>1, <1>3, FirstOpen
<1>5. CASE fd = NoFd
  BY <1>2, <1>4, <1>5, NoFdFact, NoCmdType, BackAtPrompt
<1>6. CASE fd # NoFd
  <2>1. PICK n \in Ids : Opened(t, src, flags, fd, n)
    BY <1>4, <1>6
  <2>2. /\ n = id /\ nodes' = nodes /\ files' = files /\ id \in Ids /\ cwd' = cwd
        /\ fds' = [fds EXCEPT ![fd] = [used |-> TRUE, node |-> id, off |-> 0, flags |-> flags]]
    BY <1>3, <2>1 DEF Opened, Open
  <2>3. fds'[fd].node = id /\ fds'[fd].off = 0
    BY <1>4, <1>6, <2>2 DEF ShellInv, TypeOK, VfsTypeOK
  <2> HIDE DEF id
  <2>4. saved \in SUBSET Seq(Bytes)
    BY <2>2 DEF saved, ShellInv, TypeOK, VfsTypeOK
  <2>5. /\ cmd' \in Command /\ cmd'.pc = "dst" /\ cmd'.name = name /\ cmd'.t = t /\ cmd'.dst = dst
        /\ cmd'.in = fd /\ cmd'.out = NoFd /\ ~cmd'.ok /\ cmd'.saved = saved
    <3>1. cmd' = [NoCmd EXCEPT !.t = t, !.name = name, !.src = src, !.dst = dst,
                    !.in = fd, !.pc = "dst", !.saved = saved]
      BY <1>2, <1>6
    <3>2. cmd' = [t |-> t, name |-> name, pc |-> "dst", src |-> src, dst |-> dst,
                  in |-> fd, out |-> NoFd, buf |-> <<>>, saved |-> saved, ok |-> FALSE]
      BY <3>1 DEF NoCmd
    <3>3. cmd' \in Command
      BY <1>1, <1>4, <1>6, <2>4, <3>2, EmptySeq DEF Command
    <3> QED
      BY <3>2, <3>3
  <2>6. \A f \in Fds : fds'[f].used => f \in Held'
    BY <1>4, <2>5 DEF Held
  <2>7. Handles' /\ AtEnd'
    BY <1>4, <1>6, <2>5, NoFdFact DEF Handles, AtEnd
  <2>8. ShellInv'
    BY <1>4, <2>5, <2>6, <2>7, BegunWith
  <2>9. \A bytes \in saved : /\ IsFile(nodes, id) /\ files[id] = bytes
                             /\ id # Resolve(nodes, cwd[t], dst)
    BY Zenon DEF saved, id
  <2> QED
    BY <2>2, <2>3, <2>5, <2>8, <2>9
<1> QED
  BY <1>5, <1>6

-----------------------------------------------------------------------------
(* What mv has done so far, of the contents it started with.               *)

Source == fds[cmd.in].node
Target == fds[cmd.out].node

\* There is another file, the target of the copy.
HasTarget == cmd.out \in Fds /\ IsFile(nodes, Target) /\ Target # Source

Kept(bytes) ==
  /\ cmd.pc \in {"dst", "read", "write", "close"} =>
       cmd.in \in Fds /\ IsFile(nodes, Source) /\ files[Source] = bytes
  /\ cmd.pc = "dst" => Source # Resolve(nodes, cwd[cmd.t], cmd.dst) /\ fds[cmd.in].off = 0
  /\ cmd.pc = "read" =>
       /\ HasTarget /\ fds[cmd.in].off <= Len(bytes)
       /\ files[Target] = SubSeq(bytes, 1, fds[cmd.in].off)
  /\ cmd.pc = "write" =>
       /\ HasTarget /\ fds[cmd.in].off <= Len(bytes)
       /\ files[Target] \o cmd.buf = SubSeq(bytes, 1, fds[cmd.in].off)
  /\ cmd.pc = "close" /\ cmd.ok => HasTarget /\ files[Target] = bytes
  /\ cmd.pc = "unlink" =>
       \E i, j \in Ids : /\ i # j /\ IsFile(nodes, i) /\ IsFile(nodes, j)
                         /\ files[i] = bytes /\ files[j] = bytes
  /\ cmd.pc = "idle" => \E i \in Ids : IsFile(nodes, i) /\ files[i] = bytes

MoveInv == cmd.name = "mv" => \A bytes \in cmd.saved : Kept(bytes)

LEMMA OpenDstStep ==
  ASSUME ShellInv, OpenDst
  PROVE  ShellInv' /\ (MoveInv => MoveInv')
<1> DEFINE flags == {"write", "create", "trunc"}
           t     == cmd.t
           p     == cmd.dst
<1>1. PICK fd \in Fds \union {NoFd} :
        /\ Open(t, p, flags, fd)
        /\ cmd' = [cmd EXCEPT !.out = fd, !.pc = IF fd = NoFd THEN "close" ELSE "read"]
  BY DEF OpenDst
<1>2. flags \in SUBSET Flags /\ "trunc" \in flags
  BY DEF Flags
<1>3. /\ cmd \in Command /\ VfsTypeOK /\ cmd.pc = "dst"
      /\ cmd.in \in Fds /\ fds[cmd.in].used /\ cmd.out = NoFd /\ ~cmd.ok
      /\ t \in Terminals /\ p \in Path
  BY PathTypes DEF OpenDst, ShellInv, TypeOK, Handles, Command
<1> HIDE DEF flags, t, p
<1>4. VfsTypeOK'
  BY <1>1, <1>2, <1>3, OpenType
<1>5. /\ \A i \in Ids : nodes[i].used => nodes'[i] = nodes[i]
      /\ cwd' = cwd
      /\ \/ fd = NoFd /\ fds' = fds
         \/ \E id \in Ids : Opened(t, p, flags, fd, id)
      /\ \/ files' = files
         \/ \E id \in Ids : files' = [files EXCEPT ![id] = <<>>] /\ Spares(t, p, id)
  BY <1>1, <1>2, <1>3, OpenFacts
<1>6. /\ cmd' \in Command /\ cmd'.in = cmd.in /\ cmd'.out = fd /\ cmd'.name = cmd.name
      /\ cmd'.saved = cmd.saved /\ ~cmd'.ok
      /\ cmd'.pc = IF fd = NoFd THEN "close" ELSE "read"
  BY <1>1, <1>3 DEF Command
<1>7. \A f \in Fds : fds[f].used => f = cmd.in
  BY <1>3, NoFdFact DEF ShellInv, FdsHeld, Held
<1>8. DOMAIN fds = Fds /\ DOMAIN files = Ids /\ Source \in Ids
  BY <1>3 DEF VfsTypeOK, Source
\* The source of mv is spared.
<1>9. ASSUME NEW bytes, IsFile(nodes, Source), files[Source] = bytes, Source # Resolve(nodes, cwd[t], p)
      PROVE  IsFile(nodes', Source) /\ files'[Source] = bytes
  <2>1. IsFile(nodes', Source) /\ nodes[Source].used
    BY <1>5, <1>8, <1>9 DEF IsFile
  <2>2. \A id \in Ids : Spares(t, p, id) => id # Source
    BY <1>8, <1>9, <2>1 DEF Spares
  <2> QED
    BY <1>5, <1>8, <1>9, <2>1, <2>2
<1>10. CASE fd = NoFd
  <2>1. cmd'.pc = "close" /\ fds' = fds /\ cmd'.out = NoFd
    BY <1>5, <1>6, <1>10 DEF Opened
  <2>2. \A f \in Fds : fds'[f].used => f \in Held'
    BY <1>6, <1>7, <2>1 DEF Held
  <2>3. ASSUME MoveInv, cmd'.name = "mv", NEW bytes \in cmd'.saved
        PROVE  Kept(bytes)'
    <3>1. /\ IsFile(nodes, Source) /\ files[Source] = bytes
          /\ Source # Resolve(nodes, cwd[t], p)
      BY <1>3, <1>6, <2>3 DEF MoveInv, Kept, t, p
    <3>2. Source' = Source
      BY <1>6, <2>1 DEF Source
    <3> QED
      BY <1>3, <1>6, <1>9, <2>1, <3>1, <3>2 DEF Kept
  <2> QED
    BY <1>4, <1>6, <2>1, <2>2, <2>3, BackAtPrompt DEF MoveInv
<1>11. CASE fd # NoFd
  <2>1. PICK id \in Ids : Opened(t, p, flags, fd, id)
    BY <1>5, <1>11
  <2>2. /\ fd \in Fds /\ fd # cmd.in
        /\ fds' = [fds EXCEPT ![fd] = [used |-> TRUE, node |-> id, off |-> 0, flags |-> flags]]
        /\ IsFile(nodes', id) /\ files' = [files EXCEPT ![id] = <<>>] /\ Spares(t, p, id)
    BY <1>2, <1>3, <2>1, FreeFdFacts, Zenon DEF Opened
  <2>3. /\ fds'[fd] = [used |-> TRUE, node |-> id, off |-> 0, flags |-> flags]
        /\ \A f \in Fds : f # fd => fds'[f] = fds[f]
    BY <1>8, <2>2
  <2>4. files'[id] = <<>> /\ Len(<<>>) = 0 /\ fds'[fd].off = 0 /\ fds'[fd].node = id
    BY <1>8, <2>2, <2>3
  <2>5. cmd'.pc = "read"
    BY <1>6, <1>11
  <2>6. \A f \in Fds : fds'[f].used => f \in Held'
    BY <1>6, <1>7, <2>3, <2>5 DEF Held
  <2>7. Handles' /\ AtEnd'
    BY <1>3, <1>6, <2>2, <2>4, <2>5 DEF Handles, AtEnd
  <2>8. ASSUME MoveInv, cmd'.name = "mv", NEW bytes \in cmd'.saved
        PROVE  Kept(bytes)'
    <3>1. /\ IsFile(nodes, Source) /\ files[Source] = bytes
          /\ Source # Resolve(nodes, cwd[t], p) /\ fds[cmd.in].off = 0
      BY <1>3, <1>6, <2>8 DEF MoveInv, Kept, t, p
    <3>2. Source' = Source /\ Target' = id /\ fds'[cmd'.in].off = 0
      BY <1>3, <1>6, <2>2, <2>3, <2>4, <3>1 DEF Source, Target
    <3>3. IsFile(nodes', Source) /\ files'[Source] = bytes /\ id # Source
      <4>1. nodes[Source].used
        BY <3>1 DEF IsFile
      <4> QED
        BY <1>8, <1>9, <2>2, <3>1, <4>1 DEF Spares
    <3>4. HasTarget'
      BY <1>6, <2>2, <3>2, <3>3 DEF HasTarget
    <3>5. bytes \in Seq(Bytes) /\ SubSeq(bytes, 1, 0) = <<>> /\ 0 <= Len(bytes)
      <4>1. bytes \in Seq(Bytes)
        BY <1>3, <1>8, <3>1 DEF VfsTypeOK
      <4>2. Len(bytes) \in Nat
        BY <4>1
      <4> QED
        BY <4>1, <4>2, SubSeqEmpty
    <3> QED
      BY <1>3, <1>6, <2>4, <2>5, <3>2, <3>3, <3>4, <3>5 DEF Kept
  <2> QED
    BY <1>4, <1>6, <2>6, <2>7, <2>8, BegunWith DEF MoveInv
<1> QED
  BY <1>10, <1>11

LEMMA ReadChunkStep ==
  ASSUME ShellInv, ReadChunk
  PROVE  ShellInv' /\ (~ReadErrors /\ MoveInv => MoveInv')
<1>1. PICK chunk \in Chunks :
        /\ Read(cmd.in, ChunkSize, chunk)
        /\ cmd' = [cmd EXCEPT
             !.buf = chunk,
             !.ok = chunk = <<>>,
             !.pc = IF chunk = <<>> THEN "close" ELSE IF cmd.name = "cat" THEN "read" ELSE "write"]
  BY DEF ReadChunk
<1>2. /\ cmd \in Command /\ VfsTypeOK /\ cmd.pc = "read"
      /\ cmd.in \in Fds /\ (cmd.name # "cat" => cmd.out \in Fds) /\ cmd.in # cmd.out
      /\ chunk \in Seq(Bytes) /\ Len(chunk) \in Nat
  BY ChunksType DEF ReadChunk, ShellInv, TypeOK, Handles
<1>3. /\ nodes' = nodes /\ files' = files /\ cwd' = cwd /\ VfsTypeOK'
      /\ fds' = [fds EXCEPT ![cmd.in].off = @ + Len(chunk)]
      /\ LET node == fds[cmd.in].node
             off  == fds[cmd.in].off
         IN ~ReadErrors /\ IsFile(nodes, node) /\ off <= Len(files[node]) =>
              /\ off + Len(chunk) <= Len(files[node])
              /\ chunk = SubSeq(files[node], off + 1, off + Len(chunk))
              /\ chunk = <<>> => off = Len(files[node])
  BY <1>1, <1>2, ShellAssumption, ReadFacts
<1>4. DOMAIN fds = Fds /\ Source \in Ids /\ files \in [Ids -> Seq(Bytes)] /\ fds[cmd.in].off \in Nat
  BY <1>2 DEF VfsTypeOK, Source
<1>5. /\ \A f \in Fds : f # cmd.in => fds'[f] = fds[f]
      /\ fds'[cmd.in].used = fds[cmd.in].used /\ fds'[cmd.in].node = fds[cmd.in].node
      /\ fds'[cmd.in].off = fds[cmd.in].off + Len(chunk)
  BY <1>2, <1>3, <1>4 DEF VfsTypeOK
<1>6. /\ cmd' \in Command /\ cmd'.in = cmd.in /\ cmd'.out = cmd.out /\ cmd'.name = cmd.name
      /\ cmd'.saved = cmd.saved /\ cmd'.ok = (chunk = <<>>) /\ cmd'.buf = chunk
      /\ cmd'.pc = IF chunk = <<>> THEN "close" ELSE IF cmd.name = "cat" THEN "read" ELSE "write"
  BY <1>1, <1>2 DEF Command
<1>7. \A f \in Fds : fds'[f].used => f \in Held'
  <2>1. Held' = Held
    BY <1>2, <1>6 DEF Held
  <2> QED
    BY <1>5, <2>1 DEF ShellInv, FdsHeld
<1>8. Handles' /\ AtEnd'
  <2>1. cmd.out # NoFd => cmd.out \in Fds
    BY <1>2 DEF Command
  <2>2. Handles'
    BY <1>2, <1>6 DEF Handles
  <2>3. AtEnd'
    BY <1>2, <1>3, <1>5, <1>6, <2>1 DEF ShellInv, AtEnd
  <2> QED
    BY <2>2, <2>3
<1>9. ASSUME ~ReadErrors, MoveInv, cmd'.name = "mv", NEW bytes \in cmd'.saved
      PROVE  Kept(bytes)'
  <2>1. /\ IsFile(nodes, Source) /\ files[Source] = bytes
        /\ HasTarget /\ fds[cmd.in].off <= Len(bytes)
        /\ files[Target] = SubSeq(bytes, 1, fds[cmd.in].off)
    BY <1>2, <1>6, <1>9 DEF MoveInv, Kept
  <2> DEFINE off == fds[cmd.in].off
  <2>2. /\ off + Len(chunk) <= Len(bytes)
        /\ chunk = SubSeq(bytes, off + 1, off + Len(chunk))
        /\ chunk = <<>> => off = Len(bytes)
    BY <1>3, <1>9, <2>1 DEF Source
  <2>3. off \in Nat /\ bytes \in Seq(Bytes) /\ Len(bytes) \in Nat
    BY <1>4, <2>1
  <2>4. Source' = Source /\ Target' = Target /\ HasTarget' /\ fds'[cmd'.in].off = off + Len(chunk)
    BY <1>2, <1>3, <1>5, <1>6, <2>1 DEF Source, Target, HasTarget
  <2> HIDE DEF off
  <2>5. IsFile(nodes, Source)' /\ (files[Source])' = bytes /\ (files[Target])' = SubSeq(bytes, 1, off)
    BY <1>3, <2>1, <2>4 DEF IsFile, off
  <2>6. CASE chunk = <<>>
    <3>1. (files[Target])' = bytes
      BY <2>2, <2>3, <2>5, <2>6, SubSeqFull
    <3> QED
      BY <1>2, <1>6, <2>4, <2>5, <2>6, <3>1 DEF Kept
  <2>7. CASE chunk # <<>>
    <3>1. cmd'.pc = "write" /\ cmd'.buf = chunk
      BY <1>6, <1>9, <2>7
    <3>2. SubSeq(bytes, 1, off) \o SubSeq(bytes, off + 1, off + Len(chunk))
            = SubSeq(bytes, 1, off + Len(chunk))
      <4>1. /\ 1 \in 1 .. Len(bytes) + 1 /\ off \in 1 - 1 .. Len(bytes)
            /\ off + Len(chunk) \in off .. Len(bytes)
        BY <1>2, <2>1, <2>2, <2>3 DEF off
      <4> QED
        BY <2>3, <4>1, ConcatAdjacentSubSeq
    <3>3. (files[Target])' \o chunk = SubSeq(bytes, 1, off + Len(chunk))
      BY <2>2, <2>5, <3>2
    <3> QED
      BY <1>2, <1>6, <2>2, <2>4, <2>5, <3>1, <3>3 DEF Kept
  <2> QED
    BY <2>6, <2>7
<1> QED
  BY <1>3, <1>6, <1>7, <1>8, <1>9, BegunWith DEF MoveInv

LEMMA WriteChunkStep ==
  ASSUME ShellInv, WriteChunk
  PROVE  ShellInv' /\ (MoveInv => MoveInv')
<1>1. PICK ok \in BOOLEAN :
        /\ Write(cmd.out, cmd.buf, ok)
        /\ cmd' = [cmd EXCEPT !.ok = ok, !.pc = IF ok /\ cmd.name # "write" THEN "read" ELSE "close"]
  BY DEF WriteChunk
<1>2. /\ cmd \in Command /\ VfsTypeOK /\ cmd.pc = "write"
      /\ cmd.out \in Fds /\ (cmd.name # "write" => cmd.in \in Fds) /\ cmd.in # cmd.out
      /\ cmd.out # NoFd /\ cmd.buf \in Seq(Bytes)
      /\ fds[cmd.out].off = Len(files[Target])
  BY NoFdFact DEF WriteChunk, ShellInv, TypeOK, Handles, AtEnd, Command, Target
<1>3. /\ nodes' = nodes /\ cwd' = cwd
      /\ fds' = IF ok THEN [fds EXCEPT ![cmd.out].off = @ + Len(cmd.buf)] ELSE fds
      /\ \E bytes \in Seq(Bytes) : files' = [files EXCEPT ![Target] = bytes]
      /\ ok => files' = [files EXCEPT ![Target] = @ \o cmd.buf]
      /\ VfsTypeOK'
  BY <1>1, <1>2, WriteFacts DEF Target
<1>4. /\ DOMAIN fds = Fds /\ files \in [Ids -> Seq(Bytes)] /\ Target \in Ids
      /\ (cmd.name # "write" => Source \in Ids)
  BY <1>2 DEF VfsTypeOK, Source, Target
<1>5. /\ \A f \in Fds : f # cmd.out => fds'[f] = fds[f]
      /\ fds'[cmd.out].used = fds[cmd.out].used /\ fds'[cmd.out].node = Target
      /\ ok => fds'[cmd.out].off = fds[cmd.out].off + Len(cmd.buf)
  <2>1. fds[cmd.out] \in [used : BOOLEAN, node : Ids, off : Nat, flags : SUBSET Flags]
    BY <1>2 DEF VfsTypeOK
  <2>2. CASE ok
    BY <1>2, <1>3, <1>4, <2>1, <2>2 DEF Target
  <2>3. CASE ~ok
    BY <1>3, <2>3 DEF Target
  <2> QED
    BY <2>2, <2>3
<1>6. /\ \A i \in Ids : i # Target => files'[i] = files[i]
      /\ ok => files'[Target] = files[Target] \o cmd.buf
  BY <1>3, <1>4
<1>7. /\ cmd' \in Command /\ cmd'.in = cmd.in /\ cmd'.out = cmd.out /\ cmd'.name = cmd.name
      /\ cmd'.saved = cmd.saved /\ cmd'.ok = ok
      /\ cmd'.pc = IF ok /\ cmd.name # "write" THEN "read" ELSE "close"
  BY <1>1, <1>2 DEF Command
<1>8. \A f \in Fds : fds'[f].used => f \in Held'
  <2>1. Held' = Held
    BY <1>2, <1>7 DEF Held
  <2>2. \A f \in Fds : fds'[f].used = fds[f].used
    BY <1>5
  <2> QED
    BY <2>1, <2>2 DEF ShellInv, FdsHeld
<1>9. Handles' /\ AtEnd'
  <2>1. Handles'
    BY <1>2, <1>7 DEF Handles
  <2>2. ok => fds'[cmd.out].off = Len(files'[Target])
    <3>1. files[Target] \in Seq(Bytes)
      BY <1>4
    <3>2. Len(files[Target] \o cmd.buf) = Len(files[Target]) + Len(cmd.buf)
      BY <1>2, <3>1, ConcatProperties
    <3> QED
      BY <1>2, <1>5, <1>6, <3>2
  <2>3. AtEnd'
    BY <1>5, <1>7, <2>2 DEF AtEnd
  <2> QED
    BY <2>1, <2>3
<1>10. ASSUME MoveInv, cmd'.name = "mv", NEW bytes \in cmd'.saved
       PROVE  Kept(bytes)'
  <2>1. /\ cmd.in \in Fds /\ IsFile(nodes, Source) /\ files[Source] = bytes
        /\ HasTarget /\ fds[cmd.in].off <= Len(bytes)
        /\ files[Target] \o cmd.buf = SubSeq(bytes, 1, fds[cmd.in].off)
    BY <1>2, <1>7, <1>10 DEF MoveInv, Kept
  <2>2. Source' = Source /\ Target' = Target /\ HasTarget' /\ fds'[cmd'.in].off = fds[cmd.in].off
    BY <1>2, <1>3, <1>5, <1>7, <2>1 DEF Source, Target, HasTarget
  <2>3. (files[Source])' = bytes /\ IsFile(nodes, Source)'
    BY <1>3, <1>4, <1>6, <1>7, <1>10, <2>1, <2>2 DEF HasTarget, IsFile
  <2>4. ok => (files[Target])' = SubSeq(bytes, 1, fds[cmd.in].off)
    BY <1>6, <2>1, <2>2
  <2> QED
    BY <1>7, <1>10, <2>1, <2>2, <2>3, <2>4 DEF Kept
<1> QED
  BY <1>3, <1>7, <1>8, <1>9, <1>10, BegunWith DEF MoveInv

LEMMA CloseAllStep ==
  ASSUME ShellInv, CloseAll
  PROVE  ShellInv' /\ (MoveInv => MoveInv')
<1>1. /\ cmd \in Command /\ VfsTypeOK /\ cmd.pc = "close"
      /\ \A f \in Fds : fds[f].used => f \in {cmd.in, cmd.out}
  BY DEF CloseAll, ShellInv, TypeOK, FdsHeld, Held
<1>2. /\ fds' = [f \in Fds |-> IF f \in {cmd.in, cmd.out} THEN ClosedFd ELSE fds[f]]
      /\ nodes' = nodes /\ files' = files /\ cwd' = cwd
  BY DEF CloseAll, Close
<1>3. ClosedFd \in [used : BOOLEAN, node : Ids, off : Nat, flags : SUBSET Flags] /\ ~ClosedFd.used
  BY Slots DEF ClosedFd
<1>4. VfsTypeOK' /\ \A f \in Fds : ~fds'[f].used
  <2> DEFINE R == [used : BOOLEAN, node : Ids, off : Nat, flags : SUBSET Flags]
  <2>1. fds \in [Fds -> R]
    BY <1>1 DEF VfsTypeOK
  <2>2. ClosedFd \in R
    BY <1>3
  <2> HIDE DEF R
  <2>3. fds' \in [Fds -> R]
    BY <1>2, <2>1, <2>2
  <2> QED
    BY <1>1, <1>2, <1>3, <2>3 DEF VfsTypeOK, R
<1>5. CASE cmd.name = "mv" /\ cmd.ok
  <2>1. /\ cmd' \in Command /\ cmd'.pc = "unlink" /\ cmd'.name = "mv" /\ cmd'.saved = cmd.saved
    BY <1>1, <1>5 DEF CloseAll, Goto, Command
  <2>2. ASSUME MoveInv, NEW bytes \in cmd'.saved
        PROVE  Kept(bytes)'
    <3>1. /\ cmd.in \in Fds /\ IsFile(nodes, Source) /\ files[Source] = bytes
          /\ HasTarget /\ files[Target] = bytes
      BY <1>1, <1>5, <2>1, <2>2 DEF MoveInv, Kept
    <3>2. Source \in Ids /\ Target \in Ids
      BY <1>1, <3>1 DEF VfsTypeOK, Source, Target, HasTarget
    <3> QED
      BY <1>2, <2>1, <3>1, <3>2 DEF Kept, HasTarget, IsFile
  <2> QED
    BY <1>4, <2>1, <2>2, BackAtPrompt DEF MoveInv
<1>6. CASE ~(cmd.name = "mv" /\ cmd.ok)
  <2>1. cmd' = IF cmd.name = "mv" THEN [NoCmd EXCEPT !.name = "mv", !.saved = cmd.saved] ELSE NoCmd
    BY <1>6 DEF CloseAll, End
  <2>2. /\ cmd' \in Command /\ cmd'.pc = "idle"
        /\ cmd'.name = "mv" => cmd.name = "mv" /\ cmd'.saved = cmd.saved
    BY <1>1, <2>1, NoCmdType DEF NoCmd
  <2>3. ASSUME MoveInv, cmd'.name = "mv", NEW bytes \in cmd'.saved
        PROVE  Kept(bytes)'
    <3>1. cmd.in \in Fds /\ IsFile(nodes, Source) /\ files[Source] = bytes
      BY <1>1, <2>2, <2>3 DEF MoveInv, Kept
    <3>2. Source \in Ids
      BY <1>1, <3>1 DEF VfsTypeOK, Source
    <3> QED
      BY <1>2, <2>2, <3>1, <3>2 DEF Kept, IsFile
  <2> QED
    BY <1>4, <2>2, <2>3, BackAtPrompt DEF MoveInv
<1> QED
  BY <1>5, <1>6

LEMMA UnlinkStep ==
  ASSUME ShellInv, Unlink
  PROVE  ShellInv' /\ (MoveInv => MoveInv')
<1>1. /\ cmd \in Command /\ VfsTypeOK /\ cmd.pc = "unlink" /\ \A f \in Fds : ~fds[f].used
      /\ cmd.t \in Terminals /\ cmd.src \in Path
  BY PathTypes DEF Unlink, ShellInv, TypeOK, FdsHeld, Held, Command
<1>2. PICK ok \in BOOLEAN : RemovePath(cmd.t, cmd.src, ok)
  BY DEF Unlink
<1>3. VfsTypeOK' /\ fds' = fds
  BY <1>1, <1>2, NodeCallsType
<1>4. cmd' = IF cmd.name = "mv" THEN [NoCmd EXCEPT !.name = "mv", !.saved = cmd.saved] ELSE NoCmd
  BY DEF Unlink, End
<1>5. /\ cmd' \in Command /\ cmd'.pc = "idle"
      /\ cmd'.name = "mv" => cmd.name = "mv" /\ cmd'.saved = cmd.saved
  BY <1>1, <1>4, NoCmdType DEF NoCmd
<1>6. \E id : \A i \in Ids : i # id => nodes'[i] = nodes[i] /\ files'[i] = files[i]
  <2> DEFINE id == RemoveSlot(nodes, cwd[cmd.t], cmd.src)
  <2>1. \/ nodes' = nodes /\ files' = files
        \/ nodes' = [nodes EXCEPT ![id] = FreeEntry] /\ files' = [files EXCEPT ![id] = <<>>]
    BY <1>2, Zenon DEF RemovePath
  <2>2. DOMAIN nodes = Ids /\ DOMAIN files = Ids
    BY <1>1 DEF VfsTypeOK
  <2> HIDE DEF id
  <2>3. \A i \in Ids : i # id => nodes'[i] = nodes[i] /\ files'[i] = files[i]
    BY <2>1, <2>2
  <2> QED
    BY <2>3
\* Of the two files with the contents the call removes one at most.
<1>7. ASSUME MoveInv, cmd'.name = "mv", NEW bytes \in cmd'.saved
      PROVE  Kept(bytes)'
  <2>1. PICK i \in Ids, j \in Ids : /\ i # j /\ IsFile(nodes, i) /\ IsFile(nodes, j)
                                    /\ files[i] = bytes /\ files[j] = bytes
    BY <1>1, <1>5, <1>7 DEF MoveInv, Kept
  <2>2. \E k \in Ids : IsFile(nodes', k) /\ files'[k] = bytes
    BY <1>6, <2>1 DEF IsFile
  <2> QED
    BY <1>5, <2>2 DEF Kept
<1> QED
  BY <1>1, <1>3, <1>5, <1>7, BackAtPrompt DEF MoveInv

-----------------------------------------------------------------------------
(* The theorems.                                                           *)

LEMMA CmdKeeps ==
  ASSUME ShellInv, NEW t \in Terminals, NEW p \in Paths,
         \/ CmdMkdir(t, p) \/ CmdRm(t, p) \/ CmdCd(t, p) \/ CmdTouch(t, p) \/ CmdCat(t, p)
         \/ \E text \in Texts : CmdWrite(t, p, text)
         \/ \E name \in {"cp", "mv"}, dst \in Paths : CmdCopy(t, name, p, dst)
  PROVE  ShellInv' /\ (MoveInv => MoveInv')
<1>1. CASE CmdMkdir(t, p) \/ CmdRm(t, p) \/ CmdCd(t, p)
  <2>1. cmd' = NoCmd
    BY <1>1 DEF CmdMkdir, CmdRm, CmdCd
  <2> QED
    BY <1>1, <2>1, CallStep DEF MoveInv, NoCmd
<1>2. CASE CmdTouch(t, p)
  <2>0. PICK fd \in Fds \union {NoFd} :
          cmd' = IF fd = NoFd THEN NoCmd
                 ELSE [NoCmd EXCEPT !.t = t, !.name = "touch", !.in = fd, !.pc = "close"]
    BY <1>2, Zenon DEF CmdTouch
  <2>1. cmd'.name \in {"none", "touch"}
    BY <2>0 DEF NoCmd
  <2> QED
    BY <1>2, <2>1, TouchStep DEF MoveInv
<1>3. CASE CmdCat(t, p)
  <2>0. PICK fd \in Fds \union {NoFd} :
          cmd' = IF fd = NoFd THEN NoCmd
                 ELSE [NoCmd EXCEPT !.t = t, !.name = "cat", !.in = fd, !.pc = "read"]
    BY <1>3, Zenon DEF CmdCat
  <2>1. cmd'.name \in {"none", "cat"}
    BY <2>0 DEF NoCmd
  <2> QED
    BY <1>3, <2>1, CatStep DEF MoveInv
<1>4. ASSUME NEW text \in Texts, CmdWrite(t, p, text)
      PROVE  ShellInv' /\ (MoveInv => MoveInv')
  <2>0. PICK fd \in Fds \union {NoFd} :
          cmd' = IF fd = NoFd THEN NoCmd
                 ELSE [NoCmd EXCEPT !.t = t, !.name = "write", !.out = fd,
                                            !.pc = "write", !.buf = text]
    BY <1>4, Zenon DEF CmdWrite
  <2>1. cmd'.name \in {"none", "write"}
    BY <2>0 DEF NoCmd
  <2> QED
    BY <1>4, <2>1, WriteStep DEF MoveInv
<1>5. ASSUME NEW name \in {"cp", "mv"}, NEW dst \in Paths, CmdCopy(t, name, p, dst)
      PROVE  ShellInv' /\ (MoveInv => MoveInv')
  <2>1. /\ ShellInv'
        /\ \/ cmd' = NoCmd
           \/ /\ cmd'.pc = "dst" /\ cmd'.name = name /\ cmd'.t = t /\ cmd'.dst = dst
              /\ nodes' = nodes /\ files' = files /\ cwd' = cwd
              /\ \A bytes \in cmd'.saved :
                   LET id == fds'[cmd'.in].node
                   IN /\ id \in Ids /\ IsFile(nodes, id) /\ files[id] = bytes
                      /\ id # Resolve(nodes, cwd[t], dst) /\ fds'[cmd'.in].off = 0
    BY <1>5, CopyStep
  <2>2. CASE cmd' = NoCmd
    BY <2>1, <2>2 DEF MoveInv, NoCmd
  <2>3. CASE cmd'.pc = "dst"
    <3>1. cmd'.in \in Fds /\ cmd' # NoCmd
      BY <2>1, <2>3, NoCmdType DEF ShellInv, Handles
    <3>2. ASSUME NEW bytes \in cmd'.saved PROVE Kept(bytes)'
      BY <2>1, <2>3, <3>1 DEF Kept, Source, IsFile
    <3> QED
      BY <2>1, <3>2 DEF MoveInv
  <2> QED
    BY <2>1, <2>2, <2>3
<1> QED
  BY <1>1, <1>2, <1>3, <1>4, <1>5

\* Every step keeps the invariant, and what mv has done.
LEMMA StepKeeps ==
  ASSUME ShellInv, [Next]_vars
  PROVE  ShellInv' /\ (~ReadErrors /\ MoveInv => MoveInv')
<1>1. ASSUME NEW t \in Terminals, NEW p \in Paths,
             \/ CmdMkdir(t, p) \/ CmdRm(t, p) \/ CmdCd(t, p) \/ CmdTouch(t, p) \/ CmdCat(t, p)
             \/ \E text \in Texts : CmdWrite(t, p, text)
             \/ \E name \in {"cp", "mv"}, dst \in Paths : CmdCopy(t, name, p, dst)
      PROVE  ShellInv' /\ (~ReadErrors /\ MoveInv => MoveInv')
  BY <1>1, CmdKeeps
<1>2. CASE OpenDst
  BY <1>2, OpenDstStep
<1>3. CASE ReadChunk
  BY <1>3, ReadChunkStep
<1>4. CASE WriteChunk
  BY <1>4, WriteChunkStep
<1>5. CASE CloseAll
  BY <1>5, CloseAllStep
<1>6. CASE Unlink
  BY <1>6, UnlinkStep
<1>7. CASE UNCHANGED vars
  <2>1. /\ nodes' = nodes /\ files' = files /\ fds' = fds /\ cwd' = cwd /\ cmd' = cmd
    BY <1>7 DEF vars, vfsVars
  <2>2. ShellInv'
    BY <2>1 DEF ShellInv, TypeOK, VfsTypeOK, FdsHeld, Held, Handles, AtEnd, IsFile
  <2>3. /\ Source' = Source /\ Target' = Target /\ HasTarget' = HasTarget
    BY <2>1 DEF Source, Target, HasTarget
  <2>4. ASSUME NEW bytes PROVE Kept(bytes)' = Kept(bytes)
    BY <2>1, <2>3 DEF Kept, IsFile
  <2>5. MoveInv => MoveInv'
    BY <2>1, <2>4 DEF MoveInv
  <2> QED
    BY <2>2, <2>5
<1> QED
  BY <1>1, <1>2, <1>3, <1>4, <1>5, <1>6, <1>7 DEF Next

THEOREM Invariance == Spec => []ShellInv
<1>1. ShellInv /\ [Next]_vars => ShellInv'
  BY StepKeeps
<1> QED
  BY <1>1, InitInv, PTL DEF Spec

\* NoFdLeak: whatever call fails, a command has closed its descriptors when the
\* prompt is back.
THEOREM NoFdLeakCorrect == Spec => []NoFdLeak
<1>1. ShellInv => NoFdLeak
  BY DEF ShellInv, FdsHeld, Held, NoFdLeak
<1> QED
  BY <1>1, Invariance, PTL

\* MoveKeepsContents: whatever write fails, a file that mv moves to another place
\* is whole at one of the two at every moment, as long as reads do not fail.
THEOREM MoveKeepsContentsCorrect ==
  ASSUME ~ReadErrors
  PROVE  Spec => []MoveKeepsContents
<1>1. Init => ShellInv /\ MoveInv
  BY InitInv DEF Init, MoveInv, NoCmd
<1>2. ShellInv /\ MoveInv /\ [Next]_vars => ShellInv' /\ MoveInv'
  BY StepKeeps
<1>3. ShellInv /\ MoveInv => MoveKeepsContents
  <2> SUFFICES ASSUME ShellInv, MoveInv, cmd.name = "mv", NEW bytes \in cmd.saved
               PROVE  \E i \in Ids : IsFile(nodes, i) /\ files[i] = bytes
    BY DEF MoveKeepsContents
  <2>1. Kept(bytes) /\ cmd \in Command /\ VfsTypeOK
    BY DEF MoveInv, ShellInv, TypeOK
  <2>2. CASE cmd.pc \in {"idle", "unlink"}
    BY <2>1, <2>2 DEF Kept
  <2>3. CASE cmd.pc \in {"dst", "read", "write", "close"}
    <3>1. cmd.in \in Fds /\ IsFile(nodes, Source) /\ files[Source] = bytes
      BY <2>1, <2>3 DEF Kept
    <3>2. Source \in Ids
      BY <2>1, <3>1 DEF VfsTypeOK, Source
    <3> QED
      BY <3>1, <3>2
  <2> QED
    BY <2>1, <2>2, <2>3 DEF Command
<1> QED
  BY <1>1, <1>2, <1>3, PTL DEF Spec

\* A call of a terminal whose directory is live keeps the tree.
LEMMA NodesStep ==
  ASSUME ShellInv, [Next]_vars, TreeOK(nodes), CwdsLive
  PROVE  TreeOK(nodes')
<1>1. nodes \in [Ids -> Entry] /\ cwd \in [Terminals -> Ids] /\ VfsTypeOK /\ cmd \in Command
  BY DEF ShellInv, TypeOK, VfsTypeOK
<1>2. ASSUME NEW t \in Terminals, NEW p \in Path, NEW type,
             CreateSlot(nodes, cwd[t], p) # NoNode, nodes' = Created(t, p, type)
      PROVE  TreeOK(nodes')
  <2> DEFINE slot   == CreateSlot(nodes, cwd[t], p)
             target == CreateTarget(nodes, cwd[t], p)
  <2>1. /\ p.comps # <<>> /\ slot \in Ids /\ ~nodes[slot].used /\ target.dir \in Ids
        /\ \A i \in Ids : nodes[i].used /\ nodes[i].parent = target.dir
                            => nodes[i].name # target.name
    BY <1>1, <1>2, CreateFacts
  <2>2. nodes[target.dir].used /\ nodes[target.dir].type = "dir"
    <3>1. cwd[t] \in Ids /\ nodes[cwd[t]].used /\ nodes[cwd[t]].type = "dir"
      BY <1>1 DEF CwdsLive
    <3>2. target.dir # NoNode
      BY <2>1, Slots
    <3> QED
      BY <1>1, <2>1, <3>1, <3>2, TargetLive
  <2>3. nodes' = [nodes EXCEPT ![slot] = NewEntry(target.dir, type, target.name)]
    BY <1>2 DEF Created
  <2> HIDE DEF slot, target
  <2> QED
    BY <1>1, <2>1, <2>2, <2>3, CreateKeepsTree
<1>3. ASSUME NEW t \in Terminals, NEW p \in Path, NEW ok \in BOOLEAN, RemovePath(t, p, ok)
      PROVE  TreeOK(nodes')
  <2>1. CASE RemoveSlot(nodes, cwd[t], p) = NoNode
    BY <1>3, <2>1 DEF RemovePath
  <2>2. CASE RemoveSlot(nodes, cwd[t], p) # NoNode
    <3>1. nodes' = [nodes EXCEPT ![RemoveSlot(nodes, cwd[t], p)] = FreeEntry]
      BY <1>3, <2>2 DEF RemovePath
    <3> QED
      BY <1>1, <2>2, <3>1, RemoveKeepsTree
  <2> QED
    BY <2>1, <2>2
<1>4. ASSUME NEW t \in Terminals, NEW p \in Path, NEW flags \in SUBSET Flags, NEW fd,
             Open(t, p, flags, fd)
      PROVE  TreeOK(nodes')
  <2>1. \/ nodes' = nodes
        \/ CreateSlot(nodes, cwd[t], p) # NoNode /\ nodes' = Created(t, p, "file")
    BY <1>1, <1>4, OpenFacts
  <2> QED
    BY <1>2, <2>1
<1>5. ASSUME NEW t \in Terminals, NEW p \in Paths,
             \/ CmdMkdir(t, p) \/ CmdRm(t, p) \/ CmdCd(t, p) \/ CmdTouch(t, p) \/ CmdCat(t, p)
             \/ \E text \in Texts : CmdWrite(t, p, text)
             \/ \E name \in {"cp", "mv"}, dst \in Paths : CmdCopy(t, name, p, dst)
      PROVE  TreeOK(nodes')
  <2>1. p \in Path
    BY PathTypes
  <2>2. CASE CmdMkdir(t, p)
    <3>1. \/ nodes' = nodes
          \/ CreateSlot(nodes, cwd[t], p) # NoNode /\ nodes' = Created(t, p, "dir")
      BY <2>2 DEF CmdMkdir, Mkdir
    <3> QED
      BY <1>2, <2>1, <3>1
  <2>3. CASE CmdRm(t, p)
    BY <1>3, <2>1, <2>3 DEF CmdRm
  <2>4. CASE CmdCd(t, p)
    BY <2>4 DEF CmdCd, Chdir
  <2>5. CASE CmdTouch(t, p)
    BY <1>4, <2>1, <2>5 DEF CmdTouch, Flags
  <2>6. CASE CmdCat(t, p)
    BY <1>4, <2>1, <2>6 DEF CmdCat, Flags
  <2>7. CASE \E text \in Texts : CmdWrite(t, p, text)
    BY <1>4, <2>1, <2>7 DEF CmdWrite, Flags
  <2>8. CASE \E name \in {"cp", "mv"}, dst \in Paths : CmdCopy(t, name, p, dst)
    BY <1>4, <2>1, <2>8 DEF CmdCopy, Flags
  <2> QED
    BY <1>5, <2>2, <2>3, <2>4, <2>5, <2>6, <2>7, <2>8
<1>6. cmd.src \in Path /\ cmd.dst \in Path /\ cmd.t \in Terminals
  BY <1>1, PathTypes DEF Command
<1>7. CASE OpenDst
  BY <1>4, <1>6, <1>7 DEF OpenDst, Flags
<1>8. CASE ReadChunk \/ WriteChunk \/ CloseAll
  BY <1>8 DEF ReadChunk, WriteChunk, CloseAll, Read, Write, Close
<1>9. CASE Unlink
  BY <1>3, <1>6, <1>9 DEF Unlink
<1>10. CASE UNCHANGED vars
  BY <1>10 DEF vars, vfsVars
<1> QED
  BY <1>5, <1>7, <1>8, <1>9, <1>10 DEF Next

\* TreeKeptWhileCwdsLive: while every terminal is in a live directory, no call
\* breaks the tree, for paths of any length with dots and slashes anywhere.
THEOREM TreeKeptCorrect == Spec => TreeKeptWhileCwdsLive
<1>1. ShellInv /\ [Next]_vars => [CwdsLive /\ TreeOK(nodes) => TreeOK(nodes')]_vars
  BY NodesStep
<1> QED
  BY <1>1, Invariance, PTL DEF Spec, TreeKeptWhileCwdsLive

=============================================================================
