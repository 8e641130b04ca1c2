------------------------------- MODULE SfsNames -------------------------------
(***************************************************************************)
(* The node table of src/fs/simplefs.c and the walks over it: finding a    *)
(* free slot or a child, resolving a path, locating where a new node goes. *)
(* State-free; SimpleFS and VFS use it on their tables.                    *)
(***************************************************************************)
EXTENDS Integers, Sequences, SequencesExt

CONSTANTS
  MaxEntries,    \* SFS_MAX_ENTRIES, slots of the node table
  Comps          \* path components that are ordinary names

ASSUME TableAssumption ==
  /\ MaxEntries \in Nat \ {0}
  /\ Comps \intersect {".", "..", "/", ""} = {}

Ids     == 0 .. MaxEntries - 1
NoNode  == -1
Root    == 0
AnyName == Comps \union {".", ".."}

Path == [abs : BOOLEAN, comps : Seq(AnyName), slash : BOOLEAN]

(* The node table.                                                         *)

\* A slot after mem_zero; the bits of perm are left out: every node is created
\* readable and writable by vfs.c and no operation changes them.
FreeEntry ==
  [used |-> FALSE, type |-> "none", parent |-> 0, start |-> 0, size |-> 0,
   cap |-> 0, name |-> ""]

Entry ==
  [used : BOOLEAN, type : {"none", "file", "dir"}, parent : Ids, start : Nat,
   size : Nat, cap : Nat, name : AnyName \union {"", "/"}]

NewEntry(dir, type, name) ==
  [used |-> TRUE, type |-> type, parent |-> dir, start |-> 0, size |-> 0,
   cap |-> 0, name |-> name]

\* The table sfs_init formats: the root is slot 0 and its own parent.
FormattedTable ==
  [i \in Ids |-> IF i = Root THEN NewEntry(Root, "dir", "/") ELSE FreeEntry]

\* The lowest of a set of slots: both searches scan upwards and stop at the
\* first hit, or return -1.
Lowest(S) == IF S = {} THEN NoNode ELSE Min(S)

FindFreeEntry(es) == Lowest({i \in Ids : ~es[i].used})

FindChild(es, dir, name) ==
  Lowest({i \in Ids : es[i].used /\ es[i].parent = dir /\ es[i].name = name})

IsFile(es, i) == es[i].used /\ es[i].type = "file"

(* Paths.  path_next yields the components; "/" runs are skipped, and       *)
(* slash tells whether the path ends in one.                               *)

StartOf(p, cwd) == IF p.abs THEN Root ELSE cwd

\* One turn of sfs_resolve's loop.
ResolveStep(es, cur, c) ==
  IF cur = NoNode \/ c = "." THEN cur
  ELSE IF c = ".." THEN es[cur].parent
  ELSE FindChild(es, cur, c)

Resolve(es, cwd, p) ==
  LET cur[n \in 0 .. Len(p.comps)] ==
        IF n = 0 THEN StartOf(p, cwd) ELSE ResolveStep(es, cur[n - 1], p.comps[n])
  IN cur[Len(p.comps)]

\* One turn of sfs_create's loop for a component that is not the last.
DescendStep(es, cur, c) ==
  LET child == ResolveStep(es, cur, c)
  IN IF child # NoNode /\ c \in Comps /\ es[child].type # "dir"
     THEN NoNode ELSE child

\* The directory sfs_create puts the node in and the name it gives it.  The
\* last component is walked too when "/" follows it, or when it is a dot.
CreateTarget(es, cwd, p) ==
  LET walked == Len(p.comps) - IF ~p.slash /\ Last(p.comps) \in Comps THEN 1 ELSE 0
      cur[n \in 0 .. walked] ==
        IF n = 0 THEN StartOf(p, cwd) ELSE DescendStep(es, cur[n - 1], p.comps[n])
  IN [dir |-> cur[walked], name |-> Last(p.comps)]

\* The slot sfs_create takes, NoNode when it refuses: an empty path, a missing
\* directory, a taken name or a full table.
CreateSlot(es, cwd, p) ==
  LET target == CreateTarget(es, cwd, p)
  IN IF p.comps = <<>> \/ target.dir = NoNode
     THEN NoNode
     ELSE IF FindChild(es, target.dir, target.name) # NoNode
     THEN NoNode
     ELSE FindFreeEntry(es)

\* Mutant: the children of a directory are not looked for.
RemoveSlotUnchecked(es, cwd, p) ==
  LET id == Resolve(es, cwd, p) IN IF id = Root THEN NoNode ELSE id

\* The slot sfs_remove clears, NoNode when it refuses: a path that leads nowhere,
\* the root, or a directory that still has entries.
RemoveSlot(es, cwd, p) ==
  LET id == Resolve(es, cwd, p)
  IN IF id \in {NoNode, Root}
     THEN NoNode
     ELSE IF es[id].type = "dir" /\ \E i \in Ids : es[i].used /\ es[i].parent = id
     THEN NoNode
     ELSE id

\* A directory tree: the root is there, every node lies in a directory, no two
\* nodes of a directory have the same name.
TreeOK(es) ==
  /\ es[Root].used /\ es[Root].type = "dir"
  /\ \A i \in Ids : es[i].used =>
       es[es[i].parent].used /\ es[es[i].parent].type = "dir"
  /\ \A i, j \in Ids \ {Root} :
       es[i].used /\ es[j].used /\ i # j /\ es[i].parent = es[j].parent
       => es[i].name # es[j].name

=============================================================================
