--------------------------------- MODULE Heap ---------------------------------
(***************************************************************************)
(* The kernel heap of src/mem/heap.c: a first-fit allocator whose blocks,  *)
(* each behind its header, form a linked list through the arena.  The      *)
(* walks of kmalloc and kfree are modelled one block at a time.  Addresses *)
(* and sizes are u32; 0 is the null pointer.                               *)
(***************************************************************************)
EXTENDS Integers, FiniteSetsExt

CONSTANTS
  HeapStart,    \* address of the arena
  HeapSize,     \* bytes of the arena, whole pages
  HeaderSize,   \* sizeof(block_header)
  HeapAlign,    \* HEAP_ALIGN
  WordSize,     \* 2^32, the number of values of a u32
  Requests      \* sizes callers ask for

ASSUME HeapAssumption ==
  /\ HeapStart \in Nat \ {0}
  /\ HeaderSize \in Nat \ {0}
  /\ HeapAlign \in Nat \ {0}
  /\ HeapSize \in Nat /\ HeapSize > HeaderSize
  /\ WordSize \in Nat /\ HeapStart + HeapSize < WordSize
  /\ Requests \subseteq 0 .. WordSize - 1

Null    == 0
HeapEnd == HeapStart + HeapSize
Addrs   == HeapStart .. HeapEnd - 1

Header   == [size : Nat, free : BOOLEAN, next : Nat]
NoHeader == [size |-> 0, free |-> FALSE, next |-> Null]

VARIABLES
  mem,      \* the header at each address, NoHeader where none is on the list
  blocks,   \* history: addresses of the headers that are on the list
  held,     \* history: what callers hold, the size they asked for at each pointer
  pc,       \* where the current call is
  cur,      \* current, in both walks
  want,     \* size, the argument of kmalloc
  asked     \* history: that argument before it was rounded

vars == <<mem, blocks, held, pc, cur, want, asked>>

TypeOK ==
  /\ mem \in [Addrs -> Header]
  /\ blocks \subseteq Addrs
  /\ held \in [Addrs -> Nat]
  /\ pc \in {"idle", "find", "merge"}
  /\ cur \in Addrs \union {Null}
  /\ want \in 0 .. WordSize - 1
  /\ asked \in 0 .. WordSize - 1

\* align_up; HeapAlign is a power of two, and the sum wraps around.
AlignUp(value) == LET v == (value + HeapAlign - 1) % WordSize IN v - (v % HeapAlign)

\* heap_init
Init ==
  /\ mem = [a \in Addrs |->
       IF a = HeapStart
       THEN [size |-> HeapSize - HeaderSize, free |-> TRUE, next |-> Null]
       ELSE NoHeader]
  /\ blocks = {HeapStart}
  /\ held = [a \in Addrs |-> 0]
  /\ pc = "idle"
  /\ cur = Null
  /\ want = 0
  /\ asked = 0

Return == pc' = "idle" /\ cur' = Null /\ want' = 0 /\ asked' = 0

\* kmalloc up to its walk; size 0 is refused at once.
Kmalloc(size) ==
  /\ pc = "idle"
  /\ size # 0
  /\ pc' = "find"
  /\ cur' = HeapStart
  /\ want' = AlignUp(size)
  /\ asked' = size
  /\ UNCHANGED <<mem, blocks, held>>

Fits(b) == b.free /\ b.size >= want

\* The walk goes on, or finds nothing.
Skip ==
  /\ pc = "find"
  /\ ~Fits(mem[cur])
  /\ IF mem[cur].next = Null
     THEN Return
     ELSE cur' = mem[cur].next /\ UNCHANGED <<pc, want, asked>>
  /\ UNCHANGED <<mem, blocks, held>>

\* Mutant: a block that is not split stays marked free.
TakeStaysFree ==
  LET rest == cur + HeaderSize + want
  IN /\ pc = "find"
     /\ Fits(mem[cur])
     /\ IF mem[cur].size - want > HeaderSize + HeapAlign
        THEN /\ mem' = [mem EXCEPT
                   ![rest] = [size |-> mem[cur].size - want - HeaderSize, free |-> TRUE,
                              next |-> mem[cur].next],
                   ![cur]  = [size |-> want, free |-> FALSE, next |-> rest]]
             /\ blocks' = blocks \union {rest}
        ELSE UNCHANGED <<mem, blocks>>
     /\ held' = [held EXCEPT ![cur] = asked]
     /\ Return

\* The walk found a block: what is left of it becomes a block of its own if it
\* has room for a header and more than the alignment.
Take ==
  LET b         == mem[cur]
      remaining == b.size - want
      rest      == cur + HeaderSize + want
      split     == remaining > HeaderSize + HeapAlign
  IN /\ pc = "find"
     /\ Fits(b)
     /\ mem' = IF split
               THEN [mem EXCEPT
                       ![rest] = [size |-> remaining - HeaderSize, free |-> TRUE,
                                  next |-> b.next],
                       ![cur]  = [size |-> want, free |-> FALSE, next |-> rest]]
               ELSE [mem EXCEPT ![cur].free = FALSE]
     /\ blocks' = IF split THEN blocks \union {rest} ELSE blocks
     /\ held' = [held EXCEPT ![cur] = asked]
     /\ Return

\* kfree of a pointer a caller holds.
Kfree(b) ==
  /\ pc = "idle"
  /\ held[b] # 0
  /\ mem' = [mem EXCEPT ![b].free = TRUE]
  /\ held' = [held EXCEPT ![b] = 0]
  /\ pc' = "merge"
  /\ cur' = HeapStart
  /\ UNCHANGED <<blocks, want, asked>>

\* Mutants: the swallowed header is not counted; the walk moves on after a merge
\* instead of looking at the same block again.
MergeAs(header, again) ==
  LET b    == mem[cur]
      next == b.next
  IN /\ pc = "merge"
     /\ IF next = Null
        THEN Return /\ UNCHANGED <<mem, blocks>>
        ELSE IF b.free /\ mem[next].free
        THEN /\ mem' = [mem EXCEPT
                  ![cur] = [size |-> b.size + header + mem[next].size, free |-> b.free,
                            next |-> mem[next].next],
                  ![next] = NoHeader]
             /\ blocks' = blocks \ {next}
             /\ IF again \/ mem[next].next = Null
                THEN UNCHANGED <<pc, cur, want, asked>>
                ELSE cur' = mem[next].next /\ UNCHANGED <<pc, want, asked>>
        ELSE /\ cur' = next
             /\ UNCHANGED <<mem, blocks, pc, want, asked>>
     /\ UNCHANGED held

MergeNoHeader == MergeAs(0, TRUE)

MergeMovesOn == MergeAs(HeaderSize, FALSE)

\* One turn of kfree's walk: a free block swallows the free one after it.  The
\* swallowed header stays in memory; off the list it is never read again, so
\* the model forgets it.
Merge ==
  LET b    == mem[cur]
      next == b.next
  IN /\ pc = "merge"
     /\ IF next = Null
        THEN Return /\ UNCHANGED <<mem, blocks>>
        ELSE IF b.free /\ mem[next].free
        THEN /\ mem' = [mem EXCEPT
                  ![cur] = [size |-> b.size + HeaderSize + mem[next].size, free |-> b.free,
                            next |-> mem[next].next],
                  ![next] = NoHeader]
             /\ blocks' = blocks \ {next}
             /\ UNCHANGED <<pc, cur, want, asked>>
        ELSE /\ cur' = next
             /\ UNCHANGED <<mem, blocks, pc, want, asked>>
     /\ UNCHANGED held

Next ==
  \/ \E size \in Requests : Kmalloc(size)
  \/ \E b \in Addrs : Kfree(b)
  \/ Skip \/ Take \/ Merge

Spec == Init /\ [][Next]_vars

-----------------------------------------------------------------------------
(* Properties.                                                             *)

EndOf(b) == b + HeaderSize + mem[b].size

\* Following next from the start, the headers of heap.c tile the arena: each
\* block ends where the next one begins, the last one at the end of the arena,
\* in the middle of every walk too.  Merging neighbours is sound only because
\* of this: the list knows no addresses.
BlocksTile ==
  /\ HeapStart \in blocks
  /\ \A b \in blocks :
       \/ mem[b].next = Null /\ EndOf(b) = HeapEnd
       \/ mem[b].next \in blocks /\ mem[b].next = EndOf(b)
  /\ \A b, c \in blocks : b < c => EndOf(b) <= c

\* A pointer is held exactly when its block is on the list and not free.
HeldIsInUse == \A b \in Addrs : held[b] # 0 <=> b \in blocks /\ ~mem[b].free

\* A walk of heap.c stands on the list, and no free block it has passed is
\* followed by a free one; between calls there is no such pair at all.
CurOnList ==
  /\ pc # "idle" => cur \in blocks
  /\ pc = "find" => asked # 0

MergedSoFar ==
  \A b \in blocks :
    (pc = "merge" => b < cur) /\ mem[b].free /\ mem[b].next # Null => ~mem[mem[b].next].free

Inv == TypeOK /\ BlocksTile /\ HeldIsInUse /\ CurOnList /\ MergedSoFar

\* When every pointer is back, the arena of heap.c is one free block again:
\* whatever the order of the kfree calls, nothing is leaked or stays split.
AllFreeIsWhole ==
  pc = "idle" /\ (\A b \in Addrs : held[b] = 0) =>
    mem[HeapStart] = [size |-> HeapSize - HeaderSize, free |-> TRUE, next |-> Null]

BigEnough == \A b \in blocks : held[b] <= mem[b].size

\* heap.h says kmalloc will "Allocate size bytes from the kernel heap" or return
\* NULL.  Every pointer it gave out and kfree did not take back is a block of its
\* own on the list, not free and with at least the bytes its holder asked for; no
\* other block is in use, so none is lost either.
HeldSafe == HeldIsInUse /\ BigEnough

=============================================================================
