-------------------------- MODULE KernelMemoryProofs --------------------------
(***************************************************************************)
(* Proofs about the kernel's memory from the boot on, whatever the         *)
(* firmware's map, the sizes and the addresses are: every frame is         *)
(* accounted for; the allocator keeps its arena tiled for any callers, and *)
(* the kernel is one; and the loader gives back what it takes.             *)
(***************************************************************************)
EXTENDS KernelMemory, FiniteSetTheorems, WellFoundedInduction, TLAPS

-----------------------------------------------------------------------------
(* The allocator of heap.c, for every arena, header size, alignment and    *)
(* set of requests: the theorems about Spec, the specification of Heap.    *)

\* The remainder of a division lies below the divisor.
LEMMA DivMod ==
  ASSUME NEW n \in Nat, NEW d \in Nat \ {0}
  PROVE  /\ n % d \in Nat
         /\ n % d < d
         /\ n % d <= n
<1>1. n = d * (n \div d) + (n % d) /\ n % d \in 0 .. d - 1 /\ n \div d \in Nat
  OBVIOUS
<1>2. d * (n \div d) >= 0
  BY <1>1
<1> QED BY <1>1, <1>2

\* align_up yields a u32, and rounds up when the sum does not wrap around.
LEMMA AlignUpValue ==
  ASSUME NEW v \in 0 .. WordSize - 1
  PROVE  /\ AlignUp(v) \in 0 .. WordSize - 1
         /\ v + HeapAlign <= WordSize => v <= AlignUp(v)
<1> DEFINE s == v + HeapAlign - 1
           w == s % WordSize
<1>1. s \in Nat /\ WordSize \in Nat \ {0}
  BY HeapAssumption
<1>2. w \in Nat /\ w < WordSize
  BY <1>1, DivMod
<1>3. w % HeapAlign \in Nat /\ w % HeapAlign < HeapAlign /\ w % HeapAlign <= w
  BY <1>2, DivMod, HeapAssumption
<1>4. AlignUp(v) = w - (w % HeapAlign)
  BY DEF AlignUp
<1>5. s < WordSize => w = s
  <2> HIDE DEF s
  <2> QED BY <1>1
<1> HIDE DEF w
<1>6. AlignUp(v) \in 0 .. WordSize - 1
  BY <1>2, <1>3, <1>4, HeapAssumption
<1>7. ASSUME v + HeapAlign <= WordSize PROVE v <= AlignUp(v)
  BY <1>3, <1>4, <1>5, <1>7, HeapAssumption
<1> QED BY <1>6, <1>7

LEMMA InitInv == Init => Inv
<1> SUFFICES ASSUME Init PROVE Inv
  OBVIOUS
<1> USE HeapAssumption DEF Init, Null, HeapEnd, Addrs, NoHeader, Header
<1>0. HeapStart \in Addrs /\ HeapSize - HeaderSize \in Nat
  OBVIOUS
<1>1. TypeOK
  BY <1>0 DEF TypeOK
<1>2. BlocksTile
  BY <1>0 DEF BlocksTile, EndOf
<1>3. HeldIsInUse
  BY <1>0 DEF HeldIsInUse
<1>4. CurOnList /\ MergedSoFar
  BY <1>0 DEF CurOnList, MergedSoFar
<1> QED BY <1>1, <1>2, <1>3, <1>4 DEF Inv

\* What the invariant says of one block of the list.
LEMMA BlockFacts ==
  ASSUME Inv, NEW b \in blocks
  PROVE  /\ b \in Addrs /\ b \in Nat /\ b # Null
         /\ mem[b] \in Header
         /\ EndOf(b) \in Nat /\ b < EndOf(b) /\ EndOf(b) <= HeapEnd
         /\ mem[b].next # Null =>
              /\ mem[b].next \in blocks /\ mem[b].next = EndOf(b)
              /\ b < mem[b].next
<1>1. b \in Addrs /\ b \in Nat /\ b # Null /\ mem[b] \in Header
  BY HeapAssumption DEF Inv, TypeOK, Addrs, HeapEnd, Null
<1>2. EndOf(b) \in Nat /\ b < EndOf(b)
  BY <1>1, HeapAssumption DEF EndOf, Header
<1>3. CASE mem[b].next = Null /\ EndOf(b) = HeapEnd
  BY <1>1, <1>2, <1>3, HeapAssumption DEF HeapEnd
<1>4. CASE mem[b].next \in blocks /\ mem[b].next = EndOf(b)
  <2>1. mem[b].next \in Addrs
    BY <1>4 DEF Inv, TypeOK
  <2>2. EndOf(b) <= HeapEnd
    BY <1>4, <2>1, HeapAssumption DEF Addrs, HeapEnd
  <2> QED BY <1>1, <1>2, <1>4, <2>2
<1> QED BY <1>3, <1>4 DEF Inv, BlocksTile

\* kmalloc starts its walk.
LEMMA KmallocKeeps ==
  ASSUME Inv, NEW size \in Requests, Kmalloc(size)
  PROVE  Inv'
<1>1. size \in 0 .. WordSize - 1 /\ want' \in 0 .. WordSize - 1
  BY AlignUpValue, HeapAssumption DEF Kmalloc
<1>2. TypeOK'
  BY <1>1, HeapAssumption DEF Inv, TypeOK, Kmalloc, Addrs, HeapEnd
<1>3. BlocksTile' /\ HeldIsInUse' /\ CurOnList'
  BY DEF Inv, BlocksTile, HeldIsInUse, CurOnList, EndOf, Kmalloc
<1>4. MergedSoFar'
  BY DEF Inv, MergedSoFar, Kmalloc
<1> QED BY <1>2, <1>3, <1>4 DEF Inv

\* The walk of kmalloc passes a block.
LEMMA SkipKeeps ==
  ASSUME Inv, Skip
  PROVE  Inv'
<1>1. cur \in blocks
  BY DEF Inv, CurOnList, Skip
<1>2. mem[cur].next # Null => mem[cur].next \in blocks
  BY <1>1, BlockFacts
<1>3. TypeOK'
  BY <1>2, HeapAssumption DEF Inv, TypeOK, Skip, Return
<1>4. BlocksTile' /\ HeldIsInUse' /\ CurOnList'
  BY <1>2 DEF Inv, BlocksTile, HeldIsInUse, CurOnList, EndOf, Skip, Return
<1>5. MergedSoFar'
  BY DEF Inv, MergedSoFar, Skip, Return
<1> QED BY <1>3, <1>4, <1>5 DEF Inv

\* kfree marks a block and starts its walk.
LEMMA KfreeKeeps ==
  ASSUME Inv, NEW b \in Addrs, Kfree(b)
  PROVE  Inv'
<1>1. mem \in [Addrs -> Header] /\ mem[b] \in Header
  BY DEF Inv, TypeOK
<1>2. \A a \in Addrs : /\ mem'[a].size = mem[a].size /\ mem'[a].next = mem[a].next
                       /\ mem'[a] \in Header
                       /\ mem'[a].free = (a = b \/ mem[a].free)
  BY <1>1 DEF Kfree, Header
<1>3. mem' \in [Addrs -> Header]
  BY <1>1, <1>2 DEF Kfree
<1>4. TypeOK'
  BY <1>3, HeapAssumption DEF Inv, TypeOK, Kfree, Addrs, HeapEnd
<1>5. \A a \in blocks : a \in Addrs
  BY DEF Inv, TypeOK
<1>6. BlocksTile'
  BY <1>2, <1>5 DEF Inv, BlocksTile, EndOf, Kfree
<1>7. HeldIsInUse'
  BY <1>2, <1>5 DEF Inv, HeldIsInUse, TypeOK, Kfree
<1>8. CurOnList' /\ MergedSoFar'
  <2>1. cur' = HeapStart /\ pc' = "merge" /\ blocks' = blocks
    BY DEF Kfree
  <2>2. \A a \in blocks : ~(a < HeapStart)
    BY <1>5, HeapAssumption DEF Addrs, HeapEnd
  <2> QED BY <2>1, <2>2 DEF Inv, BlocksTile, CurOnList, MergedSoFar
<1> QED BY <1>4, <1>6, <1>7, <1>8 DEF Inv

\* kmalloc takes a whole block.
LEMMA TakeWholeKeeps ==
  ASSUME Inv, Take, ~(mem[cur].size - want > HeaderSize + HeapAlign)
  PROVE  Inv'
<1>1. cur \in blocks /\ cur \in Addrs /\ asked # 0 /\ asked \in Nat
  BY HeapAssumption DEF Inv, TypeOK, CurOnList, Take
<1>2. /\ mem' = [mem EXCEPT ![cur].free = FALSE]
      /\ blocks' = blocks
      /\ held' = [held EXCEPT ![cur] = asked]
  BY DEF Take
<1>3. \A a \in Addrs : /\ mem'[a].size = mem[a].size /\ mem'[a].next = mem[a].next
                       /\ mem'[a] \in Header
                       /\ mem'[a].free = (a # cur /\ mem[a].free)
  BY <1>1, <1>2 DEF Inv, TypeOK, Header
<1>4. \A a \in blocks : a \in Addrs
  BY DEF Inv, TypeOK
<1>5. TypeOK'
  <2>1. mem' \in [Addrs -> Header]
    BY <1>1, <1>2, <1>3 DEF Inv, TypeOK
  <2>2. held' \in [Addrs -> Nat]
    BY <1>1, <1>2 DEF Inv, TypeOK
  <2> QED BY <1>2, <2>1, <2>2, HeapAssumption DEF Inv, TypeOK, Take, Return
<1>6. BlocksTile'
  BY <1>2, <1>3, <1>4 DEF Inv, BlocksTile, EndOf
<1>7. HeldIsInUse'
  BY <1>1, <1>2, <1>3 DEF Inv, TypeOK, HeldIsInUse
<1>8. CurOnList' /\ MergedSoFar'
  <2>1. pc = "find" /\ pc' = "idle"
    BY DEF Take, Return
  <2>2. \A a \in blocks : mem[a].next # Null => mem[a].next \in Addrs
    BY <1>4, BlockFacts
  <2> QED BY <1>2, <1>3, <1>4, <2>1, <2>2 DEF Inv, CurOnList, MergedSoFar
<1> QED BY <1>5, <1>6, <1>7, <1>8 DEF Inv

\* kmalloc splits a block: the new header lies inside the old block and on no
\* other.
LEMMA TakeSplitKeeps ==
  ASSUME Inv, Take, mem[cur].size - want > HeaderSize + HeapAlign
  PROVE  Inv'
<1> DEFINE rest == cur + HeaderSize + want
           tail == [size |-> mem[cur].size - want - HeaderSize, free |-> TRUE,
                    next |-> mem[cur].next]
           given == [size |-> want, free |-> FALSE, next |-> rest]
           NewEnd(a) == a + HeaderSize + mem'[a].size
<1>1. cur \in blocks /\ cur \in Addrs /\ cur \in Nat /\ asked # 0
  BY HeapAssumption DEF Inv, TypeOK, CurOnList, Take, Addrs, HeapEnd
<1>2. mem[cur] \in Header /\ mem[cur].free /\ want \in Nat /\ want <= mem[cur].size
  BY <1>1 DEF Inv, TypeOK, Take, Fits, Header
<1>3. EndOf(cur) = cur + HeaderSize + mem[cur].size
      /\ EndOf(cur) <= HeapEnd /\ EndOf(cur) \in Nat
  BY <1>1, BlockFacts DEF EndOf
<1>4. /\ rest \in Nat /\ cur < rest /\ rest < EndOf(cur)
      /\ rest + HeaderSize + tail.size = EndOf(cur)
  BY <1>1, <1>2, <1>3, HeapAssumption DEF Header
<1>5. rest \in Addrs
  BY <1>1, <1>3, <1>4, HeapAssumption DEF Addrs, HeapEnd
<1>6. tail \in Header /\ given \in Header
  BY <1>2, <1>4, HeapAssumption DEF Header
<1>7. \A a \in blocks : a \in Addrs /\ a \in Nat /\ (a < cur \/ a = cur \/ EndOf(cur) <= a)
  BY <1>1, HeapAssumption DEF Inv, TypeOK, BlocksTile, Addrs, HeapEnd
<1>8. rest \notin blocks /\ rest # cur
  BY <1>1, <1>3, <1>4, <1>7
<1>9. /\ mem' = [mem EXCEPT ![rest] = tail, ![cur] = given]
      /\ blocks' = blocks \union {rest}
      /\ held' = [held EXCEPT ![cur] = asked]
  BY DEF Take
<1> HIDE DEF rest, tail, given
<1>10. /\ mem' \in [Addrs -> Header]
       /\ mem'[rest] = tail /\ mem'[cur] = given
       /\ \A a \in Addrs : a # cur /\ a # rest => mem'[a] = mem[a]
  BY <1>1, <1>5, <1>6, <1>8, <1>9 DEF Inv, TypeOK
<1>11. TypeOK'
  BY <1>5, <1>9, <1>10, HeapAssumption DEF Inv, TypeOK, Take, Return
<1>12. /\ NewEnd(cur) = rest /\ NewEnd(rest) = EndOf(cur)
       /\ \A a \in blocks : a # cur => NewEnd(a) = EndOf(a)
  BY <1>1, <1>4, <1>7, <1>8, <1>10 DEF EndOf, rest, given, tail
<1> HIDE DEF NewEnd
<1>13. BlocksTile'
  <2>1. HeapStart \in blocks'
    BY <1>9 DEF Inv, BlocksTile
  <2>2. ASSUME NEW a \in blocks'
        PROVE  \/ mem'[a].next = Null /\ NewEnd(a) = HeapEnd
               \/ mem'[a].next \in blocks' /\ mem'[a].next = NewEnd(a)
    <3>1. CASE a = cur
      BY <1>9, <1>10, <1>12, <3>1 DEF given
    <3>2. CASE a = rest
      <4>1. mem'[a].next = mem[cur].next /\ NewEnd(a) = EndOf(cur)
        BY <1>10, <1>12, <3>2 DEF tail
      <4>2. \/ mem[cur].next = Null /\ EndOf(cur) = HeapEnd
            \/ mem[cur].next \in blocks /\ mem[cur].next = EndOf(cur)
        BY <1>1 DEF Inv, BlocksTile
      <4> QED BY <1>9, <4>1, <4>2
    <3>3. CASE a \in blocks /\ a # cur
      BY <1>7, <1>8, <1>9, <1>10, <1>12, <3>3 DEF Inv, BlocksTile
    <3> QED BY <1>9, <3>1, <3>2, <3>3
  <2>3. ASSUME NEW a \in blocks', NEW c \in blocks', a < c
        PROVE  NewEnd(a) <= c
    <3>1. CASE a \in blocks /\ a # cur /\ c = rest
      <4>1. a < cur
        BY <1>3, <1>4, <1>7, <2>3, <3>1, HeapAssumption DEF HeapEnd
      <4>2. EndOf(a) <= cur /\ EndOf(a) \in Nat
        BY <1>1, <3>1, <4>1, BlockFacts DEF Inv, BlocksTile
      <4> QED BY <1>1, <1>4, <1>12, <3>1, <4>2
    <3>2. CASE a \in blocks /\ a # cur /\ c \in blocks
      BY <1>12, <2>3, <3>2 DEF Inv, BlocksTile
    <3>3. CASE a = cur /\ c \in blocks
      <4>1. EndOf(cur) <= c
        BY <1>1, <2>3, <3>3 DEF Inv, BlocksTile
      <4> QED BY <1>3, <1>4, <1>7, <1>12, <3>3, <4>1
    <3>4. CASE a = rest /\ c \in blocks
      <4>1. EndOf(cur) <= c
        BY <1>1, <1>4, <1>7, <2>3, <3>4
      <4> QED BY <1>12, <3>4, <4>1
    <3>5. CASE a = cur /\ c = rest
      BY <1>4, <1>12, <3>5
    <3>6. CASE a = rest /\ c = rest
      BY <1>4, <2>3, <3>6
    <3> QED BY <1>9, <3>1, <3>2, <3>3, <3>4, <3>5, <3>6
  <2> QED BY <2>1, <2>2, <2>3 DEF BlocksTile, EndOf, NewEnd, Null, HeapEnd
<1>14. HeldIsInUse'
  <2>1. ASSUME NEW a \in Addrs
        PROVE  held'[a] # 0 <=> a \in blocks' /\ ~mem'[a].free
    <3>1. CASE a = cur
      BY <1>1, <1>9, <1>10, <3>1 DEF Inv, TypeOK, given
    <3>2. CASE a = rest
      BY <1>8, <1>9, <1>10, <3>2 DEF Inv, TypeOK, HeldIsInUse, tail
    <3>3. CASE a # cur /\ a # rest
      BY <1>9, <1>10, <3>3 DEF Inv, TypeOK, HeldIsInUse
    <3> QED BY <3>1, <3>2, <3>3
  <2> QED BY <2>1 DEF HeldIsInUse
<1>15. CurOnList' /\ MergedSoFar'
  <2>1. pc = "find" /\ pc' = "idle"
    BY DEF Take, Return
  <2>2. ASSUME NEW a \in blocks', mem'[a].free, mem'[a].next # Null
        PROVE  ~mem'[mem'[a].next].free
    <3>1. CASE a = cur
      BY <1>10, <2>2, <3>1 DEF given
    <3>2. CASE a = rest
      <4>1. mem'[a].next = mem[cur].next
        BY <1>10, <3>2 DEF tail
      <4>2. mem[cur].next \in blocks /\ cur < mem[cur].next
        BY <1>1, <2>2, <4>1, BlockFacts
      <4>3. ~mem[mem[cur].next].free
        BY <1>1, <1>2, <2>1, <2>2, <4>1 DEF Inv, MergedSoFar
      <4>4. mem[cur].next # cur /\ mem[cur].next # rest
        BY <1>1, <1>7, <1>8, <4>2
      <4> QED BY <1>7, <1>10, <4>1, <4>2, <4>3, <4>4
    <3>3. CASE a \in blocks /\ a # cur
      <4>1. mem'[a] = mem[a]
        BY <1>7, <1>8, <1>10, <3>3
      <4>2. mem[a].next \in blocks /\ ~mem[mem[a].next].free
        BY <2>1, <2>2, <3>3, <4>1, BlockFacts DEF Inv, MergedSoFar
      <4> QED BY <1>2, <1>7, <1>8, <1>10, <4>1, <4>2 DEF Header
    <3> QED BY <1>9, <3>1, <3>2, <3>3
  <2> QED BY <2>1, <2>2 DEF CurOnList, MergedSoFar, Null
<1> QED BY <1>11, <1>13, <1>14, <1>15 DEF Inv

LEMMA TakeKeeps == ASSUME Inv, Take PROVE Inv'
BY TakeWholeKeeps, TakeSplitKeeps

\* The walk of kfree moves on or ends: every block it passed has no free pair.
LEMMA MergeMovesKeeps ==
  ASSUME Inv, Merge, mem[cur].next = Null \/ ~(mem[cur].free /\ mem[mem[cur].next].free)
  PROVE  Inv'
<1>1. cur \in blocks /\ cur \in Nat
  BY HeapAssumption DEF Inv, TypeOK, CurOnList, Merge, Addrs, HeapEnd
<1>2. UNCHANGED <<mem, blocks, held>>
  BY DEF Merge
<1>3. \/ mem[cur].next = Null /\ Return
      \/ mem[cur].next # Null /\ cur' = mem[cur].next /\ UNCHANGED <<pc, want, asked>>
  BY DEF Merge
<1>4. mem[cur].next # Null => mem[cur].next \in blocks
  BY <1>1, BlockFacts
<1>5. TypeOK'
  BY <1>2, <1>3, <1>4, HeapAssumption DEF Inv, TypeOK, Return
<1>6. BlocksTile' /\ HeldIsInUse' /\ CurOnList'
  BY <1>2, <1>3, <1>4 DEF Inv, BlocksTile, HeldIsInUse, CurOnList, EndOf, Return, Merge
<1>7. MergedSoFar'
  <2>1. \A a \in blocks : a \in Nat /\ a < HeapEnd /\ (cur < a => EndOf(cur) <= a)
    BY <1>1, HeapAssumption DEF Inv, TypeOK, BlocksTile, Addrs, HeapEnd
  <2>2. EndOf(cur) \in Nat /\ HeapEnd \in Nat
    BY <1>1, BlockFacts, HeapAssumption DEF HeapEnd
  <2>3. ASSUME NEW a \in blocks, mem[a].free, mem[a].next # Null, pc' = "merge" => a < cur'
        PROVE  ~mem[mem[a].next].free
    <3>1. CASE a < cur
      BY <2>3, <3>1 DEF Inv, MergedSoFar
    <3>2. CASE a = cur
      BY <2>3, <3>2
    <3>3. CASE cur < a
      <4>1. EndOf(cur) <= a
        BY <2>1, <3>3
      <4>2. mem[cur].next # Null
        <5>1. Null \notin blocks
          BY BlockFacts
        <5> QED BY <1>1, <2>1, <2>2, <4>1, <5>1 DEF Inv, BlocksTile
      <4>3. mem[cur].next = EndOf(cur) /\ cur' = mem[cur].next /\ pc' = "merge"
        BY <1>1, <1>3, <4>2, BlockFacts DEF Merge
      <4> QED BY <2>1, <2>2, <2>3, <4>1, <4>3
    <3> QED BY <1>1, <2>1, <3>1, <3>2, <3>3
  <2> QED BY <1>2, <2>3 DEF MergedSoFar, Null
<1> QED BY <1>5, <1>6, <1>7 DEF Inv

\* A free block swallows the free one behind it.
LEMMA MergeJoinsKeeps ==
  ASSUME Inv, Merge, mem[cur].next # Null, mem[cur].free, mem[mem[cur].next].free
  PROVE  Inv'
<1> DEFINE next == mem[cur].next
           joined == [size |-> mem[cur].size + HeaderSize + mem[next].size,
                      free |-> mem[cur].free, next |-> mem[next].next]
           NewEnd(a) == a + HeaderSize + mem'[a].size
<1>1. cur \in blocks /\ cur \in Addrs /\ cur \in Nat /\ mem[cur] \in Header
  BY HeapAssumption DEF Inv, TypeOK, CurOnList, Merge, Addrs, HeapEnd
<1>2. next \in blocks /\ next = EndOf(cur) /\ cur < next
  BY <1>1, BlockFacts
<1>3. next \in Addrs /\ next \in Nat /\ mem[next] \in Header /\ next # cur
      /\ EndOf(next) \in Nat /\ next < EndOf(next) /\ EndOf(next) <= HeapEnd
  BY <1>1, <1>2, BlockFacts
<1>4. joined \in Header
  BY <1>1, <1>3, HeapAssumption DEF Header
<1>5. blocks' = blocks \ {next} /\ UNCHANGED <<pc, cur, want, asked, held>>
  BY DEF Merge
<1>6. mem' = [mem EXCEPT ![cur] = joined, ![next] = NoHeader]
  BY DEF Merge
<1>7. /\ mem' \in [Addrs -> Header]
      /\ mem'[cur] = joined
      /\ \A a \in Addrs : a # cur /\ a # next => mem'[a] = mem[a]
  <2>1. NoHeader \in Header
    BY DEF NoHeader, Header, Null
  <2>2. mem \in [Addrs -> Header]
    BY DEF Inv, TypeOK
  <2> HIDE DEF joined, next
  <2> QED BY <1>1, <1>3, <1>4, <1>6, <2>1, <2>2
<1> HIDE DEF joined, next
<1>8. \A a \in blocks : a \in Addrs /\ a \in Nat /\ EndOf(a) \in Nat
  BY BlockFacts
<1>9. NewEnd(cur) = EndOf(next) /\ \A a \in blocks : a # cur /\ a # next => NewEnd(a) = EndOf(a)
  BY <1>1, <1>2, <1>3, <1>7, <1>8, HeapAssumption DEF EndOf, joined, Header
<1> HIDE DEF NewEnd
<1>10. TypeOK'
  BY <1>5, <1>7 DEF Inv, TypeOK
<1>11. BlocksTile'
  <2>1. HeapStart \in blocks'
    <3>1. HeapStart <= cur
      BY <1>1, HeapAssumption DEF Addrs, HeapEnd
    <3> QED BY <1>1, <1>2, <1>5, <3>1, HeapAssumption DEF Inv, BlocksTile
  <2>2. ASSUME NEW a \in blocks'
        PROVE  \/ mem'[a].next = Null /\ NewEnd(a) = HeapEnd
               \/ mem'[a].next \in blocks' /\ mem'[a].next = NewEnd(a)
    <3>1. CASE a = cur
      <4>1. mem'[a].next = mem[next].next /\ NewEnd(a) = EndOf(next)
        BY <1>7, <1>9, <3>1 DEF joined
      <4>2. \/ mem[next].next = Null /\ EndOf(next) = HeapEnd
            \/ mem[next].next \in blocks /\ mem[next].next = EndOf(next)
        BY <1>2 DEF Inv, BlocksTile
      <4>3. EndOf(next) # next
        BY <1>3
      <4> QED BY <1>5, <4>1, <4>2, <4>3
    <3>2. CASE a # cur
      <4>1. a \in blocks /\ a # next /\ mem'[a] = mem[a] /\ NewEnd(a) = EndOf(a)
        BY <1>5, <1>7, <1>8, <1>9, <3>2
      <4>2. EndOf(a) # next
        <5>1. CASE a < cur
          BY <1>1, <1>2, <1>3, <1>8, <4>1, <5>1 DEF Inv, BlocksTile
        <5>2. CASE cur < a
          <6>1. next <= a
            BY <1>1, <1>2, <4>1, <5>2 DEF Inv, BlocksTile
          <6>2. a < EndOf(a)
            BY <4>1, BlockFacts
          <6> QED BY <1>3, <1>8, <4>1, <6>1, <6>2
        <5>3. a < cur \/ cur < a
          <6>1. a \in Nat /\ cur \in Nat
            BY <1>1, <1>8, <4>1
          <6> QED BY <3>2, <6>1
        <5> QED BY <5>1, <5>2, <5>3
      <4>3. \/ mem[a].next = Null /\ EndOf(a) = HeapEnd
            \/ mem[a].next \in blocks /\ mem[a].next = EndOf(a)
        BY <4>1 DEF Inv, BlocksTile
      <4> QED BY <1>5, <4>1, <4>2, <4>3
    <3> QED BY <3>1, <3>2
  <2>3. ASSUME NEW a \in blocks', NEW c \in blocks', a < c
        PROVE  NewEnd(a) <= c
    <3>1. CASE a = cur
      <4>1. c \in blocks /\ c # next /\ next <= c
        BY <1>1, <1>2, <1>5, <2>3, <3>1 DEF Inv, BlocksTile
      <4>2. EndOf(next) <= c
        BY <1>2, <1>3, <1>8, <4>1 DEF Inv, BlocksTile
      <4> QED BY <1>9, <3>1, <4>2
    <3>2. CASE a # cur
      BY <1>5, <1>9, <2>3, <3>2 DEF Inv, BlocksTile
    <3> QED BY <3>1, <3>2
  <2> QED BY <2>1, <2>2, <2>3 DEF BlocksTile, EndOf, NewEnd, Null, HeapEnd
<1>12. HeldIsInUse'
  <2>1. ASSUME NEW a \in Addrs
        PROVE  held'[a] # 0 <=> a \in blocks' /\ ~mem'[a].free
    <3>1. CASE a = cur
      BY <1>1, <1>5, <1>7, <3>1 DEF Inv, HeldIsInUse, joined
    <3>2. CASE a = next
      BY <1>2, <1>5, <3>2 DEF Inv, HeldIsInUse, next
    <3>3. CASE a # cur /\ a # next
      BY <1>5, <1>7, <3>3 DEF Inv, HeldIsInUse
    <3> QED BY <3>1, <3>2, <3>3
  <2> QED BY <2>1 DEF HeldIsInUse
<1>13. CurOnList'
  BY <1>1, <1>2, <1>3, <1>5 DEF Inv, CurOnList, Merge
<1>14. MergedSoFar'
  <2>1. ASSUME NEW a \in blocks, a < cur, mem[a].free, mem[a].next # Null
        PROVE  mem[a].next \in blocks /\ mem[a].next # next /\ ~mem[mem[a].next].free
    <3>1. mem[a].next \in blocks /\ mem[a].next = EndOf(a) /\ EndOf(a) <= cur
      BY <1>1, <2>1, BlockFacts DEF Inv, BlocksTile
    <3>2. ~mem[mem[a].next].free
      BY <2>1 DEF Inv, MergedSoFar
    <3> QED BY <1>1, <1>2, <1>3, <1>8, <3>1, <3>2
  <2>2. ASSUME NEW a \in blocks', a < cur, mem'[a].free, mem'[a].next # Null
        PROVE  ~mem'[mem'[a].next].free
    <3>1. a \in blocks /\ a # next /\ a # cur /\ mem'[a] = mem[a]
      BY <1>1, <1>5, <1>7, <1>8, <2>2
    <3>2. mem[a].next \in blocks /\ mem[a].next # next /\ ~mem[mem[a].next].free
      BY <2>1, <2>2, <3>1
    <3>3. mem[a].next # cur
      BY <3>2
    <3> QED BY <1>7, <1>8, <3>1, <3>2, <3>3
  <2>3. pc' = "merge"
    BY <1>5 DEF Merge
  <2> QED BY <1>5, <2>2, <2>3 DEF MergedSoFar, Null
<1> QED BY <1>10, <1>11, <1>12, <1>13, <1>14 DEF Inv

LEMMA MergeKeeps == ASSUME Inv, Merge PROVE Inv'
BY MergeMovesKeeps, MergeJoinsKeeps

LEMMA StepKeeps ==
  ASSUME Inv, [Next]_vars
  PROVE  Inv'
<1>1. CASE \E size \in Requests : Kmalloc(size)
  BY <1>1, KmallocKeeps
<1>2. CASE \E b \in Addrs : Kfree(b)
  BY <1>2, KfreeKeeps
<1>3. CASE Skip
  BY <1>3, SkipKeeps
<1>4. CASE Take
  BY <1>4, TakeKeeps
<1>5. CASE Merge
  BY <1>5, MergeKeeps
<1>6. CASE UNCHANGED vars
  BY <1>6 DEF Inv, TypeOK, BlocksTile, HeldIsInUse, CurOnList, MergedSoFar, EndOf, vars
<1> QED BY <1>1, <1>2, <1>3, <1>4, <1>5, <1>6 DEF Next

\* The invariant holds in every state: the blocks of heap.c tile the arena, a
\* pointer that was given out is a block in use of its own, and no free block
\* that a walk has passed is followed by a free one.
THEOREM Invariance == Spec => []Inv
<1>1. Init => Inv
  BY InitInv
<1>2. Inv /\ [Next]_vars => Inv'
  BY StepKeeps
<1> QED BY <1>1, <1>2, PTL DEF Spec

\* The headers of heap.c tile the arena at every moment of every walk.
THEOREM BlocksTileCorrect == Spec => []BlocksTile
<1>1. Inv => BlocksTile
  BY DEF Inv
<1> QED BY <1>1, Invariance, PTL

\* What a caller of kmalloc holds is always a block in use of its own.
THEOREM HeldIsInUseCorrect == Spec => []HeldIsInUse
<1>1. Inv => HeldIsInUse
  BY DEF Inv
<1> QED BY <1>1, Invariance, PTL

\* With every pointer back, the arena is one free block again.
THEOREM AllFreeIsWholeCorrect == Spec => []AllFreeIsWhole
<1>1. Inv => AllFreeIsWhole
  <2> SUFFICES ASSUME Inv, pc = "idle", \A b \in Addrs : held[b] = 0
               PROVE  mem[HeapStart] =
                        [size |-> HeapSize - HeaderSize, free |-> TRUE, next |-> Null]
    BY DEF AllFreeIsWhole
  <2>1. HeapStart \in blocks /\ mem[HeapStart] \in Header
    BY BlockFacts DEF Inv, BlocksTile
  <2>2. \A b \in blocks : mem[b].free
    BY DEF Inv, TypeOK, HeldIsInUse
  <2>3. mem[HeapStart].next = Null
    BY <2>1, <2>2, BlockFacts DEF Inv, MergedSoFar
  <2>4. EndOf(HeapStart) = HeapEnd
    BY <2>1, <2>3, BlockFacts DEF Inv, BlocksTile
  <2>5. mem[HeapStart].size = HeapSize - HeaderSize
    BY <2>1, <2>4, HeapAssumption DEF EndOf, HeapEnd, Header
  <2>6. mem[HeapStart].free = TRUE
    BY <2>1, <2>2 DEF Header
  <2> QED BY <2>1, <2>3, <2>5, <2>6 DEF Header
<1> QED BY <1>1, Invariance, PTL

\* What the rounding of kmalloc has to do with BigEnough.
RoundedUp == pc = "find" => asked <= want

\* A block in use has the bytes its holder asked for, as long as nobody asks for
\* so much that align_up wraps around.
THEOREM BigEnoughCorrect ==
  ASSUME \A size \in Requests : size + HeapAlign <= WordSize
  PROVE  Spec => []BigEnough
<1> DEFINE Big == BigEnough /\ RoundedUp
<1>1. Init => Big
  BY HeapAssumption DEF Init, BigEnough, RoundedUp, Addrs, HeapEnd
<1>2. Inv /\ Inv' /\ Big /\ [Next]_vars => Big'
  <2> SUFFICES ASSUME Inv, Inv', Big, [Next]_vars PROVE Big'
    OBVIOUS
  <2>1. /\ \A b \in blocks : b \in Addrs /\ mem[b] \in Header
        /\ mem \in [Addrs -> Header] /\ held \in [Addrs -> Nat]
        /\ asked \in Nat /\ want \in Nat
    BY HeapAssumption DEF Inv, TypeOK
  <2>2. CASE \E size \in Requests : Kmalloc(size)
    <3> PICK size \in Requests : Kmalloc(size)
      BY <2>2
    <3>1. size <= AlignUp(size)
      BY AlignUpValue, HeapAssumption
    <3> QED BY <3>1 DEF Kmalloc, BigEnough, RoundedUp
  <2>3. CASE \E b \in Addrs : Kfree(b)
    <3> PICK b \in Addrs : Kfree(b)
      BY <2>3
    <3>1. \A a \in Addrs : mem'[a].size = mem[a].size /\ (held'[a] = held[a] \/ held'[a] = 0)
      BY <2>1 DEF Kfree, Header
    <3> QED BY <2>1, <3>1 DEF Kfree, BigEnough, RoundedUp, Header
  <2>4. CASE Skip
    BY <2>4 DEF Skip, Return, BigEnough, RoundedUp
  <2>5. CASE Take
    <3>1. RoundedUp'
      BY <2>5 DEF Take, Return, RoundedUp
    <3>2. cur \in blocks /\ cur \in Addrs /\ asked <= want /\ want <= mem[cur].size
      BY <2>1, <2>5 DEF Inv, CurOnList, Take, Fits, RoundedUp
    <3>3. ASSUME NEW a \in blocks' PROVE held'[a] <= mem'[a].size
      <4>1. a \in Addrs /\ held' = [held EXCEPT ![cur] = asked]
        BY <2>5 DEF Inv, TypeOK, Take
      <4>2. CASE a = cur
        <5>1. mem'[cur].size = want \/ mem'[cur].size = mem[cur].size
          BY <2>1, <2>5, <3>2 DEF Take, Header
        <5> QED BY <2>1, <3>2, <4>1, <4>2, <5>1 DEF Header
      <4>3. CASE a \in blocks /\ a # cur
        <5>1. mem'[a] = mem[a] \/ a = cur + HeaderSize + want
          BY <2>1, <2>5, <4>1, <4>3 DEF Take
        <5>2. CASE mem'[a] = mem[a]
          BY <2>1, <4>1, <4>3, <5>2 DEF BigEnough
        <5>3. CASE held[a] = 0
          BY <2>1, <4>1, <4>3, <5>3 DEF Inv, TypeOK, Header
        <5>4. CASE a = cur + HeaderSize + want /\ mem'[a] # mem[a]
          <6>1. mem'[a].free
            BY <2>1, <2>5, <4>1, <4>3, <5>4 DEF Take
          <6>2. held'[a] = 0
            BY <4>1, <6>1 DEF Inv, HeldIsInUse
          <6> QED BY <2>1, <4>1, <4>3, <5>3, <6>2
        <5> QED BY <5>1, <5>2, <5>4
      <4>4. CASE a \notin blocks
        <5>1. held[a] = 0
          BY <4>1, <4>4 DEF Inv, HeldIsInUse
        <5>2. mem'[a].size \in Nat
          BY <4>1 DEF Inv, TypeOK, Header
        <5> QED BY <3>2, <4>1, <4>4, <5>1, <5>2, <2>1
      <4> QED BY <4>2, <4>3, <4>4
    <3> QED BY <3>1, <3>3 DEF BigEnough
  <2>6. CASE Merge
    <3>1. RoundedUp' /\ held' = held /\ blocks' \subseteq blocks
      BY <2>6 DEF Merge, Return, RoundedUp
    <3>2. ASSUME NEW a \in blocks' PROVE held'[a] <= mem'[a].size
      <4>1. a \in blocks /\ a \in Addrs /\ mem'[a] \in Header
        BY <2>1, <3>1 DEF Inv, TypeOK
      <4>2. CASE held[a] = 0
        BY <3>1, <4>1, <4>2 DEF Header
      <4>3. CASE held[a] # 0
        <5>1. ~mem[a].free /\ ~mem'[a].free
          BY <3>1, <4>1, <4>3 DEF Inv, HeldIsInUse
        <5>2. a # mem[cur].next \/ mem'[a] = mem[a]
          BY <2>6, <4>1, <5>1 DEF Merge
        <5>3. mem'[a] = mem[a]
          BY <2>1, <2>6, <4>1, <5>1, <5>2 DEF Merge
        <5> QED BY <3>1, <4>1, <5>3 DEF BigEnough
      <4> QED BY <4>2, <4>3
    <3> QED BY <3>1, <3>2 DEF BigEnough
  <2>7. CASE UNCHANGED vars
    BY <2>7 DEF vars, BigEnough, RoundedUp
  <2> QED BY <2>2, <2>3, <2>4, <2>5, <2>6, <2>7 DEF Next
<1> QED BY <1>1, <1>2, Invariance, PTL DEF Spec

\* Every pointer callers hold is a block of its own, in use and large enough, under
\* the same condition on the requests.
THEOREM HeldSafeCorrect ==
  ASSUME \A size \in Requests : size + HeapAlign <= WordSize
  PROVE  Spec => []HeldSafe
BY HeldIsInUseCorrect, BigEnoughCorrect, PTL DEF HeldSafe

-----------------------------------------------------------------------------
(* Frames: the invariant.                                                  *)

FrameTypes ==
  /\ bitmap \subseteq Frames /\ taken \subseteq Frames
  /\ {total, used, addr} \subseteq Int
  /\ dir \in Frames \union {NoFrame}
  /\ tables \in [Slots -> Frames \union {NoFrame}]
  /\ pages \in [Pages -> Int]

\* Pages of the heap that heap_init has mapped, and the frames behind them.
HeapDone == {p \in HeapPages : phase = "up" \/ (phase = "heap" /\ p * PageSize < addr)}
HeapFrames == {pages[p] : p \in HeapDone}

\* What pmm.c has counted: all free frames, and only frames of memory are free.
CountOK ==
  phase # "pmm" =>
    /\ (Frames \ Managed) \union Reserved \subseteq bitmap
    /\ total = PageSize * Cardinality(Managed)
    /\ total - used = PageSize * Cardinality(Frames \ bitmap)

\* Nothing is in use before pmm_init; then everything that is was free once, is
\* marked now, and serves one purpose.
UseOK ==
  /\ phase = "pmm" => TableFrames = {} /\ taken = {} /\ dir = NoFrame
  /\ phase = "heap" => \E k \in Nat : addr = k * PageSize
  /\ TableFrames \union taken \union HeapFrames \union ({dir} \ {NoFrame})
       \subseteq (Managed \ Reserved) \intersect bitmap
  /\ TableFrames \intersect (taken \union HeapFrames \union {dir}) = {}
  /\ taken \intersect (HeapFrames \union {dir}) = {}
  /\ dir \notin HeapFrames
  /\ \A s, t \in Slots : s # t /\ tables[s] # NoFrame => tables[s] # tables[t]
  /\ \A p, q \in HeapDone : p # q => pages[p] # pages[q]

FramesInv == FrameTypes /\ CountOK /\ UseOK

-----------------------------------------------------------------------------
(* The allocator.                                                          *)

LEMMA LeastOf ==
  ASSUME NEW S \in SUBSET Nat, S # {}
  PROVE  Min(S) \in S /\ \A y \in S : Min(S) <= y
<1> DEFINE R == {p \in Nat \X Nat : p[1] < p[2]}
<1>1. IsWellFoundedOn(R, Nat)
  BY NatLessThanWellFounded, Zenon DEF OpToRel
<1> HIDE DEF R
<1>2. PICK x \in S : \A y \in S : ~(<<y, x>> \in R)
  BY <1>1, WFMin
<1>3. \A u, v \in Nat : u < v => <<u, v>> \in R
  BY SMT DEF R
<1>4. \A y \in S : y \in Nat /\ x \in Nat /\ ~(y < x)
  BY <1>2, <1>3, Zenon
<1>5. \A y \in S : x =< y
  BY <1>4
<1> QED
  BY <1>5, Zenon DEF Min

LEMMA FrameNumbers ==
  /\ Frames \subseteq Nat /\ IsFiniteSet(Frames) /\ NoFrame \notin Frames
  /\ PageSize \in Nat \ {0}
  /\ Managed \subseteq Frames /\ Reserved \subseteq Frames
<1>1. MaxFrames \in Nat /\ PageSize \in Nat \ {0}
  BY MemoryAssumption
<1>2. IsFiniteSet(Frames) /\ Frames \subseteq Nat /\ NoFrame \notin Frames
  BY <1>1, FS_Interval DEF Frames, NoFrame
<1>3. Managed \subseteq Frames
  BY DEF Managed, FramesOf
<1> QED
  BY <1>1, <1>2, <1>3 DEF Reserved, FramesIn

\* pmm_alloc_frame returns a frame whose bit is clear.
LEMMA FirstFreeFacts ==
  ASSUME NEW b, FirstFree(b) # NoFrame
  PROVE  FirstFree(b) \in Frames \ b
<1>1. Frames \ b # {} /\ Frames \ b \in SUBSET Nat
  BY FrameNumbers DEF FirstFree
<1> QED
  BY <1>1, LeastOf DEF FirstFree

LEMMA PagesAdd ==
  ASSUME NEW i \in Nat, NEW j \in Nat
  PROVE  PageSize * (i + j) = PageSize * i + PageSize * j
<1>1. PageSize \in Nat
  BY FrameNumbers
<1> QED
  BY <1>1

\* The count of free bytes follows the frames that are taken.
LEMMA TakenCounts ==
  ASSUME FramesInv, phase # "pmm", phase' # "pmm", NEW new \in SUBSET (Frames \ bitmap),
         Taken(new), map' = map
  PROVE  bitmap' \subseteq Frames /\ {total', used'} \subseteq Int /\ CountOK'
<1> DEFINE free == Frames \ bitmap
           n == Cardinality(new)
           m == Cardinality(free \ new)
<1>1. /\ bitmap' = bitmap \union new /\ used' = used + PageSize * n /\ total' = total
      /\ Frames \ bitmap' = free \ new
  BY DEF Taken
<1>2. IsFiniteSet(free) /\ IsFiniteSet(new) /\ IsFiniteSet(free \ new)
  BY FrameNumbers, FS_Subset
<1>3. Cardinality(free) = m + n /\ m \in Nat /\ n \in Nat
  <2>1. n \in Nat /\ m \in Nat /\ Cardinality({}) = 0
    BY <1>2, FS_CardinalityType, FS_EmptySet
  <2>2. free = (free \ new) \union new /\ (free \ new) \intersect new = {}
    OBVIOUS
  <2>3. Cardinality((free \ new) \union new) =
          m + n - Cardinality((free \ new) \intersect new)
    BY <1>2, FS_Union
  <2>4. Cardinality(free) = m + n - Cardinality({})
    BY <2>2, <2>3
  <2> HIDE DEF m, n
  <2> QED
    BY <2>1, <2>4
<1>4. Managed' = Managed /\ Reserved' = Reserved
  BY DEF Managed, UsableRegions, Reserved
<1>5. /\ total = PageSize * Cardinality(Managed) /\ total - used = PageSize * Cardinality(free)
      /\ total \in Int /\ used \in Int
      /\ (Frames \ Managed) \union Reserved \subseteq bitmap
  BY DEF FramesInv, FrameTypes, CountOK
<1>6. PageSize * Cardinality(free) = PageSize * m + PageSize * n
  BY <1>3, PagesAdd
<1>7. PageSize * m \in Int /\ PageSize * n \in Int
  BY <1>3, FrameNumbers
<1>8. Cardinality(Frames \ bitmap') = m
  BY <1>1
<1> HIDE DEF free, n, m
<1>9. used' \in Int /\ total' - used' = PageSize * m
  BY <1>1, <1>5, <1>6, <1>7
<1> QED
  BY <1>1, <1>4, <1>5, <1>8, <1>9 DEF CountOK, FramesInv, FrameTypes

\* Frames that were free are in nobody's use.
LEMMA FreeUnused ==
  ASSUME FramesInv, phase # "pmm", NEW f \in Frames \ bitmap
  PROVE  /\ f \in Managed \ Reserved /\ f # NoFrame
         /\ f \notin TableFrames /\ f \notin taken /\ f \notin HeapFrames /\ f # dir
  BY FrameNumbers DEF FramesInv, CountOK, UseOK

-----------------------------------------------------------------------------
(* The boot.                                                               *)

LEMMA PmmInitKeeps == ASSUME FramesInv, PmmInit PROVE FramesInv'
<1>1. /\ phase = "pmm" /\ bitmap' = (Frames \ Managed) \union Reserved
      /\ total' = PageSize * Cardinality(Managed)
      /\ used' = PageSize * Cardinality(Managed \intersect Reserved)
      /\ phase' \in {"panic", "dir"}
      /\ UNCHANGED <<map, dir, tables, pages, addr, taken>>
  BY DEF PmmInit
<1>2. Managed' = Managed /\ Reserved' = Reserved
  BY <1>1 DEF Managed, UsableRegions, Reserved
<1> DEFINE a == Cardinality(Managed)
           b == Cardinality(Managed \intersect Reserved)
           c == Cardinality(Managed \ Reserved)
<1>3. a = b + c /\ b \in Nat /\ c \in Nat /\ a \in Nat
  <2>1. IsFiniteSet(Managed) /\ IsFiniteSet(Managed \intersect Reserved)
        /\ IsFiniteSet(Managed \ Reserved)
    BY FrameNumbers, FS_Subset
  <2>2. b \in Nat /\ c \in Nat /\ a \in Nat /\ Cardinality({}) = 0
    BY <2>1, FS_CardinalityType, FS_EmptySet
  <2>3. /\ Managed = (Managed \intersect Reserved) \union (Managed \ Reserved)
        /\ (Managed \intersect Reserved) \intersect (Managed \ Reserved) = {}
    OBVIOUS
  <2>4. Cardinality((Managed \intersect Reserved) \union (Managed \ Reserved)) =
          b + c - Cardinality((Managed \intersect Reserved) \intersect (Managed \ Reserved))
    BY <2>1, FS_Union
  <2> QED
    BY <2>2, <2>3, <2>4
<1>4. Frames \ bitmap' = Managed \ Reserved /\ bitmap' \subseteq Frames
  BY <1>1, FrameNumbers
<1>5. PageSize * a = PageSize * b + PageSize * c
  BY <1>3, PagesAdd
<1>6. PageSize * a \in Int /\ PageSize * b \in Int /\ PageSize * c \in Int
  BY <1>3, FrameNumbers
<1>7. {total', used'} \subseteq Int /\ total' - used' = PageSize * Cardinality(Frames \ bitmap')
  <2>1. total' = PageSize * a /\ used' = PageSize * b /\ Cardinality(Frames \ bitmap') = c
    BY <1>1, <1>4
  <2> HIDE DEF a, b, c
  <2> QED
    BY <1>5, <1>6, <2>1
<1>8. FrameTypes'
  BY <1>1, <1>4, <1>7 DEF FramesInv, FrameTypes
<1>9. CountOK'
  BY <1>1, <1>2, <1>7 DEF CountOK
<1>10. UseOK'
  <2>1. TableFrames = {} /\ taken = {} /\ dir = NoFrame
    BY <1>1 DEF FramesInv, UseOK
  <2>2. TableFrames' = {} /\ HeapDone' = {} /\ HeapFrames' = {}
    BY <1>1, <2>1 DEF TableFrames, HeapDone, HeapFrames
  <2> QED
    BY <1>1, <2>1, <2>2 DEF FramesInv, UseOK
<1> QED
  BY <1>8, <1>9, <1>10 DEF FramesInv

\* Steps that take no frame and map no page.
LEMMA PhaseKeeps ==
  ASSUME FramesInv, phase # "pmm", phase' # "pmm",
         UNCHANGED <<map, bitmap, total, used, dir, tables, pages, taken>>, addr' \in Int,
         HeapDone' \subseteq HeapDone,
         phase' = "heap" => \E k \in Nat : addr' = k * PageSize
  PROVE  FramesInv'
<1>1. /\ Managed' = Managed /\ Reserved' = Reserved /\ TableFrames' = TableFrames
      /\ HeapFrames' \subseteq HeapFrames
  BY DEF Managed, UsableRegions, Reserved, TableFrames, HeapFrames
<1>2. FrameTypes'
  BY DEF FramesInv, FrameTypes
<1>3. CountOK'
  BY <1>1 DEF FramesInv, CountOK
<1>4. UseOK'
  BY <1>1 DEF FramesInv, UseOK
<1> QED
  BY <1>2, <1>3, <1>4 DEF FramesInv

LEMMA PanicKeeps == ASSUME FramesInv, phase # "pmm", Panic PROVE FramesInv'
<1>1. /\ phase' = "panic" /\ UNCHANGED <<map, bitmap, total, used, dir, tables, pages, addr, taken>>
  BY DEF Panic
<1>2. HeapDone' = {}
  BY <1>1 DEF HeapDone
<1>3. addr' \in Int
  BY <1>1 DEF FramesInv, FrameTypes
<1> QED
  BY <1>1, <1>2, <1>3, PhaseKeeps

\* One frame is taken for the page directory or for a caller.
LEMMA TakeOneKeeps ==
  ASSUME FramesInv, phase # "pmm", phase' \in {phase, "identity"}, phase \in {"dir", "up"},
         NEW f \in Frames \ bitmap, Taken({f}), UNCHANGED <<map, tables, pages, addr>>,
         \/ dir' = f /\ taken' = taken /\ phase' = "identity"
         \/ dir' = dir /\ taken' = taken \union {f} /\ phase' = phase
  PROVE  FramesInv'
<1>1. {f} \in SUBSET (Frames \ bitmap) /\ phase' # "pmm" /\ phase' # "heap"
  OBVIOUS
<1>2. bitmap' \subseteq Frames /\ {total', used'} \subseteq Int /\ CountOK'
  BY <1>1, TakenCounts
<1>3. bitmap' = bitmap \union {f}
  BY DEF Taken
<1>4. FrameTypes'
  BY <1>2 DEF FramesInv, FrameTypes
<1>5. /\ Managed' = Managed /\ Reserved' = Reserved /\ TableFrames' = TableFrames
      /\ HeapFrames' \subseteq HeapFrames /\ HeapDone' \subseteq HeapDone
  BY DEF Managed, UsableRegions, Reserved, TableFrames, HeapFrames, HeapDone
<1>6. /\ f \in Managed \ Reserved /\ f # NoFrame
      /\ f \notin TableFrames /\ f \notin taken /\ f \notin HeapFrames /\ f # dir
  BY FreeUnused
<1>7. UseOK'
  BY <1>1, <1>3, <1>5, <1>6 DEF FramesInv, UseOK
<1> QED
  BY <1>2, <1>4, <1>7 DEF FramesInv

\* paging_map_page for a page of the identity map or of the frame buffer.
LEMMA MapIdentityKeeps ==
  ASSUME FramesInv, phase \in {"identity", "fb"}, NEW f \in Int, MapPage(f, {})
  PROVE  FramesInv'
<1> DEFINE slot  == (addr \div PageSize) \div TablePages
           page  == addr \div PageSize
           table == FirstFree(bitmap)
<1>1. bitmap \union {} = bitmap
  OBVIOUS
<1>2. CASE tables[slot] = NoFrame /\ table = NoFrame
  <2>1. Panic
    BY <1>1, <1>2 DEF MapPage
  <2> QED
    BY <2>1, PanicKeeps
<1> HIDE DEF slot, page, table
<1>3. CASE ~(tables[slot] = NoFrame /\ table = NoFrame)
  <2> DEFINE new == IF tables[slot] = NoFrame THEN {table} ELSE {}
  <2>1. /\ Taken(new) /\ UNCHANGED <<map, phase, dir, taken>> /\ addr' = addr + PageSize
        /\ tables' = IF tables[slot] = NoFrame THEN [tables EXCEPT ![slot] = table] ELSE tables
        /\ pages' = [pages EXCEPT ![page] = f]
    <3>1. {} \union new = new
      OBVIOUS
    <3> QED
      BY <1>1, <1>3, <3>1 DEF MapPage, slot, page, table
  <2>2. new \in SUBSET (Frames \ bitmap)
    BY <1>3, FirstFreeFacts DEF table
  <2>3. bitmap' \subseteq Frames /\ {total', used'} \subseteq Int /\ CountOK'
    BY <2>1, <2>2, TakenCounts
  <2>4. bitmap' = bitmap \union new
    BY <2>1 DEF Taken
  <2>5. FrameTypes'
    <3>1. tables' \in [Slots -> Frames \union {NoFrame}]
      BY <2>1, <2>2 DEF FramesInv, FrameTypes
    <3>2. pages' \in [Pages -> Int]
      BY <2>1 DEF FramesInv, FrameTypes
    <3>3. addr' \in Int
      <4>1. addr \in Int /\ PageSize \in Int
        BY FrameNumbers DEF FramesInv, FrameTypes
      <4> QED
        BY <2>1, <4>1
    <3> QED
      BY <2>1, <2>3, <3>1, <3>2, <3>3 DEF FramesInv, FrameTypes
  <2>6. /\ Managed' = Managed /\ Reserved' = Reserved /\ HeapDone' = {} /\ HeapFrames' = {}
        /\ phase' = phase /\ HeapDone = {} /\ HeapFrames = {}
    BY <2>1 DEF Managed, UsableRegions, Reserved, HeapDone, HeapFrames
  <2>7. \A g \in new : /\ g \in Managed \ Reserved /\ g # NoFrame
                       /\ g \notin TableFrames /\ g \notin taken /\ g # dir
    BY <2>2, FreeUnused
  <2>8. TableFrames' \subseteq TableFrames \union new
    BY <2>1 DEF TableFrames, FramesInv, FrameTypes
  <2>9. \A s, t \in Slots : s # t /\ tables'[s] # NoFrame => tables'[s] # tables'[t]
    BY <2>1, <2>7 DEF FramesInv, FrameTypes, UseOK, TableFrames
  <2> HIDE DEF new
  <2>10. UseOK'
    BY <2>1, <2>4, <2>6, <2>7, <2>8, <2>9 DEF FramesInv, UseOK
  <2> QED
    BY <2>3, <2>5, <2>10 DEF FramesInv
<1> QED
  BY <1>2, <1>3

LEMMA PageOrder ==
  ASSUME NEW i \in Int, NEW j \in Int
  PROVE  i * PageSize < j * PageSize <=> i < j
<1>1. PageSize \in Nat /\ PageSize >= 1
  BY FrameNumbers
<1>2. ASSUME NEW a \in Int, NEW b \in Int, a < b PROVE a * PageSize < b * PageSize
  <2>1. (b - a) * PageSize >= PageSize
    BY <1>1, <1>2
  <2>2. (b - a) * PageSize = b * PageSize - a * PageSize
    BY <1>1
  <2>3. a * PageSize \in Int /\ b * PageSize \in Int
    BY <1>1
  <2> QED
    BY <1>1, <2>1, <2>2, <2>3
<1>3. i * PageSize \in Int /\ j * PageSize \in Int
  BY <1>1
<1>4. i < j \/ i = j \/ j < i
  OBVIOUS
<1> QED
  BY <1>2, <1>3, <1>4

LEMMA PageOf ==
  ASSUME NEW k \in Nat
  PROVE  /\ (k * PageSize) \div PageSize = k
         /\ k * PageSize + PageSize = (k + 1) * PageSize
<1>1. PageSize \in Nat /\ PageSize >= 1 /\ PageSize # 0
  BY FrameNumbers
<1> DEFINE n == k * PageSize
           q == n \div PageSize
           r == n % PageSize
<1>2. n \in Nat
  BY <1>1
<1>3. n = PageSize * q + r /\ r \in 0 .. PageSize - 1 /\ q \in Int
  <2> HIDE DEF n
  <2> QED
    BY <1>1, <1>2
<1> HIDE DEF q, r
<1>4. q * PageSize <= n /\ n < (q + 1) * PageSize
  <2>1. q * PageSize = PageSize * q /\ (q + 1) * PageSize = PageSize * q + PageSize
    BY <1>1, <1>3
  <2>2. PageSize * q \in Int
    BY <1>1, <1>3
  <2> HIDE DEF n
  <2> QED
    BY <1>1, <1>2, <1>3, <2>1, <2>2
<1>5. k < q + 1
  BY <1>3, <1>4, PageOrder
<1>6. ~(k < q)
  <2>1. ~(n < q * PageSize)
    BY <1>1, <1>2, <1>3, <1>4
  <2> QED
    BY <1>3, <2>1, PageOrder
<1>7. q = k
  BY <1>3, <1>5, <1>6
<1> QED
  BY <1>1, <1>7 DEF q

\* heap_init maps its next page to a frame of its own.
LEMMA MapHeapKeeps ==
  ASSUME FramesInv, phase = "heap", NEW f, f = FirstFree(bitmap), f # NoFrame, MapPage(f, {f})
  PROVE  FramesInv'
<1>1. PICK k \in Nat : addr = k * PageSize
  BY DEF FramesInv, UseOK
<1>2. addr \div PageSize = k
  BY <1>1, PageOf
<1> DEFINE slot  == k \div TablePages
           table == FirstFree(bitmap \union {f})
<1>3. CASE tables[slot] = NoFrame /\ table = NoFrame
  <2>1. Panic
    BY <1>2, <1>3 DEF MapPage
  <2> QED
    BY <2>1, PanicKeeps
<1> HIDE DEF slot, table
<1>4. CASE ~(tables[slot] = NoFrame /\ table = NoFrame)
  <2> DEFINE extra == IF tables[slot] = NoFrame THEN {table} ELSE {}
             new   == {f} \union extra
  <2>1. /\ Taken(new) /\ UNCHANGED <<map, phase, dir, taken>> /\ addr' = addr + PageSize
        /\ tables' = IF tables[slot] = NoFrame THEN [tables EXCEPT ![slot] = table] ELSE tables
        /\ pages' = [pages EXCEPT ![k] = f]
    BY <1>2, <1>4 DEF MapPage, slot, table
  <2>2. f \in Frames \ bitmap
    BY FirstFreeFacts
  <2>3. extra \in SUBSET (Frames \ bitmap) /\ f \notin extra
    BY <1>4, FirstFreeFacts DEF table
  <2>4. new \in SUBSET (Frames \ bitmap)
    BY <2>2, <2>3
  <2>5. bitmap' \subseteq Frames /\ {total', used'} \subseteq Int /\ CountOK'
    BY <2>1, <2>4, TakenCounts
  <2>6. bitmap' = bitmap \union new
    BY <2>1 DEF Taken
  <2>7. addr' = (k + 1) * PageSize /\ k + 1 \in Nat /\ addr' \in Int
    <3>1. addr' = (k + 1) * PageSize /\ k + 1 \in Nat
      BY <1>1, <2>1, PageOf
    <3>2. PageSize \in Int
      BY FrameNumbers
    <3> QED
      BY <3>1, <3>2
  <2>8. FrameTypes'
    <3>1. tables' \in [Slots -> Frames \union {NoFrame}]
      BY <2>1, <2>3 DEF FramesInv, FrameTypes
    <3>2. f \in Int
      BY <2>2, FrameNumbers
    <3>3. pages' \in [Pages -> Int]
      BY <2>1, <3>2 DEF FramesInv, FrameTypes
    <3> QED
      BY <2>1, <2>5, <2>7, <3>1, <3>3 DEF FramesInv, FrameTypes
  <2>9. Managed' = Managed /\ Reserved' = Reserved /\ phase' = "heap"
    BY <2>1 DEF Managed, UsableRegions, Reserved
  <2>10. \A g \in new : /\ g \in Managed \ Reserved /\ g # NoFrame
                        /\ g \notin TableFrames /\ g \notin taken /\ g \notin HeapFrames /\ g # dir
    BY <2>4, FreeUnused
  <2>11. TableFrames' \subseteq TableFrames \union extra
    BY <2>1 DEF TableFrames, FramesInv, FrameTypes
  <2>12. \A s, t \in Slots : s # t /\ tables'[s] # NoFrame => tables'[s] # tables'[t]
    BY <2>1, <2>10 DEF FramesInv, FrameTypes, UseOK, TableFrames
  <2>13. \A p \in HeapDone' : (p \in HeapDone /\ pages'[p] = pages[p]) \/ (p = k /\ pages'[p] = f)
    <3> SUFFICES ASSUME NEW p \in HeapDone'
                 PROVE  (p \in HeapDone /\ pages'[p] = pages[p]) \/ (p = k /\ pages'[p] = f)
      OBVIOUS
    <3>1. p \in HeapPages /\ p * PageSize < (k + 1) * PageSize /\ p \in Pages
      BY <2>7, <2>9 DEF HeapDone, HeapPages
    <3>2. p \in Int
      BY <3>1 DEF Pages
    <3>3. p < k + 1
      BY <2>7, <3>1, <3>2, PageOrder
    <3>4. CASE p = k
      BY <2>1, <3>1, <3>4 DEF FramesInv, FrameTypes
    <3>5. CASE p # k
      <4>1. p * PageSize < addr
        BY <1>1, <3>2, <3>3, <3>5, PageOrder
      <4>2. p \in HeapDone
        BY <3>1, <4>1 DEF HeapDone
      <4> QED
        BY <2>1, <3>1, <3>5, <4>2 DEF FramesInv, FrameTypes
    <3> QED
      BY <3>4, <3>5
  <2>14. HeapFrames' \subseteq HeapFrames \union {f}
    BY <2>13 DEF HeapFrames
  <2>15. \A p, q \in HeapDone' : p # q => pages'[p] # pages'[q]
    <3>1. \A p \in HeapDone : pages[p] # f
      BY <2>10 DEF HeapFrames
    <3>2. \A p, q \in HeapDone : p # q => pages[p] # pages[q]
      BY DEF FramesInv, UseOK
    <3> QED
      BY <2>13, <3>1, <3>2
  <2>16. TableFrames' \union taken' \union HeapFrames' \union ({dir'} \ {NoFrame})
           \subseteq (Managed' \ Reserved') \intersect bitmap'
    BY <2>1, <2>6, <2>9, <2>10, <2>11, <2>14 DEF FramesInv, UseOK
  <2>17. /\ TableFrames' \intersect (taken' \union HeapFrames' \union {dir'}) = {}
         /\ taken' \intersect (HeapFrames' \union {dir'}) = {}
         /\ dir' \notin HeapFrames'
    BY <2>1, <2>3, <2>10, <2>11, <2>14 DEF FramesInv, UseOK
  <2> HIDE DEF new, extra
  <2>18. UseOK'
    BY <2>7, <2>9, <2>12, <2>15, <2>16, <2>17 DEF UseOK
  <2> QED
    BY <2>5, <2>8, <2>18 DEF FramesInv
<1> QED
  BY <1>3, <1>4

-----------------------------------------------------------------------------
(* Every step.                                                             *)

LEMMA Addresses ==
  /\ {IdentityLimit, FbStart, FbEnd, HeapStart, HeapSize} \subseteq Nat
  /\ \A x \in {IdentityLimit, FbStart, FbEnd, HeapStart, HeapSize} : \E k \in Nat : x = k * PageSize
<1>0. WordSize \in Nat /\ PageSize \in Nat \ {0}
  BY FrameNumbers, HeapAssumption
<1>1. WordSize \div PageSize \in Int
  BY <1>0
<1>2. ASSUME NEW x \in {PageSize * k : k \in 0 .. WordSize \div PageSize}
      PROVE  x \in Nat /\ \E k \in Nat : x = k * PageSize
  <2>1. PICK k \in 0 .. WordSize \div PageSize : x = PageSize * k
    OBVIOUS
  <2>2. k \in Nat /\ PageSize \in Nat
    BY <1>1, FrameNumbers
  <2>3. PageSize * k = k * PageSize /\ PageSize * k \in Nat
    BY <2>2
  <2> QED
    BY <2>1, <2>2, <2>3
<1> QED
  BY <1>2, MemoryAssumption

LEMMA PagingInitKeeps == ASSUME FramesInv, PagingInit PROVE FramesInv'
<1>1. CASE FirstFree(bitmap) = NoFrame
  BY <1>1, PanicKeeps DEF PagingInit
<1>2. CASE FirstFree(bitmap) # NoFrame
  BY <1>2, FirstFreeFacts, TakeOneKeeps DEF PagingInit
<1> QED
  BY <1>1, <1>2

LEMMA IdentityStepKeeps == ASSUME FramesInv, IdentityStep PROVE FramesInv'
<1>1. addr \div PageSize \in Int
  BY FrameNumbers DEF FramesInv, FrameTypes
<1>2. CASE phase = "identity" /\ MapPage(addr \div PageSize, {})
  BY <1>1, <1>2, MapIdentityKeeps
<1>3. CASE Loop("identity", IdentityLimit, "fb", FbStart)
  <2>1. HeapDone' = {} /\ addr' \in Int
    BY <1>3, Addresses DEF Loop, HeapDone
  <2> QED
    BY <1>3, <2>1, PhaseKeeps DEF Loop
<1> QED
  BY <1>2, <1>3 DEF IdentityStep

LEMMA FbStepKeeps == ASSUME FramesInv, FbStep PROVE FramesInv'
<1>1. addr \div PageSize \in Int
  BY FrameNumbers DEF FramesInv, FrameTypes
<1>2. CASE phase = "fb" /\ MapPage(addr \div PageSize, {})
  BY <1>1, <1>2, MapIdentityKeeps
<1>3. CASE Loop("fb", IF FbNeeded THEN FbEnd ELSE 0, "heap", HeapStart)
  <2>1. phase = "fb" /\ phase' = "heap" /\ addr' = HeapStart
        /\ UNCHANGED <<map, bitmap, total, used, dir, tables, pages, taken>>
    BY <1>3 DEF Loop
  <2>2. HeapDone' = {}
    <3>1. \A p \in HeapPages : ~(p * PageSize < HeapStart)
      <4> SUFFICES ASSUME NEW p \in HeapPages PROVE ~(p * PageSize < HeapStart)
        OBVIOUS
      <4>1. p \in Int /\ HeapStart <= p * PageSize
        BY DEF HeapPages, Pages
      <4>2. p * PageSize \in Int /\ HeapStart \in Int
        BY <4>1, FrameNumbers, Addresses
      <4> QED
        BY <4>1, <4>2
    <3> QED
      BY <2>1, <3>1 DEF HeapDone
  <2> QED
    BY <2>1, <2>2, Addresses, PhaseKeeps
<1> QED
  BY <1>2, <1>3 DEF FbStep

LEMMA HeapStepKeeps == ASSUME FramesInv, HeapStep PROVE FramesInv'
<1> DEFINE f == FirstFree(bitmap)
<1>1. CASE phase = "heap" /\ f = NoFrame /\ Panic
  BY <1>1, PanicKeeps
<1>2. CASE phase = "heap" /\ f # NoFrame /\ MapPage(f, {f})
  BY <1>2, MapHeapKeeps
<1>3. CASE Loop("heap", HeapStart + HeapSize, "up", 0)
  <2>1. /\ phase = "heap" /\ phase' = "up" /\ addr >= HeapStart + HeapSize /\ addr' = 0
        /\ UNCHANGED <<map, bitmap, total, used, dir, tables, pages, taken>>
    BY <1>3 DEF Loop
  <2>2. \A p \in HeapPages : p * PageSize < addr
    <3> SUFFICES ASSUME NEW p \in HeapPages PROVE p * PageSize < addr
      OBVIOUS
    <3>1. p \in Int /\ p * PageSize < HeapStart + HeapSize
      BY DEF HeapPages, Pages
    <3>2. p * PageSize \in Int /\ HeapStart + HeapSize \in Int /\ addr \in Int
      BY <3>1, FrameNumbers, Addresses DEF FramesInv, FrameTypes
    <3> QED
      BY <2>1, <3>1, <3>2
  <2>3. HeapDone' \subseteq HeapDone
    BY <2>1, <2>2 DEF HeapDone
  <2> QED
    BY <2>1, <2>3, PhaseKeeps
<1> QED
  BY <1>1, <1>2, <1>3 DEF HeapStep

LEMMA AllocFrameKeeps == ASSUME FramesInv, AllocFrame PROVE FramesInv'
<1>1. CASE FirstFree(bitmap) = NoFrame
  BY <1>1, PanicKeeps DEF AllocFrame
<1>2. CASE FirstFree(bitmap) # NoFrame
  BY <1>2, FirstFreeFacts, TakeOneKeeps DEF AllocFrame
<1> QED
  BY <1>1, <1>2

\* The count of bytes in use does not fall below the frame that is given back, so
\* pmm_free_frame always lowers it.
LEMMA FreeFrameKeeps ==
  ASSUME FramesInv, NEW f \in Frames, FreeFrame(f)
  PROVE  FramesInv'
<1>1. /\ phase = "up" /\ phase' = "up" /\ f \in taken /\ f \in bitmap /\ bitmap' = bitmap \ {f}
      /\ used' = (IF used >= PageSize THEN used - PageSize ELSE used)
      /\ taken' = taken \ {f} /\ UNCHANGED <<map, total, dir, tables, pages, addr>>
  BY DEF FreeFrame
<1>2. /\ Managed' = Managed /\ Reserved' = Reserved /\ TableFrames' = TableFrames
      /\ HeapFrames' = HeapFrames /\ HeapDone' = HeapDone
  BY <1>1 DEF Managed, UsableRegions, Reserved, TableFrames, HeapFrames, HeapDone
<1>3. /\ f \in Managed \ Reserved /\ f \notin TableFrames /\ f \notin HeapFrames /\ f # dir
      /\ f # NoFrame
  BY <1>1, FrameNumbers DEF FramesInv, UseOK
<1> DEFINE free == Frames \ bitmap
           n == Cardinality(free)
           m == Cardinality(Managed)
<1>4. Cardinality(Frames \ bitmap') = n + 1 /\ n \in Nat
  <2>1. Frames \ bitmap' = free \union {f} /\ f \notin free
    BY <1>1
  <2>2. IsFiniteSet(free)
    BY FrameNumbers, FS_Subset
  <2> QED
    BY <2>1, <2>2, FS_AddElement, FS_CardinalityType
<1>5. n + 1 <= m /\ m \in Nat
  <2>1. Frames \ bitmap' \subseteq Managed /\ IsFiniteSet(Managed)
    <3>1. free \subseteq Managed
      BY <1>1 DEF FramesInv, CountOK
    <3>2. Frames \ bitmap' = free \union {f}
      BY <1>1
    <3> QED
      BY <1>3, <3>1, <3>2, FrameNumbers, FS_Subset
  <2>2. Cardinality(Frames \ bitmap') <= m /\ m \in Nat
    BY <2>1, FS_Subset, FS_CardinalityType
  <2> QED
    BY <1>4, <2>2
<1>6. total = PageSize * m /\ total - used = PageSize * n /\ total \in Int /\ used \in Int
  BY <1>1 DEF FramesInv, FrameTypes, CountOK
<1> HIDE DEF free, n, m
<1>7. total - used' = PageSize * (n + 1) /\ used' \in Int
  <2>1. PageSize \in Nat
    BY FrameNumbers
  <2>2. PICK d \in Nat : m = (n + 1) + d
    <3>1. m - (n + 1) \in Nat /\ m = (n + 1) + (m - (n + 1))
      BY <1>4, <1>5
    <3> QED
      BY <3>1
  <2>3. /\ PageSize * m = PageSize * (n + 1) + PageSize * d
        /\ PageSize * (n + 1) = PageSize * n + PageSize * 1
    BY <1>4, <2>2, PagesAdd
  <2>4. PageSize * n \in Nat /\ PageSize * d \in Nat /\ PageSize * 1 = PageSize
    BY <1>4, <2>1, <2>2
  <2>5. PageSize * (n + 1) \in Nat
    BY <2>1, <2>3, <2>4
  <2>6. used >= PageSize
    BY <1>6, <2>1, <2>3, <2>4, <2>5
  <2> QED
    BY <1>1, <1>6, <2>1, <2>3, <2>4, <2>5, <2>6
<1>8. FrameTypes'
  BY <1>1, <1>7 DEF FramesInv, FrameTypes
<1>9. CountOK'
  BY <1>1, <1>2, <1>3, <1>4, <1>6, <1>7 DEF FramesInv, CountOK, m
<1>10. UseOK'
  BY <1>1, <1>2, <1>3 DEF FramesInv, UseOK
<1> QED
  BY <1>8, <1>9, <1>10 DEF FramesInv

LEMMA MemStep == ASSUME FramesInv, [KernelNext]_kernelVars PROVE FramesInv'
<1>1. CASE MemNext
  BY <1>1, PmmInitKeeps, PagingInitKeeps, IdentityStepKeeps, FbStepKeeps, HeapStepKeeps,
     AllocFrameKeeps, FreeFrameKeeps DEF MemNext
<1>2. CASE UNCHANGED memVars
  <2>1. UNCHANGED <<map, phase, bitmap, total, used, dir, tables, pages, addr, taken>>
    BY <1>2 DEF memVars
  <2>2. /\ Managed' = Managed /\ Reserved' = Reserved /\ TableFrames' = TableFrames
        /\ HeapFrames' = HeapFrames /\ HeapDone' = HeapDone
    BY <2>1 DEF Managed, UsableRegions, Reserved, TableFrames, HeapFrames, HeapDone
  <2>3. FrameTypes' /\ CountOK'
    BY <2>1, <2>2 DEF FramesInv, FrameTypes, CountOK
  <2>4. UseOK'
    BY <2>1, <2>2 DEF FramesInv, UseOK
  <2> QED
    BY <2>3, <2>4 DEF FramesInv
<1> QED
  BY <1>1, <1>2 DEF KernelNext, kernelVars

-----------------------------------------------------------------------------
(* The theorems.                                                           *)

LEMMA FramesInit == KernelInit => FramesInv
<1> SUFFICES ASSUME MemInit PROVE FramesInv
  BY DEF KernelInit
<1>1. FrameTypes /\ phase = "pmm"
  <2>1. NoFrame \in Int
    BY DEF NoFrame
  <2>2. pages \in [Pages -> Int] /\ tables \in [Slots -> Frames \union {NoFrame}]
    BY <2>1 DEF MemInit
  <2> QED
    BY <2>2 DEF MemInit, FrameTypes
<1>2. TableFrames = {} /\ HeapDone = {} /\ HeapFrames = {}
  BY DEF MemInit, TableFrames, HeapDone, HeapFrames
<1> QED
  BY <1>1, <1>2 DEF MemInit, FramesInv, CountOK, UseOK

\* The invariant holds from the firmware's map on, through the boot and for as
\* long as the kernel takes and returns frames.
THEOREM FramesInvariance == KernelSpec => []FramesInv
<1>1. KernelInit => FramesInv
  BY FramesInit
<1>2. FramesInv /\ [KernelNext]_kernelVars => FramesInv'
  BY MemStep
<1> QED
  BY <1>1, <1>2, PTL DEF KernelSpec

\* FramesAccounted: pmm.c's count of free bytes is exact, and the directory, the
\* tables, the heap and the callers never share a frame or use one that pmm_init
\* reserved or did not count as memory.
THEOREM FramesAccountedCorrect == KernelSpec => []FramesAccounted
<1>1. FramesInv => FramesAccounted
  <2> SUFFICES ASSUME FramesInv PROVE FramesAccounted
    OBVIOUS
  <2>1. FreeBytesExact
    BY DEF FramesInv, CountOK, FreeBytesExact
  <2>2. FramesUsedOnce
    <3>1. phase = "up" => HeapDone = HeapPages /\ HeapFrames = {pages[p] : p \in HeapPages}
      BY DEF HeapDone, HeapFrames
    <3>2. phase = "up" =>
            /\ \A p, q \in HeapPages : p # q => pages[p] # pages[q]
            /\ {pages[p] : p \in HeapPages} \intersect (TableFrames \union taken \union {dir}) = {}
      BY <3>1 DEF FramesInv, UseOK
    <3>3. TableFrames \intersect (taken \union {dir}) = {} /\ dir \notin taken
      BY DEF FramesInv, UseOK
    <3> QED
      BY <3>2, <3>3 DEF FramesInv, UseOK, FramesUsedOnce
  <2> QED
    BY <2>1, <2>2 DEF FramesAccounted
<1> QED
  BY <1>1, FramesInvariance, PTL

-----------------------------------------------------------------------------
(* Where the page tables lie.                                              *)

\* Directory slots of the heap that the identity map or the frame buffer has a
\* table for.  The heap of this kernel lies inside the identity map.
HeapCovered ==
  \A p \in HeapPages : \E q \in Pages :
    /\ q \div TablePages = p \div TablePages
    /\ \/ q * PageSize < IdentityLimit
       \/ FbNeeded /\ FbStart <= q * PageSize /\ q * PageSize < FbEnd

\* Memory below the heap and inside the identity map, and enough of it for the
\* directory and a table in each of its slots.
LowFrames ==
  {f \in Managed \ Reserved : f * PageSize < IdentityLimit /\ f * PageSize < HeapStart}
EnoughLow == Cardinality(LowFrames) > Cardinality(Slots)

\* pmm_alloc_frame goes upwards, so the directory and the tables are low; paging_init
\* has mapped all pages up to addr to themselves, in slots that have a table now.
LowOK ==
  /\ phase \in {"pmm", "dir"} => addr = 0 /\ dir = NoFrame /\ TableFrames = {}
  /\ phase \in {"identity", "fb", "heap", "up"} => dir \in LowFrames
  /\ TableFrames \subseteq LowFrames
  /\ phase \in {"dir", "identity", "fb"} =>
       (Managed \ Reserved) \intersect bitmap \subseteq {dir} \union TableFrames

HasTable(p) == tables[p \div TablePages] # NoFrame

MappedOK ==
  /\ phase \in {"identity", "fb", "heap"} => \E k \in Nat : addr = k * PageSize
  /\ phase = "identity" =>
       \A p \in Pages : p * PageSize < addr => HasTable(p) /\ pages[p] = p
  /\ phase \in {"fb", "heap", "up"} =>
       \A p \in Pages : p * PageSize < IdentityLimit =>
         HasTable(p) /\ (p * PageSize < HeapStart => pages[p] = p)
  /\ phase = "fb" =>
       /\ addr >= FbStart
       /\ \A p \in Pages : FbStart <= p * PageSize /\ p * PageSize < addr
                             /\ FbNeeded /\ p * PageSize < FbEnd => HasTable(p)
  /\ phase = "heap" =>
       /\ addr >= HeapStart
       /\ \A p \in Pages : FbStart <= p * PageSize /\ FbNeeded /\ p * PageSize < FbEnd => HasTable(p)

ReachInv == FramesInv /\ EnoughLow /\ LowOK /\ MappedOK

\* Division rounds down and is monotonic.
LEMMA DivGrows ==
  ASSUME NEW d \in Nat \ {0}, NEW a \in Nat, NEW b \in Nat, a <= b
  PROVE  a \div d \in Nat /\ b \div d \in Nat /\ a \div d <= b \div d
<1>1. ASSUME NEW x \in Nat
      PROVE  /\ x \div d \in Nat /\ d * (x \div d) <= x /\ x < d * (x \div d) + d
  OBVIOUS
<1> DEFINE q == a \div d
           r == b \div d
<1>2. /\ q \in Nat /\ d * q <= a /\ a < d * q + d
      /\ r \in Nat /\ d * r <= b /\ b < d * r + d
  BY <1>1
<1> HIDE DEF q, r
<1>3. ASSUME r + 1 <= q PROVE FALSE
  <2>1. PICK e \in Nat : q = r + 1 + e
    <3>1. q - (r + 1) \in Nat /\ q = r + 1 + (q - (r + 1))
      BY <1>2, <1>3
    <3> QED
      BY <3>1
  <2>2. d * q = d * r + d + d * e /\ d * e \in Nat /\ d * r \in Nat
    BY <1>2, <2>1
  <2>3. d * q \in Nat /\ d * q >= d * r + d
    BY <2>2
  <2> QED
    BY <1>2, <2>3
<1> QED
  BY <1>2, <1>3 DEF q, r

LEMMA MaxOfThree ==
  ASSUME NEW a \in Nat, NEW b \in Nat, NEW c \in Nat
  PROVE  LET m == Max({a, b, c}) IN m \in Nat /\ a <= m /\ b <= m /\ c <= m
<1>1. \E x \in {a, b, c} : \A y \in {a, b, c} : x >= y
  OBVIOUS
<1>2. Max({a, b, c}) \in {a, b, c} /\ \A y \in {a, b, c} : Max({a, b, c}) >= y
  BY <1>1, Zenon DEF Max
<1> HIDE DEF Max
<1> QED
  BY <1>2

LEMMA MaxOfInterval == ASSUME NEW n \in Nat PROVE Max(0 .. n) = n
<1>1. n \in 0 .. n /\ \A y \in 0 .. n : n >= y
  OBVIOUS
<1>2. Max(0 .. n) \in 0 .. n /\ \A y \in 0 .. n : Max(0 .. n) >= y
  BY <1>1, Zenon DEF Max
<1> QED
  BY <1>1, <1>2

\* The directory has a slot for every page, and there is a page below each of the
\* three ends.
LEMMA PagesThere ==
  /\ \A p \in Pages : p \in Nat /\ p \div TablePages \in Slots
  /\ \A k \in Nat, end \in {IdentityLimit, FbEnd, HeapStart + HeapSize} :
       k * PageSize < end => k \in Pages
  /\ IsFiniteSet(Slots)
<1> DEFINE m == Max({IdentityLimit, FbEnd, HeapStart + HeapSize})
           n == m \div PageSize
<1>1. /\ IdentityLimit \in Nat /\ FbEnd \in Nat /\ HeapStart + HeapSize \in Nat
      /\ PageSize \in Nat \ {0} /\ TablePages \in Nat \ {0}
  <2>1. TablePages \in Nat \ {0}
    BY MemoryAssumption
  <2> QED
    BY <2>1, Addresses, FrameNumbers
<1>2. /\ m \in Nat
      /\ \A end \in {IdentityLimit, FbEnd, HeapStart + HeapSize} : end \in Nat /\ end <= m
  BY <1>1, MaxOfThree
<1>3. Pages = 0 .. n
  BY DEF Pages
<1> HIDE DEF m
<1>4. n \in Nat
  BY <1>1, <1>2, DivGrows
<1>5. Slots = 0 .. n \div TablePages
  BY <1>3, <1>4, MaxOfInterval DEF Slots
<1>6. ASSUME NEW k \in Nat, NEW end \in {IdentityLimit, FbEnd, HeapStart + HeapSize},
             k * PageSize < end
      PROVE  k \in Pages
  <2>1. k * PageSize \in Nat /\ k * PageSize <= m
    BY <1>1, <1>2, <1>6
  <2>2. (k * PageSize) \div PageSize <= n
    BY <1>1, <1>2, <2>1, DivGrows
  <2>3. k <= n
    BY <2>2, PageOf
  <2> HIDE DEF n
  <2> QED
    BY <1>3, <1>4, <2>3
<1> HIDE DEF n
<1>7. ASSUME NEW p \in Pages
      PROVE  p \in Nat /\ p \div TablePages \in Slots
  <2>1. p \in Nat /\ p <= n
    BY <1>3, <1>4
  <2>2. p \div TablePages \in Nat /\ p \div TablePages <= n \div TablePages /\ n \div TablePages \in Nat
    BY <1>1, <1>4, <2>1, DivGrows
  <2> QED
    BY <1>5, <2>1, <2>2
<1>8. IsFiniteSet(Slots)
  <2>1. n \div TablePages \in Nat
    BY <1>1, <1>4, DivGrows
  <2>2. n \div TablePages \in Int /\ 0 \in Int
    BY <2>1
  <2> QED
    BY <1>5, <2>2, FS_Interval
<1> QED
  BY <1>6, <1>7, <1>8

\* A frame below a low one is low if it is memory at all; low frames have pages.
LEMMA LowFacts ==
  /\ \A f \in LowFrames : f \in Pages /\ f \in Frames /\ f # NoFrame
  /\ \A g \in LowFrames, f \in Managed \ Reserved : f <= g => f \in LowFrames
<1>0. PageSize \in Nat \ {0} /\ IdentityLimit \in Nat /\ HeapStart \in Nat
  BY FrameNumbers, Addresses
<1>1. ASSUME NEW f \in LowFrames PROVE f \in Pages /\ f \in Frames /\ f # NoFrame
  <2>1. f \in Frames /\ f \in Nat /\ f # NoFrame /\ f * PageSize < IdentityLimit
    BY FrameNumbers DEF LowFrames
  <2> QED
    BY <2>1, PagesThere
<1>2. ASSUME NEW g \in LowFrames, NEW f \in Managed \ Reserved, f <= g PROVE f \in LowFrames
  <2>1. f \in Nat /\ g \in Nat /\ g * PageSize < IdentityLimit /\ g * PageSize < HeapStart
    BY FrameNumbers DEF LowFrames
  <2>2. ~(g * PageSize < f * PageSize)
    BY <1>2, <2>1, PageOrder
  <2>3. f * PageSize \in Nat /\ g * PageSize \in Nat
    BY <1>0, <2>1
  <2>4. f * PageSize < IdentityLimit /\ f * PageSize < HeapStart
    BY <1>0, <2>1, <2>2, <2>3
  <2> QED
    BY <2>4 DEF LowFrames
<1> QED
  BY <1>1, <1>2

\* While a low frame is free, the one pmm_alloc_frame finds is low.
LEMMA FirstFreeLow ==
  ASSUME FramesInv, phase # "pmm", NEW g \in LowFrames, g \notin bitmap
  PROVE  FirstFree(bitmap) \in LowFrames
<1>1. g \in Frames \ bitmap /\ Frames \ bitmap \in SUBSET Nat /\ Frames \ bitmap # {}
  BY LowFacts, FrameNumbers
<1>2. FirstFree(bitmap) \in Frames \ bitmap /\ FirstFree(bitmap) <= g
  BY <1>1, LeastOf DEF FirstFree
<1>3. FirstFree(bitmap) \in Managed \ Reserved
  BY <1>2 DEF FramesInv, CountOK
<1> QED
  BY <1>2, <1>3, LowFacts

\* A slot without a table leaves a low frame free: the directory and the other
\* tables are too few for all of them.
LEMMA LowFrameLeft ==
  ASSUME FramesInv, EnoughLow, LowOK, phase \in {"identity", "fb"},
         NEW s \in Slots, tables[s] = NoFrame
  PROVE  \E g \in LowFrames : g \notin bitmap
<1> SUFFICES ASSUME \A g \in LowFrames : g \in bitmap PROVE FALSE
  OBVIOUS
<1> DEFINE h == [t \in Slots |-> IF t = s THEN dir ELSE tables[t]]
           R == {h[t] : t \in Slots}
<1>1. LowFrames \subseteq {dir} \union TableFrames
  BY DEF LowOK, LowFrames
<1>2. LowFrames \subseteq R
  <2> SUFFICES ASSUME NEW g \in LowFrames PROVE g \in R
    OBVIOUS
  <2>1. CASE g = dir
    BY <2>1
  <2>2. CASE g \in TableFrames
    <3>1. PICK t \in Slots : tables[t] = g /\ tables[t] # NoFrame
      BY <2>2 DEF TableFrames
    <3>2. t # s /\ h[t] = g
      BY <3>1
    <3> QED
      BY <3>2
  <2> QED
    BY <1>1, <2>1, <2>2
<1>3. h \in Surjection(Slots, R)
  BY DEF Surjection
<1> HIDE DEF h
<1>4. IsFiniteSet(R) /\ Cardinality(R) <= Cardinality(Slots)
  BY <1>3, PagesThere, FS_Surjection
<1> HIDE DEF R
<1>5. IsFiniteSet(LowFrames) /\ Cardinality(LowFrames) <= Cardinality(R)
  BY <1>2, <1>4, FS_Subset
<1>6. Cardinality(R) \in Nat /\ Cardinality(LowFrames) \in Nat
  BY <1>4, <1>5, FS_CardinalityType
<1>7. Cardinality(Slots) \in Nat
  BY PagesThere, FS_CardinalityType
<1> QED
  BY <1>4, <1>5, <1>6, <1>7 DEF EnoughLow

-----------------------------------------------------------------------------
(* The boot, once more.                                                    *)

\* What paging_map_page does to the page at addr.
LEMMA MapPageFacts ==
  ASSUME FramesInv, NEW f, NEW new, NEW k \in Nat, addr = k * PageSize, MapPage(f, new)
  PROVE  \/ Panic
         \/ /\ addr' = (k + 1) * PageSize /\ pages' = [pages EXCEPT ![k] = f]
            /\ UNCHANGED <<map, phase, dir, taken>>
            /\ IF tables[k \div TablePages] = NoFrame
               THEN LET table == FirstFree(bitmap \union new)
                    IN /\ table # NoFrame /\ tables' = [tables EXCEPT ![k \div TablePages] = table]
                       /\ bitmap' = bitmap \union new \union {table}
               ELSE tables' = tables /\ bitmap' = bitmap \union new
<1>1. addr \div PageSize = k /\ k * PageSize + PageSize = (k + 1) * PageSize
  BY PageOf
<1> DEFINE slot  == k \div TablePages
           table == FirstFree(bitmap \union new)
<1>2. IF tables[slot] = NoFrame /\ table = NoFrame THEN Panic
      ELSE /\ Taken(new \union (IF tables[slot] = NoFrame THEN {table} ELSE {}))
           /\ tables' = IF tables[slot] = NoFrame THEN [tables EXCEPT ![slot] = table] ELSE tables
           /\ pages' = [pages EXCEPT ![k] = f]
           /\ addr' = addr + PageSize
           /\ UNCHANGED <<map, phase, dir, taken>>
  BY <1>1 DEF MapPage
<1> HIDE DEF slot, table
<1>3. ASSUME ~(tables[slot] = NoFrame /\ table = NoFrame)
      PROVE  bitmap' = bitmap \union new \union (IF tables[slot] = NoFrame THEN {table} ELSE {})
  BY <1>2, <1>3 DEF Taken
<1>4. CASE tables[slot] = NoFrame
  BY <1>1, <1>2, <1>3, <1>4 DEF slot, table
<1>5. CASE tables[slot] # NoFrame
  BY <1>1, <1>2, <1>3, <1>5 DEF slot, table
<1> QED
  BY <1>4, <1>5

\* A page of the identity map or of the frame buffer is mapped to itself, and a
\* new table is low.
LEMMA MapIdentityLow ==
  ASSUME ReachInv, phase \in {"identity", "fb"}, NEW k \in Nat, addr = k * PageSize,
         k \in Pages, MapPage(k, {})
  PROVE  \/ phase' = "panic" /\ TableFrames' = TableFrames
         \/ /\ addr' = (k + 1) * PageSize /\ phase' = phase
            /\ \A p \in Pages : pages[p] = p => pages'[p] = p
            /\ \A p \in Pages : HasTable(p) => HasTable(p)'
            /\ pages'[k] = k /\ HasTable(k)'
            /\ LowOK'
<1> DEFINE slot  == k \div TablePages
           table == FirstFree(bitmap)
<1>0. slot \in Slots /\ FramesInv /\ EnoughLow /\ LowOK /\ bitmap \union {} = bitmap
  BY PagesThere DEF ReachInv
<1>1. CASE Panic
  BY <1>1 DEF Panic, TableFrames
<1>2. CASE ~Panic
  <2>0. \/ Panic
        \/ /\ addr' = (k + 1) * PageSize /\ pages' = [pages EXCEPT ![k] = k]
           /\ UNCHANGED <<map, phase, dir, taken>>
           /\ IF tables[k \div TablePages] = NoFrame
              THEN LET free == FirstFree(bitmap \union {})
                   IN /\ free # NoFrame
                      /\ tables' = [tables EXCEPT ![k \div TablePages] = free]
                      /\ bitmap' = bitmap \union {} \union {free}
              ELSE tables' = tables /\ bitmap' = bitmap \union {}
    BY <1>0, MapPageFacts
  <2>1. /\ addr' = (k + 1) * PageSize /\ pages' = [pages EXCEPT ![k] = k]
        /\ UNCHANGED <<map, phase, dir, taken>>
        /\ IF tables[slot] = NoFrame
           THEN /\ table # NoFrame /\ tables' = [tables EXCEPT ![slot] = table]
                /\ bitmap' = bitmap \union {table}
           ELSE tables' = tables /\ bitmap' = bitmap
    BY <1>0, <1>2, <2>0
  <2>2. pages \in [Pages -> Int] /\ tables \in [Slots -> Frames \union {NoFrame}]
    BY <1>0 DEF FramesInv, FrameTypes
  <2>3. pages'[k] = k /\ \A p \in Pages : pages[p] = p => pages'[p] = p
    BY <2>1, <2>2
  <2>4. Managed' = Managed /\ Reserved' = Reserved /\ LowFrames' = LowFrames
    BY <2>1 DEF Managed, UsableRegions, Reserved, LowFrames
  <2>5. CASE tables[slot] = NoFrame
    <3>1. table \in LowFrames /\ table # NoFrame
      BY <1>0, <2>1, <2>5, LowFrameLeft, FirstFreeLow
    <3> HIDE DEF slot, table
    <3>2. tables'[slot] = table /\ \A t \in Slots : t # slot => tables'[t] = tables[t]
      BY <1>0, <2>1, <2>2, <2>5
    <3>3. TableFrames' = TableFrames \union {table}
      BY <1>0, <2>5, <3>1, <3>2 DEF TableFrames
    <3>4. LowOK'
      BY <1>0, <2>1, <2>4, <2>5, <3>1, <3>3 DEF LowOK
    <3>5. \A t \in Slots : tables[t] # NoFrame => tables'[t] # NoFrame
      BY <3>1, <3>2
    <3>6. tables'[slot] # NoFrame
      BY <3>1, <3>2
    <3> QED
      BY <2>1, <2>3, <3>4, <3>5, <3>6, PagesThere DEF HasTable, slot
  <2>6. CASE tables[slot] # NoFrame
    <3>1. TableFrames' = TableFrames
      BY <2>1, <2>6 DEF TableFrames
    <3>2. LowOK'
      BY <1>0, <2>1, <2>4, <2>6, <3>1 DEF LowOK
    <3> QED
      BY <2>1, <2>3, <2>6, <3>2 DEF HasTable
  <2> QED
    BY <2>5, <2>6
<1> QED
  BY <1>1, <1>2
\* Steps that map no page: low frames are what they were.
LEMMA SameLow ==
  ASSUME map' = map
  PROVE  /\ Managed' = Managed /\ Reserved' = Reserved /\ LowFrames' = LowFrames
         /\ EnoughLow => EnoughLow'
  BY DEF Managed, UsableRegions, Reserved, LowFrames, EnoughLow

LEMMA PanicLow ==
  ASSUME ReachInv, phase' = "panic", TableFrames' = TableFrames, map' = map
  PROVE  LowOK' /\ MappedOK'
  BY SameLow DEF ReachInv, LowOK, MappedOK

LEMMA PmmInitLow == ASSUME ReachInv, PmmInit PROVE LowOK' /\ MappedOK'
<1>1. /\ phase = "pmm" /\ bitmap' = (Frames \ Managed) \union Reserved
      /\ phase' \in {"panic", "dir"}
      /\ UNCHANGED <<map, dir, tables, pages, addr, taken>>
  BY DEF PmmInit
<1>2. TableFrames' = TableFrames /\ (Managed \ Reserved) \intersect bitmap' = {}
  BY <1>1 DEF TableFrames
<1> QED
  BY <1>1, <1>2, SameLow DEF ReachInv, LowOK, MappedOK

LEMMA PagingInitLow == ASSUME ReachInv, PagingInit PROVE LowOK' /\ MappedOK'
<1>1. phase = "dir" /\ FramesInv /\ EnoughLow /\ LowOK
  BY DEF PagingInit, ReachInv
<1>2. \E g \in LowFrames : g \notin bitmap
  <2>1. LowFrames # {}
    <3>1. Cardinality(Slots) \in Nat
      BY PagesThere, FS_CardinalityType
    <3>2. Cardinality({}) = 0
      BY FS_EmptySet
    <3> QED
      BY <1>1, <3>1, <3>2 DEF EnoughLow
  <2>2. PICK g \in LowFrames : TRUE
    BY <2>1
  <2>3. g \in Managed \ Reserved /\ g # NoFrame
    BY LowFacts DEF LowFrames
  <2> QED
    BY <1>1, <2>3 DEF LowOK
<1>3. FirstFree(bitmap) \in LowFrames /\ FirstFree(bitmap) # NoFrame
  BY <1>1, <1>2, FirstFreeLow, LowFacts
<1>4. /\ phase' = "identity" /\ dir' = FirstFree(bitmap) /\ bitmap' = bitmap \union {FirstFree(bitmap)}
      /\ UNCHANGED <<map, tables, pages, addr>>
  BY <1>3 DEF PagingInit, Taken
<1>5. TableFrames' = TableFrames
  BY <1>4 DEF TableFrames
<1>6. LowOK'
  <2>1. (Managed \ Reserved) \intersect bitmap = {}
    BY <1>1, FrameNumbers DEF LowOK
  <2> QED
    BY <1>1, <1>3, <1>4, <1>5, <2>1, SameLow DEF LowOK
<1>7. MappedOK'
  <2>1. addr' = 0 * PageSize /\ addr' = 0 /\ PageSize \in Nat
    BY <1>1, <1>4, FrameNumbers DEF LowOK
  <2>2. \A p \in Pages : ~(p * PageSize < 0)
    BY <2>1, PagesThere
  <2> QED
    BY <1>4, <2>1, <2>2 DEF MappedOK
<1> QED
  BY <1>6, <1>7

\* The pages before the next one are those before this one, and this one.
LEMMA NextPage ==
  ASSUME NEW k \in Nat, NEW p \in Pages, p * PageSize < (k + 1) * PageSize
  PROVE  p = k \/ p * PageSize < k * PageSize
<1>1. p \in Nat /\ k + 1 \in Int
  BY PagesThere
<1>2. p < k + 1
  BY <1>1, PageOrder
<1>3. p = k \/ p < k
  BY <1>1, <1>2
<1> QED
  BY <1>1, <1>3, PageOrder

LEMMA IdentityStepLow == ASSUME ReachInv, IdentityStep PROVE LowOK' /\ MappedOK'
<1>1. PICK k \in Nat : addr = k * PageSize
  BY DEF ReachInv, MappedOK, IdentityStep, Loop
<1>2. phase = "identity" /\ addr \div PageSize = k
  BY <1>1, PageOf DEF IdentityStep, Loop
<1>3. CASE addr < IdentityLimit /\ MapPage(addr \div PageSize, {})
  <2>1. k \in Pages
    BY <1>1, <1>3, PagesThere
  <2>2. \/ phase' = "panic" /\ TableFrames' = TableFrames
        \/ /\ addr' = (k + 1) * PageSize /\ phase' = phase
           /\ \A p \in Pages : pages[p] = p => pages'[p] = p
           /\ \A p \in Pages : HasTable(p) => HasTable(p)'
           /\ pages'[k] = k /\ HasTable(k)'
           /\ LowOK'
    BY <1>1, <1>2, <1>3, <2>1, MapIdentityLow
  <2>3. map' = map
    BY <1>3 DEF MapPage, Panic
  <2>4. CASE phase' = "panic" /\ TableFrames' = TableFrames
    BY <2>3, <2>4, PanicLow
  <2>5. CASE phase' # "panic"
    <3>1. \A p \in Pages : p * PageSize < addr' => HasTable(p)' /\ pages'[p] = p
      <4> SUFFICES ASSUME NEW p \in Pages, p * PageSize < addr'
                   PROVE  HasTable(p)' /\ pages'[p] = p
        OBVIOUS
      <4>1. p = k \/ p * PageSize < addr
        BY <1>1, <2>2, <2>5, NextPage
      <4>2. p * PageSize < addr => HasTable(p) /\ pages[p] = p
        BY <1>2 DEF ReachInv, MappedOK
      <4> QED
        BY <2>2, <2>5, <4>1, <4>2
    <3>2. \E n \in Nat : addr' = n * PageSize
      <4>1. k + 1 \in Nat
        OBVIOUS
      <4> QED
        BY <2>2, <2>5, <4>1
    <3>4. phase' = "identity" /\ LowOK'
      BY <1>2, <2>2, <2>5
    <3>5. MappedOK'
      BY <3>1, <3>2, <3>4 DEF MappedOK
    <3> QED
      BY <3>4, <3>5
  <2> QED
    BY <1>2, <2>2, <2>4, <2>5
<1>4. CASE Loop("identity", IdentityLimit, "fb", FbStart)
  <2>1. /\ addr >= IdentityLimit /\ phase' = "fb" /\ addr' = FbStart
        /\ UNCHANGED <<map, bitmap, total, used, dir, tables, pages, taken>>
    BY <1>4 DEF Loop
  <2>2. TableFrames' = TableFrames /\ \A p : HasTable(p)' = HasTable(p)
    BY <2>1 DEF TableFrames, HasTable
  <2>3. LowOK'
    BY <1>2, <2>1, <2>2, SameLow DEF ReachInv, LowOK
  <2>4. \E n \in Nat : FbStart = n * PageSize
    BY Addresses
  <2>5. ASSUME NEW p \in Pages PROVE p * PageSize \in Nat
    BY PagesThere, FrameNumbers
  <2>6. \A p \in Pages : p * PageSize < IdentityLimit => HasTable(p) /\ pages[p] = p
    <3>1. IdentityLimit \in Nat /\ addr \in Int
      BY Addresses DEF ReachInv, FramesInv, FrameTypes
    <3>2. \A p \in Pages : p * PageSize < IdentityLimit => p * PageSize < addr
      BY <2>1, <2>5, <3>1
    <3> QED
      BY <1>2, <3>2 DEF ReachInv, MappedOK
  <2>7. FbStart \in Nat /\ \A p \in Pages : ~(FbStart <= p * PageSize /\ p * PageSize < FbStart)
    BY <2>5, Addresses
  <2> QED
    BY <2>1, <2>2, <2>3, <2>4, <2>6, <2>7 DEF MappedOK
<1> QED
  BY <1>3, <1>4 DEF IdentityStep

LEMMA FbStepLow == ASSUME ReachInv, FbStep PROVE LowOK' /\ MappedOK'
<1>1. PICK k \in Nat : addr = k * PageSize
  BY DEF ReachInv, MappedOK, FbStep, Loop
<1>2. phase = "fb" /\ addr \div PageSize = k /\ addr >= FbStart /\ addr \in Nat /\ FbStart \in Nat
  BY <1>1, PageOf, FrameNumbers, Addresses DEF FbStep, Loop, ReachInv, MappedOK
<1>3. \A p \in Pages : p * PageSize < IdentityLimit =>
        HasTable(p) /\ (p * PageSize < HeapStart => pages[p] = p)
  BY <1>2 DEF ReachInv, MappedOK
<1>4. \A p \in Pages : FbStart <= p * PageSize /\ p * PageSize < addr
                         /\ FbNeeded /\ p * PageSize < FbEnd => HasTable(p)
  BY <1>2 DEF ReachInv, MappedOK
<1>5. CASE FbNeeded /\ addr < FbEnd /\ MapPage(addr \div PageSize, {})
  <2>1. k \in Pages
    BY <1>1, <1>5, PagesThere
  <2>2. \/ phase' = "panic" /\ TableFrames' = TableFrames
        \/ /\ addr' = (k + 1) * PageSize /\ phase' = phase
           /\ \A p \in Pages : pages[p] = p => pages'[p] = p
           /\ \A p \in Pages : HasTable(p) => HasTable(p)'
           /\ pages'[k] = k /\ HasTable(k)'
           /\ LowOK'
    BY <1>1, <1>2, <1>5, <2>1, MapIdentityLow
  <2>3. map' = map
    BY <1>5 DEF MapPage, Panic
  <2>4. CASE phase' = "panic" /\ TableFrames' = TableFrames
    BY <2>3, <2>4, PanicLow
  <2>5. CASE phase' # "panic"
    <3>1. \A p \in Pages : p * PageSize < IdentityLimit =>
            HasTable(p)' /\ (p * PageSize < HeapStart => pages'[p] = p)
      BY <1>3, <2>2, <2>5
    <3>2. \A p \in Pages : FbStart <= p * PageSize /\ p * PageSize < addr'
                             /\ FbNeeded /\ p * PageSize < FbEnd => HasTable(p)'
      <4> SUFFICES ASSUME NEW p \in Pages, FbStart <= p * PageSize, p * PageSize < addr',
                          FbNeeded, p * PageSize < FbEnd
                   PROVE  HasTable(p)'
        OBVIOUS
      <4>1. p = k \/ p * PageSize < addr
        BY <1>1, <2>2, <2>5, NextPage
      <4> QED
        BY <1>4, <2>2, <2>5, <4>1
    <3>3. (\E n \in Nat : addr' = n * PageSize) /\ addr' >= FbStart
      <4>1. k + 1 \in Nat /\ PageSize \in Nat /\ addr' = addr + PageSize
        BY <1>1, <2>2, <2>5, PageOf, FrameNumbers
      <4>2. addr' >= FbStart
        BY <1>2, <4>1
      <4> QED
        BY <2>2, <2>5, <4>1, <4>2
    <3>4. phase' = "fb" /\ LowOK'
      BY <1>2, <2>2, <2>5
    <3>5. MappedOK'
      BY <3>1, <3>2, <3>3, <3>4 DEF MappedOK
    <3> QED
      BY <3>4, <3>5
  <2> QED
    BY <1>2, <2>2, <2>4, <2>5
<1>6. CASE Loop("fb", IF FbNeeded THEN FbEnd ELSE 0, "heap", HeapStart)
  <2>1. /\ FbNeeded => addr >= FbEnd
        /\ phase' = "heap" /\ addr' = HeapStart
        /\ UNCHANGED <<map, bitmap, total, used, dir, tables, pages, taken>>
    BY <1>6 DEF Loop
  <2>2. TableFrames' = TableFrames /\ \A p : HasTable(p)' = HasTable(p)
    BY <2>1 DEF TableFrames, HasTable
  <2>3. LowOK'
    BY <1>2, <2>1, <2>2, SameLow DEF ReachInv, LowOK
  <2>4. HeapStart \in Nat /\ FbEnd \in Nat /\ \E n \in Nat : HeapStart = n * PageSize
    BY Addresses
  <2>5. \A p \in Pages : FbStart <= p * PageSize /\ FbNeeded /\ p * PageSize < FbEnd => HasTable(p)
    <3> SUFFICES ASSUME NEW p \in Pages, FbStart <= p * PageSize, FbNeeded, p * PageSize < FbEnd
                 PROVE  HasTable(p)
      OBVIOUS
    <3>1. p * PageSize \in Nat
      BY PagesThere, FrameNumbers
    <3>2. p * PageSize < addr
      BY <1>2, <2>1, <2>4, <3>1
    <3> QED
      BY <1>4, <3>2
  <2> QED
    BY <1>3, <2>1, <2>2, <2>3, <2>4, <2>5 DEF MappedOK
<1> QED
  BY <1>5, <1>6 DEF FbStep

\* The heap replaces pages of the identity map, but none below its start.
LEMMA HeapStepLow ==
  ASSUME HeapCovered, ReachInv, HeapStep
  PROVE  LowOK' /\ MappedOK'
<1>1. PICK k \in Nat : addr = k * PageSize
  BY DEF ReachInv, MappedOK, HeapStep, Loop
<1>2. phase = "heap" /\ addr >= HeapStart /\ addr \in Nat /\ HeapStart \in Nat
  BY <1>1, FrameNumbers, Addresses DEF HeapStep, Loop, ReachInv, MappedOK
<1>3. /\ \A p \in Pages : p * PageSize < IdentityLimit =>
           HasTable(p) /\ (p * PageSize < HeapStart => pages[p] = p)
      /\ \A p \in Pages : FbStart <= p * PageSize /\ FbNeeded /\ p * PageSize < FbEnd => HasTable(p)
  BY <1>2 DEF ReachInv, MappedOK
<1>4. CASE Panic
  BY <1>4, PanicLow DEF Panic, TableFrames
<1>5. ASSUME NEW f, addr < HeapStart + HeapSize, MapPage(f, {f}), ~Panic
      PROVE  LowOK' /\ MappedOK'
  <2>1. k \in Pages /\ k \in HeapPages
    <3>1. k \in Pages
      BY <1>1, <1>5, PagesThere
    <3> QED
      BY <1>1, <1>2, <1>5, <3>1 DEF HeapPages
  <2>2. HasTable(k)
    <3>1. PICK q \in Pages : /\ q \div TablePages = k \div TablePages
                             /\ \/ q * PageSize < IdentityLimit
                                \/ FbNeeded /\ FbStart <= q * PageSize /\ q * PageSize < FbEnd
      BY <2>1 DEF HeapCovered
    <3>2. HasTable(q)
      BY <1>3, <3>1
    <3> QED
      BY <3>1, <3>2 DEF HasTable
  <2>3. /\ addr' = (k + 1) * PageSize /\ pages' = [pages EXCEPT ![k] = f]
        /\ UNCHANGED <<map, phase, dir, taken>> /\ tables' = tables
    BY <1>1, <1>5, <2>2, MapPageFacts DEF ReachInv, HasTable
  <2>4. TableFrames' = TableFrames /\ \A p : HasTable(p)' = HasTable(p)
    BY <2>3 DEF TableFrames, HasTable
  <2>5. LowOK'
    BY <1>2, <2>3, <2>4, SameLow DEF ReachInv, LowOK
  <2>6. \A p \in Pages : p * PageSize < IdentityLimit =>
          HasTable(p)' /\ (p * PageSize < HeapStart => pages'[p] = p)
    <3> SUFFICES ASSUME NEW p \in Pages, p * PageSize < IdentityLimit
                 PROVE  HasTable(p)' /\ (p * PageSize < HeapStart => pages'[p] = p)
      OBVIOUS
    <3>1. p * PageSize < HeapStart => p # k
      BY <1>1, <1>2
    <3>2. pages \in [Pages -> Int]
      BY DEF ReachInv, FramesInv, FrameTypes
    <3> QED
      BY <1>3, <2>3, <2>4, <3>1, <3>2
  <2>7. (\E n \in Nat : addr' = n * PageSize) /\ addr' >= HeapStart
    <3>1. k + 1 \in Nat /\ PageSize \in Nat /\ addr' = addr + PageSize
      BY <1>1, <2>3, PageOf, FrameNumbers
    <3>2. addr' >= HeapStart
      BY <1>2, <3>1
    <3> QED
      BY <2>3, <3>1, <3>2
  <2>8. MappedOK'
    BY <1>2, <1>3, <2>3, <2>4, <2>6, <2>7 DEF MappedOK
  <2> QED
    BY <2>5, <2>8
<1>6. CASE Loop("heap", HeapStart + HeapSize, "up", 0)
  <2>1. phase' = "up" /\ UNCHANGED <<map, bitmap, total, used, dir, tables, pages, taken>>
    BY <1>6 DEF Loop
  <2>2. TableFrames' = TableFrames /\ \A p : HasTable(p)' = HasTable(p)
    BY <2>1 DEF TableFrames, HasTable
  <2>3. LowOK'
    BY <1>2, <2>1, <2>2, SameLow DEF ReachInv, LowOK
  <2>4. MappedOK'
    BY <1>3, <2>1, <2>2 DEF MappedOK
  <2> QED
    BY <2>3, <2>4
<1> QED
  BY <1>4, <1>5, <1>6 DEF HeapStep

\* In the running kernel and while nothing moves.
LEMMA UpLow ==
  ASSUME ReachInv, UNCHANGED <<map, dir, tables, pages>>,
         \/ phase = "up" /\ phase' \in {"up", "panic"}
         \/ phase' = phase /\ UNCHANGED <<bitmap, addr>>
  PROVE  LowOK' /\ MappedOK'
<1>1. TableFrames' = TableFrames /\ \A p : HasTable(p)' = HasTable(p)
  BY DEF TableFrames, HasTable
<1>2. LowOK'
  BY <1>1, SameLow DEF ReachInv, LowOK
<1>3. MappedOK'
  BY <1>1 DEF ReachInv, MappedOK
<1> QED
  BY <1>2, <1>3

LEMMA ReachStep ==
  ASSUME HeapCovered, ReachInv, [KernelNext]_kernelVars
  PROVE  ReachInv'
<1>1. FramesInv'
  BY MemStep DEF ReachInv
<1>2. map' = map
  BY DEF KernelNext, kernelVars, memVars, MemNext, PmmInit, PagingInit, IdentityStep, FbStep,
         HeapStep, Loop, MapPage, Panic, AllocFrame, FreeFrame
<1>3. LowOK' /\ MappedOK'
  <2>1. CASE AllocFrame \/ \E f \in Frames : FreeFrame(f)
    <3>1. /\ phase = "up" /\ phase' \in {"up", "panic"} /\ UNCHANGED <<map, dir, tables, pages>>
      BY <2>1 DEF AllocFrame, FreeFrame, Panic
    <3> QED
      BY <3>1, UpLow
  <2>2. CASE UNCHANGED memVars
    <3>1. UNCHANGED <<map, dir, tables, pages, phase, bitmap, addr>>
      BY <2>2 DEF memVars
    <3> QED
      BY <3>1, UpLow
  <2>3. MemNext \/ UNCHANGED memVars
    BY DEF KernelNext, kernelVars
  <2> QED
    BY <2>1, <2>2, <2>3, PmmInitLow, PagingInitLow, IdentityStepLow, FbStepLow, HeapStepLow DEF MemNext
<1> QED
  BY <1>1, <1>2, <1>3, SameLow DEF ReachInv

\* TablesReachable: paging.c can write every page table and the directory through
\* their physical address for as long as the kernel runs, whatever heap_init remaps,
\* if the frames below the heap are enough for them.
THEOREM TablesReachableCorrect ==
  ASSUME HeapCovered
  PROVE  KernelSpec /\ EnoughLow => []TablesReachable
<1>1. KernelInit /\ EnoughLow => ReachInv
  <2> SUFFICES ASSUME MemInit, EnoughLow, FramesInv PROVE LowOK /\ MappedOK
    BY FramesInit DEF KernelInit, ReachInv
  <2>1. TableFrames = {}
    BY DEF MemInit, TableFrames
  <2> QED
    BY <2>1 DEF MemInit, LowOK, MappedOK
<1>2. ReachInv /\ [KernelNext]_kernelVars => ReachInv'
  BY ReachStep
<1>3. ReachInv => TablesReachable
  <2> SUFFICES ASSUME ReachInv, phase \in {"fb", "heap", "up"}, NEW f \in TableFrames \union {dir}
               PROVE  f \in Pages /\ pages[f] = f
    BY DEF TablesReachable
  <2>1. f \in LowFrames
    BY DEF ReachInv, LowOK
  <2>2. f \in Pages /\ f * PageSize < IdentityLimit /\ f * PageSize < HeapStart
    BY <2>1, LowFacts DEF LowFrames
  <2> QED
    BY <2>2 DEF ReachInv, MappedOK
<1> QED
  BY <1>1, <1>2, <1>3, PTL DEF KernelSpec

-----------------------------------------------------------------------------
(* The callers of the heap: the invariant.                                 *)

\* Labels at which a command waits for what kmalloc returns.
Waits == {"file", "image", "allocA", "allocB"}

\* The block kmalloc has returned and no pointer has been set to yet.
Pending(b) == b = got /\ pc = "idle" /\ \E t \in Terminals : at[t] \in Waits

\* One command runs at a time, and only one that waits has called kmalloc.
OneAtATime ==
  /\ \A t, u \in Terminals : at[t] \notin {"idle", "run"} /\ at[u] \notin {"idle", "run"} => t = u
  /\ pc = "find" => \E t \in Terminals : at[t] \in Waits
  /\ pc = "merge" => \A t \in Terminals : at[t] \notin Waits

\* Which pointers a command has at which label.
PointersAt ==
  \A t \in Terminals :
    /\ at[t] \in {"check", "image", "run", "release"} => first[t] # Null
    /\ at[t] \in {"idle", "file", "allocA", "freeB"} => first[t] = Null
    /\ at[t] \in {"run", "freeB"} <=> second[t] # Null
    /\ t \in open => at[t] = "file"

Owned(b) == \E t \in Terminals : b \in {first[t], second[t]}

\* A block is in use exactly when it is lost, just handed out, or owned.
Accounted == \A b \in Addrs : held[b] # 0 <=> b \in lost \/ Pending(b) \/ Owned(b)

\* And it is only one of these, owned through one pointer.
OwnedOnce ==
  /\ \A b \in Addrs : /\ b \in lost => ~Pending(b) /\ ~Owned(b)
                      /\ Pending(b) => ~Owned(b)
  /\ \A t, u \in Terminals :
       /\ first[t] # Null => first[t] # second[u]
       /\ t # u /\ first[t] # Null => first[t] # first[u]
       /\ t # u /\ second[t] # Null => second[t] # second[u]

ExecInv == ExecTypeOK /\ OneAtATime /\ PointersAt /\ Accounted /\ OwnedOnce

LEMMA NullNoAddr == Null \notin Addrs
  BY HeapAssumption DEF Null, Addrs

-----------------------------------------------------------------------------

LEMMA ExecInitInv == Init /\ ExecInit => ExecInv
  BY NullNoAddr DEF Init, ExecInit, ExecInv, ExecTypeOK, OneAtATime, PointersAt, Accounted,
     OwnedOnce, Pending, Owned, Waits

\* A call of kmalloc by terminal t, or kfree of a block, as the heap sees it.
LEMMA KmallocFacts ==
  ASSUME NEW size, Kmalloc(size)
  PROVE  pc = "idle" /\ pc' = "find" /\ held' = held
  BY DEF Kmalloc

LEMMA KfreeFacts ==
  ASSUME NEW b, Kfree(b)
  PROVE  pc = "idle" /\ pc' = "merge" /\ held' = [held EXCEPT ![b] = 0]
  BY DEF Kfree

LEMMA HeapTurnKeeps ==
  ASSUME Inv, ExecInv, HeapTurn
  PROVE  ExecInv'
<1> USE NullNoAddr
<1>1. UNCHANGED <<at, open, first, second, lost>> /\ held \in [Addrs -> Nat]
  BY DEF HeapTurn, Inv, TypeOK
<1>2. CASE Take
  <2>1. cur \in Addrs /\ held[cur] = 0 /\ asked # 0 /\ asked \in Nat /\ pc = "find" /\ pc' = "idle"
    BY <1>2, HeapAssumption DEF Take, Return, Fits, Inv, TypeOK, CurOnList, HeldIsInUse
  <2>2. got' = cur /\ held' = [held EXCEPT ![cur] = asked]
    BY <1>2 DEF HeapTurn, Take
  <2>3. ~Owned(cur) /\ cur \notin lost
    BY <2>1 DEF ExecInv, Accounted
  <2>4. \A b \in Addrs : held'[b] # 0 <=> held[b] # 0 \/ b = cur
    BY <1>1, <2>1, <2>2
  <2>5. \A b : Pending(b)' <=> b = cur
    BY <1>1, <2>1, <2>2 DEF Pending, ExecInv, OneAtATime
  <2>6. \A b : (Owned(b)' <=> Owned(b)) /\ ~Pending(b)
    BY <1>1, <2>1 DEF Owned, Pending
  <2>7. Accounted'
    BY <1>1, <2>4, <2>5, <2>6 DEF ExecInv, Accounted
  <2>8. OwnedOnce'
    BY <1>1, <2>3, <2>5, <2>6 DEF ExecInv, OwnedOnce
  <2> QED BY <1>1, <2>1, <2>2, <2>7, <2>8 DEF ExecInv, ExecTypeOK, OneAtATime, PointersAt
<1>3. CASE Skip
  <2>1. pc = "find" /\ held' = held /\ got' = Null /\ pc' \in {"find", "idle"}
    BY <1>3 DEF HeapTurn, Skip, Take, Return
  <2>2. \A b \in Addrs : ~Pending(b) /\ ~Pending(b)'
    BY <2>1 DEF Pending
  <2>3. \A b : Owned(b)' <=> Owned(b)
    BY <1>1 DEF Owned
  <2>4. Accounted' /\ OwnedOnce'
    BY <1>1, <2>1, <2>2, <2>3 DEF ExecInv, Accounted, OwnedOnce
  <2> QED BY <1>1, <2>1, <2>4 DEF ExecInv, ExecTypeOK, OneAtATime, PointersAt
<1>4. CASE Merge
  <2>1. pc = "merge" /\ held' = held /\ got' = got /\ pc' \in {"merge", "idle"}
    BY <1>4 DEF HeapTurn, Merge, Take, Return
  <2>2. \A b \in Addrs : ~Pending(b) /\ ~Pending(b)'
    BY <1>1, <2>1 DEF Pending, ExecInv, OneAtATime
  <2>3. \A b : Owned(b)' <=> Owned(b)
    BY <1>1 DEF Owned
  <2>4. Accounted' /\ OwnedOnce'
    BY <1>1, <2>1, <2>2, <2>3 DEF ExecInv, Accounted, OwnedOnce
  <2> QED BY <1>1, <2>1, <2>4 DEF ExecInv, ExecTypeOK, OneAtATime, PointersAt
<1> QED BY <1>2, <1>3, <1>4 DEF HeapTurn

\* A terminal that is between two labels of a command keeps the others out.
LEMMA Alone ==
  ASSUME ExecInv, NEW t \in Terminals, at[t] \notin {"idle", "run"}
  PROVE  \A u \in Terminals \ {t} : at[u] \in {"idle", "run"}
  BY DEF ExecInv, OneAtATime

LEMMA ExecStartKeeps ==
  ASSUME ExecInv, NEW t \in Terminals, ExecStart(t)
  PROVE  ExecInv'
<1> USE NullNoAddr
<1>1. PICK size \in FileSizes : Kmalloc(BufferSize(size))
  BY DEF ExecStart
<1>2. pc = "idle" /\ pc' = "find" /\ held' = held
  BY <1>1, KmallocFacts
<1>3. /\ at[t] = "idle" /\ at' = [at EXCEPT ![t] = "file"] /\ open' = open \union {t}
      /\ UNCHANGED <<first, second, got, lost>>
      /\ \A u \in Terminals : at[u] \in {"idle", "run"}
  BY DEF ExecStart, Goto, Quiet
<1>4. \A b : ~Pending(b) /\ ~Pending(b)' /\ (Owned(b)' <=> Owned(b))
  BY <1>2, <1>3 DEF Pending, Owned, Waits
<1>5. Accounted' /\ OwnedOnce'
  BY <1>2, <1>3, <1>4 DEF ExecInv, Accounted, OwnedOnce
<1>6. ExecTypeOK' /\ OneAtATime'
  BY <1>2, <1>3 DEF ExecInv, ExecTypeOK, OneAtATime, Waits
<1>7. PointersAt'
  BY <1>2, <1>3 DEF ExecInv, ExecTypeOK, PointersAt
<1> QED BY <1>5, <1>6, <1>7 DEF ExecInv

LEMMA AllocStartKeeps ==
  ASSUME ExecInv, NEW t \in Terminals, AllocStart(t)
  PROVE  ExecInv'
<1> USE NullNoAddr
<1>2. pc = "idle" /\ pc' = "find" /\ held' = held
  BY KmallocFacts DEF AllocStart
<1>3. /\ at[t] = "idle" /\ at' = [at EXCEPT ![t] = "allocA"] /\ open' = open
      /\ UNCHANGED <<first, second, got, lost>>
      /\ \A u \in Terminals : at[u] \in {"idle", "run"}
  BY DEF AllocStart, Goto, Quiet
<1>4. \A b : ~Pending(b) /\ ~Pending(b)' /\ (Owned(b)' <=> Owned(b))
  BY <1>2, <1>3 DEF Pending, Owned, Waits
<1>5. Accounted' /\ OwnedOnce'
  BY <1>2, <1>3, <1>4 DEF ExecInv, Accounted, OwnedOnce
<1>6. ExecTypeOK' /\ OneAtATime'
  BY <1>2, <1>3 DEF ExecInv, ExecTypeOK, OneAtATime, Waits
<1>7. PointersAt'
  BY <1>2, <1>3 DEF ExecInv, ExecTypeOK, PointersAt
<1> QED BY <1>5, <1>6, <1>7 DEF ExecInv

LEMMA AllocSecondKeeps ==
  ASSUME ExecInv, NEW t \in Terminals, AllocSecond(t)
  PROVE  ExecInv'
<1> USE NullNoAddr
<1>2. pc = "idle" /\ pc' = "find" /\ held' = held
  BY KmallocFacts DEF AllocSecond
<1>3. /\ at[t] = "allocA" /\ at' = [at EXCEPT ![t] = "allocB"]
      /\ first' = [first EXCEPT ![t] = got] /\ first[t] = Null
      /\ UNCHANGED <<open, second, got, lost>>
      /\ \A u \in Terminals \ {t} : at[u] \in {"idle", "run"}
  BY Alone DEF AllocSecond, Goto, ExecInv, PointersAt
<1>4. \A b : ~Pending(b)' /\ (Pending(b) <=> b = got)
  BY <1>2, <1>3 DEF Pending, Waits
<1>5. \A b \in Addrs : Owned(b)' <=> Owned(b) \/ b = got
  BY <1>3 DEF Owned, ExecInv, ExecTypeOK
<1>6. \A u \in Terminals : got # Null => got # first[u] /\ got # second[u]
  BY <1>4 DEF ExecInv, ExecTypeOK, OwnedOnce, Owned
<1>7. Accounted'
  BY <1>2, <1>3, <1>4, <1>5 DEF ExecInv, Accounted
<1>8. OwnedOnce'
  BY <1>3, <1>4, <1>5, <1>6 DEF ExecInv, ExecTypeOK, OwnedOnce
<1>9. ExecTypeOK' /\ OneAtATime'
  BY <1>2, <1>3 DEF ExecInv, ExecTypeOK, OneAtATime, Waits
<1>10. PointersAt'
  BY <1>2, <1>3 DEF ExecInv, ExecTypeOK, PointersAt
<1> QED BY <1>7, <1>8, <1>9, <1>10 DEF ExecInv

\* kfree(file_data), or kfree(a), by a command that is alone, to a label at which
\* the pointer is not needed.
LEMMA FreeFirstKeeps ==
  ASSUME ExecInv, NEW t \in Terminals, NEW label, FreeFirst(t, label), first[t] # Null,
         \A u \in Terminals \ {t} : at[u] \in {"idle", "run"},
         label = "idle", second[t] = Null, held \in [Addrs -> Nat],
         at[t] \in Waits => got = Null,
         t \notin open, UNCHANGED <<open, second, got, lost>>
  PROVE  ExecInv'
<1> USE NullNoAddr
<1> DEFINE b0 == first[t]
<1>1. /\ pc = "idle" /\ pc' = "merge" /\ held' = [held EXCEPT ![b0] = 0]
      /\ first' = [first EXCEPT ![t] = Null] /\ at' = [at EXCEPT ![t] = "idle"]
      /\ b0 \in Addrs
  BY KfreeFacts DEF FreeFirst, Goto, ExecInv, ExecTypeOK
<1>2. \A b \in Addrs : ~Pending(b) /\ ~Pending(b)'
  BY <1>1 DEF Pending, Waits
<1>3. \A b \in Addrs : Owned(b)' <=> Owned(b) /\ b # b0
  BY <1>1 DEF Owned, ExecInv, ExecTypeOK, OwnedOnce
<1>4. b0 \notin lost
  BY <1>1 DEF Owned, ExecInv, OwnedOnce
<1>5. Accounted'
  BY <1>1, <1>2, <1>3, <1>4 DEF ExecInv, Accounted
<1>6. OwnedOnce'
  BY <1>1, <1>2, <1>3 DEF ExecInv, ExecTypeOK, OwnedOnce
<1>7. ExecTypeOK' /\ OneAtATime'
  BY <1>1 DEF ExecInv, ExecTypeOK, OneAtATime, Waits
<1>8. PointersAt'
  BY <1>1 DEF ExecInv, ExecTypeOK, PointersAt
<1> QED BY <1>5, <1>6, <1>7, <1>8 DEF ExecInv

\* kfree(image), or kfree(b): the pointer to the other block may stay.
LEMMA FreeSecondKeeps ==
  ASSUME ExecInv, NEW t \in Terminals, NEW label \in {"idle", "release"}, FreeSecond(t, label),
         at[t] = IF label = "idle" THEN "freeB" ELSE "run",
         \A u \in Terminals \ {t} : at[u] \in {"idle", "run"},
         held \in [Addrs -> Nat], UNCHANGED <<open, first, got, lost>>
  PROVE  ExecInv'
<1> USE NullNoAddr
<1> DEFINE b0 == second[t]
<1>1. /\ pc = "idle" /\ pc' = "merge" /\ held' = [held EXCEPT ![b0] = 0]
      /\ second' = [second EXCEPT ![t] = Null] /\ at' = [at EXCEPT ![t] = label]
      /\ b0 \in Addrs
  BY KfreeFacts DEF FreeSecond, Goto, ExecInv, ExecTypeOK, PointersAt
<1>2. \A b \in Addrs : ~Pending(b) /\ ~Pending(b)'
  BY <1>1 DEF Pending, Waits
<1>3. \A b \in Addrs : Owned(b)' <=> Owned(b) /\ b # b0
  BY <1>1 DEF Owned, ExecInv, ExecTypeOK, OwnedOnce
<1>4. b0 \notin lost
  BY <1>1 DEF Owned, ExecInv, OwnedOnce
<1>5. Accounted'
  BY <1>1, <1>2, <1>3, <1>4 DEF ExecInv, Accounted
<1>6. OwnedOnce'
  BY <1>1, <1>2, <1>3 DEF ExecInv, ExecTypeOK, OwnedOnce
<1>7. ExecTypeOK' /\ OneAtATime'
  BY <1>1 DEF ExecInv, ExecTypeOK, OneAtATime, Waits
<1>8. PointersAt'
  BY <1>1 DEF ExecInv, ExecTypeOK, PointersAt
<1> QED BY <1>5, <1>6, <1>7, <1>8 DEF ExecInv

\* kfree of the block kmalloc has just returned.
LEMMA FreeGotKeeps ==
  ASSUME ExecInv, NEW t \in Terminals, NEW label \in {"idle", "release"}, Kfree(got),
         Goto(t, label), got # Null,
         at[t] = IF label = "idle" THEN "file" ELSE "image",
         held \in [Addrs -> Nat], open' = open \ {t}, UNCHANGED <<first, second, got, lost>>
  PROVE  ExecInv'
<1> USE NullNoAddr
<1>1. /\ pc = "idle" /\ pc' = "merge" /\ held' = [held EXCEPT ![got] = 0]
      /\ at' = [at EXCEPT ![t] = label] /\ got \in Addrs
      /\ \A u \in Terminals \ {t} : at[u] \in {"idle", "run"}
  BY KfreeFacts, Alone DEF Goto, ExecInv, ExecTypeOK
<1>2. \A b \in Addrs : (Pending(b) <=> b = got) /\ ~Pending(b)'
  BY <1>1 DEF Pending, Waits
<1>3. \A b \in Addrs : Owned(b)' <=> Owned(b)
  BY DEF Owned
<1>4. ~Owned(got) /\ got \notin lost
  BY <1>1, <1>2 DEF ExecInv, OwnedOnce
<1>5. Accounted'
  BY <1>1, <1>2, <1>3, <1>4 DEF ExecInv, Accounted
<1>6. OwnedOnce'
  BY <1>1, <1>2, <1>3 DEF ExecInv, ExecTypeOK, OwnedOnce
<1>7. ExecTypeOK' /\ OneAtATime'
  BY <1>1 DEF ExecInv, ExecTypeOK, OneAtATime, Waits
<1>8. PointersAt'
  BY <1>1 DEF ExecInv, ExecTypeOK, PointersAt
<1> QED BY <1>5, <1>6, <1>7, <1>8 DEF ExecInv

LEMMA ReadFileKeeps ==
  ASSUME Inv, ExecInv, NEW t \in Terminals, ReadFile(t)
  PROVE  ExecInv'
<1> USE NullNoAddr
<1>1. /\ at[t] = "file" /\ pc = "idle" /\ open' = open \ {t} /\ held \in [Addrs -> Nat]
      /\ UNCHANGED <<second, got, lost>>
      /\ \A u \in Terminals \ {t} : at[u] \in {"idle", "run"}
      /\ got \in Addrs \union {Null} /\ first[t] = Null /\ second[t] = Null
  BY Alone DEF ReadFile, Inv, TypeOK, ExecInv, ExecTypeOK, PointersAt
<1>2. \A b : Pending(b) <=> b = got
  BY <1>1 DEF Pending, Waits
<1>3. CASE got # Null /\ Kfree(got) /\ Goto(t, "idle") /\ UNCHANGED first
  BY <1>1, <1>3, FreeGotKeeps
<1>4. CASE got = Null /\ Goto(t, "idle") /\ UNCHANGED <<vars, first>>
  <2>1. pc' = pc /\ held' = held /\ at' = [at EXCEPT ![t] = "idle"] /\ first' = first
    BY <1>4 DEF vars, Goto
  <2>2. \A b \in Addrs : ~Pending(b) /\ ~Pending(b)' /\ (Owned(b)' <=> Owned(b))
    BY <1>1, <1>2, <1>4, <2>1 DEF Pending, Owned, Waits
  <2>3. Accounted' /\ OwnedOnce'
    BY <1>1, <2>1, <2>2 DEF ExecInv, Accounted, OwnedOnce
  <2>4. ExecTypeOK' /\ OneAtATime'
    BY <1>1, <2>1 DEF ExecInv, ExecTypeOK, OneAtATime, Waits
  <2>5. PointersAt'
    BY <1>1, <2>1 DEF ExecInv, ExecTypeOK, PointersAt
  <2> QED BY <2>3, <2>4, <2>5 DEF ExecInv
<1>5. CASE got # Null /\ first' = [first EXCEPT ![t] = got] /\ Goto(t, "check") /\ UNCHANGED vars
  <2>1. pc' = pc /\ held' = held /\ at' = [at EXCEPT ![t] = "check"] /\ got \in Addrs
    BY <1>1, <1>5 DEF vars, Goto
  <2>2. \A b \in Addrs : ~Pending(b)' /\ (Owned(b)' <=> Owned(b) \/ b = got)
    BY <1>1, <1>5, <2>1 DEF Pending, Owned, Waits, ExecInv, ExecTypeOK
  <2>3. ~Owned(got) /\ got \notin lost
    BY <1>2, <2>1 DEF ExecInv, OwnedOnce
  <2>4. Accounted'
    BY <1>1, <1>2, <2>1, <2>2 DEF ExecInv, Accounted
  <2>5. OwnedOnce'
    BY <1>1, <1>5, <2>2, <2>3 DEF ExecInv, ExecTypeOK, OwnedOnce, Owned
  <2>6. ExecTypeOK' /\ OneAtATime'
    BY <1>1, <1>5, <2>1 DEF ExecInv, ExecTypeOK, OneAtATime, Waits
  <2>7. PointersAt'
    BY <1>1, <1>5, <2>1 DEF ExecInv, ExecTypeOK, PointersAt
  <2> QED BY <2>4, <2>5, <2>6, <2>7 DEF ExecInv
<1> QED BY <1>3, <1>4, <1>5 DEF ReadFile

LEMMA CheckFileKeeps ==
  ASSUME Inv, ExecInv, NEW t \in Terminals, CheckFile(t)
  PROVE  ExecInv'
<1> USE NullNoAddr
<1>1. /\ at[t] = "check" /\ first[t] # Null /\ second[t] = Null /\ t \notin open
      /\ UNCHANGED <<open, second, got, lost>> /\ held \in [Addrs -> Nat]
      /\ \A u \in Terminals \ {t} : at[u] \in {"idle", "run"}
  BY Alone DEF CheckFile, Inv, TypeOK, ExecInv, ExecTypeOK, PointersAt
<1>2. CASE FreeFirst(t, "idle")
  BY <1>1, <1>2, FreeFirstKeeps DEF Waits
<1>3. CASE (\E size \in ImageSizes : Kmalloc(size)) /\ Goto(t, "image") /\ UNCHANGED first
  <2>1. pc = "idle" /\ pc' = "find" /\ held' = held /\ at' = [at EXCEPT ![t] = "image"]
    BY <1>3, KmallocFacts DEF Goto
  <2>2. \A b : ~Pending(b) /\ ~Pending(b)' /\ (Owned(b)' <=> Owned(b))
    BY <1>1, <1>3, <2>1 DEF Pending, Owned, Waits
  <2>3. Accounted' /\ OwnedOnce'
    BY <1>1, <1>3, <2>1, <2>2 DEF ExecInv, Accounted, OwnedOnce
  <2>4. ExecTypeOK' /\ OneAtATime'
    BY <1>1, <1>3, <2>1 DEF ExecInv, ExecTypeOK, OneAtATime, Waits
  <2>5. PointersAt'
    BY <1>1, <1>3, <2>1 DEF ExecInv, ExecTypeOK, PointersAt
  <2> QED BY <2>3, <2>4, <2>5 DEF ExecInv
<1> QED BY <1>2, <1>3 DEF CheckFile

LEMMA LoadImageKeeps ==
  ASSUME Inv, ExecInv, NEW t \in Terminals, LoadImage(t)
  PROVE  ExecInv'
<1> USE NullNoAddr
<1>1. /\ at[t] = "image" /\ pc = "idle" /\ first[t] # Null /\ second[t] = Null
      /\ t \notin open /\ UNCHANGED <<open, got, lost>> /\ held \in [Addrs -> Nat]
      /\ \A u \in Terminals \ {t} : at[u] \in {"idle", "run"}
      /\ got \in Addrs \union {Null}
  BY Alone DEF LoadImage, Inv, TypeOK, ExecInv, ExecTypeOK, PointersAt
<1>2. \A b : Pending(b) <=> b = got
  BY <1>1 DEF Pending, Waits
<1>3. CASE got = Null /\ FreeFirst(t, "idle") /\ UNCHANGED second
  BY <1>1, <1>3, FreeFirstKeeps
<1>4. CASE got # Null /\ Kfree(got) /\ Goto(t, "release") /\ UNCHANGED <<first, second>>
  <2>1. open' = open \ {t}
    BY <1>1 DEF ExecInv, ExecTypeOK
  <2> QED BY <1>1, <1>4, <2>1, FreeGotKeeps
<1>5. CASE got # Null /\ second' = [second EXCEPT ![t] = got] /\ Goto(t, "run")
           /\ UNCHANGED <<vars, first>>
  <2>1. /\ pc' = pc /\ held' = held /\ at' = [at EXCEPT ![t] = "run"] /\ got \in Addrs
        /\ first' = first
    BY <1>1, <1>5 DEF vars, Goto
  <2>2. \A b \in Addrs : ~Pending(b)' /\ (Owned(b)' <=> Owned(b) \/ b = got)
    BY <1>1, <1>5, <2>1 DEF Pending, Owned, Waits, ExecInv, ExecTypeOK
  <2>3. ~Owned(got) /\ got \notin lost
    BY <1>2, <2>1 DEF ExecInv, OwnedOnce
  <2>4. Accounted'
    BY <1>1, <1>2, <2>1, <2>2 DEF ExecInv, Accounted
  <2>5. OwnedOnce'
    BY <1>1, <1>5, <2>1, <2>2, <2>3 DEF ExecInv, ExecTypeOK, OwnedOnce, Owned
  <2>6. ExecTypeOK' /\ OneAtATime'
    BY <1>1, <1>5, <2>1 DEF ExecInv, ExecTypeOK, OneAtATime, Waits
  <2>7. PointersAt'
    BY <1>1, <1>5, <2>1 DEF ExecInv, ExecTypeOK, PointersAt
  <2> QED BY <2>4, <2>5, <2>6, <2>7 DEF ExecInv
<1> QED BY <1>3, <1>4, <1>5 DEF LoadImage

LEMMA AllocTestKeeps ==
  ASSUME Inv, ExecInv, NEW t \in Terminals, AllocTest(t)
  PROVE  ExecInv'
<1> USE NullNoAddr
<1>1. /\ at[t] = "allocB" /\ pc = "idle" /\ second[t] = Null /\ first[t] \in Addrs \union {Null}
      /\ t \notin open /\ UNCHANGED <<open, got>> /\ held \in [Addrs -> Nat]
      /\ \A u \in Terminals \ {t} : at[u] \in {"idle", "run"}
      /\ got \in Addrs \union {Null}
  BY Alone DEF AllocTest, Inv, TypeOK, ExecInv, ExecTypeOK, PointersAt
<1>2. \A b : Pending(b) <=> b = got
  BY <1>1 DEF Pending, Waits
<1>3. got # Null => ~Owned(got) /\ got \notin lost
  BY <1>1, <1>2 DEF ExecInv, OwnedOnce
<1>4. first[t] # Null => first[t] \notin lost
  BY <1>1 DEF ExecInv, OwnedOnce, Owned
<1>5. CASE /\ lost' = lost \union ({first[t], got} \ {Null})
           /\ first' = [first EXCEPT ![t] = Null]
           /\ Goto(t, "idle")
           /\ UNCHANGED <<vars, second>>
  <2>1. pc' = pc /\ held' = held /\ at' = [at EXCEPT ![t] = "idle"] /\ second' = second
    BY <1>5 DEF vars, Goto
  <2>2. \A b \in Addrs : ~Pending(b)' /\ (Owned(b)' <=> Owned(b) /\ b # first[t])
    BY <1>1, <1>5, <2>1 DEF Pending, Owned, Waits, ExecInv, ExecTypeOK, OwnedOnce
  <2>3. Accounted'
    BY <1>1, <1>2, <1>5, <2>1, <2>2 DEF ExecInv, Accounted, Owned
  <2>4. OwnedOnce'
    BY <1>1, <1>3, <1>5, <2>1, <2>2 DEF ExecInv, ExecTypeOK, OwnedOnce
  <2>5. ExecTypeOK' /\ OneAtATime'
    BY <1>1, <1>5, <2>1 DEF ExecInv, ExecTypeOK, OneAtATime, Waits
  <2>6. PointersAt'
    BY <1>1, <1>5, <2>1 DEF ExecInv, ExecTypeOK, PointersAt
  <2> QED BY <2>3, <2>4, <2>5, <2>6 DEF ExecInv
<1>6. CASE /\ Null \notin {first[t], got}
           /\ second' = [second EXCEPT ![t] = got]
           /\ FreeFirst(t, "freeB")
           /\ UNCHANGED lost
  <2>1. /\ pc' = "merge" /\ held' = [held EXCEPT ![first[t]] = 0]
        /\ at' = [at EXCEPT ![t] = "freeB"] /\ first' = [first EXCEPT ![t] = Null]
        /\ first[t] \in Addrs /\ got \in Addrs /\ first[t] # got
    BY <1>1, <1>3, <1>6, KfreeFacts DEF FreeFirst, Goto, Owned
  <2>2. \A b \in Addrs : ~Pending(b)'
                         /\ (Owned(b)' <=> b = got \/ (Owned(b) /\ b # first[t]))
    BY <1>1, <1>6, <2>1 DEF Pending, Owned, ExecInv, ExecTypeOK, OwnedOnce
  <2>3. Accounted'
    BY <1>1, <1>2, <1>4, <1>6, <2>1, <2>2 DEF ExecInv, Accounted
  <2>4. OwnedOnce'
    BY <1>1, <1>3, <1>6, <2>1, <2>2 DEF ExecInv, ExecTypeOK, OwnedOnce, Owned
  <2>5. ExecTypeOK' /\ OneAtATime'
    BY <1>1, <1>6, <2>1 DEF ExecInv, ExecTypeOK, OneAtATime, Waits
  <2>6. PointersAt'
    BY <1>1, <1>6, <2>1 DEF ExecInv, ExecTypeOK, PointersAt
  <2> QED BY <2>3, <2>4, <2>5, <2>6 DEF ExecInv
<1> QED BY <1>5, <1>6 DEF AllocTest

\* Every command keeps the invariant, and to the heap its step is one of the steps
\* any callers may take.
LEMMA ExecNextKeeps ==
  ASSUME Inv, ExecInv, ExecNext
  PROVE  ExecInv'
<1>1. CASE HeapTurn
  BY <1>1, HeapTurnKeeps
<1>2. ASSUME NEW t \in Terminals, Returned(t) PROVE ExecInv'
  <2>1. at[t] = "run" /\ (\A u \in Terminals : at[u] \in {"idle", "run"}) /\ held \in [Addrs -> Nat]
    BY <1>2 DEF Returned, Quiet, Inv, TypeOK
  <2> QED BY <1>2, <2>1, FreeSecondKeeps DEF Returned
<1>3. ASSUME NEW t \in Terminals, Release(t) PROVE ExecInv'
  <2>1. /\ at[t] = "release" /\ first[t] # Null /\ second[t] = Null /\ t \notin open
        /\ held \in [Addrs -> Nat] /\ \A u \in Terminals \ {t} : at[u] \in {"idle", "run"}
    BY <1>3, Alone DEF Release, Inv, TypeOK, ExecInv, PointersAt
  <2> QED BY <1>3, <2>1, FreeFirstKeeps DEF Release, Waits
<1>4. ASSUME NEW t \in Terminals, AllocEnd(t) PROVE ExecInv'
  <2>1. /\ at[t] = "freeB" /\ held \in [Addrs -> Nat]
        /\ \A u \in Terminals \ {t} : at[u] \in {"idle", "run"}
    BY <1>4, Alone DEF AllocEnd, Inv, TypeOK
  <2> QED BY <1>4, <2>1, FreeSecondKeeps DEF AllocEnd
<1> QED
  BY <1>1, <1>2, <1>3, <1>4, ExecStartKeeps, ReadFileKeeps, CheckFileKeeps, LoadImageKeeps,
     AllocStartKeeps, AllocSecondKeeps, AllocTestKeeps DEF ExecNext

LEMMA ExecStepsHeap ==
  ASSUME ExecInv, ExecNext
  PROVE  [Next]_vars
<1> USE NullNoAddr
<1>1. /\ \A t \in Terminals : {first[t], second[t], got} \subseteq Addrs \union {Null}
      /\ \A t \in Terminals : at[t] \in {"check", "image", "release"} => first[t] # Null
      /\ \A t \in Terminals : at[t] \in {"run", "freeB"} => second[t] # Null
  BY DEF ExecInv, ExecTypeOK, PointersAt
<1>2. CASE HeapTurn
  BY <1>2 DEF HeapTurn, Next
<1>3. ASSUME NEW t \in Terminals, ExecStart(t) PROVE Next
  BY <1>3, ExecAssumption DEF ExecStart, Next
<1>4. ASSUME NEW t \in Terminals, ReadFile(t) PROVE [Next]_vars
  BY <1>1, <1>4 DEF ReadFile, Next
<1>5. ASSUME NEW t \in Terminals, CheckFile(t) PROVE Next
  BY <1>1, <1>5, ExecAssumption DEF CheckFile, FreeFirst, Next
<1>6. ASSUME NEW t \in Terminals, LoadImage(t) PROVE [Next]_vars
  BY <1>1, <1>6 DEF LoadImage, FreeFirst, Next
<1>7. ASSUME NEW t \in Terminals, Returned(t) \/ Release(t) \/ AllocEnd(t) PROVE Next
  BY <1>1, <1>7 DEF Returned, Release, AllocEnd, FreeFirst, FreeSecond, Next
<1>8. ASSUME NEW t \in Terminals, AllocStart(t) \/ AllocSecond(t) PROVE Next
  BY <1>8, ExecAssumption DEF AllocStart, AllocSecond, Next
<1>9. ASSUME NEW t \in Terminals, AllocTest(t) PROVE [Next]_vars
  BY <1>1, <1>9 DEF AllocTest, FreeFirst, Next
<1> QED BY <1>2, <1>3, <1>4, <1>5, <1>6, <1>7, <1>8, <1>9 DEF ExecNext

-----------------------------------------------------------------------------

\* In the kernel, from the boot on, the heap's invariant and that of its callers
\* hold in every state.
THEOREM KernelInvariance == KernelSpec => [](Inv /\ ExecInv)
<1>1. KernelInit => Inv /\ ExecInv
  BY InitInv, ExecInitInv DEF KernelInit
<1>2. Inv /\ ExecInv /\ [KernelNext]_kernelVars => Inv' /\ ExecInv'
  <2> SUFFICES ASSUME Inv, ExecInv, [KernelNext]_kernelVars PROVE Inv' /\ ExecInv'
    OBVIOUS
  <2>1. CASE ExecNext
    BY <2>1, ExecNextKeeps, ExecStepsHeap, StepKeeps
  <2>2. CASE UNCHANGED <<vars, execVars>>
    <3>1. Inv'
      BY <2>2, StepKeeps
    <3>2. ExecInv'
      BY <2>2 DEF vars, execVars, ExecInv, ExecTypeOK, OneAtATime, PointersAt, Accounted,
         OwnedOnce, Pending, Owned
    <3> QED BY <3>1, <3>2
  <2> QED BY <2>1, <2>2 DEF KernelNext, kernelVars
<1> QED BY <1>1, <1>2, PTL DEF KernelSpec

\* The kernel's use of the heap, set up by kmain and called by exec and alloc, is
\* one the module Heap allows: whatever is proved of the heap with any callers
\* holds of the kernel.
THEOREM KernelUsesHeap == KernelSpec => Spec
<1>1. KernelInit => Init
  BY DEF KernelInit
<1>2. ExecInv /\ [KernelNext]_kernelVars => [Next]_vars
  <2> SUFFICES ASSUME ExecInv, [KernelNext]_kernelVars PROVE [Next]_vars
    OBVIOUS
  <2>1. CASE ExecNext
    BY <2>1, ExecStepsHeap
  <2>2. CASE UNCHANGED vars
    BY <2>2
  <2> QED BY <2>1, <2>2 DEF KernelNext, kernelVars
<1> QED BY <1>1, <1>2, KernelInvariance, PTL DEF KernelSpec, Spec

\* No path through exec_run_elf leaks a block or a descriptor, or gives back a
\* block that another program still uses, for any number of terminals, any sizes
\* and any heap.
THEOREM ExecReleasesCorrect == KernelSpec => []ExecReleases
<1>1. Inv /\ ExecInv => ExecReleases
  <2> SUFFICES ASSUME ExecInv, Quiet PROVE ExecReleases
    BY DEF ExecReleases
  <2> USE NullNoAddr
  <2> DEFINE running == {t \in Terminals : at[t] = "run"}
  <2>1. open = {}
    BY DEF ExecInv, ExecTypeOK, PointersAt, Quiet
  <2>2. \A t \in Terminals \ running : first[t] = Null /\ second[t] = Null
    BY DEF ExecInv, PointersAt, Quiet
  <2>3. \A t \in running : first[t] \in Addrs /\ second[t] \in Addrs
    BY DEF ExecInv, ExecTypeOK, PointersAt
  <2>4. \A b : ~Pending(b)
    BY DEF Pending, Waits, Quiet
  <2>5. \A b \in Addrs : held[b] # 0 <=> \/ b \in lost
                                         \/ \E t \in running : b = first[t] \/ b = second[t]
    BY <2>2, <2>4 DEF ExecInv, Accounted, Owned
  <2>6. {b \in Addrs : held[b] # 0} =
          lost \union {first[t] : t \in running} \union {second[t] : t \in running}
    BY <2>3, <2>5 DEF ExecInv, ExecTypeOK
  <2>7. \A t, u \in running :
          first[t] # second[u] /\ (t # u => first[t] # first[u] /\ second[t] # second[u])
    BY <2>3 DEF ExecInv, OwnedOnce
  <2> QED BY <2>1, <2>6, <2>7 DEF ExecReleases
<1> QED BY <1>1, KernelInvariance, PTL

\* The heap of the running kernel tiles the arena, and is one free block again
\* whenever no program is loaded and alloc has lost nothing.
THEOREM KernelHeapSound == KernelSpec => [](BlocksTile /\ AllFreeIsWhole)
BY KernelUsesHeap, BlocksTileCorrect, AllFreeIsWholeCorrect, PTL
=============================================================================
