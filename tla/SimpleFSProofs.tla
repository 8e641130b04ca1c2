---------------------------- MODULE SimpleFSProofs ----------------------------
(***************************************************************************)
(* Proofs about SimpleFS, for every geometry of the disk, every size of    *)
(* the node table, every set of paths, buffers and offsets: its invariant, *)
(* and that it implements FileStore through the mapping of SimpleFSStore.  *)
(***************************************************************************)
EXTENDS SimpleFSStore, SimpleFSCrash, TLAPS, SequenceTheorems, WellFoundedInduction

\* Division with remainder, by a divisor that is not a literal.
LEMMA DivMod ==
  ASSUME NEW a \in Nat, NEW n \in Nat \ {0}
  PROVE  /\ a \div n \in Nat
         /\ a % n \in 0 .. n - 1
         /\ a = (a \div n) * n + (a % n)
<1>1. a % n \in 0 .. n - 1
  BY SMT
<1>2. a = (a \div n) * n + (a % n)
  BY SMT
<1>3. a \div n \in Int
  BY SMT
<1>4. a \div n >= 0
  BY SMT
<1> QED
  BY <1>1, <1>2, <1>3, <1>4

\* The sectors sfs_write asks for hold the bytes up to the end of the write.
LEMMA NeedIsEnough ==
  ASSUME NEW end \in Nat
  PROVE  NeedSectors(end) \in Nat /\ end <= NeedSectors(end) * SectorSize
<1>1. SectorSize \in Nat \ {0} /\ end + SectorSize - 1 \in Nat
  BY SizesAssumption
<1>2. /\ NeedSectors(end) \in Nat
      /\ end + SectorSize - 1 = NeedSectors(end) * SectorSize + ((end + SectorSize - 1) % SectorSize)
      /\ (end + SectorSize - 1) % SectorSize \in 0 .. SectorSize - 1
  BY <1>1, DivMod DEF NeedSectors
<1> QED
  BY <1>1, <1>2

\* A position inside an extent of cap sectors lies in one of them.
LEMMA DivBelow ==
  ASSUME NEW pos \in Nat, NEW n \in Nat \ {0}, NEW cap \in Nat, pos < cap * n
  PROVE  pos \div n \in Nat /\ pos \div n < cap
<1>1. /\ pos \div n \in Nat
      /\ pos % n \in 0 .. n - 1
      /\ pos = (pos \div n) * n + (pos % n)
  BY DivMod
<1>2. ASSUME NEW q \in Nat, cap <= q PROVE cap * n <= q * n
  BY <1>2, SMT
<1> QED
  BY <1>1, <1>2

\* The constants a proof needs most, free of the names of the node table.
LEMMA Sizes ==
  /\ MaxEntries \in Nat \ {0}
  /\ PerSector \in Nat \ {0}
  /\ SectorSize \in Nat \ {0}
  /\ DataLba \in Nat \ {0}
  /\ SectorCount \in Nat
  BY SizesAssumption, TableAssumption, Zenon

\* Every slot of the node table is in one of the sectors sfs_flush writes.
LEMMA SlotsCovered ==
  ASSUME NEW i \in Ids
  PROVE  i \div PerSector \in Nat /\ i \div PerSector < TableSectors
<1>1. PerSector \in Nat \ {0} /\ MaxEntries \in Nat \ {0} /\ i \in Nat /\ i < MaxEntries
  BY Sizes DEF Ids
<1>2. MaxEntries + PerSector - 1 \in Nat
  BY <1>1
<1>3. /\ TableSectors \in Nat
      /\ MaxEntries + PerSector - 1 = TableSectors * PerSector + ((MaxEntries + PerSector - 1) % PerSector)
      /\ (MaxEntries + PerSector - 1) % PerSector \in 0 .. PerSector - 1
  BY <1>1, <1>2, DivMod DEF TableSectors
<1>4. i < TableSectors * PerSector
  BY <1>1, <1>3
<1> QED
  BY <1>1, <1>3, <1>4, DivBelow

-----------------------------------------------------------------------------
(* Types.                                                                  *)

LEMMA FreeEntryType == FreeEntry \in Entry
<1>1. 0 \in Ids
  BY Sizes DEF Ids
<1> QED
  BY <1>1 DEF FreeEntry, Entry

LEMMA NewEntryType ==
  ASSUME NEW dir \in Ids, NEW type \in {"file", "dir"}, NEW name \in AnyName \union {"", "/"}
  PROVE  NewEntry(dir, type, name) \in Entry
  BY DEF NewEntry, Entry

LEMMA FormattedTableType == FormattedTable \in [Ids -> Entry]
<1>1. Root \in Ids
  BY Sizes DEF Ids, Root
<1>2. NewEntry(Root, "dir", "/") \in Entry
  BY <1>1, NewEntryType
<1> QED
  BY <1>2, FreeEntryType DEF FormattedTable

LEMMA NoJobType == NoJob \in Job
<1>1. 0 \in Ids
  BY Sizes DEF Ids
<1> QED
  BY <1>1 DEF NoJob, Job, Root

\* A slot whose size is set stays an entry, with its extent.
LEMMA ResizedEntry ==
  ASSUME NEW e \in Entry, NEW n \in Nat
  PROVE  /\ [e EXCEPT !.size = n] \in Entry
         /\ [e EXCEPT !.size = n].start = e.start
         /\ [e EXCEPT !.size = n].cap = e.cap
  BY DEF Entry

\* A slot that is given an extent stays an entry, with that extent.
LEMMA MovedEntry ==
  ASSUME NEW e \in Entry, NEW n \in Nat, NEW m \in Nat
  PROVE  /\ WithExtent(e, n, m) \in Entry
         /\ WithExtent(e, n, m).start = n
         /\ WithExtent(e, n, m).cap = m
  BY DEF Entry, WithExtent

LEMMA ResizedTable ==
  ASSUME NEW es \in [Ids -> Entry], NEW id \in Ids, NEW n \in Nat,
         NEW fs, fs = [es EXCEPT ![id] = [es[id] EXCEPT !.size = n]]
  PROVE  \A i \in Ids : fs[i].start = es[i].start /\ fs[i].cap = es[i].cap
<1>1. /\ es[id] \in Entry /\ fs[id] = [es[id] EXCEPT !.size = n]
      /\ \A i \in Ids : i # id => fs[i] = es[i]
  OBVIOUS
<1>2. fs[id].start = es[id].start /\ fs[id].cap = es[id].cap
  BY <1>1, ResizedEntry
<1> QED
  BY <1>1, <1>2

\* A sector with a part of the buffer patched in is a sector.
LEMMA PatchedType ==
  ASSUME NEW old \in Sector, NEW buf \in Seq(Bytes), NEW done \in Nat,
         NEW inSector \in Nat, NEW chunk \in Nat, chunk <= Len(buf) - done
  PROVE  Patched(old, inSector, chunk, buf, done) \in Sector
<1> SUFFICES ASSUME NEW b \in 0 .. SectorSize - 1
             PROVE  (IF b >= inSector /\ b < inSector + chunk
                     THEN buf[done + b - inSector + 1] ELSE old[b]) \in Bytes
  BY DEF Patched, Sector
<1>1. CASE b >= inSector /\ b < inSector + chunk
  <2>1. done + b - inSector + 1 \in 1 .. Len(buf)
    BY <1>1, Sizes
  <2> QED
    BY <1>1, <2>1
<1>2. CASE ~(b >= inSector /\ b < inSector + chunk)
  BY <1>2 DEF Sector
<1> QED
  BY <1>1, <1>2

\* The tails every call of simplefs.c ends in.
LEMMA TailTypes ==
  ASSUME TypeOK
  PROVE  /\ \A r \in {"ok", "fail"} : Return(r) =>
              pc' = "idle" /\ job' \in Job /\ ret' \in {"ok", "fail"}
         /\ StartFlush => pc' = "flush" /\ job' \in Job /\ ret' \in {"ok", "fail"}
         /\ Refuse => TypeOK'
<1>1. \A r \in {"ok", "fail"} : Return(r) =>
        pc' = "idle" /\ job' \in Job /\ ret' \in {"ok", "fail"}
  BY NoJobType DEF Return
<1>2. StartFlush => pc' = "flush" /\ job' \in Job /\ ret' \in {"ok", "fail"}
  BY NoJobType DEF StartFlush, TypeOK
<1>3. Refuse => TypeOK'
  BY <1>1 DEF Refuse, TypeOK, memory, disk
<1> QED
  BY <1>1, <1>2, <1>3

\* The file of the current call and its arguments.
LEMMA JobTypes ==
  ASSUME TypeOK
  PROVE  /\ job.id \in Ids /\ job.off \in Nat /\ job.done \in Nat
         /\ job.buf \in Seq(Bytes) /\ Len(job.buf) \in Nat
         /\ entries[job.id] \in Entry
         /\ entries[job.id].start \in Nat
         /\ entries[job.id].cap \in Nat
         /\ entries[job.id].size \in Nat
<1>1. /\ job.id \in Ids /\ job.off \in Nat /\ job.done \in Nat
      /\ job.buf \in Seq(Bytes) /\ Len(job.buf) \in Nat
  BY DEF TypeOK, Job
<1>2. entries[job.id] \in Entry
  BY <1>1 DEF TypeOK
<1> QED
  BY <1>1, <1>2 DEF Entry

\* blockdev_read and blockdev_write only reach sectors of the device.
LEMMA TransfersInRange ==
  ASSUME NEW l \in Nat
  PROVE  /\ \A r \in ReadOutcomes(l) : r => l \in Lbas
         /\ \A w \in WriteOutcomes(l) : Landed(w) => l \in Lbas
<1>1. ~(l >= SectorCount) => l \in Lbas
  BY Sizes DEF Lbas
<1>2. \A r \in ReadOutcomes(l) : r => ~(l >= SectorCount)
  BY Zenon DEF ReadOutcomes
<1>3. \A w \in WriteOutcomes(l) : Landed(w) => ~(l >= SectorCount)
  BY DEF WriteOutcomes, Landed
<1> QED
  BY <1>1, <1>2, <1>3

LEMMA TypeStep ==
  ASSUME TypeOK, [Next]_vars
  PROVE  TypeOK'
<1> USE TailTypes
<1>1. CASE Mount
  BY <1>1 DEF Mount, TypeOK, disk
<1>2. CASE Format
  BY <1>2, FormattedTableType, Sizes DEF Format, TypeOK, disk
<1>3. ASSUME NEW p \in Paths, NEW type \in NodeTypes, CreateIn(Root, p, type)
      PROVE  TypeOK'
  <2>1. CASE Refuse
    BY <2>1
  <2>2. CASE ~Refuse
    <3> DEFINE name == CreateTarget(entries, Root, p).name
    <3>1. PICK dir \in Ids, idx \in Ids :
            /\ idx = CreateSlot(entries, Root, p)
            /\ entries' = [entries EXCEPT ![idx] = NewEntry(dir, type, name)]
            /\ StartFlush
            /\ UNCHANGED <<nextFree, disk>>
      BY <1>3, <2>2 DEF CreateIn
    <3>2. name \in AnyName
      <4>1. p.comps \in Seq(AnyName) /\ p.comps # <<>>
        <5>1. NoNode \notin Ids
          BY Sizes DEF NoNode, Ids
        <5>2. p.comps # <<>>
          BY <3>1, <5>1, Zenon DEF CreateSlot
        <5> QED
          BY <5>2, InputsAssumption DEF Path
      <4> QED
        BY <4>1 DEF CreateTarget, Last
    <3>3. type \in {"file", "dir"}
      BY InputsAssumption
    <3> HIDE DEF name
    <3>4. NewEntry(dir, type, name) \in Entry
      BY <3>2, <3>3, NewEntryType
    <3> QED
      BY <3>1, <3>4 DEF TypeOK, disk
  <2> QED
    BY <2>1, <2>2
<1>4. ASSUME NEW p \in Paths, RemoveIn(Root, p)
      PROVE  TypeOK'
  <2>1. CASE Refuse
    BY <2>1
  <2>2. CASE ~Refuse
    <3>1. PICK id \in Ids :
            /\ entries' = [entries EXCEPT ![id] = FreeEntry]
            /\ StartFlush
            /\ UNCHANGED <<nextFree, disk>>
      BY <1>4, <2>2 DEF RemoveIn
    <3> QED
      BY <3>1, FreeEntryType DEF TypeOK, disk
  <2> QED
    BY <2>1, <2>2
<1>5. ASSUME NEW id \in Ids, Truncate(id)
      PROVE  TypeOK'
  <2>1. CASE Refuse
    BY <2>1
  <2>2. CASE ~Refuse
    <3>1. entries[id] \in Entry /\ [entries[id] EXCEPT !.size = 0] \in Entry
      BY ResizedEntry DEF TypeOK
    <3> QED
      BY <1>5, <2>2, <3>1 DEF Truncate, TypeOK, disk
  <2> QED
    BY <2>1, <2>2
<1>6. ASSUME NEW id \in Ids, NEW buf \in Bufs, NEW off \in Offsets, Write(id, off, buf)
      PROVE  TypeOK'
  <2>1. CASE Refuse
    BY <2>1
  <2>2. CASE ~Refuse
    <3> DEFINE need == NeedSectors(off + Len(buf))
    <3>1. buf \in Seq(Bytes) /\ off \in Nat
      BY InputsAssumption
    <3>2. need \in Nat
      <4>1. off + Len(buf) \in Nat
        BY <3>1
      <4> QED
        BY <4>1, NeedIsEnough
    <3>3. job' \in Job
      BY <1>6, <2>2, <3>1 DEF Write, Job
    <3> HIDE DEF need
    <3>4. WithExtent(entries[id], nextFree, need) \in Entry
      BY <3>2, MovedEntry DEF TypeOK
    <3>5. entries' \in [Ids -> Entry] /\ nextFree' \in Nat
      <4>1. CASE entries[id].start = 0
        BY <1>6, <2>2, <3>2, <3>4, <4>1 DEF Write, TypeOK, need
      <4>2. CASE entries[id].start # 0
        BY <1>6, <2>2, <4>2 DEF Write, TypeOK, memory
      <4> QED
        BY <4>1, <4>2
    <3> QED
      BY <1>6, <2>2, <3>3, <3>5 DEF Write, TypeOK, disk
  <2> QED
    BY <2>1, <2>2
<1>7. CASE CopySector
  <2> DEFINE src == entries[job.id].start + job.done
             dst == nextFree + job.done
  <2>1. src \in Nat /\ dst \in Nat /\ job.done + 1 \in Nat
    <3>1. job.done \in Nat /\ entries[job.id].start \in Nat /\ nextFree \in Nat
      BY JobTypes DEF TypeOK
    <3> QED
      BY <3>1
  <2>2. PICK readable \in ReadOutcomes(src), w \in WriteOutcomes(dst) :
          /\ data' = IF readable /\ Landed(w)
                     THEN [data EXCEPT ![dst] = data[src]] ELSE data
          /\ \/ job' = [job EXCEPT !.done = @ + 1] /\ UNCHANGED <<pc, ret>>
             \/ Return("fail")
    BY <1>7 DEF CopySector
  <2>3. data' \in [Lbas -> Sector]
    <3>1. CASE readable /\ Landed(w)
      <4>1. src \in Lbas
        BY <2>1, <3>1, TransfersInRange
      <4> QED
        BY <2>2, <4>1 DEF TypeOK
    <3> QED
      BY <2>2, <3>1 DEF TypeOK
  <2>4. job' \in Job /\ pc' \in {"idle", "copy"} /\ ret' \in {"ok", "fail"}
    BY <1>7, <2>1, <2>2 DEF CopySector, TypeOK, Job
  <2> QED
    BY <1>7, <2>3, <2>4 DEF CopySector, TypeOK, memory
<1>8. CASE Relocate
  <2> DEFINE need == NeedSectors(job.off + Len(job.buf))
  <2>1. job.off + Len(job.buf) \in Nat
    BY DEF TypeOK, Job
  <2>2. need \in Nat
    BY <2>1, NeedIsEnough
  <2> HIDE DEF need
  <2>3. WithExtent(entries[job.id], nextFree, need) \in Entry
    BY <2>2, JobTypes, MovedEntry DEF TypeOK
  <2>4. entries' \in [Ids -> Entry] /\ nextFree' \in Nat
    BY <1>8, <2>2, <2>3, JobTypes DEF Relocate, TypeOK, need
  <2>5. job' \in Job
    BY <1>8 DEF Relocate, TypeOK, Job
  <2> QED
    BY <1>8, <2>4, <2>5 DEF Relocate, TypeOK, disk
<1>9. CASE FillSector
  <2> DEFINE pos      == job.off + job.done
             lba      == entries[job.id].start + pos \div SectorSize
             inSector == pos % SectorSize
             room     == SectorSize - inSector
             left     == Len(job.buf) - job.done
             chunk    == IF room > left THEN left ELSE room
  <2>1. /\ pos \in Nat /\ job.done \in Nat /\ job.buf \in Seq(Bytes)
        /\ Len(job.buf) \in Nat /\ job.done < Len(job.buf)
    BY <1>9 DEF FillSector, TypeOK, Job
  <2>2. inSector \in 0 .. SectorSize - 1 /\ pos \div SectorSize \in Nat
    BY <2>1, Sizes, DivMod
  <2>3. lba \in Nat
    BY <2>2, JobTypes
  <2>4. inSector \in Nat /\ chunk \in Nat /\ chunk <= Len(job.buf) - job.done
    <3>1. inSector \in Nat /\ room \in Nat /\ left \in Nat
      <4> HIDE DEF inSector
      <4> QED
        BY <2>1, <2>2, Sizes
    <3> HIDE DEF inSector, room
    <3> QED
      BY <3>1
  <2>5. PICK readable \in ReadOutcomes(lba), w \in WriteOutcomes(lba) :
          /\ data' = IF Landed(w)
                     THEN [data EXCEPT ![lba] =
                             Patched(IF readable THEN data[lba] ELSE Blank,
                                     inSector, chunk, job.buf, job.done)]
                     ELSE data
          /\ \/ job' = [job EXCEPT !.done = @ + chunk] /\ UNCHANGED <<pc, ret>>
             \/ Return("fail")
    BY <1>9 DEF FillSector
  <2> DEFINE old == IF readable THEN data[lba] ELSE Blank
  <2>6. data' \in [Lbas -> Sector]
    <3>1. old \in Sector
      <4>1. CASE readable
        <5>1. lba \in Lbas
          BY <2>3, <4>1, TransfersInRange
        <5> QED
          BY <4>1, <5>1 DEF TypeOK
      <4>2. CASE ~readable
        BY <4>2, InputsAssumption DEF Blank, Sector
      <4> QED
        BY <4>1, <4>2
    <3> HIDE DEF old, inSector, chunk, lba
    <3>2. Patched(old, inSector, chunk, job.buf, job.done) \in Sector
      BY <2>1, <2>4, <3>1, PatchedType
    <3>3. data' = IF Landed(w)
                  THEN [data EXCEPT ![lba] = Patched(old, inSector, chunk, job.buf, job.done)]
                  ELSE data
      BY <2>5 DEF old
    <3> QED
      BY <3>2, <3>3 DEF TypeOK
  <2> HIDE DEF chunk
  <2>7. job' \in Job /\ pc' \in {"idle", "fill"} /\ ret' \in {"ok", "fail"}
    <3>1. pc = "fill" /\ job \in Job /\ ret \in {"ok", "fail"}
      BY <1>9 DEF FillSector, TypeOK
    <3>2. job.done + chunk \in Nat
      BY <2>1, <2>4
    <3>3. [job EXCEPT !.done = @ + chunk] \in Job
      BY <3>1, <3>2 DEF Job
    <3>4. /\ job' = [job EXCEPT !.done = @ + chunk] \/ job' = NoJob
          /\ pc' \in {"idle", "fill"} /\ ret' \in {"ok", "fail"}
      BY <2>5, <3>1 DEF Return
    <3> QED
      BY <3>3, <3>4, NoJobType
  <2> QED
    BY <1>9, <2>6, <2>7 DEF FillSector, TypeOK, memory
<1>10. CASE SetSize
  <2> DEFINE end == job.off + Len(job.buf)
             new == IF end > entries[job.id].size THEN end ELSE entries[job.id].size
  <2>1. job.id \in Ids /\ new \in Nat /\ entries[job.id] \in Entry
    BY JobTypes
  <2>2. entries' = [entries EXCEPT ![job.id] = [entries[job.id] EXCEPT !.size = new]]
    BY <1>10 DEF SetSize
  <2> HIDE DEF new
  <2>3. entries' \in [Ids -> Entry]
    BY <2>1, <2>2, ResizedEntry DEF TypeOK
  <2> QED
    BY <1>10, <2>3 DEF SetSize, TypeOK, disk
<1>11. CASE FlushSuper
  <2>1. dSuper' \in [signed : BOOLEAN, next : Nat]
    BY <1>11 DEF FlushSuper, TypeOK
  <2>2. job' \in Job /\ pc' \in {"idle", "flush"} /\ ret' \in {"ok", "fail"}
    BY <1>11 DEF FlushSuper, TypeOK, Job
  <2> QED
    BY <1>11, <2>1, <2>2 DEF FlushSuper, TypeOK, memory
<1>12. CASE FlushTable
  <2>1. dTable' \in [Ids -> Entry]
    BY <1>12 DEF FlushTable, TypeOK
  <2>2. job' \in Job /\ pc' \in {"idle", "flush"} /\ ret' \in {"ok", "fail"}
    BY <1>12 DEF FlushTable, TypeOK, Job
  <2> QED
    BY <1>12, <2>1, <2>2 DEF FlushTable, TypeOK, memory
<1>13. CASE Crash
  BY <1>13, FreeEntryType, NoJobType DEF Crash, TypeOK, disk
<1>14. CASE UNCHANGED vars
  BY <1>14 DEF vars, TypeOK
<1> QED
  BY <1>1, <1>2, <1>3, <1>4, <1>5, <1>6, <1>7, <1>8, <1>9, <1>10, <1>11, <1>12, <1>13, <1>14
     DEF Next

LEMMA InitTypes ==
  ASSUME Init
  PROVE  TypeOK
<1>1. entries \in [Ids -> Entry] /\ dTable \in [Ids -> Entry]
  BY FreeEntryType, FormattedTableType DEF Init
<1>2. dSuper \in [signed : BOOLEAN, next : Nat]
  <2>1. \/ dSuper = [signed |-> FALSE, next |-> 0]
        \/ dSuper = [signed |-> TRUE, next |-> DataLba]
    BY DEF Init
  <2>2. DataLba \in Nat
    BY Sizes
  <2>3. CASE dSuper = [signed |-> FALSE, next |-> 0]
    BY <2>3
  <2>4. CASE dSuper = [signed |-> TRUE, next |-> DataLba]
    BY <2>2, <2>4
  <2> QED
    BY <2>1, <2>3, <2>4
<1>3. data \in [Lbas -> Sector]
  BY InputsAssumption DEF Init, Blank, Sector
<1> QED
  BY <1>1, <1>2, <1>3, NoJobType DEF Init, TypeOK

\* Every variable of simplefs.c keeps its type.
THEOREM TypeCorrect == Spec => []TypeOK
<1>1. Init => TypeOK
  BY InitTypes
<1>2. TypeOK /\ [Next]_vars => TypeOK'
  BY TypeStep
<1> QED
  BY <1>1, <1>2, PTL DEF Spec

-----------------------------------------------------------------------------
(* Extents.                                                                *)

LEMMA ExtentTypes ==
  ASSUME NEW es \in [Ids -> Entry], NEW i \in Ids
  PROVE  es[i].start \in Nat /\ es[i].cap \in Nat
<1>1. es[i] \in Entry
  OBVIOUS
<1> QED
  BY <1>1 DEF Entry

\* A table whose slots keep their extent or lose it is as well placed as before.
LEMMA ShrinkKeeps ==
  ASSUME NEW es \in [Ids -> Entry], NEW fs \in [Ids -> Entry], NEW gs \in [Ids -> Entry],
         NEW n \in Nat,
         \A i \in Ids : \/ fs[i].cap = 0
                        \/ fs[i].start = es[i].start /\ fs[i].cap = es[i].cap
  PROVE  /\ Below(es, n) => Below(fs, n)
         /\ Apart(es, gs) => Apart(fs, gs)
         /\ Apart(es, es) => Apart(fs, fs)
<1>1. Below(es, n) => Below(fs, n)
  BY ExtentTypes DEF Below
<1>2. Apart(es, gs) => Apart(fs, gs)
  BY DEF Apart, Disjoint
<1>3. Apart(es, es) => Apart(fs, fs)
  BY DEF Apart, Disjoint
<1> QED
  BY <1>1, <1>2, <1>3

\* An extent taken at the bump pointer is clear of everything below it.
LEMMA AppendKeeps ==
  ASSUME NEW es \in [Ids -> Entry], NEW gs \in [Ids -> Entry], NEW id \in Ids,
         NEW n \in Nat, NEW m \in Nat, NEW need \in Nat, DataLba <= n, m <= n,
         Below(es, n), Apart(es, es), Below(gs, m), Apart(es, gs),
         NEW fs \in [Ids -> Entry],
         fs[id].start = n, fs[id].cap = need, \A i \in Ids : i # id => fs[i] = es[i]
  PROVE  Below(fs, n + need) /\ Apart(fs, fs) /\ Apart(fs, gs)
<1>1. \A i \in Ids : fs[i].cap > 0 => DataLba <= fs[i].start /\ fs[i].start + fs[i].cap <= n + need
  BY ExtentTypes, Sizes DEF Below
<1>2. \A i \in Ids : i # id => Disjoint(fs[i], fs[id]) /\ Disjoint(fs[id], fs[i])
  BY ExtentTypes, Sizes DEF Below, Disjoint
<1>3. \A i \in Ids : i # id => Disjoint(fs[id], gs[i])
  BY ExtentTypes, Sizes DEF Below, Disjoint
<1>4. \A i, j \in Ids : i # j => Disjoint(fs[i], fs[j]) /\ Disjoint(fs[i], gs[j])
  BY <1>2, <1>3 DEF Apart
<1> QED
  BY <1>1, <1>4 DEF Below, Apart

\* A table some of whose slots come from es and the others from gs, which is
\* what a partial sfs_flush leaves, is as well placed as both.
LEMMA MixKeeps ==
  ASSUME NEW es \in [Ids -> Entry], NEW gs \in [Ids -> Entry], NEW hs \in [Ids -> Entry],
         NEW n \in Nat, \A i \in Ids : hs[i] = es[i] \/ hs[i] = gs[i],
         Below(es, n), Apart(es, es), Below(gs, n), Apart(gs, gs), Apart(es, gs)
  PROVE  Below(hs, n) /\ Apart(hs, hs) /\ Apart(es, hs)
<1>1. Below(hs, n)
  BY DEF Below
<1>2. ASSUME NEW i \in Ids, NEW j \in Ids, i # j
      PROVE  /\ Disjoint(es[i], es[j]) /\ Disjoint(gs[i], gs[j])
             /\ Disjoint(es[i], gs[j]) /\ Disjoint(gs[i], es[j])
  <2>1. Disjoint(es[i], es[j]) /\ Disjoint(gs[i], gs[j]) /\ Disjoint(es[i], gs[j]) /\ Disjoint(es[j], gs[i])
    BY <1>2 DEF Apart
  <2> QED
    BY <2>1 DEF Disjoint
<1>3. \A i, j \in Ids : i # j => Disjoint(hs[i], hs[j]) /\ Disjoint(es[i], hs[j])
  BY <1>2
<1> QED
  BY <1>1, <1>3 DEF Apart

-----------------------------------------------------------------------------
(* The invariant.                                                          *)

\* A call that gives up: whatever it did to data sectors, the metadata stay.
LEMMA AbortKeeps ==
  ASSUME Inv, TypeOK', Return("fail"), UNCHANGED <<memory, dSuper, dTable>>, pc # "off"
  PROVE  Inv'
  BY DEF Inv, Return, memory, ExtentsDisjoint, CrashConsistent, TablesApart, PointersOrdered,
         WriteFits, FlushProgress, SuccessIsDurable, Placed, Below, Apart

\* A call that changed slots without giving any an extent, and now flushes.
LEMMA ShrinkAndFlush ==
  ASSUME Inv, TypeOK', StartFlush, UNCHANGED <<nextFree, disk>>, pc # "off",
         \A i \in Ids : \/ entries'[i].cap = 0
                        \/ /\ entries'[i].start = entries[i].start
                           /\ entries'[i].cap = entries[i].cap
  PROVE  Inv'
<1>1. /\ entries \in [Ids -> Entry] /\ entries' \in [Ids -> Entry]
      /\ dTable \in [Ids -> Entry] /\ nextFree \in Nat
  BY DEF Inv, TypeOK
<1>2. Below(entries', nextFree) /\ Apart(entries', dTable) /\ Apart(entries', entries')
  BY <1>1, ShrinkKeeps DEF Inv, ExtentsDisjoint, TablesApart, Placed
<1>3. pc' = "flush" /\ job'.done = 0
  BY DEF StartFlush, NoJob
<1>4. nextFree' = nextFree /\ dSuper' = dSuper /\ dTable' = dTable
  BY DEF disk
<1>5. ExtentsDisjoint' /\ TablesApart' /\ CrashConsistent'
  BY <1>2, <1>4 DEF Inv, ExtentsDisjoint, TablesApart, CrashConsistent, Placed, Below, Apart
<1> QED
  BY <1>3, <1>4, <1>5 DEF Inv, PointersOrdered, WriteFits, FlushProgress, SuccessIsDurable

\* A file gets an extent at the bump pointer and its data loop begins.
LEMMA AllocateKeeps ==
  ASSUME Inv, TypeOK', pc # "off", pc' = "fill", UNCHANGED <<dSuper, dTable>>,
         NEW id \in Ids, NEW need \in Nat,
         entries'[id].start = nextFree, entries'[id].cap = need,
         \A i \in Ids : i # id => entries'[i] = entries[i],
         nextFree' = nextFree + need, WriteFits'
  PROVE  Inv'
<1>1. /\ entries \in [Ids -> Entry] /\ entries' \in [Ids -> Entry]
      /\ dTable \in [Ids -> Entry] /\ nextFree \in Nat /\ dSuper.next \in Nat
  BY DEF Inv, TypeOK
<1>2. DataLba <= nextFree /\ dSuper.next <= nextFree
  BY DEF Inv, PointersOrdered
<1>3. /\ Below(entries, nextFree) /\ Apart(entries, entries)
      /\ Below(dTable, dSuper.next) /\ Apart(entries, dTable)
  BY DEF Inv, ExtentsDisjoint, CrashConsistent, TablesApart, Placed
<1>4. Below(entries', nextFree + need) /\ Apart(entries', entries') /\ Apart(entries', dTable)
  BY <1>1, <1>2, <1>3, AppendKeeps
<1>5. ExtentsDisjoint' /\ TablesApart' /\ CrashConsistent'
  BY <1>4 DEF Inv, ExtentsDisjoint, TablesApart, CrashConsistent, Placed, Below, Apart
<1>6. PointersOrdered'
  BY <1>1, <1>2, Sizes DEF Inv, PointersOrdered
<1> QED
  BY <1>5, <1>6 DEF Inv, FlushProgress, SuccessIsDurable

\* A turn of the copy loop or of the data loop.
LEMMA LoopKeeps ==
  ASSUME Inv, TypeOK', pc \in {"copy", "fill"}, UNCHANGED <<memory, dSuper, dTable, pc, ret>>,
         job'.id = job.id, job'.off = job.off, job'.buf = job.buf
  PROVE  Inv'
  BY DEF Inv, memory, ExtentsDisjoint, CrashConsistent, TablesApart, PointersOrdered,
         WriteFits, FlushProgress, SuccessIsDurable, Placed, Below, Apart

\* A write that fits into the sectors it asks for fits into as many or more.
LEMMA FitsMore ==
  ASSUME NEW end \in Nat, NEW cap \in Nat, NeedSectors(end) <= cap
  PROVE  end <= cap * SectorSize
<1>1. NeedSectors(end) \in Nat /\ SectorSize \in Nat /\ end <= NeedSectors(end) * SectorSize
  BY NeedIsEnough, Sizes
<1>2. ASSUME NEW q \in Nat, q <= cap PROVE q * SectorSize <= cap * SectorSize
  BY <1>1, <1>2, SMT
<1>3. cap * SectorSize \in Nat /\ NeedSectors(end) * SectorSize \in Nat
  BY <1>1
<1> QED
  BY <1>1, <1>2, <1>3

\* Every step of simplefs.c keeps the invariant, if the metadata of a signed
\* disk can be read at boot.
LEMMA InvStep ==
  ASSUME ~BootErrors, Inv, [Next]_vars
  PROVE  Inv'
<1>0. TypeOK /\ TypeOK'
  BY TypeStep DEF Inv
<1>1. CASE Mount
  <2>1. /\ pc = "off" /\ dSuper.signed /\ entries' = dTable /\ nextFree' = dSuper.next
        /\ pc' = "idle" /\ ret' = "ok" /\ job' = NoJob /\ dSuper' = dSuper /\ dTable' = dTable
    BY <1>1 DEF Mount, Return, disk
  <2>2. ExtentsDisjoint' /\ TablesApart' /\ CrashConsistent'
    BY <2>1 DEF Inv, ExtentsDisjoint, TablesApart, CrashConsistent, Placed, Below, Apart
  <2>3. PointersOrdered'
    BY <1>0, <2>1 DEF Inv, PointersOrdered, TypeOK
  <2>4. SuccessIsDurable'
    <3>1. dSuper = [signed |-> TRUE, next |-> dSuper.next]
      BY <1>0, <2>1 DEF TypeOK
    <3> QED
      BY <2>1, <3>1 DEF SuccessIsDurable
  <2> QED
    BY <1>0, <2>1, <2>2, <2>3, <2>4 DEF Inv, WriteFits, FlushProgress
<1>2. CASE Format
  <2>1. /\ pc = "off" /\ ~dSuper.signed /\ entries' = FormattedTable /\ nextFree' = DataLba
        /\ pc' = "flush" /\ job' = NoJob /\ dSuper' = dSuper /\ dTable' = dTable
    BY <1>2 DEF Format, StartFlush, disk
  <2>2. dSuper.next = 0
    BY <2>1 DEF Inv, PointersOrdered
  <2>3. \A i \in Ids : entries'[i].cap = 0
    BY <2>1 DEF FormattedTable, NewEntry, FreeEntry
  <2>4. ExtentsDisjoint' /\ TablesApart' /\ CrashConsistent'
    BY <2>1, <2>3 DEF Inv, ExtentsDisjoint, TablesApart, CrashConsistent, Placed, Below, Apart, Disjoint
  <2>5. PointersOrdered'
    BY <2>1, <2>2, Sizes DEF PointersOrdered
  <2> QED
    BY <1>0, <2>1, <2>4, <2>5 DEF Inv, WriteFits, FlushProgress, SuccessIsDurable, NoJob
<1>3. ASSUME pc = "idle", Refuse PROVE Inv'
  BY <1>0, <1>3, AbortKeeps DEF Refuse, disk
<1>4. ASSUME NEW p \in Paths, NEW type \in NodeTypes, CreateIn(Root, p, type)
      PROVE  Inv'
  <2>1. CASE Refuse
    BY <1>3, <1>4, <2>1 DEF CreateIn
  <2>2. CASE ~Refuse
    <3>1. PICK dir \in Ids, idx \in Ids :
            /\ entries' = [entries EXCEPT
                 ![idx] = NewEntry(dir, type, CreateTarget(entries, Root, p).name)]
            /\ pc = "idle"
            /\ StartFlush
            /\ UNCHANGED <<nextFree, disk>>
      BY <1>4, <2>2 DEF CreateIn
    <3>2. \A i \in Ids : i # idx => entries'[i] = entries[i]
      BY <1>0, <3>1 DEF TypeOK
    <3>3. entries'[idx].cap = 0
      BY <1>0, <3>1 DEF TypeOK, NewEntry
    <3> QED
      BY <1>0, <3>1, <3>2, <3>3, ShrinkAndFlush
  <2> QED
    BY <2>1, <2>2
<1>5. ASSUME NEW p \in Paths, RemoveIn(Root, p)
      PROVE  Inv'
  <2>1. CASE Refuse
    BY <1>3, <1>5, <2>1 DEF RemoveIn
  <2>2. CASE ~Refuse
    <3>1. PICK id \in Ids :
            /\ entries' = [entries EXCEPT ![id] = FreeEntry]
            /\ pc = "idle"
            /\ StartFlush
            /\ UNCHANGED <<nextFree, disk>>
      BY <1>5, <2>2 DEF RemoveIn
    <3>2. \A i \in Ids : i # id => entries'[i] = entries[i]
      BY <1>0, <3>1 DEF TypeOK
    <3>3. entries'[id].cap = 0
      BY <1>0, <3>1 DEF TypeOK, FreeEntry
    <3> QED
      BY <1>0, <3>1, <3>2, <3>3, ShrinkAndFlush
  <2> QED
    BY <2>1, <2>2
<1>6. ASSUME NEW id \in Ids, Truncate(id)
      PROVE  Inv'
  <2>1. CASE Refuse
    BY <1>3, <1>6, <2>1 DEF Truncate
  <2>2. CASE ~Refuse
    <3>1. /\ entries' = [entries EXCEPT ![id].size = 0]
          /\ pc = "idle" /\ StartFlush /\ UNCHANGED <<nextFree, disk>>
      BY <1>6, <2>2 DEF Truncate
    <3>2. /\ entries \in [Ids -> Entry]
          /\ entries' = [entries EXCEPT ![id] = [entries[id] EXCEPT !.size = 0]]
      BY <1>0, <3>1 DEF TypeOK
    <3>3. \A i \in Ids : entries'[i].start = entries[i].start /\ entries'[i].cap = entries[i].cap
      BY <3>2, ResizedTable
    <3> QED
      BY <1>0, <3>1, <3>3, ShrinkAndFlush
  <2> QED
    BY <2>1, <2>2
<1>7. ASSUME NEW id \in Ids, NEW buf \in Bufs, NEW off \in Offsets, Write(id, off, buf)
      PROVE  Inv'
  <2>1. CASE Refuse
    BY <1>3, <1>7, <2>1 DEF Write
  <2>2. CASE ~Refuse
    <3> DEFINE need == NeedSectors(off + Len(buf))
    <3>1. buf \in Seq(Bytes) /\ off \in Nat /\ Len(buf) \in Nat /\ off + Len(buf) \in Nat
      BY InputsAssumption
    <3>2. need \in Nat
      <4>1. off + Len(buf) \in Nat
        BY <3>1
      <4> QED
        BY <4>1, NeedIsEnough
    <3>3. /\ pc = "idle" /\ job' = [id |-> id, off |-> off, buf |-> buf, done |-> 0]
          /\ UNCHANGED <<dSuper, dTable>>
      BY <1>7, <2>2 DEF Write, disk
    <3>4. CASE entries[id].start = 0
      <4>1. /\ entries' = [entries EXCEPT ![id] = WithExtent(@, nextFree, need)]
            /\ nextFree' = nextFree + need /\ pc' = "fill"
        BY <1>7, <2>2, <3>4 DEF Write
      <4>2. entries \in [Ids -> Entry] /\ nextFree \in Nat
        BY <1>0 DEF TypeOK
      <4> HIDE DEF need
      <4>3. /\ entries'[id].start = nextFree /\ entries'[id].cap = need
            /\ \A i \in Ids : i # id => entries'[i] = entries[i]
        <5>1. entries[id] \in Entry
          BY <4>2
        <5>2. WithExtent(entries[id], nextFree, need).start = nextFree
          BY <3>2, <4>2, <5>1, MovedEntry
        <5>3. WithExtent(entries[id], nextFree, need).cap = need
          BY <3>2, <4>2, <5>1, MovedEntry
        <5>4. /\ entries'[id] = WithExtent(entries[id], nextFree, need)
              /\ \A i \in Ids : i # id => entries'[i] = entries[i]
          BY <4>1, <4>2
        <5> QED
          BY <5>2, <5>3, <5>4
      <4>4. off + Len(buf) <= need * SectorSize
        BY <3>1, NeedIsEnough DEF need
      <4>5. WriteFits'
        BY <3>3, <4>3, <4>4 DEF WriteFits
      <4> QED
        BY <1>0, <3>2, <3>3, <4>1, <4>3, <4>5, AllocateKeeps
    <3>5. CASE entries[id].start # 0
      <4>1. /\ pc' = IF need > entries[id].cap THEN "copy" ELSE "fill"
            /\ entries' = entries /\ nextFree' = nextFree
        BY <1>7, <2>2, <3>5 DEF Write, memory
      <4>2. entries[id].cap \in Nat
        BY <1>0, ExtentTypes DEF TypeOK
      <4>3. need <= entries[id].cap => off + Len(buf) <= entries[id].cap * SectorSize
        BY <3>1, <4>2, FitsMore
      <4>4. pc' = "fill" => need <= entries[id].cap
        BY <3>2, <4>1, <4>2
      <4> HIDE DEF need
      <4>5. WriteFits'
        BY <3>3, <4>1, <4>3, <4>4 DEF WriteFits
      <4>6. pc' \in {"copy", "fill"}
        BY <4>1
      <4> QED
        BY <1>0, <3>3, <4>1, <4>5, <4>6
           DEF Inv, ExtentsDisjoint, CrashConsistent, TablesApart, PointersOrdered,
               FlushProgress, SuccessIsDurable, Placed, Below, Apart
    <3> QED
      BY <3>4, <3>5
  <2> QED
    BY <2>1, <2>2
<1>8. CASE CopySector
  <2>1. /\ pc = "copy" /\ UNCHANGED <<memory, dSuper, dTable>>
        /\ \/ job' = [job EXCEPT !.done = @ + 1] /\ UNCHANGED <<pc, ret>>
           \/ Return("fail")
    BY <1>8 DEF CopySector
  <2>2. CASE Return("fail")
    BY <1>0, <2>1, <2>2, AbortKeeps
  <2>3. CASE job' = [job EXCEPT !.done = @ + 1] /\ UNCHANGED <<pc, ret>>
    <3>1. job'.id = job.id /\ job'.off = job.off /\ job'.buf = job.buf
      BY <1>0, <2>3 DEF TypeOK, Job
    <3> QED
      BY <1>0, <2>1, <2>3, <3>1, LoopKeeps
  <2> QED
    BY <2>1, <2>2, <2>3
<1>9. CASE Relocate
  <2> DEFINE need == NeedSectors(job.off + Len(job.buf))
  <2>1. /\ pc = "copy" /\ pc' = "fill" /\ UNCHANGED <<dSuper, dTable>>
        /\ entries' = [entries EXCEPT ![job.id] = WithExtent(@, nextFree, need)]
        /\ nextFree' = nextFree + need
        /\ job' = [job EXCEPT !.done = 0]
    BY <1>9 DEF Relocate, disk
  <2>2. /\ job.id \in Ids /\ job.off + Len(job.buf) \in Nat
        /\ entries \in [Ids -> Entry] /\ nextFree \in Nat
    BY <1>0, JobTypes DEF TypeOK
  <2>3. need \in Nat /\ job.off + Len(job.buf) <= need * SectorSize
    BY <2>2, NeedIsEnough
  <2>4. job'.id = job.id /\ job'.off = job.off /\ job'.buf = job.buf
    BY <1>0, <2>1 DEF TypeOK, Job
  <2> HIDE DEF need
  <2>5. /\ entries'[job.id].start = nextFree /\ entries'[job.id].cap = need
        /\ \A i \in Ids : i # job.id => entries'[i] = entries[i]
    <3>1. entries[job.id] \in Entry
      BY <2>2
    <3>2. WithExtent(entries[job.id], nextFree, need).start = nextFree
      BY <2>2, <2>3, <3>1, MovedEntry
    <3>3. WithExtent(entries[job.id], nextFree, need).cap = need
      BY <2>2, <2>3, <3>1, MovedEntry
    <3>4. /\ entries'[job.id] = WithExtent(entries[job.id], nextFree, need)
          /\ \A i \in Ids : i # job.id => entries'[i] = entries[i]
      BY <2>1, <2>2
    <3> QED
      BY <3>2, <3>3, <3>4
  <2>6. WriteFits'
    BY <2>3, <2>4, <2>5 DEF WriteFits
  <2> QED
    BY <1>0, <2>1, <2>2, <2>3, <2>5, <2>6, AllocateKeeps
<1>10. CASE FillSector
  <2>1. /\ pc = "fill" /\ UNCHANGED <<memory, dSuper, dTable>>
        /\ \/ UNCHANGED <<pc, ret>> /\ \E chunk : job' = [job EXCEPT !.done = @ + chunk]
           \/ Return("fail")
    BY <1>10 DEF FillSector
  <2>2. CASE Return("fail")
    BY <1>0, <2>1, <2>2, AbortKeeps
  <2>3. CASE UNCHANGED <<pc, ret>> /\ \E chunk : job' = [job EXCEPT !.done = @ + chunk]
    <3>1. job'.id = job.id /\ job'.off = job.off /\ job'.buf = job.buf
      BY <1>0, <2>3 DEF TypeOK, Job
    <3> QED
      BY <1>0, <2>1, <2>3, <3>1, LoopKeeps
  <2> QED
    BY <2>1, <2>2, <2>3
<1>11. CASE SetSize
  <2>1. /\ pc = "fill" /\ StartFlush /\ UNCHANGED <<nextFree, disk>>
    BY <1>11 DEF SetSize
  <2> DEFINE end == job.off + Len(job.buf)
             new == IF end > entries[job.id].size THEN end ELSE entries[job.id].size
  <2>2. /\ job.id \in Ids /\ new \in Nat /\ entries \in [Ids -> Entry]
        /\ entries' = [entries EXCEPT ![job.id] = [entries[job.id] EXCEPT !.size = new]]
    BY <1>0, <1>11, JobTypes DEF SetSize, TypeOK
  <2> HIDE DEF new
  <2>3. \A i \in Ids : entries'[i].start = entries[i].start /\ entries'[i].cap = entries[i].cap
    BY <2>2, ResizedTable
  <2> QED
    BY <1>0, <2>1, <2>3, ShrinkAndFlush
<1>12. CASE FlushSuper
  <2>1. PICK w \in Outcomes :
          /\ dSuper' = IF Landed(w) THEN [signed |-> TRUE, next |-> nextFree] ELSE dSuper
          /\ IF w = "ok" THEN job' = [job EXCEPT !.done = 1] /\ UNCHANGED <<pc, ret>>
             ELSE Return("fail")
    BY <1>12 DEF FlushSuper
  <2>2. pc = "flush" /\ UNCHANGED <<entries, nextFree, dTable>>
    BY <1>12 DEF FlushSuper, memory
  <2>3. CASE ~Landed(w)
    <3>1. Return("fail") /\ dSuper' = dSuper
      BY <2>1, <2>3 DEF Landed
    <3> QED
      BY <1>0, <2>2, <3>1, AbortKeeps DEF memory
  <2>4. CASE Landed(w)
    <3>1. dSuper' = [signed |-> TRUE, next |-> nextFree]
      BY <2>1, <2>4
    <3>2. dSuper'.signed /\ dSuper'.next = nextFree
      BY <3>1
    <3>3. DataLba <= nextFree /\ dSuper.next <= nextFree /\ dSuper.next \in Nat /\ nextFree \in Nat
      BY <1>0, <2>2 DEF Inv, PointersOrdered, TypeOK
    <3>4. Below(dTable, nextFree)
      BY <1>0, <3>3, ExtentTypes, Sizes DEF Inv, CrashConsistent, Placed, Below, TypeOK
    <3>5. ExtentsDisjoint' /\ CrashConsistent' /\ TablesApart'
      BY <2>2, <3>2, <3>4 DEF Inv, ExtentsDisjoint, CrashConsistent, TablesApart, Placed, Below, Apart
    <3>6. PointersOrdered'
      BY <2>2, <3>2, <3>3 DEF PointersOrdered
    <3>7. CASE w = "ok"
      <4>1. pc' = "flush" /\ job'.done = 1
        BY <1>0, <2>1, <2>2, <3>7 DEF TypeOK, Job
      <4>2. FlushProgress'
        BY <2>2, <3>1, <4>1, SlotsCovered DEF FlushProgress
      <4> QED
        BY <1>0, <3>5, <3>6, <4>1, <4>2 DEF Inv, WriteFits, SuccessIsDurable
    <3>8. CASE w # "ok"
      BY <1>0, <2>1, <3>5, <3>6, <3>8 DEF Return, Inv, WriteFits, FlushProgress, SuccessIsDurable
    <3> QED
      BY <3>7, <3>8
  <2> QED
    BY <2>3, <2>4
<1>13. CASE FlushTable
  <2>1. PICK w \in Outcomes :
          /\ dTable' = [i \in Ids |-> IF i \in SlotsOf(job.done - 1) /\ Landed(w)
                                      THEN entries[i] ELSE dTable[i]]
          /\ IF w # "ok" THEN Return("fail")
             ELSE IF job.done = TableSectors THEN Return("ok")
             ELSE job' = [job EXCEPT !.done = @ + 1] /\ UNCHANGED <<pc, ret>>
    BY <1>13 DEF FlushTable
  <2>2. /\ pc = "flush" /\ job.done \in 1 .. TableSectors /\ job.done \in Nat
        /\ UNCHANGED <<entries, nextFree, dSuper>>
    BY <1>0, <1>13, JobTypes DEF FlushTable, memory
  <2>3. /\ dSuper = [signed |-> TRUE, next |-> nextFree]
        /\ \A i \in Ids : i \div PerSector < job.done - 1 => dTable[i] = entries[i]
    BY <2>2 DEF Inv, FlushProgress
  <2>4. /\ entries \in [Ids -> Entry] /\ dTable \in [Ids -> Entry]
        /\ dTable' \in [Ids -> Entry] /\ nextFree \in Nat /\ dSuper.next = nextFree
    BY <1>0, <2>3 DEF TypeOK
  <2>5. \A i \in Ids : dTable'[i] = entries[i] \/ dTable'[i] = dTable[i]
    BY <2>1
  <2>6. Below(dTable', nextFree) /\ Apart(dTable', dTable') /\ Apart(entries, dTable')
    <3>1. /\ Below(entries, nextFree) /\ Apart(entries, entries)
          /\ Below(dTable, nextFree) /\ Apart(dTable, dTable) /\ Apart(entries, dTable)
      BY <2>4 DEF Inv, ExtentsDisjoint, CrashConsistent, TablesApart, Placed
    <3> QED
      BY <2>4, <2>5, <3>1, MixKeeps
  <2>7. ExtentsDisjoint' /\ CrashConsistent' /\ TablesApart'
    BY <2>2, <2>4, <2>6 DEF Inv, ExtentsDisjoint, CrashConsistent, TablesApart, Placed, Below, Apart
  <2>8. PointersOrdered'
    BY <2>2 DEF Inv, PointersOrdered
  <2>9. ASSUME w = "ok", NEW i \in Ids, i \div PerSector < job.done
        PROVE  dTable'[i] = entries[i]
    <3>1. i \div PerSector \in Nat
      BY SlotsCovered
    <3>2. CASE i \div PerSector = job.done - 1
      BY <2>1, <2>9, <3>2 DEF SlotsOf, Landed
    <3>3. CASE i \div PerSector < job.done - 1
      BY <2>3, <2>5, <3>3
    <3> QED
      BY <2>2, <2>9, <3>1, <3>2, <3>3
  <2>10. CASE w # "ok"
    BY <1>0, <2>1, <2>7, <2>8, <2>10 DEF Return, Inv, WriteFits, FlushProgress, SuccessIsDurable
  <2>11. CASE w = "ok" /\ job.done = TableSectors
    <3>1. pc' = "idle"
      BY <2>1, <2>11 DEF Return
    <3>2. \A i \in Ids : dTable'[i] = entries[i]
      BY <2>9, <2>11, SlotsCovered
    <3>3. dTable' = entries
      BY <2>4, <3>2
    <3>4. SuccessIsDurable'
      BY <2>2, <2>3, <3>3 DEF SuccessIsDurable
    <3> QED
      BY <1>0, <2>7, <2>8, <3>1, <3>4 DEF Inv, WriteFits, FlushProgress
  <2>12. CASE w = "ok" /\ job.done # TableSectors
    <3>1. pc' = "flush" /\ job'.done = job.done + 1
      BY <1>0, <2>1, <2>2, <2>12 DEF TypeOK, Job
    <3>2. FlushProgress'
      BY <2>2, <2>3, <2>9, <2>12, <3>1 DEF FlushProgress
    <3> QED
      BY <1>0, <2>7, <2>8, <3>1, <3>2 DEF Inv, WriteFits, SuccessIsDurable
  <2> QED
    BY <2>10, <2>11, <2>12
<1>14. CASE Crash
  <2>1. /\ \A i \in Ids : entries'[i].cap = 0
        /\ nextFree' = 0 /\ pc' = "off" /\ dSuper' = dSuper /\ dTable' = dTable
    BY <1>14 DEF Crash, FreeEntry, disk
  <2>2. ExtentsDisjoint' /\ TablesApart' /\ CrashConsistent'
    BY <2>1 DEF Inv, ExtentsDisjoint, TablesApart, CrashConsistent, Placed, Below, Apart, Disjoint
  <2> QED
    BY <1>0, <2>1, <2>2 DEF Inv, PointersOrdered, WriteFits, FlushProgress, SuccessIsDurable
<1>15. CASE UNCHANGED vars
  BY <1>15 DEF vars, Inv, TypeOK, ExtentsDisjoint, CrashConsistent, TablesApart, PointersOrdered,
     WriteFits, FlushProgress, SuccessIsDurable, Placed, Below, Apart
<1> QED
  BY <1>1, <1>2, <1>4, <1>5, <1>6, <1>7, <1>8, <1>9, <1>10, <1>11, <1>12, <1>13, <1>14, <1>15
     DEF Next

\* Where the sectors of data go: a turn of the copy loop writes above the bump
\* pointer, a turn of the data loop into the file's own extent.
LEMMA SectorStep ==
  ASSUME Inv, Next, NEW i \in Ids, NEW l \in Lbas,
         i # job.id \/ pc = "copy",
         Owns(entries[i], l) \/ Owns(dTable[i], l)
  PROVE  data'[l] = data[l]
<1>1. /\ TypeOK /\ l \in Nat
      /\ entries[i].start \in Nat /\ entries[i].cap \in Nat
      /\ dTable[i].start \in Nat /\ dTable[i].cap \in Nat
      /\ nextFree \in Nat /\ dSuper.next \in Nat
  BY ExtentTypes, Sizes DEF Inv, TypeOK, Lbas
<1>2. CASE CopySector
  <2> DEFINE src == entries[job.id].start + job.done
             dst == nextFree + job.done
  <2>1. l < nextFree
    BY <1>1, <1>2 DEF CopySector, Inv, ExtentsDisjoint, CrashConsistent, PointersOrdered, Placed, Below, Owns
  <2>2. dst # l
    BY <1>1, <2>1, JobTypes
  <2>3. data' = data \/ data' = [data EXCEPT ![dst] = data[src]]
    BY <1>2 DEF CopySector
  <2> QED
    BY <1>1, <2>2, <2>3 DEF TypeOK
<1>3. CASE FillSector
  <2> DEFINE pos == job.off + job.done
             lba == entries[job.id].start + pos \div SectorSize
  <2>1. pc = "fill" /\ i # job.id /\ job.done < Len(job.buf)
    BY <1>3 DEF FillSector
  <2>2. /\ job.id \in Ids /\ job.off \in Nat /\ job.done \in Nat /\ Len(job.buf) \in Nat
        /\ entries[job.id].start \in Nat /\ entries[job.id].cap \in Nat
    BY <1>1, JobTypes
  <2>3. pos \div SectorSize \in Nat /\ pos \div SectorSize < entries[job.id].cap
    <3>1. job.off + Len(job.buf) <= entries[job.id].cap * SectorSize
      BY <2>1 DEF Inv, WriteFits
    <3>2. entries[job.id].cap * SectorSize \in Nat
      BY <2>2, Sizes
    <3>3. pos \in Nat /\ pos < entries[job.id].cap * SectorSize
      BY <2>1, <2>2, <3>1, <3>2
    <3> QED
      BY <2>2, <3>3, DivBelow, Sizes
  <2>4. lba \in Nat /\ Owns(entries[job.id], lba)
    BY <2>2, <2>3 DEF Owns
  <2>5. Disjoint(entries[job.id], entries[i]) /\ Disjoint(entries[job.id], dTable[i])
    BY <2>1, <2>2 DEF Inv, ExtentsDisjoint, TablesApart, Placed, Apart
  <2> HIDE DEF lba
  <2>6. lba # l
    <3>1. ASSUME NEW e, e.start \in Nat, e.cap \in Nat, Disjoint(entries[job.id], e), Owns(e, l)
          PROVE  lba # l
      <4>1. /\ entries[job.id].start <= lba /\ lba < entries[job.id].start + entries[job.id].cap
            /\ e.start <= l /\ l < e.start + e.cap
        BY <2>4, <3>1 DEF Owns
      <4>2. l \in Nat
        BY <1>1
      <4> QED
        BY <2>2, <2>4, <3>1, <4>1, <4>2 DEF Disjoint
    <3> QED
      BY <1>1, <2>5, <3>1
  <2>7. data' = data \/ \E s : data' = [data EXCEPT ![lba] = s]
    BY <1>3 DEF FillSector, lba
  <2> QED
    BY <1>1, <2>6, <2>7 DEF TypeOK
<1> QED
  BY <1>2, <1>3 DEF Next, Mount, Format, CreateIn, RemoveIn, Truncate, Write, Relocate, SetSize,
     FlushSuper, FlushTable, Crash, Refuse, disk

-----------------------------------------------------------------------------
(* The theorems.                                                           *)

LEMMA InvInit ==
  ASSUME Init
  PROVE  Inv
<1>1. TypeOK
  BY InitTypes
<1>2. \A i \in Ids : entries[i].cap = 0 /\ dTable[i].cap = 0
  <2>1. FreeEntry.cap = 0 /\ NewEntry(Root, "dir", "/").cap = 0
    BY DEF FreeEntry, NewEntry
  <2>2. \A i \in Ids : FormattedTable[i].cap = 0
    BY <2>1 DEF FormattedTable
  <2>3. dTable = [i \in Ids |-> FreeEntry] \/ dTable = FormattedTable
    BY DEF Init
  <2> QED
    BY <2>1, <2>2, <2>3 DEF Init
<1>3. ExtentsDisjoint /\ CrashConsistent /\ TablesApart
  BY <1>2 DEF ExtentsDisjoint, CrashConsistent, TablesApart, Placed, Below, Apart, Disjoint
<1>4. pc = "off"
  BY DEF Init
<1>5. PointersOrdered
  <2>1. \/ dSuper = [signed |-> FALSE, next |-> 0]
        \/ dSuper = [signed |-> TRUE, next |-> DataLba]
    BY DEF Init
  <2> QED
    BY <1>4, <2>1, Sizes DEF PointersOrdered
<1> QED
  BY <1>1, <1>3, <1>4, <1>5 DEF Inv, WriteFits, FlushProgress, SuccessIsDurable

\* The invariant of simplefs.c.  A read error at boot is the one fault it does
\* not survive: sfs_init then formats a disk that still has its files.
THEOREM Invariance ==
  ASSUME ~BootErrors
  PROVE  Spec => []Inv
<1>1. Init => Inv
  BY InvInit
<1>2. Inv /\ [Next]_vars => Inv'
  BY InvStep
<1> QED
  BY <1>1, <1>2, PTL DEF Spec

\* However sfs_write, removals, failed transfers and power failures follow one
\* another, no two files of simplefs.c share a sector.
THEOREM ExtentsDisjointCorrect ==
  ASSUME ~BootErrors
  PROVE  Spec => []ExtentsDisjoint
<1>1. Inv => ExtentsDisjoint
  BY DEF Inv
<1> QED
  BY <1>1, Invariance, PTL

\* At every instant the disk sfs_flush is writing to could be mounted again
\* without two files sharing a sector, now or after the next allocation.
THEOREM CrashConsistentCorrect ==
  ASSUME ~BootErrors
  PROVE  Spec => []CrashConsistent
<1>1. Inv => CrashConsistent
  BY DEF Inv
<1> QED
  BY <1>1, Invariance, PTL

\* A call of simplefs.c that returns 1 has made the whole memory image durable.
THEOREM SuccessIsDurableCorrect ==
  ASSUME ~BootErrors
  PROVE  Spec => []SuccessIsDurable
<1>1. Inv => SuccessIsDurable
  BY DEF Inv
<1> QED
  BY <1>1, Invariance, PTL

\* No sector write of sfs_write hits a sector of another file, in memory or on
\* the disk, nor, while it copies, an old sector of its own file.
THEOREM NoCollateralDamageCorrect ==
  ASSUME ~BootErrors
  PROVE  Spec => NoCollateralDamage
<1> DEFINE A == \A i \in Ids, l \in Lbas :
                  /\ i # job.id \/ pc = "copy"
                  /\ Owns(entries[i], l) \/ Owns(dTable[i], l)
                  => data'[l] = data[l]
<1>1. Inv /\ [Next]_vars => [A]_vars
  BY SectorStep DEF vars
<1> QED
  BY <1>1, Invariance, PTL DEF Spec, NoCollateralDamage

-----------------------------------------------------------------------------
(* The refinement: what must hold for the mapping to be right, on a disk    *)
(* that neither fails nor fills up.                                        *)

Healthy == ~WriteErrors /\ ~ReadErrors /\ ~BootErrors /\ MaxNextFree <= SectorCount

\* No file is larger than its extent.
Fits(es) == \A i \in Ids : es[i].size <= es[i].cap * SectorSize

FilesFit == Fits(entries) /\ Fits(dTable)

PointersBounded == nextFree <= MaxNextFree /\ dSuper.next <= MaxNextFree

BlankUnsigned == ~dSuper.signed => dTable = [i \in Ids |-> FreeEntry]

\* Between calls, and as long as a call has not changed a slot, the table on the
\* disk is the one in memory; a data loop may have given its own file an extent.
TableSynced ==
  /\ pc \in {"idle", "copy"} => dTable = entries
  /\ pc = "fill" => \A i \in Ids : i # job.id => dTable[i] = entries[i]

\* Byte k of a file whose extent starts at sector l.
ByteAt(l, k) == data[l + k \div SectorSize][k % SectorSize]

\* The sectors copied so far hold what the old ones hold.
CopyProgress ==
  pc = "copy" =>
    /\ IsFile(entries, job.id)
    /\ job.done <= entries[job.id].cap
    /\ entries[job.id].cap < NeedSectors(EndOf(job))
    /\ nextFree + NeedSectors(EndOf(job)) <= MaxNextFree
    /\ \A s \in 0 .. job.done - 1 : data[nextFree + s] = data[entries[job.id].start + s]

\* The file on the disk is the old one, and the bytes written so far are in
\* the extent the new one has.
FillProgress ==
  pc = "fill" =>
    /\ IsFile(entries, job.id) /\ IsFile(dTable, job.id)
    /\ dTable[job.id].size = entries[job.id].size
    /\ \/ dTable[job.id].start = entries[job.id].start /\ dTable[job.id].cap = entries[job.id].cap
       \/ Disjoint(dTable[job.id], entries[job.id])
    /\ job.done <= Len(job.buf)
    /\ \A k \in 0 .. job.done - 1 : ByteAt(entries[job.id].start, job.off + k) = job.buf[k + 1]

StoreInv ==
  /\ Inv
  /\ FilesFit
  /\ PointersBounded
  /\ BlankUnsigned
  /\ TableSynced
  /\ CopyProgress
  /\ FillProgress

\* A byte within an extent lies in one of its sectors.
LEMMA ByteInExtent ==
  ASSUME NEW e \in Entry, NEW k \in Nat, k < e.cap * SectorSize
  PROVE  /\ e.start + k \div SectorSize \in Nat
         /\ Owns(e, e.start + k \div SectorSize)
         /\ k % SectorSize \in 0 .. SectorSize - 1
<1>1. e.start \in Nat /\ e.cap \in Nat
  BY DEF Entry
<1>2. k \div SectorSize \in Nat /\ k \div SectorSize < e.cap
  BY <1>1, DivBelow, Sizes
<1>3. k % SectorSize \in 0 .. SectorSize - 1
  BY DivMod, Sizes
<1> QED
  BY <1>1, <1>2, <1>3 DEF Owns

\* A sector of an extent below the bump pointer is a sector of the device.
LEMMA OnDevice ==
  ASSUME NEW es \in [Ids -> Entry], NEW n \in Nat, Below(es, n), n <= SectorCount,
         NEW i \in Ids, NEW l \in Nat, Owns(es[i], l)
  PROVE  l \in Lbas /\ l < n
<1>1. es[i].start \in Nat /\ es[i].cap \in Nat
  BY ExtentTypes
<1>2. es[i].cap > 0 /\ l < es[i].start + es[i].cap
  BY <1>1 DEF Owns
<1>3. es[i].start + es[i].cap <= n
  BY <1>2 DEF Below
<1> QED
  BY <1>1, <1>2, <1>3, Sizes DEF Lbas

\* What the steps of the proof use of the invariant.
LEMMA StoreTypes ==
  ASSUME Healthy, StoreInv
  PROVE  /\ entries \in [Ids -> Entry] /\ dTable \in [Ids -> Entry]
         /\ nextFree \in Nat /\ dSuper.next \in Nat
         /\ nextFree <= SectorCount /\ dSuper.next <= SectorCount
         /\ Below(entries, nextFree) /\ Below(dTable, dSuper.next)
         /\ pc # "off" => dSuper.next <= nextFree
         /\ data \in [Lbas -> Sector]
<1>1. TypeOK
  BY DEF StoreInv, Inv
<1>2. dSuper.next \in Nat
  BY <1>1 DEF TypeOK
<1>3. nextFree <= SectorCount /\ dSuper.next <= SectorCount
  BY <1>1, <1>2, SizesAssumption DEF TypeOK, StoreInv, PointersBounded, Healthy
<1> QED
  BY <1>1, <1>2, <1>3 DEF TypeOK, StoreInv, Inv, ExtentsDisjoint, CrashConsistent, Placed, PointersOrdered

LEMMA ByteTyped ==
  ASSUME TypeOK, NEW l \in Lbas, NEW k \in Nat
  PROVE  data[l][k % SectorSize] \in Bytes
<1>1. k % SectorSize \in 0 .. SectorSize - 1
  BY DivMod, Sizes
<1>2. data[l] \in Sector
  BY DEF TypeOK
<1> QED
  BY <1>1, <1>2 DEF Sector

\* The sector a byte of a file is in.
LEMMA MemByte ==
  ASSUME Healthy, StoreInv, NEW i \in Ids, NEW k \in Nat, k < entries[i].cap * SectorSize
  PROVE  /\ entries[i].start + k \div SectorSize \in Lbas
         /\ entries[i].start + k \div SectorSize < nextFree
         /\ Owns(entries[i], entries[i].start + k \div SectorSize)
<1>1. entries[i] \in Entry
  BY StoreTypes
<1>2. entries[i].start + k \div SectorSize \in Nat /\ Owns(entries[i], entries[i].start + k \div SectorSize)
  BY <1>1, ByteInExtent
<1> QED
  BY <1>2, StoreTypes, OnDevice

LEMMA DiskByteSector ==
  ASSUME Healthy, StoreInv, NEW i \in Ids, NEW k \in Nat, k < dTable[i].size
  PROVE  /\ dTable[i].start + k \div SectorSize \in Lbas
         /\ dTable[i].start + k \div SectorSize < dSuper.next
         /\ Owns(dTable[i], dTable[i].start + k \div SectorSize)
         /\ k < dTable[i].cap * SectorSize
<1>1. dTable[i] \in Entry
  BY StoreTypes
<1>2. k < dTable[i].cap * SectorSize
  <2>1. dTable[i].size <= dTable[i].cap * SectorSize
    BY DEF StoreInv, FilesFit, Fits
  <2>2. dTable[i].size \in Nat /\ dTable[i].cap \in Nat
    BY <1>1 DEF Entry
  <2> QED
    BY <2>1, <2>2, Sizes
<1>3. dTable[i].start + k \div SectorSize \in Nat /\ Owns(dTable[i], dTable[i].start + k \div SectorSize)
  BY <1>1, <1>2, ByteInExtent
<1> QED
  BY <1>2, <1>3, StoreTypes, OnDevice

LEMMA MemFits ==
  ASSUME Healthy, StoreInv, NEW i \in Ids, NEW k \in Nat, k < entries[i].size
  PROVE  k < entries[i].cap * SectorSize
<1>1. entries[i].size <= entries[i].cap * SectorSize
  BY DEF StoreInv, FilesFit, Fits
<1>2. entries[i] \in Entry
  BY StoreTypes
<1>3. entries[i].size \in Nat /\ entries[i].cap \in Nat
  BY <1>2 DEF Entry
<1> QED
  BY <1>1, <1>3, Sizes

\* Nothing fails on a healthy disk.
LEMMA NoFailures ==
  ASSUME Healthy
  PROVE  /\ Outcomes = {"ok"}
         /\ \A l \in Lbas : WriteOutcomes(l) = {"ok"} /\ ReadOutcomes(l) = {TRUE}
<1>1. Outcomes = {"ok"}
  BY DEF Healthy, Outcomes
<1>2. \A l \in Lbas : ~(l >= SectorCount)
  BY Sizes DEF Lbas
<1>3. \A l \in Lbas : WriteOutcomes(l) = {"ok"}
  BY <1>1, <1>2 DEF WriteOutcomes
<1>4. ~ReadErrors
  BY DEF Healthy
<1>5. \A l \in Lbas : ReadOutcomes(l) = {TRUE}
  BY <1>2, <1>4, Zenon DEF ReadOutcomes
<1> QED
  BY <1>1, <1>3, <1>5

-----------------------------------------------------------------------------
(* The mapping, slot by slot.                                              *)

MemFile(i) ==
  IF IsFile(entries, i) THEN [k \in 1 .. FinalSize(i) |-> FinalByte(i, k - 1)] ELSE NoFile

DiskFile(i) ==
  IF IsFile(dTable, i) THEN [k \in 1 .. dTable[i].size |-> DiskByte(i, k - 1)] ELSE NoFile

LEMMA MappedFiles ==
  /\ DiskContents = [i \in Ids |-> DiskFile(i)]
  /\ Contents = IF pc = "off" THEN DiskContents ELSE [i \in Ids |-> MemFile(i)]
  BY DEF Contents, DiskContents, MemFile, DiskFile

\* A step that keeps what is mapped of a slot.
LEMMA MemFileKept ==
  ASSUME NEW i \in Ids, IsFile(entries, i)' <=> IsFile(entries, i),
         IsFile(entries, i) => FinalSize(i)' = FinalSize(i),
         FinalSize(i) \in Nat,
         \A k \in Nat : IsFile(entries, i) /\ k < FinalSize(i) => FinalByte(i, k)' = FinalByte(i, k)
  PROVE  MemFile(i)' = MemFile(i)
<1>1. CASE ~IsFile(entries, i)
  BY <1>1 DEF MemFile
<1>2. CASE IsFile(entries, i)
  <2> DEFINE n == FinalSize(i)
             new(k) == FinalByte(i, k)'
             old(k) == FinalByte(i, k)
  <2>1. \A k \in 1 .. n : new(k - 1) = old(k - 1)
    <3> SUFFICES ASSUME NEW k \in 1 .. n PROVE new(k - 1) = old(k - 1)
      OBVIOUS
    <3>1. k - 1 \in Nat /\ k - 1 < n
      OBVIOUS
    <3> QED
      BY <1>2, <3>1
  <2>2. MemFile(i)' = [k \in 1 .. n |-> new(k - 1)]
    BY <1>2 DEF MemFile
  <2>3. MemFile(i) = [k \in 1 .. n |-> old(k - 1)]
    BY <1>2 DEF MemFile
  <2> HIDE DEF n, new, old
  <2> QED
    BY <2>1, <2>2, <2>3
<1> QED
  BY <1>1, <1>2

LEMMA DiskFileKept ==
  ASSUME NEW i \in Ids, dTable'[i] = dTable[i], dTable[i].size \in Nat,
         \A k \in Nat : k < dTable[i].size => DiskByte(i, k)' = DiskByte(i, k)
  PROVE  DiskFile(i)' = DiskFile(i)
<1>1. IsFile(dTable, i)' <=> IsFile(dTable, i)
  BY DEF IsFile
<1>2. CASE ~IsFile(dTable, i)
  BY <1>1, <1>2 DEF DiskFile
<1>3. CASE IsFile(dTable, i)
  <2> DEFINE n == dTable[i].size
             new(k) == DiskByte(i, k)'
             old(k) == DiskByte(i, k)
  <2>1. \A k \in 1 .. n : new(k - 1) = old(k - 1)
    <3> SUFFICES ASSUME NEW k \in 1 .. n PROVE new(k - 1) = old(k - 1)
      OBVIOUS
    <3>1. k - 1 \in Nat /\ k - 1 < n
      OBVIOUS
    <3> QED
      BY <3>1
  <2>2. DiskFile(i)' = [k \in 1 .. n |-> new(k - 1)]
    BY <1>1, <1>3 DEF DiskFile
  <2>3. DiskFile(i) = [k \in 1 .. n |-> old(k - 1)]
    BY <1>3 DEF DiskFile
  <2> HIDE DEF n, new, old
  <2> QED
    BY <2>1, <2>2, <2>3
<1> QED
  BY <1>2, <1>3

\* The disk is left alone.
LEMMA DiskKept ==
  ASSUME UNCHANGED <<dTable, data>>
  PROVE  DiskContents' = DiskContents
  BY DEF DiskContents, DiskByte

LEMMA NoFileIsNone ==
  ASSUME \A n \in Nat : NoFile \notin [1 .. n -> Bytes], NEW n \in Nat, NEW f, f \in [1 .. n -> Bytes]
  PROVE  f # NoFile
  OBVIOUS

\* What is mapped when no write is under way.
LEMMA RestingFile ==
  ASSUME pc \notin {"copy", "fill"}, NEW i \in Ids
  PROVE  /\ FinalSize(i) = entries[i].size
         /\ \A k : FinalByte(i, k) = ByteAt(entries[i].start, k)
  BY DEF FinalSize, FinalByte, Writing, ByteAt

-----------------------------------------------------------------------------
(* The two loops of sfs_write, on a disk that does not fail.               *)

\* A turn of the data loop sits inside one sector of the file.
LEMMA ChunkInSector ==
  ASSUME NEW n \in Nat \ {0}, NEW pos \in Nat, NEW chunk \in Nat, chunk <= n - (pos % n),
         NEW k \in Nat
  PROVE  /\ pos <= k /\ k < pos + chunk => k \div n = pos \div n
         /\ k \div n = pos \div n => (k % n) - (pos % n) = k - pos
<1>1. /\ pos \div n \in Nat /\ pos % n \in 0 .. n - 1 /\ pos = (pos \div n) * n + (pos % n)
      /\ k \div n \in Nat /\ k % n \in 0 .. n - 1 /\ k = (k \div n) * n + (k % n)
  BY DivMod
<1> DEFINE p == pos \div n
           q == k \div n
           r == pos % n
           s == k % n
<1>2. /\ p \in Nat /\ q \in Nat /\ r \in 0 .. n - 1 /\ s \in 0 .. n - 1
      /\ pos = p * n + r /\ k = q * n + s /\ chunk <= n - r
  BY <1>1
<1> HIDE DEF p, q, r, s
<1>3. ASSUME q = p PROVE s - r = k - pos
  BY <1>2, <1>3
<1>4. ASSUME pos <= k, k < pos + chunk PROVE q = p
  <2>1. CASE q < p
    <3>1. (q + 1) * n <= p * n
      BY <1>2, <2>1
    <3>2. (q + 1) * n = q * n + n
      BY <1>2
    <3> QED
      BY <1>2, <1>4, <3>1, <3>2
  <2>2. CASE q > p
    <3>1. (p + 1) * n <= q * n
      BY <1>2, <2>2
    <3>2. (p + 1) * n = p * n + n
      BY <1>2
    <3> QED
      BY <1>2, <1>4, <3>1, <3>2
  <2> QED
    BY <1>2, <2>1, <2>2
<1> QED
  BY <1>3, <1>4 DEF p, q, r, s

\* One turn of the data loop, byte by byte.
LEMMA FillTurn ==
  ASSUME Healthy, StoreInv, FillSector, NEW start, start = entries[job.id].start
  PROVE  /\ UNCHANGED <<memory, dSuper, dTable, pc, ret>>
         /\ \A l \in Lbas : ~Owns(entries[job.id], l) => data'[l] = data[l]
         /\ \E chunk \in Nat :
              /\ job' = [job EXCEPT !.done = @ + chunk]
              /\ job.done + chunk <= Len(job.buf)
              /\ \A k \in Nat : k < entries[job.id].cap * SectorSize =>
                   ByteAt(start, k)' = IF job.off + job.done <= k /\ k < job.off + job.done + chunk
                                       THEN job.buf[k - job.off + 1] ELSE ByteAt(start, k)
<1> DEFINE pos == job.off + job.done
           lba == start + pos \div SectorSize
           inSector == pos % SectorSize
           room == SectorSize - inSector
           left == Len(job.buf) - job.done
           chunk == IF room > left THEN left ELSE room
<1>1. /\ pc = "fill" /\ job.done < Len(job.buf)
      /\ job.id \in Ids /\ job.off \in Nat /\ job.done \in Nat /\ Len(job.buf) \in Nat
      /\ start \in Nat /\ entries[job.id].cap \in Nat /\ TypeOK
  BY JobTypes DEF FillSector, StoreInv, Inv
<1>2. pos \in Nat /\ inSector \in 0 .. SectorSize - 1 /\ pos \div SectorSize \in Nat
  <2>1. pos \in Nat
    BY <1>1
  <2> HIDE DEF pos
  <2> QED
    BY <2>1, DivMod, Sizes
<1>3. pos < entries[job.id].cap * SectorSize
  <2>1. job.off + Len(job.buf) <= entries[job.id].cap * SectorSize
    BY <1>1 DEF StoreInv, Inv, WriteFits
  <2> DEFINE top == entries[job.id].cap * SectorSize
  <2>2. top \in Nat
    BY <1>1, Sizes
  <2> HIDE DEF top
  <2>3. job.off + Len(job.buf) <= top
    BY <2>1 DEF top
  <2>4. pos < top
    BY <1>1, <2>2, <2>3
  <2> QED
    BY <2>4 DEF top
<1>4. lba \in Lbas
  BY <1>1, <1>2, <1>3, MemByte
<1>5. WriteOutcomes(lba) = {"ok"} /\ ReadOutcomes(lba) = {TRUE}
  BY <1>4, NoFailures
<1>6. chunk \in Nat /\ chunk <= SectorSize - inSector /\ job.done + chunk <= Len(job.buf)
  <2>1. room \in Nat /\ left \in Nat
    <3> HIDE DEF inSector
    <3> QED
      BY <1>1, <1>2, Sizes
  <2>2. chunk \in Nat /\ chunk <= room /\ chunk <= left
    <3> HIDE DEF room, left
    <3> QED
      BY <2>1
  <2> HIDE DEF inSector, chunk
  <2> QED
    BY <1>1, <2>2
<1> DEFINE sec == Patched(data[lba], inSector, chunk, job.buf, job.done)
<1>7. /\ UNCHANGED <<memory, dSuper, dTable>>
      /\ \E readable \in ReadOutcomes(lba), w \in WriteOutcomes(lba) :
           /\ data' = IF Landed(w)
                      THEN [data EXCEPT ![lba] =
                              Patched(IF readable THEN data[lba] ELSE Blank,
                                      inSector, chunk, job.buf, job.done)]
                      ELSE data
           /\ IF w = "ok" THEN job' = [job EXCEPT !.done = @ + chunk] /\ UNCHANGED <<pc, ret>>
              ELSE Return("fail")
  BY Zenon DEF FillSector
<1>8. /\ data' = [data EXCEPT ![lba] = sec]
      /\ job' = [job EXCEPT !.done = @ + chunk] /\ UNCHANGED <<pc, ret>>
  <2> HIDE DEF lba, chunk, inSector
  <2> QED
    BY <1>5, <1>7 DEF Landed
<1>9. ASSUME NEW k \in Nat, k < entries[job.id].cap * SectorSize
      PROVE  ByteAt(start, k)' = IF pos <= k /\ k < pos + chunk
                                 THEN job.buf[k - job.off + 1] ELSE ByteAt(start, k)
  <2> DEFINE l == start + k \div SectorSize
             b == k % SectorSize
  <2>1. l \in Lbas /\ b \in 0 .. SectorSize - 1 /\ k \div SectorSize \in Nat
    BY <1>1, <1>9, MemByte, DivMod, Sizes
  <2>2. data \in [Lbas -> Sector]
    BY <1>1 DEF TypeOK
  <2>3. ByteAt(start, k)' = data'[l][b] /\ ByteAt(start, k) = data[l][b]
    BY DEF ByteAt
  <2>4. /\ pos <= k /\ k < pos + chunk => k \div SectorSize = pos \div SectorSize
        /\ k \div SectorSize = pos \div SectorSize => b - inSector = k - pos
    <3>1. chunk <= SectorSize - (pos % SectorSize)
      BY <1>6
    <3> HIDE DEF pos, chunk, b, inSector
    <3>2. /\ pos <= k /\ k < pos + chunk => k \div SectorSize = pos \div SectorSize
          /\ k \div SectorSize = pos \div SectorSize => (k % SectorSize) - (pos % SectorSize) = k - pos
      BY <1>2, <1>6, <3>1, Sizes, ChunkInSector
    <3> QED
      BY <3>2 DEF b, inSector
  <2>5. CASE k \div SectorSize = pos \div SectorSize
    <3>1. l = lba
      BY <2>5
    <3>2. data'[l][b] = sec[b]
      BY <1>8, <2>1, <2>2, <3>1
    <3>3. sec[b] = IF b >= inSector /\ b < inSector + chunk
                   THEN job.buf[job.done + b - inSector + 1] ELSE data[lba][b]
      BY <2>1 DEF Patched
    <3>4. b - inSector = k - pos
      BY <2>4, <2>5
    <3> HIDE DEF sec, l, chunk, lba
    <3>5. /\ (b >= inSector /\ b < inSector + chunk) <=> (pos <= k /\ k < pos + chunk)
          /\ job.done + b - inSector + 1 = k - job.off + 1
      <4> HIDE DEF b, inSector
      <4>1. b \in Nat /\ inSector \in Nat /\ pos \in Nat /\ chunk \in Nat
        BY <1>2, <1>6, <2>1
      <4>2. job.done + b - inSector + 1 = k - job.off + 1
        BY <1>1, <3>4, <4>1
      <4>3. (b >= inSector /\ b < inSector + chunk) <=> (pos <= k /\ k < pos + chunk)
        <5> HIDE DEF pos
        <5> QED
          BY <3>4, <4>1
      <4> QED
        BY <4>2, <4>3
    <3> QED
      BY <2>3, <3>1, <3>2, <3>3, <3>5
  <2>6. CASE k \div SectorSize # pos \div SectorSize
    <3>1. l # lba
      BY <1>1, <1>2, <2>1, <2>6
    <3>2. data'[l] = data[l]
      BY <1>8, <2>1, <2>2, <3>1
    <3> QED
      BY <2>3, <2>4, <2>6, <3>2
  <2> QED
    BY <2>5, <2>6
<1>10. \A l \in Lbas : ~Owns(entries[job.id], l) => data'[l] = data[l]
  <2>1. Owns(entries[job.id], lba)
    BY <1>1, <1>2, <1>3, MemByte
  <2>2. data \in [Lbas -> Sector]
    BY <1>1 DEF TypeOK
  <2> HIDE DEF lba, sec
  <2> QED
    BY <1>8, <2>1, <2>2
<1> QED
  BY <1>6, <1>7, <1>8, <1>9, <1>10

\* One turn of the copy loop: only a sector above every file changes.
LEMMA CopyTurn ==
  ASSUME Healthy, StoreInv, CopySector
  PROVE  /\ UNCHANGED <<memory, dSuper, dTable, pc, ret>>
         /\ job' = [job EXCEPT !.done = @ + 1]
         /\ job.done < entries[job.id].cap
         /\ data' = [data EXCEPT ![nextFree + job.done] = data[entries[job.id].start + job.done]]
         /\ nextFree + job.done \in Lbas
<1> DEFINE src == entries[job.id].start + job.done
           dst == nextFree + job.done
<1>1. /\ pc = "copy" /\ job.done < entries[job.id].cap
      /\ job.id \in Ids /\ job.done \in Nat /\ nextFree \in Nat
      /\ entries[job.id].start \in Nat /\ entries[job.id].cap \in Nat
      /\ EndOf(job) \in Nat
  BY JobTypes, StoreTypes DEF CopySector, StoreInv, Inv, EndOf
<1>2. /\ entries[job.id].cap < NeedSectors(EndOf(job)) /\ NeedSectors(EndOf(job)) \in Nat
      /\ nextFree + NeedSectors(EndOf(job)) <= MaxNextFree /\ MaxNextFree <= SectorCount
      /\ MaxNextFree \in Nat
  BY <1>1, NeedIsEnough, SizesAssumption DEF StoreInv, CopyProgress, Healthy
<1>3. dst \in Lbas
  BY <1>1, <1>2, Sizes DEF Lbas
<1>4. src \in Lbas
  <2>1. src \in Nat /\ Owns(entries[job.id], src)
    BY <1>1 DEF Owns
  <2> QED
    BY <1>1, <2>1, StoreTypes, OnDevice
<1>5. ReadOutcomes(src) = {TRUE} /\ WriteOutcomes(dst) = {"ok"}
  BY <1>3, <1>4, NoFailures
<1>6. /\ UNCHANGED <<memory, dSuper, dTable>>
      /\ \E readable \in ReadOutcomes(src), w \in WriteOutcomes(dst) :
           /\ data' = IF readable /\ Landed(w) THEN [data EXCEPT ![dst] = data[src]] ELSE data
           /\ IF readable /\ w = "ok"
              THEN job' = [job EXCEPT !.done = @ + 1] /\ UNCHANGED <<pc, ret>>
              ELSE Return("fail")
  BY Zenon DEF CopySector
<1> HIDE DEF src, dst
<1>7. /\ data' = [data EXCEPT ![dst] = data[src]]
      /\ job' = [job EXCEPT !.done = @ + 1] /\ UNCHANGED <<pc, ret>>
  BY <1>5, <1>6 DEF Landed
<1> QED
  BY <1>1, <1>3, <1>6, <1>7 DEF src, dst

-----------------------------------------------------------------------------
(* The invariant of the refinement.                                        *)

\* A call that returns at once, or that begins to flush.
LEMMA TailsKeep ==
  ASSUME Healthy, StoreInv, Inv'
  PROVE  /\ pc = "idle" /\ Refuse => StoreInv'
         /\ StartFlush /\ UNCHANGED <<nextFree, disk>> /\ Fits(entries') => StoreInv'
<1>1. ASSUME pc = "idle", Refuse PROVE StoreInv'
  BY <1>1 DEF Refuse, Return, memory, disk, StoreInv, FilesFit, Fits, PointersBounded, BlankUnsigned,
     TableSynced, CopyProgress, FillProgress
<1>2. ASSUME StartFlush, UNCHANGED <<nextFree, disk>>, Fits(entries') PROVE StoreInv'
  BY <1>2 DEF StartFlush, disk, StoreInv, FilesFit, Fits, PointersBounded, BlankUnsigned,
     TableSynced, CopyProgress, FillProgress
<1> QED
  BY <1>1, <1>2

\* A file without an extent is empty.
LEMMA NoExtentEmpty ==
  ASSUME Healthy, StoreInv, NEW id \in Ids, entries[id].start = 0
  PROVE  entries[id].cap = 0 /\ entries[id].size = 0
<1>1. entries[id] \in Entry /\ Below(entries, nextFree)
  BY StoreTypes
<1>2. entries[id].size \in Nat /\ entries[id].cap \in Nat
  BY <1>1 DEF Entry
<1>3. entries[id].cap = 0
  BY <1>1, <1>2, Sizes DEF Below
<1>4. entries[id].size <= entries[id].cap * SectorSize
  BY DEF StoreInv, FilesFit, Fits
<1> QED
  BY <1>2, <1>3, <1>4, Sizes

\* A larger extent has room for what a smaller one holds.
LEMMA Grows ==
  ASSUME NEW a \in Nat, NEW b \in Nat, a <= b
  PROVE  a * SectorSize \in Nat /\ b * SectorSize \in Nat /\ a * SectorSize <= b * SectorSize
<1>1. SectorSize \in Nat
  BY Sizes
<1> QED
  BY <1>1, SMT

\* A table in which one slot is given an extent.
LEMMA ExtentKeeps ==
  ASSUME NEW es \in [Ids -> Entry], NEW id \in Ids, NEW n \in Nat, NEW m \in Nat,
         NEW fs, fs = [es EXCEPT ![id] = WithExtent(es[id], n, m)]
  PROVE  /\ fs[id].start = n /\ fs[id].cap = m /\ fs[id].size = es[id].size
         /\ fs[id].used = es[id].used /\ fs[id].type = es[id].type
         /\ \A i \in Ids : i # id => fs[i] = es[i]
<1>1. /\ fs[id] = WithExtent(es[id], n, m) /\ es[id] \in Entry
      /\ \A i \in Ids : i # id => fs[i] = es[i]
  OBVIOUS
<1>2. ASSUME NEW e \in Entry
      PROVE  /\ WithExtent(e, n, m).start = n /\ WithExtent(e, n, m).cap = m
             /\ WithExtent(e, n, m).size = e.size
             /\ WithExtent(e, n, m).used = e.used /\ WithExtent(e, n, m).type = e.type
  BY DEF Entry, WithExtent
<1> QED
  BY <1>1, <1>2

LEMMA StoreWrite ==
  ASSUME Healthy, StoreInv, Inv', NEW id \in Ids, NEW off \in Offsets, NEW buf \in Bufs,
         Write(id, off, buf)
  PROVE  StoreInv'
<1> DEFINE need == NeedSectors(off + Len(buf))
<1>1. /\ pc = "idle" /\ nextFree + need <= MaxNextFree
      /\ entries \in [Ids -> Entry] /\ entries[id] \in Entry /\ nextFree \in Nat /\ dTable = entries
  <2>1. pc = "idle" /\ nextFree + need <= MaxNextFree
    BY DEF Write
  <2>2. entries \in [Ids -> Entry] /\ entries[id] \in Entry /\ nextFree \in Nat
    BY StoreTypes
  <2>3. dTable = entries
    BY <2>1 DEF StoreInv, TableSynced
  <2> HIDE DEF need
  <2> QED
    BY <2>1, <2>2, <2>3, Zenon
<1>2. off \in Nat /\ Len(buf) \in Nat /\ buf \in Seq(Bytes)
  BY InputsAssumption
<1>3. need \in Nat
  <2>1. off + Len(buf) \in Nat
    BY <1>2
  <2> QED
    BY <2>1, NeedIsEnough
<1>4. CASE ~IsFile(entries, id)
  <2>1. Refuse
    BY <1>4 DEF Write
  <2> QED
    BY <1>1, <2>1, TailsKeep
<1>5. CASE IsFile(entries, id)
  <2>1. /\ job' = [id |-> id, off |-> off, buf |-> buf, done |-> 0] /\ UNCHANGED disk
        /\ IF entries[id].start = 0
           THEN /\ entries' = [entries EXCEPT ![id] = WithExtent(@, nextFree, need)]
                /\ nextFree' = nextFree + need /\ pc' = "fill"
           ELSE /\ pc' = IF need > entries[id].cap THEN "copy" ELSE "fill"
                /\ UNCHANGED memory
    BY <1>5 DEF Write
  <2>2. /\ job'.id = id /\ job'.off = off /\ job'.buf = buf /\ job'.done = 0
        /\ EndOf(job') = off + Len(buf)
    BY <2>1 DEF EndOf
  <2>3. UNCHANGED <<dSuper, dTable, data>>
    BY <2>1 DEF disk
  <2>4. BlankUnsigned'
    BY <2>3 DEF StoreInv, BlankUnsigned
  <2> HIDE DEF need
  <2>5. CASE entries[id].start = 0
    <3>1. entries[id].cap = 0 /\ entries[id].size = 0
      BY <2>5, NoExtentEmpty
    <3>2. /\ entries' = [entries EXCEPT ![id] = WithExtent(entries[id], nextFree, need)]
          /\ nextFree' = nextFree + need /\ pc' = "fill"
      BY <2>1, <2>5
    <3>3. /\ entries'[id].size = entries[id].size /\ entries'[id].cap = need
          /\ entries'[id].used = entries[id].used /\ entries'[id].type = entries[id].type
          /\ \A i \in Ids : i # id => entries'[i] = entries[i]
      BY <1>1, <1>3, <3>2, ExtentKeeps
    <3>4. entries'[id].size = 0
      BY <3>1, <3>3
    <3>5. FilesFit'
      <4>1. 0 <= need * SectorSize
        BY <1>3, Grows
      <4>2. \A i \in Ids : entries'[i].size <= entries'[i].cap * SectorSize
        BY <3>3, <3>4, <4>1 DEF StoreInv, FilesFit, Fits
      <4> QED
        BY <2>3, <4>2 DEF StoreInv, FilesFit, Fits
    <3>6. PointersBounded'
      BY <1>1, <2>3, <3>2 DEF StoreInv, PointersBounded
    <3>7. TableSynced' /\ CopyProgress'
      BY <1>1, <2>2, <2>3, <3>2, <3>3 DEF TableSynced, CopyProgress
    <3>8. FillProgress'
      BY <1>1, <1>2, <1>5, <2>2, <2>3, <3>1, <3>3 DEF FillProgress, IsFile, Disjoint
    <3> QED
      BY <2>4, <3>5, <3>6, <3>7, <3>8 DEF StoreInv
  <2>6. CASE entries[id].start # 0
    <3>1. UNCHANGED <<entries, nextFree>> /\ pc' = IF need > entries[id].cap THEN "copy" ELSE "fill"
      BY <2>1, <2>6 DEF memory
    <3>2. FilesFit' /\ PointersBounded' /\ TableSynced'
      BY <1>1, <2>3, <3>1 DEF StoreInv, FilesFit, Fits, PointersBounded, TableSynced
    <3>3. CopyProgress'
      <4>1. entries[id].cap \in Nat
        BY <1>1 DEF Entry
      <4>2. NeedSectors(EndOf(job'))= need
        BY <2>2 DEF need
      <4>3. pc' = "copy" => entries[id].cap < need
        BY <1>3, <3>1, <4>1
      <4>4. pc' = "copy" =>
              /\ IsFile(entries', job'.id)
              /\ job'.done <= entries'[job'.id].cap
              /\ entries'[job'.id].cap < NeedSectors(EndOf(job'))
              /\ nextFree' + NeedSectors(EndOf(job')) <= MaxNextFree
              /\ \A s \in 0 .. job'.done - 1 : data'[nextFree' + s] = data'[entries'[job'.id].start + s]
        BY <1>1, <1>5, <2>2, <2>3, <3>1, <4>1, <4>2, <4>3
      <4>5. NeedSectors(EndOf(job')) = NeedSectors(EndOf(job))'
        BY DEF EndOf, NeedSectors
      <4> QED
        BY <4>4, <4>5 DEF CopyProgress, IsFile
    <3>4. FillProgress'
      BY <1>1, <1>2, <1>5, <2>2, <2>3, <3>1 DEF FillProgress, IsFile
    <3> QED
      BY <2>4, <3>2, <3>3, <3>4 DEF StoreInv
  <2> QED
    BY <2>5, <2>6
<1> QED
  BY <1>4, <1>5

LEMMA StoreCopy ==
  ASSUME Healthy, StoreInv, Inv', CopySector
  PROVE  StoreInv'
<1> DEFINE src == entries[job.id].start + job.done
           dst == nextFree + job.done
<1>1. /\ UNCHANGED <<entries, nextFree, dSuper, dTable, pc, ret>> /\ pc = "copy"
      /\ job' = [job EXCEPT !.done = @ + 1]
      /\ job.done < entries[job.id].cap
      /\ data' = [data EXCEPT ![dst] = data[src]]
      /\ dst \in Lbas
  BY CopyTurn DEF memory, CopySector
<1>2. /\ job \in Job /\ job.id \in Ids /\ job.done \in Nat
      /\ nextFree \in Nat /\ data \in [Lbas -> Sector]
      /\ entries[job.id].start \in Nat /\ entries[job.id].cap \in Nat
  BY JobTypes, StoreTypes DEF StoreInv, Inv, TypeOK
<1>3. job'.id = job.id /\ job'.off = job.off /\ job'.buf = job.buf /\ job'.done = job.done + 1
  BY <1>1, <1>2 DEF Job
<1>4. \A s \in 0 .. job.done : /\ entries[job.id].start + s \in Lbas
                               /\ entries[job.id].start + s < nextFree
  <2> SUFFICES ASSUME NEW s \in 0 .. job.done
               PROVE  entries[job.id].start + s \in Lbas /\ entries[job.id].start + s < nextFree
    OBVIOUS
  <2>1. entries[job.id].start + s \in Nat /\ Owns(entries[job.id], entries[job.id].start + s)
    BY <1>1, <1>2 DEF Owns
  <2> QED
    BY <1>2, <2>1, StoreTypes, OnDevice
<1>5. \A s \in 0 .. job.done : data'[nextFree + s] = data'[entries[job.id].start + s]
  <2> SUFFICES ASSUME NEW s \in 0 .. job.done
               PROVE  data'[nextFree + s] = data'[entries[job.id].start + s]
    OBVIOUS
  <2>1. data'[entries[job.id].start + s] = data[entries[job.id].start + s]
    BY <1>1, <1>2, <1>4
  <2>2. CASE s = job.done
    BY <1>1, <1>2, <2>1, <2>2
  <2>3. CASE s # job.done
    <3>1. s \in 0 .. job.done - 1 /\ nextFree + s # dst
      BY <1>2, <2>3
    <3>2. data[nextFree + s] = data[entries[job.id].start + s]
      BY <1>1, <3>1 DEF StoreInv, CopyProgress
    <3>3. data'[nextFree + s] = data[nextFree + s]
      <4>1. s \in Nat /\ s <= job.done /\ nextFree + s \in Nat
        BY <1>2
      <4>2. nextFree + s \in Lbas
        BY <1>1, <1>2, <4>1, Sizes DEF Lbas
      <4> QED
        BY <1>1, <1>2, <3>1, <4>2
    <3> QED
      BY <2>1, <3>2, <3>3
  <2> QED
    BY <2>2, <2>3
<1>6. CopyProgress'
  <2>1. NeedSectors(EndOf(job))' = NeedSectors(EndOf(job))
    BY <1>3 DEF EndOf, NeedSectors
  <2>2. IsFile(entries, job.id)' <=> IsFile(entries, job.id)
    BY <1>1, <1>3 DEF IsFile
  <2>3. job.done + 1 <= entries[job.id].cap /\ 0 .. job'.done - 1 = 0 .. job.done
    BY <1>1, <1>2, <1>3
  <2>4. \A s \in 0 .. job'.done - 1 : data'[nextFree' + s] = data'[entries'[job'.id].start + s]
    BY <1>1, <1>3, <1>5, <2>3
  <2>5. /\ IsFile(entries, job.id)
        /\ entries[job.id].cap < NeedSectors(EndOf(job))
        /\ nextFree + NeedSectors(EndOf(job)) <= MaxNextFree
    BY <1>1 DEF StoreInv, CopyProgress
  <2> QED
    BY <1>1, <1>3, <2>1, <2>2, <2>3, <2>4, <2>5 DEF CopyProgress
<1>7. FilesFit' /\ PointersBounded' /\ BlankUnsigned' /\ TableSynced'
  BY <1>1 DEF StoreInv, FilesFit, Fits, PointersBounded, BlankUnsigned, TableSynced
<1>8. FillProgress'
  BY <1>1 DEF FillProgress
<1> QED
  BY <1>6, <1>7, <1>8 DEF StoreInv

LEMMA StoreRelocate ==
  ASSUME Healthy, StoreInv, Inv', Relocate
  PROVE  StoreInv'
<1> DEFINE need == NeedSectors(EndOf(job))
<1>1. /\ pc = "copy" /\ pc' = "fill" /\ UNCHANGED <<dSuper, dTable, data>>
      /\ entries' = [entries EXCEPT ![job.id] = WithExtent(entries[job.id], nextFree, need)]
      /\ nextFree' = nextFree + need
      /\ job' = [job EXCEPT !.done = 0]
  BY DEF Relocate, disk, EndOf
<1>2. /\ job \in Job /\ job.id \in Ids /\ job.done \in Nat /\ EndOf(job) \in Nat /\ Len(job.buf) \in Nat
      /\ nextFree \in Nat /\ entries \in [Ids -> Entry] /\ entries[job.id] \in Entry
      /\ entries[job.id].start \in Nat /\ entries[job.id].cap \in Nat /\ entries[job.id].size \in Nat
      /\ dTable = entries
  BY <1>1, JobTypes, StoreTypes DEF StoreInv, Inv, TypeOK, EndOf, TableSynced
<1>3. need \in Nat
  BY <1>2, NeedIsEnough
<1>4. /\ IsFile(entries, job.id) /\ entries[job.id].cap < need /\ nextFree + need <= MaxNextFree
  BY <1>1 DEF StoreInv, CopyProgress
<1> HIDE DEF need
<1>5. job'.id = job.id /\ job'.off = job.off /\ job'.buf = job.buf /\ job'.done = 0
  BY <1>1, <1>2 DEF Job
<1>6. \A i \in Ids : i # job.id => entries'[i] = entries[i]
  BY <1>1, <1>2
<1>7. /\ entries'[job.id].size = entries[job.id].size /\ entries'[job.id].cap = need
      /\ entries'[job.id].start = nextFree
      /\ entries'[job.id].used = entries[job.id].used /\ entries'[job.id].type = entries[job.id].type
  <2>1. ASSUME NEW id \in Ids, entries' = [entries EXCEPT ![id] = WithExtent(entries[id], nextFree, need)]
        PROVE  /\ entries'[id].size = entries[id].size /\ entries'[id].cap = need
               /\ entries'[id].start = nextFree
               /\ entries'[id].used = entries[id].used /\ entries'[id].type = entries[id].type
    BY <1>2, <1>3, <2>1, ExtentKeeps
  <2> QED
    BY <1>1, <1>2, <2>1
<1>8. FilesFit'
  <2>1. entries[job.id].cap * SectorSize <= need * SectorSize
        /\ entries[job.id].cap * SectorSize \in Nat /\ need * SectorSize \in Nat
    <3>1. entries[job.id].cap <= need
      BY <1>2, <1>3, <1>4
    <3> QED
      BY <1>2, <1>3, <3>1, Grows
  <2>2. entries[job.id].size <= entries[job.id].cap * SectorSize
    BY <1>2 DEF StoreInv, FilesFit, Fits
  <2>3. entries[job.id].size <= need * SectorSize
    BY <1>2, <2>1, <2>2
  <2>4. \A i \in Ids : entries'[i].size <= entries'[i].cap * SectorSize
    BY <1>6, <1>7, <2>3 DEF StoreInv, FilesFit, Fits
  <2> QED
    BY <1>1, <2>4 DEF StoreInv, FilesFit, Fits
<1>9. PointersBounded' /\ BlankUnsigned'
  BY <1>1, <1>4 DEF StoreInv, PointersBounded, BlankUnsigned
<1>10. TableSynced' /\ CopyProgress'
  BY <1>1, <1>2, <1>5, <1>6 DEF TableSynced, CopyProgress
<1>11. Disjoint(dTable'[job.id], entries'[job.id])
  <2>1. entries[job.id].cap = 0 \/ entries[job.id].start + entries[job.id].cap <= nextFree
    BY <1>2, StoreTypes DEF Below
  <2> QED
    BY <1>1, <1>2, <1>7, <2>1 DEF Disjoint
<1>12. IsFile(entries', job.id) /\ IsFile(dTable', job.id)
  BY <1>1, <1>2, <1>4, <1>7 DEF IsFile
<1>13. FillProgress'
  BY <1>1, <1>2, <1>5, <1>7, <1>11, <1>12 DEF FillProgress, IsFile, Disjoint
<1> QED
  BY <1>8, <1>9, <1>10, <1>13 DEF StoreInv

\* Byte k of the buffer goes to byte off + k of the file.
LEMMA ByteOfChunk ==
  ASSUME NEW off \in Nat, NEW done \in Nat, NEW len \in Nat, NEW top \in Nat,
         NEW chunk \in Nat, NEW k \in Nat, NEW n \in Nat,
         n = off + k, k < done + chunk, done + chunk <= len, off + len <= top
  PROVE  n < top /\ n < off + done + chunk /\ n - off + 1 = k + 1
  OBVIOUS

LEMMA StoreFill ==
  ASSUME Healthy, StoreInv, Inv', FillSector
  PROVE  StoreInv'
<1> PICK start : start = entries[job.id].start
  OBVIOUS
<1>1. /\ UNCHANGED <<entries, nextFree, dSuper, dTable, pc, ret>> /\ pc = "fill"
  BY FillTurn DEF FillSector, memory
<1>2. PICK chunk \in Nat :
        /\ job' = [job EXCEPT !.done = @ + chunk]
        /\ job.done + chunk <= Len(job.buf)
        /\ \A k \in Nat : k < entries[job.id].cap * SectorSize =>
             ByteAt(start, k)' = IF job.off + job.done <= k /\ k < job.off + job.done + chunk
                                 THEN job.buf[k - job.off + 1] ELSE ByteAt(start, k)
  BY FillTurn
<1>3. /\ job \in Job /\ job.id \in Ids /\ job.done \in Nat /\ job.off \in Nat /\ Len(job.buf) \in Nat
      /\ entries[job.id].cap \in Nat /\ start \in Nat
  BY JobTypes DEF StoreInv, Inv, TypeOK
<1>4. job'.id = job.id /\ job'.off = job.off /\ job'.buf = job.buf /\ job'.done = job.done + chunk
  BY <1>2, <1>3 DEF Job
<1>5. job.off + Len(job.buf) <= entries[job.id].cap * SectorSize /\ entries[job.id].cap * SectorSize \in Nat
  BY <1>1, <1>3, Sizes DEF StoreInv, Inv, WriteFits
<1>6. /\ IsFile(entries, job.id) /\ IsFile(dTable, job.id)
      /\ dTable[job.id].size = entries[job.id].size
      /\ \/ dTable[job.id].start = entries[job.id].start /\ dTable[job.id].cap = entries[job.id].cap
         \/ Disjoint(dTable[job.id], entries[job.id])
      /\ \A k \in 0 .. job.done - 1 : ByteAt(start, job.off + k) = job.buf[k + 1]
  BY <1>1 DEF StoreInv, FillProgress
<1>7. \A k \in 0 .. job.done + chunk - 1, n \in Nat :
        n = job.off + k => ByteAt(start, n)' = job.buf[k + 1]
  <2> SUFFICES ASSUME NEW k \in 0 .. job.done + chunk - 1, NEW n \in Nat, n = job.off + k
               PROVE  ByteAt(start, n)' = job.buf[k + 1]
    OBVIOUS
  <2>1. /\ n < entries[job.id].cap * SectorSize /\ n < job.off + job.done + chunk
        /\ n - job.off + 1 = k + 1 /\ k \in Nat
    <3>1. PICK off \in Nat, done \in Nat, len \in Nat, top \in Nat :
            /\ off = job.off /\ done = job.done /\ len = Len(job.buf)
            /\ top = entries[job.id].cap * SectorSize
      BY <1>3, <1>5
    <3>2. done + chunk <= len /\ off + len <= top
      BY <1>2, <1>5, <3>1
    <3>3. k \in Nat /\ k < done + chunk /\ n = off + k
      <4>1. k \in 0 .. done + chunk - 1
        BY <3>1
      <4>2. k \in Nat /\ k < done + chunk
        BY <4>1
      <4> QED
        BY <3>1, <4>2
    <3>4. n < top /\ n < off + done + chunk /\ n - off + 1 = k + 1
      BY <3>2, <3>3, ByteOfChunk
    <3> QED
      BY <3>1, <3>3, <3>4
  <2>2. ByteAt(start, n)' = IF job.off + job.done <= n /\ n < job.off + job.done + chunk
                            THEN job.buf[n - job.off + 1] ELSE ByteAt(start, n)
    BY <1>2, <2>1
  <2>3. CASE k < job.done
    <3>1. ~(job.off + job.done <= n) /\ k \in 0 .. job.done - 1
      BY <1>3, <2>1, <2>3
    <3>2. ByteAt(start, n) = job.buf[k + 1]
      BY <1>6, <3>1
    <3> QED
      BY <2>2, <3>1, <3>2
  <2>4. CASE ~(k < job.done)
    <3>1. job.off + job.done <= n
      BY <1>3, <2>1, <2>4
    <3> QED
      BY <2>1, <2>2, <3>1
  <2> QED
    BY <2>3, <2>4
<1>8. \A k \in 0 .. job'.done - 1 : ByteAt(entries[job.id].start, job.off + k)' = job'.buf[k + 1]
  <2> SUFFICES ASSUME NEW k \in 0 .. job'.done - 1
               PROVE  ByteAt(entries[job.id].start, job.off + k)' = job'.buf[k + 1]
    OBVIOUS
  <2>0. job.off + k \in Nat /\ k \in 0 .. job.done + chunk - 1
    BY <1>3, <1>4
  <2>1. PICK n \in Nat : n = job.off + k
    BY <2>0
  <2>2. ByteAt(entries[job.id].start, job.off + k)' = ByteAt(start, n)'
    BY <1>1, <1>4, <2>1 DEF ByteAt
  <2>3. ByteAt(start, n)' = job.buf[k + 1]
    BY <1>7, <2>0, <2>1
  <2> QED
    BY <1>4, <2>2, <2>3
<1>9. FillProgress'
  <2>1. IsFile(entries, job.id)' /\ IsFile(dTable, job.id)' /\ job'.done <= Len(job'.buf)
    BY <1>1, <1>2, <1>4, <1>6 DEF IsFile
  <2> QED
    BY <1>1, <1>4, <1>6, <1>8, <2>1 DEF FillProgress, Disjoint
<1>10. FilesFit' /\ PointersBounded' /\ BlankUnsigned' /\ TableSynced' /\ CopyProgress'
  BY <1>1, <1>4 DEF StoreInv, FilesFit, Fits, PointersBounded, BlankUnsigned, TableSynced, CopyProgress
<1> QED
  BY <1>9, <1>10 DEF StoreInv

\* Empty slots fit.
LEMMA NewTablesFit ==
  /\ Fits([i \in Ids |-> FreeEntry])
  /\ Fits(FormattedTable)
<1>1. /\ FreeEntry.size = 0 /\ FreeEntry.cap = 0
      /\ \A dir, type, name : NewEntry(dir, type, name).size = 0 /\ NewEntry(dir, type, name).cap = 0
  BY DEF FreeEntry, NewEntry
<1>2. 0 <= 0 * SectorSize
  BY Sizes
<1> QED
  BY <1>1, <1>2 DEF Fits, FormattedTable

LEMMA StoreStep ==
  ASSUME Healthy, StoreInv, [Next]_vars
  PROVE  StoreInv'
<1>0. Inv' /\ Fits(entries) /\ Fits(dTable)
  BY InvStep DEF Healthy, StoreInv, FilesFit
<1>0a. entries \in [Ids -> Entry]
  BY StoreTypes
<1>0b. 0 <= 0 * SectorSize
  BY Sizes
<1>1. CASE Mount
  <2>1. /\ entries' = dTable /\ nextFree' = dSuper.next /\ pc' = "idle" /\ UNCHANGED <<dSuper, dTable>>
    BY <1>1 DEF Mount, Return, disk
  <2> QED
    BY <1>0, <2>1 DEF StoreInv, FilesFit, Fits, PointersBounded, BlankUnsigned,
       TableSynced, CopyProgress, FillProgress
<1>2. CASE Format
  <2>1. /\ entries' = FormattedTable /\ nextFree' = DataLba /\ pc' = "flush" /\ UNCHANGED <<dSuper, dTable>>
    BY <1>2 DEF Format, StartFlush, disk
  <2>2. DataLba <= MaxNextFree
    BY SizesAssumption
  <2>3. Fits(entries')
    BY <2>1, NewTablesFit
  <2> QED
    BY <1>0, <2>1, <2>2, <2>3 DEF StoreInv, FilesFit, Fits, PointersBounded, BlankUnsigned,
       TableSynced, CopyProgress, FillProgress
<1>3. CASE \E p \in Paths, type \in NodeTypes : CreateIn(Root, p, type)
  <2> PICK p \in Paths, type \in NodeTypes : CreateIn(Root, p, type)
    BY <1>3
  <2>1. \/ pc = "idle" /\ Refuse
        \/ /\ \E dir \in Ids, idx \in Ids : \E name : entries' = [entries EXCEPT ![idx] = NewEntry(dir, type, name)]
           /\ StartFlush /\ UNCHANGED <<nextFree, disk>>
    BY DEF CreateIn
  <2>2. ASSUME \E dir \in Ids, idx \in Ids : \E name : entries' = [entries EXCEPT ![idx] = NewEntry(dir, type, name)]
        PROVE  Fits(entries')
    <3> PICK dir \in Ids, idx \in Ids : \E name : entries' = [entries EXCEPT ![idx] = NewEntry(dir, type, name)]
      BY <2>2
    <3> PICK name : entries' = [entries EXCEPT ![idx] = NewEntry(dir, type, name)]
      OBVIOUS
    <3>1. NewEntry(dir, type, name).size = 0 /\ NewEntry(dir, type, name).cap = 0
      BY DEF NewEntry
    <3>2. \A i \in Ids : entries'[i] = IF i = idx THEN NewEntry(dir, type, name) ELSE entries[i]
      BY <1>0a
    <3> QED
      BY <1>0, <1>0b, <3>1, <3>2 DEF Fits
  <2> QED
    BY <1>0, <2>1, <2>2, TailsKeep
<1>4. CASE \E p \in Paths : RemoveIn(Root, p)
  <2> PICK p \in Paths : RemoveIn(Root, p)
    BY <1>4
  <2>1. \/ pc = "idle" /\ Refuse
        \/ /\ \E id \in Ids : entries' = [entries EXCEPT ![id] = FreeEntry]
           /\ StartFlush /\ UNCHANGED <<nextFree, disk>>
    BY DEF RemoveIn
  <2>2. ASSUME \E id \in Ids : entries' = [entries EXCEPT ![id] = FreeEntry]
        PROVE  Fits(entries')
    <3> PICK id \in Ids : entries' = [entries EXCEPT ![id] = FreeEntry]
      BY <2>2
    <3>1. FreeEntry.size = 0 /\ FreeEntry.cap = 0
      BY DEF FreeEntry
    <3>2. \A i \in Ids : entries'[i] = IF i = id THEN FreeEntry ELSE entries[i]
      BY <1>0a
    <3> QED
      BY <1>0, <1>0b, <3>1, <3>2 DEF Fits
  <2> QED
    BY <1>0, <2>1, <2>2, TailsKeep
<1>5. CASE \E id \in Ids : Truncate(id)
  <2> PICK id \in Ids : Truncate(id)
    BY <1>5
  <2>1. \/ pc = "idle" /\ Refuse
        \/ /\ entries' = [entries EXCEPT ![id] = [entries[id] EXCEPT !.size = 0]]
           /\ StartFlush /\ UNCHANGED <<nextFree, disk>>
    BY DEF Truncate
  <2>2. ASSUME entries' = [entries EXCEPT ![id] = [entries[id] EXCEPT !.size = 0]]
        PROVE  Fits(entries')
    <3>1. \A i \in Ids : i # id => entries'[i] = entries[i]
      BY <1>0a, <2>2
    <3>2. entries'[id] = [entries[id] EXCEPT !.size = 0] /\ entries[id] \in Entry
      BY <1>0a, <2>2
    <3>3. entries'[id].size = 0 /\ entries'[id].cap = entries[id].cap /\ entries[id].cap \in Nat
      BY <3>2 DEF Entry
    <3>4. 0 <= entries[id].cap * SectorSize
      BY <3>3, Grows
    <3> QED
      BY <1>0, <3>1, <3>3, <3>4 DEF Fits
  <2> QED
    BY <1>0, <2>1, <2>2, TailsKeep
<1>6. CASE \E id \in Ids, buf \in Bufs, off \in Offsets : Write(id, off, buf)
  BY <1>0, <1>6, StoreWrite
<1>7. CASE CopySector
  BY <1>0, <1>7, StoreCopy
<1>8. CASE Relocate
  BY <1>0, <1>8, StoreRelocate
<1>9. CASE FillSector
  BY <1>0, <1>9, StoreFill
<1>10. CASE SetSize
  <2> DEFINE end == job.off + Len(job.buf)
             new == IF end > entries[job.id].size THEN end ELSE entries[job.id].size
  <2>1. /\ pc = "fill" /\ StartFlush /\ UNCHANGED <<nextFree, disk>>
        /\ entries' = [entries EXCEPT ![job.id] = [entries[job.id] EXCEPT !.size = new]]
    BY <1>10 DEF SetSize
  <2>2. job.id \in Ids /\ entries[job.id] \in Entry
    BY JobTypes DEF StoreInv, Inv
  <2>3. new <= entries[job.id].cap * SectorSize
    BY <1>0, <2>1, <2>2 DEF StoreInv, Inv, WriteFits, Fits
  <2> HIDE DEF new
  <2>4. /\ entries'[job.id] = [entries[job.id] EXCEPT !.size = new]
        /\ \A i \in Ids : i # job.id => entries'[i] = entries[i]
    BY <1>0a, <2>1, <2>2
  <2>5. entries'[job.id].size = new /\ entries'[job.id].cap = entries[job.id].cap
    BY <2>2, <2>4 DEF Entry
  <2>6. Fits(entries')
    BY <1>0, <2>3, <2>4, <2>5 DEF Fits
  <2> QED
    BY <1>0, <2>1, <2>6, TailsKeep
<1>11. CASE FlushSuper
  <2>1. /\ UNCHANGED <<entries, nextFree, dTable>> /\ pc = "flush"
        /\ dSuper' = [signed |-> TRUE, next |-> nextFree] /\ pc' = pc
    BY <1>11, NoFailures DEF FlushSuper, Landed, memory
  <2>2. dSuper'.signed /\ dSuper'.next = nextFree
    BY <2>1
  <2> QED
    BY <1>0, <2>1, <2>2 DEF StoreInv, FilesFit, Fits, PointersBounded, BlankUnsigned,
       TableSynced, CopyProgress, FillProgress
<1>12. CASE FlushTable
  <2>1. /\ UNCHANGED <<entries, nextFree, dSuper>> /\ pc = "flush" /\ job.done >= 1
        /\ pc' = "flush" \/ (pc' = "idle" /\ ret' = "ok")
        /\ \A i \in Ids : dTable'[i] = entries[i] \/ dTable'[i] = dTable[i]
    <3>1. /\ pc = "flush" /\ job.done \in 1 .. TableSectors /\ UNCHANGED <<entries, nextFree, dSuper>>
          /\ \E w \in Outcomes :
               /\ dTable' = [i \in Ids |-> IF i \in SlotsOf(job.done - 1) /\ Landed(w)
                                           THEN entries[i] ELSE dTable[i]]
               /\ w = "ok" => \/ Return("ok")
                              \/ UNCHANGED <<pc, ret>>
      BY <1>12 DEF FlushTable, memory
    <3> QED
      BY <3>1, NoFailures DEF Return
  <2>2. FilesFit'
    BY <1>0, <2>1 DEF FilesFit, Fits
  <2>3. dSuper.signed
    BY <2>1 DEF StoreInv, Inv, FlushProgress
  <2>4. pc' = "idle" => dTable' = entries'
    BY <1>0, <2>1 DEF Inv, SuccessIsDurable
  <2> QED
    BY <1>0, <2>1, <2>2, <2>3, <2>4 DEF StoreInv, PointersBounded, BlankUnsigned,
       TableSynced, CopyProgress, FillProgress
<1>13. CASE Crash
  <2>1. /\ entries' = [i \in Ids |-> FreeEntry] /\ nextFree' = 0 /\ pc' = "off" /\ UNCHANGED <<dSuper, dTable>>
    BY <1>13 DEF Crash, disk
  <2>2. Fits(entries')
    BY <2>1, NewTablesFit
  <2>3. 0 <= MaxNextFree
    BY SizesAssumption
  <2> QED
    BY <1>0, <2>1, <2>2, <2>3 DEF StoreInv, FilesFit, Fits, PointersBounded, BlankUnsigned,
       TableSynced, CopyProgress, FillProgress
<1>14. CASE UNCHANGED vars
  <2>1. UNCHANGED <<entries, nextFree, dSuper, dTable, data, pc, job>>
    BY <1>14 DEF vars
  <2>2. CopyProgress'
    BY <2>1 DEF StoreInv, CopyProgress, IsFile, EndOf, NeedSectors
  <2>3. FillProgress'
    BY <2>1 DEF StoreInv, FillProgress, IsFile, Disjoint, ByteAt
  <2> QED
    BY <1>0, <2>1, <2>2, <2>3 DEF StoreInv, FilesFit, Fits, PointersBounded, BlankUnsigned, TableSynced
<1> QED
  BY <1>1, <1>2, <1>3, <1>4, <1>5, <1>6, <1>7, <1>8, <1>9, <1>10, <1>11, <1>12, <1>13, <1>14 DEF Next

-----------------------------------------------------------------------------
(* The refinement, action by action.                                       *)

\* Min yields an element, and the least one.
LEMMA LeastElement ==
  ASSUME NEW S \in SUBSET Nat, S # {}
  PROVE  \E x \in S : Min(S) = x /\ \A y \in S : x <= y
<1> DEFINE R == {p \in Nat \X Nat : p[1] < p[2]}
<1>1. IsWellFoundedOn(R, Nat)
  BY NatLessThanWellFounded, Zenon DEF OpToRel
<1> HIDE DEF R
<1>2. PICK x \in S : \A y \in S : ~(<<y, x>> \in R)
  BY <1>1, WFMin
<1>3. \A a, b \in Nat : a < b => <<a, b>> \in R
  BY SMT DEF R
<1>4. \A y \in S : y \in Nat /\ x \in Nat /\ ~(y < x)
  BY <1>2, <1>3, Zenon
<1>5. \A y \in S : x =< y
  BY <1>4
<1> QED
  BY <1>5 DEF Min

\* sfs_find_free_entry returns a slot that is free.
LEMMA FreshSlot ==
  ASSUME NEW es, NEW cwd, NEW p, NEW idx \in Ids, idx = CreateSlot(es, cwd, p)
  PROVE  ~es[idx].used
<1> DEFINE S == {i \in Ids : ~es[i].used}
<1>0. idx # NoNode
  BY DEF Ids, NoNode
<1>1. idx = Lowest(S)
  BY <1>0, Zenon DEF CreateSlot, FindFreeEntry
<1>2. S \in SUBSET Nat
  BY Sizes DEF Ids
<1>3. S # {} /\ idx = Min(S)
  BY <1>0, <1>1, Zenon DEF Lowest
<1> HIDE DEF S
<1>4. idx \in S
  BY <1>2, <1>3, LeastElement
<1> QED
  BY <1>4 DEF S

\* What the mapping shows of a file: a sequence of bytes.
MapTyped ==
  pc # "off" =>
    \A i \in Ids : IsFile(entries, i) =>
      /\ FinalSize(i) \in Nat
      /\ MemFile(i) = [k \in 1 .. FinalSize(i) |-> FinalByte(i, k - 1)]
      /\ MemFile(i) \in [1 .. FinalSize(i) -> Bytes]
      /\ MemFile(i) \in Seq(Bytes) /\ Len(MemFile(i)) = FinalSize(i)

LEMMA BytesSeq ==
  ASSUME NEW n \in Nat, NEW f \in [1 .. n -> Bytes]
  PROVE  f \in Seq(Bytes) /\ Len(f) = n
  OBVIOUS

LEMMA FinalTyped ==
  ASSUME Healthy, StoreInv, pc # "off", NEW i \in Ids, IsFile(entries, i), NEW k \in Nat
  PROVE  /\ FinalSize(i) \in Nat
         /\ k < FinalSize(i) => FinalByte(i, k) \in Bytes
<1>1. /\ TypeOK /\ entries[i] \in Entry /\ nextFree \in Nat
      /\ job.off \in Nat /\ job.buf \in Seq(Bytes) /\ Len(job.buf) \in Nat /\ EndOf(job) \in Nat
  BY StoreTypes, JobTypes DEF StoreInv, Inv, EndOf
<1>2. entries[i].size \in Nat /\ entries[i].start \in Nat /\ entries[i].cap \in Nat
  BY <1>1 DEF Entry
<1>3. FinalSize(i) \in Nat
  BY <1>1, <1>2 DEF FinalSize
<1>4. ASSUME k < entries[i].cap * SectorSize PROVE ByteAt(entries[i].start, k) \in Bytes
  BY <1>1, <1>4, MemByte, ByteTyped DEF ByteAt
<1>5. ASSUME k < FinalSize(i) PROVE FinalByte(i, k) \in Bytes
  <2>1. CASE Writing(i) /\ job.off <= k /\ k < EndOf(job)
    <3>1. FinalByte(i, k) = job.buf[k - job.off + 1]
      BY <2>1 DEF FinalByte
    <3>2. k - job.off + 1 \in 1 .. Len(job.buf)
      BY <1>1, <2>1 DEF EndOf
    <3> QED
      BY <1>1, <3>1, <3>2
  <2>2. CASE /\ ~(Writing(i) /\ job.off <= k /\ k < EndOf(job))
             /\ pc = "copy" /\ Writing(i) /\ k \div SectorSize >= entries[i].cap
    <3>1. FinalByte(i, k) = ByteAt(nextFree, k)
      BY <2>2, Zenon DEF FinalByte, ByteAt
    <3>2. i = job.id
      BY <2>2 DEF Writing
    <3> DEFINE need == NeedSectors(EndOf(job))
    <3>3. /\ need \in Nat /\ EndOf(job) <= need * SectorSize
          /\ nextFree + need <= SectorCount /\ entries[i].cap < need
      <4>1. need \in Nat /\ EndOf(job) <= need * SectorSize
        BY <1>1, NeedIsEnough
      <4>2. nextFree + need <= MaxNextFree /\ entries[i].cap < need
        BY <2>2, <3>2 DEF StoreInv, CopyProgress
      <4> HIDE DEF need
      <4> QED
        BY <1>1, <4>1, <4>2, SizesAssumption DEF Healthy
    <3> HIDE DEF need
    <3>4. k < need * SectorSize
      <4>1. k < EndOf(job) \/ k < entries[i].size
        BY <1>1, <1>2, <1>5 DEF FinalSize
      <4>2. entries[i].size <= entries[i].cap * SectorSize
        BY DEF StoreInv, FilesFit, Fits
      <4>3. /\ entries[i].cap * SectorSize <= need * SectorSize
            /\ entries[i].cap * SectorSize \in Nat /\ need * SectorSize \in Nat
        <5>1. entries[i].cap <= need
          BY <1>2, <3>3
        <5> QED
          BY <1>2, <3>3, <5>1, Grows
      <4> DEFINE a == entries[i].cap * SectorSize
                 b == need * SectorSize
      <4> HIDE DEF a, b
      <4>4. a \in Nat /\ b \in Nat /\ a <= b /\ entries[i].size <= a /\ EndOf(job) <= b
        BY <3>3, <4>2, <4>3 DEF a, b
      <4>5. k < b
        BY <1>1, <1>2, <4>1, <4>4
      <4> QED
        BY <4>5 DEF b
    <3>5. k \div SectorSize \in Nat /\ k \div SectorSize < need
      BY <3>3, <3>4, DivBelow, Sizes
    <3>6. nextFree + k \div SectorSize \in Lbas
      BY <1>1, <3>3, <3>5, Sizes DEF Lbas
    <3> QED
      BY <1>1, <3>1, <3>6, ByteTyped DEF ByteAt
  <2>3. CASE /\ ~(Writing(i) /\ job.off <= k /\ k < EndOf(job))
             /\ ~(pc = "copy" /\ Writing(i) /\ k \div SectorSize >= entries[i].cap)
    <3>1. FinalByte(i, k) = ByteAt(entries[i].start, k)
      BY <2>3, Zenon DEF FinalByte, ByteAt
    <3>2. CASE k < entries[i].size
      BY <1>4, <3>1, <3>2, MemFits
    <3>3. CASE ~(k < entries[i].size)
      <4>1. Writing(i) /\ k < EndOf(job)
        BY <1>5, <3>3 DEF FinalSize
      <4>2. i = job.id
        BY <4>1 DEF Writing
      <4>3. CASE pc = "copy"
        <5>1. ~(k \div SectorSize >= entries[i].cap)
          BY <2>3, <4>1, <4>3
        <5>2. k \div SectorSize \in Nat
          BY DivMod, Sizes
        <5>3. entries[i].start + k \div SectorSize \in Nat /\ Owns(entries[i], entries[i].start + k \div SectorSize)
          BY <1>2, <5>1, <5>2 DEF Owns
        <5>4. entries[i].start + k \div SectorSize \in Lbas
          BY <5>3, StoreTypes, OnDevice
        <5> QED
          BY <1>1, <3>1, <5>4, ByteTyped DEF ByteAt
      <4>4. CASE pc = "fill"
        <5>1. EndOf(job) <= entries[i].cap * SectorSize
          BY <4>2, <4>4 DEF StoreInv, Inv, WriteFits, EndOf
        <5>2. k < entries[i].cap * SectorSize
          BY <1>1, <1>2, <4>1, <5>1, Sizes
        <5> QED
          BY <1>4, <3>1, <5>2
      <4> QED
        BY <4>1, <4>3, <4>4 DEF Writing
    <3> QED
      BY <3>2, <3>3
  <2> QED
    BY <2>1, <2>2, <2>3
<1> QED
  BY <1>3, <1>5

LEMMA MapTypes ==
  ASSUME Healthy, StoreInv
  PROVE  MapTyped
<1> SUFFICES ASSUME pc # "off", NEW i \in Ids, IsFile(entries, i)
             PROVE  /\ FinalSize(i) \in Nat
                    /\ MemFile(i) = [k \in 1 .. FinalSize(i) |-> FinalByte(i, k - 1)]
                    /\ MemFile(i) \in [1 .. FinalSize(i) -> Bytes]
                    /\ MemFile(i) \in Seq(Bytes) /\ Len(MemFile(i)) = FinalSize(i)
  BY DEF MapTyped
<1>1. FinalSize(i) \in Nat /\ \A k \in Nat : k < FinalSize(i) => FinalByte(i, k) \in Bytes
  BY FinalTyped
<1>2. MemFile(i) = [k \in 1 .. FinalSize(i) |-> FinalByte(i, k - 1)]
  BY DEF MemFile
<1> DEFINE n == FinalSize(i)
           b(k) == FinalByte(i, k)
<1>3. n \in Nat /\ (\A k \in Nat : k < n => b(k) \in Bytes) /\ MemFile(i) = [k \in 1 .. n |-> b(k - 1)]
  BY <1>1, <1>2
<1> HIDE DEF n, b
<1>4. \A k \in 1 .. n : b(k - 1) \in Bytes
  <2> SUFFICES ASSUME NEW k \in 1 .. n PROVE b(k - 1) \in Bytes
    OBVIOUS
  <2>1. k - 1 \in Nat /\ k - 1 < n
    BY <1>3
  <2> QED
    BY <1>3, <2>1
<1>5. MemFile(i) \in [1 .. n -> Bytes]
  BY <1>3, <1>4
<1>6. MemFile(i) \in Seq(Bytes) /\ Len(MemFile(i)) = n
  BY <1>3, <1>5, BytesSeq
<1> QED
  BY <1>2, <1>3, <1>5, <1>6 DEF n

\* Rows that stay, and one that changes.
LEMMA RowsKept ==
  ASSUME pc # "off", pc' # "off", \A i \in Ids : MemFile(i)' = MemFile(i)
  PROVE  Contents' = Contents
<1>1. Contents = [i \in Ids |-> MemFile(i)]
  BY MappedFiles
<1>2. Contents' = [i \in Ids |-> MemFile(i)']
  BY DEF Contents, MemFile
<1> QED
  BY <1>1, <1>2

LEMMA RowChanged ==
  ASSUME pc # "off", pc' # "off", NEW id \in Ids,
         \A i \in Ids : i # id => MemFile(i)' = MemFile(i)
  PROVE  Contents[id] = MemFile(id) /\ Contents' = [Contents EXCEPT ![id] = MemFile(id)']
<1>1. Contents = [i \in Ids |-> MemFile(i)]
  BY MappedFiles
<1>2. Contents' = [i \in Ids |-> MemFile(i)']
  BY DEF Contents, MemFile
<1> QED
  BY <1>1, <1>2

\* A slot no call writes to, whose entry and sectors stay.
LEMMA RestingKept ==
  ASSUME NEW i \in Ids, entries'[i] = entries[i], ~Writing(i), ~Writing(i)',
         entries[i].size \in Nat,
         \A k \in Nat : k < entries[i].size => ByteAt(entries[i].start, k)' = ByteAt(entries[i].start, k)
  PROVE  MemFile(i)' = MemFile(i)
<1>1. IsFile(entries, i)' <=> IsFile(entries, i)
  BY DEF IsFile
<1>2. FinalSize(i)' = FinalSize(i) /\ FinalSize(i) = entries[i].size
  BY DEF FinalSize
<1>3. \A k : /\ FinalByte(i, k) = ByteAt(entries[i].start, k)
             /\ FinalByte(i, k)' = ByteAt(entries[i].start, k)'
  BY DEF FinalByte, ByteAt
<1> QED
  BY <1>1, <1>2, <1>3, MemFileKept

LEMMA RestingSame ==
  ASSUME NEW i \in Ids, entries'[i] = entries[i], data' = data, ~Writing(i), ~Writing(i)'
  PROVE  MemFile(i)' = MemFile(i)
<1>1. IsFile(entries, i)' <=> IsFile(entries, i)
  BY DEF IsFile
<1>2. FinalSize(i)' = FinalSize(i)
  BY DEF FinalSize
<1>3. \A k : FinalByte(i, k)' = FinalByte(i, k)
  BY DEF FinalByte
<1> QED
  BY <1>1, <1>2, <1>3 DEF MemFile

\* Between two calls everything is stored.
LEMMA IdleStored ==
  ASSUME StoreInv, pc = "idle"
  PROVE  DiskContents = Contents
<1>1. dTable = entries
  BY DEF StoreInv, TableSynced
<1>2. \A i \in Ids : FinalSize(i) = dTable[i].size /\ \A k : FinalByte(i, k) = DiskByte(i, k)
  BY <1>1 DEF FinalSize, FinalByte, DiskByte, Writing
<1>3. \A i \in Ids : MemFile(i) = DiskFile(i)
  BY <1>1, <1>2 DEF MemFile, DiskFile
<1> QED
  BY <1>3, MappedFiles

\* A call that refuses, or that begins to flush the slots it changed.
LEMMA TailMaps ==
  ASSUME pc = "idle", \/ Refuse
                      \/ StartFlush /\ UNCHANGED disk
  PROVE  /\ pc' # "off" /\ DiskContents' = DiskContents
         /\ \A i \in Ids : entries'[i] = entries[i] => MemFile(i)' = MemFile(i)
         /\ Refuse => Contents' = Contents
<1>1. pc' \in {"idle", "flush"} /\ UNCHANGED <<dTable, data>>
  BY DEF Refuse, Return, StartFlush, disk
<1>2. \A i \in Ids : ~Writing(i) /\ ~Writing(i)'
  BY <1>1 DEF Writing
<1>3. \A i \in Ids : entries'[i] = entries[i] => MemFile(i)' = MemFile(i)
  BY <1>1, <1>2, RestingSame
<1>4. Refuse => entries' = entries
  BY DEF Refuse, memory
<1> QED
  BY <1>1, <1>3, <1>4, RowsKept, DiskKept

LEMMA CreateMaps ==
  ASSUME Healthy, StoreInv, NEW p \in Paths, NEW type \in NodeTypes, CreateIn(Root, p, type)
  PROVE  [Store!Next]_<<Contents, DiskContents>>
<1>1. pc = "idle" /\ DiskContents = Contents /\ entries \in [Ids -> Entry]
  BY IdleStored, StoreTypes DEF CreateIn
<1>2. CASE Refuse
  BY <1>1, <1>2, TailMaps
<1>3. CASE ~Refuse
  <2>1. /\ StartFlush /\ UNCHANGED disk
        /\ \E idx \in Ids, dir \in Ids : \E name :
             idx = CreateSlot(entries, Root, p) /\ entries' = [entries EXCEPT ![idx] = NewEntry(dir, type, name)]
    BY <1>3 DEF CreateIn
  <2> PICK idx \in Ids, dir \in Ids :
             \E name : idx = CreateSlot(entries, Root, p)
                       /\ entries' = [entries EXCEPT ![idx] = NewEntry(dir, type, name)]
    BY <2>1
  <2> PICK name : idx = CreateSlot(entries, Root, p)
                  /\ entries' = [entries EXCEPT ![idx] = NewEntry(dir, type, name)]
    OBVIOUS
  <2>2. ~entries[idx].used
    BY FreshSlot
  <2>3. MemFile(idx) = NoFile
    BY <2>2 DEF MemFile, IsFile
  <2>4. entries'[idx] = NewEntry(dir, type, name) /\ \A i \in Ids : i # idx => entries'[i] = entries[i]
    BY <1>1
  <2>5. MemFile(idx)' \in {NoFile, << >>}
    <3>1. entries'[idx].size = 0
      BY <2>4 DEF NewEntry
    <3>2. pc' = "flush"
      BY <2>1 DEF StartFlush
    <3>3. FinalSize(idx)' = 0
      BY <3>1, <3>2 DEF FinalSize, Writing
    <3>4. MemFile(idx)' = NoFile \/ MemFile(idx)' = [k \in 1 .. 0 |-> FinalByte(idx, k - 1)']
      BY <3>3 DEF MemFile
    <3>5. [k \in 1 .. 0 |-> FinalByte(idx, k - 1)'] = << >>
      OBVIOUS
    <3> QED
      BY <3>4, <3>5
  <2>6. DiskContents' = DiskContents /\ pc' # "off" /\ \A i \in Ids : i # idx => MemFile(i)' = MemFile(i)
    BY <1>1, <2>1, <2>4, TailMaps
  <2>7. Contents[idx] = NoFile /\ Contents' = [Contents EXCEPT ![idx] = MemFile(idx)']
    BY <1>1, <2>3, <2>6, RowChanged
  <2>8. Contents = [i \in Ids |-> MemFile(i)]
    BY <1>1, MappedFiles
  <2>9. CASE MemFile(idx)' = NoFile
    BY <2>6, <2>7, <2>8, <2>9
  <2>10. CASE MemFile(idx)' = << >>
    BY <1>1, <2>6, <2>7, <2>10 DEF Store!Next, Store!Call, Store!Create
  <2> QED
    BY <2>5, <2>9, <2>10
<1> QED
  BY <1>2, <1>3

LEMMA RemoveMaps ==
  ASSUME Healthy, StoreInv, \A n \in Nat : NoFile \notin [1 .. n -> Bytes],
         NEW p \in Paths, RemoveIn(Root, p)
  PROVE  [Store!Next]_<<Contents, DiskContents>>
<1>1. pc = "idle" /\ DiskContents = Contents /\ entries \in [Ids -> Entry]
  BY IdleStored, StoreTypes DEF RemoveIn
<1>2. CASE Refuse
  BY <1>1, <1>2, TailMaps
<1>3. CASE ~Refuse
  <2>1. /\ StartFlush /\ UNCHANGED disk
        /\ \E id \in Ids : entries' = [entries EXCEPT ![id] = FreeEntry]
    BY <1>3 DEF RemoveIn
  <2> PICK id \in Ids : entries' = [entries EXCEPT ![id] = FreeEntry]
    BY <2>1
  <2>2. ~entries'[id].used /\ \A i \in Ids : i # id => entries'[i] = entries[i]
    BY <1>1 DEF FreeEntry
  <2>3. MemFile(id)' = NoFile
    BY <2>2 DEF MemFile, IsFile
  <2>4. DiskContents' = DiskContents /\ pc' # "off" /\ \A i \in Ids : i # id => MemFile(i)' = MemFile(i)
    BY <1>1, <2>1, <2>2, TailMaps
  <2>5. Contents[id] = MemFile(id) /\ Contents' = [Contents EXCEPT ![id] = NoFile]
    BY <1>1, <2>3, <2>4, RowChanged
  <2>6. Contents = [i \in Ids |-> MemFile(i)]
    BY <1>1, MappedFiles
  <2>7. CASE Contents[id] = NoFile
    BY <2>4, <2>5, <2>6, <2>7
  <2>8. CASE Contents[id] # NoFile
    BY <1>1, <2>4, <2>5, <2>8 DEF Store!Next, Store!Call, Store!Remove
  <2> QED
    BY <2>7, <2>8
<1> QED
  BY <1>2, <1>3

\* A file is mapped to bytes, not to NoFile.
LEMMA FileIsThere ==
  ASSUME Healthy, StoreInv, \A n \in Nat : NoFile \notin [1 .. n -> Bytes],
         pc # "off", NEW i \in Ids, IsFile(entries, i)
  PROVE  MemFile(i) # NoFile
<1>1. FinalSize(i) \in Nat /\ MemFile(i) \in [1 .. FinalSize(i) -> Bytes]
  BY MapTypes DEF MapTyped
<1> QED
  BY <1>1, NoFileIsNone

LEMMA TruncateMaps ==
  ASSUME Healthy, StoreInv, \A n \in Nat : NoFile \notin [1 .. n -> Bytes],
         NEW id \in Ids, Truncate(id)
  PROVE  [Store!Next]_<<Contents, DiskContents>>
<1>1. pc = "idle" /\ DiskContents = Contents /\ entries \in [Ids -> Entry]
  BY IdleStored, StoreTypes DEF Truncate
<1>2. CASE Refuse
  BY <1>1, <1>2, TailMaps
<1>3. CASE ~Refuse
  <2>1. /\ StartFlush /\ UNCHANGED disk /\ IsFile(entries, id)
        /\ entries' = [entries EXCEPT ![id] = [entries[id] EXCEPT !.size = 0]]
    BY <1>3 DEF Truncate
  <2>2. /\ entries'[id] = [entries[id] EXCEPT !.size = 0] /\ entries[id] \in Entry
        /\ \A i \in Ids : i # id => entries'[i] = entries[i]
    BY <1>1, <2>1
  <2>3. /\ entries'[id].size = 0 /\ entries'[id].used = entries[id].used
        /\ entries'[id].type = entries[id].type
    BY <2>2 DEF Entry
  <2>4. MemFile(id)' = << >>
    <3>1. pc' = "flush"
      BY <2>1 DEF StartFlush
    <3>2. FinalSize(id)' = 0
      BY <2>3, <3>1 DEF FinalSize, Writing
    <3>3. IsFile(entries, id)'
      BY <2>1, <2>3 DEF IsFile
    <3>4. MemFile(id)' = [k \in 1 .. 0 |-> FinalByte(id, k - 1)']
      BY <3>2, <3>3 DEF MemFile
    <3>5. [k \in 1 .. 0 |-> FinalByte(id, k - 1)'] = << >>
      OBVIOUS
    <3> QED
      BY <3>4, <3>5
  <2>5. DiskContents' = DiskContents /\ pc' # "off" /\ \A i \in Ids : i # id => MemFile(i)' = MemFile(i)
    BY <1>1, <2>1, <2>2, TailMaps
  <2>6. Contents[id] = MemFile(id) /\ Contents' = [Contents EXCEPT ![id] = << >>]
    BY <1>1, <2>4, <2>5, RowChanged
  <2>7. Contents[id] # NoFile
    BY <1>1, <2>1, <2>6, FileIsThere
  <2> QED
    BY <1>1, <2>5, <2>6, <2>7 DEF Store!Next, Store!Call, Store!Truncate
<1> QED
  BY <1>2, <1>3

\* sfs_write begins: the mapping shows at once what the file will be.
LEMMA WriteMaps ==
  ASSUME Healthy, StoreInv, MapTyped', \A n \in Nat : NoFile \notin [1 .. n -> Bytes],
         NEW id \in Ids, NEW off \in Offsets, NEW buf \in Bufs, Write(id, off, buf)
  PROVE  [Store!Next]_<<Contents, DiskContents>>
<1> DEFINE need == NeedSectors(off + Len(buf))
<1>1. /\ pc = "idle" /\ DiskContents = Contents /\ entries \in [Ids -> Entry] /\ entries[id] \in Entry
      /\ nextFree \in Nat
  <2>1. pc = "idle"
    BY DEF Write
  <2>2. entries \in [Ids -> Entry] /\ entries[id] \in Entry /\ nextFree \in Nat
    BY StoreTypes
  <2>3. DiskContents = Contents
    BY <2>1, IdleStored
  <2> QED
    BY <2>1, <2>2, <2>3, Zenon
<1>2. off \in Nat /\ Len(buf) \in Nat /\ buf \in Seq(Bytes)
  BY InputsAssumption
<1>3. need \in Nat
  <2>1. off + Len(buf) \in Nat
    BY <1>2
  <2> QED
    BY <2>1, NeedIsEnough
<1>4. CASE ~IsFile(entries, id)
  <2>1. Refuse
    BY <1>4 DEF Write
  <2> QED
    BY <1>1, <2>1, TailMaps
<1>5. CASE IsFile(entries, id)
  <2>1. /\ job' = [id |-> id, off |-> off, buf |-> buf, done |-> 0] /\ UNCHANGED disk
        /\ IF entries[id].start = 0
           THEN /\ entries' = [entries EXCEPT ![id] = WithExtent(entries[id], nextFree, need)]
                /\ pc' = "fill"
           ELSE /\ pc' = IF need > entries[id].cap THEN "copy" ELSE "fill"
                /\ UNCHANGED <<entries, nextFree>>
    BY <1>5 DEF Write, memory
  <2> HIDE DEF need
  <2>2. job'.id = id /\ job'.off = off /\ job'.buf = buf /\ EndOf(job)' = off + Len(buf)
    BY <2>1 DEF EndOf
  <2>3. UNCHANGED <<dTable, data>> /\ pc' \in {"copy", "fill"} /\ pc' # "off"
    BY <2>1 DEF disk
  <2>4. /\ entries'[id].size = entries[id].size
        /\ entries'[id].used = entries[id].used /\ entries'[id].type = entries[id].type
        /\ \A i \in Ids : i # id => entries'[i] = entries[i]
    BY <1>1, <1>3, <2>1, ExtentKeeps
  <2>5. IsFile(entries, id)' /\ Writing(id)' /\ \A i \in Ids : ~Writing(i)
    BY <1>1, <1>5, <2>2, <2>3, <2>4 DEF IsFile, Writing
  <2>6. \A i \in Ids : i # id => MemFile(i)' = MemFile(i)
    <3>1. \A i \in Ids : i # id => ~Writing(i)'
      BY <2>2 DEF Writing
    <3> QED
      BY <2>3, <2>4, <2>5, <3>1, RestingSame
  <2> DEFINE f == MemFile(id)
             g == MemFile(id)'
             size == IF off + Len(buf) > Len(f) THEN off + Len(buf) ELSE Len(f)
  <2>7. /\ Len(f) = entries[id].size /\ entries[id].size \in Nat
        /\ f = [k \in 1 .. entries[id].size |-> FinalByte(id, k - 1)]
    <3>1. FinalSize(id) = entries[id].size
      BY <2>5 DEF FinalSize
    <3> QED
      BY <1>1, <1>5, <3>1, MapTypes DEF MapTyped
  <2>8. FinalSize(id)' = size
    BY <2>2, <2>4, <2>5, <2>7 DEF FinalSize
  <2>9. /\ size \in Nat /\ g \in [1 .. size -> Bytes]
        /\ g = [k \in 1 .. size |-> FinalByte(id, k - 1)']
    BY <2>3, <2>5, <2>8 DEF MapTyped
  <2> HIDE DEF f, g, size
  <2>10. ASSUME NEW k \in 1 .. size, k > off, k <= off + Len(buf) PROVE g[k] = buf[k - off]
    <3>1. k - 1 \in Nat /\ off <= k - 1 /\ k - 1 < off + Len(buf) /\ k - 1 - off + 1 = k - off
      BY <1>2, <2>9, <2>10
    <3>2. FinalByte(id, k - 1)' = buf[k - 1 - off + 1]
      BY <2>2, <2>5, <3>1 DEF FinalByte
    <3> QED
      BY <2>9, <3>1, <3>2
  <2>11. ASSUME NEW k \in 1 .. size, k <= Len(f), k <= off \/ k > off + Len(buf) PROVE g[k] = f[k]
    <3>1. k - 1 \in Nat /\ k - 1 < entries[id].size /\ k \in 1 .. entries[id].size
          /\ ~(off <= k - 1 /\ k - 1 < off + Len(buf))
      BY <1>2, <2>7, <2>9, <2>11
    <3>2. entries[id].start # 0
      BY <2>7, <3>1, NoExtentEmpty
    <3>3. entries' = entries
      BY <2>1, <3>2
    <3>4. (k - 1) \div SectorSize \in Nat /\ (k - 1) \div SectorSize < entries[id].cap
      <4>1. k - 1 < entries[id].cap * SectorSize
        BY <3>1, MemFits
      <4>2. entries[id].cap \in Nat
        BY <1>1 DEF Entry
      <4> QED
        BY <3>1, <4>1, <4>2, DivBelow, Sizes
    <3>5. FinalByte(id, k - 1) = ByteAt(entries[id].start, k - 1)
      BY <2>5 DEF FinalByte, ByteAt
    <3>6. FinalByte(id, k - 1)' = ByteAt(entries[id].start, k - 1)
      <4>1. ~((k - 1) \div SectorSize >= entries[id].cap)
        <5>1. entries[id].cap \in Nat
          BY <1>1 DEF Entry
        <5> QED
          BY <3>4, <5>1
      <4>2. ~(off <= k - 1 /\ k - 1 < EndOf(job)')
        BY <2>2, <3>1
      <4> QED
        BY <2>2, <2>3, <3>3, <4>1, <4>2 DEF FinalByte, ByteAt
    <3> QED
      BY <2>7, <2>9, <3>1, <3>5, <3>6
  <2>12. g \in Store!Overwritten(f, off, buf)
    BY <2>9, <2>10, <2>11 DEF Store!Overwritten, size
  <2>13. Contents[id] = f /\ Contents' = [Contents EXCEPT ![id] = g]
    BY <1>1, <2>3, <2>6, RowChanged DEF f, g
  <2>14. f # NoFile
    BY <1>1, <1>5, FileIsThere DEF f
  <2>15. DiskContents' = DiskContents
    BY <2>3, DiskKept
  <2>16. Store!Write(id, off, buf)
    BY <2>12, <2>13, <2>14 DEF Store!Write
  <2> QED
    BY <1>1, <2>15, <2>16 DEF Store!Next, Store!Call
<1> QED
  BY <1>4, <1>5

\* A slot of the disk's table whose sectors stay.
LEMMA StoredKept ==
  ASSUME Healthy, StoreInv, NEW i \in Ids, dTable'[i] = dTable[i],
         \A l \in Lbas : Owns(dTable[i], l) => data'[l] = data[l]
  PROVE  DiskFile(i)' = DiskFile(i)
<1>1. dTable[i] \in Entry
  BY StoreTypes
<1>2. dTable[i].size \in Nat
  BY <1>1 DEF Entry
<1>3. \A k \in Nat : k < dTable[i].size => DiskByte(i, k)' = DiskByte(i, k)
  BY DiskByteSector DEF DiskByte
<1> QED
  BY <1>2, <1>3, DiskFileKept

\* A slot of the memory that no call writes to, whose sectors stay.
LEMMA OthersKept ==
  ASSUME Healthy, StoreInv, NEW i \in Ids, entries'[i] = entries[i], ~Writing(i), ~Writing(i)',
         \A l \in Lbas : Owns(entries[i], l) => data'[l] = data[l]
  PROVE  MemFile(i)' = MemFile(i)
<1>1. entries[i] \in Entry
  BY StoreTypes
<1>2. entries[i].size \in Nat
  BY <1>1 DEF Entry
<1>3. \A k \in Nat : k < entries[i].size => ByteAt(entries[i].start, k)' = ByteAt(entries[i].start, k)
  BY MemByte, MemFits DEF ByteAt
<1> QED
  BY <1>2, <1>3, RestingKept

LEMMA DiskRowsKept ==
  ASSUME \A i \in Ids : DiskFile(i)' = DiskFile(i)
  PROVE  DiskContents' = DiskContents
<1>1. DiskContents' = [i \in Ids |-> DiskFile(i)']
  BY DEF DiskContents, DiskFile
<1> QED
  BY <1>1, MappedFiles

\* The copy loop does not show.
LEMMA CopyMaps ==
  ASSUME Healthy, StoreInv, CopySector
  PROVE  Contents' = Contents /\ DiskContents' = DiskContents
<1> DEFINE dst == nextFree + job.done
<1>1. /\ UNCHANGED <<entries, nextFree, dTable, pc>> /\ pc = "copy"
      /\ job' = [job EXCEPT !.done = @ + 1]
      /\ job.done < entries[job.id].cap
      /\ \E s : data' = [data EXCEPT ![dst] = s]
      /\ dst \in Lbas
  BY CopyTurn DEF memory, CopySector
<1>2. /\ job \in Job /\ job.id \in Ids /\ job.done \in Nat /\ nextFree \in Nat
      /\ data \in [Lbas -> Sector] /\ entries[job.id] \in Entry
      /\ job.off \in Nat /\ EndOf(job) \in Nat
  BY JobTypes, StoreTypes DEF StoreInv, Inv, TypeOK, EndOf
<1>3. job'.id = job.id /\ job'.off = job.off /\ job'.buf = job.buf /\ EndOf(job)' = EndOf(job)
  BY <1>1, <1>2 DEF Job, EndOf
<1>4. \A i \in Ids, l \in Lbas : Owns(entries[i], l) \/ Owns(dTable[i], l) => data'[l] = data[l]
  BY <1>1, SectorStep DEF Next, StoreInv
<1>5. \A i \in Ids : DiskFile(i)' = DiskFile(i)
  BY <1>1, <1>4, StoredKept
<1>6. ASSUME NEW i \in Ids, i # job.id PROVE MemFile(i)' = MemFile(i)
  <2>1. ~Writing(i) /\ ~Writing(i)'
    BY <1>3, <1>6 DEF Writing
  <2> QED
    BY <1>1, <1>4, <2>1, OthersKept
<1>7. MemFile(job.id)' = MemFile(job.id)
  <2> PICK i \in Ids : i = job.id
    BY <1>2
  <2>1. Writing(i) /\ Writing(i)' /\ (IsFile(entries, i)' <=> IsFile(entries, i)) /\ IsFile(entries, i)
    BY <1>1, <1>3 DEF Writing, IsFile, StoreInv, CopyProgress
  <2>2. FinalSize(i)' = FinalSize(i)
    BY <1>1, <1>3, <2>1 DEF FinalSize
  <2>3. FinalSize(i) \in Nat
    BY <1>1, <2>1, FinalTyped
  <2>4. ASSUME NEW k \in Nat, k < FinalSize(i) PROVE FinalByte(i, k)' = FinalByte(i, k)
    <3>1. CASE job.off <= k /\ k < EndOf(job)
      BY <1>3, <2>1, <3>1 DEF FinalByte
    <3>2. CASE ~(job.off <= k /\ k < EndOf(job)) /\ k \div SectorSize >= entries[i].cap
      <4>1. FinalByte(i, k)' = ByteAt(nextFree, k)' /\ FinalByte(i, k) = ByteAt(nextFree, k)
        BY <1>1, <1>3, <2>1, <3>2 DEF FinalByte, ByteAt
      <4>2. k \div SectorSize \in Nat /\ entries[i].cap \in Nat
        BY <1>2, DivMod, Sizes DEF Entry
      <4>3. nextFree + k \div SectorSize # dst
        BY <1>1, <1>2, <3>2, <4>2
      <4>4. data'[nextFree + k \div SectorSize] = data[nextFree + k \div SectorSize]
        BY <1>1, <1>2, <4>3
      <4> QED
        BY <1>1, <4>1, <4>4 DEF ByteAt
    <3>3. CASE ~(job.off <= k /\ k < EndOf(job)) /\ ~(k \div SectorSize >= entries[i].cap)
      <4>1. FinalByte(i, k)' = ByteAt(entries[i].start, k)' /\ FinalByte(i, k) = ByteAt(entries[i].start, k)
        BY <1>1, <1>3, <2>1, <3>3 DEF FinalByte, ByteAt
      <4>2. k \div SectorSize \in Nat /\ entries[i].cap \in Nat /\ entries[i].start \in Nat
        BY <1>2, DivMod, Sizes DEF Entry
      <4>3. entries[i].start + k \div SectorSize \in Nat /\ Owns(entries[i], entries[i].start + k \div SectorSize)
        BY <3>3, <4>2 DEF Owns
      <4>4. entries[i].start + k \div SectorSize \in Lbas
        BY <4>3, StoreTypes, OnDevice
      <4>5. data'[entries[i].start + k \div SectorSize] = data[entries[i].start + k \div SectorSize]
        BY <1>4, <4>3, <4>4
      <4> QED
        BY <1>1, <4>1, <4>5 DEF ByteAt
    <3> QED
      BY <3>1, <3>2, <3>3
  <2>5. MemFile(i)' = MemFile(i)
    BY <2>1, <2>2, <2>3, <2>4, MemFileKept
  <2> QED
    BY <1>3, <2>5 DEF MemFile
<1> QED
  BY <1>1, <1>5, <1>6, <1>7, RowsKept, DiskRowsKept

\* A moved file reads the same from its new extent, as far as it has been copied.
LEMMA RelocateMaps ==
  ASSUME Healthy, StoreInv, Relocate
  PROVE  Contents' = Contents /\ DiskContents' = DiskContents
<1> DEFINE need == NeedSectors(EndOf(job))
<1>1. /\ pc = "copy" /\ pc' = "fill" /\ UNCHANGED <<dTable, data>>
      /\ job.done = entries[job.id].cap
      /\ entries' = [entries EXCEPT ![job.id] = WithExtent(entries[job.id], nextFree, need)]
      /\ job' = [job EXCEPT !.done = 0]
  BY DEF Relocate, disk, EndOf
<1>2. /\ job \in Job /\ job.id \in Ids /\ nextFree \in Nat /\ EndOf(job) \in Nat
      /\ entries \in [Ids -> Entry]
  BY JobTypes, StoreTypes DEF StoreInv, Inv, TypeOK, EndOf
<1>3. need \in Nat
  BY <1>2, NeedIsEnough
<1>4. job'.id = job.id /\ job'.off = job.off /\ job'.buf = job.buf /\ EndOf(job)' = EndOf(job)
  BY <1>1, <1>2 DEF Job, EndOf
<1> HIDE DEF need
<1> PICK i \in Ids : i = job.id
  BY <1>2
<1>5. entries' = [entries EXCEPT ![i] = WithExtent(entries[i], nextFree, need)]
  BY <1>1
<1>6. /\ entries'[i].start = nextFree /\ entries'[i].size = entries[i].size
      /\ entries'[i].used = entries[i].used /\ entries'[i].type = entries[i].type
      /\ \A j \in Ids : j # i => entries'[j] = entries[j]
  BY <1>2, <1>3, <1>5, ExtentKeeps
<1>7. /\ IsFile(entries, i)
      /\ \A s \in 0 .. entries[i].cap - 1 : data[nextFree + s] = data[entries[i].start + s]
  BY <1>1 DEF StoreInv, CopyProgress
<1>8. Writing(i) /\ Writing(i)' /\ (IsFile(entries, i)' <=> IsFile(entries, i))
  BY <1>1, <1>4, <1>6 DEF Writing, IsFile
<1>9. \A j \in Ids : j # i => MemFile(j)' = MemFile(j)
  <2>1. \A j \in Ids : j # i => ~Writing(j) /\ ~Writing(j)'
    BY <1>4 DEF Writing
  <2> QED
    BY <1>1, <1>6, <2>1, RestingSame
<1>10. MemFile(i)' = MemFile(i)
  <2>1. FinalSize(i)' = FinalSize(i)
    BY <1>4, <1>6, <1>8 DEF FinalSize
  <2>2. FinalSize(i) \in Nat
    BY <1>1, <1>7, FinalTyped
  <2>3. ASSUME NEW k \in Nat PROVE FinalByte(i, k)' = FinalByte(i, k)
    <3>1. CASE job.off <= k /\ k < EndOf(job)
      BY <1>4, <1>8, <3>1 DEF FinalByte
    <3>2. CASE ~(job.off <= k /\ k < EndOf(job))
      <4>1. FinalByte(i, k)' = ByteAt(nextFree, k)
        BY <1>1, <1>4, <1>6, <1>8, <3>2 DEF FinalByte, ByteAt
      <4>2. CASE k \div SectorSize >= entries[i].cap
        BY <1>1, <1>8, <3>2, <4>1, <4>2 DEF FinalByte, ByteAt
      <4>3. CASE ~(k \div SectorSize >= entries[i].cap)
        <5>1. FinalByte(i, k) = ByteAt(entries[i].start, k)
          BY <1>1, <1>8, <3>2, <4>3 DEF FinalByte, ByteAt
        <5>2. entries[i] \in Entry
          BY <1>2
        <5>3. k \div SectorSize \in Nat /\ entries[i].cap \in Nat
          BY <5>2, DivMod, Sizes DEF Entry
        <5>4. k \div SectorSize \in 0 .. entries[i].cap - 1
          BY <4>3, <5>3
        <5>5. data[nextFree + k \div SectorSize] = data[entries[i].start + k \div SectorSize]
          BY <1>7, <5>4
        <5> QED
          BY <4>1, <5>1, <5>5 DEF ByteAt
      <4> QED
        BY <4>2, <4>3
    <3> QED
      BY <3>1, <3>2
  <2> QED
    BY <1>8, <2>1, <2>2, <2>3, MemFileKept
<1> QED
  BY <1>1, <1>9, <1>10, RowsKept, DiskKept

\* A turn of the data loop does not show in the memory's view; on the disk it
\* puts bytes of the new contents into place.
LEMMA FillMaps ==
  ASSUME Healthy, StoreInv, \A n \in Nat : NoFile \notin [1 .. n -> Bytes], FillSector
  PROVE  [Store!Next]_<<Contents, DiskContents>>
<1> PICK start : start = entries[job.id].start
  OBVIOUS
<1>1. /\ UNCHANGED <<entries, nextFree, dTable, pc>> /\ pc = "fill"
      /\ \A l \in Lbas : ~Owns(entries[job.id], l) => data'[l] = data[l]
  BY FillTurn DEF FillSector, memory
<1>2. PICK chunk \in Nat :
        /\ job' = [job EXCEPT !.done = @ + chunk]
        /\ job.done + chunk <= Len(job.buf)
        /\ \A k \in Nat : k < entries[job.id].cap * SectorSize =>
             ByteAt(start, k)' = IF job.off + job.done <= k /\ k < job.off + job.done + chunk
                                 THEN job.buf[k - job.off + 1] ELSE ByteAt(start, k)
  BY FillTurn
<1>3. /\ job \in Job /\ job.id \in Ids /\ job.done \in Nat /\ job.off \in Nat /\ Len(job.buf) \in Nat
      /\ EndOf(job) \in Nat /\ entries \in [Ids -> Entry] /\ dTable \in [Ids -> Entry]
  BY JobTypes, StoreTypes DEF StoreInv, Inv, TypeOK, EndOf
<1>4. job'.id = job.id /\ job'.off = job.off /\ job'.buf = job.buf /\ EndOf(job)' = EndOf(job)
  BY <1>2, <1>3 DEF Job, EndOf
<1> PICK i \in Ids : i = job.id
  BY <1>3
<1>5. /\ IsFile(entries, i) /\ IsFile(dTable, i) /\ dTable[i].size = entries[i].size
      /\ \/ dTable[i].start = entries[i].start /\ dTable[i].cap = entries[i].cap
         \/ Disjoint(dTable[i], entries[i])
  BY <1>1 DEF StoreInv, FillProgress
<1>6. Writing(i) /\ Writing(i)' /\ (IsFile(entries, i)' <=> IsFile(entries, i))
  BY <1>1, <1>4 DEF Writing, IsFile
<1>7. /\ entries[i] \in Entry /\ entries[i].cap \in Nat /\ entries[i].size \in Nat
      /\ entries[i].start \in Nat /\ entries[i].cap * SectorSize \in Nat
      /\ EndOf(job) <= entries[i].cap * SectorSize
  <2>1. entries[i] \in Entry
    BY <1>3
  <2>2. entries[i].cap \in Nat /\ entries[i].size \in Nat /\ entries[i].start \in Nat
    BY <2>1 DEF Entry
  <2> QED
    BY <1>1, <2>1, <2>2, Sizes DEF StoreInv, Inv, WriteFits, EndOf
\* Bytes outside the write stay, bytes inside come from the buffer.
<1>8. ASSUME NEW k \in Nat, k < entries[i].cap * SectorSize
      PROVE  \/ ByteAt(start, k)' = ByteAt(start, k)
             \/ /\ job.off <= k /\ k < EndOf(job)
                /\ ByteAt(start, k)' = job.buf[k - job.off + 1]
  <2>1. ByteAt(start, k)' = IF job.off + job.done <= k /\ k < job.off + job.done + chunk
                            THEN job.buf[k - job.off + 1] ELSE ByteAt(start, k)
    BY <1>2, <1>8
  <2>2. job.off + job.done <= k /\ k < job.off + job.done + chunk => job.off <= k /\ k < EndOf(job)
    BY <1>2, <1>3 DEF EndOf
  <2> QED
    BY <2>1, <2>2
<1>9. \A j \in Ids : j # i => MemFile(j)' = MemFile(j) /\ DiskFile(j)' = DiskFile(j)
  <2> SUFFICES ASSUME NEW j \in Ids, j # i PROVE MemFile(j)' = MemFile(j) /\ DiskFile(j)' = DiskFile(j)
    OBVIOUS
  <2>1. ~Writing(j) /\ ~Writing(j)'
    BY <1>4 DEF Writing
  <2>2. \A l \in Lbas : Owns(entries[j], l) \/ Owns(dTable[j], l) => data'[l] = data[l]
    BY SectorStep DEF Next, StoreInv
  <2> QED
    BY <1>1, <2>1, <2>2, OthersKept, StoredKept
<1>10. \A k : FinalByte(i, k) = IF job.off <= k /\ k < EndOf(job) THEN job.buf[k - job.off + 1]
                                ELSE ByteAt(start, k)
  BY <1>1, <1>6 DEF FinalByte, ByteAt
<1>11. FinalSize(i) \in Nat /\ FinalSize(i) <= entries[i].cap * SectorSize
  <2>1. entries[i].size <= entries[i].cap * SectorSize
    BY DEF StoreInv, FilesFit, Fits
  <2> QED
    BY <1>3, <1>7, <2>1 DEF FinalSize
<1>12. MemFile(i)' = MemFile(i)
  <2>1. FinalSize(i)' = FinalSize(i)
    BY <1>1, <1>4, <1>6 DEF FinalSize
  <2>2. ASSUME NEW k \in Nat, k < FinalSize(i) PROVE FinalByte(i, k)' = FinalByte(i, k)
    <3>1. k < entries[i].cap * SectorSize
      BY <1>7, <1>11, <2>2
    <3>2. FinalByte(i, k)' = IF job.off <= k /\ k < EndOf(job) THEN job.buf[k - job.off + 1]
                             ELSE ByteAt(start, k)'
      BY <1>1, <1>4, <1>6 DEF FinalByte, ByteAt
    <3> QED
      BY <1>8, <1>10, <3>1, <3>2
  <2> QED
    BY <1>6, <1>11, <2>1, <2>2, MemFileKept
<1>13. Contents' = Contents /\ Contents[i] = MemFile(i)
  BY <1>1, <1>9, <1>12, RowsKept, MappedFiles
<1>14. DiskContents[i] = DiskFile(i) /\ DiskContents'[i] = DiskFile(i)'
       /\ \A j \in Ids : j # i => DiskContents'[j] = DiskContents[j]
  <2>1. DiskContents' = [j \in Ids |-> DiskFile(j)']
    BY DEF DiskContents, DiskFile
  <2> QED
    BY <1>9, <2>1, MappedFiles
<1>15. CASE Disjoint(dTable[i], entries[i])
  <2>1. \A l \in Lbas : Owns(dTable[i], l) => ~Owns(entries[i], l)
    <3> SUFFICES ASSUME NEW l \in Lbas, Owns(dTable[i], l), Owns(entries[i], l) PROVE FALSE
      OBVIOUS
    <3>1. dTable[i].start \in Nat /\ dTable[i].cap \in Nat
      BY <1>3, ExtentTypes
    <3>2. l \in Nat
      BY Sizes DEF Lbas
    <3>3. /\ dTable[i].start <= l /\ l < dTable[i].start + dTable[i].cap
          /\ entries[i].start <= l /\ l < entries[i].start + entries[i].cap
      BY DEF Owns
    <3>4. \/ dTable[i].cap = 0 \/ entries[i].cap = 0
          \/ dTable[i].start + dTable[i].cap <= entries[i].start
          \/ entries[i].start + entries[i].cap <= dTable[i].start
      BY <1>15 DEF Disjoint
    <3> QED
      <4>1. entries[i].start \in Nat /\ entries[i].cap \in Nat
        BY <1>7
      <4>2. ASSUME NEW a \in Nat, NEW b \in Nat, NEW c \in Nat, NEW d \in Nat, l \in Nat,
                   a <= l, l < a + b, c <= l, l < c + d
            PROVE  ~(b = 0 \/ d = 0 \/ a + b <= c \/ c + d <= a)
        BY <4>2
      <4> QED
        BY <3>1, <3>2, <3>3, <3>4, <4>1, <4>2
  <2>2. DiskFile(i)' = DiskFile(i)
    BY <1>1, <2>1, StoredKept
  <2>3. \A j \in Ids : DiskContents'[j] = DiskContents[j]
    BY <1>14, <2>2
  <2> QED
    BY <1>13, <2>3 DEF Store!Next, Store!Persist
<1>16. CASE dTable[i].start = entries[i].start /\ dTable[i].cap = entries[i].cap
  <2> DEFINE n == entries[i].size
             f == DiskFile(i)
             g == MemFile(i)
             h == DiskFile(i)'
  <2>1. f = [k \in 1 .. n |-> ByteAt(start, k - 1)] /\ h = [k \in 1 .. n |-> ByteAt(start, k - 1)']
    BY <1>1, <1>5, <1>16 DEF DiskFile, DiskByte, ByteAt, IsFile
  <2>2. ASSUME NEW k \in 1 .. n PROVE k - 1 \in Nat /\ k - 1 < n /\ k - 1 < entries[i].cap * SectorSize
    <3>1. k - 1 \in Nat /\ k - 1 < n
      BY <1>7
    <3> QED
      BY <3>1, MemFits
  <2>3. n \in Nat /\ n <= FinalSize(i)
    BY <1>3, <1>7 DEF FinalSize
  <2>4. g = [k \in 1 .. FinalSize(i) |-> FinalByte(i, k - 1)] /\ Len(g) = FinalSize(i)
    BY <1>1, <1>5, MapTypes DEF MapTyped
  <2>5. \A k \in 1 .. n : ByteAt(start, k - 1) \in Bytes /\ ByteAt(start, k - 1)' \in Bytes
    <3> SUFFICES ASSUME NEW k \in 1 .. n
                 PROVE  ByteAt(start, k - 1) \in Bytes /\ ByteAt(start, k - 1)' \in Bytes
      OBVIOUS
    <3>1. k - 1 \in Nat /\ k - 1 < entries[i].cap * SectorSize
      BY <2>2
    <3>2. ByteAt(start, k - 1) \in Bytes
      BY <3>1, MemByte, ByteTyped DEF ByteAt, StoreInv, Inv
    <3>3. ASSUME job.off <= k - 1, k - 1 < EndOf(job) PROVE job.buf[k - 1 - job.off + 1] \in Bytes
      <4>1. k - 1 - job.off + 1 \in 1 .. Len(job.buf)
        BY <1>3, <3>1, <3>3 DEF EndOf
      <4> QED
        BY <4>1, JobTypes DEF StoreInv, Inv
    <3>4. \/ ByteAt(start, k - 1)' = ByteAt(start, k - 1)
          \/ /\ job.off <= k - 1 /\ k - 1 < EndOf(job)
             /\ ByteAt(start, k - 1)' = job.buf[k - 1 - job.off + 1]
      BY <1>8, <3>1
    <3> QED
      BY <3>2, <3>3, <3>4
  <2>6. f \in [1 .. n -> Bytes] /\ h \in [1 .. n -> Bytes] /\ g \in [1 .. FinalSize(i) -> Bytes]
    BY <1>1, <1>5, <2>1, <2>5, MapTypes DEF MapTyped
  <2> HIDE DEF n, f, g, h
  <2>7. Len(f) = n /\ Len(h) = n
    BY <2>3, <2>6, BytesSeq
  <2>8. NoFile \notin {f, g, h}
    BY <1>11, <2>3, <2>6, NoFileIsNone
  <2>9. ASSUME NEW k \in 1 .. n PROVE h[k] = f[k] \/ (k <= Len(g) /\ h[k] = g[k])
    <3>1. k - 1 \in Nat /\ k - 1 < entries[i].cap * SectorSize /\ k \in 1 .. FinalSize(i) /\ k <= FinalSize(i)
      BY <1>11, <2>2, <2>3
    <3>2. f[k] = ByteAt(start, k - 1) /\ h[k] = ByteAt(start, k - 1)' /\ g[k] = FinalByte(i, k - 1)
      BY <2>1, <2>4, <3>1
    <3> QED
      BY <1>8, <1>10, <2>4, <3>1, <3>2
  <2>10. Store!Between(f, g, h)
    BY <2>3, <2>7, <2>8, <2>9 DEF Store!Between
  <2>11. Store!Persist
    BY <1>13, <1>14, <2>10 DEF Store!Persist, f, g, h
  <2> QED
    BY <2>11 DEF Store!Next
<1> QED
  BY <1>5, <1>15, <1>16

\* The size grows over bytes that are in place.
LEMMA SetSizeMaps ==
  ASSUME Healthy, StoreInv, SetSize
  PROVE  Contents' = Contents /\ DiskContents' = DiskContents
<1> PICK i \in Ids : i = job.id
  BY JobTypes DEF StoreInv, Inv
<1>1. /\ pc = "fill" /\ pc' = "flush" /\ UNCHANGED <<dTable, data>> /\ job.done = Len(job.buf)
      /\ entries' = [entries EXCEPT ![i] = [entries[i] EXCEPT !.size =
           IF EndOf(job) > entries[i].size THEN EndOf(job) ELSE entries[i].size]]
  BY DEF SetSize, StartFlush, disk, EndOf
<1>2. /\ job.off \in Nat /\ Len(job.buf) \in Nat /\ EndOf(job) \in Nat
      /\ entries \in [Ids -> Entry] /\ entries[i] \in Entry
  BY JobTypes, StoreTypes DEF StoreInv, Inv, EndOf
<1> DEFINE size == IF EndOf(job) > entries[i].size THEN EndOf(job) ELSE entries[i].size
<1>3. /\ entries'[i] = [entries[i] EXCEPT !.size = size]
      /\ \A j \in Ids : j # i => entries'[j] = entries[j]
  BY <1>1, <1>2
<1>4. Writing(i) /\ \A j \in Ids : ~Writing(j)' /\ (j # i => ~Writing(j))
  BY <1>1 DEF Writing
<1>5. FinalSize(i) = size
  BY <1>4 DEF FinalSize
<1> HIDE DEF size
<1>6. /\ entries'[i].size = size /\ entries'[i].start = entries[i].start
      /\ entries'[i].used = entries[i].used /\ entries'[i].type = entries[i].type
  BY <1>2, <1>3 DEF Entry
<1>7. /\ IsFile(entries, i)
      /\ \A k \in 0 .. job.done - 1 : ByteAt(entries[i].start, job.off + k) = job.buf[k + 1]
  BY <1>1 DEF StoreInv, FillProgress
<1>8. \A j \in Ids : j # i => MemFile(j)' = MemFile(j)
  BY <1>1, <1>3, <1>4, RestingSame
<1>9. MemFile(i)' = MemFile(i)
  <2>1. FinalSize(i)' = FinalSize(i)
    BY <1>4, <1>5, <1>6 DEF FinalSize
  <2>2. FinalSize(i) \in Nat /\ (IsFile(entries, i)' <=> IsFile(entries, i))
    BY <1>1, <1>6, <1>7, FinalTyped DEF IsFile
  <2>3. ASSUME NEW k \in Nat PROVE FinalByte(i, k)' = FinalByte(i, k)
    <3>1. FinalByte(i, k)' = ByteAt(entries[i].start, k)
      BY <1>1, <1>4, <1>6 DEF FinalByte, ByteAt
    <3>2. FinalByte(i, k) = IF job.off <= k /\ k < EndOf(job) THEN job.buf[k - job.off + 1]
                            ELSE ByteAt(entries[i].start, k)
      BY <1>1, <1>4 DEF FinalByte, ByteAt
    <3>3. ASSUME job.off <= k, k < EndOf(job)
          PROVE  ByteAt(entries[i].start, k) = job.buf[k - job.off + 1]
      <4>1. k - job.off \in 0 .. job.done - 1 /\ job.off + (k - job.off) = k
        BY <1>1, <1>2, <3>3 DEF EndOf
      <4> QED
        BY <1>7, <4>1
    <3> QED
      BY <3>1, <3>2, <3>3
  <2> QED
    BY <2>1, <2>2, <2>3, MemFileKept
<1> QED
  BY <1>1, <1>8, <1>9, RowsKept, DiskKept

\* The superblock is not part of any file.
LEMMA FlushSuperMaps ==
  ASSUME Healthy, StoreInv, FlushSuper
  PROVE  Contents' = Contents /\ DiskContents' = DiskContents
<1>1. pc = "flush" /\ pc' = pc /\ UNCHANGED <<entries, dTable, data>>
  BY NoFailures DEF FlushSuper, memory, Landed
<1>2. \A i \in Ids : ~Writing(i) /\ ~Writing(i)'
  BY <1>1 DEF Writing
<1> QED
  BY <1>1, <1>2, RestingSame, RowsKept, DiskKept

\* A table sector that goes out stores the files whose slots it holds.
LEMMA FlushTableMaps ==
  ASSUME Healthy, StoreInv, FlushTable
  PROVE  [Store!Next]_<<Contents, DiskContents>>
<1>1. /\ pc = "flush" /\ pc' \in {"flush", "idle"} /\ UNCHANGED <<entries, data>>
      /\ \A i \in Ids : dTable'[i] = entries[i] \/ dTable'[i] = dTable[i]
  <2>1. /\ pc = "flush" /\ UNCHANGED <<entries, data>>
        /\ \E w \in Outcomes :
             /\ dTable' = [i \in Ids |-> IF i \in SlotsOf(job.done - 1) /\ Landed(w)
                                         THEN entries[i] ELSE dTable[i]]
             /\ w = "ok" => \/ Return("ok")
                            \/ UNCHANGED <<pc, ret>>
    BY DEF FlushTable, memory
  <2> QED
    BY <2>1, NoFailures DEF Return
<1>2. \A i \in Ids : ~Writing(i) /\ ~Writing(i)'
  BY <1>1 DEF Writing
<1>3. Contents' = Contents
  BY <1>1, <1>2, RestingSame, RowsKept
<1>4. Contents = [i \in Ids |-> MemFile(i)] /\ DiskContents = [i \in Ids |-> DiskFile(i)]
  BY <1>1, MappedFiles
<1>5. DiskContents' = [i \in Ids |-> DiskFile(i)']
  BY DEF DiskContents, DiskFile
<1>6. ASSUME NEW i \in Ids PROVE DiskFile(i)' \in {DiskFile(i), MemFile(i)}
  <2>1. CASE dTable'[i] = dTable[i]
    BY <1>1, <2>1 DEF DiskFile, DiskByte, IsFile
  <2>2. CASE dTable'[i] = entries[i]
    <3>1. FinalSize(i) = dTable'[i].size /\ \A k : FinalByte(i, k) = DiskByte(i, k)'
      BY <1>1, <1>2, <2>2 DEF FinalSize, FinalByte, DiskByte
    <3>2. IsFile(dTable, i)' <=> IsFile(entries, i)
      BY <2>2 DEF IsFile
    <3>3. DiskFile(i)' = MemFile(i)
      BY <3>1, <3>2 DEF DiskFile, MemFile
    <3> QED
      BY <3>3
  <2> QED
    BY <1>1, <2>1, <2>2
<1>7. \A i \in Ids : \/ DiskContents'[i] = DiskContents[i]
                     \/ DiskContents'[i] = Contents[i]
  BY <1>4, <1>5, <1>6
<1> QED
  BY <1>3, <1>7 DEF Store!Next, Store!Persist, Store!Between

\* Neither a blank nor a formatted table has a file.
LEMMA NoFilesYet ==
  /\ \A i \in Ids : ~IsFile([j \in Ids |-> FreeEntry], i)
  /\ \A i \in Ids : ~IsFile(FormattedTable, i)
<1>1. ~FreeEntry.used /\ NewEntry(Root, "dir", "/").type = "dir"
  BY DEF FreeEntry, NewEntry
<1>2. \A i \in Ids : ~IsFile([j \in Ids |-> FreeEntry], i)
  BY <1>1 DEF IsFile
<1>3. \A i \in Ids : FormattedTable[i] = IF i = Root THEN NewEntry(Root, "dir", "/") ELSE FreeEntry
  BY DEF FormattedTable
<1> QED
  BY <1>1, <1>2, <1>3 DEF IsFile

\* A mount finds what is stored, a crash falls back to it, and formatting a blank
\* disk makes no file.
LEMMA BootMaps ==
  ASSUME Healthy, StoreInv, Mount \/ Format \/ Crash
  PROVE  [Store!Next]_<<Contents, DiskContents>>
<1>1. DiskContents' = DiskContents
  BY DiskKept DEF Mount, Format, Crash, disk
<1>2. CASE Mount
  <2>1. /\ pc = "off" /\ pc' = "idle" /\ entries' = dTable /\ UNCHANGED <<dTable, data>>
    BY <1>2 DEF Mount, Return, disk
  <2>2. \A i \in Ids : MemFile(i)' = DiskFile(i)
    <3>1. \A i \in Ids : ~Writing(i)'
      BY <2>1 DEF Writing
    <3>2. \A i \in Ids : FinalSize(i)' = dTable[i].size /\ \A k : FinalByte(i, k)' = DiskByte(i, k)
      BY <2>1, <3>1 DEF FinalSize, FinalByte, DiskByte
    <3> QED
      BY <2>1, <3>2 DEF MemFile, DiskFile, IsFile
  <2>3. Contents' = [i \in Ids |-> MemFile(i)'] /\ Contents = DiskContents
    BY <2>1 DEF Contents, MemFile
  <2> QED
    BY <1>1, <2>2, <2>3, MappedFiles
<1>3. CASE Format
  <2>1. /\ pc = "off" /\ pc' = "flush" /\ entries' = FormattedTable /\ ~dSuper.signed
    BY <1>3 DEF Format, StartFlush, Healthy
  <2>2. dTable = [i \in Ids |-> FreeEntry]
    BY <2>1 DEF StoreInv, BlankUnsigned
  <2>3. \A i \in Ids : ~IsFile(dTable, i) /\ ~IsFile(FormattedTable, i)
    BY <2>2, NoFilesYet
  <2>4. \A i \in Ids : MemFile(i)' = NoFile /\ DiskFile(i) = NoFile
    BY <2>1, <2>3 DEF MemFile, DiskFile, IsFile
  <2>5. Contents' = [i \in Ids |-> MemFile(i)'] /\ Contents = DiskContents
    BY <2>1 DEF Contents, MemFile
  <2> QED
    BY <1>1, <2>4, <2>5, MappedFiles
<1>4. CASE Crash
  <2>1. Contents' = DiskContents'
    BY <1>4 DEF Crash, Contents, DiskContents, DiskByte
  <2> QED
    BY <1>1, <2>1 DEF Store!Next, Store!Crash
<1> QED
  BY <1>2, <1>3, <1>4

LEMMA StoreInitial ==
  ASSUME Healthy, Init
  PROVE  StoreInv /\ Store!Init
<1>1. Inv
  BY InvInit DEF Healthy
<1>2. pc = "off" /\ nextFree = 0 /\ entries = [i \in Ids |-> FreeEntry]
  BY DEF Init
<1>3. \/ dSuper = [signed |-> FALSE, next |-> 0] /\ dTable = [i \in Ids |-> FreeEntry]
      \/ dSuper = [signed |-> TRUE, next |-> DataLba] /\ dTable = FormattedTable
  BY DEF Init
<1>4. DataLba <= MaxNextFree /\ 0 <= MaxNextFree
  BY SizesAssumption
<1>5. FilesFit /\ PointersBounded /\ BlankUnsigned
  BY <1>2, <1>3, <1>4, NewTablesFit DEF FilesFit, PointersBounded, BlankUnsigned
<1>6. TableSynced /\ CopyProgress /\ FillProgress
  BY <1>2 DEF TableSynced, CopyProgress, FillProgress
<1>7. \A i \in Ids : ~IsFile(dTable, i)
  BY <1>3, NoFilesYet
<1>8. DiskContents = [i \in Ids |-> NoFile] /\ Contents = DiskContents
  BY <1>2, <1>7 DEF DiskContents, Contents
<1> QED
  BY <1>1, <1>5, <1>6, <1>8 DEF StoreInv, Store!Init

\* ImplementsFileStore: on a disk that neither fails nor fills up, every step of
\* simplefs.c, down to the single sector, is a step of the file store seen through
\* the mapping, or none: calls change the file they name and no other, a crash
\* falls back to what is stored, and no sector of another file or another time
\* ever shows.
THEOREM ImplementsFileStoreCorrect ==
  ASSUME Healthy, \A n \in Nat : NoFile \notin [1 .. n -> Bytes]
  PROVE  Spec => ImplementsFileStore
<1>1. Init => StoreInv /\ Store!Init
  BY StoreInitial
<1>2. StoreInv /\ [Next]_vars => StoreInv'
  BY StoreStep
<1>3. StoreInv => MapTyped
  BY MapTypes
<1>4. StoreInv /\ MapTyped' /\ [Next]_vars => [Store!Next]_<<Contents, DiskContents>>
  <2> SUFFICES ASSUME StoreInv, MapTyped', [Next]_vars
               PROVE  [Store!Next]_<<Contents, DiskContents>>
    OBVIOUS
  <2>1. CASE UNCHANGED vars
    <3>1. UNCHANGED <<entries, nextFree, dTable, data, pc, job>>
      BY <2>1 DEF vars
    <3> QED
      BY <3>1 DEF Contents, DiskContents, DiskByte, FinalSize, FinalByte, Writing, EndOf, IsFile
  <2>2. CASE \E p \in Paths, type \in NodeTypes : CreateIn(Root, p, type)
    BY <2>2, CreateMaps
  <2>3. CASE \E p \in Paths : RemoveIn(Root, p)
    BY <2>3, RemoveMaps
  <2>4. CASE \E id \in Ids : Truncate(id)
    BY <2>4, TruncateMaps
  <2>5. CASE \E id \in Ids, buf \in Bufs, off \in Offsets : Write(id, off, buf)
    BY <2>5, WriteMaps
  <2>6. CASE CopySector \/ Relocate \/ SetSize \/ FlushSuper
    BY <2>6, CopyMaps, RelocateMaps, SetSizeMaps, FlushSuperMaps
  <2>7. CASE FillSector
    BY <2>7, FillMaps
  <2>8. CASE FlushTable
    BY <2>8, FlushTableMaps
  <2>9. CASE Mount \/ Format \/ Crash
    BY <2>9, BootMaps
  <2> QED
    BY <2>1, <2>2, <2>3, <2>4, <2>5, <2>6, <2>7, <2>8, <2>9 DEF Next
<1> QED
  BY <1>1, <1>2, <1>3, <1>4, PTL DEF Spec, ImplementsFileStore, Store!Spec

-----------------------------------------------------------------------------
(* What a crash leaves of the tree.  A path is walked component by         *)
(* component; what its end must be is proved by looking at the first step  *)
(* that breaks it.                                                         *)

\* What holds at the start of a walk and is kept by each step holds at its end.
LEMMA WalkKeeps ==
  ASSUME NEW m \in Nat, NEW cur, NEW T, cur[0] \in T,
         \A n \in 1 .. m : cur[n - 1] \in T => cur[n] \in T
  PROVE  cur[m] \in T
<1> DEFINE Bad == {n \in 0 .. m : cur[n] \notin T}
<1>1. SUFFICES ASSUME Bad # {} PROVE FALSE
  OBVIOUS
<1>2. PICK n \in Bad : \A k \in Bad : n <= k
  <2>1. Bad \in SUBSET Nat
    OBVIOUS
  <2> HIDE DEF Bad
  <2> QED
    BY <1>1, <2>1, LeastElement
<1>3. n \in 1 .. m /\ n - 1 \in 0 .. m
  BY <1>2
<1>4. n - 1 \notin Bad
  BY <1>2, <1>3
<1> QED
  BY <1>2, <1>3, <1>4

\* The walk of CreateTarget, which may stop before the last component.
LEMMA TargetWalk ==
  ASSUME NEW es, NEW dir, NEW p \in Path, p.comps # <<>>
  PROVE  \E m \in 0 .. Len(p.comps) : \E cur :
           /\ cur = [n \in 0 .. m |->
                       IF n = 0 THEN StartOf(p, dir) ELSE DescendStep(es, cur[n - 1], p.comps[n])]
           /\ CreateTarget(es, dir, p).dir = cur[m]
           /\ CreateTarget(es, dir, p).name = p.comps[Len(p.comps)]
<1> DEFINE cut == IF ~p.slash /\ Last(p.comps) \in Comps THEN 1 ELSE 0
           last == Len(p.comps) - cut
           Walk(g, m) ==
             g = [n \in 0 .. m |->
                    IF n = 0 THEN StartOf(p, dir) ELSE DescendStep(es, g[n - 1], p.comps[n])]
           Missing == {m \in Nat : ~ \E g : Walk(g, m)}
<1>1. Missing = {}
  <2> SUFFICES ASSUME Missing # {} PROVE FALSE
    OBVIOUS
  <2>1. PICK m \in Missing : \A k \in Missing : m <= k
    <3>1. Missing \in SUBSET Nat
      OBVIOUS
    <3> HIDE DEF Missing
    <3> QED
      BY <3>1, LeastElement
  <2>2. CASE m = 0
    <3> DEFINE g == [n \in 0 .. 0 |-> StartOf(p, dir)]
    <3>1. Walk(g, 0)
      OBVIOUS
    <3> QED
      BY <2>2, <3>1
  <2>3. CASE m # 0
    <3>1. m - 1 \in Nat /\ m - 1 \notin Missing
      <4>1. m \in Nat
        OBVIOUS
      <4> HIDE DEF Missing
      <4> QED
        BY <2>1, <2>3, <4>1
    <3>2. PICK f : Walk(f, m - 1)
      BY <3>1
    <3> DEFINE g == [n \in 0 .. m |->
                       IF n = m THEN DescendStep(es, f[m - 1], p.comps[m]) ELSE f[n]]
    <3>3. Walk(g, m)
      BY <2>1, <2>3, <3>2
    <3> QED
      BY <3>3
  <2> QED
    BY <2>2, <2>3
<1>2. last \in 0 .. Len(p.comps) /\ last \in Nat
  <2>1. p.comps \in Seq(AnyName)
    BY DEF Path
  <2>2. Len(p.comps) \in Nat \ {0}
    BY <2>1, EmptySeq
  <2>3. cut = 0 \/ cut = 1
    BY Zenon
  <2> HIDE DEF cut
  <2> QED
    BY <2>2, <2>3
<1>3. PICK g : Walk(g, last)
  <2> HIDE DEF last
  <2> QED
    BY <1>1, <1>2
<1> HIDE DEF Missing
<1>4. Walk((CHOOSE h : Walk(h, last)), last)
  BY <1>3
<1>5. /\ CreateTarget(es, dir, p).dir = (CHOOSE h : Walk(h, last))[last]
      /\ CreateTarget(es, dir, p).name = p.comps[Len(p.comps)]
  BY DEF CreateTarget, Last
<1> HIDE DEF last
<1> QED
  BY <1>2, <1>4, <1>5

LEMMA Slots ==
  /\ Ids \subseteq Nat /\ Root \in Ids /\ NoNode \notin Ids
  /\ FreeEntry \in Entry /\ ~FreeEntry.used
<1>1. Ids \subseteq Nat /\ Root \in Ids /\ NoNode \notin Ids
  <2>1. MaxEntries \in Nat \ {0}
    BY TableAssumption, Zenon
  <2> QED
    BY <2>1 DEF Ids, Root, NoNode
<1>2. 0 \in Ids /\ 0 \in Nat
  BY <1>1 DEF Root
<1>3. FreeEntry \in Entry /\ ~FreeEntry.used
  BY <1>2 DEF FreeEntry, Entry
<1> QED
  BY <1>1, <1>3

\* sfs_find_child returns an entry of the directory with that name, or -1 if there
\* is none.
LEMMA ChildFacts ==
  ASSUME NEW es, NEW dir, NEW name
  PROVE  LET child == FindChild(es, dir, name)
         IN \/ child \in Ids /\ es[child].used /\ es[child].parent = dir /\ es[child].name = name
            \/ /\ child = NoNode
               /\ \A i \in Ids : es[i].used /\ es[i].parent = dir => es[i].name # name
<1> DEFINE S == {i \in Ids : es[i].used /\ es[i].parent = dir /\ es[i].name = name}
<1>1. S \in SUBSET Nat
  BY Slots
<1>2. CASE S = {}
  BY <1>2 DEF FindChild, Lowest
<1>3. CASE S # {}
  <2>1. FindChild(es, dir, name) = Min(S)
    BY <1>3 DEF FindChild, Lowest
  <2>2. Min(S) \in S
    <3> HIDE DEF S
    <3> QED
      BY <1>1, <1>3, LeastElement
  <2> QED
    BY <2>1, <2>2
<1> QED
  BY <1>2, <1>3

\* In a tree, a walk from a directory in use that ends somewhere ends in a
\* directory in use.
LEMMA TargetLive ==
  ASSUME NEW es \in [Ids -> Entry], NEW dir \in Ids, NEW p \in Path, p.comps # <<>>,
         TreeOK(es), es[dir].used, es[dir].type = "dir"
  PROVE  LET to == CreateTarget(es, dir, p).dir
         IN to # NoNode => to \in Ids /\ es[to].used /\ es[to].type = "dir"
<1> DEFINE T == {i \in Ids : es[i].used /\ es[i].type = "dir"} \union {NoNode}
<1>0. PICK m \in 0 .. Len(p.comps) : \E cur :
        /\ cur = [n \in 0 .. m |->
                    IF n = 0 THEN StartOf(p, dir) ELSE DescendStep(es, cur[n - 1], p.comps[n])]
        /\ CreateTarget(es, dir, p).dir = cur[m]
        /\ CreateTarget(es, dir, p).name = p.comps[Len(p.comps)]
  BY TargetWalk
<1>1. PICK cur :
        /\ cur = [n \in 0 .. m |->
                    IF n = 0 THEN StartOf(p, dir) ELSE DescendStep(es, cur[n - 1], p.comps[n])]
        /\ CreateTarget(es, dir, p).dir = cur[m]
        /\ CreateTarget(es, dir, p).name = p.comps[Len(p.comps)]
  BY <1>0
<1>2. p.comps \in Seq(AnyName) /\ m \in Nat /\ Len(p.comps) \in Nat
  BY DEF Path
<1>3. cur[0] \in T
  <2>1. cur[0] = StartOf(p, dir)
    BY <1>1, <1>2
  <2>2. CASE p.abs
    BY <2>1, <2>2, Slots DEF StartOf, TreeOK
  <2>3. CASE ~p.abs
    BY <2>1, <2>3 DEF StartOf
  <2> QED
    BY <2>2, <2>3
<1>4. ASSUME NEW n \in 1 .. m, cur[n - 1] \in T
      PROVE  cur[n] \in T
  <2> DEFINE at == cur[n - 1]
             c  == p.comps[n]
  <2>1. cur[n] = DescendStep(es, at, c)
    BY <1>1, <1>2
  <2>2. c \in AnyName
    BY <1>2, ElementOfSeq
  <2>3. at \in T
    BY <1>4
  <2> HIDE DEF at, c
  <2>4. CASE at = NoNode \/ c = "."
    BY <2>1, <2>3, <2>4 DEF DescendStep, ResolveStep
  <2>5. CASE at # NoNode /\ c = ".."
    <3>1. at \in Ids /\ es[at].used /\ es[at].parent \in Ids
      BY <2>3, <2>5 DEF Entry
    <3>2. es[es[at].parent].used /\ es[es[at].parent].type = "dir"
      BY <3>1 DEF TreeOK
    <3> QED
      BY <2>1, <2>5, <3>1, <3>2 DEF DescendStep, ResolveStep
  <2>6. CASE at # NoNode /\ c \notin {".", ".."}
    <3>1. ResolveStep(es, at, c) = FindChild(es, at, c) /\ c \in Comps
      BY <2>2, <2>6 DEF ResolveStep, AnyName
    <3> QED
      BY <2>1, <3>1, ChildFacts DEF DescendStep
  <2> QED
    BY <2>4, <2>5, <2>6
<1> HIDE DEF T
<1>5. cur[m] \in T
  BY <1>2, <1>3, <1>4, WalkKeeps
<1> QED
  BY <1>1, <1>5 DEF T

\* A new node in a directory in use keeps the tree.
LEMMA CreateKeepsTree ==
  ASSUME NEW es \in [Ids -> Entry], TreeOK(es), NEW slot \in Ids, ~es[slot].used,
         NEW dir \in Ids, es[dir].used, es[dir].type = "dir",
         NEW name, \A i \in Ids : es[i].used /\ es[i].parent = dir => es[i].name # name,
         NEW type
  PROVE  TreeOK([es EXCEPT ![slot] = NewEntry(dir, type, name)])
<1> DEFINE fs == [es EXCEPT ![slot] = NewEntry(dir, type, name)]
<1>1. /\ \A i \in Ids : i # slot => fs[i] = es[i]
      /\ fs[slot].used /\ fs[slot].parent = dir /\ fs[slot].name = name
  BY DEF NewEntry
<1> HIDE DEF fs
<1>2. slot # dir /\ slot # Root
  BY DEF TreeOK
<1>3. fs[Root].used /\ fs[Root].type = "dir"
  BY <1>1, <1>2, Slots DEF TreeOK
<1>4. ASSUME NEW i \in Ids, fs[i].used
      PROVE  fs[fs[i].parent].used /\ fs[fs[i].parent].type = "dir"
  <2>1. CASE i = slot
    BY <1>1, <1>2, <2>1
  <2>2. CASE i # slot
    <3>1. /\ es[i].used /\ fs[i].parent = es[i].parent /\ es[i].parent \in Ids
          /\ es[es[i].parent].used /\ es[es[i].parent].type = "dir"
      BY <1>1, <1>4, <2>2 DEF TreeOK, Entry
    <3> QED
      BY <1>1, <3>1
  <2> QED
    BY <2>1, <2>2
<1>5. ASSUME NEW i \in Ids \ {Root}, NEW j \in Ids \ {Root},
             fs[i].used, fs[j].used, i # j, fs[i].parent = fs[j].parent
      PROVE  fs[i].name # fs[j].name
  <2>1. CASE i = slot
    BY <1>1, <1>5, <2>1
  <2>2. CASE j = slot
    BY <1>1, <1>5, <2>2
  <2>3. CASE i # slot /\ j # slot
    BY <1>1, <1>5, <2>3 DEF TreeOK
  <2> QED
    BY <2>1, <2>2, <2>3
<1> QED
  BY <1>3, <1>4, <1>5 DEF TreeOK, fs

\* Removing a node other than the root that holds no other keeps the tree.
LEMMA RemoveKeepsTree ==
  ASSUME NEW es \in [Ids -> Entry], TreeOK(es), NEW id \in Ids, id # Root,
         es[id].type = "dir" => \A i \in Ids : es[i].used => es[i].parent # id
  PROVE  TreeOK([es EXCEPT ![id] = FreeEntry])
<1> DEFINE fs == [es EXCEPT ![id] = FreeEntry]
<1>1. fs[id] = FreeEntry /\ \A i \in Ids : i # id => fs[i] = es[i]
  OBVIOUS
<1> HIDE DEF fs
<1>2. fs[Root].used /\ fs[Root].type = "dir"
  BY <1>1, Slots DEF TreeOK
<1>3. ASSUME NEW i \in Ids, fs[i].used
      PROVE  fs[fs[i].parent].used /\ fs[fs[i].parent].type = "dir"
  <2>1. i # id /\ fs[i] = es[i]
    BY <1>1, <1>3, Slots
  <2>2. es[i].parent \in Ids /\ es[es[i].parent].used /\ es[es[i].parent].type = "dir"
    BY <1>3, <2>1 DEF TreeOK, Entry
  <2>3. es[i].parent # id
    BY <1>3, <2>1, <2>2
  <2> QED
    BY <1>1, <2>1, <2>2, <2>3
<1>4. ASSUME NEW i \in Ids \ {Root}, NEW j \in Ids \ {Root},
             fs[i].used, fs[j].used, i # j, fs[i].parent = fs[j].parent
      PROVE  fs[i].name # fs[j].name
  <2>1. i # id /\ j # id
    BY <1>1, <1>4, Slots
  <2> QED
    BY <1>1, <1>4, <2>1 DEF TreeOK
<1> QED
  BY <1>2, <1>3, <1>4 DEF TreeOK, fs

\* A slot of two tables is the same node, wherever its sectors lie.
SameNode(e, f) == e.used = f.used /\ e.type = f.type /\ e.parent = f.parent /\ e.name = f.name

SameNodes(es, fs) == \A i \in Ids : SameNode(es[i], fs[i])

\* Where the nodes lie on the disk does not matter to the tree.
LEMMA SameTree ==
  ASSUME NEW es \in [Ids -> Entry], NEW fs \in [Ids -> Entry], SameNodes(es, fs), TreeOK(es)
  PROVE  TreeOK(fs)
<1>1. ASSUME NEW i \in Ids
      PROVE  /\ es[i].used = fs[i].used /\ es[i].type = fs[i].type
             /\ es[i].parent = fs[i].parent /\ es[i].name = fs[i].name /\ es[i].parent \in Ids
  BY DEF SameNodes, SameNode, Entry
<1>2. fs[Root].used /\ fs[Root].type = "dir"
  BY <1>1, Slots DEF TreeOK
<1>3. ASSUME NEW i \in Ids, fs[i].used
      PROVE  fs[fs[i].parent].used /\ fs[fs[i].parent].type = "dir"
  BY <1>1, <1>3 DEF TreeOK
<1>4. ASSUME NEW i \in Ids \ {Root}, NEW j \in Ids \ {Root},
             fs[i].used, fs[j].used, i # j, fs[i].parent = fs[j].parent
      PROVE  fs[i].name # fs[j].name
  BY <1>1, <1>4 DEF TreeOK
<1> QED
  BY <1>2, <1>3, <1>4 DEF TreeOK

\* Neither setting the size nor giving an extent changes a node.
LEMMA ResizedNode ==
  ASSUME NEW e \in Entry, NEW n, NEW m
  PROVE  SameNode(e, [e EXCEPT !.size = n]) /\ SameNode(e, WithExtent(e, n, m))
<1>1. SameNode(e, [e EXCEPT !.size = n])
  BY Zenon DEF Entry, SameNode
<1>2. SameNode(e, WithExtent(e, n, m))
  BY Zenon DEF Entry, SameNode, WithExtent
<1> QED
  BY <1>1, <1>2

LEMMA ResizedNodes ==
  ASSUME NEW es \in [Ids -> Entry], NEW id \in Ids, NEW n, NEW m, NEW fs,
         \/ fs = [es EXCEPT ![id] = [es[id] EXCEPT !.size = n]]
         \/ fs = [es EXCEPT ![id] = WithExtent(es[id], n, m)]
  PROVE  SameNodes(es, fs)
<1>1. /\ es[id] \in Entry /\ \A i \in Ids : i # id => fs[i] = es[i]
      /\ fs[id] = [es[id] EXCEPT !.size = n] \/ fs[id] = WithExtent(es[id], n, m)
  OBVIOUS
<1>2. SameNode(es[id], fs[id])
  BY <1>1, ResizedNode
<1>3. ASSUME NEW i \in Ids, i # id PROVE SameNode(es[i], fs[i])
  BY <1>1, <1>3 DEF SameNode
<1> QED
  BY <1>2, <1>3 DEF SameNodes

\* Between calls both tables hold the same nodes, while a flush is under way all
\* but one of them, and every table is a tree.
Trees ==
  /\ TreeOK(dTable)
  /\ pc # "off" => TreeOK(entries)
  /\ pc \in {"idle", "copy", "fill"} => SameNodes(entries, dTable)
  /\ pc = "flush" => \E k \in Ids : \A i \in Ids \ {k} : SameNode(entries[i], dTable[i])

CrashInv == Inv /\ dSuper.signed /\ (~behind => Trees)

\* A call that leaves the disk and all nodes in memory alone, or all but one and
\* is about to flush it, if the table is still a tree.
LEMMA NodesStay ==
  ASSUME Trees, entries \in [Ids -> Entry], entries' \in [Ids -> Entry],
         pc \in {"idle", "copy", "fill"}, pc' \in {"idle", "copy", "fill", "flush"},
         dTable' = dTable, SameNodes(entries, entries')
  PROVE  Trees'
<1>1. TreeOK(entries')
  BY SameTree DEF Trees
<1>2. SameNodes(entries', dTable')
  BY DEF Trees, SameNodes, SameNode
<1> QED
  BY <1>1, <1>2, Slots DEF Trees, SameNodes

LEMMA OneNodeChanges ==
  ASSUME Trees, pc = "idle", pc' = "flush", dTable' = dTable, TreeOK(entries'),
         NEW k \in Ids, \A i \in Ids \ {k} : entries'[i] = entries[i]
  PROVE  Trees'
  BY DEF Trees, SameNodes, SameNode

\* One sector of the flush: the table on the disk then holds the nodes it held,
\* or the nodes in memory, since they differ in one.
LEMMA FlushKeepsTrees ==
  ASSUME Trees, Inv, Inv', FlushTable, ~FlushFails
  PROVE  Trees'
<1>1. PICK k \in Ids : \A i \in Ids \ {k} : SameNode(entries[i], dTable[i])
  BY DEF Trees, FlushTable
<1>2. PICK w \in Outcomes :
        /\ dTable' = [i \in Ids |-> IF i \in SlotsOf(job.done - 1) /\ Landed(w)
                                    THEN entries[i] ELSE dTable[i]]
        /\ IF w # "ok" THEN Return("fail")
           ELSE IF job.done = TableSectors THEN Return("ok")
           ELSE /\ job' = [job EXCEPT !.done = @ + 1]
                /\ UNCHANGED <<pc, ret>>
  BY DEF FlushTable
<1>3. entries' = entries /\ pc = "flush"
  BY DEF FlushTable, memory
<1>4. /\ entries \in [Ids -> Entry] /\ dTable \in [Ids -> Entry] /\ dTable' \in [Ids -> Entry]
  BY DEF Inv, TypeOK
<1>5. \/ pc' = "idle" /\ ret' = "ok"
      \/ pc' = "flush"
  BY <1>2, <1>3 DEF FlushFails, Return
<1>6. SameNodes(dTable, dTable') \/ SameNodes(entries, dTable')
  <2>1. CASE dTable'[k] = entries[k]
    BY <1>1, <1>2, <2>1 DEF SameNodes, SameNode
  <2>2. CASE dTable'[k] = dTable[k]
    BY <1>1, <1>2, <2>2 DEF SameNodes, SameNode
  <2> QED
    BY <1>2, <2>1, <2>2
<1>7. TreeOK(dTable')
  BY <1>3, <1>4, <1>6, SameTree DEF Trees
<1>8. TreeOK(entries')
  BY <1>3 DEF Trees
<1>9. CASE pc' = "idle" /\ ret' = "ok"
  <2>1. dTable' = entries'
    BY <1>9 DEF Inv, SuccessIsDurable
  <2> QED
    BY <1>7, <1>8, <1>9, <2>1 DEF Trees, SameNodes, SameNode
<1>10. CASE pc' = "flush"
  <2>1. \A i \in Ids \ {k} : SameNode(entries'[i], dTable'[i])
    BY <1>1, <1>2, <1>3 DEF SameNode
  <2> QED
    BY <1>7, <1>8, <1>10, <2>1 DEF Trees
<1> QED
  BY <1>5, <1>9, <1>10

LEMMA CreateKeepsTrees ==
  ASSUME Trees, Inv, NEW p \in Paths, NEW type \in NodeTypes, CreateIn(Root, p, type)
  PROVE  Trees'
<1> DEFINE target == CreateTarget(entries, Root, p)
           slot   == CreateSlot(entries, Root, p)
<1>1. /\ pc = "idle"
      /\ \/ Refuse
         \/ \E dir, idx \in Ids :
              /\ idx = slot /\ dir = target.dir
              /\ entries' = [entries EXCEPT ![idx] = NewEntry(dir, type, target.name)]
              /\ StartFlush /\ UNCHANGED <<nextFree, disk>>
  BY DEF CreateIn
<1>2. entries \in [Ids -> Entry]
  BY DEF Inv, TypeOK
<1>3. CASE Refuse
  <2>1. entries' = entries /\ dTable' = dTable /\ pc' = "idle"
    BY <1>3 DEF Refuse, Return, memory, disk
  <2> QED
    BY <1>1, <1>2, <2>1, NodesStay DEF SameNodes, SameNode
<1>4. CASE ~Refuse
  <2>1. PICK dir \in Ids, idx \in Ids :
          /\ idx = slot /\ dir = target.dir
          /\ entries' = [entries EXCEPT ![idx] = NewEntry(dir, type, target.name)]
          /\ StartFlush /\ UNCHANGED <<nextFree, disk>>
    BY <1>1, <1>4
  <2>2. pc' = "flush" /\ dTable' = dTable
    BY <2>1 DEF StartFlush, disk
  <2>3. p \in Path /\ Root \in Ids /\ idx # NoNode /\ dir # NoNode
    BY InputsAssumption, Slots
  <2>4. p.comps # <<>> /\ FindChild(entries, dir, target.name) = NoNode
    BY <2>1, <2>3, Zenon DEF CreateSlot
  <2>5. TreeOK(entries) /\ entries[Root].used /\ entries[Root].type = "dir"
    BY <1>1 DEF Trees, TreeOK
  <2>6. entries[dir].used /\ entries[dir].type = "dir"
    BY <1>2, <2>1, <2>3, <2>4, <2>5, TargetLive
  <2>7. ~entries[idx].used
    BY <2>1, FreshSlot
  <2>8. \A i \in Ids : entries[i].used /\ entries[i].parent = dir => entries[i].name # target.name
    <3> HIDE DEF target
    <3> QED
      BY <2>3, <2>4, ChildFacts, Slots
  <2>9. TreeOK(entries')
    <3> HIDE DEF target, slot
    <3> QED
      BY <1>2, <2>1, <2>5, <2>6, <2>7, <2>8, CreateKeepsTree
  <2>10. \A i \in Ids \ {idx} : entries'[i] = entries[i]
    BY <1>2, <2>1
  <2> QED
    BY <1>1, <2>2, <2>9, <2>10, OneNodeChanges
<1> QED
  BY <1>3, <1>4

LEMMA RemoveKeepsTrees ==
  ASSUME Trees, Inv, NEW p \in Paths, RemoveIn(Root, p)
  PROVE  Trees'
<1> DEFINE slot == RemoveSlot(entries, Root, p)
<1>1. /\ pc = "idle"
      /\ \/ Refuse
         \/ \E id \in Ids : /\ id = slot /\ entries' = [entries EXCEPT ![id] = FreeEntry]
                            /\ StartFlush /\ UNCHANGED <<nextFree, disk>>
  BY DEF RemoveIn
<1>2. entries \in [Ids -> Entry]
  BY DEF Inv, TypeOK
<1>3. CASE Refuse
  <2>1. entries' = entries /\ dTable' = dTable /\ pc' = "idle"
    BY <1>3 DEF Refuse, Return, memory, disk
  <2> QED
    BY <1>1, <1>2, <2>1, NodesStay DEF SameNodes, SameNode
<1>4. CASE ~Refuse
  <2>1. PICK id \in Ids : /\ id = slot /\ entries' = [entries EXCEPT ![id] = FreeEntry]
                          /\ StartFlush /\ UNCHANGED <<nextFree, disk>>
    BY <1>1, <1>4
  <2>2. pc' = "flush" /\ dTable' = dTable
    BY <2>1 DEF StartFlush, disk
  <2>3. id # NoNode
    BY Slots
  <2>4. /\ id # Root
        /\ entries[id].type = "dir" => \A i \in Ids : entries[i].used => entries[i].parent # id
    BY <2>1, <2>3, Zenon DEF RemoveSlot
  <2>5. TreeOK(entries')
    <3>1. TreeOK(entries)
      BY <1>1 DEF Trees
    <3> HIDE DEF slot
    <3> QED
      BY <1>2, <2>1, <2>4, <3>1, RemoveKeepsTree
  <2>6. \A i \in Ids \ {id} : entries'[i] = entries[i]
    BY <1>2, <2>1
  <2> QED
    BY <1>1, <2>2, <2>5, <2>6, OneNodeChanges
<1> QED
  BY <1>3, <1>4

LEMMA CrashStep ==
  ASSUME ~BootErrors, CrashInv, [CrashNext]_<<vars, behind>>
  PROVE  CrashInv'
<1>1. Inv /\ Inv' /\ dSuper.signed
  BY InvStep DEF CrashInv, CrashNext, vars
<1>2. dSuper'.signed
  <2>1. CASE FlushSuper
    BY <1>1, <2>1 DEF FlushSuper
  <2>2. CASE ~FlushSuper
    <3>1. dSuper' = dSuper
      BY <2>2 DEF CrashNext, Next, vars, disk, Mount, Format, CreateIn, RemoveIn, Truncate, Write,
                  CopySector, Relocate, FillSector, SetSize, FlushTable, Crash, Refuse
    <3> QED
      BY <1>1, <3>1
  <2> QED
    BY <2>1, <2>2
<1>3. ASSUME ~behind'
      PROVE  Trees'
  <2>1. ~behind /\ Trees
    <3>1. CASE CrashNext
      BY <1>3, <3>1, Zenon DEF CrashInv, CrashNext
    <3>2. CASE UNCHANGED <<vars, behind>>
      BY <1>3, <3>2, Zenon DEF CrashInv
    <3> QED
      BY <3>1, <3>2
  <2>2. ~FlushFails \/ UNCHANGED <<vars, behind>>
    BY <1>3 DEF CrashNext
  <2>3. /\ entries \in [Ids -> Entry] /\ entries' \in [Ids -> Entry]
        /\ job \in Job /\ dTable \in [Ids -> Entry]
    BY <1>1 DEF Inv, TypeOK
  <2>4. CASE Mount
    BY <2>1, <2>4 DEF Mount, Return, disk, Trees, SameNodes, SameNode
  <2>5. CASE Format
    BY <1>1, <2>5 DEF Format
  <2>6. CASE \E p \in Paths : \/ \E type \in NodeTypes : CreateIn(Root, p, type)
                              \/ RemoveIn(Root, p)
    BY <1>1, <2>1, <2>6, CreateKeepsTrees, RemoveKeepsTrees
  <2>7. ASSUME NEW id \in Ids, Truncate(id)
        PROVE  Trees'
    <3>1. /\ pc = "idle" /\ pc' \in {"idle", "flush"} /\ dTable' = dTable
          /\ \/ entries' = entries
             \/ entries' = [entries EXCEPT ![id] = [entries[id] EXCEPT !.size = 0]]
      BY <2>7 DEF Truncate, Refuse, Return, StartFlush, memory, disk
    <3>2. SameNodes(entries, entries')
      BY <2>3, <3>1, ResizedNodes DEF SameNodes, SameNode
    <3> QED
      BY <2>1, <2>3, <3>1, <3>2, NodesStay
  <2>8. ASSUME NEW id \in Ids, NEW buf \in Bufs, NEW off \in Offsets, Write(id, off, buf)
        PROVE  Trees'
    <3>1. /\ pc = "idle" /\ pc' \in {"idle", "copy", "fill"} /\ dTable' = dTable
          /\ \/ entries' = entries
             \/ \E start, cap : entries' = [entries EXCEPT ![id] = WithExtent(entries[id], start, cap)]
      BY <2>8, Zenon DEF Write, Refuse, Return, memory, disk
    <3>2. SameNodes(entries, entries')
      <4>1. CASE entries' = entries
        BY <4>1 DEF SameNodes, SameNode
      <4>2. ASSUME NEW start, NEW cap,
                   entries' = [entries EXCEPT ![id] = WithExtent(entries[id], start, cap)]
            PROVE  SameNodes(entries, entries')
        BY <2>3, <4>2, ResizedNodes
      <4> QED
        BY <3>1, <4>1, <4>2
    <3> QED
      BY <2>1, <2>3, <3>1, <3>2, NodesStay
  <2>9. CASE CopySector \/ FillSector
    <3>1. /\ pc \in {"copy", "fill"} /\ pc' \in {"idle", "copy", "fill"}
          /\ dTable' = dTable /\ entries' = entries
      BY <2>9 DEF CopySector, FillSector, Return, memory
    <3>2. SameNodes(entries, entries')
      BY <3>1 DEF SameNodes, SameNode
    <3> QED
      BY <2>1, <2>3, <3>1, <3>2, NodesStay
  <2>10. CASE Relocate
    <3>1. /\ pc = "copy" /\ pc' = "fill" /\ dTable' = dTable /\ job.id \in Ids
          /\ \E start, cap : entries' = [entries EXCEPT ![job.id] = WithExtent(entries[job.id], start, cap)]
      BY <2>3, <2>10 DEF Relocate, disk, Job
    <3>2. SameNodes(entries, entries')
      BY <2>3, <3>1, ResizedNodes
    <3> QED
      BY <2>1, <2>3, <3>1, <3>2, NodesStay
  <2>11. CASE SetSize
    <3>1. /\ pc = "fill" /\ pc' = "flush" /\ dTable' = dTable /\ job.id \in Ids
          /\ \E size : entries' = [entries EXCEPT ![job.id] = [entries[job.id] EXCEPT !.size = size]]
      BY <2>3, <2>11 DEF SetSize, StartFlush, disk, Job
    <3>2. SameNodes(entries, entries')
      BY <2>3, <3>1, ResizedNodes
    <3> QED
      BY <2>1, <2>3, <3>1, <3>2, NodesStay
  <2>12. CASE FlushSuper
    <3>1. entries' = entries /\ dTable' = dTable /\ pc = "flush" /\ (pc' = "flush" \/ FlushFails)
      BY <2>12 DEF FlushSuper, Return, FlushFails, memory
    <3>2. pc' = "flush"
      BY <2>2, <3>1 DEF vars
    <3> QED
      BY <2>1, <3>1, <3>2 DEF Trees
  <2>13. CASE FlushTable
    <3>1. ~FlushFails
      BY <2>2, <2>13 DEF FlushFails, vars
    <3> QED
      BY <1>1, <2>1, <2>13, <3>1, FlushKeepsTrees
  <2>14. CASE Crash
    BY <2>1, <2>14 DEF Crash, disk, Trees
  <2>15. CASE UNCHANGED <<vars, behind>>
    BY <2>1, <2>15 DEF vars, Trees
  <2> QED
    BY <2>4, <2>5, <2>6, <2>7, <2>8, <2>9, <2>10, <2>11, <2>12, <2>13, <2>14, <2>15 DEF CrashNext, Next
<1> QED
  BY <1>1, <1>2, <1>3 DEF CrashInv

\* On a disk that was formatted once, wherever the power fails and whatever
\* data sectors fail, the table on the disk is a tree until a flush has failed.
THEOREM CrashLeavesTreeCorrect ==
  ASSUME ~BootErrors, "blank" \notin InitDisks
  PROVE  CrashSpec => []CrashLeavesTree
<1>1. CrashInit => CrashInv
  <2> SUFFICES ASSUME CrashInit PROVE CrashInv
    OBVIOUS
  <2>1. Init /\ pc = "off" /\ Inv
    BY InvInit DEF CrashInit, Init
  <2>2. dSuper.signed /\ dTable = FormattedTable
    BY <2>1, InputsAssumption DEF Init
  <2>3. TreeOK(dTable)
    BY <2>2, Slots DEF TreeOK, FormattedTable, NewEntry, FreeEntry
  <2> QED
    BY <2>1, <2>2, <2>3 DEF CrashInv, Trees
<1>2. CrashInv => CrashLeavesTree
  BY DEF CrashInv, Trees, CrashLeavesTree
<1> QED
  BY <1>1, <1>2, CrashStep, PTL DEF CrashSpec

=============================================================================
