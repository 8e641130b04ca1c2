------------------------------- MODULE SimpleFS -------------------------------
(***************************************************************************)
(* The on-disk filesystem of src/fs/simplefs.c, one sector I/O at a time.  *)
(*                                                                         *)
(* In memory the driver keeps the superblock (here only its bump pointer,  *)
(* nextFree) and the node table (entries).  The disk holds a superblock, a *)
(* node table of TableSectors sectors and the data sectors.  Every call    *)
(* that changes the memory image ends in sfs_flush, which writes the       *)
(* superblock first and then the table, sector by sector.  The power may   *)
(* fail between any two sector writes, and a sector transfer may fail      *)
(* (ata.c gives up on ERR before or after the data went out).              *)
(*                                                                         *)
(* No other task runs inside a call: nothing below vfs.c yields and the    *)
(* kernel only switches tasks in scheduler_yield, so a call is a sequence  *)
(* of steps that only Crash can interrupt.                                 *)
(***************************************************************************)
EXTENDS SfsNames

CONSTANTS
  PerSector,     \* node table slots in one sector
  DataLba,       \* SFS_DATA_LBA, first data sector
  SectorCount,   \* sectors of the block device
  SectorSize,    \* bytes of a sector
  Paths,         \* paths callers pass
  NodeTypes,     \* kinds of node callers create
  Bytes,         \* byte values callers write
  Zero,          \* the byte 0, what a blank disk holds
  Bufs,          \* buffers callers write
  Offsets,       \* file positions callers write at
  MaxNextFree,   \* bound: the bump pointer is not followed past this sector
  InitDisks,     \* what the disk may hold before the first boot
  Crashes,       \* may the power fail?
  WriteErrors,   \* may a sector write fail?
  ReadErrors,    \* may a data sector read fail?
  BootErrors     \* may a sector read of sfs_load fail?

ASSUME SizesAssumption ==
  /\ PerSector \in Nat \ {0}
  /\ SectorSize \in Nat \ {0}
  /\ DataLba \in Nat \ {0}
  /\ SectorCount \in Nat
  /\ MaxNextFree \in Nat
  /\ DataLba <= MaxNextFree

ASSUME InputsAssumption ==
  /\ Zero \in Bytes
  /\ Bufs \subseteq Seq(Bytes)
  /\ Offsets \subseteq Nat
  /\ Paths \subseteq Path
  /\ NodeTypes \subseteq {"file", "dir"}
  /\ InitDisks \subseteq {"blank", "formatted"}

ASSUME FaultsAssumption ==
  /\ Crashes \in BOOLEAN
  /\ WriteErrors \in BOOLEAN
  /\ ReadErrors \in BOOLEAN
  /\ BootErrors \in BOOLEAN

VARIABLES
  entries,   \* g_entries
  nextFree,  \* g_super.next_free_lba
  dSuper,    \* superblock sector: signature (magic and version) and bump pointer
  dTable,    \* node table as the disk holds it
  data,      \* data sectors
  pc,        \* where the current call is
  job,       \* arguments and progress of the current call
  ret        \* what the last call returned

memory == <<entries, nextFree>>
disk   == <<dSuper, dTable, data>>
vars   == <<entries, nextFree, dSuper, dTable, data, pc, job, ret>>

-----------------------------------------------------------------------------
(* Data sectors.                                                           *)

Lbas   == 0 .. SectorCount - 1
Sector == [0 .. SectorSize - 1 -> Bytes]
Blank  == [b \in 0 .. SectorSize - 1 |-> Zero]

NeedSectors(end) == (end + SectorSize - 1) \div SectorSize

\* How a sector write can end: "lost" and "late" both return 0, and a "late"
\* one has reached the disk.
Outcomes == IF WriteErrors THEN {"ok", "lost", "late"} ELSE {"ok"}

\* blockdev_write refuses a sector past the end of the device.
WriteOutcomes(lba) == IF lba >= SectorCount THEN {"lost"} ELSE Outcomes

\* How a sector read can end.
ReadOutcomes(lba) ==
  IF lba >= SectorCount THEN {FALSE}
  ELSE IF ReadErrors THEN BOOLEAN ELSE {TRUE}

Landed(outcome) == outcome \in {"ok", "late"}

\* Mutant: the last, partly filled sector of the table is forgotten.
TableSectorsFloor == MaxEntries \div PerSector

\* The slots table sector k holds.
TableSectors == (MaxEntries + PerSector - 1) \div PerSector
SlotsOf(k)   == {i \in Ids : i \div PerSector = k}

-----------------------------------------------------------------------------
(* Calls.  NoJob is the job of a call that has no arguments left to use.   *)

Job   == [id : Ids, off : Nat, buf : Seq(Bytes), done : Nat]
NoJob == [id |-> Root, off |-> 0, buf |-> <<>>, done |-> 0]

TypeOK ==
  /\ entries \in [Ids -> Entry]
  /\ nextFree \in Nat
  /\ dSuper \in [signed : BOOLEAN, next : Nat]
  /\ dTable \in [Ids -> Entry]
  /\ data \in [Lbas -> Sector]
  /\ pc \in {"off", "idle", "copy", "fill", "flush"}
  /\ job \in Job
  /\ ret \in {"ok", "fail"}

Init ==
  /\ entries = [i \in Ids |-> FreeEntry]
  /\ nextFree = 0
  /\ \E d \in InitDisks :
       IF d = "blank"
       THEN /\ dSuper = [signed |-> FALSE, next |-> 0]
            /\ dTable = [i \in Ids |-> FreeEntry]
       ELSE /\ dSuper = [signed |-> TRUE, next |-> DataLba]
            /\ dTable = FormattedTable
  /\ data = [l \in Lbas |-> Blank]
  /\ pc = "off"
  /\ job = NoJob
  /\ ret = "fail"

Return(r) == pc' = "idle" /\ ret' = r /\ job' = NoJob

\* Every path to sfs_flush: the call goes on with its first sector.
StartFlush == pc' = "flush" /\ job' = NoJob /\ UNCHANGED ret

\* A call that returns 0 before it changed anything.
Refuse == Return("fail") /\ UNCHANGED <<memory, disk>>

\* sfs_init, the disk loads and carries the signature.
Mount ==
  /\ pc = "off"
  /\ dSuper.signed
  /\ entries' = dTable
  /\ nextFree' = dSuper.next
  /\ Return("ok")
  /\ UNCHANGED disk

\* sfs_init, a sector of the metadata did not load or the signature is missing.
Format ==
  /\ pc = "off"
  /\ ~dSuper.signed \/ BootErrors
  /\ entries' = FormattedTable
  /\ nextFree' = DataLba
  /\ StartFlush
  /\ UNCHANGED disk

CreateIn(cwd, p, type) ==
  LET target == CreateTarget(entries, cwd, p)
      slot   == CreateSlot(entries, cwd, p)
  IN /\ pc = "idle"
     /\ \/ slot = NoNode /\ Refuse
        \/ \E dir, idx \in Ids :
             /\ idx = slot
             /\ dir = target.dir
             /\ entries' = [entries EXCEPT
                  ![idx] = NewEntry(dir, type, target.name)]
             /\ StartFlush
             /\ UNCHANGED <<nextFree, disk>>

RemoveIn(cwd, p) ==
  LET slot == RemoveSlot(entries, cwd, p)
  IN /\ pc = "idle"
     /\ \/ slot = NoNode /\ Refuse
        \/ \E id \in Ids :
             /\ id = slot
             /\ entries' = [entries EXCEPT ![id] = FreeEntry]
             /\ StartFlush
             /\ UNCHANGED <<nextFree, disk>>

Truncate(id) ==
  /\ pc = "idle"
  /\ IF ~IsFile(entries, id)
     THEN Refuse
     ELSE /\ entries' = [entries EXCEPT ![id].size = 0]
          /\ StartFlush
          /\ UNCHANGED <<nextFree, disk>>

\* A slot that is given the extent of cap sectors from start on.
WithExtent(e, start, cap) == [e EXCEPT !.start = start, !.cap = cap]

\* Mutant: the bump pointer stays where it is when a file gets its first extent.
WriteNoBump(id, off, buf) ==
  LET need == NeedSectors(off + Len(buf))
  IN /\ pc = "idle"
     /\ nextFree + need <= MaxNextFree
     /\ IsFile(entries, id)
     /\ job' = [id |-> id, off |-> off, buf |-> buf, done |-> 0]
     /\ IF entries[id].start = 0
        THEN /\ entries' = [entries EXCEPT ![id] = WithExtent(@, nextFree, need)]
             /\ pc' = "fill"
        ELSE /\ pc' = IF need > entries[id].cap THEN "copy" ELSE "fill"
             /\ UNCHANGED entries
     /\ UNCHANGED <<nextFree, disk, ret>>

\* sfs_write up to its data loop: a file without an extent gets one at the bump
\* pointer, one that outgrows its extent is moved (CopySector, Relocate).
Write(id, off, buf) ==
  LET need == NeedSectors(off + Len(buf))
  IN /\ pc = "idle"
     /\ nextFree + need <= MaxNextFree
     /\ IF ~IsFile(entries, id)
        THEN Refuse
        ELSE /\ job' = [id |-> id, off |-> off, buf |-> buf, done |-> 0]
             /\ IF entries[id].start = 0
                THEN /\ entries' = [entries EXCEPT
                          ![id] = WithExtent(@, nextFree, need)]
                     /\ nextFree' = nextFree + need
                     /\ pc' = "fill"
                ELSE /\ pc' = IF need > entries[id].cap THEN "copy" ELSE "fill"
                     /\ UNCHANGED memory
             /\ UNCHANGED <<disk, ret>>

\* One turn of the copy loop: an old sector is read and written to the new
\* extent, which is not the file's yet.
CopySector ==
  LET src == entries[job.id].start + job.done
      dst == nextFree + job.done
  IN /\ pc = "copy"
     /\ job.done < entries[job.id].cap
     /\ \E readable \in ReadOutcomes(src), w \in WriteOutcomes(dst) :
          /\ data' = IF readable /\ Landed(w)
                     THEN [data EXCEPT ![dst] = data[src]] ELSE data
          /\ IF readable /\ w = "ok"
             THEN /\ job' = [job EXCEPT !.done = @ + 1]
                  /\ UNCHANGED <<pc, ret>>
             ELSE Return("fail")
     /\ UNCHANGED <<memory, dSuper, dTable>>

\* Mutant: the bump pointer stays where it is when a file is moved.
RelocateNoBump ==
  /\ pc = "copy"
  /\ job.done = entries[job.id].cap
  /\ entries' = [entries EXCEPT
       ![job.id] = WithExtent(@, nextFree, NeedSectors(job.off + Len(job.buf)))]
  /\ pc' = "fill"
  /\ job' = [job EXCEPT !.done = 0]
  /\ UNCHANGED <<nextFree, disk, ret>>

Relocate ==
  LET need == NeedSectors(job.off + Len(job.buf))
  IN /\ pc = "copy"
     /\ job.done = entries[job.id].cap
     /\ entries' = [entries EXCEPT
          ![job.id] = WithExtent(@, nextFree, need)]
     /\ nextFree' = nextFree + need
     /\ pc' = "fill"
     /\ job' = [job EXCEPT !.done = 0]
     /\ UNCHANGED <<disk, ret>>

\* Mutant: the rest of the sector is cleared instead of kept.
PatchedBlank(old, inSector, chunk, buf, done) ==
  [b \in 0 .. SectorSize - 1 |->
     IF b >= inSector /\ b < inSector + chunk
     THEN buf[done + b - inSector + 1] ELSE Zero]

\* The sector old with the part of the buffer that falls into it.
Patched(old, inSector, chunk, buf, done) ==
  [b \in 0 .. SectorSize - 1 |->
     IF b >= inSector /\ b < inSector + chunk
     THEN buf[done + b - inSector + 1] ELSE old[b]]

\* One turn of the data loop; a sector that cannot be read counts as zeroes.
FillSector ==
  LET pos      == job.off + job.done
      lba      == entries[job.id].start + pos \div SectorSize
      inSector == pos % SectorSize
      room     == SectorSize - inSector
      left     == Len(job.buf) - job.done
      chunk    == IF room > left THEN left ELSE room
  IN /\ pc = "fill"
     /\ job.done < Len(job.buf)
     /\ \E readable \in ReadOutcomes(lba), w \in WriteOutcomes(lba) :
          /\ data' = IF Landed(w)
                     THEN [data EXCEPT ![lba] =
                             Patched(IF readable THEN data[lba] ELSE Blank,
                                     inSector, chunk, job.buf, job.done)]
                     ELSE data
          /\ IF w = "ok"
             THEN /\ job' = [job EXCEPT !.done = @ + chunk]
                  /\ UNCHANGED <<pc, ret>>
             ELSE Return("fail")
     /\ UNCHANGED <<memory, dSuper, dTable>>

\* The tail of sfs_write: the size grows, then the metadata is flushed.
SetSize ==
  LET end == job.off + Len(job.buf)
  IN /\ pc = "fill"
     /\ job.done = Len(job.buf)
     /\ entries' = [entries EXCEPT
          ![job.id].size = IF end > @ THEN end ELSE @]
     /\ StartFlush
     /\ UNCHANGED <<nextFree, disk>>

\* Mutant: the superblock goes out with the bump pointer of the last flush.
FlushSuperStale ==
  /\ pc = "flush"
  /\ job.done = 0
  /\ dSuper' = [signed |-> TRUE, next |-> dSuper.next]
  /\ job' = [job EXCEPT !.done = 1]
  /\ UNCHANGED <<memory, dTable, data, pc, ret>>

\* sfs_flush, the superblock: it goes out before any table sector.
FlushSuper ==
  /\ pc = "flush"
  /\ job.done = 0
  /\ \E w \in Outcomes :
       /\ dSuper' = IF Landed(w) THEN [signed |-> TRUE, next |-> nextFree]
                    ELSE dSuper
       /\ IF w = "ok"
          THEN /\ job' = [job EXCEPT !.done = 1]
               /\ UNCHANGED <<pc, ret>>
          ELSE Return("fail")
  /\ UNCHANGED <<memory, dTable, data>>

\* sfs_flush, one table sector; after the last the call returns 1.
FlushTable ==
  /\ pc = "flush"
  /\ job.done \in 1 .. TableSectors
  /\ \E w \in Outcomes :
       /\ dTable' = [i \in Ids |-> IF i \in SlotsOf(job.done - 1) /\ Landed(w)
                                   THEN entries[i] ELSE dTable[i]]
       /\ IF w # "ok" THEN Return("fail")
          ELSE IF job.done = TableSectors THEN Return("ok")
          ELSE /\ job' = [job EXCEPT !.done = @ + 1]
               /\ UNCHANGED <<pc, ret>>
  /\ UNCHANGED <<memory, dSuper, data>>

\* The power fails: the memory is gone, the disk stays as it is.
Crash ==
  /\ Crashes
  /\ pc # "off"
  /\ entries' = [i \in Ids |-> FreeEntry]
  /\ nextFree' = 0
  /\ pc' = "off"
  /\ job' = NoJob
  /\ ret' = "fail"
  /\ UNCHANGED disk

Next ==
  \/ Mount \/ Format
  \/ \E p \in Paths : \/ \E type \in NodeTypes : CreateIn(Root, p, type)
                      \/ RemoveIn(Root, p)
  \/ \E id \in Ids : \/ Truncate(id)
                     \/ \E buf \in Bufs, off \in Offsets :
                          Write(id, off, buf)
  \/ CopySector \/ Relocate \/ FillSector \/ SetSize
  \/ FlushSuper \/ FlushTable
  \/ Crash

Spec == Init /\ [][Next]_vars

-----------------------------------------------------------------------------
(* Properties.                                                             *)

\* Sector l belongs to the extent of slot e.
Owns(e, l) == e.start <= l /\ l < e.start + e.cap

Disjoint(e, f) ==
  e.cap = 0 \/ f.cap = 0 \/ e.start + e.cap <= f.start \/ f.start + f.cap <= e.start

\* The extents of a table lie in the data area below sector next.
Below(es, next) ==
  \A i \in Ids : es[i].cap > 0 => /\ DataLba <= es[i].start
                                  /\ es[i].start + es[i].cap <= next

\* No slot of es overlaps a different slot of fs.
Apart(es, fs) == \A i, j \in Ids : i # j => Disjoint(es[i], fs[j])

Placed(es, next) == Below(es, next) /\ Apart(es, es)

\* The files in memory lie in the data area below the bump pointer of
\* simplefs.c and no two of them share a sector, whatever mix of sfs_write,
\* removal, failed I/O and reboot led here.
ExtentsDisjoint == Placed(entries, nextFree)

\* The same of the disk at every instant: if the power failed now, the next
\* sfs_init would load a table whose files do not overlap and a bump pointer
\* above all of them.  sfs_flush writes the superblock first for this.
CrashConsistent == Placed(dTable, dSuper.next)

\* A sector write of sfs_write never hits a sector that belongs to another file,
\* in memory or on the disk; while a growing file is being copied not even
\* its own old sectors are touched, so a crash or an error there loses nothing.
NoCollateralDamage ==
  [][\A i \in Ids, l \in Lbas :
       /\ i # job.id \/ pc = "copy"
       /\ Owns(entries[i], l) \/ Owns(dTable[i], l)
       => data'[l] = data[l]]_vars

\* The invariant the proofs are about: beside the two tables each being placed,
\* a file in memory keeps clear of every other file of the disk's table, the
\* bump pointer of the disk is never ahead of the one in memory, a write that
\* reached its data loop has room for its bytes, and the sectors sfs_flush has
\* written so far hold what the memory holds.
TablesApart == Apart(entries, dTable)

PointersOrdered ==
  /\ IF dSuper.signed THEN DataLba <= dSuper.next ELSE dSuper.next = 0
  /\ pc # "off" => DataLba <= nextFree /\ dSuper.next <= nextFree

WriteFits ==
  pc = "fill" => job.off + Len(job.buf) <= entries[job.id].cap * SectorSize

FlushProgress ==
  pc = "flush" /\ job.done >= 1 =>
    /\ dSuper = [signed |-> TRUE, next |-> nextFree]
    /\ \A i \in Ids : i \div PerSector < job.done - 1 => dTable[i] = entries[i]

\* When a call of simplefs.c returns 1 the disk holds exactly the memory image,
\* also when earlier calls failed half-way and left their changes in memory.
SuccessIsDurable ==
  pc = "idle" /\ ret = "ok" =>
    dTable = entries /\ dSuper = [signed |-> TRUE, next |-> nextFree]

Inv ==
  /\ TypeOK
  /\ ExtentsDisjoint
  /\ CrashConsistent
  /\ TablesApart
  /\ PointersOrdered
  /\ WriteFits
  /\ FlushProgress
  /\ SuccessIsDurable

=============================================================================
