-------------------------------- MODULE Memory --------------------------------
(***************************************************************************)
(* Physical memory from the firmware's map to the heap: the E820 filter of *)
(* src/mem/bootinfo.c, the frame allocator of pmm.c, the page tables of    *)
(* paging.c, and the order in which kmain uses them.  Addresses are bytes; *)
(* those of the map are u64, all others u32.                               *)
(***************************************************************************)
EXTENDS Heap, Sequences, SequencesExt

CONSTANTS
  PageSize,       \* PAGE_SIZE
  TablePages,     \* pages a page table maps
  MaxFrames,      \* PMM_MAX_FRAMES
  MaxRegions,     \* E820_MAX_ENTRIES
  Maps,           \* memory maps the firmware may report
  LowEnd,         \* end of low memory, 0x00100000
  KernelStart,    \* _kernel_start
  KernelEnd,      \* _kernel_end
  IdentityLimit,  \* IDENTITY_MAP_LIMIT
  FbStart,        \* start and end of the frame buffer as kmain computes them, in u32
  FbEnd           \*   and rounded to pages; equal when there is none to map

MaxBytes == MaxFrames * PageSize
Frames   == 0 .. MaxFrames - 1
NoFrame  == -1

\* Page numbers and directory slots of the virtual addresses kmain maps.
Pages == 0 .. Max({IdentityLimit, FbEnd, HeapStart + HeapSize}) \div PageSize
Slots == 0 .. Max(Pages) \div TablePages

Regions == [base : Nat, length : Nat, usable : BOOLEAN]

ASSUME MemoryAssumption ==
  /\ {PageSize, TablePages, MaxFrames, MaxRegions} \subseteq Nat \ {0}
  /\ {LowEnd, KernelStart, KernelEnd} \subseteq Nat
  /\ {IdentityLimit, FbStart, FbEnd, HeapStart, HeapSize} \subseteq
       {PageSize * k : k \in 0 .. WordSize \div PageSize}
  /\ Maps \subseteq Seq(Regions)

VARIABLES
  map,      \* the firmware's map
  phase,    \* how far kmain is
  bitmap,   \* frames whose bit in pmm_bitmap is set
  total,    \* pmm_total_bytes
  used,     \* pmm_used_bytes
  dir,      \* frame of the page directory
  tables,   \* frame of the page table in each slot of the directory
  pages,    \* frame each page is mapped to
  addr,     \* loop variable of paging_init_identity and the two loops after it
  taken     \* history: frames handed out to others after the boot

memVars == <<map, phase, bitmap, total, used, dir, tables, pages, addr, taken>>

-----------------------------------------------------------------------------
(* bootinfo_get_usable_regions.                                            *)

\* An entry that is kept, cut off at the end of the 32-bit address space.
Cut(e) ==
  [base |-> e.base,
   length |-> (IF e.base + e.length > WordSize THEN WordSize ELSE e.base + e.length) - e.base]

\* Base and length are of two words, and so is their sum.
Keep(e) ==
  /\ e.usable /\ e.length > 0 /\ e.base < WordSize
  /\ (e.base + e.length) % (WordSize * WordSize) > e.base

UsableRegions ==
  LET entries == SubSeq(map, 1, Min({Len(map), MaxRegions}))
      kept    == SelectSeq(entries, Keep)
  IN {Cut(kept[i]) : i \in 1 .. Len(kept)}

-----------------------------------------------------------------------------
(* pmm_init.                                                               *)

\* The end of a region as pmm_init computes it; the sum is a u32.
RegionEnd(r) == (r.base + r.length) % WordSize

\* The frames pmm_init finds in a region: whole pages counted from its base.
FramesOf(r) ==
  LET end == Min({RegionEnd(r), MaxBytes})
  IN IF RegionEnd(r) <= r.base \/ r.base >= MaxBytes THEN {}
     ELSE {f \in Frames : \E k \in 0 .. MaxFrames :
             /\ r.base + (k + 1) * PageSize <= end
             /\ f = (r.base + k * PageSize) \div PageSize}

\* reserve_range
FramesIn(start, end) ==
  {f \in Frames : start \div PageSize <= f /\ f < (end + PageSize - 1) \div PageSize}

\* What pmm_init reserves; the boot metadata lies in low memory.
Reserved == FramesIn(0, LowEnd) \union FramesIn(KernelStart, KernelEnd)

\* The frames pmm_init counts as memory.
Managed == UNION {FramesOf(r) : r \in UsableRegions}

-----------------------------------------------------------------------------
(* The boot.  Each loop of page mappings is a label of phase, one page a step. *)

MemTypeOK ==
  /\ map \in Maps
  /\ phase \in {"pmm", "dir", "identity", "fb", "heap", "up", "panic"}
  /\ bitmap \subseteq Frames
  /\ total \in Nat
  /\ used \in Nat
  /\ dir \in Frames \union {NoFrame}
  /\ tables \in [Slots -> Frames \union {NoFrame}]
  /\ pages \in [Pages -> Pages \union Frames \union {NoFrame}]
  /\ addr \in 0 .. WordSize
  /\ taken \subseteq Frames

MemInit ==
  /\ map \in Maps
  /\ phase = "pmm"
  /\ bitmap = Frames
  /\ total = 0
  /\ used = 0
  /\ dir = NoFrame
  /\ tables = [s \in Slots |-> NoFrame]
  /\ pages = [p \in Pages |-> NoFrame]
  /\ addr = 0
  /\ taken = {}

\* pmm_init: a frame counts as used when it is reserved after it was counted in.
PmmInit ==
  /\ phase = "pmm"
  /\ bitmap' = (Frames \ Managed) \union Reserved
  /\ total' = PageSize * Cardinality(Managed)
  /\ used' = PageSize * Cardinality(Managed \intersect Reserved)
  /\ phase' = IF Managed = {} THEN "panic" ELSE "dir"
  /\ UNCHANGED <<map, dir, tables, pages, addr, taken>>

\* Mutant: the search runs downwards.
LastFree(b) == IF Frames \ b = {} THEN NoFrame ELSE Max(Frames \ b)

\* The frame pmm_alloc_frame finds when the bits of b are set.
FirstFree(b) == IF Frames \ b = {} THEN NoFrame ELSE Min(Frames \ b)

\* The state of the allocator after the frames of new were taken one by one.
Taken(new) ==
  /\ bitmap' = bitmap \union new
  /\ used' = used + PageSize * Cardinality(new)
  /\ UNCHANGED total

Panic == phase' = "panic" /\ UNCHANGED <<map, bitmap, total, used, dir, tables, pages, addr, taken>>

\* paging_init_identity up to its loop.
PagingInit ==
  LET f == FirstFree(bitmap)
  IN /\ phase = "dir"
     /\ IF f = NoFrame THEN Panic
        ELSE /\ Taken({f})
             /\ dir' = f
             /\ phase' = "identity"
             /\ UNCHANGED <<map, tables, pages, addr, taken>>

\* paging_map_page of the page at addr to frame f, after the frames of new were
\* taken; a slot of the directory without a table takes one more.
MapPage(f, new) ==
  LET page  == addr \div PageSize
      slot  == page \div TablePages
      fresh == tables[slot] = NoFrame
      table == FirstFree(bitmap \union new)
  IN IF fresh /\ table = NoFrame THEN Panic
     ELSE /\ Taken(new \union (IF fresh THEN {table} ELSE {}))
          /\ tables' = IF fresh THEN [tables EXCEPT ![slot] = table] ELSE tables
          /\ pages' = [pages EXCEPT ![page] = f]
          /\ addr' = addr + PageSize
          /\ UNCHANGED <<map, phase, dir, taken>>

\* The end of a loop; the next one starts at address next.
Loop(label, end, after, next) ==
  /\ phase = label
  /\ addr >= end
  /\ phase' = after
  /\ addr' = next
  /\ UNCHANGED <<map, bitmap, total, used, dir, tables, pages, taken>>

\* The loop of paging_init_identity; when it is done paging is switched on.
IdentityStep ==
  \/ phase = "identity" /\ addr < IdentityLimit /\ MapPage(addr \div PageSize, {})
  \/ Loop("identity", IdentityLimit, "fb", FbStart)

\* map_graphics_framebuffer_if_needed: a frame buffer inside the identity map
\* needs no mapping.
FbNeeded == FbEnd > IdentityLimit

FbStep ==
  \/ phase = "fb" /\ FbNeeded /\ addr < FbEnd /\ MapPage(addr \div PageSize, {})
  \/ Loop("fb", IF FbNeeded THEN FbEnd ELSE 0, "heap", HeapStart)

\* Mutant: the frame behind a page of the heap is not marked.
HeapStepUnmarked ==
  \/ /\ phase = "heap"
     /\ addr < HeapStart + HeapSize
     /\ MapPage(FirstFree(bitmap), {})
  \/ Loop("heap", HeapStart + HeapSize, "up", 0)

\* heap_init: every page of the heap gets a frame of its own.
HeapStep ==
  LET f == FirstFree(bitmap)
  IN \/ /\ phase = "heap"
        /\ addr < HeapStart + HeapSize
        /\ IF f = NoFrame THEN Panic ELSE MapPage(f, {f})
     \/ Loop("heap", HeapStart + HeapSize, "up", 0)

\* pmm_alloc_frame and pmm_free_frame as the running kernel may call them.
AllocFrame ==
  LET f == FirstFree(bitmap)
  IN /\ phase = "up"
     /\ IF f = NoFrame THEN Panic
        ELSE /\ Taken({f})
             /\ taken' = taken \union {f}
             /\ UNCHANGED <<map, phase, dir, tables, pages, addr>>

FreeFrame(f) ==
  /\ phase = "up"
  /\ f \in taken
  /\ f \in bitmap
  /\ bitmap' = bitmap \ {f}
  /\ used' = IF used >= PageSize THEN used - PageSize ELSE used
  /\ taken' = taken \ {f}
  /\ UNCHANGED <<map, phase, total, dir, tables, pages, addr>>

MemNext ==
  \/ PmmInit \/ PagingInit \/ IdentityStep \/ FbStep \/ HeapStep
  \/ AllocFrame \/ \E f \in Frames : FreeFrame(f)

-----------------------------------------------------------------------------
(* Properties.                                                             *)

TableFrames == {tables[s] : s \in {s \in Slots : tables[s] # NoFrame}}

HeapPages == {p \in Pages : HeapStart <= p * PageSize /\ p * PageSize < HeapStart + HeapSize}

FreeBytesExact ==
  phase # "pmm" => total - used = PageSize * Cardinality(Frames \ bitmap)

FramesUsedOnce ==
  LET heap == {pages[p] : p \in HeapPages}
  IN /\ phase = "up" =>
          /\ \A p, q \in HeapPages : p # q => pages[p] # pages[q]
          /\ heap \intersect (TableFrames \union taken \union {dir}) = {}
     /\ \A s, t \in Slots : s # t /\ tables[s] # NoFrame => tables[s] # tables[t]
     /\ TableFrames \intersect (taken \union {dir}) = {}
     /\ dir \notin taken
     /\ TableFrames \union taken \union ({dir} \ {NoFrame}) \subseteq (Managed \ Reserved) \intersect bitmap

\* Every frame is accounted for.  The page directory, the page tables, the frames
\* behind the heap and those handed out later are all different, all marked in
\* the bitmap of pmm.c, and none belongs to the kernel image, to low memory or to
\* memory the firmware did not report; and what pmm_free_memory_bytes reports is
\* what can still be allocated, though three ranges were reserved that may
\* overlap each other and the holes of the map.
FramesAccounted == FreeBytesExact /\ FramesUsedOnce

\* paging.c writes page tables through their physical address, with paging on
\* too.  So once the identity map is there, the page of every table and of the
\* directory is mapped to itself, also while heap_init remaps a part of it.
TablesReachable ==
  phase \in {"fb", "heap", "up"} =>
    \A f \in TableFrames \union {dir} : f \in Pages /\ pages[f] = f

=============================================================================
