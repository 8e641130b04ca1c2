---------------------------- MODULE SimpleFSStore ----------------------------
(***************************************************************************)
(* The sector-level filesystem of SimpleFS implements FileStore.  A write  *)
(* takes effect at the call: until its data loop is done, the mapping      *)
(* shows the file as it will be, the bytes of the buffer in their place    *)
(* and the rest where the copy loop takes them from.                       *)
(***************************************************************************)
EXTENDS SimpleFS

CONSTANT NoFile

Writing(i) == pc \in {"copy", "fill"} /\ i = job.id

EndOf(j) == j.off + Len(j.buf)

\* The size of file i, and its byte k, once the write in progress is done.
FinalSize(i) ==
  IF Writing(i) /\ EndOf(job) > entries[i].size THEN EndOf(job) ELSE entries[i].size

FinalByte(i, k) ==
  LET at(base) == data[base + k \div SectorSize][k % SectorSize]
  IN IF Writing(i) /\ job.off <= k /\ k < EndOf(job) THEN job.buf[k - job.off + 1]
     ELSE IF pc = "copy" /\ Writing(i) /\ k \div SectorSize >= entries[i].cap
          THEN at(nextFree)
          ELSE at(entries[i].start)

\* What a mount would find.
DiskByte(i, k) == data[dTable[i].start + k \div SectorSize][k % SectorSize]

DiskContents ==
  [i \in Ids |-> IF IsFile(dTable, i)
                 THEN [k \in 1 .. dTable[i].size |-> DiskByte(i, k - 1)]
                 ELSE NoFile]

Contents ==
  IF pc = "off" THEN DiskContents
  ELSE [i \in Ids |-> IF IsFile(entries, i)
                      THEN [k \in 1 .. FinalSize(i) |-> FinalByte(i, k - 1)]
                      ELSE NoFile]

Store == INSTANCE FileStore WITH Nodes <- Ids, files <- Contents, stored <- DiskContents

\* On a disk that neither fails nor fills up, every call of simplefs.c changes
\* the contents of the file it names, as simplefs.h says, and of no other: the
\* copy loop of a growing file, the partial first and last sectors of a write
\* and the reuse of a truncated file's sectors never show.  A crash undoes at
\* most the call it interrupts, or leaves the old file with some of its bytes
\* overwritten by that call; no sector of another time ever shows.
ImplementsFileStore == Store!Spec
=============================================================================
