--------------------------------- MODULE VFS ---------------------------------
(***************************************************************************)
(* The file API of src/fs/vfs.c: descriptors, and a working directory per  *)
(* terminal, on top of the node table of simplefs.c.  A call runs to its   *)
(* end before any other task gets the CPU, so each is one action; what the *)
(* sectors do meanwhile is the subject of SimpleFS.  An I/O error shows    *)
(* here as it does there: the table in memory has changed, the call fails. *)
(***************************************************************************)
EXTENDS SfsNames

CONSTANTS
  Terminals,     \* terminal sessions
  MaxFds,        \* VFS_MAX_FDS
  Bytes,         \* byte values callers write
  WriteErrors,   \* may a sector write fail?
  ReadErrors     \* may a sector read fail?

ASSUME VfsAssumption ==
  /\ MaxFds \in Nat \ {0}
  /\ WriteErrors \in BOOLEAN
  /\ ReadErrors \in BOOLEAN

VARIABLES
  nodes,     \* g_entries; extents and sizes are left to SimpleFS
  files,     \* the bytes of every file, <<>> elsewhere
  fds,       \* g_fds
  cwd        \* g_vfs_ctx[].cwd

vfsVars == <<nodes, files, fds, cwd>>

Fds   == 0 .. MaxFds - 1
NoFd  == -1
Flags == {"read", "write", "create", "trunc"}

ClosedFd == [used |-> FALSE, node |-> Root, off |-> 0, flags |-> {}]

VfsTypeOK ==
  /\ nodes \in [Ids -> Entry]
  /\ files \in [Ids -> Seq(Bytes)]
  /\ fds \in [Fds -> [used : BOOLEAN, node : Ids, off : Nat, flags : SUBSET Flags]]
  /\ cwd \in [Terminals -> Ids]

\* vfs_init on a formatted disk.
VfsInit ==
  /\ nodes = FormattedTable
  /\ files = [i \in Ids |-> <<>>]
  /\ fds = [f \in Fds |-> ClosedFd]
  /\ cwd = [t \in Terminals |-> Root]

\* The descriptor vfs_open takes: the lowest free one.
FreeFd == IF \E f \in Fds : ~fds[f].used THEN Min({f \in Fds : ~fds[f].used}) ELSE NoFd

\* The table after sfs_create of a node at p.
Created(t, p, type) ==
  LET target == CreateTarget(nodes, cwd[t], p)
  IN [nodes EXCEPT ![CreateSlot(nodes, cwd[t], p)] =
        NewEntry(target.dir, type, target.name)]

\* The part of vfs_open after the node is known: truncate, take a descriptor.
OpenNode(id, flags, fd) ==
  LET file  == IsFile(nodes', id)
      trunc == "trunc" \in flags
      empty == [files EXCEPT ![id] = <<>>]
  IN \/ /\ trunc
        /\ fd = NoFd
        /\ \/ ~file /\ UNCHANGED files
           \/ file /\ WriteErrors /\ files' = empty
        /\ UNCHANGED fds
     \/ /\ trunc => file
        /\ files' = IF trunc THEN empty ELSE files
        /\ fd = FreeFd
        /\ fds' = IF fd = NoFd THEN fds
                  ELSE [fds EXCEPT ![fd] =
                          [used |-> TRUE, node |-> id, off |-> 0, flags |-> flags]]

\* vfs_open by terminal t; it returns fd.
Open(t, p, flags, fd) ==
  LET found == Resolve(nodes, cwd[t], p)
      slot  == IF "create" \in flags THEN CreateSlot(nodes, cwd[t], p) ELSE NoNode
  IN /\ \/ found # NoNode /\ UNCHANGED nodes /\ OpenNode(found, flags, fd)
        \/ /\ found = NoNode /\ slot # NoNode
           /\ nodes' = Created(t, p, "file")
           /\ \/ OpenNode(slot, flags, fd)
              \/ WriteErrors /\ fd = NoFd /\ UNCHANGED <<files, fds>>
        \/ found = NoNode /\ slot = NoNode /\ fd = NoFd /\ UNCHANGED <<nodes, files, fds>>
     /\ UNCHANGED cwd

\* Mutant: the offset of the descriptor stays where it is.
ReadNoAdvance(fd, len, chunk) ==
  /\ chunk = SubSeq(files[fds[fd].node], 1, Min({len, Len(files[fds[fd].node])}))
  /\ UNCHANGED vfsVars

\* vfs_read of at most len bytes; it yields chunk, empty at the end of the file,
\* for a directory and on an error.
Read(fd, len, chunk) ==
  LET f    == fds[fd]
      rest == SubSeq(files[f.node], f.off + 1, Min({f.off + len, Len(files[f.node])}))
  IN /\ f.used /\ "read" \in f.flags
     /\ \/ chunk = IF IsFile(nodes, f.node) THEN rest ELSE <<>>
        \/ ReadErrors /\ chunk = <<>>
     /\ fds' = [fds EXCEPT ![fd].off = @ + Len(chunk)]
     /\ UNCHANGED <<nodes, files, cwd>>

\* vfs_write of buf at the offset, which is never past the end here; ok tells
\* whether it returns the length of the buffer or 0.  A write that fails in the
\* middle has replaced k bytes but not grown the file.  What sfs_write zeroes around them
\* when it cannot read their sector is left to SimpleFS.
Write(fd, buf, ok) ==
  LET f          == fds[fd]
      old        == files[f.node]
      written(k) == SubSeq(old, 1, f.off) \o SubSeq(buf, 1, k)
                    \o SubSeq(old, f.off + k + 1, Len(old))
  IN /\ f.used /\ "write" \in f.flags
     /\ \/ /\ IsFile(nodes, f.node)
           /\ files' = [files EXCEPT ![f.node] = written(Len(buf))]
           /\ ok \/ WriteErrors
        \/ /\ IsFile(nodes, f.node) /\ ~ok
           /\ WriteErrors \/ ReadErrors
           /\ \E k \in 0 .. Len(buf) :
                files' = [files EXCEPT ![f.node] = SubSeq(written(k), 1, Len(old))]
        \/ ~IsFile(nodes, f.node) /\ ~ok /\ UNCHANGED files
     /\ fds' = IF ok THEN [fds EXCEPT ![fd].off = @ + Len(buf)] ELSE fds
     /\ UNCHANGED <<nodes, cwd>>

\* vfs_close of the descriptors in fs.  The code resets only used; the rest is
\* never read again before vfs_open sets it.
Close(fs) ==
  /\ fds' = [f \in Fds |-> IF f \in fs THEN ClosedFd ELSE fds[f]]
  /\ UNCHANGED <<nodes, files, cwd>>

\* vfs_mkdir
Mkdir(t, p, ok) ==
  /\ IF CreateSlot(nodes, cwd[t], p) = NoNode
     THEN ~ok /\ UNCHANGED nodes
     ELSE nodes' = Created(t, p, "dir") /\ (ok \/ WriteErrors)
  /\ UNCHANGED <<files, fds, cwd>>

\* vfs_remove
RemovePath(t, p, ok) ==
  LET id == RemoveSlot(nodes, cwd[t], p)
  IN /\ IF id = NoNode
        THEN ~ok /\ UNCHANGED <<nodes, files>>
        ELSE /\ nodes' = [nodes EXCEPT ![id] = FreeEntry]
             /\ files' = [files EXCEPT ![id] = <<>>]
             /\ ok \/ WriteErrors
     /\ UNCHANGED <<fds, cwd>>

\* vfs_chdir.  The text of the path it keeps for the prompt is left out.
Chdir(t, p, ok) ==
  LET id == Resolve(nodes, cwd[t], p)
  IN /\ ok = (id # NoNode /\ nodes[id].used /\ nodes[id].type = "dir")
     /\ cwd' = IF ok THEN [cwd EXCEPT ![t] = id] ELSE cwd
     /\ UNCHANGED <<nodes, files, fds>>
=============================================================================
