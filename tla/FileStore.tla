------------------------------ MODULE FileStore ------------------------------
(***************************************************************************)
(* What simplefs.h promises of file contents: a store of files, each a     *)
(* finite array of bytes, that create, remove, truncate and write change   *)
(* one file at a time and in one step.  The change reaches the disk before *)
(* the next call begins, byte by byte if need be; a crash falls back to    *)
(* what is there.                                                          *)
(***************************************************************************)
EXTENDS Integers, Sequences

CONSTANTS Nodes, Bytes, Offsets, Bufs, NoFile

VARIABLES
  files,   \* the contents of every node, NoFile where there is no file
  stored   \* the contents a crash would leave

\* What a file may hold after buf was written at off: the buffer where it was
\* written, the old bytes elsewhere, and any bytes in a gap between the old
\* end and off, which simplefs.c does not clear.
Overwritten(f, off, buf) ==
  LET size == IF off + Len(buf) > Len(f) THEN off + Len(buf) ELSE Len(f)
  IN {g \in [1 .. size -> Bytes] :
        \A k \in 1 .. size :
          /\ k > off /\ k <= off + Len(buf) => g[k] = buf[k - off]
          /\ k <= Len(f) /\ (k <= off \/ k > off + Len(buf)) => g[k] = f[k]}

\* On its way from f to g the disk may hold h: bytes of g are in place before the
\* file has the size of g.
Between(f, g, h) ==
  \/ h = g
  \/ /\ NoFile \notin {f, g, h}
     /\ Len(h) = Len(f)
     /\ \A k \in 1 .. Len(f) : h[k] = f[k] \/ (k <= Len(g) /\ h[k] = g[k])

Init == files = [i \in Nodes |-> NoFile] /\ stored = files

Create(i) == files[i] = NoFile /\ files' = [files EXCEPT ![i] = <<>>]

Remove(i) == files[i] # NoFile /\ files' = [files EXCEPT ![i] = NoFile]

Truncate(i) == files[i] # NoFile /\ files' = [files EXCEPT ![i] = <<>>]

Write(i, off, buf) ==
  /\ files[i] # NoFile
  /\ \E g \in Overwritten(files[i], off, buf) : files' = [files EXCEPT ![i] = g]

\* A call begins when all that the last one did is stored.
Call ==
  /\ stored = files
  /\ \E i \in Nodes : \/ Create(i) \/ Remove(i) \/ Truncate(i)
                      \/ \E off \in Offsets, buf \in Bufs : Write(i, off, buf)
  /\ UNCHANGED stored

Persist ==
  /\ \A i \in Nodes : stored'[i] = stored[i] \/ Between(stored[i], files[i], stored'[i])
  /\ UNCHANGED files

Crash == files' = stored /\ UNCHANGED stored

Next == Call \/ Persist \/ Crash

Spec == Init /\ [][Next]_<<files, stored>>
=============================================================================
