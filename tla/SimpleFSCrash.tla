---------------------------- MODULE SimpleFSCrash ----------------------------
(***************************************************************************)
(* What a crash leaves of the directory tree of simplefs.c.  A flush that  *)
(* fails leaves the disk behind the memory by one call, and the next flush *)
(* then carries the changes of several calls.                              *)
(***************************************************************************)
EXTENDS SimpleFS

VARIABLE behind   \* history: a flush has failed

FlushFails == pc = "flush" /\ pc' = "idle" /\ ret' = "fail"

CrashInit == Init /\ behind = FALSE

CrashNext == Next /\ behind' = (behind \/ FlushFails)

CrashSpec == CrashInit /\ [][CrashNext]_<<vars, behind>>

\* Until a flush has failed, the table on the disk is a tree of directories
\* wherever the power fails and whatever data sectors fail: no call of simplefs.c
\* changes two slots at once, so every prefix of the sector writes of sfs_flush is
\* a complete table.
CrashLeavesTree == ~behind => TreeOK(dTable)

=============================================================================
