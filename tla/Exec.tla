--------------------------------- MODULE Exec ---------------------------------
(***************************************************************************)
(* The callers of the heap once the kernel runs: the program loader of     *)
(* src/exec/exec.c, behind the command exec, and the command alloc.  Each  *)
(* terminal runs one command at a time.  A command gives up the CPU only   *)
(* inside the loaded program, which may yield; until then no other         *)
(* terminal can run one.  What the file and the program contain is any     *)
(* choice: checks and copies of bytes are not modelled, their outcomes     *)
(* are.                                                                    *)
(***************************************************************************)
EXTENDS Heap

CONSTANTS
  Terminals,    \* terminals that run commands
  FileSizes,    \* sizes of the files one can try to run
  ImageSizes,   \* sizes of their images, from 1 to EXEC_IMAGE_LIMIT
  AllocA,       \* the two sizes cmd_alloc asks for
  AllocB

\* The bytes read_file_all asks for.
BufferSize(size) == IF size # 0 THEN size ELSE 1

ASSUME ExecAssumption ==
  {BufferSize(s) : s \in FileSizes} \union ImageSizes \union {AllocA, AllocB} \subseteq Requests \ {0}

VARIABLES
  at,       \* where the command of each terminal is
  open,     \* terminals whose loader holds a descriptor
  first,    \* file_data of exec, a of alloc
  second,   \* image of exec, b of alloc
  got,      \* what the last kmalloc returned
  lost      \* history: blocks whose last pointer alloc dropped

execVars == <<at, open, first, second, got, lost>>

ExecTypeOK ==
  /\ at \in [Terminals -> {"idle", "file", "check", "image", "run", "release",
                           "allocA", "allocB", "freeB"}]
  /\ open \subseteq Terminals
  /\ {first, second} \subseteq [Terminals -> Addrs \union {Null}]
  /\ got \in Addrs \union {Null}
  /\ lost \subseteq Addrs

ExecInit ==
  /\ at = [t \in Terminals |-> "idle"]
  /\ open = {}
  /\ first = [t \in Terminals |-> Null]
  /\ second = [t \in Terminals |-> Null]
  /\ got = Null
  /\ lost = {}

-----------------------------------------------------------------------------

\* A turn of the walk of kmalloc or kfree that is under way.
HeapTurn ==
  /\ Skip \/ Take \/ Merge
  /\ got' = IF Take THEN cur ELSE IF pc = "find" THEN Null ELSE got
  /\ UNCHANGED <<at, open, first, second, lost>>

\* No command is under way other than loaded programs.
Quiet == pc = "idle" /\ \A t \in Terminals : at[t] \in {"idle", "run"}

Goto(t, label) == at' = [at EXCEPT ![t] = label]

\* read_file_all up to its kmalloc, when the file can be opened.
ExecStart(t) ==
  /\ Quiet
  /\ at[t] = "idle"
  /\ \E size \in FileSizes : Kmalloc(BufferSize(size))
  /\ open' = open \union {t}
  /\ Goto(t, "file")
  /\ UNCHANGED <<first, second, got, lost>>

\* read_file_all to its end: no memory, a short read, or the whole file.
ReadFile(t) ==
  /\ at[t] = "file"
  /\ pc = "idle"
  /\ open' = open \ {t}
  /\ \/ got = Null /\ Goto(t, "idle") /\ UNCHANGED <<vars, first>>
     \/ got # Null /\ Kfree(got) /\ Goto(t, "idle") /\ UNCHANGED first
     \/ /\ got # Null
        /\ first' = [first EXCEPT ![t] = got]
        /\ Goto(t, "check")
        /\ UNCHANGED vars
  /\ UNCHANGED <<second, got, lost>>

\* kfree(file_data), the end of most paths through exec_run_elf.
FreeFirst(t, label) ==
  /\ Kfree(first[t])
  /\ first' = [first EXCEPT ![t] = Null]
  /\ Goto(t, label)

\* exec_run_elf from its checks of the file to the kmalloc of the image.
CheckFile(t) ==
  /\ at[t] = "check"
  /\ \/ FreeFirst(t, "idle")
     \/ (\E size \in ImageSizes : Kmalloc(size)) /\ Goto(t, "image") /\ UNCHANGED first
  /\ UNCHANGED <<open, second, got, lost>>

FreeSecond(t, label) ==
  /\ Kfree(second[t])
  /\ second' = [second EXCEPT ![t] = Null]
  /\ Goto(t, label)

\* Mutant: an entry outside the image ends the call with the image still held.
LoadImageForgets(t) ==
  /\ at[t] = "image"
  /\ pc = "idle"
  /\ IF got = Null
     THEN FreeFirst(t, "idle") /\ UNCHANGED second
     ELSE \/ FreeFirst(t, "idle") /\ UNCHANGED second
          \/ /\ second' = [second EXCEPT ![t] = got]
             /\ Goto(t, "run")
             /\ UNCHANGED <<vars, first>>
  /\ UNCHANGED <<open, got, lost>>

\* exec_run_elf up to the call of the program: no memory, an entry outside the
\* image, or the program starts.
LoadImage(t) ==
  /\ at[t] = "image"
  /\ pc = "idle"
  /\ \/ got = Null /\ FreeFirst(t, "idle") /\ UNCHANGED second
     \/ got # Null /\ Kfree(got) /\ Goto(t, "release") /\ UNCHANGED <<first, second>>
     \/ /\ got # Null
        /\ second' = [second EXCEPT ![t] = got]
        /\ Goto(t, "run")
        /\ UNCHANGED <<vars, first>>
  /\ UNCHANGED <<open, got, lost>>

\* The program returns, while others may be waiting inside theirs.
Returned(t) ==
  /\ Quiet
  /\ at[t] = "run"
  /\ FreeSecond(t, "release")
  /\ UNCHANGED <<open, first, got, lost>>

\* The kfree(file_data) behind kfree(image).
Release(t) ==
  /\ at[t] = "release"
  /\ FreeFirst(t, "idle")
  /\ UNCHANGED <<open, second, got, lost>>

-----------------------------------------------------------------------------
(* cmd_alloc                                                               *)

AllocStart(t) ==
  /\ Quiet
  /\ at[t] = "idle"
  /\ Kmalloc(AllocA)
  /\ Goto(t, "allocA")
  /\ UNCHANGED <<open, first, second, got, lost>>

AllocSecond(t) ==
  /\ at[t] = "allocA"
  /\ Kmalloc(AllocB)
  /\ first' = [first EXCEPT ![t] = got]
  /\ Goto(t, "allocB")
  /\ UNCHANGED <<open, second, got, lost>>

\* If one of the two failed, the other is not given back.
AllocTest(t) ==
  /\ at[t] = "allocB"
  /\ pc = "idle"
  /\ \/ /\ Null \in {first[t], got}
        /\ lost' = lost \union ({first[t], got} \ {Null})
        /\ first' = [first EXCEPT ![t] = Null]
        /\ Goto(t, "idle")
        /\ UNCHANGED <<vars, second>>
     \/ /\ Null \notin {first[t], got}
        /\ second' = [second EXCEPT ![t] = got]
        /\ FreeFirst(t, "freeB")
        /\ UNCHANGED lost
  /\ UNCHANGED <<open, got>>

AllocEnd(t) ==
  /\ at[t] = "freeB"
  /\ FreeSecond(t, "idle")
  /\ UNCHANGED <<open, first, got, lost>>

ExecNext ==
  \/ HeapTurn
  \/ \E t \in Terminals :
       \/ ExecStart(t) \/ ReadFile(t) \/ CheckFile(t) \/ LoadImage(t)
       \/ Returned(t) \/ Release(t)
       \/ AllocStart(t) \/ AllocSecond(t) \/ AllocTest(t) \/ AllocEnd(t)

-----------------------------------------------------------------------------

\* Whichever of its many paths exec_run_elf takes, with other programs loaded,
\* run and ended in between: the descriptor is closed, and the blocks in use are
\* exactly those of the programs that still run, two for each and none shared
\* (apart from the block the command alloc loses when its second one fails).
ExecReleases ==
  LET running == {t \in Terminals : at[t] = "run"}
  IN Quiet =>
       /\ open = {}
       /\ {b \in Addrs : held[b] # 0} =
            lost \union {first[t] : t \in running} \union {second[t] : t \in running}
       /\ \A t, u \in running : first[t] # second[u] /\ (t # u => first[t] # first[u] /\ second[t] # second[u])

=============================================================================
