-------------------------------- MODULE Shell --------------------------------
(***************************************************************************)
(* The file commands of src/core/commands.c, each the sequence of vfs.c    *)
(* calls it makes, issued by the CLI tasks of several terminals.  A        *)
(* command is never preempted (only cli_run and the keyboard reads call    *)
(* the scheduler), so one runs at a time and cmd is its progress.          *)
(***************************************************************************)
EXTENDS VFS

CONSTANTS
  Names,        \* commands that are given
  Paths,        \* paths that are given
  Texts,        \* texts given to the command write
  ChunkSize     \* bytes cat and copy_file read at a time

ASSUME ShellAssumption ==
  /\ Names \subseteq {"mkdir", "rm", "cd", "touch", "write", "cat", "cp", "mv"}
  /\ Paths \subseteq Path
  /\ Texts \subseteq Seq(Bytes) \ {<<>>}
  /\ ChunkSize \in Nat \ {0}
  /\ 0 \in Terminals   \* g_vfs_ctx[0], which tasks without a terminal use

VARIABLE cmd   \* the current or, at pc "idle", the last command

vars == <<vfsVars, cmd>>

\* What a read may yield.
Chunks == UNION {[1 .. n -> Bytes] : n \in 0 .. ChunkSize}

NoPath == [abs |-> TRUE, comps |-> <<>>, slash |-> FALSE]

\* saved is a history component: what the source held when the command began, if
\* the target is another file.
NoCmd ==
  [t |-> 0, name |-> "none", pc |-> "idle", src |-> NoPath, dst |-> NoPath,
   in |-> NoFd, out |-> NoFd, buf |-> <<>>, saved |-> {}, ok |-> FALSE]

Command ==
  [t : Terminals, name : Names \union {"none"},
   pc : {"idle", "dst", "read", "write", "close", "unlink"},
   src : Paths \union {NoPath}, dst : Paths \union {NoPath},
   in : Fds \union {NoFd}, out : Fds \union {NoFd}, buf : Seq(Bytes),
   saved : SUBSET Seq(Bytes), ok : BOOLEAN]

TypeOK == VfsTypeOK /\ cmd \in Command

Init == VfsInit /\ cmd = NoCmd

\* The prompt of some terminal takes a command.
Given(name) == cmd.pc = "idle" /\ name \in Names

\* The command ends; of mv its history stays until the next one.
End ==
  cmd' = IF cmd.name = "mv" THEN [NoCmd EXCEPT !.name = "mv", !.saved = cmd.saved] ELSE NoCmd

\* The command goes on at pc.
Goto(pc) == cmd' = [cmd EXCEPT !.pc = pc]

\* mkdir, rm and cd are one call each.
CmdMkdir(t, p) ==
  Given("mkdir") /\ \E ok \in BOOLEAN :
    Mkdir(t, p, ok) /\ cmd' = NoCmd

CmdRm(t, p) ==
  Given("rm") /\ \E ok \in BOOLEAN :
    RemovePath(t, p, ok) /\ cmd' = NoCmd

CmdCd(t, p) ==
  Given("cd") /\ \E ok \in BOOLEAN :
    Chdir(t, p, ok) /\ cmd' = NoCmd

\* touch and write open their file as in, for lack of another name.
CmdTouch(t, p) ==
  Given("touch") /\ \E fd \in Fds \union {NoFd} :
    /\ Open(t, p, {"write", "create"}, fd)
    /\ cmd' = IF fd = NoFd THEN NoCmd
              ELSE [NoCmd EXCEPT !.t = t, !.name = "touch", !.in = fd, !.pc = "close"]

CmdWrite(t, p, text) ==
  Given("write") /\ \E fd \in Fds \union {NoFd} :
    /\ Open(t, p, {"write", "create", "trunc"}, fd)
    /\ cmd' = IF fd = NoFd THEN NoCmd
              ELSE [NoCmd EXCEPT !.t = t, !.name = "write", !.out = fd,
                                 !.pc = "write", !.buf = text]

\* cat opens its file; cp and mv open the source here and the target in OpenDst.
CmdCat(t, p) ==
  Given("cat") /\ \E fd \in Fds \union {NoFd} :
    /\ Open(t, p, {"read"}, fd)
    /\ cmd' = IF fd = NoFd THEN NoCmd
              ELSE [NoCmd EXCEPT !.t = t, !.name = "cat", !.in = fd, !.pc = "read"]

CmdCopy(t, name, src, dst) ==
  LET id == Resolve(nodes, cwd[t], src)
  IN /\ Given(name)
     /\ \E fd \in Fds \union {NoFd} :
          /\ Open(t, src, {"read"}, fd)
          /\ cmd' = IF fd = NoFd THEN NoCmd
                    ELSE [NoCmd EXCEPT !.t = t, !.name = name, !.src = src, !.dst = dst,
                            !.in = fd, !.pc = "dst",
                            !.saved = IF IsFile(nodes, id) /\ id # Resolve(nodes, cwd[t], dst)
                                      THEN {files[id]} ELSE {}]

\* Mutant: the source stays open when the target cannot be opened.
OpenDstLeaks ==
  /\ cmd.pc = "dst"
  /\ \E fd \in Fds \union {NoFd} :
       /\ Open(cmd.t, cmd.dst, {"write", "create", "trunc"}, fd)
       /\ cmd' = [cmd EXCEPT !.out = fd, !.pc = IF fd = NoFd THEN "idle" ELSE "read"]

\* copy_file: the target; without it the source is closed and the copy fails.
OpenDst ==
  /\ cmd.pc = "dst"
  /\ \E fd \in Fds \union {NoFd} :
       /\ Open(cmd.t, cmd.dst, {"write", "create", "trunc"}, fd)
       /\ cmd' = [cmd EXCEPT !.out = fd, !.pc = IF fd = NoFd THEN "close" ELSE "read"]

\* One turn of the loops of cat and copy_file: nothing read ends them.
ReadChunk ==
  /\ cmd.pc = "read"
  /\ \E chunk \in Chunks :
       /\ Read(cmd.in, ChunkSize, chunk)
       /\ cmd' = [cmd EXCEPT
            !.buf = chunk,
            !.ok = chunk = <<>>,
            !.pc = IF chunk = <<>> THEN "close" ELSE IF cmd.name = "cat" THEN "read" ELSE "write"]

WriteChunk ==
  /\ cmd.pc = "write"
  /\ \E ok \in BOOLEAN :
       /\ Write(cmd.out, cmd.buf, ok)
       /\ cmd' = [cmd EXCEPT !.ok = ok,
                             !.pc = IF ok /\ cmd.name # "write" THEN "read" ELSE "close"]

\* Mutant: mv does not look at what copy_file returned.
CloseAllUnchecked ==
  /\ cmd.pc = "close"
  /\ Close({cmd.in, cmd.out})
  /\ IF cmd.name = "mv" THEN Goto("unlink") ELSE End

\* The closes at the end; a copy that succeeded is followed by mv's removal.
CloseAll ==
  /\ cmd.pc = "close"
  /\ Close({cmd.in, cmd.out})
  /\ IF cmd.name = "mv" /\ cmd.ok THEN Goto("unlink") ELSE End

\* mv removes the source by its path; a failure is only reported.
Unlink ==
  /\ cmd.pc = "unlink"
  /\ \E ok \in BOOLEAN : RemovePath(cmd.t, cmd.src, ok)
  /\ End

Next ==
  \/ \E t \in Terminals, p \in Paths :
       \/ CmdMkdir(t, p) \/ CmdRm(t, p) \/ CmdCd(t, p) \/ CmdTouch(t, p) \/ CmdCat(t, p)
       \/ \E text \in Texts : CmdWrite(t, p, text)
       \/ \E name \in {"cp", "mv"}, dst \in Paths : CmdCopy(t, name, p, dst)
  \/ OpenDst \/ ReadChunk \/ WriteChunk \/ CloseAll \/ Unlink

Spec == Init /\ [][Next]_vars

\* A command is straight-line code that no other task interrupts.
CmdStep == OpenDst \/ ReadChunk \/ WriteChunk \/ CloseAll \/ Unlink

FairSpec == Spec /\ WF_vars(CmdStep)

-----------------------------------------------------------------------------
(* Properties.                                                             *)

\* Every command closes the descriptors it opened, on its error paths too: none
\* is in use when the prompt is back, so the table of vfs.c never fills up.
NoFdLeak == cmd.pc = "idle" => \A f \in Fds : ~fds[f].used

\* Commands end: the loops of cat and copy_file reach the end of the file they
\* read while copy_file makes another one grow.
CommandsEnd == cmd.pc # "idle" ~> cmd.pc = "idle"

\* docs/api/commands.md says of mv "Move/rename file": at no moment of an mv of
\* a file to another place, nor after it, are the contents gone from every file,
\* whatever step of the copy fails and whatever the target was.  (A file moved
\* onto itself is emptied by the truncating open and then removed.)
MoveKeepsContents ==
  cmd.name = "mv" =>
    \A bytes \in cmd.saved : \E i \in Ids : IsFile(nodes, i) /\ files[i] = bytes

\* The working directory of every terminal is a directory.
CwdsLive == \A t \in Terminals : nodes[cwd[t]].used /\ nodes[cwd[t]].type = "dir"

\* As long as every terminal is in a live directory, no call of any terminal
\* breaks the tree of directories, whatever dots and slashes its path has.
TreeKeptWhileCwdsLive == [][CwdsLive /\ TreeOK(nodes) => TreeOK(nodes')]_vars

=============================================================================
