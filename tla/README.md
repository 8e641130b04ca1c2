# TLA+ specifications of VertexOS

VertexOS is a small 32-bit x86 kernel: a boot loader, physical and virtual
memory, a heap, a cooperative round-robin scheduler, keyboard, mouse, timer, disk
and network drivers, a file system with a VFS on top, a graphical desktop with
several terminals, a shell with an editor and an HTTP client, and a loader for
ELF programs.  The modules here describe the parts of it whose correctness depends
on the order of steps: what a crash leaves on the disk, what an interrupt finds,
what a late packet does, what a long sequence of calls leads to.

All paths below are relative to the root of the repository.  `PROJECT.json` maps
every definition that models code to its lines and lists the runs, the mutants
that show each property can fail, the hazards and the theorems.

To check: `tlc -config MCMemory.cfg MCMemory` (module and configuration of every run
are in the table of runs), `tlapm ShellProofs.tla` for proofs.


## 1. Inventory

| Part | State it keeps | Operations | What makes it correct |
|---|---|---|---|
| SimpleFS (`src/fs/simplefs.c`) | superblock with a bump pointer, node table, both in memory and on the disk | `sfs_init`, `sfs_create`, `sfs_remove`, `sfs_write`, `sfs_truncate`, `sfs_read`, lookups, `sfs_flush` | files never share sectors, in memory or after a crash; success means durable; a call changes only its own file |
| Block device, ATA (`src/drivers/blockdev.c`, `ata.c`) | registered device | read or write one sector | reports failure when a transfer failed |
| VFS (`src/fs/vfs.c`) | 16 descriptors for all terminals, a working directory, its text and an environment per terminal | open, read, write, close, mkdir, remove, chdir, list, stat, getenv, setenv, unsetenv | offsets advance by what was moved; descriptors are returned |
| Commands (`src/core/commands.c`) | none of their own | file, network, heap, task and display commands | close what they open, on error paths too; do not lose data |
| Scheduler (`src/task/scheduler.c`) | task table, current task, ticks, preemption flag | create, start, yield, tick, maybe_preempt, exit | one running task, no starvation, the dead stay dead |
| Interrupts, system calls (`src/drivers/interrupts.c`, `src/task/syscall.c`, `boot/interrupts.asm`) | interrupt flag of the CPU | timer, keyboard and mouse handler, the `int 0x80` gate | the flag is restored on every path |
| Keyboard (`src/drivers/keyboard.c`) | 0xE0 and shift state, a ring per terminal and one for the system | decode, push, try-read, blocking read | bounded queues; no key is lost below the bound or left unread |
| Terminal tasks (`src/core/cli.c`, `kernel.c`) | a line, a history per terminal | read a key, edit, complete, run a command | every terminal keeps responding |
| Heap (`src/mem/heap.c`) | linked list of blocks in the arena | `heap_init`, `kmalloc`, `kfree` | blocks tile the arena; what is held is disjoint and large enough; nothing leaks |
| Physical memory, paging (`src/mem/bootinfo.c`, `pmm.c`, `paging.c`) | filtered memory map, frame bitmap, counters, page directory and tables | init, allocate, free, map a page | exact counters, no frame used twice, tables stay reachable |
| Network (`src/drivers/net.c`) | ARP cache, lease, and one pending DHCP, DNS, ping and TCP exchange | DHCP, ping, DNS, HTTP GET; handlers of ARP, UDP, ICMP and TCP frames | answers belong to their question; a body is a prefix of what was sent; calls return |
| Editor (`src/core/editor.c`) | one buffer, cursor, view and drawing cache for all terminals | insert, delete, move, load, save, save as, quit dialogues, incremental redraw | the screen shows the buffer; clean means saved; quitting asks |
| Network card (`src/drivers/rtl8139.c`) | receive ring offset, transmit slot | transmit, poll | every frame is delivered once |
| Desktop (`src/video/display.c`, `gui.c`) | window order, focus, drag, terminal text, process manager selection | mouse events, open, close, switch, draw | focus is a visible terminal; an action hits the window it was chosen for |
| Program loader (`src/exec/exec.c`, `userland.c`) | none after a call | load, validate, run | buffers are released on every path |
| Mouse (`src/drivers/mouse.c`) | packet index and bytes | assemble a packet | stays in step with the device |
| Frame buffer, text screen, fonts | pixels | draw | (pure output) |
| Serial, RTC, PCI, power, panic | device registers | port I/O | (pure I/O) |
| Boot loader (`boot/`) | | real-mode set-up | (before the kernel) |

**How the parts interact.**  `kmain` initialises them in a fixed order, creates
one terminal session and one CLI task per terminal and an idle task, and starts
the scheduler.  A CLI task reads keys from the ring of its own terminal; the
keyboard interrupt puts a key into the ring of the *focused* terminal, which a
mouse click may change.  Commands call the VFS, the VFS calls SimpleFS, SimpleFS
calls the block device.  Network calls poll the card, and so does the idle task;
a frame handler may transmit, which may resolve an address, which polls again.

**Where concurrency comes from.**  One CPU.  Tasks change hands only in
`scheduler_yield`, which is called by the blocking keyboard reads, by
`scheduler_maybe_preempt` at those points, by the `yield` command and by the
system call: preemption is cooperative (the timer only sets a flag).  Nothing in
the file system, the network calls or a command yields.  So

* a file system call, a command or a network call is a sequence of steps that no
  other task interrupts, but that a crash, a failing sector or a late frame may;
* interrupts come between any two steps of tasks.  The timer changes the tick counter and
  the preemption flag, the keyboard interrupt the decoder, a ring and the focus; the mouse
  interrupt handles the whole event: it changes `g_windows` (the order of the windows, which
  are visible, where they are and how large), the focus, the start menu, the selection
  of the process manager, and it redraws the screen, perhaps in the middle of a redraw;
* between two commands or two keys other terminals do as they like: working
  directories, files and the editor's buffer may be different when a terminal gets
  the CPU back;
* `context_switch` saves no EFLAGS, so the interrupt flag belongs to the CPU and
  follows it from task to task.

**What is hard.**  Crashes and torn writes between the sectors of a flush; errors
half-way through a relocation; a wake-up that arrives between `sti` and `hlt`; a
yield with interrupts off; packets that are lost, repeated, late or reordered, and
sequence numbers that wrap; a card that writes its ring while the driver reads it, and
polls inside polls; arithmetic that wraps in the heap; memory maps with holes; error
paths that must give back what they hold; two terminals in one editor buffer; clicks in
the middle of a redraw or of a swap of two windows, indices of windows that move, and
other cached drawing state.  The `hazards`
of `PROJECT.json` list these one by one, each at its line.


## 2. Modules

```
SfsNames ----> SimpleFS ---+--> SimpleFSStore --(implements)--> FileStore
   |                       |         +--> SimpleFSProofs
   |                       +--> SimpleFSCrash --^
   +--------> VFS ----> Shell ----> ShellProofs

Scheduler --+
Keyboard ---+--> Console ----> ConsoleProofs
   |
   +--(implements)--> KeyQueue

Heap --+--> Memory --+
       +--> Exec ----+> KernelMemory ---> KernelMemoryProofs --(implements)--> Heap

Terminal ----> Cli --------> ConsoleProofs

Desktop ----> DesktopProofs      Net ----> NetProofs
Nic --------> NicProofs          Editor -> EditorProofs
```

`MC*` modules give the larger constants of an instance; a configuration without
an MC module runs the specification itself.

### SfsNames, SimpleFS, FileStore, SimpleFSStore

`SfsNames` has what `simplefs.c` and `vfs.c` share: node table entries, path
resolution with `.`, `..`, repeated and trailing slashes (`sfs_lookup`,
`sfs_parent_and_leaf`), the first free slot, and `TreeOK`.  A path is a record of
an absolute flag, its components and whether it ends in a slash.

`SimpleFS` works at the grain of one sector transfer.  `entries` and `nextFree` are
the memory image, `dSuper`, `dTable` and `dData` the disk.  `pc` and `job` are the
position and the locals of the current call.  `Mount` and `Format` are `sfs_load`
and `sfs_format` of `sfs_init`; `CreateIn`, `RemoveIn`, `Truncate` and `Write`
change the memory image and start a flush, a relocation or a data loop; `CopySector`
and `Relocate` are the relocation loop of `sfs_write`, `FillSector` its
read-modify-write loop, `SetSize` the update after it, `FlushSuper` and `FlushTable`
are `sfs_flush`.  A transfer succeeds, fails with the sector unchanged, or fails
with the sector changed, as `ata.c` can return 0 before or after the data went out.
`Crash` may strike between any two transfers and forgets the memory image.
`SimpleFSCrash` adds the history variable `behind`: a flush has failed, so that the disk
is behind the memory image by more than the call under way.

`FileStore` is what callers may expect: a set of files with byte sequences, where a
write replaces the bytes it covers and extends the file.  Bytes between the old end
and the offset are left unspecified, because `sfs_write` does not clear them.  Each call
is stored before the next begins, and a crash falls back to what is stored: the old file,
the new one, or the old one with some of its bytes already overwritten.  `SimpleFSStore`
gives the refinement mapping: the contents of a file are read through
its extent, and a write takes effect when the memory image changes, with the bytes
still to be copied or filled counted as written; what is stored is read through the table
on the disk.

### VFS, Shell

`VFS` has the descriptors and working directories, one operator per call, on the node
table of `SfsNames` and the bytes of every file; extents are left to `SimpleFS`.
`Shell` gives `mkdir`, `rm`, `cd`, `touch`, `write`, `cat`, `cp` and `mv` as the
sequences of calls `commands.c` makes, with every error path, for several
terminals.

### Scheduler, Keyboard, KeyQueue, Console

`Scheduler` has the task table, `PickNext` (round robin starting after the current
task), `Yield`, `OnTick`, `MaybePreempt`, `Exit`.  `Keyboard` has the decoder and the
rings as arrays with head and tail; `KeyQueue` is the abstract bounded queue that
drops what does not fit.  `Console` composes both with the CPU: interrupt flag,
`hlt`, and for every task the place where it continues (`try`, `poll`, `halt`,
`run`, `iret`).  `ReadKey`, `Poll` and `Halt` are the loop of `keyboard_read_key`,
`Run` what the task does with a key, `Syscall` and `Iret` the gate.  `latest`, the last
scancode, is history, to say what the decoder may remember from one interrupt to the next.

### Heap, Memory, Exec, KernelMemory

`Heap`: `mem` holds the header at every address, so that a header written in the wrong
place is visible.  `kmalloc` and `kfree` are one step per visited block (`Skip`, `Take`,
`Merge`); sizes wrap at `WordSize`.  `blocks`, `held` and `asked` are history.

`Memory` is the boot in the order of `kmain`: filter the firmware's map, `PmmInit`,
`PagingInit`, then the three mapping loops one page at a time, each of which may need a
new page table, and afterwards allocation and release of frames in any order.

`Exec` has the callers of the heap in a running kernel: `exec_run_elf` with
`read_file_all`, and `cmd_alloc`.  `at` is where the command of each terminal is, `first`
and `second` are its two pointers, `open` tells whose loader holds a descriptor.  What the
checks of the file decide is any choice, so that every path is taken.  A command holds
the CPU from its start to its end except inside the loaded program, which may yield
(`run`); there the loaders of other terminals take turns.

`KernelMemory` composes them: the boot of `Memory`, and, once it has come as far as
`heap_init`, the callers of `Exec` on the heap it left.

### Net

One call at a time (`call`), the ARP cache, the lease, and the pending DHCP, DNS,
ping and TCP exchange.  `sent` is everything that was ever sent; what a handler
receives is anything the peers can have answered to it.  That covers loss, repetition,
delay and reordering without a queue.  A TCP segment is any piece of the answer that
starts anywhere, with or without FIN.  A waiting loop may be left at any moment, as
its time may be over.  Requests are told apart by `clock`, which stands for what the
code derives from `pit_get_ticks`: two calls never start at the same tick.

### Editor

`ed` is `g_ed`, shared by all terminals; `screen` is what each terminal shows.  A step
is what the editor does from one key to the next, the redraw included.  `intact`
and `Editing` restrict the properties to the cases in which they can be expected
(below).


### Nic

The driver of the RTL8139 and, as far as the driver depends on it, the card.  `ring`
holds for every word of the receive ring which frame and which part of it lies there, so
that a frame read from the wrong place is noticed.  The card's actions (`Arrive`,
`Transmit`) come between any two accesses of the driver; a frame that does not fit is
dropped.  `polls` is the stack of `rtl8139_poll` calls in progress: `net_on_frame` may
send and wait, and the wait polls (`net.c:612`).  `Clear`, `Drained`, `Deliver`, `BadSize`
and `Advance` are the parts of one poll, `Send` is `rtl8139_send`.  `Nic` gives `Net` what
it assumes of the card, that frames come whole, or says when it does not.

### Desktop

The array `g_windows` as the function `order`, whose indices are both the stacking order
and the handles that drag, selection and new sessions use; visibility, focus, menu, the
request for a new terminal.  The actions of `MouseEvent` are the branches of
`display_handle_mouse_event` in its order.  Every one that draws does so with
`RenderScene`, as the code does, which is also where the process manager drops a selection
that has no row.

A task's `display_refresh` is split wherever it reads the array again, so that a mouse
interrupt comes between.  `Refresh` serves a request for a new terminal: `ShowNew`, then
for each place on the way to the top the two halves of a struct swap, `SwapDown` and
`SwapUp`, then `FocusNew`.  `Draw` chooses between a full and an incremental redraw.  A full
one is, for each visible window, `RenderFrame` and `RenderContent`, and at the end
`RenderStartMenu`; an incremental one is any number of `TakeCell` and `PaintCell`, and
`EndPaint`.  `brush` is the window whose place a drawing loop has read and holds in locals:
a click after that has it painted where the window no longer is, or over one that now
lies above, and no code checks visibility again.

What the user sees is kept as `dirty` (terminals with text not drawn yet), `covered`
(terminals painted over or left blank) and `highlight` (the window of the highlighted
row).  History variables say why a screen may be wrong: `crossed` (a click made a drawing
loop paint in a wrong place), `shifted` (a terminal was created since the selection),
`displaced` (a new session was given another window), `torn` (a click changed the array
between the halves of a swap: a window is lost and another is there twice).

### Terminal, Cli

`Terminal` is the text of one session: cells, cursor, wrap, scrolling of the part that
shows, and a window whose size may change between any two characters.  The cells of a
session are written by its own task, but its cursor is not safe: a full redraw by any
task clamps the column of the *active* terminal, and by the width of the window of the
task that is running (`ClampByOther`).  Backspace is left out, as no caller prints it.
`Cli` is
`cli_run`: a key changes the line at once and leaves the display calls it makes in
`out`, which are then made one at a time.  `input` is the whole array, with what lies
behind the line: `StartsWith` reads up to the NUL as `starts_with` does, wherever the
line ends.  `OthersRefresh` is a redraw by another task, while this one waits for a key or where
a command gives up the CPU, before or behind its output (`Pause`).  Three variables are
history: `nudged`, such a redraw has moved the cursor since the last display call;
`spoilt`, the prompt's row may no longer be that of the line; `littered`, text of a wrapped
line, or of output that such a redraw moved, may be left in the prompt's row to come.


## 3. Runs

Every run takes less than five minutes with two workers, most less than one.

| Run | What it checks | Bounds, and why they are enough |
|---|---|---|
| `simplefs` | `ExtentsDisjoint`, `CrashConsistent`, `SuccessIsDurable`, `NoCollateralDamage`, `CrashLeavesTree` with crashes, write errors and read errors | 3 entries in 2 table sectors (a flush can stop between them, and a directory and its file lie in different ones), 3 sectors of 1 byte, offsets 0 and 1 (a second write at 1 relocates), the bump pointer followed up to 4, past the end of the device |
| `simplefs_store` | `ImplementsFileStore` | sectors of 2 bytes, writes of 2 bytes at offsets 0, 1 and 3: aligned, crossing a boundary, leaving a gap, relocating; 3 data sectors, so that sectors of an undone call are used again; two names, interchangeable (symmetry); crashes |
| `console` | `OneRunning`, `NoStarvation`, `PrefixIsOneShot`, `ImplementsKeyQueue`, `KeysAreRead` | 2 terminals and the idle task, rings of 3 cells (2 keys; the third is dropped), 3 scancodes at any moment (a prefix, the press or release behind it and the one after), clicks and ticks at any moment, a quantum of 2 ticks |
| `shell` | `NoFdLeak`, `MoveKeepsContents`, `CommandsEnd`, `TreeKeptWhileCwdsLive` | 2 terminals, 3 nodes, 2 descriptors (what `cp` needs), a text of one and a half chunks, write errors |
| `memory` | `BlocksTile`, `HeldSafe`, `AllFreeIsWhole`, `FramesAccounted`, `TablesReachable`, `ExecReleases` | pages of 4 bytes, 8 pages per table, 20 frames; six maps: one piece, a hole, overlap and disorder, too little for tables, too little for the heap and one entry whose end wraps, none.  A heap of 32 bytes with headers of 2 and alignment 2; three terminals, two of which can have a program loaded while the third runs out of memory, at its first block or at its second; remainders at the threshold of a split and on both sides of it; an image of the largest size that `align_up` does not wrap |
| `net` | `BodyIsPrefix`, `AckedIsKept`, `AnswerIsOwn`, `LeaseWasRequested`, `CallsReturn` | three calls of any kind (two can be confused, the third sees leftovers of both), 2 hosts, 2 DHCP servers, a body larger and a header larger than the buffer, sequence numbers that wrap inside the answer |
| `editor` | `CursorVisible`, `ScreenShowsBuffer`, `CleanIsSaved`, `AsksBeforeDiscarding` | 2 terminals, 2 files, 5 bytes, 2 rows, 6 keys (open, edit, save, quit and two more), failing calls of the VFS |
| `desktop` | `ScreenIsFresh`, `KillHitsHighlighted`, `NeverLockedOut`, `KeysHaveReader` | 3 terminal slots, 2 sessions at the boot, one that can be created, so that three terminals can be closed with all windows out of order; both other windows; clicks, drags and keys between any two steps of a refresh, down to the single cell.  Drawing changes neither order nor visibility nor tasks, and a click may come before it as well as in its middle, so once the third session is there a refresh is followed to the point where it begins to draw, a drag no further than its first click, and of the state only the array, the flags, the tasks and the focus: `ScreenIsFresh` and `KillHitsHighlighted` are explored in full with two sessions (constraint and view; the theorems have no such limit).  States that differ only in what no later step or property depends on count as one (view) |
| `nic` | `InOrder`, `WireIsSent`, `FramesDelivered` | a ring of 7 words, 3 frames of 1 or 2 words and header, some of them dropped, some across its end; 2 descriptors and 3 frames to send, so that one must wait; one poll inside another |
| `command_line` | `LineOnScreen`, `TabKeepsTyped` | an array of 4, 7 keys over 2 characters, 3 command names one of which begins another, a history of 2, commands that clear the screen, print or print nothing; windows of 2 rows of 6 and 3 rows of 3 columns, changed once, so that lines wrap and scroll, and a wrapped line leaves text in the rows below; redraws by another task, whose window may be the narrower one, at any wait |
| `console_syscall` | violation of `NeverWedged` | as `console` |
| `scheduler_slots` | violation of `SlotsAreReused` | the scheduler by itself, 4 slots, quantum 3 |

Type correctness is part of every inductive invariant of section 5, so it is proved and
no run checks it.

Deadlock is not checked in `console` (the wedged CPU below is a real stop, and
`NeverWedged` is about it), `scheduler_slots` (the property is about the table, not about
stops), `memory` (a panic stops the machine), and `editor`,
`command_line` and `nic` (the number of keys or frames is bounded).

Symmetry is used in `editor`, where terminals are interchangeable, and in
`simplefs_store`, where the names of files are; neither run checks liveness.

### Fairness

* Shell, Net (`WF` of the steps inside a call): code that is running
  goes on running; interrupts return.  No fairness is assumed of callers, crashes or
  errors.
* Net: a waiting loop counts `pit_get_ticks`, and `CallStep` contains leaving it;
  frames need not arrive.
* Console: `WF` of the CPU's next step, of the boot, and of the timer interrupt, which
  is a periodic hardware event that is enabled when the interrupt flag is set.  No
  fairness of the keyboard and the mouse.  That tasks ask for a switch again and again is
  not assumed: it is in the model of what they do.  `KeysAreRead` and `NoStarvation` assume
  that the CPU never wedges, because the finding below shows that it can, and the bound on
  scancodes means that keys do not come for ever: a task that always finds the next key
  in its ring, and none of them printable, would never reach a point at which it gives
  up the CPU.
* Nic: `WF` of a poll outside all others, which the idle task makes in its loop
  (`kernel.c:74`), and of the steps of a poll under way.  Nothing is assumed of the card.

### Conditions in properties

* `TreeKeptWhileCwdsLive`: `rm` removes an empty directory that is another terminal's
  working directory, and its slot may then be reused by a file, under which that
  terminal can create entries.
* `MoveKeepsContents` leaves out `mv` of a file onto itself, which happens in the run and
  destroys the file, and failing reads (section 6).
* `CrashLeavesTree` holds until a flush has failed.  A failed flush leaves the change in
  memory; later calls build on it, and a crash in the middle of one of their flushes can
  put the file of a directory on the disk without the directory.
* `InOrder` and `FramesDelivered` hold until a handler polls while the card has news.  The
  inner poll reads the frame that is being handled again and moves the offset past it, the
  outer one moves it by the same size once more.
* `KillHitsHighlighted`: KILL hides a window, its task runs on.  The property leaves out a
  terminal created after the selection was made (`shifted`), which shifts the windows
  without a redraw by a click, the middle of a swap, where one window is at no index, and
  a screen that a click has made wrong (`crossed`).
* `NeverLockedOut` needs a third session: with two, both can be closed and behind the
  indices that are searched, and the menu then asks for a new one, which the table may
  refuse.  It leaves out the middle of a swap and what follows a torn one.
* `KeysHaveReader` leaves out sessions that were given another one's window (`displaced`)
  and what follows a torn swap; it shows that nothing else gives keys to a session
  without a task.
* `ScreenIsFresh` is about the time between refreshes, while nothing is dragged.  It leaves
  out screens on which a click in the middle of a refresh had something painted where its
  window no longer is, or over a window above it (`crossed`, until the next full
  redraw), and what follows a torn swap.  When only one terminal is counted it is about the
  active one.  What it excludes happens (section 6).
* `LineOnScreen` holds while the line stays off the last column and the window keeps its
  size; a new prompt mends it.  Where the cursor stands it says exactly, until another
  task's redraw moves it; then it says that it has moved to the left at most (`nudged`,
  which the next display call mends).  That the row is blank behind the line is lost for
  longer: when the cursor goes back in a wrapped line, or the window was resized, rows
  below keep text that later prompts come down to, and only `clear` mends that
  (`littered`).
* `HeldSafe` holds for all requests that do not wrap in `align_up`, the largest of which is
  in the run; one that wraps is granted a block of size 0 (section 6).


## 4. Findings

* **A yield inside the system call gate can stop the machine** (run `console_syscall`).
  `include/task/scheduler.h:115` says that `scheduler_yield` is "Safe to call from any
  kernel task at any time."  `int 0x80` is an interrupt gate and clears the
  interrupt flag; `src/task/syscall.c:12` yields inside it; `context_switch` does not
  save EFLAGS.  The next task may be one that was suspended just before its `hlt`, or
  the idle task: it executes `hlt` with interrupts off.
* **The slot of a task that has ended is lost** (run `scheduler_slots`).
  `include/task/scheduler.h:34` says of `TASK_TERMINATED` "slot will be reused", and line 22
  gives `MAX_TASKS` as "Maximum concurrently live tasks".  `scheduler_create_task`
  compares `MAX_TASKS` with `task_count`, which never decreases (`scheduler.c:76`), so
  after that many creations none succeeds, however many tasks have ended.


## 5. Proofs

TLAPS checks the proofs for every value of the constants that satisfies the
`ASSUME`s of the module.  The argument is always the same: `Init` implies the
invariant, every action preserves it (one step per action, one below for each conjunct
it can disturb), and the property follows.

**SimpleFSProofs.**  `TypeCorrect` holds without further assumptions.  The others
assume `~BootErrors`: `sfs_init` takes a failing read of the superblock for an
unformatted disk, and nothing is preserved by formatting.  `ExtentsDisjoint` is not
inductive: after a crash the memory image is what the disk held, so the table on the
disk must be disjoint as well (`CrashConsistent`); a torn flush mixes entries of both,
so an entry in memory must be apart from every *other* entry on the disk
(`TablesApart`); a bump pointer that falls back with a crash must still be above all
that (`PointersOrdered`); and the data loop must stay inside the extent it was given
(`WriteFits`).  `FlushProgress` says which table sectors already agree and yields
`SuccessIsDurable`.  `Inv` is the conjunction; `Invariance` proves it;
`ExtentsDisjointCorrect`, `CrashConsistentCorrect`, `SuccessIsDurableCorrect` and, for
the action property, `NoCollateralDamageCorrect` follow from it.  No bound of
`MaxNextFree` or of the disk is used: the theorems hold for any number of entries,
sectors and bytes per sector, and for failing and torn writes.

`ImplementsFileStoreCorrect` is the refinement: every step of `SimpleFSStore`, mapped to
files, is a step of `FileStore` or none.  It assumes `Healthy` (no transfer fails, and
the bump pointer stays within the device, which `sfs_write` does not check; crashes are
allowed) and that `NoFile` is not a sequence of bytes.  Its invariant `StoreInv` adds to
`Inv` what makes the mapping right.  `FilesFit`: no size exceeds its extent.
`BlankUnsigned`: a disk without signature holds no file.  `TableSynced`: between
calls, and until a call changes its slot, the tables on disk and in memory name the same
files.  `CopyProgress` and `FillProgress`: the sectors copied agree with the old extent
and the bytes filled with the caller's buffer, so that counting the rest as written
changes nothing when it is written; the extent a write takes is apart from the one still
on disk, so that the old contents can be read until the table is flushed.  `CopyTurn`
and `FillTurn` say what one turn of each loop does to every byte of an extent, from the
arithmetic of `ChunkInSector`; the rest is one lemma per action on what `MemFile` and
`DiskFile` show before and after.

`CrashLeavesTreeCorrect` is about `SimpleFSCrash`, with crashes, torn and failing writes.
`Trees`: the tables in memory and on the disk are trees, between calls they hold the same
nodes, and during a flush they differ in at most one, so that every table sector written
leaves the old tree or the new one.  This holds until a flush has failed.  That a node is
created only in a live directory, and removed only without children, comes from the lemmas on
path resolution described under ShellProofs; they are repeated here because the two
modules extend different specifications.  The theorem assumes `~BootErrors` and, as the run
does, a disk that was formatted before.

**ConsoleProofs.**  The first part is about the composition, with every interrupt at every
point.
`SchedInvariance`: exactly the current task is marked running; that it is inductive needs
the types and that the tasks created before the start are ready, since `scheduler_start`
must find one (`MaxTasks >= 2`: `kmain` always creates a terminal and an idle task).
`KernelSchedules`: the kernel of `Console` takes only steps of `SchedSpec`, so it holds there too
(`OneRunningCorrect`).  `DeadStayDeadCorrect` is about the scheduler by itself, whose tasks may
return, as no task of this kernel does; it says that only a new task could revive a slot,
so it would hold as well of a table that reuses them.  `KeysInvariance` has the types of
rings, decoder and focus and where each task can be.  On it rest `PrefixIsOneShotCorrect`
(`extended` is set exactly when the last scancode was the prefix, which is inductive, and
what the handler does with the next one follows) and `ImplementsKeyQueueCorrect`, the
refinement: for every ring size and number of
terminals, an interrupt puts at most one key behind the others of one queue, a read takes
the first of its own, and every other step leaves the queues alone.  The lemmas under it
say what the ring between `head` and `tail` holds after a push and a pop, across the end
of the array.

The second part is about `Cli`, for any windows, any array and history, any command names
and any output.  `LineOnScreen` speaks only of the moments at which no display call is
left to make, so it is far from inductive.  `CliInv` says which calls can be left: either
something is printed and then a prompt and perhaps the line (`Printing`), or `d` calls of
one redraw of `m` characters have been made (`Editing`), in which case the first
`Written(m, d)` of them are on the screen.  That the row is blank behind the line needs
more than the row: a prompt comes down to the rows below, so all that lies behind the
cursor is blank (`BlankBehind`) until the cursor goes back in a spoilt line.  An attempt to
do with less was what showed `littered` to be necessary.  A redraw by another task, which may come
at a pause or while no call is left to make, can only take the cursor further left in its
row, and every call of `redraw_input_line` that depends on where the cursor is comes behind
the `goto` that puts it back, with no pause between (`OthersKeeps`).  The lemmas under it
say what each
display call does to a screen that is blank behind the cursor, with its wrap and its
scrolling, and what `StringLen`, `FlattenSeq` and `SetToSeq` return, where the least index
at which a claim fails takes the place of induction.  `CliInvariance`,
`LineOnScreenCorrect`, and the action property `TabKeepsTypedCorrect`: as no byte of
the line is a NUL, what `starts_with` compares is at least the whole line.

**KernelMemoryProofs.**  The first part is about `Heap` alone.  `Inv` is type correctness, `BlocksTile`, `HeldIsInUse`, `CurOnList`
(a walk stands on a block of the list) and `MergedSoFar` (no two free neighbours
behind the current block of a merging walk, and none at all between calls).
`Invariance`, `BlocksTileCorrect` and `HeldIsInUseCorrect` hold for all requests.
`AllFreeIsWholeCorrect` uses `MergedSoFar`: a list without free neighbours in which all
blocks are free has one block.  `BigEnoughCorrect` and with it
`HeldSafeCorrect` assume that no request plus the alignment exceeds the word size, the
condition under which `align_up` does not wrap.

The second part has two invariants of the kernel from the boot on, for any map,
any sizes, any number of terminals.

`FramesInv`: the counters of `pmm.c` are exact (`CountOK`) and what page directory, page
tables, heap and callers use was free memory once, is marked, and serves one purpose
(`UseOK`).  `FramesAccounted` alone is not inductive: during `heap_init` it says nothing of
the pages already mapped, whose frames a new page table must not be taken from.
`FramesInvariance` and `FramesAccountedCorrect`.

`ReachInv` adds why `paging.c` can write its tables through their physical address.
`pmm_alloc_frame` goes upwards, and there are more free frames below the heap than
directory slots, so directory and tables are all among them (`LowOK`); `paging_init` has
mapped those to themselves, and `heap_init` remaps only pages of the heap (`MappedOK`) and
never adds a table, because its slots have one.  `TablesReachableCorrect` has
two hypotheses, since a machine on which either fails could lose its tables: `HeapCovered`,
that the heap lies in slots that the identity map or the frame buffer has filled (here the
heap begins at 16 MB, inside the 32 MB of the identity map), and `EnoughLow`, that the
frames below the heap suffice (with 1024 slots, any machine with a few MB of memory there).
Both hold in states of the run.

`ExecInv` says for every label of a command which pointers it holds, that these are blocks
in use, that no two of them are the same, and that every block in use is one of them, or
the one `kmalloc` is about to return, or one `alloc` has lost.  At most one command is
outside `idle` and `run`.  `KernelInvariance` proves it together with the heap's `Inv`,
using the lemma `StepKeeps` of the first part on what each heap step does to the set of held
blocks.  `KernelUsesHeap` is a refinement: every step of boot, loader and command is a step
of the heap's specification or leaves the heap alone, so the callers keep its contract
(only what is held is freed, and no call begins before another has ended).  Hence the
heap's theorems hold for the kernel (`KernelHeapSound`).  `ExecReleasesCorrect` follows
from `ExecInv`.

**ShellProofs.**  For any table, any paths, any number of descriptors and terminals; every
call may fail.  A path is resolved by a walk over its components, a recursive function.
That each of its steps has a property, hence its end, is proved without induction, by the
first step that lacks it (`WalkKeeps`); so a lookup yields a slot in use or none
(`ResolveType`) and a node is created only in a live directory (`TargetLive`).  `ShellInv`
adds to the types: only the descriptors of the command in progress are in use (`FdsHeld`),
those it reads and writes are two (`Handles`), and what is written is appended (`AtEnd`).
`NoFdLeakCorrect` follows.  `MoveKeepsContentsCorrect` needs `MoveInv`: until the
descriptors are closed the source is whole, and what the target holds, with the chunk in
hand, is the source up to its offset; when the copy has succeeded the target is whole too,
so the removal leaves one of the two, whichever the path of the source names by then.  It assumes `~ReadErrors`, as the run does
(section 6).  `TreeKeptCorrect` is the action property: creating in a live directory and
removing an empty one keep the tree.  One assumption came from the types: 0 is among
`Terminals`, because tasks without a terminal use `g_vfs_ctx[0]`.

**DesktopProofs.**  For any number of terminal slots and tasks.  `DesktopInv` adds to the
types what the variables of `display_refresh` hold where it is (`PhaseOK`) and, until a
click has torn a swap: the window order, with the window in `tmp` put back, is a
permutation (`OrderOK`); a terminal that is shown has a task while no session was given
another's window (`ReadersOK`); what may be missing on the screen at each point of a
refresh (`FreshOK`); and that the selected index lies below the process manager and is the
highlighted row (`SelectionOK`).  For `FreshOK` the question is what a loop has still to
draw: the windows that are not up to date lie at the loop's index or above it (`Ahead`),
and a click either draws everything, so that none are left, or leaves the array alone; an
incremental redraw has still the window it chose (`Chosen`), or a click has drawn all.
`NeverLockedOutCorrect` is a counting argument: besides the terminals there are two
windows, so at most two terminals lie behind the indices that are searched.
`KeysHaveReaderCorrect`, `ScreenIsFreshCorrect` and, for the action property,
`KillHitsHighlightedCorrect`, each under the conditions of section 3.

**NicProofs.**  For any ring and any frame sizes.  `TxOK` places every frame between the
card's and the driver's transmit descriptor (both count modulo their number) and gives
`WireIsSentCorrect`.  `RxOK` has a witness: the word, counted from the first ever written, at
which each frame begins (`Layout`); words that were not given back lie where they were
written because fewer than the size of the ring are outstanding.  It holds until a handler
polls while there is news, which is the condition of `InOrder`; `InOrderCorrect`.

**NetProofs.**  For any hosts, servers, answers and buffers; what was ever sent may be
answered at any time, any number of times.  `TcpOK` relates the connection to the answer of
its server: the bytes kept are its first ones, header before body, and the acknowledged
number is the count of what is kept modulo the size of sequence numbers (`Exact`), unless
the header did not fit (`Overflown`).  A reset leaves a connection that is failed and still
gets data, so it is part of the invariant.  `CallOK` says what each waiting place has made
sure of, `PingOK` and `DnsOK` which of all requests ever sent can be answered to the current
call.  `BodyIsPrefixCorrect`, `AckedIsKeptCorrect`, `AnswerIsOwnCorrect` and
`LeaseWasRequestedCorrect`.

**EditorProofs.**  For any number of terminals, files, rows and bytes (`Paths # {}`: the
editor is opened on a path; what paths name at first is a text, a directory or nothing).
`EditorInv` adds that the drawing cache is that of the last draw while anybody edits
(`Drawn`) and that what a terminal that edits alone changed since the last save makes the
buffer dirty (`SoleOK`); the properties are conjuncts of it.  The core is a theory of texts
in one of which bytes were inserted at one place (`Spliced`; a deletion is an insertion
backwards): lines above it stay, lines below it move as a whole, a newline changes the
number of lines by one, and bytes without newlines leave all lines but their own alone
(`OtherRows`).  So every key changes only the rows `draw_editor` writes (`Edited`).  These
lemmas are proved without induction: the least position at which the claim failed would
have one before it at which it did not.  `CursorVisibleCorrect`, `ScreenShowsBufferCorrect`,
`CleanIsSavedCorrect` and, for the action property, `AsksBeforeDiscardingCorrect`.

**Model-checked only.**  The five liveness properties (`CallsReturn`, `NoStarvation`,
`KeysAreRead`, `CommandsEnd`, `FramesDelivered`): fairness is defined with `ENABLED`, which is
out of the prover's reach.  Every other property that a run shows to hold is proved.
`DeadStayDead` is proved and in no run.


## 6. Seen while modelling, without a run

Statements of headers and documents that the code does not keep in all cases, and
losses that no document excludes.  The models contain the behaviour; the properties
above are stated so that they hold beside it.

File system and shell
* `mv` of a file onto itself destroys it, while `docs/api/commands.md:164` says
  "Move/rename file": `copy_file` (`commands.c:224`) truncates the source as the target,
  copies nothing, reports success, and the source is removed.
* A crash while the boot writes `/bin/hello.elf` leaves an empty or cut file that later
  boots take for the program (`userland.c:20`).
* `simplefs.h:57` formats only without a signature; a failing read at mount formats too
  (`simplefs.c:165`).  `simplefs.h:66`: the root need not be valid after a crash during
  formatting, which writes the superblock first.
* `simplefs.h:41`: a parent need not be a directory (`rm` of another terminal's working
  directory, see above).
* `mv` with a failing read removes the source after an incomplete copy
  (`commands.c:231` ends the loop on an error as at the end of the file).
* `vfs.h:167`: the text of the working directory does not follow every change;
  `vfs.h:123`: `mkdir "a/"` succeeds.

Scheduler and memory
* `scheduler.h:96` and `docs` differ from the code on the value `create_task` returns and on `MAX_TASKS`.
* `heap.h:35`: a request close to 4 GiB wraps and is granted a block of size 0.
  `heap.h:69` counts headers that the code leaves out.
* `alloc` keeps its first block when its second allocation fails (`commands.c:438`).
* `bootinfo.h:10`, `pmm.h:27`: a region ending at 4 GiB, an unaligned base.  `pmm.h:49`:
  an empty map panics.

Network
* `dhcp` reports a lease after a failed renewal: `dhcp_configured` is never reset
  (`net.c:1549`).
* Two offers taken in one poll mix the address of one server with the identity of the
  other; `LeaseWasRequested` holds as the request is sent with the mixture.
* A FIN ahead of missing data ends the call with success and a short body.  That is
  why `BodyIsPrefix` speaks of a prefix.

Editor
* A second `edit` resets the one buffer under the first; its changes are gone and F10
  does not ask.  A failed F2 of a clean buffer leaves a truncated file and `dirty` 0.  A
  load that is cut short, followed by a save, drops the rest of the file.

Network card
* A poll nested in a handler reads the same frame again, and the outer poll then skips
  what follows (`rtl8139.c:328`): from then on the offset may point into a frame, and a
  size read there ends the poll or delivers rubbish.

Desktop and terminals
* After a terminal was created, or during a drag in which one is, KILL and the drag use the
  index of another window (`display.c:1355`, `2529`).
* A new session may show the window of another session, or Settings, and then has none of
  its own (`display.c:2597`).
* `visible_terminal_count` and the search for hidden terminals look at the indices
  terminals had at first (`display.c:1243`, `1230`).  With two terminals shown but brought
  behind these, a refresh paints the changed cells of the active one only, and the new text
  of the other, though it may be the one that called, does not appear, while
  `docs/api/display.md:108` says "Redraw the entire screen".  A hidden one that is not found
  means that a new session is asked for.
* The start menu is drawn last, by the flag as it is then (`display.c:1435`): a click that
  closes it at that moment has redrawn everything before, and the rest of the menu stays
  over the text when `display_refresh` returns.
* An incremental redraw chooses the index of a window before it paints (`display.c:1851`),
  and no cell is drawn with a look at what is visible (`display.c:1803`).  After a click in
  between it paints the text of another window or the place of one that was closed, over
  the windows below.  It is never clipped by Settings, Process Manager or a terminal lying
  over it; only the next full redraw mends that.  The rows of a full redraw
  (`display.c:1750`) go on in the same way to where the window was.
* A click in the middle of the three copies of `gui_bring_window_to_front` (`gui.c:24`)
  that a new session makes: one window is lost and another is in the array twice.  The
  model reaches that state and stops there.
* A full redraw clamps the cursor of the active terminal by the width of the window of the
  task that runs (`display.c:1943`, `977`): when a narrower terminal scrolls, the cursor of
  a prompt waiting in a wider one moves to the left.  The next key puts it back.
* During a drag the contents of all other windows are blank.
* The welcome message is written before any task runs, when `scheduler_current_tid` is
  the value of an unbound session (`scheduler.c:148`, `display.c:340`): it goes to the first
  session without a task and is never seen.
* The prompt's row is kept across wrapped and scrolled lines and changes of the window's
  size (`cli.c:67`), and the line is then redrawn in the wrong row.  The redraw of a wrapped
  line goes back to that row but does not clear the one below, so its text stays there and
  shows behind the next prompt, as a newline clears nothing either.
* Tab compares with the bytes behind the line (`cli.c:207`), and may find no match where
  there is one; it never changes the line wrongly (`TabKeepsTyped`).


## 7. Not modelled, and why

* The register protocol of ATA, RTL8139, PIC, PIT, PS/2: device I/O; what the rest of the
  kernel sees of it (success, failure, a frame, a tick, a scancode) is in the models.
* Stacks and registers: a task is the place where it continues.
* Texts: formatting, colours, tab expansion, columns, headers of protocols other than
  the fields a handler tests, checksums (a frame with a wrong one is a lost frame).
* Drawing, fonts, boot loader, serial port, RTC, PCI, power: no state another part's
  correctness depends on.
* Geometry: where windows are, their clamping, what covers what at the pointer; Desktop lets
  a click hit any visible window and any two windows overlap.  The mouse pointer and the
  underline of the text cursor are drawn over the text and are left out.  The panic
  screen and the test overlay: no way back, or no state.
* The bytes of an ELF file and the copying of its segments: `Exec` takes every outcome of
  the checks.  `userland_seed_programs`: three VFS calls at boot.
* Backspace in a terminal (`display.c:2232`): no command prints one; `cli.c` and the editor
  take the key themselves.
* A write into a sector that cannot be read: `sfs_write` zeroes the rest of it
  (`simplefs.c:440`).  `SimpleFS` has that (`FillSector`); `VFS`, which knows no sectors,
  keeps the bytes around what was written.  `MoveKeepsContents`, the one property about the
  bytes at that level, is about runs without failing reads.
* What is on the screen after a click has torn a swap, or when everything is hidden.
* The back buffer that `framebuffer_init` takes from the heap at boot (`framebuffer.c:71`):
  one more block that is held for ever.
* VFS environment variables, `list` and `stat`, mouse packets: small and sequential.


## 8. Plan

Done, in this order: SimpleFS with its abstract store and proofs, Scheduler with proofs,
Keyboard and Console, VFS and Shell, Heap with proofs, Memory, Net, Editor; then Desktop,
Nic, Terminal and Cli, Exec and KernelMemory with proofs.

The proofs of Console, KernelMemory, Desktop, Nic, Net, Editor, Shell and Cli; the
refinement of `FileStore`.

Next:

1. **Nic beneath Net**: the frames handlers receive taken from the ring, so that the effect
   of a nested poll on a call can be stated.
2. **Desktop with Console**: the focus of `Desktop` as the one the keyboard interrupt uses.
   What a torn swap does to the windows from then on.
3. The environment in VFS; mouse packets.
