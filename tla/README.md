# A TLA+ model of lateOS

lateOS is a small x86-64 kernel with cooperative multi-tasking: a table of
tasks and a round-robin `schedule()`, `fork()` with copy-on-write, a page fault
handler that copies, grows the stack or ends the task, line input from a
keyboard interrupt, a read-only tar file system, a text console, a libc and a
shell. This directory holds TLA+ modules of it, the configurations that TLC
checks, and proofs that TLAPS checks. Line numbers refer to files of the
repository (`sys/process.c:543`).

## 1. Inventory

| Component | State it keeps | Operations | Modelled in |
|---|---|---|---|
| Task table, scheduler, process calls (`sys/process.c`) | `taskQueue[MAX]` (state, ppid, time, pml4e, vm, kstack, regs), `currentTask` | `fork`, `execvpe`, `exit`, `kill`, `wait`, `waitpid`, `sleep`, `schedule`, threads `in` and `idle` | `Process` |
| Interrupts and timer (`sys/idt.c`, `sys/idt.s`) | interrupt flag, flags pushed for `iretq`, `timerCount` | `intTimer`, `taskTimer`, entry and exit of `isr128` | `Process` |
| Keyboard (`sys/keyboard.c`) | `inpStr`, `strOffset`, `offset`, `lineCount`, `caps`, `controlValue` | `intWrite` (interrupt), `intRead` (`read(0)`), `wake_process` | `Keyboard`, `LineInput`; the blocking also in `Process`, the echo in `Terminal` |
| User memory (`sys/paging.c`, `sys/process.c`, `sys/idt.c`) | page tables, `pagelist[].ref_count`, free list, list of areas (`vm`) | `isr14`, `copytables`, `copyVMA`, `copyNewMemory`, `copyFromPML4`, `malloc`, `readELFandExec`, `removeProcess` | `Memory`, `PrivateMemory` |
| tarfs and working directory (`sys/tarfs.c`, `sys/process.c`) | headers; `fd[100]`, `fd_c`, `curr_dir` of every slot | `open`, `read`, `close`, `opendir`, `readdir`, `chdir`, `getCurrentDirectory`, the search of `execvpe`, `fork`'s copy | `Tarfs` |
| Console (`sys/kprintf.c`) | `temp2`, `toLeft`, `numLines`, video memory | `writeToSbush`, `rollUP`, `backspace`, `clearScreen`, `kprintf` | `Screen`, composed with `Keyboard` in `Terminal` |
| libc heap (`libc/util_sys.c`) | block list `freep`; the heap area behind `sbrk()` | `malloc`, `free`, `morecore` | `Heap`, `Allocator` |
| System call dispatch (`isr128`) | - | numbers to functions | its cases are the actions of the modules above |
| Frames at boot, kernel page tables, `kmalloc` | `head`, `pagelist` | `initializeFreelist`, `setupPageTables` | the initial state of `Memory` |
| Program loading, argument stack | - | `readELFandFork`, `setRSPandExec` | areas, pages and flags only |
| libc strings and environment, shell, commands | - | parsing, printing | their system calls are inputs |
| GDT, boot code, boot loader, `ahci.h` | hardware tables | once at boot, or unused | no |

How they interact. A user task enters the kernel through `int 0x80`
(`ISR128` -> `isr128()`), which calls one function per number. The blocking calls
set their own state (`WAIT`, `SLEEP`, `HANG`) and call `schedule()`; somebody
else sets `RUNNING` again: `exit()` and `kill()` the parent in `WAIT`,
`wake_process()` the first task in `SLEEP`, `taskTimer()` the tasks in `HANG`.
`fork()` joins the task table, memory (`copytables`, `copyVMA`) and the working
directory; the page fault handler calls `exit()`; the keyboard interrupt reaches
into the task table and echoes on the console, where programs print, too; libc's
heap grows through the kernel's `malloc()`, which finds the heap area by its
place in a list.

What is hard. *Lost and misdirected wake-ups*: states are tested and set in
different functions of different tasks. *Atomicity*: it rests on interrupts being
off everywhere but in `idle()`, and that on flags pushed by hand in three
places. *The clock*: `intTimer()` switches tasks in the middle. *Slot reuse*: a
pid is an index and is given away as soon as its zombie is removed, and a slot
keeps the descriptors of the program before. *Copy-on-write*: two bits of every
entry over generations of `fork()`, and a handler that finds stack and heap by
their places in a list. *The same fact counted twice*: the cursor's cell and its
column, the lines in the buffer and `lineCount`. *Circular lists*: libc's free
list starts somewhere else after every call. *Counters that only grow*:
`strOffset`, `fd_c`, the free list, `ref_count`. `PROJECT.json` lists every
hazard at its line.

What makes each component correct:

- Task table: the task on the CPU is runnable; blocked tasks wait where their
  waker expects them; a child's death reaches `waitpid()`; zombies have a living
  parent, are removed once, and never run again; sleepers wake; idle always
  gets its turn; an entered line has a reader.
- Keyboard: what is typed is what is read, line by line, once; the counter of
  lines says what is in the buffer.
- Memory: `fork()` looks like a copy; a task can use what it has; areas and
  mapped pages agree.
- tarfs: a descriptor that is open reaches its own file whoever had the slot
  before; names resolve from every directory; a listing is complete. Console:
  the cursor is where the driver believes it to be, the screen shows the line
  that will be read, editing does not reach other rows. Heap: every unit is in
  one block, free blocks are in order and joined.

## 2. Modules

| Module | Content |
|---|---|
| `Process` | task table, scheduler, process system calls, interrupts; properties |
| `ProcessProofs` | lemmas and theorems about `Process` |
| `LineInput` | abstract specification of `read(stdin)` |
| `Keyboard` | `intWrite()`, `intRead()` and their buffer; refinement to `LineInput` |
| `KeyboardProofs` | theorems about `Keyboard`, the refinement to `LineInput` among them |
| `Ascending`, `AscendingProofs` | a finite set of numbers in its order; lemmas about it, about sequences and about induction |
| `Screen` | the text screen as operators on a record |
| `Terminal` | `Keyboard` composed with `Screen` and with programs that print |
| `TerminalProofs` | theorems about `Terminal` |
| `PrivateMemory` | abstract specification: every process has pages of its own |
| `Memory` | frames, page tables, areas, page faults; refinement to `PrivateMemory` |
| `MemoryProofs`, `PrivateProofs` | invariants of `Memory`; the refinement, proved |
| `Tarfs` | archive, paths, working directories, descriptors of slots |
| `TarfsProofs` | theorems about names, descriptors and listings |
| `Allocator` | abstract specification of `malloc()` and `free()` |
| `Heap` | libc's free list over the kernel's heap area; refinement to `Allocator` |
| `HeapProofs` | theorems about `Heap`, the refinement to `Allocator` among them |
| `MCProcess`, `MCKeyboard`, `MCTerminal`, `MCMemory`, `MCTarfs`, `MCHeap` | values of the constants for TLC |

Operators marked "Seeded fault" are wrong versions of the definition that
follows them. No specification uses them; each one shows that some property
tells it from the code.

### Process

One CPU runs everything and kernel code is not interrupted, so the code between
two calls of `schedule()` is one step. `pc[t]` says where task `t` goes on when
`schedule()` comes back to it (its saved `rsp` and `rip`): in ring 3, at the end
of `isr128`, in the loop of `wait`, `waitpid` or `intRead`, in `idle()`, or in
`intTimer()` behind its `schedule()`. The interrupt flag is a variable that
changes only where the code changes it (`cli` and `sti`, the gates, `iretq`); a
timer or keyboard interrupt may come in *every* state in which it is on. That
kernel code is atomic is therefore a result (`InterruptsOnlyIdle`), not an
assumption: had `execvpe()` pushed flags with interrupts on, interrupts would
hit ring 3 and the model would show it.

`Fork` is `fork()` with `createChild()` and `copytask()`; `Dead` and `Orphaned`
are the three effects of `exit()` and `kill()`, in their order; `Reap` is
`removeProcess()` with the assignment of `READY` that follows it everywhere;
`NextTask` is the search of `schedule()` with its fall-back to the caller;
`TimerSecond`/`TimerResume` are the two halves of `intTimer()`. `MAX`, the 20
ticks of a second and the width of an `int` are constants. `wait()` is called by
`in()` only (libc's `wait()` passes through `waitpid` and no program uses it).

Inputs: any user task may make any call at any time, with these bounds: user
tasks `waitpid()` only for children of their own, as the shell does (for
anything else the code never returns); whom they `kill()` is the constant
`KillClasses`. `MaxLines` bounds the lines that wait.

### Keyboard and Terminal

Every action of `Keyboard` is one interrupt, or one turn of the loop in
`intRead()`. The buffer is never used again from the start, so a run ends when
it is full; `KeyBeyond` is the write behind it. One task reads. Letters stand
for all keys of `code_map`; `blank` stands for the keys whose entry is zero.

`Screen` has no variables: a screen is a record of the cells, the cursor (the
cell `temp2` points to, as a row and a column), and the driver's own counters
`toLeft` and `numLines`, which are what the code tests. Every function of
`kprintf.c` is an operator on such records. The constants 79 and 22 of the code
are `maxwidth - 1` and `maxheight - 2`.

`Terminal` extends `Keyboard`: `TypeKey` is the interrupt with its echo, in the
order of the handler; `Write` and `Clear` are what any program, the one that
reads or one in the background, does to the screen, and `PrintChar` is one turn
of `kprintf`'s loop. A print is not interleaved with a key, which is
`InterruptsOnlyIdle` of `Process`. `mixed` is a history variable: something was
printed after the line now being typed was begun.

### Memory

Every system call and every page fault is one step of a task. A page has two
addresses, its first and another one, which is what the strict comparisons of
`checkForVM()` and `checkValid()` can tell apart. Entries have the frame, the
write bit and bit 9 ("copy on write"). `free()` is empty in the code, so frames
only leave the free list: `used` counts them. `getFreeFrame()` on an empty list
dereferences NULL in the kernel, whose page fault ends the current task
(`OutOfFrames`). A frame's first content is not cleared (`Unused`).

Left out: frames that hold page tables, several page tables per task
(`getPTE()` does not look at present bits), and a second program segment.

### Tarfs

A path is a sequence of names with two bits (absolute, slash at the end), a file
is its index in the archive; `headers` has the block of zeroes behind the last
file as a last header with the empty name, as `init_tarfs()` does. Tasks are
slots: `fd` and `fd_c` outlive the programs that run in a slot, which is the
point of the module. `mine` is a history variable: what the program now in the
slot knows of the descriptors it opened, with the items it was given by
`readdir()`. `Walk` is `deriveRelative()`'s treatment of one name, `Walked` its
loop, `isfileexists` the search, `Opened` what `setCurrentTaskVal()` and
`openDirFile()` store, `ReadDir` the counting loop of `readDirTarfsFile()`.
`readTarfsFile` changes no state and is an operator that the property uses.

Left out: two slashes in a row, `.`, and names whose first two characters agree
(`starts_with()` stops there; the directories of the archive differ). The bytes
`read()` gives are those of the header, see below.

### Heap

Addresses count units of one `Header`. The list is the pair of functions `ptr`
and `size`, as in the code, and not a TLA+ sequence: whether it is a circle, in
order, and complete, is what is checked. `free` and `Taken` are the statements of
`free()` and of `malloc()`'s loop; `MallocMoreCore` is the whole of
`malloc()` when no block fits, with `morecore()` and its call of `free()` in the
middle. The kernel's `malloc()` behind `sbrk()` maps `PagesFor` pages and moves
`brk`. The program frees what it holds, once.

## 3. Runs

| Run | Bounds | Shows |
|---|---|---|
| `process_safety` | 5 slots, 2 ticks per second, ints from -2 to 1, sleeps of 1 and 3, one waiting line | ten safety properties of the task table |
| `process_live` | 5 slots, sleep 1, two lines, no `kill`, no `fork` on a full table | four liveness properties, no deadlock, no stranded reader |
| `process_fork_full` | 4 slots | **violated** `ForkStaysInTable` |
| `keyboard_lines` | buffer of 5, no rubbing out of unread lines | refinement to `LineInput`, line delivery |
| `keyboard_rubout` | the same, with rubbing out | **violated** `LinesAccounted` |
| `terminal_edit` | buffer of 4, any editing, typing beyond the end; a screen of 2 columns and 3 rows, one print or clear | the driver's counters and the screen agree however the user edits |
| `memory_cow` | 2 tasks, 5 frames, 5 pages, 2 values, 2 programs | refinement to `PrivateMemory` and five invariants |
| `memory_first_byte` | the same, first bytes of areas used | **violated** `OwnMemoryUsable` |
| `memory_kernel_write` | the same, `read()` into shared pages | **violated** `ImplementsPrivateMemory` |
| `heap` | 14 units, pages of 2, `NALLOC` 3, requests of 0, 1 and 33 bytes | refinement to `Allocator` and four invariants of the free list |
| `tarfs_calls` | an archive of five entries, two slots with tables of 6, five paths, four commands | descriptors, names and listings |
| `tarfs_descriptors` | the same, opening goes on | **violated** `DescriptorsInTable` |

Why the bounds are enough. Five slots are init, idle and three user tasks: a
parent, a child that dies while another child or a grandchild is there, a slot
that is reused while somebody waits, a full table. Two ticks make one that counts
and one that completes a second. An `int` from -2 to 1 has a sleep (3) that
turns negative. A buffer of five holds two short lines and the beginning of a
third. A screen of two columns wraps at every second character, and one of three
rows reaches every branch of `rollUP()`: a newline and a wrap, in the last row
that `numLines` counts and before it. Five frames let a task fork, copy, grow,
allocate and exec in every order until the list is empty, and `MaxReferences`
(3) lets frames be shared, released and shared again; `ref_count` is never
decremented, so without that bound the state space is infinite. The tasks of
`Memory` are symmetric. Fourteen units are up to four calls of `sbrk()`, with
requests that share a page, that need one, and that exceed `NALLOC`; blocks are
taken whole and cut, and freed blocks have neighbours on no, one or both sides.
A table of six holds three descriptors, so that a slot outlives programs that
used one or two of them; the archive has two directories of different length
and the empty header at its end.

`tarfs_calls` identifies states by `VIEW Known`: it leaves out the descriptors that
the program in a slot has not opened itself and the directory of a slot without
a task. That is sound because no action reads them: the number of the next
descriptor has never been used in its slot (`fd_c` only grows), and `fork()`
overwrites the directory.

`CHECK_DEADLOCK FALSE` appears where the model ends on purpose: after a write
outside the table, with a full buffer, with no task left, with a full heap.

Fairness (`process_live`): the CPU does not stop (weak fairness of kernel steps);
a timer interrupt stays pending in the interrupt controller until it can be
taken (strong fairness of the timer, because the flag goes on and off); and a
user task goes on to a call that gives up the CPU. The last one is an assumption
about programs, not about the kernel: the system is cooperative, a task that
computes for ever stops everything. Keys are never fair. In `keyboard_lines` the
reader's loop is fair, which is `InterruptsServed` and the round robin of
`Process`.

Some properties say less than one might expect, because the code does less.
`InitReaps` holds while init is runnable: a zombie that `exit()` re-parents to
init does not wake it (`sys/process.c:451-461`). `SleeperWakes` is about
sleepers with time left: `sleep()` of 2^31 seconds or more is stored as a
negative `int`, and such a task stays in `HANG` for ever. `NoStrandedReader` is
checked without `kill`: a reader that is killed after Enter has woken it leaves
its line to the next `read()`. `SeenIsTyped` is about lines that nothing was
printed into, and `ListingComplete` about directories below the root.

### What the violated runs show

1. `fork()` with a full table (`sys/process.c:298`): `newPID()` returns -1, the
   child is built in front of `taskQueue`; the shell expects a negative result.
2. Backspace over the end of an unread line (`sys/keyboard.c:147`): type-ahead
   of a line, then Backspace; the line stays counted and the reader spins while
   the rest of the buffer is copied over its memory.
3. First byte of an area after `fork()` (`sys/idt.c:69`): a strict comparison,
   and a segmentation fault where a copy was due. libc's `malloc()` has a block
   header at exactly that address of the heap.
4. `read()` into a shared page (`sys/keyboard.c:194`, `sys/tarfs.c:146-158`):
   the kernel writes in ring 0 with `CR0.WP` clear, so nothing is copied and
   parent and child both see the data.
5. Descriptors run out for good (`sys/tarfs.c:105`): `fd_c` is never reduced, not
   by `close()`, not by `exec`, not when a new task gets the slot. The shell runs
   all its commands in one slot, so after 97 opens in the life of the system
   the next one writes behind `fd[100]`.

### Other behaviour the models have

These are in the modules as the code has them; no run is spent on them.

- *Console.* `rollUP()` declares a `temp2` of its own (`sys/kprintf.c:26`), so
  scrolling does not move the cursor: after the first scroll by a newline,
  lines are written in the 25th row, and the next scroll copies that row up and
  wipes the copy: lines finished after that are lost. A wrap in row 23
  continues in row 22, over the row it has just moved there. `\r` counts as a
  column and makes `toLeft` run ahead of the cursor (no program prints it).
  `clearScreen()` writes one attribute byte in front of video memory. `%d`
  divides by 50 and 5 instead of powers of ten, so that it prints no number but
  0 as it is.
- *tarfs.* `init_tarfs()` takes the block of zeroes at the end for a file with
  an empty name. Every path to the root but `../` derives that name: `chdir("/")`
  and `chdir("bin/..")` fail, while `open("/")` opens it. `ls` of the root omits
  the archive's first entry, shows the files of all directories, and an empty
  line at the end. `..` below the root writes the byte in front of the buffer.
  `read()` copies from the header and does not move, so every call returns the
  same bytes. A child inherits the working directory but none of its parent's
  descriptors: their numbers mean whatever an earlier program left in the slot.
- *Processes.* A command run with `&` is never waited for, and its zombie keeps
  the slot until the shell ends. For a script, `execvpe()` increments the pointer
  `argc` instead of the count (`sys/process.c:353`).
- *Heap.* The kernel maps one page more than a request fills and the program
  never uses it, so two pieces of heap are never joined.

## 4. Proofs

The theorems hold for every value of the constants that satisfies the
assumptions stated in the modules (TLC evaluates those on every run): any size of the
task table, of the buffer, of the screen, any number of frames, pages, readers,
any archive.

| Module | Theorem | Property | Premise |
|---|---|---|---|
| `ProcessProofs` | `TypeCorrect` | `TypeOK` | `OnlyListedKilled` |
| | `CpuRunsRunnable` | `OnCpuRunnable` | " |
| | `Cooperative` | `InterruptsOnlyIdle` | " |
| | `ClockInStep` | `TimerInStep` | " |
| | `ParentAlwaysLives` | `ParentLives` | " |
| | `ChildExitNoticed` | `NoLostChildExit` | " |
| | `WaitersKeepTheirChild` | `WaitTargetStaysChild` | " |
| | `SpacesOwned` | `SpaceOwned` | " |
| | `BlockedInPlace` | `BlockedWhereItWaits` | " |
| | `DeadStayDead` | `ZombieStaysDead` | " |
| | `LineHasReader` | `NoStrandedReader` | `NobodyKilled` |
| `KeyboardProofs` | `BufferTyped` | `TypeOK` | |
| | `ReaderStaysBehind` | `ReadBehindTyped` | |
| | `NoLineSleptOn` | `NoLineHidden` | |
| | `CountIsExact` | `LinesAccounted` | `~RubOutLines` |
| | `LineInputKept` | `ImplementsLineInput` | `~RubOutLines` |
| `TerminalProofs` | `ConsoleTyped` | `TTypeOK` | |
| | `CursorStaysOnScreen` | `CursorKept` | |
| | `RowsAboveStay` | `RowsAboveKept` | |
| | `SeenStaysTyped` | `SeenIsTyped` | |
| `MemoryProofs` | `MemoryTyped` | `TypeOK` | |
| | `SharedStaysReadOnly` | `SharedReadOnly` | |
| | `AreasInOrder` | `StackThenHeap` | |
| | `OwnPagesUsable` | `OwnMemoryUsable` | `~TouchEdges` |
| | `CountsCover` | `RefCountCovers` | |
| `PrivateProofs` | `CopyOnWriteInvisible` | `ImplementsPrivateMemory` | `~KernelWrites` |
| `TarfsProofs` | `TarfsTypeOK` | `TypeOK` | |
| | `NamesAlwaysResolve` | `NamesResolve` | |
| | `DescriptorsStayOwn` | `OwnDescriptors` | |
| | `ListingsComplete` | `ListingComplete` | |
| `HeapProofs` | `HeapTypeOK` | `TypeOK` | |
| | `HeapUnitsPartitioned` | `UnitsPartitioned` | |
| | `HeapListInOrder` | `ListInOrder` | |
| | `HeapWholeAgain` | `WholeAgain` | |
| | `HeapImplementsAllocator` | `ImplementsAllocator` | |

The premises are the limits that the violated runs show, and no more:
`~RubOutLines`, `~TouchEdges` and `~KernelWrites` are the settings whose
negation violates the same property in TLC. `OnlyListedKilled` says that whoever
is killed is another live user task. It is needed, because `kill()` does not
look at its target: a program that kills slot 1 leaves the machine without the
thread everybody falls back to, a killed init leaves nobody who owns orphans, a
task that kills itself goes on in ring 3 as a zombie, and killing a free slot
makes a zombie of nothing. `NobodyKilled` excludes `kill()` altogether.

*Process.* None of the four kernel properties is inductive. `KernelInv`
strengthens them together: slot 1 is always RUNNING and only ever at idle's four
places, slot 0 is RUNNING or in WAIT, the flag is on only at idle's `hlt` and
behind it, the flags saved for ring 3 are always off, user tasks are never
at idle's places, and the tick counter is full only while idle is inside
`intTimer()`. That idle is RUNNING makes `NextTask` find somebody
(`NextTaskRunnable`), which gives `OnCpuRunnable`; that the current task is idle
whenever the flag is on gives `InterruptsOnlyIdle`; and only both together
exclude a tick between the halves of `intTimer()`. `ParentLives` is proved on top
of it, with one lemma for each kind of change to the table.

`TaskInv` is the conjunction of four properties that are inductive only
together and relative to `KernelInv`: a child's death wakes its waiter because
`WaitTargetStaysChild` says that the waiter is still the parent
(`NoLostChildExit`), and that in turn holds because nobody in WAIT was put there
by another loop (`BlockedWhereItWaits`). The lemmas group the actions by what
they do to a task: `CalmStep`, `BlockStep`, `WaitStep`, `ReapStep`, `DeathStep`,
`ForkStep`. `DeadStayDead` is an action property over the same invariant.
`LineHasReader` compares a counter with the cardinality of a set: taking a line
removes at most one reader on his way, Enter adds exactly one when anybody
sleeps, and a reader goes to sleep only when no line is left.

*Keyboard.* `BufferInv` says, beside the types, that the reader's offset is not
ahead of the typist's, and that no newline stands where the next key goes or
behind it (`NoEndAhead`), which is what keeps the reader behind.
For `LinesAccounted` the number of line ends is the cardinality of a set of
positions, and each handler adds or removes at most one of them.

`LineInputKept` maps the buffer to `LineInput`: the lines that wait are the
pieces of the buffer between its line ends, in ascending order, and the current
line is the rest up to `strOffset` (`Pieces`, `Rest`). Enter adds a line end
above all others (`SortedAdd`), so the rest becomes the last piece; `intRead()`
takes the lowest one away (`SortedDrop`), so the pieces that are left are those
of the buffer from the new offset; a letter and Backspace change the rest
alone, at its end. Backspace is where the premise is needed: without it the
character it takes may be the end of a piece. `LinesAccounted` is part of the
invariant, because a count without a line makes `intRead()` search past the typist.

*Terminal.* `ConsoleInv` has the type of the screen and `Fits`, the relation of
cursor, column and row counter that every operator of `Screen` keeps: column and
`toLeft` agree, and in the last rows a character never starts behind the last
cell. The lemmas are about the operators of `Screen`, for any record that fits.
`SeenInv` adds `SeenIsTyped` itself, `NoLineHidden`, and that the line being
typed is empty whenever a program is in the middle of a print that has not mixed
it. `CurrentIs` and `SeenIsShown`
restate the property in positions of the buffer, `EchoShows` says that the echo
puts the character to the left of the cursor at the margins and when the screen
scrolls, too, and `EraseShows` that Backspace takes one cell from the screen and
one character from the line.

*Memory.* `MemoryInv` consists of `EntryInv` (which combinations of the bits an
entry can have, frames below `used`, shared frames read-only) and `AreaInv` (the
running program's three areas are the first of the list, heap pages are mapped
exactly up to the last address of the second, and a free slot has neither areas
nor entries). `ReferencesCounted` compares `ref_count` with the cardinality of
the set of entries that map a frame: `fork()` adds the child's, which are as
many as the parent's, fresh frames get one, and every other step only takes some away. The refinement theorem maps an abstract page to the
content of its frame (`Mem`) and the programs of a task to the length of its
list (`Prog`): a store to a writable entry is a `Write`, because nobody else
maps that frame (`SharedReadOnly`); a copy fault and a stack fault are `Extend`
steps that change nothing visible or add one page; `Segv` and `Exit` stutter; `fork()`
is the abstract copy, because sharing a frame is reading the same content.

*Tarfs.* `DescriptorInv` relates what the kernel keeps for a descriptor to what
the program knows of it (`Faithful`), with two parts. Every number a program
knows is below `fd_c + 3`, so the next number is never one in use, and this is
why the defect of the fifth violated run and `OwnDescriptors` go together: giving
numbers back without looking who uses them would break it (that is the mutant).
And the items that a listing has yielded are the first ones of what
`readdir()` matches, as many as the counter in the descriptor says (`Listed`).
`ChildrenMatch` then says that what a directory's listing matches, by the first
part of the name, is the directory itself and behind it its files: so a
listing that has ended, less its first entry, is `Children`. `DirectoryInv` says
that a working directory is the root or one of the archive's; `..` at the root
stays there (`Walk`), and a path that names nothing changes nothing. From it
`NamesResolve` follows through what `Walked` makes of `..` and of a file's
parts, and because no name of the archive comes twice.

These rest on `ArchiveAssumption`, which states what `make` puts into the archive
(directories one level deep, each in front of its files, no name twice, no `..`,
and no more than the 32 headers the loops look at).

*Heap.* `HeapInv` says that either nothing has been asked for yet, or there is a
set of free blocks around which the pointers make a circle in the order of the
addresses (`Circle`), free and held blocks together cover the areas that
came from `sbrk()` exactly once (`Laid`), and no free block ends where
another begins (`Settled`). The set is not part of the state: `OnceRoundIsAll`
shows that it is what a walk along the list finds. `free()`'s search ends because a circle in that order has a
place for every address (`PlaceFound`), and joining upwards and downwards keeps
the circle. `malloc()`'s loop ends at a block that is large
enough or comes back to `freep`, and then `morecore()` puts a new block
in, of which the loop takes the end. `HeapImplementsAllocator` follows from the same
invariant: what `malloc()` returns was free, so nobody holds any unit of it, and
it is as long as asked for.

*Induction.* Induction theorems that take an operator cannot be instantiated by
the provers that are used here. `AscendingProofs` has the same principle for a set of
numbers (`AllNumbers`), which can: the walk along the list of the heap and the
rank of a number in a set are reasoned about with it. (The paths of
`NamesResolve` have at most three parts, so `WalkedIs` needs no induction.)

Model-checked only: liveness and its fairness (`InterruptsServed`, `SleeperWakes`,
`WaitpidReturns`, `InitReaps`, `LineDelivered`), which is out of the prover's
reach. Every safety property that a passing run checks is a theorem.

## 5. Not modelled

- Frames of page tables and several page tables per task: `getPTE()` follows
  entries without looking at present bits, so a page outside the mapped tables
  makes it read physical page 0 as a table; what is there is not the program's.
- Boot: `initializeFreelist()`, `setupPageTables()`, GDT, IDT and PIC set-up run
  once, alone, and their result is the initial state of the modules.
- The layout of the argument block and of ELF segments; strings, numbers and
  formatting (libc, `kprintf`'s numbers, the shell's parser).
- Keys whose entry of `code_map` lies outside the table (CapsLock, scan code
  58), and anything after a write outside a table or buffer: what is hit is the
  linker's choice, so the models end there.
- `kill()` of init, idle, the caller or a free slot in the runs: the action has
  the classes (`KillClasses`), and section 4 says what they break.
- Vendored boot loader, unused AHCI header.

The build order was: `Process` and its proofs, `Keyboard` with `LineInput`,
`Memory` with `PrivateMemory`; then `Screen` and `Terminal`, `Heap` with
`Allocator`, `Tarfs`; then the proofs. What could follow: `waitpid()` of a task
that is no child, and a composition of `Process` with `Memory` in which `Exit` and
`Reap` are joint steps.
