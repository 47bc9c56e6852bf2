# LF OS: TLA+ models, checks and proofs

LF OS is a small microkernel-style operating system for amd64. This directory models what its
processes depend on, from the firmware's memory map to the terminal: the process table and the
scheduler, mutexes, condition variables, message queues and interrupts (the concurrent core); the
tables these live in; memory management; the loader; and what a user sees and types. TLC checks the
models on small instances. TLAPS proves for every value of the constants all safety and action
properties of the core, of its tables, and of memory management and booting, and most of those of the
log, the console and the terminal.

Paths below are relative to the repository's `src/kernel/` unless they say otherwise.

## 1. The system

There is one CPU. The kernel is entered by a system call, an exception or a hardware interrupt, runs
with interrupts off, and returns into the process `scheduler_current_process` or into the idle loop.
No kernel thread exists, so **a handler together with the scheduling decision at its end is
atomic**: what interleaves are the system calls of the processes, the interrupts and the clock.

| Component | State | Operations | Works with |
|---|---|---|---|
| Process table and scheduler (`arch/amd64/scheduler.cpp`) | `processes[MAX_PROCS]` (state, wait reason and data, parent, queue), `scheduler_current_process`, `last_scheduled` | start_task, clone, exit, kill, sleep, wait_for, waitable_done, schedule_next | all others block and wake through it |
| Mutexes (`mutex.cpp`) | TPA of `{holder, state}`, `next_mutex` | create, destroy, lock, trylock, unlock, unlock_holder | scheduler_waitable_done locks on behalf of the process it wakes |
| Condition variables (`condvar.cpp`) | TPA of `{wait_count}`, `next_condvar` | create, destroy, signal, wait | scheduler |
| Message queues (`mq.cpp`) | TPA of queues (list of pages, counters, teardown notifiers), `next_mq` | create, destroy, push, peek, pop; mq_poll and mq_send in `scheduler.cpp` | scheduler wakes readers; destroy calls back into `sc.cpp` |
| Interrupts and dispatch (`arch/amd64/sc.cpp`) | `interrupt_queues[16]`, flexarrays of queue ids | interrupt_handler, add/del/delall_queue, syscall_handler | message queues, scheduler |
| flexarray, memmove (`flexarray.cpp`, `string.cpp`) | array with length and allocation | append, prepend, remove, find | interrupts, service discovery |
| TPA (`tpa.h`) | linked pages of entries | get, set, next, delete | every table above |
| Service discovery (`sd.cpp`, `uuid.cpp`) | list of services with queues, shortcuts per key | register, send | message queues |
| Physical memory (`mm.cpp`) | list of free page ranges | alloc, free, mark | takes pages of the kernel heap for itself |
| Virtual memory and heap (`arch/amd64/vm.cpp`) | page tables, blocks of the heap | map, unmap, alloc, free, copy on clone | mm, clone, sbrk |
| Allocators, slab (`allocator/`, `slab.cpp`, `bitset_helpers.h`) | bitmaps of pages | allocate, deallocate | vm |
| ELF (`elf.cpp`) | | load a program | mm, vm |
| ACPI, HPET (`drivers/`) | the clock's registers | find and start the clock, read it | sleep |
| Log, console, panic (`log.cpp`, `drivers/fbconsole.cpp`, `arch/amd64/panic.cpp`) | pages of messages, framebuffer and back buffer | append, write, scroll, panic | a process may own the framebuffer |
| Loader (`src/loader/`) | what LoaderState says, page tables | load files (disk or network), take the memory map, leave boot services, hand over | firmware, kernel |
| Terminal (`src/userspace/term/`) with libvterm | parser, cursor, modes, screen, pen, input buffer | write, draw, key press, read | interrupts of the keyboard |
| libpthread, other programs, build tools | | | not modelled |

What is hard here: a lock changes hands inside somebody else's unlock; a process ends while it holds
locks, while others wait for it, and with its queue still registered for interrupts; interrupts push
to queues between any two system calls; wake-ups must not get lost; nobody may starve in the two
round-robin scans; counters wrap; `scheduler_current_process` is `-1` while the CPU idles and the
checks for it are unsigned. Beside the core: a list of free pages that takes pages from itself while
it changes; caches of page tables that are compared by index; page and slot counts that are estimated and
rounded; a firmware that changes memory while the loader reads its map; writes and reads that are cut anywhere. `PROJECT.json` lists these places line by line under `hazards`.

## 2. Modules

    Scheduler  <-  Mutex, Condvar, MessageQueue  <-  Interrupts (on MessageQueue)
                              \        |        /
                                    Kernel   (implements Lock)

* **Scheduler** - the process table. `pstate` is the state of a slot, `waiting` its wait record,
  `current` is `scheduler_current_process`, `lastScheduled` the static variable of `schedule_next`.
  A handler computes the states `ps` and wait records `wt` it leaves and passes them to
  `ReturnWith` (end of a system call: the scheduler runs only if the caller cannot go on,
  `schedule_next_if_needed`) or `ScheduleNext` (hardware interrupts). The scan of `schedule_next` is
  stated by what it returns: the ready process that is first when counting from the slot after the
  one scheduled last. Expired sleepers count as ready; in the code they are made runnable and
  chosen in the same iteration.
* **Mutex** - `lockCount` is `mutex_data.state` (nesting depth). `AreHeirs` says who gets an unlocked
  mutex: `scheduler_waitable_done` calls `mutex_lock` for the waiters in scan order, and only the
  first call succeeds. `VisitedFrom` is the loop of `mutex_unlock_holder` over `TPA::next`, as it
  is in the code.
* **Condvar** - `Signalled` is the condition `max_amount--` on an unsigned counter.
* **MessageQueue** - a queue is the sequence of its messages, a message its type and size.
  `teardown` is the set of queues that call `interrupt_delall_queue` when they are destroyed.
* **Interrupts** - registrations per interrupt and `interrupt_handler`.
* **Kernel** - composes them, adds the operations that touch all (`EndCurrent` is exit and kill with
  `scheduler_process_cleanup`, `SchedulerClone`), and states all properties.
* **Lock** - what mutexes promise: re-entrant locks that are handed to one of those who wait, whichever.
  `MutexIsLock` (in `Kernel`) is the refinement; what a lock's users see of processes is who waits for it.

The other parts do not share state with the core as the code uses them (a table is a table, memory is
there or not), so they are modules of their own, which three modules put together. A
behaviour of `Tables`, `Memory` or `Terminal` is about one part, the one that the variable `table` or
`part` names. `KernelData` is `Tables` and `Memory` side by side, for TLC only.

    Tables   =  Tpa, PagedQueue (implements Fifo), ServiceDiscovery, FlexArray
    Memory   =  Loader, Pxe, Acpi, VirtualMemory (on PhysMem), Allocators, Elf
    Terminal =  Parser, VTermState (on Screen), Pen, Keyboard, Console

The proofs are in modules of their own:

    Kernel  <-  KernelProofs  <-  LockProofs
    Tables  <-  TablesProofs  <-  QueueProofs, TpaProofs
    Memory  <-  MemoryProofs  <-  VirtualMemoryProofs
    Terminal  <-  TerminalProofs

* **Tpa** - `tpaPage` maps the address of a page to its fields, `tpaTable` is what callers have stored.
  Freed addresses are handed out again. `clean_page` does not update `next->prev`; once a page is
  unlinked through such a pointer the rest is undefined (`tpaWild`) and the behaviour is not judged.
* **Fifo, PagedQueue** - `Fifo` is the promise (and what `MessageQueue` uses), `PagedQueue` the list of
  pages with push and pop positions and the running average that sizes pages. `QueueIsFifo` is the
  refinement: `fifo` is `Queued`, the unread messages of the pages in list order.
* **ServiceDiscovery** - entries in order of creation, `next`/`prev` as indices, `sdShortcut` per key.
* **FlexArray** - growth (by a 16th in the code, by `FlexFraction` here), get and find. Removal is in
  `Interrupts`.
* **PhysMem, VirtualMemory** - operators map a memory (`mem`: list of free ranges, contexts, tables) to
  the memory after a call, because one call of the kernel nests others: allocating a page may need a
  table, which needs a page, whose range needs a list entry, which needs a page of the heap. Actions are
  `vm_alloc`/`vm_free`, `allocate_pages`/`deallocate_pages` of PageAllocator, and the system calls and faults
  that change a process's memory. `BootMemory` reports the loader's regions one after the other, whether they
  overlap or not. Only page tables, of `Span` pages, take memory; `CopyRange` walks page tables, directories
  (`Dirs`) and pdps (`Tops`) with the tables it looked at last, as `vm_copy_range` does. Addresses wrap at
  `AddressPages`. `mem.state` says why the kernel has stopped: `"oom"` and `"null"` (no memory, no room in the
  heap), `"early"` (a list that is full at boot), `"wild"` (a pointer never written, a missing pdp, a process
  that maps over the kernel), `"hung"` (sbrk's loop that does not end). `lost` is set once a block of several
  pages is given back: page 0 may be in the list of free pages from then on. Growing a heap stops at `HeapPages`,
  a bound.
* **Allocators** - `sized[k]` are the pages of class `k` with bitmap and header, bootstrap pages before
  the heap is up; the slab is a separate part.
* **Elf** - one program header per step into an image of bytes. `PageOffsets` are the values of the loop's
  variable, `PageByte` what one page then holds; a later page hides an earlier one at the same address.
* **Loader** - the firmware (external) owns a type per page and a key; `Areas` are the ranges that
  `initialize_virtual_memory` maps one behind the other; `InitMm` and `InitInit` are the kernel's first use
  of what it was given. `SameName` is `wcscasecmp` as it is: it compares what follows the first difference.
  Phase `"wild"` is undefined behaviour: efi_main writes to memory it did not get, or there is no kernel to
  jump to. `"closed"` is a directory without files, after which load_files uses a handle it has closed. `"stuck"` is one of the endless loops, `"returned"` the way back to the firmware.
* **Pxe, Acpi** - calls of the network stack and tables of the firmware, each intact or not.
* **Parser** - `vterm_input_write` as a function of state and byte; a behaviour feeds the same bytes whole
  and cut, and `agree` compares what came out. The two decoders of UTF-8 are the two that on_text chooses
  from. `wild` is a write behind the array of arguments, of `CsiArgsMax` members.
* **Screen, VTermState** - `term` is one record: cells, cursor, margins, modes, tabs, saved cursor, and the
  picture that `term/main.c` has drawn. One action per parser callback. `ghosts` are the cells in which a cursor
  was drawn that on_csi then moved away; `hung` is a REP that does not end.
* **Pen** - SGR and its report; `Behind` is what memory may hold behind the arguments. **Keyboard** - scan codes on the wire, modifiers, bytes, the input buffer.
* **Console** - log pages (`wild`: something was written behind one), the console's cells in back and front buffer, the process that may own the
  framebuffer, panic.

Conventions:

* The wait record of a slot that is not waiting is reset to `NoWait`. The code leaves the old values
  there but reads them only in state waiting; the reset only merges states that behave alike.
* `error` is the result of the system call made in the step; `"garbage"` where the code returns
  without writing it; `"none"` for steps without an error code.
* `halted` ends a behaviour: `"pids"` is the panic in `setup_process`; the others are undefined
  behaviour with unbounded effects: `"slot"` (the CPU state is saved to or loaded from
  `processes[-1]`), `"irq16"` (`interrupt_queues[16]`), `"memmove"` (the loop that does not end).
  Up to that point nothing is left out: `oob` is the state field the read of `processes[-1]` finds.
* Mutated forms of definitions are marked `Mutant:` and are used by no specification; they
  document what each property would catch.

Bounds of the core, all named constants: `MaxMutexes`, `MaxCondvars` (ids ever handed out), `MaxDepth`
(nesting), `MaxWaits` (wait_count), `MaxItems` (messages in a queue), `MaxRegistrations`, `MaxClock`. `N` is
`MAX_PROCS`, `Boot` the number of boot modules, `Irqs` the length of `interrupt_queues`. In the code
queues have no limit (`mq_create` is never called with one), so a step that would exceed
`MaxItems` is not taken. Bounds of the other modules are marked `bound:` where they are declared.

## 3. Runs

Deadlock is not checked: a halted kernel stops, all processes may end or wait for each other, and the
bounded parts end.

| Run | Instance | Shows |
|---|---|---|
| `locks` (Kernel) | 3 processes, 2 mutexes, depth 2 | `MutexWaitersBlocked` (no stranded waiter), `WokenWithLock` (nobody leaves lock_mutex without the lock), `LockGoesRound` (each hand-over brings every waiter closer), `MutexIsLock` (mutexes implement the abstract locks) |
| `ipc` (Kernel) | 2 boot processes and a child, 2 sizes, 2 messages per queue | `ReadersHaveNothing` (no lost wake-up), `QueuesOfTheLiving`, `ParentIsTold` |
| `irq` (Kernel) | the same, 2 registrations, two contents of `processes[-1]` | `TypeOK`, `RunningIsCurrent`, `ReadersHaveNothing` with interrupts as senders |
| `sched` (Kernel) | sleeping, yielding, cloning, a condition variable, a clock | `CondvarWaitersCounted`, `SchedulerGoesRound` |
| `progress` (Kernel) | fair timer | `EveryoneRuns`: whoever can run, or whose sleep is over, gets the CPU |
| `data` (KernelData) | Tables: 3 TPA pages of 2 entries; 3 messages of 2 sizes; 4 services, 3 with one key, in lists of 3; an array that grows 3 times. Memory: 24 pages of firmware memory, of which the firmware changes two, 3 files; 21 pages for the kernel, not all of them in the direct mapping's region, list pages of 3 entries, 3 heap blocks of 1 to 3 pages, 2 processes, page tables of 2 pages, directories of 3 tables and pdps of 2 directories, a stack of 16 pages with holes, increments that bring the break below 0 and back; 2 slot classes; 2 program headers; 2 ACPI tables | Tables: `TpaIsTable`, `IterationFindsAll`, `QueueIsFifo`, `PagesAccounted`, `SdDelivers`, `FlexKeepsMembers`. Memory: the kernel gets only unused memory and whole files (`UsableIsUnused`, `FilesAreMapped`, `PxePoolBalanced`, `PxeWholeFile`, `ClockIsFound`); nothing is owned twice and nothing in use vanishes (`PagesOwnedOnce`, `HeapBlocksIntact`, `ObjectsAreSeparate`, `HeaderIsHonest`, `SlabObjectsFit`, `DirectMappingCovers`); processes have what they asked for (`ProgramIsLoaded`, `BrkIsBacked`, `CloneIsComplete`) |
| `terminal` (Terminal) | writes of up to 2 of 13 bytes, among them the two of a character in UTF-8, room for 2 arguments; 2 lines of 4 columns, 3 commands on a new terminal and on three prepared screens; 3 attribute changes, one of them the longest report; 3 key presses; a log of 2 pages with messages that fit and ones that do not, a console of 3 lines | `WritesMayBeSplit`, `PictureIsCurrent`, `CursorInBounds`, `ReportsAreTrue`, `InputAsTyped`, `LogKeepsLatest`, `ConsoleShowsLatest` |

Three processes are the least with which a scan order matters (two rivals and one who is passed over)
and with which a parent, a child and a third party exist. Two mutexes are needed for a process that
ends as holder of one and waiter-to-be of another; depth 2 for nesting. Two messages per queue
cover empty, non-empty and full; two registrations give an entry that is last and one that is not.

Three TPA pages give a first, a middle and a last one to remove; three services with one key an insertion
before, between and behind. List pages of three entries make the list of free ranges grow within the
operations of a run, which is when it takes pages from itself. Directories of three page tables are the least
in which a table that is there follows a missing one without having the index of the one before; of the pages
of the stack that processes touch, two are in one directory with a missing table between them, and two have
tables with the same index in different directories. Three commands on a screen that is
already full, with margins or a double-width line, reach every pair of commands and a third one that
sees the result; two lines and four columns give a cell that is at a border and one that is not, in
each direction. Two firmware events and three tries reach a map that is stale twice and one that is not.

`progress` assumes weak fairness of the timer interrupt only. The code justifies it: HPET timer 0 is
programmed to fire periodically (`drivers/hpet.cpp`), and user code as well as the idle loop run with interrupts
enabled; handlers are finite. No fairness is assumed of any process.

Runs that show where the code and its documentation disagree (`findings` in `PROJECT.json` quote both):

| Run | Statement | What happens |
|---|---|---|
| `dead_holder` | an ended process's mutexes are unlocked | `TPA::next` starts at the current index, so `mutex_unlock_holder` stops early; nested locks are unlocked once |
| `signal_amount` | signal unlocks up to `amount` processes | `max_amount--` wraps below 0: with three waiters a signal for one wakes two |
| `irq_cancel` | notifications can be cancelled | with two registrations, cancelling the first runs into the endless loop of `memmove` |
| `regions` | a descriptor that follows is merged with the previous region | `continue` skips the step to the next descriptor, so it is a region of its own as well and the kernel gets its pages twice |
| `long_message` | a process may print a message; the log has a maximal size | after one longer than a page the log is written behind its page |

Seven more configurations end in a violation too and are kept beside the runs of `PROJECT.json`; each checks one
statement that the passing properties except (`tlc -config clone_stack.cfg Memory`):

| Configuration | Statement | What happens |
|---|---|---|
| `sbrk_wrap` (Memory) | sbrk increments the data segment by `inc` bytes (`syscalls.yml:63`) | the sum (`arch/amd64/scheduler.cpp:397`) wraps at 0: a process that took too much and adds again is told of bytes that are not there |
| `clone_stack` (Memory) | clone clones the process (`syscalls.yml:17`) | `vm_copy_range` (`arch/amd64/vm.cpp:634`, `:665`) takes a table with the index of the one before for that one: the child lacks pages of the stack behind a hole |
| `direct_region` (Memory) | only memory in the region of the direct mapping will be usable (the log at `arch/amd64/vm.cpp:70`) | the list of free pages still has the rest, and hands it out |
| `large_page` (Memory) | pages that are given back are not allocated any more (the count at `allocator/page.h:26`) | `deallocate_pages` (`:77`) looks up the first page each time: the others are lost, page 0 is marked free |
| `empty_margins` (Terminal) | the scroll region has a width (the check at `state.c:1576`) | DECSLRM (`state.c:1492`) with a left margin of `cols` and no right one keeps it |
| `many_args` (Terminal) | a sequence has 16 arguments (`vterm_internal.h:216`) | the parser (`parser.c:233`) writes behind its array (room for 2 in the run) |
| `utf8_split` (Terminal) | writes may be split in a character (`t/10state_putglyph.test:20`, "UTF-8 split writes") | not behind ASCII text: the rest goes to the other decoder (`state.c:284`) |

Further disagreements are visible without a run: `wait_count` never decreases
(`condvar.cpp:68`), so `destroy_condvar` fails for ever after the first wait; clone panics
(`halted = "pids"`) where `syscalls.yml` says -1 denotes an error; and sbrk returns the old end of the data
segment (`scheduler.cpp:418`) where `syscalls.yml:63` says the new one.

What the passing runs and the theorems except, because the code fails there, is part of the properties and
is shown by a counterexample where a line of the repository promises otherwise:

| Property | Does not speak of | Run or configuration |
|---|---|---|
| `PagesOwnedOnce`, `DirectMappingCovers` | regions that overlap or have page 0 (`RegionsApart`) | `regions` |
| `PagesOwnedOnce`, `DirectMappingCovers` | what follows a block of several pages given back (`lost`) | `large_page` |
| `DirectMappingCovers` | memory behind the direct mapping's region | `direct_region` |
| `BrkIsBacked` | processes whose break has wrapped, and clones that were to share a heap | `sbrk_wrap` |
| `CloneIsComplete` | ranges in which two tables one after the other have the same index, or that begin inside a table or directory that is missing (`CachesHold`) | `clone_stack` |
| all of memory | what follows a state other than `"ok"`: among these sbrk's endless loop in the first page, a missing pdp, a list that is full at boot | |
| `CursorInBounds` | the width of a region whose left margin is behind the last column | `empty_margins` |
| `PictureIsCurrent` | cells of `ghosts`, and a terminal that is `hung` in a REP before any text | |
| `ReportsAreTrue` | margins that are empty or stored without effect, a cursor shape never set (the report is not initialised), reports of more than 16 arguments | `empty_margins`, `many_args` |
| `WritesMayBeSplit` | a write that ends in a character behind ASCII text (`torn`); controls in the beginning of a sequence and characters broken off by text (`clean`) | `utf8_split` |
| `LogKeepsLatest` | what follows a message longer than a page | `long_message` |
| `TpaIsTable`, `IterationFindsAll` | what follows a removal through a `prev` that is out of date | |
| `SdDelivers` | queues of a service that lost its entry to a colliding one | |

## 4. Proofs

Every theorem holds for all values of the constants that satisfy the named `ASSUME`s, which TLC evaluates
in the runs. These say that bounds are naturals and sizes positive, and: `1 <= Boot <= N`; `OobStates` are
states or garbage; 0, which stands for memory never written, is no value of an array or table; a program
header has no more bytes in the file than in memory; an ACPI table is intact or not, an HPET or not; the
pages of the machine are numbered from 1 and there is a last one; the regions of a process's address space
fit into it; tables above page tables have two entries or more; the keys are ones `Keyboard` knows; the
terminal has two columns or more; letters and arguments are numbers; and what ran before is a sequence of
commands. Nothing is assumed of the loader's regions, of the increments of sbrk, of the length of messages
or of the order of commands: what the properties do not speak of is in the table of section 3.

| Theorem | Property | Module |
|---|---|---|
| `TypeCorrect` | `TypeOK` | KernelProofs |
| `OneRunning` | `RunningIsCurrent` | KernelProofs |
| `NobodyLeftBehind` | `MutexWaitersBlocked` | LockProofs |
| `LeavesAsHolder` | `WokenWithLock` (action) | LockProofs |
| `MutexesAreLocks` | `MutexIsLock` (refinement of `Lock`) | LockProofs |
| `NoLostWakeup` | `ReadersHaveNothing` | LockProofs |
| `QueuesLiveAndDie` | `QueuesOfTheLiving` | LockProofs |
| `ParentsAreTold` | `ParentIsTold` (action) | LockProofs |
| `CondvarsOutliveWaiters` | `CondvarWaitersCounted` | LockProofs |
| `NobodyIsPassedOver` | `SchedulerGoesRound` (action) | LockProofs |
| `LocksGoRound` | `LockGoesRound` (action) | LockProofs |
| `ArraysKeepMembers` | `FlexKeepsMembers` | TablesProofs |
| `ServicesAreDelivered` | `SdDelivers` | TablesProofs |
| `QueuesAreFifo` | `QueueIsFifo` (refinement of `Fifo`) | QueueProofs |
| `QueuePagesAccounted` | `PagesAccounted` | QueueProofs |
| `ListIsTable` | `TpaIsTable` | TpaProofs |
| `IterationIsComplete` | `IterationFindsAll` | TpaProofs |
| `PoolIsBalanced` | `PxePoolBalanced` | MemoryProofs |
| `FilesAreWhole` | `PxeWholeFile` | MemoryProofs |
| `SlabsHoldTheirObjects` | `SlabObjectsFit` | MemoryProofs |
| `ClockIsAlwaysFound` | `ClockIsFound` | MemoryProofs |
| `ProgramsAreLoaded` | `ProgramIsLoaded` | MemoryProofs |
| `ObjectsStaySeparate` | `ObjectsAreSeparate` | MemoryProofs |
| `HeadersStayHonest` | `HeaderIsHonest` | MemoryProofs |
| `UsableMemoryIsUnused` | `UsableIsUnused` | MemoryProofs |
| `FilesStayMapped` | `FilesAreMapped` | MemoryProofs |
| `PagesAreOwnedOnce` | `PagesOwnedOnce` | VirtualMemoryProofs |
| `HeapBlocksStayIntact` | `HeapBlocksIntact` | VirtualMemoryProofs |
| `HeapsStayBacked` | `BrkIsBacked` | VirtualMemoryProofs |
| `DirectMappingAlwaysCovers` | `DirectMappingCovers` | VirtualMemoryProofs |
| `ClonesAreComplete` | `CloneIsComplete` | VirtualMemoryProofs |
| `KeysAreRead` | `InputAsTyped` | TerminalProofs |
| `LogIsLatest` | `LogKeepsLatest` | TerminalProofs |
| `ConsoleIsCurrent` | `ConsoleShowsLatest` | TerminalProofs |
| `PictureIsDrawn` | `PictureIsCurrent` | TerminalProofs |
| `CursorIsOnScreen` | `CursorInBounds` | TerminalProofs |

### The core

*`KernelInv`.* Neither `TypeOK` nor `RunningIsCurrent` is inductive alone. That a queue id given out
by clone is at most `N` needs that slots fill up in order and are never emptied (`SlotsInOrder`); that
a handler does not disturb a slot it should not needs the caller to be in a used slot, which follows
from its being the running process. So `KernelInv` joins the three, and one induction proves all. The
scheduling decision is abstracted once, by the predicate `Scheduled(ps, wt)` (what any decision does to
states a handler left) and `Handled(ps)` (what a handler may do to states); every action then needs only
two facts: its `ps` is `Handled`, and the decision is `Scheduled`.

*`MutexInv`* adds that ids in the table are below `nextMutex`, so that a new mutex has no waiters. The
argument is about sets: `Waiters` after a step equals `Waiters` before it, less the woken heirs, plus the
caller if it blocks. Unlocking hands the mutex to one of the waiters, or keeps it locked, or finds no
waiter at all. An ending process may unlock many mutexes in one step; for each, the heir is an invariant
of what `mutex_unlock_holder` visits.

*`MutexIsLock`* maps `lockCount`, `holder` and `Waiters` to depth, owner and blocked users of the abstract
locks. A system call on a mutex is a step of one lock; the end of a process may be a step of several;
everything else stutters, because neither the other wait reasons nor the scheduler touch `Waiters` of a
mutex.

*`QueueInv`* has `QueuesOfSlots` (slots are never reused, so queue `p + 1` exists exactly while process
`p` lives), `ReadersOfKnownQueues` (nobody waits on an id not yet given out: a new queue has no readers,
however the slot before it was used) and `ParentsAreOthers` (the queue that is told of an end is not the
one destroyed in the same step). Without the last one `ParentIsTold` fails.

*`CondvarInv`* is like `MutexInv`; the rest is cardinalities: a wait adds at most one waiter and exactly
one to the count, a signal only removes waiters.

*The two rounds* rest on one lemma about `(p - x) % N`: the distance of a slot from the one chosen last
is a number below `N` that differs between slots; the process chosen has the least distance among
those that are ready, so the distance of everybody else who is ready shrinks.

### The tables

The library's induction theorems take predicates, which the provers do not instantiate. Inductions here
are about sets of numbers instead: `LeastNumber` (a non-empty set of naturals has a least member) from the
well-foundedness of `<`, then `NumberInduction`; `Recursion` unfolds a recursive function the same way.

*`FlexInv`*: the members in use are the first `flexCount` of the allocated ones.

*`SdInv`*: entries have ranks that ascend along `next`, so that the list has no cycle and a lookup stops
(`SdRanked`); a `prev` that is set is right, but an entry behind another may have none, since the first
entry of a key does not set it (`SdLinks`); every key in use has a shortcut, to an entry with that key
(`SdShortcuts`); the queues of an entry all registered for its service (`SdReference`); and a service alone
with its key is where the shortcut points (`SdAlone`). Services with colliding keys can get several entries
in the code, so for them `SdDelivers` says less: what is found is theirs.

*`PagedInv`*: there is a numbering of the pages and messages of the queue, never used twice while the
queue lives, that lays the messages out one behind the other between pop and push position. A push or pop
changes it at one end only. The refinement maps `fifo` to the messages in this numbering; `Queued`, which
follows the pointers, is shown equal to it. That no write leaves a page follows from positions and sizes
adding up.

*`TpaInv`*: there is a numbering of the pages, ascending in the entries they hold, along which `next`
leads; every stored value is in its page and no page is empty. `prev` is hardly trusted: `clean_page`
does not update it, so all that is known is that only the first page has none. Once a page is unlinked
through a wrong `prev` nothing is said (`tpaWild`), in the properties as in the invariant.

### Memory and booting

*`PxeInv`* ties the phase of a transfer to what the pool has and what the buffer holds: the same phase is
reached with and without a buffer, and only the file that has grown comes back with one.

*`SlabInv`* says that a slab in use is the one `SlabEntries` computed from its region. The rest is
arithmetic of rounded divisions: header, bitmap and objects together fit.

*`AcpiInv`* states the property between two tables: the last clock among the tables seen so far decides.

*`ElfInv`*: each segment loaded so far is in place. It stays there because the pages of another are
disjoint from it. That one segment ends up in place is about the offsets of the loop's variable: after the
first page they are at page boundaries, as long as there is something to copy; so each page is mapped once,
and all but one that only has zeroes and starts unaligned, which `Loadable` excludes. `Loadable` is part of
the property: it says which files the loader handles.

*`AllocInv`*: every page of a class holds the objects handed out from it, no two in the same slots and none
beyond its entries (`PagesHold`); an object's page is in the list of its class (`ObjectsHavePages`); a page
is in one list only (`PagesOnce`), comes from the heap or from a bootstrap page that is taken, and its
header is what `UpdateHeader` computes (`PagesKnown`). The header is the length of the longest run of zeroes
in the bitmap, so that a run of `n` is found in every page whose header says so; this is the lemma all else
rests on.

*`VmInv`*: unless the kernel has stopped, `MemSound`. Two parts of it hold for every memory map and whatever
is marked free: what is mapped has a table (`Tabled`); blocks of the heap are present and disjoint
(`BlocksSound`); stacks and heaps of processes are present up to a break that has not wrapped, and a context
without a process has nothing (`ProcsSound`). The third, `OwnedBy`, needs regions that do not overlap and ends with
`lost`: a page is in an entry of the list of free ranges, or mapped, or holds a table, or an I/O bitmap, and only
one of these (`ListSound`, `Owned`, with `IopbsApart`); mappings that show a process its own I/O bitmap are
excepted, as in `PagesOwnedOnce`. An operation is a chain of nested calls, so the lemmas are about memories, not
about steps: each call keeps `Sound(m, X)` where `X` are the pages its caller holds in its hands, and says
what of the mapping it leaves alone (`Follows`), which it does for memories that are not sound too. That empty
entries of the list are all zero is needed where the direct mapping grows: it is computed from every entry.

*`ClonesAreComplete`* follows the loop of `vm_copy_range` round by round (`Walks`): all present pages below `v`
have been copied, and the cached page table and directory are the last ones of the range up to `v` (`LastOf`).
`IndicesChange` says that between two tables with the same index there is another one, so the one looked at last
differs in its index and the comparison finds that out. A stride from inside a missing table would land inside
the next one; that it does not needs the walk to be in a table that is there or at the beginning of one
(`AtTable`), which is what the first conjunct of `CachesHold` starts with. Program and heap have no holes below
the break, so for them `CachesHold` always holds (`HeapCachesHold`), and the heap of a clone is there: only
stacks can have the holes that `clone_stack` shows.

*`LoaderInv`*: what the loader has allocated stays its own, whatever the firmware does, since the firmware
takes only pages that are free (`LoaderOwns`). The regions are true of the memory while the key of their map
is current, and for good once the boot services have ended with that key (`MapIsKnown`); an older key may
go with wrong regions, but then `ExitBootServices` fails and the map is read again, or the loader stops.
If no map was ever read there are no regions and the kernel has no memory at all. The areas of the address
space lie one behind the other (`OneBehindTheOther`), so that no page is mapped twice, and all of them
are memory of the loader or the framebuffer; what the kernel is told lies in the scratchpad because the
page tables for the first areas are no more than those for all of them.

### The terminal

*`KeyboardInv`* is about keys in flight. `WireIsTyped` says that what programs have read, then what they
can read, then what the bytes on the wire will become, is what was typed; and that once these bytes are
handled, the counters of modifiers in `keyboard.c` are those of the keys that are down. A key press adds
to both ends of this equation, an interrupt moves bytes from the wire to the buffer, a read from the
buffer to the program. A scan code of two bytes may be cut between them, so the state of the decoder is
part of it.

*`LogOK`*: there is a function `f` such that page `i` of the log ends with message number `f[i]`, where
`f[0]` is the last one given up. Pages without a gap, `log_count` and the bound on pages are all statements about
`f`; giving up the first page shifts it. Only the last page can reach beyond its end, with the message it begins
with, and the next message sets `wild`.

*`ConsoleInv`* is `Showing`. The property speaks of the front buffer while the console is active only; what
makes it inductive is what holds meanwhile: while a process has the framebuffer, the back buffer is empty,
so that a panic may take it back and go on; and before there is memory for a back buffer both are one. A
message that scrolls is cut into characters, and each of these is a step of the induction.

*`ScreenInv`*: unless REP has caught the terminal, screen and picture agree but for the ghosts, and the cursor is
drawn where it is or among them (`Settled`). Within a command
neither is true, so the lemmas are about what the callbacks may leave for the next one. `CurrentBut(t, but)`
says that the picture is right except at some positions, and `Drawn(t, u)` that what was right still is,
whatever the exceptions: it holds of every operation that damages what it changes, and composes. `Went` is
a cursor that has moved and is not drawn yet. Control sequences need a weaker form, `Switched`: one that
restores the saved cursor (DECRST of 1048 and 1049) has drawn it at its new place before on_csi bounds it,
and if the bounds move it again that place becomes a ghost. `Margins` says that the region has a line, that
there is a column between margins of which the right one is set, and that the saved cursor is on the screen and
saves no other modes than visible and blink; a left margin behind the last column is allowed, and the cursor
then stays on the screen because on_csi applies the upper bound last. Of a line of double width the picture is
judged where there are columns, as in the property.

### Checked by TLC only

* `EveryoneRuns`: liveness under fairness is out of the prover's reach. Its two ingredients, that each
  switch brings a waiting process closer and that the timer fires, are `NobodyIsPassedOver` and the
  assumption.
* `WritesMayBeSplit` compares two runs of the parser over the same bytes; that they agree is an induction
  over the bytes of a chunk, for two folds of a function with a dozen states.
* `ReportsAreTrue`: the pen's half says that `SetPen` of the report of a pen is that pen, a statement about what a
  recursion over the arguments computes. Neither this nor the one before has been tried beyond that.
* The runs that end in a violation.

## 5. Not modelled, and why

* Contents of messages and registers, log output, formatting: no property depends on them.
* Descriptor tables, PIC, cache attributes, TLB: set up once, or invisible at the level of pages.
* libpthread: wrappers of system calls; processes do not share memory yet (a shared heap is never mapped),
  so there is nothing its objects could be in.
* User programs other than the terminal: any process may make any system call at any time, which covers
  every program.
* The boot logo, fonts and colour tables: data. The code generators, `fatcreate` and libvterm's test
  harness: tools.
* `mm_mark_physical_pages` splitting an entry: nothing marks a part of a range as used, so the branch
  (`mm.cpp:126`, which computes the rest after it has overwritten the entry) is unreachable. Likewise
  `completed = 0` in `retrieve_memory_map`: the loader's own memory is never a region.
* `set_iopb` maps the second page of the bitmap from `new_iopb * 4 KiB` (`arch/amd64/sc.cpp:150`); the model
  keeps the mapping, no property reads through it.
* Of the terminal: resizing, scrollback, reflow, mouse, selections and the alternate screen's buffer, which
  `term` does not use; characters that are not one column wide; encodings other than UTF-8; what follows a write
  behind the array of arguments; `SS3` and `LS3` (like `SS2` and `LS2`); a modifier key that repeats while
  it is held, which `keyboard.c` counts twice and releases once.
* Of memory: tables above page tables take no pages of their own; pages of 2 MiB and 1 GiB in a process, which
  nothing makes; growth of a heap beyond `HeapPages`, into the stack.
* Of the console: writes cut at 512 characters.

## 6. Plan

1. *Done:* the concurrent core with all its safety theorems and the refinement of its mutexes; the tables
   with their theorems and the refinement of the message queue; memory and loader with theirs; terminal, log and
   console with all but two.
2. *Next theorems:* the half of `ReportsAreTrue` that is about region, margins, shape and protection
   (`StatusIsTrue`), for which `Margins` is most of the invariant; then the pen's.
3. *Next models:* a process table with shared memory and libpthread on top, once the kernel maps shared
   heaps.
