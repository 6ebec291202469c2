# A verification project for the meaty-skeleton kernel

The repository is an i386 operating system kernel with a small libc, a desktop
and a few user programs.  This directory holds TLA+ models of its core logic, TLC
configurations that check them on small instances, and TLAPS proofs of what
matters most for every instance.  Source paths below are relative to
`src/kernel/kernel/` (`arch/` is `src/kernel/arch/i386/`).

## 1. Inventory

| Component | State it keeps | Operations | Hard behaviour | What makes it correct |
|---|---|---|---|---|
| Scheduler (`scheduler/scheduler.c`, `round_robin.c`) | policy bands, `scheduler_lock`, per-CPU `current_task`, `previous_task`, switch flags | make_ready, remove, schedule, yield, block_current_wait, wake, set_policy, tick, safe preemption point, finish_switch | the lock is held across a stack switch and released by another task; interrupts nest; several CPUs | queues and states agree, hand-over fields exact, no stack used twice |
| Tasks (`task/task.c`) | task objects, cleanup queue and its semaphore | create, publish, destroy, exit, idle loop, reaper loop | a task cannot free its own stack | zombies neither lost nor destroyed twice |
| Wait queues, semaphore, mutex (`task/*.c`) | intrusive waiter lists, counts, owner | wait, try, signal, lock, unlock | blocking hands over between two locks | no lost wake-up, mutual exclusion |
| Sleep queue and timer (`task/sleep_queue.c`, `timer/timer.c`) | list ordered by deadline, tick counter | sleep, tick, ms to ticks | a tick between the test and the block | sorted, nobody sleeps past the deadline, bounded earliness |
| Processes, threads, program start (`process/*.c`) | registry, reference counts, state, children, threads, handles | create, retain, release, attach, detach, waitpid, spawn, thread creation | reference counts from several holders; every step of spawn can fail | counts are the number of owners, no use after release, each exit collected once |
| Physical memory, paging, address spaces (`memory/pmm.c`, `paging.c`, `address_space.c`) | frame bitmap, page directories and tables, scratch page, stack slots | allocate, free, map, unmap, create and destroy a directory | partial failures; one scratch page for everybody | no frame owned twice, none leaked, kernel half shared |
| Heap (`memory/heap.c`) | block list, mapped end | kmalloc, kfree, krealloc, expand | splitting, coalescing, growth that fails | the list tiles the heap, payloads intact |
| AHCI disk (`device/ahci.c`, `fs/block_device.c`) | command slot, command table, read-ahead window | read, write | polling time-outs, late completion, no lock | a call that succeeds moved its sectors, the window is never stale |
| Files (`fs/vfs.c`, `fd.c`, `ramfs.c`, `ext2.c`, `partition.c`, `ata.c`) | descriptors, vnodes, mounts, ext2 structures | open, read, write, seek, readdir, mkdir, close | several on-disk structures per operation, no journal; a vnode per lookup; a device that fails | at every moment a file shows what was written to it, a block has one owner, an entry leads to an inode |
| Keyboard, mouse (`device/keyboard.c`, `mouse.c`, `input/*.c`) | scancode state, event rings, line editor | IRQ decode, read, poll | interrupt handler against reader | permits match entries, the decoder agrees with the keys that are held, a click is where the button was pressed |
| GUI (`gui/*.c`) | event ring, window list, dirty region, widgets, terminal sessions | dispatch, create, raise, damage, compose, session input and output | ring against dispatcher, slot reuse | no event is left unannounced, no changed place is left off the screen, the pointer leaves no trace, all of it settles |
| SMP bring-up (`multitasking/*.c`) | CPU table, APIC ids, start-up handshake | enumerate, start AP, park, IPI | time-outs during start-up | a parked CPU never schedules |
| Interrupts (`arch/interrupts.c`, `idt.c`, `pic.c`, `isr_*.S`) | handler table, masks | dispatch, register, mask, EOI | nesting, spurious IRQs | one EOI per real interrupt |
| System calls (`arch/syscall.c`) | none of its own | dispatch | user pointers, CR3 switches | errors leave no residue |
| libc, user programs (`src/libc/`, `src/user/`) | stream buffers | printf, scanf, string, shell | formatting edge cases | reference semantics |

How they interact.  Every blocking object (semaphore, mutex, sleep queue) joins
its own list under its own spin lock and passes that lock to
`scheduler_block_current_wait`, which publishes the task state under
`scheduler_lock` before it releases the first lock.  A dead task is noticed by the
task that runs next (`scheduler_finish_switch`), queued for the reaper and
announced through a semaphore.  The reaper drops the task's references to its
process and address space; the last ones free the frames.  A system call runs with
interrupts off from entry to `iret` unless it blocks; kernel threads (the GUI input
task among them, which starts programs) run with interrupts on.  Only the boot CPU
schedules in this commit; the other CPUs are parked by `multitasking/smp.c`.  These
last two facts decide which interleavings are real, and the models use them.

A key goes from the keyboard interrupt through three rings and two tasks to a shell,
which redraws its line in a terminal session; a mouse packet through two rings and two
tasks to the bars and windows, while the clock and every shell paint and present the
same screen.  Each ring is guarded by a spin lock and announced by a semaphore, two
objects that only agree by the order of the calls.

What in the code is hardest to test is listed, with its line and the
properties that guard it, under `hazards` in `PROJECT.json`; the components that
are not modelled are listed there too, with the reason.

## 2. Modules

| Module | Models | Extended or used by |
|---|---|---|
| `Scheduler` | `scheduler.c`, `round_robin.c`, exit, reaper and idle of `task.c`, interrupt entry and exit, context switch | `MCScheduler`, `SchedulerProofs` |
| `WaitQueue` | `wait_queue.c` with the two scheduler calls it needs | `Semaphore`, `Mutex`, `SyncProofs` |
| `Semaphore` | `semaphore.c` | `SyncProofs` |
| `Mutex` | `mutex.c` | `SyncProofs` |
| `LockService` | abstract: what a mutex promises | instantiated by `Mutex` |
| `SleepQueue` | `sleep_queue.c`, `timer.c` | `InterruptProofs` |
| `Process` | `process.c`, the stages and the reference protocol of `spawn.c`, `user_thread.c`, `task.c`, `address_space.c` | `ProcessProofs` |
| `Heap` | `heap.c` | `MCHeap`, `HeapProofs` |
| `Paging` | `pmm.c`, `paging.c`, the loader `elf.c`, thread stacks of `address_space.c` | `MCPaging`, `PagingProofs` |
| `Ahci` | `ahci.c`, `block_device.c`, the controller as environment | `MCAhci`, `AhciProofs` |
| `Ext2` | `fs/ext2.c`: allocation, pointer tables, inodes, directories, every disk write a step | `Files` |
| `Files` | `fs/vfs.c`, `fs/fd.c`, the file calls; errors and crashes | `MCFiles` |
| `Keyboard` | `device/keyboard.c`: decoder, modifiers, the two rings | `Console` |
| `Terminal` | the text and the scroll-back of `gui/terminal_session.c` | `Console` |
| `Shell` | `src/user/sh.c`: line editor, history, redrawing, words | `Console` |
| `LineEditor` | abstract: what a line editor promises for each key | instantiated by `Console` |
| `Console` | composition: interrupt, `gui/input.c`, GUI task, session ring, shell, system calls | `MCConsole`, `InterruptProofs` |
| `Screen` | `gui/compositor.c`, the pointer of `input/mouse_cursor.c` | `Desktop` |
| `Windows` | `gui/window.c`, pointer handling of `gui/topbar.c` and `gui/taskbar.c` | `Desktop` |
| `Desktop` | composition: `device/mouse.c`, the cursor task, `gui/input.c`, GUI task, clock, shells | `MCDesktop`, `DesktopProofs` |

Definitions keep the names of the functions they model.  Next to some definitions
stands a variant with a plausible mistake (`round_down_ticks`, `wake_on_first_permit`,
`merge_any`, ...): it is used in place of the real one to confirm that the
properties notice (`mutants` in `PROJECT.json`), and by nothing else.

### Scheduler

The critical sections of `scheduler_lock` are single steps.  A switch is three
steps with the lock held across them (`scheduler_schedule` or
`scheduler_block_current_wait`, `arch_context_switch`, `scheduler_finish_switch`),
because the stack changes in between and the task that releases the lock is not the
one that took it.  What a context still has to do when it gets the CPU back is a
frame on its kernel stack (`kstack`): an interrupt being handled, the tail of
`finish_switch` after the lock is released, the signal it owes to the reaper.  So an
interrupt may come at every point where IF is set, and only there.  `phase` says
where in a switch a CPU is, `stack` which context's stack it is on.  Saved EFLAGS
words are `zero` (nothing saved), `if0` or `if1`.

The cleanup queue is the list the code keeps: `cleanup_head`, `cleanup_tail` and a
`cleanup_next` in each task.  A push resets the `cleanup_next` of the task it pushes, so
when a zombie is pushed that is in the queue already (finding 1) the zombies behind it can no
longer be reached from the head.  The history variables `requeued` and `cut_off` remember
that this has happened and to whom.  `ReaperSeesAll` says that nothing else loses a zombie:
one that has exited is on its way to the queue, reachable from its head, or was cut off
by such a push; without one, nobody is.

### WaitQueue, Semaphore, Mutex

One action per critical section of `queue->lock`; `pc` says where in a call a context
is.  `wlock` is held across steps only between the push on the queue and the
publication of BLOCKED.  Popping a waiter and waking it are two steps, because
`scheduler_wake` is called after the lock is released.  A signal leaves its permit in
`count` and the woken task has to compete for it: barging is part of the model.
Interrupt handlers may signal but not wait.  A READY task may step at any time:
which one runs is the scheduler's choice.

### SleepQueue

`time` counts milliseconds beside `system_ticks`, since the argument of `task_sleep`
is in milliseconds.  The tick handler pops one expired task per critical section and
wakes it outside; the lock is free between two pops, but on the one CPU that schedules
nobody else runs there, as the handler runs with interrupts off.  The deadline saturates at `TickMax`
(UINT64_MAX), which the run reaches.

### Process

A caller's remaining work is a list of frames in `todo`; a frame that stands for a
reference is where that reference is counted.  Before there is a process, spawn is a
sequence of stages (`Stages`), each with what it acquires, what it no longer needs, and
what its error branch gives back; `held` is what the caller has not given back.  A
system call that spawns does these stages with interrupts off, and they touch nothing
shared but the heap and the frames (see `Paging`), so they are one step with any
outcome.  The context of a new task passes from its creator to the task
(`task_entry`).  An address space is named by the process created for it.  `panic`
holds the reason once the machine has stopped.  `realtime` are the worker threads, which
`user_thread_create` makes REALTIME; main threads and the reaper are NORMAL, and a
NORMAL task is only sure to get on while no REALTIME one can run (`MayRun`).  Each
zombie is reaped once here: what finding 1 does to the queue is not seen in this module.  Handles and
`process_remove_child` have no caller and are left out.

### Heap

Bytes, block headers (`blk`) and, beside them, what the clients wrote (`mem`), so that
a header or a copy that lands in somebody's payload is seen.  Every public operation
is one step, for it runs under `heap_lock`.

### Paging

A frame is a directory, a table or a page.  All access to a frame that is not mapped
goes through the scratch page in three critical sections (map, write, unmap) that
nothing connects: a `Loader` (kernel task, interrupts on) can be interrupted between
them, a `Caller` (system call, interrupts off) cannot, but may come in between.
Assumed of the build: programs are linked at addresses whose directory entries the
kernel does not use.  `stuck` are the directories of processes whose spawn failed
after creation (see `Process`).

### Ahci

The driver builds a command in the one command table, issues the one slot, polls and
gives up after a while; the device is the environment: it fetches the table when the
slot is issued, moves sector by sector, may fail at any of them, and may go on after
the caller has given up.  Small reads go through the window of sectors read ahead.
A system call runs with interrupts off; a kernel task (it reads programs and pictures, and
never writes) can be preempted between any two steps, and a system call may come in
between.  Both are in the run.  What the driver promises does not hold of callers that meet
like this (finding 3), so the history variable `overlapped` remembers a meeting.  It
is over as soon as a call that is alone in the driver closes the window
(`Invalidate`: before the command that fills it, and before any write) while the slot is
idle, and from then on everything is claimed again: no damage outlives that moment.

### Ext2, Files

`disk` is what the device holds, `super` the free counts in memory, `file` the table of
descriptors with the inode copy and the cached pointer tables each has.  A call is a list
`todo` of the disk writes it still has to do, in the order of the code, so that between
any two of them the device may refuse (`Fail`, then the error path of that place) or the
power may go (`Crash`: the machine mounts the disk as it is).  A byte of a file is named
by its inode and position, so that a block read from the wrong place, or a stale one, is
seen.  Data blocks of one run are moved together, as the code does; a block is two bytes,
one direct pointer, then the single and the double indirect table.

`BlocksOwned` holds at every moment between two disk writes, so the disk that a power
loss leaves is one it speaks of: no block is reached from two places, and the only inode that
leads to blocks whose bits are not set (`Loose`) is that of the running call, and only to
blocks this call has taken or freed (`MayBeLoose`).  A write does leave them loose for a while:
it puts pointer tables on the disk before the bitmap.  If the power goes just then, or the
write fails and a later one through the same vnode commits the pointers, they stay loose; then the
claim that nothing is loose between calls (`NothingLoose`) is false (finding 7).

What later calls make of such a disk is not claimed.  Three cases leave the disk or a vnode
inconsistent, are marked by the history variable `spoiled`, and the run does not go beyond them
(`Unspoiled`): a write that fails after allocating, or a power loss after its pointer tables
were written and before its bitmap was; a truncation interrupted after it freed blocks of a
live inode; and a write through a descriptor whose inode copy another descriptor has
overtaken.

### Console, with Keyboard, Terminal, Shell and LineEditor

One stroke is a sequence of bytes on the `wire`; each byte is an interrupt.  The reader
of a run is a shell in a session, a shell on the console or a program that reads key
events.  Screen cells hold characters, columns wrap, the history is a ring of lines.  As
long as no ring overflowed (`EditsLine` follows it), every key must have exactly the
effect `LineEditor` gives it, whatever bytes, permits and escape sequences it went
through; of what a full ring drops nothing is claimed but that the semaphores still agree.

### Desktop, with Screen and Windows

The screen is one row of places.  `front` says of each whether the framebuffer shows what
the backbuffer holds, something older, or the pointer; `back` which window was painted
there last.  A painter's call is a list of steps (`job`), cut where it can be preempted.
Left out: the second dimension (dy takes the same way as dx), hovering, hidden windows,
widget layout.  The copy of one place is atomic: a presenter preempted between loading and
storing one pixel could still store an old one, which the model does not see.  Nor does it see
what a window's own surface holds: the clock and the GUI task both redraw that of the top bar
without a lock (`gui/topbar.c:1344`, `:1643`).  `ideal` is the pointer and the menu, had every packet been
handled at once; accumulated movement is clamped once per flush and not once per packet,
so nothing is claimed once the pointer met an edge or an event found the ring full (`lost`):
`EventsExact` says that what is not dropped is right, not that a release is never dropped.  `Init` is the state
after `gui_desktop_initialize`, which runs before interrupts are enabled.

## 3. Runs

| Run | Instance | Properties | Shows |
|---|---|---|---|
| `scheduler` | 1 CPU, a kernel and a user task, reaper, idle, 2 bands, quantum 2, 2 nested frames; or 2 CPUs, the kernel task, reaper, idles, 1 band | RunQueueConsistent, SwitchExact, ReaperSeesAll, DeadStaysDead | states and queues agree, a switch hands over exactly its fields and its stack, no zombie is revived or lost but behind one that was pushed twice, permits never fall short of the queue |
| `scheduler_cleanup` | 1 CPU, 1 band | HandedOverOnce: violated | finding 1 |
| `semaphore` | 4 tasks, 1 interrupt handler, counts up to 2 | NoLostWakeup, PermitsAreUsed | no lost wake-up, no permit unused beside a sleeper |
| `mutex` | 4 tasks | ServiceSpec, WaitersGetOn | implements `LockService`; the mutex does not stay free while somebody waits |
| `sleep_queue` | 3 tasks, 2 ms ticks, sleeps of 1, 4, 5 ms, ticks up to 5 | SleepersTracked, AlmostLongEnough, SleepersWake | sorted, nobody lost or overdue, at most two ticks early, everybody wakes |
| `process` | 3 tasks, 3 process ids, 2 stack slots | CountsExact, NothingLeaked, NoUseAfterFree, ZombieIsFinal, ExitedBecomesZombie | every count is the number of owners and nothing acquired is leaked, at every failure of spawn and every race of exit, reaper and waitpid; an exited process becomes a zombie once no REALTIME worker keeps the reaper out |
| `heap` | 3 clients, 3 pages of 16 bytes, sizes 1, 7, 17, 64 | ListWellFormed, PayloadIntact | the list tiles the heap, no payload is ever changed |
| `paging` | 9 frames, a loader, a system call, 2 programs, 2 stack slots | FramesAccounted, KernelShared, NoStaleData, ScratchPrivate | every frame has one owner on every path, failures included |
| `ahci` | a system call, a kernel task, 3 sectors, a window of 2, 2 patterns | CacheCoherent, CompletedExact | the window is not stale and success means moved, but for calls that meet in the driver; the next one that is alone with an idle slot ends it |
| `files` | 2 groups of 6 blocks and 2 inodes, 2 descriptors, 3 paths, 4 calls, blocks of 2 bytes | FilesIntact, HandlesCoherent, BlocksOwned, DirectoriesSound | at every moment up to and including a crash or error, and after those that are not `spoiled`: a file reads back what was written, a block has one owner and is marked as used unless the running call is at work on it, a directory leads only to what exists |
| `console` | rings of 2, 5, 2 and 4, 8 columns, 3 rows, 5 lines of history, 3 or 4 strokes, three kinds of reader | KeysHeld, PermitsMatch, ScreenShowsLine, ScrolledViewStays, EditsLine, EverythingRead | the decoder agrees with the keys, rings with their semaphores, the screen with the line, and the line is edited key for key as `LineEditor` says |
| `desktop` | 6 places, a pointer of 2, 3 windows, 2 bars, 2 menus, rings of 2, up to 4 packets, a key, 2 paints | ScreenExact, PermitsExact, EventsExact, SceneShown, FocusOrder, Settles | nothing changed is left off the screen, the pointer leaves no trace, clicks are what the packets said, all of it settles |

The type invariants are checked as the first conjunct of a property of the same run
(`SleepersTracked`, `CountsExact`, `ListWellFormed`, `FramesAccounted`, `CacheCoherent`)
or proved (`Scheduler`, `Semaphore`, `Mutex`; as parts of an invariant, `Console` and `Desktop`).

Configurations kept beside the runs: `MCSchedulerLost.cfg`, `MCProcessOrphan.cfg`,
`MCProcessStarve.cfg`, `MCAhciPreempt.cfg`, `MCFilesLoose.cfg`, `MCDesktopOrder.cfg`, `MCConsoleTab.cfg`
and `MCConsoleWrap.cfg` each show the counterexample of one of the findings below.

### Bounds, and why they are enough

* Scheduler: the interesting races are between one task that leaves a CPU and one
  that enters it, with an interrupt in between; two tasks, the reaper and idle give
  every pair of roles, depth 2 lets a frame be interrupted while another waits below
  it.  Two bands suffice to move a queued task.  On two CPUs (`online` in
  `MCScheduler` is chosen at the start) a single user of the run queue beside the reaper
  is what they fight for.  That is how the locking is written, but this commit only
  lets the boot CPU schedule: the half with one CPU is the shipped system.  Only the kernel task changes bands.
* Semaphore, mutex: a sleeper, a woken task, a barging task and a releaser can be
  distinct; `MaxCount` 2 lets a permit be left over and the count be full.
* SleepQueue: sleeps shorter than a tick, of whole ticks, and not of whole ticks; a
  call just before a tick and with a tick pending; a saturated deadline and the tick
  counter at its wrap.
* Process: a parent, a child and the kernel process; a second thread in one of them,
  and both stack slots taken.  The orphan of finding 2 needs a grandchild, hence 4 ids.
* Heap: three allocations give every position of a free block between two used ones;
  sizes that leave a remainder too small to split, that fit, that need another page,
  and that overflow the alignment; the third page is the limit.
* Paging: 9 frames hold two programs under construction only just, so that every
  allocation fails somewhere; a third load always does.  The second program maps one
  page twice, which fails late.
* Ahci: a request that fills the window, one for the last sector (found in the window,
  or read with nothing left to read ahead), one of more than a window, one beyond the
  end; two patterns that differ in every sector.  The kernel task reads a window's worth,
  the one thing that opens the window; system calls ask for everything.
* Files: a write of 11 bytes uses the direct block, the single table and a leaf of the
  double table and crosses into the second group; two such writes fill the disk.  Four
  calls: open, write, and two more by the other descriptor (truncate, append, create in
  a new directory) with an error or crash anywhere.
* Console: rings that three strokes overflow; a line of two characters that fills its
  buffer; a history of two; text that wraps and scrolls; pause and print screen with
  modifiers held.
* Desktop: four bounds of a behaviour (`Budgets`): four packets open, use, drag off and
  close a menu; three packets and a key launch both terminals and change the focus;
  two packets, a key and a paint, or one packet and two paints, put two presenters at
  work while the pointer moves.  One rectangle of damage makes the table overflow.

`CHECK_DEADLOCK FALSE` appears where the system may stop: the machine has halted or
panicked (scheduler, process, paging), the bounded clock has run out (sleep queue), or
the user has done all the bound allows (files, console, desktop).

### Fairness

Nothing obliges a program to make a call, so no fairness is put on the entry of a
call.  Round robin gives each READY task of a band its turn; bands are strict (`scheduler.c:47-52`,
`:314-332`), so a task waits as long as one in a band before its own can run.  Semaphore,
mutex: a context that has begun a call goes on while it is runnable; the tasks are
those of one band.  SleepQueue: time passes, a tick is handled before the
next is due (interrupts are off for much less than a period), and a task that holds
`sleep_lock` with interrupts off runs on.  Process: the main threads and the reaper are
NORMAL, worker threads REALTIME.  A begun call, and the reaper, which the
semaphore wakes, runs on when its task is REALTIME or no REALTIME task can run (`MayRun`); a task in user
mode may stay there for ever.  So `ExitedBecomesZombie` is claimed where from some
time on no worker is runnable any more; without that it is false (finding 8).  Console, Desktop: interrupts
are taken, and the cursor task, the GUI task, the readers and every painter that has begun a
call run on.  All of these are NORMAL, and round robin gives each its turn as long as
nothing in a higher band, which would have to be a worker thread of some program (`user_thread.c:536`),
keeps running: the modules have none, and with one that loops neither `EverythingRead`
nor `Settles` would hold.  Nothing obliges the user to strike a key or a shell to write.

## 4. Findings

1. `scheduler_cleanup`: `scheduler_finish_switch` releases the lock and restores IF
   before `task_internal_finish_switch` reads `previous->state`.  An interrupt there can
   run the previous task until it exits; the zombie is then queued twice, and
   `cleanup_pending` stays one too high.  If it is still in the queue at the second push, what stands
   behind it is cut off (`MCSchedulerLost.cfg`, `NoneCutOff`) and never destroyed; if it was the
   last, it links to itself or is met again by the reaper after it was freed, and the kernel halts.
2. `MCProcessOrphan.cfg`: nothing takes over the children of an exiting process; when its
   parent collects it, the assertion at `process.c:965` stops the kernel
   (`NoOwnedChildrenAtDestruction`).
3. `MCAhciPreempt.cfg`: slot, command table and window have no lock; a preempted kernel
   task (the GUI task reads programs with interrupts on, `gui/taskbar.c:1170`) marks
   sectors as valid that a system call has overwritten meanwhile (`WindowNeverStale`, against
   `ahci.c:1440-1445`).
4. `MCDesktopOrder.cfg`: a terminal that is not in front composites its window alone
   (`gui/terminal_session.c:923`) over the windows and menus in front of it, where it stays
   until something else renders; `gui/desktop.c:712` says that normal windows are
   "compositor-ordered by the first window focus registry" (`ScreenInOrder`).
5. `MCConsoleTab.cfg`: the shell counts a tab as one column, the terminal advances to the
   next stop, so redrawing a line with a tab leaves characters behind although
   `src/user/sh.c:441-444` erases "characters left over from a previously longer editable
   line" (`ScreenShowsLine`).
6. `MCConsoleWrap.cfg`: a line of 72 characters after the prompt `meaty:/> ` is longer than
   the 80 columns, and a carriage return goes back to the start of the last row only, so
   redrawing leaves the rows before it as they are, although `src/user/sh.c:404` says
   "Redraw the complete editable line".  The `console` run keeps prompt and line shorter than
   a row (`ScreenShowsLine`).
7. `MCFilesLoose.cfg`: the write path of ext2 commits pointer tables (`ext2.c:3124`) before the
   bitmap of the blocks they name (`:3138`), while the creation of a directory does the
   opposite and says why (`:3855`, "Persist the allocation before exposing the block through the
   inode"): after a power loss in between a file owns blocks that are free on the disk, and a
   later file is given them too (`NothingLoose`).  A write that fails after allocating leads to the
   same without a power loss, when the next write through the vnode succeeds.
8. `MCProcessStarve.cfg`: the reaper is NORMAL so that it cannot "starve forever"
   (`task.c:1167-1172`), but every thread of `user_thread_create_current` is REALTIME
   (`user_thread.c:536`), and bands are strict: a worker that does not block keeps the reaper
   out, and the process whose threads have all exited never becomes a zombie
   (`ReaperNeverStarves`).

Other places where code and documentation differ, known but without a run of their
own: `task_sleep` may return up to two ticks early although `sleep_queue.h:14-17`
promises at least the requested time (`AlmostLongEnough` states the bound that does
hold); creation of a user thread halts the machine when there is no stack slot left
(`user_thread.c:442`) or the scratch page is in use (`:508`), where `user_thread.h:22-25`
promises 0; a stale `scheduler_preempt_restore_flags` can be applied by a later voluntary
switch (`scheduler.c:605`, against the comment at `:590`).  After a task file error bit 0 of PxCI stays
set and every later AHCI call fails (`ahci.c:970`).  When the task of a new process cannot
be created, the link of the parent stays and the child is NEW for ever (`spawn.c:734`).
Mapping a user page under a directory entry the kernel uses would give it the user bit
(`paging.c:806`); that the two never meet is nowhere checked.  `gui_window_focus_previous`
only toggles between the two front windows.  The sign of a mouse movement is taken from
eight bits and not from the ninth.

## 5. Proofs

| Theorem | Statement |
|---|---|
| `SchedulerProofs!TypeCorrect`, `RunQueueSafe`, `HandoffSafe`, `CurrentSafe`, `StackExclusion`, `SwitchSafe` | `Spec => []TypeOK`, `[]RunQueueConsistent`, `[]HandoffExact`, `[]CurrentExact`, `[]StackExclusive`, `[]SwitchExact`, for any CPUs, tasks, bands, quantum and nesting |
| `SchedulerProofs!DeadNeverRun`, `ReaperHearsOfAll` | `Spec => DeadStaysDead`, `[]ReaperSeesAll`, for the same |
| `SyncProofs!SemaphoreNoLostWakeup`, `SemaphoreNoStrandedWaiter`, `SemaphoreWakeups`, `SemaphoreTypes` | `SemaphoreSpec => []BlockedIsReachable`, `[]NoIdlePermit`, `[]NoLostWakeup`, `[]SemaphoreTypeOK`, for any finite set of tasks and any handlers |
| `SyncProofs!MutexImplementsLock`, `MutexNoLostWakeup`, `MutexNoStrandedWaiter` | `MutexSpec => ServiceSpec`, `[]BlockedIsReachable`, `[]NoStrandedWaiter`, for any finite set of tasks |
| `InterruptProofs!SleepersAreTracked`, `NobodyWakesEarly` | `SleepSpec => []SleepersTracked`, `AlmostLongEnough`, for any tasks, timer frequency and sleeping times |
| `InterruptProofs!PermitsMatchAlways`, `KeysHeldAgree` | `Spec => []PermitsMatch`, `[]KeysHeld` of `Console`, for rings of any size, any keys and any number of strokes |
| `InterruptProofs!ScrolledViewStaysAlways` | `Spec => ScrolledViewStays`, for any columns, rows and history, any prompt, commands and editing |
| `ProcessProofs!CountsAreExact`, `NobodyUsesFreed`, `ZombiesAreFinal`, `SpawnLeaksNothing` | `Spec => []CountsExact`, `[]NoUseAfterFree`, `ZombieIsFinal`, `[]NothingLeaked`, for any finite sets of tasks and spawners, any number of process ids and stack slots, any statuses |
| `HeapProofs!ListIsWellFormed`, `PayloadIsIntact` | `Spec => []ListWellFormed`, `[]PayloadIntact`, for any clients and sizes, any alignment, header, page, limit and number of frames |
| `PagingProofs!FramesAreAccounted`, `KernelIsShared`, `NothingIsStale`, `ScratchIsPrivate` | `Spec => []FramesAccounted`, `[]KernelShared`, `[]NoStaleData`, `[]ScratchPrivate`, for any frames, loaders, system calls, programs, directory entries and stack slots |
| `AhciProofs!WindowCoherent`, `CompletedMoved` | `Spec => []CacheCoherent`, `CompletedExact`, for any disk, window and requests, any system calls and any preemptible kernel tasks |
| `DesktopProofs!ScreenSafe`, `PermitsSafe`, `SceneSafe`, `FocusSafe` | `Spec => []ScreenExact`, `[]PermitsExact`, `[]SceneShown`, `[]FocusOrder`, for any screen, windows, terminals, buttons, ring sizes and packets and any finite set of painters |

Scheduler.  The inductive invariant is `IInv`: `TypeOK`, `RunQueueConsistent`,
`HandoffExact` and `CurrentExact` together.  None is inductive alone.  A task that is
picked is fresh only because the queue holds READY tasks and those are current nowhere
(`CurrentExact`); `CurrentExact` survives the stack switch only because the lock is held
by the CPU that switches and by no other (`HandoffExact`), so nobody can pick the
previous task before its stack is left.  `StackExclusive` then follows from
`CurrentExact`: two CPUs that are both in the moment of the switch would both hold the
lock.  One lemma per action, on top of lemmas about append, removal and replacement in
sequences.  `DeadStaysDead` needs no more than `IInv`: a requeue or a wake-up reaches
only tasks that are current or in a queue.  For `ReaperSeesAll`, `RInv` is added: a
zombie is always somewhere on its way (current, being left, in a `finish` frame, reachable
from `cleanup_head`, or cut off); the permits of the semaphore and the signals owed cover
what is queued (`QueueHeld`); and the reaper is BLOCKED only among the waiters and without a
permit, or with a `wake` frame for it on somebody's stack.  "Somebody still owes it" is what makes
a sleeping reaper safe, and it is lost if the frames are not followed through every switch.
"Reachable" is the least set closed under `cleanup_next`; to count it, `QueueHeld` has a chain, an
injective sequence of zombies from head to tail, which may end in a link from a zombie to itself
after the last one was pushed again (`Chain`, `Extra`).  `ChainQueued` says that the chain lists
what is reachable, `PushChain` what a push makes of it (longer by one, or, when the task was in it,
cut after it and led round to it), `PopChain` what a pop does.  That only tasks die, and so only tasks
are pushed, is an invariant of its own (`OnlyTasksDie`).

Wait queue.  `WQInv` (in `SyncProofs`) adds to `BlockedIsReachable` that the queue
lists exactly the tasks with `waiting_on` (`QueueExact`), that the lock is held across
steps exactly by the task between push and sleep (`LockExact`), that whoever is marked
asleep and not woken is BLOCKED (`SleepExact`), and that a popped task has one waker
and is out of the queue (`PoppedExact`): without them a second wake-up, or a pop
between push and sleep, could not be excluded.  The lemmas about the queue's steps are
shared by both users.  `Semaphore` adds the count of awake tasks, with the library's
facts on cardinality of finite sets; `Mutex` adds `OwnerExact`, from which the refinement of
`LockService` follows step by step.

Sleep queue.  `SleepInv` has the parts of `SleepersTracked` (order, no duplicates, exactly
the sleepers) and what they rest on: the clock is at most the one pending tick behind
(`ClockExact`), the lock is held exactly by the task between insertion and sleep, the
task the handler has popped is due, asleep and not queued (`PoppedExact`), and a deadline
reaches to within two ticks of the time asked for (`DeadlineCovers`), which carries
`AlmostLongEnough` over the time between call and wake-up.  Insertion is handled once, as
a lemma about sorted sequences.

Console.  Each of the three properties has an invariant of its own.  `PermitInv` is the
types of the rings and the property itself; a semaphore is signalled for as many characters as
found room (`RoomIs`), and for an event of the GUI only when its ring had room.  `KeyInv` speaks
of every moment and not only of those with an empty wire: the bytes still on the wire lead the
decoder from where it is to the keys held (`DecodesTo`).  A stroke puts bytes on the wire whose
effect is computed once for each kind of key (`Strokes`: make and break codes of one or two bytes,
pause, print screen), an interrupt takes one off.  This rests on the user's keys being distinct
from each other (`ConsoleAssumption`): a key that is tapped is not also held down.
`ScrollInv` says that the text is one that a terminal can have (`Texts`: one line at least, not
scrolled back beyond the oldest) and the shell's cursor and history index are inside their
line and history (`Shells`), so that what it writes is a text whatever byte it is given (`ReadGood`).
`Follows` is what the property claims, as a relation of two texts; it is transitive (`FollowsOn`),
each character written keeps it (`PutcharFollows`, where `AppendLineText` is the delicate one:
the offset grows with the line appended, until the oldest line is in view), and so does a sequence of
characters: that the fold has values, and stays where each step stays, is shown by constructing it
(`Iterates`, `WriteStays`).

Process.  `PInv` has nine parts.  `CountsOK` alone is not inductive: that a release finds a
count to take away needs that the frame that releases is counted, so the counts are sums
over what all lists of frames carry, and each action is one lemma that says by how
much it changes each sum (`Changed`).  What a frame may do depends on what stands behind it:
`Shapes` fixes which frames are first and last and what follows a `retain`, a `detach`
or a `bind`; `FramesOK` what holds of the process and task a frame names (a `retain` is
of a process still NEW, an `exit` is the task's own, a `publish` of a task still NEW);
`PublishOnce` that a new task has one creator; `TasksOK` how `task->process` and
`task->address_space` follow the state of a task, the reaper half way through included;
`ProcessesOK` that ids are handed out in order and that a process other than the kernel's is in the
registry as long as it has references.  A process still NEW has at most one maker
(`BuildOps`): otherwise a second spawner could make a zombie run again.
`NoUseAfterFree` and `ZombieIsFinal` follow from `PInv`.  `NothingLeaked` needs
`HeldOK` as well: what a caller holds is determined by the last frame of its list
(`Keeps`), and a task's `launch` context is there exactly until the task runs;
what the failure of each stage gives back is computed stage by stage
(`HeldStages`).

Heap.  `WF(heap)` says of the list what `ListWellFormed` says and three things more: where no
block starts there is no header (`NoBlock`), the mapped end is aligned, and of two
blocks the one ends before the other starts.  The last is what the code never states and
always uses: `split` writes a header into the middle of a block, and only because nothing
else is there does every other link stay right; `heap_block_from_pointer` tests only alignment and the
magic.  There is a lemma for each thing done to a list: split, merge,
mark, grow, append and the expansion made of them (`MergeWF` to `ExpandWF`).  First fit
is a recursive function along `next`; that it ends at a block or at NULL is shown by constructing
the function, and what it returns by looking at the last block for which the claim would
fail (`FindWF`): the list only leads upwards.  `Kept` is about the clients: each has a used
block, no two the same one, its bytes hold its mark, and every used block is somebody's, which gives
the count at the end.  Each call is then one use of `Others`: a client other than the caller
keeps a block of the same size (`Same`) and the same bytes.  For `krealloc` in place, the bytes
gained by a merge were a header or free, so nobody else's (`Payload`).

Paging.  `Inv` separates the memory from the actors.  `World(m, D, S)` says of a memory `m`,
the written directories `D` and the frames `S` that are directories or in somebody's hand:
at most one thing leads to a frame (a kernel entry, a user entry, a heap page, a program
page), nothing leads to one of `S`, and a frame is in use exactly if it is in `S` or
something leads to it (`Sound`); every directory agrees with the kernel's (`SharedOK`);
what is reachable was cleared (`CleanOK`).  `FramesAccounted` counts owners; that form is
not convenient for induction, so "one thing leads to it" takes its place and the count is
recovered at the end (`OwnedOnce`).  There is one lemma for each thing the code does to a
memory: allocate, write a new table, enter, remove, fill, form a directory, free, destroy
(`TakeWorld` to `DestroyWorld`), and destroying is where soundness is needed most: that
the frames given back are reachable from no other directory.  About the actors, `Apart` says that no frame is
in two hands or in a hand and a process; `ActorOK` what an actor has where it stands (a
page that is about to be installed has been filled, a thread's creator is a system call
and its directory is alive); `ScratchOK` that only one actor stands between map and
unmap, and that it is its frame that is mapped.  Each action is then one use of a memory
lemma and of `ActorStep`, which says that the others keep what they have.

Disk driver.  There are any number of system calls, of which one at a time is in the driver, and of
kernel tasks, which can be preempted anywhere; of the device nothing is assumed.  The
invariant `HInv` has two levels.  `Base` (types, ranges of the command in the table and of
the one the device works on, where a call can be) holds whatever meets whatever.  `IInv`
is what a caller relies on, and holds while `overlapped` is FALSE: only one call is in the driver
(`OneCaller`); the window is invalid from the moment a call closes it, and as long as the slot
is active with a command that writes the window or the disk, even if its caller gave up
long ago (`ClosedByCall`, `ClosedBySlot`); a valid window equals the disk
(`WindowExact`); and of the command being polled, which sectors have been moved
(`Issued`, `Polled`, `Filled`, `Progress`).  A meeting can only begin where a call enters the driver
(`BeginIInv` needs everybody out).  `ResetIInv` is the step that ends it: from `Base`
alone, a caller that is alone and closes the window over an idle slot establishes all of
`IInv`, however the state came about.

Desktop.  `DesktopInv` has four parts.  `InputInv`: the types, and `PermitsExact`, which is
inductive once they are known.  `ScreenInv`: the shape of the painters' calls (`Shape`: pixels
before their damage, the full damage after a scene, an update from its begin to its end at
the front of a call, the start of a shell last); the pointer (`Drawn`) with the number of updates
in progress, a cardinality that changes by one exactly at a begin and an end; and that every place that
is old is in the damage or in what some call will still damage or blit.  Damage is only ever joined into larger rectangles
(`UnionCovers`, `DamageCovers`), a scene's one after the other: that such a recursive function
has values is `Iterates`.  The blit is the delicate step: it may mark a place fresh without looking at
what is saved under the pointer only because the pointer is off while anybody updates.
`WindowsOK`: no window is in the order twice, the last one has the focus (`Good`, kept by every
function of the registry), every window other than the first belongs to a terminal whose shell runs or is
about to be started by the call of the GUI task.  Without the last a session could be launched into a window it
already has, and taking back a failed launch would not lead back to the old order.  `SceneOK`: the scene is shown, or the
last render in the GUI task's call is of the windows and bars there are (`WillShow`); every answer
to an event keeps this (`Answers`).  The top bar paints itself at any time, which is harmless
because nothing is in front of it (`BarOnTop`).  `FocusOrder` follows from `Good`: `focus_next`
rotates the order by one place (`NextRotates`), so the k-th press gives the focus to the k-th window
from the back (`ComesRound`).

Assumptions: `ContextAssumption` (contexts distinct from each other and from NULL; in
`WaitQueue` also that there are finitely many tasks), `BoundAssumption`,
`CountAssumption`; of `SleepQueue`, `TimerAssumption` (a tick is a whole number of
milliseconds, as at the 100 Hz that `kernel.c` asks for) and `ClockAssumption` (the machine
is switched off before its 64-bit counter of ticks is full); of `Process`,
`ProcessAssumption` (distinct names, finitely many tasks and spawners, so that owners can
be counted); of `Heap`, `HeapAssumption` (header and page are multiples of the alignment and a
page is larger than a header, as the type of the header in `heap.h` and the constants at the top of `heap.c` have it); of `Paging`, `PagingAssumption` (at least one frame; the heap, the scratch page, the
stack scratch page and programs have directory entries of their own, as the addresses in
`heap.c`, `paging.c`, `address_space.c` and `src/user/linker.ld` give them; a program has
at least one page); of `Screen`, `ScreenAssumption` (a screen with places, finitely many painters, windows that are
not empty); of `Desktop`, `DesktopAssumption` (the GUI task, the clock and the shells are different painters; the
bars and windows have bounds; the menus and the task bar do not reach the top bar, as
`topbar.c` and `taskbar.c` place them below and at the bottom); of `Ahci`, those of the module; of `Keyboard`, `RingAssumption` (a ring has room for one
entry), of `Terminal`, `TerminalAssumption` (a column, two rows, a line of history), of `Shell`,
`ShellAssumption` (prompt and outputs are texts, the history keeps a line), of `Console`,
`ConsoleAssumption` (rings with room for an entry; the keys struck are keys the driver knows, caps lock is
pressed and let go, a key is either tapped or held; pause and print screen are the bytes
that keyboards send for them).  TLC evaluates them on every run.

Only model-checked: all liveness (`ExitedBecomesZombie` and the like: fairness and ENABLED
are outside the proof system's reach here); `EventsExact` of `Desktop`, whose history variable is a fold over
sequences, an induction over data; `ScreenShowsLine` and `EditsLine` of `Console`, which compare
folds of different texts, for the same reason; and `Files`.

## 6. Plan

Done, in this order: scheduler; wait queue, semaphore and mutex with the abstract
lock; sleep queue; processes; heap; paging; disk driver; files and ext2 with errors and
crashes; keyboard, terminal and shell with the abstract line editor; mouse, windows and
compositor; the stages of program start.  Next:

1. Proofs: the ownership of blocks in `Files`.
2. `ElfHeaders`, `UserCopy`, `MemoryMap`, `Partition`: range tests as operators against
   reference definitions, at the edges of 32-bit arithmetic.
3. `Interrupts` (masks, spurious IRQs, EOI), `SmpStart` (handshake with time-outs).
4. libc streams and formatted conversions.

## 7. Not modelled, and why

Drawing, fonts and image decoding (their state is the picture); PCI, PIT and RTC
programming and the boot sequence (straight-line register access whose result is the
`Init` of the modules); console and log output; the vendored `stb` headers; the ATA PIO
driver (used only without AHCI, keeps no state).  Within modelled components:
the frame a new task starts on, paging's protection flags and the boot-time identity map,
AHCI probing and IDENTIFY, the controllers' set-up for keyboard and mouse, the probe of an
ext2 volume, mounting, functions without a caller (`scheduler_block_current`,
`process_remove_child`, process handles, `keyboard_line.c`, some wait-queue entry points).
