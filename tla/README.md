# Verification of the MINE operating system kernel

The repository holds about a hundred snapshots of a teaching kernel for x86-64,
one for each step of a book. The last one,

    src/第三部分 高级篇/第16章/程序/最终代码/物理平台/kernel/

is the complete system; everything here is about it. Earlier snapshots are
subsets of it and are not modelled. File names below are relative to that
directory.

Contents: [how the kernel executes](#how-the-kernel-executes) ·
[inventory](#inventory) · [modules and code](#modules-and-code) ·
[runs](#runs-bounds-and-what-they-show) · [fairness](#fairness) ·
[proofs](#proofs) · [not modelled](#not-modelled-and-why) · [plan](#plan)

## How the kernel executes

* **One processor does the work.** Four CPUs are booted, but the three
  application processors only run `hlt` after `Start_SMP`; the I/O APIC routes all
  device interrupts to CPU 0, and only CPU 0 runs tasks.
* **Interrupt handlers are atomic.** Interrupt gates clear IF and handlers do not
  set it, so a handler with what follows it in `ret_from_intr` runs to its end,
  except where `do_softirq` executes `sti`.
* **Kernel code of a task is not.** `system_call` (entry.S:109) executes `sti`.
  From there on an interrupt may come between any two instructions, and
  `ret_from_intr` (entry.S:79-105) calls `schedule()` when `preempt_count` is 0
  and NEED_SCHEDULE is set: the kernel is preemptible. Only `printk_lock` raises
  `preempt_count`, and always with interrupts disabled, so any point with
  interrupts enabled is a preemption point.
* **`x += 1` is not atomic.** The Makefile builds without optimisation; an update
  of a variable is a load and a store, and an interrupt in between may lose one.

This is why the modules cut a kernel path into one action for each stretch
between two points where an interruption matters, and make a handler one action.

**Windows.** Most of these paths have points at which an interruption does harm:
the code protects very little. The modules record in a history variable `hit` (or
`events`) which of these named points an interruption has landed in, and the
properties have the form *this never goes wrong, unless one of these windows was
hit*. They say two things: the windows named are all there are, and everything
else (every other order of interrupts, switches, wakeups and calls) is safe. A
behaviour in which the kernel has dereferenced NULL, destroyed a list or divided
by zero ends there (`fault`, `Stopped`): what it would go on to do is not modelled.

## Inventory

| Component (files) | State it keeps | Operations | Interacts with | What is hard | Correct when | Module |
|---|---|---|---|---|---|---|
| Scheduler (schedule.c, HPET.c, waitqueue.c, entry.S) | run queue, its count, the slice, `vrun_time`, `current`, NEED_SCHEDULE, wait lists | `schedule`, `insert_task_queue`, `get_next_task`, `HPET_handler`, `sleep_on`, `wakeup`, `ret_from_intr` | everything that sleeps or forks | preemption between any two statements; the wakeup before the sleep; division by the count | nobody is lost, queued twice or starved; the count is the queue | `Schedule`, abstractly `Dispatch` |
| Spin lock (spinlock.h, preempt.h) | the word, `preempt_count`, IF | `spin_lock`, `spin_unlock`, `spin_trylock`, the irqsave pair | `printk` on every CPU and in handlers | CPUs in parallel, handlers over holders | exclusion, no handler waits for its own CPU | `Spinlock` |
| Disk driver (disk.c) | request list, count, `in_using`, the nodes | `IDE_transfer`, `cmd_out`, `disk_handler`, `end_request` | scheduler, drive, FAT32 | tasks and the handler share all of it without a lock | the drive works for one request; each returns when complete, none is left | `Disk` |
| Task life cycle (task.c, sys.c) | `task_struct`s, `global_pid`, the list of all tasks, parent links | `do_fork`, `do_exit`, `exit_notify`, `sys_wait4` | scheduler, memory | exit racing wait, memory freed under others | pids are unique, the list complete, only zombies are freed, no exit is missed | `Lifecycle` |
| Timers, soft interrupts (timer.c, softirq.c) | `jiffies`, the timer list, the bit | `add_timer`, `do_timer`, `do_softirq` | HPET, `ret_from_intr` | `do_softirq` runs with interrupts on and nests | each timer runs once, not early, in the end | `Timer` |
| Input drivers (keyboard.c, mouse.c) | one buffer each, wait queue, packet state | the handlers, `keyboard_read`, open, close, ioctl, `get_mousecode`, `analysis_mousecode` | scheduler, shell, idle loop | handler against reader, the end of the buffer | bytes come once and in order | `InputBuffer`, `Keyboard`, `Mouse` |
| Lists (lib.h) | `prev`, `next` | add behind, add before, del | all of the above | four stores each, not atomic | a list is a sequence | `WaitList` |
| Semaphores (semaphore.c) | counter, wait list | up, down | scheduler (no user yet) | test and act apart | units are conserved | `WaitList` |
| Memory (memory.c) | zones, bit map, pages, slabs | `alloc_pages`, `free_pages`, `kmalloc`, `kfree`, `slab_*` | all | no lock, calls of itself | every object has one owner, counters match maps, nothing leaks | `Memory` |
| File table, VFS (sys.c, VFS.c) | `file_struct`, `struct file`, dentries | open, close, read, lseek, path_walk | task life cycle, drivers, FAT32 | copies against sharing over fork and vfork | no file freed twice or leaked | `Process`, `Fat32` |
| FAT32 (fat32.c, sys.c) | the FAT, directory entries, clusters; per open file an `index_node` and a position | read, write, lseek, find cluster, write entry, under the system calls | disk driver | every transfer sleeps; two writers, full disk | chains are disjoint and end; a read returns what was written | `Fat32` |
| Address spaces (task.c, memory.c, sys.c) | `mm_struct`, page tables, brk | `copy_mm`, `exit_mm`, `do_execve`, `do_brk` | memory, life cycle | vfork shares, flags are inherited | each page has one owner, a heap is mapped | `Process` |
| SMP start (SMP.c, head.S, main.c) | `global_i`, `SMP_lock`, `_stack_start`, TSSs, the low mapping | the start loop of `Start_Kernel`, `Start_SMP`, `task_init` | spin lock, `do_fork` | one CPU takes the lock, another gives it back; nobody waits for the last | each CPU has its own stack, TSS and task; all come up | `SmpStart` |
| Interrupt controllers, traps, console, symbols, boot, user programs | – | – | – | – | – | [not modelled](#not-modelled-and-why) |

PROJECT.json lists the components with their files and status, and under
"hazards" every place found where the code is exposed to something a test would
hardly reach, with the properties that watch it or the reason none does.

## Modules and code

Names are the source's. Where two modules that one proof module extends would use the same
word for what their code calls alike (`Init`, `pc`, `fault`, `count`), the one carries its
component as a prefix: `LockInit`, `timer_vars`, `MouseLoadCount`, `memory_fault`.

**`Dispatch`** is what the rest of the kernel may rely on of the scheduler:
`current`, `state`, the set `queued`, `fault`. `Reschedule(st, q)` is `schedule()`
called in a given state: it may switch to any queued task, or to idle when there
is none, and puts the task that ran back if it is runnable. `Disk` and `Lifecycle`
extend it and use its operators in their own actions.

**`Schedule`** is the scheduler in detail. `task_queue` is the ordered run
queue, `Reschedule` the whole of `schedule()` with `get_next_task` and
`insert_task_queue` (interrupts are disabled there), `HPET_handler` and
`Keyboard_handler` are handlers with `ret_from_intr`. `sleep_on` is
`SleepSetState`, `SleepLink`, `SleepSwitch`; `do_fork` as the scheduler sees it is
`Fork`, `InsertFind`, `InsertLink`, `InsertLoad`, `InsertStore`, because it calls
`insert_task_queue` with interrupts enabled. A list operation is one step, as is
the search for the place. `Abstract` is `Dispatch` with
`queued <- ToSet(task_queue)`: `RefinesDispatch` says that the detailed scheduler
does nothing the abstract one does not allow, so what `Disk` and `Lifecycle` show
over the abstraction holds over the scheduler.

**`Spinlock`**: the word `lock`, one path per CPU in task context and one in
interrupt context. `IrqSave`, `Decrement`, `Spin`, `SpinUnlock`, `IrqRestore` are the
instructions of `spin_lock_irqsave` as `color_printk` uses it, `TryLock` and
`TryFail` are `spin_trylock`.

**`Disk`**: `Submit` is `make_request` and the linking half of `add_request`;
`LoadCount`/`StoreCount` are both `++` and `--` of the count; `Test`, `Take`,
`Claim`, `Issue` are `submit` and `cmd_out`; `SleepSetState`, `SleepSwitch` are
`wait_for_finish`. `Disk_handler` is a sector's interrupt with `end_request` and
the `cmd_out` it may call. The drive (`SectorDone`, `SectorRead`, `Command`) is
external: one interrupt for each sector of the last command. Reading and writing
have the same control and are one operation.

**`Lifecycle`**: `next` is the list of all tasks through `task_struct.next`, `pid`,
`parent`, `state` ("NONE" for memory that is free). `Fork`, `ForkPid`, `ForkLink`,
`ForkWakeup`; `Exit`, `ExitNotify`, `ExitWakeup`, `ExitSwitch`; `Wait4`,
`SleepSetState`, `SleepLink`, `SleepSwitch`, `Reap`. Freed `task_struct`s are used
again, as `kmalloc` does. A parent waits only for the pid of a child it has: a
program that passes an arbitrary pid is outside the model. The failure paths of
`do_fork` are left out: `copy_flags`, `copy_mm`, `copy_files` and `copy_thread`
return 0 always.

**`Timer`**: `Tick` is the timer half of `HPET_handler` with `ret_from_intr`, which
starts a run of `do_softirq`; a run is `Test`, `First` (its `tmp` is the head's
neighbour, timer.c:74), `Empty` (the test of the list), `Look` (the test of the time
`tmp` holds), `Fire` (unlink, run, and read `tmp` again, 79) and `Clear`. Runs
interleave freely: one may be interrupted and another nested in it, or its task
switched away from; the window `tmp` lasts from a read of `tmp` to the unlinking, and is hit
when another run unlinks that timer. `add_timer` is `InitTimer` and `AddLink`; in this snapshot only
`timer_init` calls it, before interrupts are enabled, so concurrent callers model
the interface, not the present use. `add_timer` puts a timer *behind* the first
that does not expire earlier, so the list is not sorted; no property claims it is.

**`InputBuffer`** has the buffer that both input drivers use; a byte is its
number in the order sent. **`Keyboard`**: `Keyboard_handler` with `wakeup`;
`keyboard_read` as `Read` (the test), `Sleep`, `Count`, `Copy`, `LoadCount`,
`StoreCount`; open, close and the reset command as `ResetPointers`, `ResetCount`.
`Copied` follows keyboard.c:119-129: where a read goes over the end of the buffer, the
second piece is written at `buf` again, over the first (127), and what is not written of
the reader's buffer stays as it was. **`Mouse`**: the handler, and the idle loop as
`Poll`, `MouseLoadCount`, `MouseStoreCount`, `MoveTail`, `Analyse`. What devices send is
external.

**`Fat32`**: `fat`, `dir` and `data` are the disk, `inode` and `position` an open
file. `Write` and `Read` are the heads of `sys_write`/`FAT32_write` and
`sys_read`/`FAT32_read`; then each disk transfer, in which the task sleeps, is a
step with what the code does up to the next: `Walk`, `FindFirst`, `Load`, `Store`,
`NextCluster`, `FindNext`, `Fetch`, `Follow`. `DISK1_FAT32_write_FAT_Entry` and
`fat32_write_inode` read a sector, change it and write it back: `ReadFAT`/`WriteFAT`,
`ReadDir`/`WriteDir`. A byte is named by the file and position it was written for,
so that a wrong place shows. `sector` is a variable of its own, as in the code, which
does not set it again after it has added a cluster. A file is its directory entry:
names, devices and the path are left out. `Chain(f)`, the clusters of a file, is the least set
that holds its first cluster and, with each cluster, the one its entry in the FAT names. The
volume's first state is external.

**`Memory`**: `kmalloc` as `Choose`, `FindPage`, `MarkPage`, `Link`, `Test`, `Set`,
`Count`; `kfree` as `FindSlab`, `Flip`, `Uncount`, `Unlink`, `KfreeReturns`, `LoadBits`, `FreePage`.
A word or counter that is changed is loaded in one step and stored in the next.
`then` says what a call returns to, because `kmalloc_create` calls `kmalloc` twice
(`GotStruct`, `GotMap`) and `kfree` calls itself twice for a slab of 1 KB objects or more.
`Preempt` is `ret_from_intr` with `schedule`. Two caches of the sixteen are enough: one
with its slabs' data inside the page, one that takes them from the other (2048 takes
both from 128).

**`Process`** is what a task owns: `file_struct`, `mm`, and behind them the struct
files, `mm_struct`s and frames that are allocated; `vfork` is the set of tasks with
PF_VFORK. A task may be preempted anywhere in these calls, so a call is cut wherever it
reads what another task with the same `mm` or table may change, or goes on to use what
it has read:

* `Read`/`ReadDone` have the driver's sleep between them, in which the struct file may be
  freed. `Open`, `Close` and `BadLook` (a descriptor that is not open) are one step each.
  A read is modelled only for a file that another task has as well; of any other nothing
  can come.
* `Fork` is `do_fork` up to where `copy_mm` has copied the `mm_struct` (task.c:320) and the
  frame of the code; `end_brk` is read again at 344, and `ForkHeap` is what follows from
  there, with `copy_files` and `wakeup_process`. `ForkFails` copies a heap that is not there,
  `ForkNoFrame` runs into NULL. Between the two steps a sharer's exec or brk may move the end
  (`end_in_copy`). `VFork` copies pointers only.
* `ExecMap` is `do_execve` up to `open_exec_file`, which sleeps. In a vforked task
  `current->mm` is an `mm_struct` without page tables from task.c:101 to 107: `ExecPreempted`
  is a switch away in there and `ExecResumed` the switch back, at which `switch_mm`
  (task.c:533) loads cr3 from what is in `pgd` (`exec_preempted`, `bad_cr3`). `ExecLoad` is what
  follows the sleep and `ExecMissing` a file that is not there; `ExecArgs` says that `argv`,
  which lies in the old memory, is read after the switch to the new one (133, 166-169).
* `Brk` is the test of sys.c:318, `BrkStart` the arguments of `do_brk`, which are read again
  (321), then for each frame `BrkTest` (memory.c:1141) and `BrkSet` (`alloc_pages` and
  `set_pdt`, 1143-1146), `BrkEnd` the store in `do_brk` (1150) and `BrkStore` that in `sys_brk`
  (323). Two tasks of a vfork may both find a place empty (`brk_race`). The two loads of line
  321 are one step, with an end of the loop that is arbitrary where another task has the
  `mm`: that allows more than the code.
* `Exit` is `do_exit` with `exit_files`, `Reap` `sys_wait4` with `exit_mm`.

What is left as one step touches the task's own table, its flags or what no one else has
by then: the steps of `do_fork`, `do_exit` and `sys_wait4` that concern pids, lists and
wakeups are in `Lifecycle`, and so is a `sys_wait4` that frees a child that runs; those of
the allocator are in `Memory`. An `mm_struct` counts as the child's from task.c:320 on. What
is in `argv`, and what a preemption finds of the user half of the new tables
(task.c:107-133), which no one uses there, are left out. An `mm_struct` stands
for its page tables; a frame is 2 MB, as in the code.

**`SmpStart`**: `Prepare`, `StartupIPI`, `Count` are one turn of the loop in
`Start_Kernel` (main.c:150-183), `TaskInit` the loss of the low mapping, `Fork` a
`do_fork` beside the last processor. `Boot` and `LoadCr3` are head.S, which fetches its
instructions from low addresses; `LoadPid` to `StoreHead` the two unlocked updates that
`Start_SMP` and `do_fork` have in common, in two steps each; `LoadTR`, `Unlock`, `Sti`
the end of `Start_SMP`. A processor and its idle task have one number.

**`WaitList`** takes lib.h store by store: `SleepOn`, `Add2`, `Add3`, `Add4` are the four
stores of `list_add_to_before`, `Del1`, `Del2` the two of `list_del`, on the nodes that
`sleep_on` and `__down` have on their stacks. `Down`, `Dec`, `Wake`, `Take`, `Inc` are
`semaphore_down` and `semaphore_up` (and `wakeup`), a test and what is done on it apart:
`Wake` finds the list not empty, `Take` reads its first entry and tests the state, and the
window of a removal lasts from that test to the last store;
`Handler` is an interrupt handler that calls `wakeup`; `Preempt` lets any task run that
is not marked asleep. It shows what the other modules rely on when they take a list for
a sequence and an operation for one step, and which interruptions that excludes.

## Runs, bounds and what they show

| Run | Instance | Shows |
|---|---|---|
| `schedule` | three tasks and idle, `vrun_time` up to 6 | `TypeOK`; `CountMatchesQueue`, `FaultsByWindow`, `RunnableNotLost`, `QueuesSound` (`QueueSorted`, `SleeperNotLost`), `BoundedLag`, `RefinesDispatch` |
| `spinlock` | four CPUs, two with handlers, one that uses `spin_trylock` | `MutualExclusion`, which fails only after a misread, `WordSound` (types and `WordBounded`), `NoSelfDeadlock`, `LockProgress` |
| `disk` | two tasks, one or two sectors, two kinds of window, fair | `QueueSound` (types and `CountMatches`), `FaultsByWindow`, `SingleIssuer`, `ReturnsDone`, `TransferReturns` |
| `lifecycle` | three tasks, five pids, fair | `ListSound` (types, `PidsUnique`, `ListComplete`), `FaultsByEvent`, `WaitReturns` |
| `timer` | three timers, two runs, three ticks, fair | `ListSound` (types, `OnceEach`, `FaultsByWindow`), `TimerFires` |
| `keyboard` | two readers, a buffer of two, five bytes, fair | `BufferSound` (types and `CountMatches`), `ReadsInOrder`, `KeysRead` |
| `mouse` | thirteen bytes, a buffer of three | `MouseBufferSound` (types and `MouseCountMatches`), `PacketsWhole` |
| `fat32` | two tasks, two files, three clusters of two bytes | `VolumeSound` (types, `ChainsSound`, `SizeCovered`), `OwnBytesOnly`, `ReadsRight` (with `PositionInside`) |
| `memory` | two tasks, slabs of two objects, two free pages | `AccountsMatch` (types and `CountersMatch`), `ObjectsOwned`, `FaultsByWindow`, `FaultsByOneWindow` |
| `process` | three tasks, three files, three address spaces, five frames | `HoldingsSound` (types, `NoDangling`, `HeapMapped`, `FaultsByEvent`), `NothingLeaks`, `SharedOnlyByVfork` |
| `smp_start` | four processors, three forks, fair | `StartSound` (types, `OwnState`, `OnlyLastRaces`, `DeadKeepsLock`), `BootEnds` |
| `wait_list` | three tasks, one unit | `ListSound` (types, `ListIsQueue`, `FaultsByWindow`), `UnitsKept` |

**Bounds.** `MaxVrun = 6`: the slice is 4 at boot and 12, 6 or 3 when `schedule` deals it
out with a count of 1, 2 or 3; a tick takes 2. Three ticks for each task let a slice be used
up, refilled, overdrawn and carried on. The order of the queue needs two queued and one put
between them, hence three tasks; the CONSTRAINT stops a behaviour when a second kind of
window is hit. `Disk` has two tasks: one request in the drive and one behind it, issued
again and again, which is where the tests of `in_using` and the count race; a longer queue
is not reached. `MaxCount = 2` stops a *submit* when lost updates have driven the count
further than that. `Lifecycle` with three tasks whose memory is used again, and five pids,
lets three forks follow one another: a pid given twice, a child reaped that is not one's
own, a parent that is freed before its child. `MaxHits` (of `Memory`, `MaxWindows`, of
`Fat32`, `MaxEvents`) bounds how many *different* windows one behaviour meets: 2 where pairs
are of interest, 1 where state spaces ask for it; a property that excepts a window has
nothing to say beyond it. `Keyboard` with a buffer of two and five bytes goes over the end
twice, which is what it takes to reach a copy of negative length; `MaxKeys` and `MaxBytes`
bound the input. A count below zero never stops a real read; the model stops at `-MaxRead`.
`Fat32` has three clusters of two bytes and files of up to three: enough for a chain to be
walked, crossed inside and extended, for a full volume, and for two tasks to reach for one
cluster; a state of which the properties say nothing more is not followed into a second kind
of event. `Memory` starts with one object of each cache taken for good: then two held
objects of the big cache need a slab of their own, whose parts need one more of the small
cache, and all is given back again. A task is preempted in a window once; where an update of
a counter is lost the behaviour ends, because the counters could drift without bound. With
one window to a behaviour `FaultsByOneWindow` says which window each fault takes; with two,
which TLC went through once more before the proof (`MaxWindows = 2`, 83 million states, too
many for a run), only `FaultsByWindow` holds. `Process` has a table of one descriptor
(`TASK_FILE_MAX` is 10: all loops over it are independent for each entry) and frames for
three programs and one heap of two, so that both a full memory and a cut heap are reached.
`MCProcess` bounds what a behaviour combines: it has files or heaps, not both, as no call
looks at the two together (`FilesOrHeaps`, `NoDescriptors`); two tasks are inside a brk or a
fork only while there is no third (`TwoInMm`), races are for the first frame of a heap
(`OneFrameRaced`), and a task that has its `mm` to itself does such a call undisturbed
(`Undisturbed`), because what others do in it could as well come before or after; one kind
of event is met, or an exec beside the fork of a vforked task (`OneKind`), and after an
event tasks only use, replace and give back what they have (`NothingNew`), because the
properties claim nothing of freed memory that is given out again. All of these bound the run
only: the theorems about `Process` assume none of them, and cover what they leave out.
`SmpStart` has the four processors of the code, and three forks, one after the other, so
that the last processor may fall behind by more than one, set `global_pid` back, and two
forks be given one pid. `WaitList` needs three tasks for one between two others in the list,
and one unit for two of them to want it.

**What goes wrong.** The exceptions in the properties are reachable, and each
has a shortest behaviour TLC prints when the exception is taken out. The ones of
most consequence: a key between `sleep_on`'s link and its `schedule()` queues the
running task twice; a task preempted between setting its state and linking itself
sleeps for ever; a slice overdrawn by a tick of 2 is never refilled, so that every
tick reschedules; a request finished before its owner sleeps is woken too early; a
parent woken by one child frees another that runs; after KB_BUF_SIZE scan codes
without a reset every read of the keyboard returns stale bytes, and after as many
again the copy has length -1; a write that starts a file puts its bytes into sector 0 of
the disk, and one that adds a cluster puts them where the cluster before is; a write
that begins at the end of a full last cluster takes the end mark for a cluster; two
writers can be given one cluster; a slab counted as empty after a lost update is given
back while it is used; a processor that reaches `load_TR` before the boot processor has
counted `global_i` up (main.c:150) loads a TSS that is busy and takes `SMP_lock` with it;
the last processor may still be at a low address when `task_init` takes those away
(task.c:561), and its pid and its place in the list of tasks race with the first forks:
it may be given the pid of one of them, or store an old `global_pid` over theirs, after which
two forks are given one pid;
a fork copies one frame of heap however long the heap is (task.c:344-353), and the child
faults on the rest; `sys_brk` stores `do_brk`'s -ENOMEM as the end of the heap
(sys.c:321-323); a child that a vforked task has forked inherits PF_VFORK (task.c:434)
and frees neither its files nor its memory; two tasks of a vfork that extend their heap
together map two frames for one place, and what the first had written there is gone
(memory.c:1141-1146); a fork beside a brk or an exec of the task it shares its memory with
leaves the child an `end_brk` without the heap below it, or copies one that is not there
(task.c:320, 344); a vforked task
that is preempted in task.c:101-107 is resumed with cr3 loaded from an `mm_struct` that has no
page tables; and the arguments of its exec are looked for in the new memory, where they
are not (task.c:133, 166-169); a task preempted inside
`list_add_to_before` is marked asleep already and never links itself; a `semaphore_down` that is
preempted after its test takes a unit that is gone.

**The lock word.** spinlock.h:29 says `1:unlock,0:lock`. A contended lock's word is
negative (spinlock.h:49), and `spin_trylock`, which takes any word but 0 for free,
depends on the comment: `MutualExclusion` excepts what follows such a misread, and
`WordBounded` says how far below zero the word goes.

**Mutants.** Beside the operators of the code, the modules define variants of
them, each with a plausible slip and a name that says which (`PlaceLast`,
`NextCommandUncounted`, `CopiedTailKept`). PROJECT.json pairs every property of every
passing run with one that breaks it.

## Fairness

* `Spinlock`: weak fairness for the steps of a path that has begun: a CPU goes on
  executing. Nothing makes it take the lock again, and nothing gives a contender the
  lock in turn: `LockProgress` promises progress, not that nobody starves.
* `Disk`, `Lifecycle`: interrupts come, so `Tick` may switch to any queued task
  and, the run queue being ordered by `vrun_time`, every one gets its turn (strong
  fairness for the switch to each); a slice is longer than a step (strong fairness
  for the running task's). Weak fairness for the drive and its interrupt.
* `Timer`: ticks come, runs and `add_timer` get their turn.
* `Keyboard`: a reader goes on, and reads again. Nothing is assumed of the
  keyboard, and nothing makes a task reset it.

* `SmpStart`: weak fairness for the boot processor and for each other one: processors
  run. A processor that has died takes no step.

`Schedule`, `Mouse`, `Fat32`, `Memory`, `Process` and `WaitList` have safety properties only
and no fairness.

No property assumes that an interruption stays out of a window: the properties
except the windows by name.

## Proofs

TLAPS proves the following for every value of the constants that satisfies the
assumptions named (`ASSUME` in the module that declares the constant). The bounds
that only keep TLC's state spaces finite (`MaxHits`, `MaxWindows`, `MaxEvents`, `MaxCount`,
`MaxExecs`) may have any value, and a run's CONSTRAINTs are not assumed. Each invariant below was
first given to TLC as an invariant of the run's instance. The specification is the module's
`Spec`, or `LockSpec`, `FatSpec` and the like where a module of proofs is about several.

| Theorem | States, as an invariant or property of the specification | Assumes |
|---|---|---|
| `ScheduleProofs!TypeCorrect` | `TypeOK` | `TasksAssumption`, `NumberAssumption`: finitely many tasks, priority and bound natural |
| `ScheduleProofs!CountCorrect` | `CountMatchesQueue` | same |
| `ScheduleProofs!NoRunnableLost` | `RunnableNotLost` | same |
| `ScheduleProofs!FaultsOnlyByWindow` | `FaultsByWindow` | same |
| `ScheduleProofs!QueuesAreSound` | `QueuesSound` | same |
| `ScheduleProofs!LagIsBounded` | `BoundedLag` | same |
| `ScheduleProofs!ImplementsDispatch` | `RefinesDispatch`: every step is one of `Dispatch` or a stutter | same |
| `StorageProofs!QueueIsSound`, `FaultsOnlyByWindow`, `OneIssuer`, `ReturnsWhenDone` (`Disk`) | `QueueSound`, `FaultsByWindow`, `SingleIssuer`, `ReturnsDone` | `DiskAssumption`, `IdleAssumption` |
| `StorageProofs!VolumeIsSound`, `BytesAreOwn`, `ReadsAreRight` (`Fat32`) | `VolumeSound`, `OwnBytesOnly`, `ReadsRight` | `FatAssumption`: finitely many clusters, one at least, numbered from 2 to below the end mark, of one byte or more |
| `LifecycleProofs!ListIsSound`, `FaultsAreByEvent` | `ListSound`, `FaultsByEvent` | `LifecycleAssumption`: finitely many tasks, the init task one of them; `IdleAssumption` |
| `InputProofs!BufferIsSound`, `ReadsAreInOrder` (keyboard) | `BufferSound`, `ReadsInOrder` | `SizeAssumption`: a buffer of one byte or more; `KeyboardAssumption`: reads of one byte or more |
| `InputProofs!MouseBufferIsSound`, `PacketsAreWhole` (mouse) | `MouseBufferSound`, the action property `PacketsWhole` | `SizeAssumption`, `MouseAssumption` |
| `ResourceProofs!AccountsAreRight`, `ObjectsAreOwned`, `FaultsAreByWindow` (`Memory`) | `AccountsMatch`, `ObjectsOwned`, `FaultsByWindow` | `MemoryAssumption`: finitely many pages, a first slab outside them for each cache, a slab of one object or more |
| `ResourceProofs!HoldingsAreSound`, `NothingIsLeft`, `SharingIsByVfork` (`Process`) | `HoldingsSound`, `NothingLeaks`, `SharedOnlyByVfork` | `ProcessAssumption`: struct files and mm_structs are finitely many numbers, 0 is none of them |
| `ProcessorProofs!LockTypeCorrect`, `SpinlockExcludes`, `NoHandlerDeadlock`, `WordNeverRunsDown` (`Spinlock`) | `LockTypeOK`, `MutualExclusion`, `NoSelfDeadlock`, `WordSound` | `CPUAssumption`: a finite set of CPUs |
| `ProcessorProofs!StartIsSound` (`SmpStart`) | `StartSound` | `SmpStartAssumption`: two processors or more, any number of forks |
| `ProcessorProofs!TimersAreSound` (`Timer`) | `ListSound` | `TimerAssumption` |
| `WaitListProofs!ListIsSound`, `UnitsAreKept` | `ListSound`, `UnitsKept` | `WaitListAssumption` |

Apart from the types none of these invariants is inductive as it stands. What each needs
beside itself says why the code works, where it does:

* **`Schedule`.** `SInv == TypeOK /\ InsertersHaveChild /\ CountMatchesQueue /\
  RunnableNotLost /\ LoadedFresh`: counting needs to know that the count a task has
  loaded is still the current one as long as no interrupt has landed there
  (`LoadedFresh`), and that a task in the middle of `insert_task_queue` has a child to
  insert, without which the child would be runnable and nowhere. On top of it
  `OInv`: while the kernel runs, no task is twice in the run queue, and a new one in no list before
  its parent links it (`ListsApart`); whoever is caught between linking and counting
  is the running task (`UncountedRuns`), which is why the count is never zero when
  `schedule` divides by it; the slice never exceeds a full one (`SliceBounded`).
  `BoundedLag` speaks of the head of the queue, and holds of it because the queue is
  sorted and a task is linked where the loop of `insert_task_queue` stops
  (`PlaceFound`). The refinement is a step simulation over `SInv` and `OInv`: the head
  of the ordered queue is a member of the abstract set, and a removal takes it out
  of the set because it was there once.
* **`Spinlock`.** The word is 1 only when nobody holds the lock, and below 1 when
  somebody does (`Exclusion`); a handler is on a CPU only when its task path has
  interrupts enabled (`IrqMasked`); for `WordBounded` each decrement that fails adds one
  to those that spin.
* **`SmpStart`.** `SMP_lock` has no owner: that what a new processor does between
  `_start` and `spin_unlock` is its own comes from `_stack_start` naming the last one
  started (`Loop`), and the forks come after every processor but the last (`Turns`).
  `Pids` says how far a stale load of `global_pid` may be off. The attempt to prove
  `OnlyLastRaces` as it stood (a pid is shared by the last processor and a fork only)
  failed, for a good reason: with a third fork the last processor's store sets
  `global_pid` back between two of them, and those two share a pid. The
  property now says that, and the run has three forks.
* **`Disk`.** `DInv`: a request is in one place (list, `in_using`, the drive, a task in
  `cmd_out`) and an entry once in the list (`Requests`); the load of the count is
  good as long as nobody came between (`Counted`); `in_using` locks `cmd_out` until a
  task is preempted while it decides (`InUsingLocks`); who submits finds its request
  listed (`OwnRequestListed`); who waits is out of the run queue and waits for one
  request (`Sleepers`). Each part is guarded by the windows that break it.
* **`Fat32`.** Three invariants, one on the other, each as strong as the events allow.
  `Typed`, always: the variables of a call fit the transfer it is at (`CallFits`: an index
  within the write, a cluster where one is used, a buffer that is a sector of the FAT
  where one is written back), and a call that may fail has left its position alone
  (`StaysInside`). `Ownership`, until a race for a free cluster: one task allocates at a
  time, and there is *some* map from clusters to files with which the FAT, the directory,
  the variables of every task and every byte on the disk agree (`Owns`). It holds for two tasks
  in one file, too, whose directory entries overwrite each other: such a race loses
  clusters, and even then nobody writes into another's file. `Order`, until any of the three
  races: a file is open once, what a task has read of the directory is still so
  (`Alone`), and there is a map `m` that gives each cluster its file and its rank in the chain,
  and each file the length of its chain, with which the links agree (`Linked`); until a write
  begins at the end of a full chain or crosses into a cluster the chain has, sizes and positions lie within
  that length, and each call is at the cluster its position asks for (`Sized`, `Placed`); and
  while nothing but a full volume has happened, each cluster holds the bytes of its place,
  unless it has just been given to its file (`Filled`). A step keeps `m` (`Kept`) or makes one
  chain longer by a cluster (`Lengthens`, `Continued`). A chain is what `m` says it is
  (`ChainIsWhole`): were a cluster of the file missing from it, so would be the one of
  least rank, but the one before that links to it. That takes a minimum and no induction over a walk, which
  is why `Chain` is defined as a least set.
* **`Lifecycle`.** `IInv`: a task that does not run is within a window only if an interrupt
  has landed there (`WindowsSeen`); whose child a task waits for does not change, because
  only the parent frees it (`ChildrenKept`), and it wakes for no other (`ReapsDead`), nor
  is a parent freed before its children but by `orphaned` (`ParentsExist`). The
  list is a ring of exactly the tasks there are (`Ring`), and what a `do_fork` has read of
  its head is still there (`HeadRead`). The model writes the list as a walk
  through `next`; that a ring of *n* tasks is walked in *n* steps is the one place where a
  bound on a walk enters (`ShortList`). A pid is given once, and `global_pid` is above all that
  have been (`PidsApart`). Two things came out of the
  attempt. The disjunct of `ExitNotify` that finds the parent freed did not ask whether the
  task was in `exit_notify`: the guard was missing, and was added. And `FaultsByEvent`
  allowed more than can happen: a parent freed takes `orphaned`, a pid given twice is not
  enough.
* **`Mouse`, `Keyboard`.** What was sent and not read lies in the buffer from the tail to
  the head, each byte where its number says (`Held`): the invariants `SentHeld` and
  `KeysHeld`. The count may fall behind but never says more than there is (`CountFits`,
  `Counted`), which is why a read returns nothing stale even after the race on the count.
  A packet is whole because its bytes are numbered as they were read (`PacketFits`). Of the
  keyboard's readers one at a time is past the wait (`Alone`), and its tail is the
  buffer's (`TailsFit`).
* **`Memory`.** `MemoryInv` has one part for each set of windows that breaks it. Always:
  a task is in a window without running only if it was preempted there (`Undisturbed`), and
  while the kernel runs, what it has loaded in a window nobody has hit is still so
  (`Loaded`). Until `mark` or `release` is hit: a page is in one slab list, once, or in the
  hands of one call (`PagesApart`). Until one of `LosesBits` is hit: the objects in use
  are owned one by one (`Owned`, a bijection between who can have an object, `Claims`, and
  the bits that are set), the parts of big slabs lie in small ones (`PartsSmall`), each slab
  is counted (`SlabsCounted`), no page is lost, and a slab about to be unlinked is empty.
  While nothing is hit the totals are right, and the slab `kmalloc` has chosen has
  room (`TotalsCounted`, `ChosenHasRoom`). `FaultsByWindow` as it stood named the
  windows of each fault as one preemption finds them, and was false of two: `mark` and
  `link` together, neither of which suffices, let an object be given twice. It now holds
  for any number of preemptions, and what is true of one only is `FaultsByOneWindow`. And
  `FindSlab` looked at the page of an address without asking whether there was one: NULL,
  which no slab's page is, was left to chance, and is now excluded.
* **`WaitList`.** `WInv`: between two stores of a list operation the pointers have one of
  a few shapes, by where the running task is (`Shape`); as long as none of those is
  interrupted, nobody else is in one, and who is in the list sleeps (`Waiting`). The
  unit a `semaphore_down` has seen is still there (`SeenFree`), and nobody sleeps while
  one is free (`NoneFree`).
* **`Timer`.** `TInv`: a started timer is on the list, being linked, or has run, and only
  one of them (`Once`); what a run has read as `tmp` is still on the list until another run
  unlinks it (`Firing`), an `add_timer` the one it links behind (`Placed`).
* **`Process`.** `PInv == TypeOK /\ Lives /\ Calls /\ Heaps /\ MInv /\ OwnFiles /\ FilesKept
  /\ FaultsByEvent`. `Calls` has the locals of a call in progress: the child `do_fork` copies
  to is new and no other's, what `do_brk` is about to map is in the heap. `HeapsBacked` is why
  `HeapMapped` holds while calls overlap: a heap is mapped below `end_brk`, and also behind
  the frame a `do_brk` has come to, which may become the end when another task of the `mm`
  has stored its own; and of a child's heap there is no more than its parent still has.
  `OwnMms` says who has an address space, and who has it alone: a child that is being
  made, a zombie, and a vforked task in `do_execve` from the step that sets `current->mm` on.
  Each has the frame of its code except in a preempted exec (`Code`); a place `do_brk` has
  found empty stays so until `brk_race` (`Places`), without which a frame would be mapped over
  another; every struct file, space and frame has an owner until an event that
  loses it (`FilesKept`, `MmsKept`, `FramesKept`). Tables of tasks without PF_VFORK are
  disjoint (`OwnFiles`), and the descriptors a program knows of are those of its table
  (`Lives`).

`ListLemmas` has what these proofs share about sequences without repetition: the entries
after an insertion, a removal, a tail, and that they stay apart; and that the numbers of a
finite set can be counted off from the least. The modules write a removal as the community
modules' `RemoveFirst`, and `Process` counts heap frames as the cardinality of a set of
pairs: sums and folds are recursive, and what they compute for every input cannot be proved
here.

Only model-checked: every liveness property (the prover has no ENABLED, hence no fairness):
`LockProgress`, `TransferReturns`, `WaitReturns`, `TimerFires`, `KeysRead`, `BootEnds`; and
`FaultsByOneWindow`, which speaks of behaviours with one window only and would need
`MemoryInv` once more for each window. No module that is proved about declares or reaches a
RECURSIVE operator.


## Not modelled, and why

* Interrupt controllers and dispatch (APIC.c, 8259A.c, interrupt.c): registers
  programmed once, and a table of handlers. Traps (trap.c) print and stop.
* Console output (printk.c, font.h): formatting; its lock is `Spinlock`.
* kallsyms.c is a host tool, backtrace.c reads the stack.
* The boot loader, APU_boot.S, cpu.c, time.c and head.S but for its switch of page
  tables: straight lines.
* `path_walk` and the dentries it makes (VFS.c): names; nothing is ever taken out of
  that tree.
* User programs and library: above the system calls.
* Within the modules: the four stores of a list operation (except in `WaitList`);
  `kmalloc` that fails (except in `Memory`); the ports of the drive; the IDENTIFY command, which nobody
  issues; in `Fat32` a read from behind the end of the file, directories, and errors
  of transfers, which `IDE_transfer` never reports; in `Memory` runs of several pages,
  which nobody asks for, and `slab_create` and its like, which nobody calls.
* The other snapshots. They are some 480,000 of the repository's 494,000 lines of code,
  earlier states of the same files: a module of one would repeat a part of those here.

## Plan

1. Done: `Schedule`, `Dispatch`, `Spinlock`, `Disk`, `Lifecycle`, `Timer`,
   `Keyboard`, `Mouse`, `Fat32`, `Memory`, `Process`, `SmpStart`, `WaitList`.
2. Done: proofs of every safety property that a run checks, `FaultsByOneWindow`
   excepted, and of the refinement of `Dispatch`.
3. Open: `FaultsByOneWindow` with `MemoryInv` split further, by the one window hit.
4. Open: an abstract file, a sequence of bytes, that `Fat32` with one task implements up
   to its first event; O_TRUNC and O_APPEND against what fcntl.h says of them.
