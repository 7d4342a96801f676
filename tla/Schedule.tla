------------------------------ MODULE Schedule ------------------------------
(***************************************************************************)
(* The scheduler of CPU 0: the run queue ordered by vrun_time (schedule.c),*)
(* the HPET tick that charges the running task, the return path of every   *)
(* interrupt that may preempt it (entry.S, ret_from_intr), sleeping on and *)
(* waking from a wait queue (waitqueue.c), and the birth of tasks          *)
(* (do_fork).                                                              *)
(*                                                                         *)
(* A kernel path that runs with interrupts enabled is cut into one action  *)
(* for each stretch between two points where an interrupt matters; pc[t]   *)
(* is the point task t has reached.  An interrupt handler together with    *)
(* ret_from_intr and the schedule() it may call is one action, because it  *)
(* runs with interrupts disabled.  Only the running task moves: a switch   *)
(* leaves pc of the task switched away from as it is.                      *)
(***************************************************************************)
EXTENDS Integers, FiniteSets, SequencesExt

CONSTANTS
  Tasks,     \* the task_structs that do_fork may create
  InitTask,  \* the one created at boot by kernel_thread(init)
  Idle,      \* init_task[0], which is never put on the run queue
  NoTask,    \* NULL; as a place in the run queue, its list head
  Priority,  \* task_struct.priority; do_fork and INIT_TASK only ever set 2
  MaxVrun    \* bound on vrun_time, for model checking

ASSUME TasksAssumption ==
  /\ IsFiniteSet(Tasks)
  /\ InitTask \in Tasks
  /\ Idle \notin Tasks
  /\ NoTask \notin Tasks \cup {Idle}

ASSUME NumberAssumption == Priority \in Nat /\ MaxVrun \in Nat

AllTasks == Tasks \cup {Idle}

VARIABLES
  current,                \* the task whose stack the CPU is on
  state,                  \* task_struct.state, "NONE" before do_fork
  need_schedule,          \* the bit NEED_SCHEDULE of task_struct.flags
  vrun_time,              \* task_struct.vrun_time
  task_queue,             \* the run queue, from list_next of its head on
  running_task_count,
  CPU_exec_task_jiffies,  \* what is left of the running task's slice
  wait_list,              \* sleepers of keyboard_wait_queue, oldest first
  pc,                     \* where each task is in the kernel
  inserting,              \* tsk in the insert_task_queue a task has under way
  before,                 \* tmp in that call: the entry tsk is to precede
  loaded,                 \* the count that call has read to add 1 to
  fault,                  \* what stopped the kernel, "none" while it runs
  hit                     \* history: the windows an interrupt has landed in

queueVars == <<task_queue, running_task_count, CPU_exec_task_jiffies, fault>>
vars == <<current, state, need_schedule, vrun_time, queueVars, wait_list, pc,
          inserting, before, loaded, hit>>

(***************************************************************************)
(* The windows: the task holds half-updated scheduler state, yet           *)
(* interrupts are enabled.                                                 *)
(***************************************************************************)
Windows == {"sleep_link",    \* sleep_on: state is set, not yet on the list
            "sleep_switch",  \* sleep_on: on the list, schedule() not reached
            "insert_link",   \* insert_task_queue: tmp found, tsk not linked
            "insert_load",   \* insert_task_queue: linked, not yet counted
            "insert_store"}  \* insert_task_queue: count read, not yet stored
PCs == Windows \cup {"run", "fork"}
States == {"NONE", "RUNNING", "UNINTERRUPTIBLE"}

-----------------------------------------------------------------------------
(* Slices and charges.  Operators named for what they do wrong, here and below,  *)
(* are variants of the one they precede that a slip in the code would give.      *)

\* What a tick takes from the slice and adds to vrun_time.
Charge == IF Priority \in {0, 1} THEN 1 ELSE 2

\* Division as C does it, towards 0.
Quotient(n, d) == IF d > 0 THEN n \div d ELSE -(n \div (-d))

\* The slice schedule() deals out when none is left.
Slice(count) == IF Priority \in {0, 1} THEN Quotient(4, count)
                ELSE Quotient(4, count) * 3

\* The slice is refilled when it is exactly 0.
Refill(slice, count) == IF slice = 0 THEN Slice(count) ELSE slice

GivesWayReversed(vr, task, tsk) == vr[task] <= vr[tsk]

\* A task that could go on gives way to tsk when it has not run less.
GivesWay(vr, task, tsk) == vr[task] >= vr[tsk]

(* The run queue as a list ordered by vrun_time *)

PlaceLast(q, vr, t) == Len(q) + 1

\* The place the while loop of insert_task_queue stops at.  The list head has
\* vrun_time 0x7fffffffffffffff, so the loop ends there at the latest.
Place(q, vr, t) ==
  CHOOSE i \in 1..Len(q) + 1 :
    /\ \A j \in 1..i - 1 : vr[q[j]] < vr[t]
    /\ i <= Len(q) => vr[q[i]] >= vr[t]

InsertEvenIdle(q, vr, t) == InsertAt(q, Place(q, vr, t), t)
InsertUnlessEmpty(q, vr, t) ==
  IF t = Idle \/ q = <<>> THEN q ELSE InsertAt(q, Place(q, vr, t), t)

\* insert_task_queue run to its end with interrupts disabled.
Insert(q, vr, t) == IF t = Idle THEN q ELSE InsertAt(q, Place(q, vr, t), t)

CountedAlways(t) == 1
CountedNever(t) == 0

\* What that adds to running_task_count.
Counted(t) == IF t = Idle THEN 0 ELSE 1

-----------------------------------------------------------------------------
(***************************************************************************)
(* schedule(), given the state the caller has reached within its own step. *)
(* Linking an entry that is on the list already destroys the list, and the *)
(* refill divides by running_task_count: either one ends the run.          *)
(***************************************************************************)
Reschedule(st, need, vr, q, count, slice) ==
  LET empty   == q = <<>>
      tsk     == IF empty THEN Idle ELSE Head(q)
      rest    == IF empty THEN q ELSE Tail(q)
      left    == IF empty THEN count ELSE count - 1
      runs    == st[current] = "RUNNING"
      switch  == GivesWay(vr, current, tsk) \/ ~runs
      back    == IF switch THEN current ELSE tsk
      putback == switch => runs
      total   == IF putback THEN left + Counted(back) ELSE left
      broken  == putback /\ back \in ToSet(rest)
      divzero == slice = 0 /\ total = 0
  IN /\ need_schedule' = [need EXCEPT ![current] = FALSE]
     /\ vrun_time' = vr
     /\ state' = st
     /\ fault' = IF broken THEN "list_corrupted"
                 ELSE IF divzero THEN "divide_error" ELSE "none"
     /\ task_queue' = IF putback /\ ~broken THEN Insert(rest, vr, back) ELSE rest
     /\ running_task_count' = total
     /\ CPU_exec_task_jiffies' = IF divzero THEN slice ELSE Refill(slice, total)
     /\ current' = IF switch THEN tsk ELSE current

\* ret_from_intr: preempt_count is 0 wherever interrupts are enabled, so only
\* NEED_SCHEDULE decides.
RetFromIntr(st, need, vr, q, count, slice) ==
  \/ /\ need[current]
     /\ Reschedule(st, need, vr, q, count, slice)
  \/ /\ ~need[current]
     /\ state' = st
     /\ need_schedule' = need
     /\ vrun_time' = vr
     /\ task_queue' = q
     /\ running_task_count' = count
     /\ CPU_exec_task_jiffies' = slice
     /\ UNCHANGED <<current, fault>>

\* An interrupt is taken: remember the window it landed in.
Interrupted == hit' = hit \cup ({pc[current]} \cap Windows)

-----------------------------------------------------------------------------
(* Interrupts *)

HPET_handler ==
  /\ vrun_time[current] + Charge <= MaxVrun
  /\ LET slice == CPU_exec_task_jiffies - Charge
         vr    == [vrun_time EXCEPT ![current] = @ + Charge]
         need  == [need_schedule EXCEPT ![current] = @ \/ slice <= 0]
     IN RetFromIntr(state, need, vr, task_queue, running_task_count, slice)
  /\ Interrupted
  /\ UNCHANGED <<wait_list, pc, inserting, before, loaded>>

\* The sleeper that keyboard_handler's wakeup(.., TASK_UNINTERRUPTIBLE) finds.
Sleeper == IF wait_list # <<>> /\ state[Head(wait_list)] = "UNINTERRUPTIBLE"
           THEN Head(wait_list) ELSE NoTask

\* keyboard_handler.  With no sleeper it stands for the other device
\* interrupts too: they only pass through ret_from_intr.
Keyboard_handler ==
  /\ \/ /\ Sleeper = NoTask
        /\ RetFromIntr(state, need_schedule, vrun_time, task_queue,
                       running_task_count, CPU_exec_task_jiffies)
        /\ UNCHANGED wait_list
     \/ /\ Sleeper \in Tasks \ ToSet(task_queue)
        /\ wait_list' = Tail(wait_list)
        /\ RetFromIntr([state EXCEPT ![Sleeper] = "RUNNING"],
                       [need_schedule EXCEPT ![current] = TRUE], vrun_time,
                       Insert(task_queue, vrun_time, Sleeper),
                       running_task_count + 1, CPU_exec_task_jiffies)
     \/ /\ Sleeper \in ToSet(task_queue)
        /\ fault' = "list_corrupted"
        /\ UNCHANGED <<current, state, need_schedule, vrun_time, task_queue,
                       running_task_count, CPU_exec_task_jiffies, wait_list>>
  /\ Interrupted
  /\ UNCHANGED <<pc, inserting, before, loaded>>

-----------------------------------------------------------------------------
(* sleep_on(&keyboard_wait_queue), called by the running task *)

Goto(here, next) == pc[current] = here /\ pc' = [pc EXCEPT ![current] = next]

SleepSetState ==
  /\ current # Idle
  /\ Goto("run", "sleep_link")
  /\ state' = [state EXCEPT ![current] = "UNINTERRUPTIBLE"]
  /\ UNCHANGED <<current, need_schedule, vrun_time, queueVars, wait_list,
                 inserting, before, loaded, hit>>

\* The entry is on the stack of sleep_on: one left behind by an earlier call
\* that returned without a wakeup is overwritten while it is on the list.
SleepLink ==
  /\ Goto("sleep_link", "sleep_switch")
  /\ wait_list' = Append(wait_list, current)
  /\ fault' = IF current \in ToSet(wait_list) THEN "list_corrupted" ELSE "none"
  /\ UNCHANGED <<current, state, need_schedule, vrun_time, task_queue,
                 running_task_count, CPU_exec_task_jiffies, inserting, before,
                 loaded, hit>>

SleepSwitch ==
  /\ Goto("sleep_switch", "run")
  /\ Reschedule(state, need_schedule, vrun_time, task_queue,
                running_task_count, CPU_exec_task_jiffies)
  /\ UNCHANGED <<wait_list, inserting, before, loaded, hit>>

-----------------------------------------------------------------------------
(* do_fork by the running task, and the wakeup_process that ends it *)

\* The child starts as a copy of its parent, flags and vrun_time included.
Fork(child) ==
  /\ current # Idle
  /\ state[child] = "NONE"
  /\ Goto("run", "fork")
  /\ state' = [state EXCEPT ![child] = "UNINTERRUPTIBLE"]
  /\ vrun_time' = [vrun_time EXCEPT ![child] = vrun_time[current]]
  /\ need_schedule' = [need_schedule EXCEPT ![child] = need_schedule[current]]
  /\ inserting' = [inserting EXCEPT ![current] = child]
  /\ UNCHANGED <<current, queueVars, wait_list, before, loaded, hit>>

\* wakeup_process: state is set and insert_task_queue looks for the place.
InsertFind ==
  /\ Goto("fork", "insert_link")
  /\ LET tsk   == inserting[current]
         place == Place(task_queue, vrun_time, tsk)
     IN /\ state' = [state EXCEPT ![tsk] = "RUNNING"]
        /\ before' = [before EXCEPT ![current] =
             IF place <= Len(task_queue) THEN task_queue[place] ELSE NoTask]
  /\ UNCHANGED <<current, need_schedule, vrun_time, queueVars, wait_list,
                 inserting, loaded, hit>>

\* list_add_to_before(&tmp->list, &tsk->list): it goes wrong if tmp has left
\* the list since the loop found it.
InsertLink ==
  /\ Goto("insert_link", "insert_load")
  /\ LET tmp  == before[current]
         tsk  == inserting[current]
         gone == tmp # NoTask /\ tmp \notin ToSet(task_queue)
         i    == IF tmp = NoTask THEN Len(task_queue) + 1
                 ELSE CHOOSE j \in 1..Len(task_queue) : task_queue[j] = tmp
     IN \/ /\ gone
           /\ fault' = "list_corrupted"
           /\ UNCHANGED task_queue
        \/ /\ ~gone
           /\ task_queue' = InsertAt(task_queue, i, tsk)
           /\ UNCHANGED fault
  /\ before' = [before EXCEPT ![current] = NoTask]
  /\ UNCHANGED <<current, state, need_schedule, vrun_time, running_task_count,
                 CPU_exec_task_jiffies, wait_list, inserting, loaded, hit>>

\* running_task_count += 1 is a load and a store in the kernel's build (gcc
\* without optimisation): what interrupts do to the count in between is lost.
InsertLoad ==
  /\ Goto("insert_load", "insert_store")
  /\ loaded' = [loaded EXCEPT ![current] = running_task_count]
  /\ UNCHANGED <<current, state, need_schedule, vrun_time, queueVars, wait_list,
                 inserting, before, hit>>

\* The store, then wakeup_process asks for a reschedule.
InsertStore ==
  /\ Goto("insert_store", "run")
  /\ running_task_count' = loaded[current] + 1
  /\ need_schedule' = [need_schedule EXCEPT ![current] = TRUE]
  /\ inserting' = [inserting EXCEPT ![current] = NoTask]
  /\ loaded' = [loaded EXCEPT ![current] = 0]
  /\ UNCHANGED <<current, state, vrun_time, task_queue, CPU_exec_task_jiffies,
                 fault, wait_list, before, hit>>

-----------------------------------------------------------------------------
\* As task_init and the sti() of main leave things: kernel_thread(init) has put
\* the first task on the queue and asked idle to reschedule.
Init ==
  /\ current = Idle
  /\ state = [t \in AllTasks |-> IF t \in {Idle, InitTask} THEN "RUNNING" ELSE "NONE"]
  /\ need_schedule = [t \in AllTasks |-> t = Idle]
  /\ vrun_time = [t \in AllTasks |-> 0]
  /\ task_queue = <<InitTask>>
  /\ running_task_count = 2
  /\ CPU_exec_task_jiffies = 4
  /\ wait_list = <<>>
  /\ pc = [t \in AllTasks |-> "run"]
  /\ inserting = [t \in AllTasks |-> NoTask]
  /\ before = [t \in AllTasks |-> NoTask]
  /\ loaded = [t \in AllTasks |-> 0]
  /\ fault = "none"
  /\ hit = {}

Interrupt == HPET_handler \/ Keyboard_handler
SleepOn   == SleepSetState \/ SleepLink \/ SleepSwitch
DoFork    == (\E child \in Tasks : Fork(child)) \/ InsertFind \/ InsertLink
             \/ InsertLoad \/ InsertStore

\* The kernel takes no step after a fault: the divide error handler hangs, and
\* what a destroyed list does is not modelled.
Running == fault = "none" /\ (Interrupt \/ SleepOn \/ DoFork)
Stopped == fault # "none" /\ UNCHANGED vars
Next == Running \/ Stopped

Spec == Init /\ [][Next]_vars

-----------------------------------------------------------------------------
(* Properties *)

\* Every variable keeps the type its C declaration and its use give it.
TypeOK ==
  /\ current \in AllTasks
  /\ state \in [AllTasks -> States]
  /\ need_schedule \in [AllTasks -> BOOLEAN]
  /\ vrun_time \in [AllTasks -> Nat]
  /\ task_queue \in Seq(Tasks)
  /\ running_task_count \in Int
  /\ CPU_exec_task_jiffies \in Int
  /\ wait_list \in Seq(Tasks)
  /\ pc \in [AllTasks -> PCs]
  /\ inserting \in [AllTasks -> Tasks \cup {NoTask}]
  /\ before \in [AllTasks -> Tasks \cup {NoTask}]
  /\ loaded \in [AllTasks -> Int]
  /\ fault \in {"none", "list_corrupted", "divide_error"}
  /\ hit \subseteq Windows

Alive == fault = "none"
Queued == ToSet(task_queue)
BeingForked == {inserting[t] : t \in {u \in Tasks : pc[u] \in {"fork", "insert_link"}}}
CountWindows == {"insert_load", "insert_store"}
Uncounted == {t \in Tasks : pc[t] \in CountWindows}

\* running_task_count, which schedule() divides by, is one for idle plus one for
\* each queued task, less the tasks that were preempted between linking an entry
\* and counting it (schedule.c:60-61), until an interrupt lands inside the
\* increment: then an update is lost for good.
CountMatchesQueue ==
  Alive /\ "insert_store" \notin hit =>
    running_task_count = 1 + Len(task_queue) - Cardinality(Uncounted)

\* An interrupt has left the run queue itself in doubt: it has woken a sleeper
\* that had not switched away, or come between the search and the link.
ListWindows == {"sleep_switch", "insert_link"}

\* schedule() never divides by zero and the lists are never corrupted by any
\* interleaving of ticks, wakeups, sleeps and forks, unless an interrupt has
\* landed in one of the windows: CountWindows for the division, ListWindows for
\* the lists.
FaultsByWindow ==
  /\ fault = "divide_error" => hit \cap CountWindows # {}
  /\ fault = "list_corrupted" => hit \cap ListWindows # {}

\* No runnable task is forgotten: it runs, it is queued, or the task that forks
\* it is about to queue it.  Only a fault can lose one.
RunnableNotLost ==
  Alive => \A t \in Tasks :
    state[t] = "RUNNING" => t = current \/ t \in Queued \cup BeingForked

\* The queue is ordered by vrun_time, so its first entry is the task that has
\* run least, as long as no interrupt has left it in doubt.
QueueSorted ==
  hit \cap ListWindows = {} =>
    \A i, j \in DOMAIN task_queue :
      i < j => vrun_time[task_queue[i]] <= vrun_time[task_queue[j]]

\* No sleeper is forgotten: a task switched away from while it sleeps is on the
\* wait list, where keyboard_handler will find it, unless it was preempted
\* between setting its state and linking itself (waitqueue.c:30-31).
SleeperNotLost ==
  Alive /\ "sleep_link" \notin hit => \A t \in Tasks :
    state[t] = "UNINTERRUPTIBLE" =>
      t = current \/ t \in ToSet(wait_list) \cup BeingForked

\* Both queues hold what they are searched for.
QueuesSound == QueueSorted /\ SleeperNotLost

\* The most a slice can be: the one dealt out to a task alone with idle.
MaxSlice == Slice(1)

\* Nobody is starved by the running task: what it has run, with what is left of
\* its slice, is never more than one full slice ahead of the task that heads
\* the queue, whatever sleeps, wakeups and forks happen, unless a reschedule is
\* pending or the task is about to ask for one.
BoundedLag ==
  /\ hit \cap ListWindows = {} /\ task_queue # <<>>
  /\ ~need_schedule[current] /\ pc[current] \notin CountWindows
  =>
    vrun_time[current] + Max({CPU_exec_task_jiffies, 0})
      <= vrun_time[Head(task_queue)] + MaxSlice

\* The queue as the rest of the kernel sees it.
Abstract == INSTANCE Dispatch WITH queued <- ToSet(task_queue)

\* The scheduler in detail does nothing its abstraction does not allow: a switch
\* goes to a queued task or, when there is none, to idle; a task leaves the queue
\* only for the CPU; what runs and what waits changes only as Dispatch says.
RefinesDispatch == Abstract!DispatchSpec
=============================================================================
