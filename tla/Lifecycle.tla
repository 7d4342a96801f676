------------------------------ MODULE Lifecycle ------------------------------
(***************************************************************************)
(* The life of a task: do_fork gives it a pid and puts it on the list of   *)
(* all tasks, do_exit makes it a zombie and wakes its parent, sys_wait4 of *)
(* the parent sleeps until then and frees it (task.c, sys.c, waitqueue.c). *)
(* All three run with interrupts enabled and may be preempted; their paths *)
(* are cut where that makes a difference.                                  *)
(***************************************************************************)
EXTENDS Dispatch, Sequences

CONSTANTS
  InitTask,  \* the child of idle that runs init
  NoTask,    \* NULL
  MaxPid,    \* bound on global_pid, for model checking
  MaxHits    \* bound on the windows interrupts land in, for model checking

ASSUME LifecycleAssumption ==
  /\ InitTask \in Tasks
  /\ IsFiniteSet(Tasks) /\ NoTask \notin AllTasks
  /\ MaxPid \in Nat \ {0, 1} /\ MaxHits \in Nat

VARIABLES
  pc,          \* where each task is in do_fork, do_exit or sys_wait4
  pid,         \* task_struct.pid
  parent,      \* task_struct.parent
  next,        \* task_struct.next: the list of all tasks, init_task its head
  global_pid,
  loaded,      \* the global_pid that a task's do_fork has read
  new,         \* tsk in do_fork
  behind,      \* the head's next that a task's do_fork has read
  child,       \* child in sys_wait4
  prev,        \* tsk in sys_wait4: the entry before child when it was found
  waiting,     \* the tasks whose entry is on their own wait_childexit
  hit          \* history: windows an interrupt landed in, and other events

listVars == <<next, pid, global_pid, parent>>
forkVars == <<loaded, new, behind>>
waitVars == <<child, prev, waiting>>
vars == <<dispatchVars, pc, listVars, forkVars, waitVars, hit>>

\* Where a task is about to act on what it has read before.
Windows == {"store_pid",    \* do_fork: global_pid read, not yet stored
            "link",         \* do_fork: the head's next read, not yet replaced
            "sleep_set",    \* sys_wait4: the child was found alive
            "sleep_link",   \* sleep_on: state is set, not yet on the list
            "sleep_switch", \* sleep_on: on the list, schedule() not reached
            "notify",       \* do_exit: a zombie, the parent not yet told
            "notify_queue"} \* do_exit: the parent RUNNING, not yet queued
PCs == Windows \cup {"run", "wakeup", "exit_switch", "reap"}

\* What else may go wrong without any interrupt.
Events == {"wrong_child",  \* a task waiting for one child was woken by another
           "stale_prev",   \* prev no longer precedes child when it is unlinked
           "orphaned"}     \* a task was freed before its children had exited
-----------------------------------------------------------------------------
Goto(here, there) == pc[current] = here /\ pc' = [pc EXCEPT ![current] = there]

Exists(t) == state[t] # "NONE"
Alive(t) == state[t] \notin {"NONE", "ZOMBIE"}

\* The tasks do_fork has not linked yet, and those it has.
BeingForked == {new[t] : t \in {u \in Tasks : pc[u] \in {"store_pid", "link"}}}
Existing == {t \in Tasks : Exists(t)} \ BeingForked

\* The i-th entry of the list behind its head, by way of next.
Entry[i \in 0..Cardinality(Tasks) + 1] ==
  IF i = 0 THEN Idle ELSE next[Entry[i - 1]]

\* The tasks on the list.
Listed == {Entry[i] : i \in 1..Cardinality(Tasks)} \ {Idle}

\* The places of the list whose successor has the pid, before the head recurs.
Before(p) ==
  {i \in 0..Cardinality(Tasks) :
     /\ \A j \in 1..i + 1 : Entry[j] # Idle
     /\ pid[Entry[i + 1]] = p}

First(places) == CHOOSE i \in places : \A j \in places : i <= j
-----------------------------------------------------------------------------
(* do_fork.  Operators named for what they do wrong, here and below, are          *)
(* variants of the next one that a slip would give.                             *)

\* kmalloc, the copy of the parent's task_struct, and the load of global_pid++.
Fork(t) ==
  /\ current # Idle
  /\ state[t] = "NONE"
  /\ global_pid < MaxPid
  /\ pc[current] = "run"
  /\ pc' = [pc EXCEPT ![current] = "store_pid", ![t] = "run"]
  /\ waiting' = waiting \ {t}
  /\ state' = [state EXCEPT ![t] = "UNINTERRUPTIBLE"]
  /\ pid' = [pid EXCEPT ![t] = pid[current]]
  /\ parent' = [parent EXCEPT ![t] = parent[current]]
  /\ next' = [next EXCEPT ![t] = next[current]]
  /\ loaded' = [loaded EXCEPT ![current] = global_pid]
  /\ new' = [new EXCEPT ![current] = t]
  /\ UNCHANGED <<current, queued, fault, global_pid, behind, child, prev, hit>>

\* The store, and tsk->next = init_task_union.task.next.
ForkPid ==
  /\ Goto("store_pid", "link")
  /\ global_pid' = loaded[current] + 1
  /\ pid' = [pid EXCEPT ![new[current]] = loaded[current]]
  /\ behind' = [behind EXCEPT ![current] = next[Idle]]
  /\ loaded' = [loaded EXCEPT ![current] = 0]
  /\ UNCHANGED <<dispatchVars, next, parent, new, waitVars, hit>>

\* init_task_union.task.next = tsk, tsk->parent = current.
ForkLink ==
  /\ Goto("link", "wakeup")
  /\ next' = [next EXCEPT ![new[current]] = behind[current], ![Idle] = new[current]]
  /\ behind' = [behind EXCEPT ![current] = NoTask]
  /\ parent' = [parent EXCEPT ![new[current]] = current]
  /\ UNCHANGED <<dispatchVars, pid, global_pid, loaded, new, waitVars, hit>>

\* wakeup_process(tsk); Schedule has the steps of its insert_task_queue.
ForkWakeup ==
  LET tsk == new[current]
  IN /\ Goto("wakeup", "run")
     /\ state' = [state EXCEPT ![tsk] = "RUNNING"]
     /\ queued' = queued \cup {tsk}
     /\ new' = [new EXCEPT ![current] = NoTask]
     /\ UNCHANGED <<current, fault, listVars, loaded, behind, waitVars, hit>>
-----------------------------------------------------------------------------
(* do_exit *)

\* What is done with interrupts disabled.
Exit ==
  /\ current # Idle
  /\ Goto("run", "notify")
  /\ state' = [state EXCEPT ![current] = "ZOMBIE"]
  /\ UNCHANGED <<current, queued, fault, listVars, forkVars, waitVars, hit>>

NotifiesUninterruptible(p) == p \in waiting /\ state[p] = "UNINTERRUPTIBLE"

\* wakeup(&parent->wait_childexit, TASK_INTERRUPTIBLE) finds the parent asleep.
Notifies(p) == p \in waiting /\ state[p] = "INTERRUPTIBLE"

\* exit_notify, up to the insert_task_queue of wakeup_process.  The parent's
\* task_struct may have been freed.
ExitNotify ==
  LET p == parent[current]
  IN \/ /\ pc[current] = "notify" /\ ~Exists(p)
        /\ fault' = "freed_parent"
        /\ UNCHANGED <<current, state, queued, pc, listVars, forkVars, waitVars, hit>>
     \/ /\ Exists(p) /\ ~Notifies(p)
        /\ Goto("notify", "exit_switch")
        /\ UNCHANGED <<dispatchVars, listVars, forkVars, waitVars, hit>>
     \/ /\ Exists(p) /\ Notifies(p)
        /\ Goto("notify", "notify_queue")
        /\ state' = [state EXCEPT ![p] = "RUNNING"]
        /\ waiting' = waiting \ {p}
        /\ hit' = hit \cup (IF child[p] # current THEN {"wrong_child"} ELSE {})
        /\ UNCHANGED <<current, queued, fault, listVars, forkVars, child, prev>>

\* The insert_task_queue; an entry linked twice would destroy the run queue.
ExitWakeup ==
  LET p == parent[current]
  IN /\ Goto("notify_queue", "exit_switch")
     /\ queued' = queued \cup ({p} \ {Idle})
     /\ fault' = IF p \in queued THEN "list_corrupted" ELSE "none"
     /\ UNCHANGED <<current, state, listVars, forkVars, waitVars, hit>>

\* schedule(), from which a zombie never comes back.
ExitSwitch ==
  /\ pc[current] = "exit_switch"
  /\ Reschedule(state, queued)
  /\ UNCHANGED <<pc, listVars, forkVars, waitVars, hit>>
-----------------------------------------------------------------------------
(* sys_wait4 *)

\* The pids the running task has reason to wait for.
OfChildren == {pid[t] : t \in {u \in Existing : parent[u] = current}}

\* Find the child by its pid; a zombie is reaped at once.
Wait4(p) ==
  /\ current # Idle
  /\ Before(p) # {}
  /\ LET i == First(Before(p))
         c == Entry[i + 1]
     IN /\ Goto("run", IF state[c] = "ZOMBIE" THEN "reap" ELSE "sleep_set")
        /\ child' = [child EXCEPT ![current] = c]
        /\ prev' = [prev EXCEPT ![current] = Entry[i]]
  /\ UNCHANGED <<dispatchVars, listVars, forkVars, waiting, hit>>

SleepSetStateForgotten ==
  /\ Goto("sleep_set", "sleep_link")
  /\ UNCHANGED <<dispatchVars, listVars, forkVars, waitVars, hit>>

\* interruptible_sleep_on(&current->wait_childexit)
SleepSetState ==
  /\ Goto("sleep_set", "sleep_link")
  /\ state' = [state EXCEPT ![current] = "INTERRUPTIBLE"]
  /\ UNCHANGED <<current, queued, fault, listVars, forkVars, waitVars, hit>>

\* An entry left behind on the list by an earlier call is overwritten.
SleepLink ==
  /\ Goto("sleep_link", "sleep_switch")
  /\ waiting' = waiting \cup {current}
  /\ fault' = IF current \in waiting THEN "list_corrupted" ELSE "none"
  /\ UNCHANGED <<current, state, queued, listVars, forkVars, child, prev, hit>>

SleepSwitch ==
  /\ Goto("sleep_switch", "reap")
  /\ Reschedule(state, queued)
  /\ UNCHANGED <<listVars, forkVars, waitVars, hit>>

\* The list has t right before c.
Precedes(t, c) == t \in Listed \cup {Idle} /\ next[t] = c

UnlinkNothing == next

\* tsk->next = child->next
Unlink == [next EXCEPT ![prev[current]] = next[child[current]]]

\* tsk->next = child->next, exit_mm(child), kfree(child): without another look at
\* either of them.
Reap ==
  LET c == child[current]
  IN /\ Goto("reap", "run")
     /\ next' = Unlink
     /\ state' = [state EXCEPT ![c] = "NONE"]
     /\ fault' = CASE Alive(c) -> "freed_alive"
                   [] state[c] = "NONE" -> "freed_twice"
                   [] state[c] = "ZOMBIE" -> "none"
     /\ child' = [child EXCEPT ![current] = NoTask]
     /\ prev' = [prev EXCEPT ![current] = NoTask]
     /\ hit' = hit
          \cup (IF Precedes(prev[current], c) THEN {} ELSE {"stale_prev"})
          \cup (IF \E t \in Tasks : parent[t] = c /\ Alive(t) THEN {"orphaned"} ELSE {})
     /\ UNCHANGED <<current, queued, pid, global_pid, parent, forkVars, waiting>>
-----------------------------------------------------------------------------
\* Any interrupt that reaches ret_from_intr.
Tick ==
  /\ RetFromIntr(state, queued)
  /\ hit' = hit \cup ({pc[current]} \cap Windows)
  /\ Cardinality(hit' \cap Windows) <= MaxHits
  /\ UNCHANGED <<pc, listVars, forkVars, waitVars>>

Init ==
  /\ current = Idle
  /\ state = [t \in AllTasks |-> IF t \in {Idle, InitTask} THEN "RUNNING" ELSE "NONE"]
  /\ queued = {InitTask}
  /\ fault = "none"
  /\ pc = [t \in AllTasks |-> "run"]
  /\ pid = [t \in AllTasks |-> IF t = InitTask THEN 1 ELSE 0]
  /\ parent = [t \in AllTasks |-> Idle]
  /\ next = [t \in AllTasks |-> IF t = Idle THEN InitTask ELSE Idle]
  /\ global_pid = 2
  /\ loaded = [t \in AllTasks |-> 0]
  /\ new = [t \in AllTasks |-> NoTask]
  /\ behind = [t \in AllTasks |-> NoTask]
  /\ child = [t \in AllTasks |-> NoTask]
  /\ prev = [t \in AllTasks |-> NoTask]
  /\ waiting = {}
  /\ hit = {}

DoFork == (\E t \in Tasks : Fork(t)) \/ ForkPid \/ ForkLink \/ ForkWakeup
DoExit == Exit \/ ExitNotify \/ ExitWakeup \/ ExitSwitch
SysWait4 == (\E p \in OfChildren : Wait4(p)) \/ SleepSetState \/ SleepLink
            \/ SleepSwitch \/ Reap

Running == fault = "none" /\ (DoFork \/ DoExit \/ SysWait4 \/ Tick)
Stopped == fault # "none" /\ UNCHANGED vars
Next == Running \/ Stopped

Spec == Init /\ [][Next]_vars

\* A step of the running task, within a call it has begun.
Proceed(t) ==
  /\ fault = "none" /\ current = t
  /\ \/ ForkPid \/ ForkLink \/ ForkWakeup \/ ExitNotify \/ ExitWakeup \/ ExitSwitch
     \/ SleepSetState \/ SleepLink \/ SleepSwitch \/ Reap

\* Interrupts come, a slice is longer than a step, and the run queue's order by
\* vrun_time gives every queued task its turn.
FairSpec ==
  /\ Spec
  /\ \A t \in Tasks : /\ SF_vars(Proceed(t))
                      /\ SF_vars(fault = "none" /\ Tick /\ current' = t)
-----------------------------------------------------------------------------
(* Properties *)

\* Every variable keeps the type its C declaration and its use give it.
TypeOK ==
  /\ current \in AllTasks
  /\ state \in [AllTasks -> {"NONE", "RUNNING", "INTERRUPTIBLE", "UNINTERRUPTIBLE", "ZOMBIE"}]
  /\ queued \subseteq Tasks
  /\ fault \in {"none", "list_corrupted", "freed_parent", "freed_alive", "freed_twice"}
  /\ pc \in [AllTasks -> PCs]
  /\ pid \in [AllTasks -> 0..MaxPid]
  /\ parent \in [AllTasks -> AllTasks]
  /\ next \in [AllTasks -> AllTasks]
  /\ global_pid \in 2..MaxPid
  /\ loaded \in [AllTasks -> 0..MaxPid]
  /\ {new, behind, child, prev} \subseteq [AllTasks -> AllTasks \cup {NoTask}]
  /\ waiting \subseteq Tasks
  /\ hit \subseteq Windows \cup Events

Works == fault = "none"

\* A pid names one task, unless an interrupt has landed between the load and the
\* store of global_pid++ (task.c:438).
PidsUnique ==
  "store_pid" \notin hit =>
    \A t, u \in Existing : t # u => pid[t] # pid[u]

\* The list of all tasks holds exactly the tasks there are, so wait4 and kill find
\* each of them and nothing freed, unless an interrupt has landed between the load
\* and the store of the head (task.c:442-443), or wait4 has unlinked a child from
\* behind a task that no longer preceded it (sys.c:304).
ListComplete ==
  Works /\ hit \cap {"link", "stale_prev"} = {} => Listed = Existing

\* The list of all tasks is in order through every fork, exit and wait4, and so are
\* the pids by which it is searched.
ListSound == TypeOK /\ ListComplete /\ PidsUnique

\* wait4 and do_exit free no task that lives and touch none that is freed, except
\* that a task woken by the exit of one child frees another it was waiting for, that
\* a task may exit after its parent is gone, and that two tasks may free one when
\* a pid has been given twice.  No interleaving links a task into the run queue
\* twice.
FaultsByEvent ==
  /\ fault = "freed_alive" => hit \cap {"wrong_child", "store_pid"} # {}
  /\ fault = "freed_parent" => "orphaned" \in hit
  /\ fault = "freed_twice" => "store_pid" \in hit
  /\ fault # "list_corrupted"

\* Where an interrupt lets an exit go unnoticed: two tasks of one pid, a parent
\* that will sleep although its child is dead, a zombie that will not tell.
LosesExit == {"store_pid", "sleep_set", "sleep_link", "notify", "notify_queue"}

\* A parent asleep for a child that exits returns from wait4, unless the exit was
\* lost.
WaitReturns ==
  \A t \in Tasks :
    pc[t] = "reap" /\ state[child[t]] = "ZOMBIE" ~>
      \/ pc[t] = "run"
      \/ ~Works \/ hit \cap LosesExit # {}
=============================================================================
