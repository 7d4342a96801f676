----------------------------- MODULE SmpStart -----------------------------
(***************************************************************************)
(* How the processor that boots (Start_Kernel in main.c) starts the other  *)
(* ones, which run head.S and Start_SMP.  SMP_lock is taken by the one and *)
(* given back by the other, so that _stack_start, the TSS of global_i, the *)
(* pids and the list of tasks are only one new processor's at a time; for  *)
(* the last one, nobody waits: task_init and its forks go on beside it.    *)
(***************************************************************************)
EXTENDS Integers, Sequences, FiniteSets, SequencesExt

CONSTANTS
  NrCpus,    \* 4 in main.c:150
  NrForks    \* bound on the forks while the last processor starts, for model checking

ASSUME SmpStartAssumption == NrCpus \in Nat /\ NrCpus > 1 /\ NrForks \in Nat

\* A processor and its idle task, whose task_struct is the base of its stack, have the
\* same number; tasks that are forked have the next ones.
APs == 1..NrCpus - 1
CPUs == {0} \cup APs
LastAP == NrCpus - 1
Forks == NrCpus..NrCpus + NrForks - 1
Tasks == CPUs \cup Forks

VARIABLES
  bsp,           \* where Start_Kernel is
  global_i,      \* the processor it starts
  locked,        \* SMP_lock
  _stack_start,  \* the stack it is of
  identity,      \* the first entry of the page table at 0x101000, for low addresses
  global_pid,
  tasks,         \* the list from init_task_union.task.next on
  pc,            \* where a processor is in head.S and Start_SMP, or a fork in do_fork
  got, seen,     \* the global_pid and the list head it has loaded
  pid,           \* of a task
  rsp,           \* the stack a processor is on
  rsp0,          \* of the thread of an idle task
  init_task,     \* the idle task of a processor
  tr,            \* the TSS a processor has loaded
  preempt_count  \* of an idle task

bspVars == <<bsp, global_i, identity>>
cpuVars == <<rsp, rsp0, init_task, tr>>
forkVars == <<global_pid, tasks, got, seen, pid>>
vars == <<bspVars, locked, _stack_start, pc, cpuVars, forkVars, preempt_count>>

None == -1
Goto(t, where) == pc' = [pc EXCEPT ![t] = where]
-----------------------------------------------------------------------------
(* The processor that boots *)

\* Operators named for what they do wrong (AcquireAlways, LeaveLocked) are variants of
\* the next one that a slip would give.

AcquireAlways == TRUE
\* spin_lock, as module Spinlock has it.
Acquire == ~locked

\* main.c:152-174: the stack and the TSS of processor global_i.
Prepare ==
  /\ bsp = "start" /\ global_i < NrCpus
  /\ Acquire
  /\ locked' = TRUE
  /\ preempt_count' = [preempt_count EXCEPT ![0] = @ + 1]
  /\ _stack_start' = global_i
  /\ bsp' = "ipi"
  /\ UNCHANGED <<global_i, identity, pc, cpuVars, forkVars>>

\* main.c:176-182: of two Start-up IPIs a processor that runs ignores the second.
StartupIPI ==
  /\ bsp = "ipi"
  /\ bsp' = "count"
  /\ Goto(global_i, "boot")
  /\ UNCHANGED <<global_i, identity, locked, _stack_start, cpuVars, forkVars, preempt_count>>

\* The loop's global_i++, which nothing keeps from coming after the new processor's use.
Count ==
  /\ bsp = "count"
  /\ global_i' = global_i + 1
  /\ bsp' = "start"
  /\ UNCHANGED <<identity, locked, _stack_start, pc, cpuVars, forkVars, preempt_count>>

\* task_init starts with *vaddr = 0 (task.c:559-561).
TaskInit ==
  /\ bsp = "start" /\ global_i = NrCpus
  /\ identity' = FALSE
  /\ bsp' = "fork"
  /\ UNCHANGED <<global_i, locked, _stack_start, pc, cpuVars, forkVars, preempt_count>>

\* kernel_thread, and then what its thread forks.
Fork(t) ==
  /\ bsp = "fork" /\ pc[t] = "off"
  /\ \A u \in Forks : u < t => pc[u] = "idle"
  /\ Goto(t, "pid")
  /\ UNCHANGED <<bspVars, locked, _stack_start, cpuVars, forkVars, preempt_count>>

\* The end of task_init, and sti.
Idle ==
  /\ bsp = "fork" /\ \A t \in Forks : pc[t] = "idle"
  /\ bsp' = "idle"
  /\ preempt_count' = [preempt_count EXCEPT ![0] = 0]
  /\ UNCHANGED <<global_i, identity, locked, _stack_start, pc, cpuVars, forkVars>>
-----------------------------------------------------------------------------
(* What do_fork and Start_SMP both do *)

\* The two halves of pid = global_pid++.
LoadPid(t) ==
  /\ pc[t] = "pid"
  /\ got' = [got EXCEPT ![t] = global_pid]
  /\ Goto(t, "pid2")
  /\ UNCHANGED <<bspVars, locked, _stack_start, cpuVars, global_pid, tasks, seen, pid, preempt_count>>

StorePid(t) ==
  /\ pc[t] = "pid2"
  /\ global_pid' = got[t] + 1
  /\ pid' = [pid EXCEPT ![t] = got[t]]
  /\ Goto(t, "link")
  /\ UNCHANGED <<bspVars, locked, _stack_start, cpuVars, tasks, got, seen, preempt_count>>

\* next = init_task_union.task.next
LoadHead(t) ==
  /\ pc[t] = "link"
  /\ seen' = [seen EXCEPT ![t] = tasks]
  /\ Goto(t, "link2")
  /\ UNCHANGED <<bspVars, locked, _stack_start, cpuVars, global_pid, tasks, got, pid, preempt_count>>

\* init_task_union.task.next = the task; for a fork that is all here.
StoreHead(t) ==
  /\ pc[t] = "link2"
  /\ tasks' = <<t>> \o seen[t]
  /\ Goto(t, IF t \in Forks THEN "idle" ELSE "tr")
  /\ UNCHANGED <<bspVars, locked, _stack_start, cpuVars, global_pid, got, seen, pid, preempt_count>>
-----------------------------------------------------------------------------
(* A processor that is started.  current is the base of the stack it is on. *)

\* head.S:44, at its low address.
Boot(c) ==
  /\ pc[c] = "boot"
  /\ rsp' = [rsp EXCEPT ![c] = _stack_start]
  /\ Goto(c, "cr3")
  /\ UNCHANGED <<bspVars, locked, _stack_start, rsp0, init_task, tr, forkVars, preempt_count>>

\* head.S:48-66: the next instruction after mov cr3 is at a low address as well.
LoadCr3(c) ==
  /\ pc[c] = "cr3"
  /\ \/ identity /\ rsp' = [rsp EXCEPT ![c] = _stack_start] /\ Goto(c, "pid")
     \/ ~identity /\ Goto(c, "dead") /\ UNCHANGED rsp
  /\ UNCHANGED <<bspVars, locked, _stack_start, rsp0, init_task, tr, forkVars, preempt_count>>

\* load_TR(10 + (global_i - 1) * 2)
TssOf(c) == global_i - 1

\* SMP.c:139-147; ltr of a TSS that is busy is a #GP, whose handler never returns.
LoadTR(c) ==
  /\ pc[c] = "tr"
  /\ rsp0' = [rsp0 EXCEPT ![rsp[c]] = _stack_start]
  /\ init_task' = [init_task EXCEPT ![rsp[c]] = rsp[c]]
  /\ \/ /\ TssOf(c) \notin {tr[d] : d \in CPUs}
        /\ tr' = [tr EXCEPT ![c] = TssOf(c)] /\ Goto(c, "unlock")
     \/ TssOf(c) \in {tr[d] : d \in CPUs} /\ Goto(c, "dead") /\ UNCHANGED tr
  /\ UNCHANGED <<bspVars, locked, _stack_start, rsp, forkVars, preempt_count>>

LeaveLocked == locked
Leave == FALSE

\* spin_unlock counts down what the other processor counted up.
Unlock(c) ==
  /\ pc[c] = "unlock"
  /\ locked' = Leave
  /\ preempt_count' = [preempt_count EXCEPT ![rsp[c]] = @ - 1]
  /\ Goto(c, "sti")
  /\ UNCHANGED <<bspVars, _stack_start, cpuVars, forkVars>>

\* SMP.c:150-152
Sti(c) ==
  /\ pc[c] = "sti"
  /\ preempt_count' = [preempt_count EXCEPT ![rsp[c]] = 0]
  /\ Goto(c, "idle")
  /\ UNCHANGED <<bspVars, locked, _stack_start, cpuVars, forkVars>>
-----------------------------------------------------------------------------
Init ==
  /\ bsp = "start" /\ global_i = 1 /\ locked = FALSE
  /\ _stack_start = 0 /\ identity = TRUE
  /\ global_pid = 1 /\ tasks = <<>>
  /\ pc = [t \in Tasks \ {0} |-> "off"]
  /\ got = [t \in Tasks \ {0} |-> None] /\ seen = [t \in Tasks \ {0} |-> <<>>]
  /\ pid = [t \in Tasks |-> IF t = 0 THEN 0 ELSE None]
  /\ rsp = [c \in CPUs |-> IF c = 0 THEN 0 ELSE None]
  /\ rsp0 = rsp /\ init_task = rsp /\ tr = rsp
  /\ preempt_count = [c \in CPUs |-> 0]

Create(t) == LoadPid(t) \/ StorePid(t) \/ LoadHead(t) \/ StoreHead(t)
BSP ==
  \/ Prepare \/ StartupIPI \/ Count \/ TaskInit \/ Idle
  \/ \E t \in Forks : Fork(t) \/ Create(t)
AP(c) == Create(c) \/ Boot(c) \/ LoadCr3(c) \/ LoadTR(c) \/ Unlock(c) \/ Sti(c)

Next == BSP \/ \E c \in APs : AP(c)

Spec == Init /\ [][Next]_vars /\ WF_vars(BSP) /\ \A c \in APs : WF_vars(AP(c))
-----------------------------------------------------------------------------
(* Properties *)

\* Every variable keeps its type.
TypeOK ==
  /\ bsp \in {"start", "ipi", "count", "fork", "idle"} /\ global_i \in 1..NrCpus
  /\ locked \in BOOLEAN /\ identity \in BOOLEAN /\ _stack_start \in CPUs
  /\ pc \in [Tasks \ {0} -> {"off", "boot", "cr3", "pid", "pid2", "link", "link2",
                             "tr", "unlock", "sti", "idle", "dead"}]
  /\ ToSet(tasks) \subseteq Tasks \ {0}
  /\ pid \in [Tasks -> Int]
  /\ {rsp, rsp0, init_task, tr} \subseteq [CPUs -> CPUs \cup {None}]

\* No processor uses what is another's: it is on its own stack, with its own TSS and
\* idle task, and idles with interrupts counted as enabled (a preempt_count other than
\* 0 would keep ret_from_intr from ever scheduling).
OwnState ==
  /\ \A c \in APs :
       /\ rsp[c] \in {c, None}
       /\ pc[c] \in {"unlock", "sti", "idle"} => rsp[c] = c /\ rsp0[c] = c /\ init_task[c] = c /\ tr[c] = c
       /\ pc[c] = "idle" => preempt_count[c] = 0
  /\ bsp = "idle" => preempt_count[0] = 0

\* A pid is given twice only to a fork, and only once the last processor has stored its
\* own (which takes global_pid back to a value that forks have been given in between),
\* never one below that; and only the last processor or a fork may be missing in the
\* list that sys_wait4 walks.  The lock keeps all other processors apart.
Created(t) == pc[t] \in {"tr", "unlock", "sti", "idle"}
OnlyLastRaces ==
  \A t \in Tasks \ {0} : Created(t) =>
    /\ \A u \in Tasks \ {t} : pid[u] = pid[t] =>
         {t, u} \cap Forks # {} /\ pid[LastAP] # None /\ pid[LastAP] <= pid[t]
    /\ t \in ToSet(tasks) \/ t \in {LastAP} \cup Forks

\* One processor at most dies of the two races the code leaves open (ltr before the
\* other has counted global_i up, mov cr3 after task_init has cut the low addresses):
\* the lock it has is never given back, and no further processor is started.
Dead == {c \in APs : pc[c] = "dead"}
DeadKeepsLock ==
  \A c \in Dead : locked /\ rsp[c] = c /\ \A d \in APs : d > c => pc[d] = "off"

StartSound == TypeOK /\ OwnState /\ OnlyLastRaces /\ DeadKeepsLock

\* All processors come up and idle, unless one of them has died: the lock that is given
\* from processor to processor gets lost in no other way.
BootEnds == <>(Dead # {} \/ (bsp = "idle" /\ \A c \in APs : pc[c] = "idle"))
=============================================================================
