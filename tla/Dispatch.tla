------------------------------ MODULE Dispatch ------------------------------
(***************************************************************************)
(* What the rest of the kernel may rely on of the scheduler of CPU 0, as a *)
(* state machine of its own: some queued task may get the CPU wherever     *)
(* interrupts are enabled, a task that is not RUNNING loses it when it     *)
(* calls schedule(), and a task is linked into the run queue at most once. *)
(* Which queued task is next, and how long it runs, is left open; Schedule *)
(* refines this.  The modules of the components that sleep and wake extend *)
(* it and use its operators in their own actions.                          *)
(***************************************************************************)
EXTENDS Integers, FiniteSets

CONSTANTS
  Tasks,  \* the task_structs on the run queue or asleep
  Idle    \* init_task[0], never on the run queue

ASSUME IdleAssumption == Idle \notin Tasks

AllTasks == Tasks \cup {Idle}

VARIABLES
  current,  \* the task whose stack the CPU is on
  state,    \* task_struct.state, "NONE" before do_fork
  queued,   \* the tasks linked into the run queue
  fault     \* what stopped the kernel, "none" while it runs

dispatchVars == <<current, state, queued, fault>>

\* What schedule() puts back on the queue of the task that ran.
PutBack(st) == IF st[current] = "RUNNING" THEN {current} \ {Idle} ELSE {}

\* schedule(), given the states and the queue its caller has reached.  The first
\* disjunct switches (to the current task itself if it was queued), the second
\* puts the task it took from the queue back.
Reschedule(st, q) ==
  /\ state' = st
  /\ \/ \E next \in IF q = {} THEN {Idle} ELSE q :
          /\ current' = next
          /\ queued' = (q \ {next}) \cup PutBack(st)
          /\ fault' = IF PutBack(st) \cap (q \ {next}) = {} THEN "none"
                      ELSE "list_corrupted"
     \/ /\ st[current] = "RUNNING"
        /\ queued' = q
        /\ UNCHANGED <<current, fault>>

\* The way back from an interrupt handler, which may find NEED_SCHEDULE set.
RetFromIntr(st, q) ==
  \/ Reschedule(st, q)
  \/ /\ state' = st
     /\ queued' = q
     /\ UNCHANGED <<current, fault>>

\* A handler that sets a task RUNNING, puts it on the run queue and returns: if
\* the task is linked already, the list is destroyed.
WakeAndReturn(t) ==
  \/ /\ t \notin queued
     /\ RetFromIntr([state EXCEPT ![t] = "RUNNING"], queued \cup ({t} \ {Idle}))
  \/ /\ t \in queued
     /\ fault' = "list_corrupted"
     /\ UNCHANGED <<current, state, queued>>
-----------------------------------------------------------------------------
(* The scheduler by itself *)

DispatchInit ==
  /\ current = Idle
  /\ \E first \in Tasks :
       /\ state = [t \in AllTasks |-> IF t \in {Idle, first} THEN "RUNNING" ELSE "NONE"]
       /\ queued = {first}
  /\ fault = "none"

\* The running task changes its own state before it calls schedule().
SetState ==
  /\ state' = [state EXCEPT ![current] = "UNINTERRUPTIBLE"]
  /\ current # Idle
  /\ UNCHANGED <<current, queued, fault>>

\* do_fork: a new task that does not run yet, made runnable, put on the queue.
Create(t) ==
  /\ state[t] = "NONE"
  /\ state' = [state EXCEPT ![t] = "UNINTERRUPTIBLE"]
  /\ UNCHANGED <<current, queued, fault>>
MakeRunnable(t) ==
  /\ state[t] = "UNINTERRUPTIBLE"
  /\ state' = [state EXCEPT ![t] = "RUNNING"]
  /\ UNCHANGED <<current, queued, fault>>
Enqueue(t) ==
  /\ t \notin queued
  /\ queued' = queued \cup {t}
  /\ UNCHANGED <<current, state, fault>>

\* Whatever a fault leaves behind, it is the last step.
Break == fault' # "none"

DispatchNext ==
  /\ fault = "none"
  /\ \/ SetState
     \/ RetFromIntr(state, queued)
     \/ Break
     \/ \E t \in Tasks : WakeAndReturn(t) \/ Create(t) \/ MakeRunnable(t) \/ Enqueue(t)

DispatchSpec == DispatchInit /\ [][DispatchNext]_dispatchVars
=============================================================================
