----------------------------- MODULE WaitList -----------------------------
(***************************************************************************)
(* The lists of lib.h store by store, under the two things that tasks wait *)
(* in: a wait queue (waitqueue.c), which an interrupt handler wakes from,  *)
(* and a semaphore (semaphore.c).  No lock is taken and interrupts are     *)
(* enabled, so a handler or another task may come between any two stores.  *)
(***************************************************************************)
EXTENDS Integers, Sequences, FiniteSets, SequencesExt

CONSTANTS
  Tasks,
  QueueHead,      \* the list head in the wait queue
  Idle,      \* current when no task runs
  Units,     \* what the semaphore is initialized to
  MaxHits    \* bound on the kinds of window a behaviour hits, for model checking

ASSUME WaitListAssumption ==
  /\ IsFiniteSet(Tasks) /\ {QueueHead, Idle} \cap Tasks = {}
  /\ Units \in Nat /\ MaxHits \in Nat

VARIABLES
  kind,        \* what tasks wait in: a "queue" or a "semaphore"
  prev, next,  \* of the list head and of the wait_queue_T on each task's stack
  counter,     \* of the semaphore
  asleep,      \* the tasks whose state is TASK_UNINTERRUPTIBLE
  current,
  pc,          \* where a task is
  node,        \* the local wait of wakeup and __up
  order,       \* history: the tasks in the list, by their coming
  hit,         \* history: the windows below that a task was interrupted in
  fault        \* history: what a list operation has run into

list == <<prev, next>>
vars == <<kind, list, counter, asleep, current, pc, node, order, hit, fault>>

Nodes == Tasks \cup {QueueHead}

\* Operators named for what they do wrong are variants of the next one that a slip would
\* give: NotItsPrev, IncNothing.

\* Where an interrupt may do harm, by the statement that is next.  The list's: of an
\* addition all stores but the first, also between the load and the store of one of
\* them, and the task is marked asleep already; of a removal all that follows the test
\* for an empty list, the read of the entry (take) and the two stores.
ListWindows == {"add2", "add3", "add4", "take", "del1", "del2"}
Windows == ListWindows \cup
  {"dec",     \* semaphore_down has seen a unit that it has not taken
   "sleep",   \* semaphore_down has seen none, and is not in the list
   "inc"}     \* semaphore_up has seen nobody wait, and not counted its unit
Faults == {"none", "stale", "no_task", "inserted_twice"}

\* A wait_queue_T is on the stack of a function that has not returned.
Live(n) == n # QueueHead => pc[n] \in {"add2", "add3", "add4", "wait"}
Empty == next[QueueHead] = QueueHead /\ prev[QueueHead] = QueueHead
Foremost == next[QueueHead]

At(t, where) == fault = "none" /\ current = t /\ pc[t] = where
Goto(t, where) == pc' = [pc EXCEPT ![t] = where]
Fail(what) ==
  fault' = what /\ UNCHANGED <<kind, list, counter, asleep, current, pc, node, order, hit>>
Interrupted ==
  LET more == IF current # Idle /\ pc[current] \in Windows THEN {pc[current]} ELSE {}
  IN hit' = hit \cup more /\ Cardinality(hit') <= MaxHits
-----------------------------------------------------------------------------
(* sleep_on, and semaphore_down and __down, which is the same *)

\* semaphore_down's atomic_read
Down(t) ==
  /\ At(t, "out")
  /\ Goto(t, IF kind = "semaphore" /\ counter > 0 THEN "dec" ELSE "sleep")
  /\ UNCHANGED <<kind, list, counter, asleep, current, node, order, hit, fault>>

Dec(t) ==
  /\ At(t, "dec")
  /\ counter' = counter - 1
  /\ Goto(t, "in")
  /\ UNCHANGED <<kind, list, asleep, current, node, order, hit, fault>>

\* wait_queue_init, the state, and list_add_to_before's new->next = entry.
SleepOn(t) ==
  /\ At(t, "sleep")
  /\ asleep' = asleep \cup {t}
  /\ next' = [next EXCEPT ![t] = QueueHead] /\ prev' = [prev EXCEPT ![t] = t]
  /\ Goto(t, "add2")
  /\ UNCHANGED <<kind, counter, current, node, order, hit, fault>>

\* entry->prev->next = new
Add2(t) ==
  /\ At(t, "add2")
  /\ \/ /\ Live(prev[QueueHead])
        /\ next' = [next EXCEPT ![prev[QueueHead]] = t]
        /\ Goto(t, "add3")
        /\ UNCHANGED <<kind, prev, counter, asleep, current, node, order, hit, fault>>
     \/ ~Live(prev[QueueHead]) /\ Fail("stale")

NotItsPrev == QueueHead
ItsPrev == prev[QueueHead]

\* new->prev = entry->prev
Add3(t) ==
  /\ At(t, "add3")
  /\ prev' = [prev EXCEPT ![t] = ItsPrev]
  /\ Goto(t, "add4")
  /\ UNCHANGED <<kind, next, counter, asleep, current, node, order, hit, fault>>

\* entry->prev = new
Add4(t) ==
  /\ At(t, "add4")
  /\ prev' = [prev EXCEPT ![QueueHead] = t]
  /\ order' = Append(order, t)
  /\ Goto(t, "wait")
  /\ UNCHANGED <<kind, next, counter, asleep, current, node, hit, fault>>

\* A task that is RUNNING, or none.
Other(t) ==
  current' \in (Tasks \ (asleep \cup {t})) \cup {Idle}

\* schedule() of sleep_on
Sleep(t) ==
  /\ At(t, "wait") /\ t \in asleep
  /\ Other(t)
  /\ UNCHANGED <<kind, list, counter, asleep, pc, node, order, hit, fault>>

\* and its return: a semaphore's unit was handed on by __up.  The frame is gone, and
\* what its wait_queue_T held is not looked at again.
Return(t) ==
  /\ At(t, "wait") /\ t \notin asleep
  /\ prev' = [prev EXCEPT ![t] = t] /\ next' = [next EXCEPT ![t] = t]
  /\ Goto(t, IF kind = "semaphore" THEN "in" ELSE "out")
  /\ UNCHANGED <<kind, counter, asleep, current, node, order, hit, fault>>
-----------------------------------------------------------------------------
(* wakeup, and semaphore_up and __up *)

\* The list is empty: wakeup returns, semaphore_up goes on to atomic_inc.
Wake(t) ==
  /\ At(t, IF kind = "semaphore" THEN "in" ELSE "out")
  /\ Goto(t, IF ~Empty THEN "take" ELSE IF kind = "semaphore" THEN "inc" ELSE "out")
  /\ UNCHANGED <<kind, list, counter, asleep, current, node, order, hit, fault>>

\* Else what is behind the head now is taken; wakeup looks at its state, __up does not.
Take(t) ==
  /\ At(t, "take")
  /\ \/ /\ Foremost \in Tasks /\ Live(Foremost)
        /\ \/ /\ kind = "semaphore" \/ Foremost \in asleep
              /\ node' = [node EXCEPT ![t] = Foremost] /\ Goto(t, "del1")
           \/ kind = "queue" /\ Foremost \notin asleep /\ Goto(t, "out") /\ UNCHANGED node
        /\ UNCHANGED <<kind, list, counter, asleep, current, order, hit, fault>>
     \/ Foremost = QueueHead /\ Fail("no_task")
     \/ ~Live(Foremost) /\ Fail("stale")

IncNothing == counter
\* atomic_inc
IncCounter == counter + 1

Inc(t) ==
  /\ At(t, "inc")
  /\ counter' = IncCounter
  /\ Goto(t, "out")
  /\ UNCHANGED <<kind, list, asleep, current, node, order, hit, fault>>

\* list_del: entry->next->prev = entry->prev
Del1(t) ==
  LET n == node[t]
  IN /\ At(t, "del1")
     /\ \/ /\ Live(n) /\ Live(next[n])
           /\ prev' = [prev EXCEPT ![next[n]] = prev[n]]
           /\ Goto(t, "del2")
           /\ UNCHANGED <<kind, next, counter, asleep, current, node, order, hit, fault>>
        \/ ~(Live(n) /\ Live(next[n])) /\ Fail("stale")

\* entry->prev->next = entry->next, and the task is made RUNNING and inserted into
\* the run queue.
Del2(t) ==
  LET n == node[t]
  IN /\ At(t, "del2")
     /\ \/ /\ Live(n) /\ Live(prev[n]) /\ n \in asleep
           /\ next' = [next EXCEPT ![prev[n]] = next[n]]
           /\ asleep' = asleep \ {n}
           /\ order' = RemoveFirst(order, n)
           /\ node' = [node EXCEPT ![t] = QueueHead]
           /\ Goto(t, "out")
           /\ UNCHANGED <<kind, prev, counter, current, hit, fault>>
        \/ Live(n) /\ Live(prev[n]) /\ n \notin asleep /\ Fail("inserted_twice")
        \/ ~(Live(n) /\ Live(prev[n])) /\ Fail("stale")

\* wakeup by an interrupt handler, whose stores nothing comes between.
Handler ==
  /\ fault = "none" /\ kind = "queue" /\ ~Empty
  /\ \/ /\ Foremost \in asleep /\ Live(Foremost) /\ Live(next[Foremost]) /\ Live(prev[Foremost])
        /\ LET n == Foremost
               p == [prev EXCEPT ![next[n]] = prev[n]]
           IN prev' = p /\ next' = [next EXCEPT ![p[n]] = next[n]]
        /\ asleep' = asleep \ {Foremost}
        /\ order' = RemoveFirst(order, Foremost)
        /\ Interrupted
        /\ UNCHANGED <<kind, counter, current, pc, node, fault>>
     \/ Foremost = QueueHead /\ Fail("no_task")
     \/ ~(Live(Foremost) /\ Live(next[Foremost]) /\ Live(prev[Foremost])) /\ Fail("stale")

\* ret_from_intr calls schedule, which lets another task run.  One marked asleep does
\* not get into the run queue.
Preempt ==
  /\ fault = "none"
  /\ Other(current) /\ current' # current
  /\ Interrupted
  /\ UNCHANGED <<kind, list, counter, asleep, pc, node, order, fault>>
-----------------------------------------------------------------------------
Init ==
  /\ kind \in {"queue", "semaphore"}
  /\ prev = [n \in Nodes |-> n] /\ next = [n \in Nodes |-> n]
  /\ counter = IF kind = "semaphore" THEN Units ELSE 0
  /\ asleep = {} /\ current \in Tasks
  /\ pc = [t \in Tasks |-> "out"] /\ node = [t \in Tasks |-> QueueHead]
  /\ order = <<>> /\ hit = {} /\ fault = "none"

Task(t) ==
  \/ Down(t) \/ Dec(t) \/ SleepOn(t) \/ Add2(t) \/ Add3(t) \/ Add4(t) \/ Sleep(t) \/ Return(t)
  \/ Wake(t) \/ Take(t) \/ Inc(t) \/ Del1(t) \/ Del2(t)

Next == Handler \/ Preempt \/ \E t \in Tasks : Task(t)

Spec == Init /\ [][Next]_vars
-----------------------------------------------------------------------------
(* Properties *)

\* Every variable keeps its type.
TypeOK ==
  /\ kind \in {"queue", "semaphore"}
  /\ prev \in [Nodes -> Nodes] /\ next \in [Nodes -> Nodes]
  /\ counter \in Int /\ asleep \subseteq Tasks /\ current \in Tasks \cup {Idle}
  /\ pc \in [Tasks -> Windows \cup {"out", "in", "wait"}]
  /\ node \in [Tasks -> Nodes] /\ ToSet(order) \subseteq Tasks
  /\ hit \subseteq Windows /\ fault \in Faults

Quiet == \A t \in Tasks : pc[t] \notin ListWindows

\* The list is the queue of the tasks that wait, in the order they came, forwards and
\* backwards, and no task sleeps outside of it, unless a list operation was interrupted
\* (lib.h:57-69; a removal from waitqueue.c:50 or semaphore.c:42 on).
ListIsQueue ==
  LET whole == <<QueueHead>> \o order \o <<QueueHead>>
  IN hit \cap ListWindows = {} =>
       /\ Quiet => /\ \A i \in 1..Len(order) + 1 :
                        next[whole[i]] = whole[i + 1] /\ prev[whole[i + 1]] = whole[i]
                   /\ asleep = ToSet(order) /\ IsInjective(order)
       /\ \A t \in asleep \ {current} : t \in ToSet(order)

\* wakeup and __up follow no pointer to a stack frame that is gone, take no list head for
\* an entry and insert no task twice, unless a list operation was interrupted.
FaultsByWindow == fault # "none" => hit \cap ListWindows # {}

\* The list is in order, and so is what is taken from it.
ListSound == TypeOK /\ ListIsQueue /\ FaultsByWindow

\* The semaphore has as many units as it was given: none is taken by two tasks or gets
\* lost between semaphore_up and the task it wakes, and nobody waits while one is free,
\* unless a task is interrupted between its test and what it does on it (semaphore.c:43,
\* 61) or in the list.
Holds(t) == pc[t] \in {"in", "inc", "take", "del1", "del2"} \/ (pc[t] = "wait" /\ t \notin asleep)
UnitsKept ==
  kind = "semaphore" =>
    /\ hit \cap ListWindows = {} => counter + Cardinality({t \in Tasks : Holds(t)}) = Units
    /\ hit \cap ListWindows = {} /\ "dec" \notin hit => counter >= 0
    /\ hit = {} /\ order # <<>> => counter = 0
=============================================================================
