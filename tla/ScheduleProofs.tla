--------------------------- MODULE ScheduleProofs ---------------------------
(***************************************************************************)
(* Proofs about Schedule, for any set of tasks and any bound on vrun_time. *)
(* First, what the interrupts cannot disturb: the count of the run queue   *)
(* and that no runnable task is lost (SInv).  Then, with the order of the  *)
(* queues (OInv): which windows an interrupt must land in for a fault, how *)
(* far the running task gets ahead, and that Schedule refines Dispatch.    *)
(***************************************************************************)
EXTENDS Schedule, ListLemmas, FiniteSetTheorems, WellFoundedInduction

-----------------------------------------------------------------------------
(* Inserting into the run queue *)

\* The loop of insert_task_queue stops, and where it stops is what the CHOOSE of
\* Place describes.
LEMMA PlaceFound ==
  ASSUME NEW q \in Seq(Tasks), NEW vr \in [AllTasks -> Nat], NEW t \in Tasks
  PROVE  /\ Place(q, vr, t) \in 1..Len(q) + 1
         /\ \A j \in 1..Place(q, vr, t) - 1 : vr[q[j]] < vr[t]
         /\ Place(q, vr, t) <= Len(q) => vr[q[Place(q, vr, t)]] >= vr[t]
<1> DEFINE Stops == {i \in 1..Len(q) + 1 : i <= Len(q) => vr[q[i]] >= vr[t]}
<1>1. Len(q) \in Nat /\ \A j \in 1..Len(q) : q[j] \in Tasks
  BY LenProperties, ElementOfSeq
<1>2. Len(q) + 1 \in Stops
  BY <1>1
<1>3. PICK i \in Stops : \A j \in Stops : ~(<<j, i>> \in OpToRel(<, Nat))
  <2>1. Stops \subseteq Nat /\ Stops # {}
    BY <1>1, <1>2
  <2> QED
    BY <2>1, NatLessThanWellFounded, WFMin, Zenon
<1>4. \A j \in 1..i - 1 : vr[q[j]] < vr[t]
  <2> TAKE j \in 1..i - 1
  <2>1. j \in Nat /\ i \in Nat /\ j < i /\ j \in 1..Len(q)
    BY <1>1
  <2>2. j \notin Stops
    BY <2>1, <1>3 DEF OpToRel
  <2>3. vr[q[j]] \in Nat /\ vr[t] \in Nat
    BY <1>1, <2>1 DEF AllTasks
  <2> QED
    BY <1>1, <2>1, <2>2, <2>3
<1>5. /\ i \in 1..Len(q) + 1
      /\ i <= Len(q) => vr[q[i]] >= vr[t]
  OBVIOUS
<1> QED
  BY <1>4, <1>5 DEF Place

\* insert_task_queue keeps a queue of tasks, longer by what it counts, with tsk
\* among its entries and nothing lost.
LEMMA InsertProperties ==
  ASSUME NEW q \in Seq(Tasks), NEW vr \in [AllTasks -> Nat], NEW t \in AllTasks
  PROVE  /\ Insert(q, vr, t) \in Seq(Tasks)
         /\ Len(Insert(q, vr, t)) = Len(q) + Counted(t)
         /\ ToSet(Insert(q, vr, t)) = ToSet(q) \cup ({t} \ {Idle})
<1>1. Len(q) \in Nat
  BY LenProperties
<1>2. CASE t = Idle
  BY <1>1, <1>2 DEF Insert, Counted
<1>3. CASE t # Idle
  <2> DEFINE p == Place(q, vr, t)
  <2>1. t \in Tasks /\ Insert(q, vr, t) = InsertAt(q, p, t) /\ Counted(t) = 1
    BY <1>3 DEF AllTasks, Insert, Counted
  <2>2. p \in 1..Len(q) + 1
    BY <2>1, PlaceFound
  <2> HIDE DEF p
  <2>3. InsertAt(q, p, t) \in Seq(Tasks) /\ Len(InsertAt(q, p, t)) = Len(q) + 1
    BY <2>1, <2>2, InsertAtEntries DEF Inserted
  <2>4. ToSet(InsertAt(q, p, t)) = ToSet(q) \cup {t}
    BY <2>1, <2>2, EntriesOfInsertion
  <2> QED
    BY <1>3, <2>1, <2>3, <2>4
<1> QED
  BY <1>2, <1>3

-----------------------------------------------------------------------------
(* What schedule() does to whatever state it is called in *)

\* A slice can be dealt out to any number of tasks but none.
LEMMA SliceType ==
  ASSUME NEW count \in Int, count # 0
  PROVE  Slice(count) \in Int
<1>1. Quotient(4, count) \in Int
  <2>1. CASE count > 0
    BY <2>1 DEF Quotient
  <2>2. CASE ~(count > 0)
    <3>1. -count \in Int /\ -count > 0
      BY <2>2
    <3>2. 4 \div (-count) \in Int
      BY <3>1
    <3> QED
      BY <2>2, <3>2 DEF Quotient
  <2> QED
    BY <2>1, <2>2
<1> QED
  BY <1>1 DEF Slice

\* The parts of the state schedule() works on.
SchedulerType(st, need, vr, q, count, slice) ==
  /\ st \in [AllTasks -> States]
  /\ need \in [AllTasks -> BOOLEAN]
  /\ vr \in [AllTasks -> Nat]
  /\ q \in Seq(Tasks)
  /\ count \in Int
  /\ slice \in Int

\* Who is to run next: the current task and those on the queue q.
OnCpu(q) == {current} \cup ToSet(q)

\* schedule(), and so ret_from_intr, keeps the types; unless it ends in a fault
\* it keeps the count and the queue in step, and every runnable task either on
\* the CPU or on the queue.
SchedulerKeeps(st, q, count) ==
  /\ current' \in AllTasks
  /\ SchedulerType(state', need_schedule', vrun_time', task_queue',
                   running_task_count', CPU_exec_task_jiffies')
  /\ fault' \in {"none", "list_corrupted", "divide_error"}
  /\ state' = st
  /\ Alive' =>
       /\ running_task_count' - Len(task_queue') = count - Len(q)
       /\ \A t \in Tasks : st[t] = "RUNNING" /\ t \in OnCpu(q) => t \in OnCpu(task_queue)'

LEMMA RescheduleKeeps ==
  ASSUME NEW st, NEW need, NEW vr, NEW q, NEW count, NEW slice,
         current \in AllTasks, SchedulerType(st, need, vr, q, count, slice),
         Reschedule(st, need, vr, q, count, slice)
  PROVE  SchedulerKeeps(st, q, count)
<1> DEFINE empty   == q = <<>>
           tsk     == IF empty THEN Idle ELSE Head(q)
           rest    == IF empty THEN q ELSE Tail(q)
           left    == IF empty THEN count ELSE count - 1
           runs    == st[current] = "RUNNING"
           switch  == GivesWay(vr, current, tsk) \/ ~runs
           back    == IF switch THEN current ELSE tsk
           putback == switch => runs
           total   == IF putback THEN left + Counted(back) ELSE left
           broken  == putback /\ back \in ToSet(rest)
           divzero == slice = 0 /\ total = 0
<1>1. /\ need_schedule' = [need EXCEPT ![current] = FALSE]
      /\ vrun_time' = vr
      /\ state' = st
      /\ fault' = IF broken THEN "list_corrupted"
                  ELSE IF divzero THEN "divide_error" ELSE "none"
      /\ task_queue' = IF putback /\ ~broken THEN Insert(rest, vr, back) ELSE rest
      /\ running_task_count' = total
      /\ CPU_exec_task_jiffies' = IF divzero THEN slice ELSE Refill(slice, total)
      /\ current' = IF switch THEN tsk ELSE current
  BY DEF Reschedule
<1>2. /\ st \in [AllTasks -> States] /\ need \in [AllTasks -> BOOLEAN]
      /\ vr \in [AllTasks -> Nat] /\ q \in Seq(Tasks) /\ count \in Int /\ slice \in Int
  BY DEF SchedulerType
<1>3. /\ tsk \in AllTasks /\ rest \in Seq(Tasks) /\ left \in Int
      /\ Len(rest) \in Nat /\ left - Len(rest) = count - Len(q)
      /\ ToSet(q) \subseteq {tsk} \cup ToSet(rest)
  <2>1. CASE empty
    BY <1>2, <2>1, EmptySeq DEF AllTasks, ToSet
  <2>2. CASE ~empty
    BY <1>2, <2>2, FirstEntry DEF AllTasks
  <2> QED
    BY <2>1, <2>2
<1> HIDE DEF tsk, rest, left
<1>4. back \in AllTasks /\ switch \in BOOLEAN /\ putback \in BOOLEAN
  BY <1>3 DEF GivesWay
<1> HIDE DEF switch
<1>5. Counted(back) \in Int /\ total \in Int
  BY <1>3 DEF Counted
<1>6. /\ Insert(rest, vr, back) \in Seq(Tasks)
      /\ Len(Insert(rest, vr, back)) = Len(rest) + Counted(back)
      /\ ToSet(Insert(rest, vr, back)) = ToSet(rest) \cup ({back} \ {Idle})
  BY <1>2, <1>3, <1>4, InsertProperties
<1>7. CPU_exec_task_jiffies' \in Int
  <2>1. CASE divzero
    BY <1>1, <1>2, <2>1
  <2>2. CASE ~divzero /\ slice = 0
    BY <1>1, <1>5, <2>2, SliceType DEF Refill
  <2>3. CASE slice # 0
    BY <1>1, <1>2, <2>3 DEF Refill
  <2> QED
    BY <2>1, <2>2, <2>3
<1>8. SchedulerType(state', need_schedule', vrun_time', task_queue',
                    running_task_count', CPU_exec_task_jiffies')
  BY <1>1, <1>2, <1>3, <1>5, <1>6, <1>7 DEF SchedulerType
<1>9. current' \in AllTasks
  BY <1>1, <1>3
<1>10. ASSUME Alive'
       PROVE  running_task_count' - Len(task_queue') = count - Len(q)
  <2>1. ~broken
    BY <1>1, <1>10 DEF Alive
  <2>2. CASE putback
    <3>1. /\ running_task_count' = left + Counted(back)
          /\ Len(task_queue') = Len(rest) + Counted(back)
      BY <1>1, <1>6, <2>1, <2>2
    <3>2. \A a, b, c \in Int : (a + c) - (b + c) = a - b
      OBVIOUS
    <3>3. Len(rest) \in Int
      BY <1>3
    <3> DEFINE c == Counted(back)
    <3>4. c \in Int /\ running_task_count' = left + c /\ Len(task_queue') = Len(rest) + c
      BY <1>5, <3>1
    <3> HIDE DEF c
    <3>5. (left + c) - (Len(rest) + c) = left - Len(rest)
      BY <1>3, <3>2, <3>3, <3>4, Zenon
    <3> QED
      BY <1>3, <3>4, <3>5
  <2>3. CASE ~putback
    BY <1>1, <1>3, <2>3
  <2> QED
    BY <2>2, <2>3
<1>11. ASSUME Alive', NEW t \in Tasks, st[t] = "RUNNING", t \in OnCpu(q)
       PROVE  t \in OnCpu(task_queue)'
  <2>1. ~broken
    BY <1>1, <1>11 DEF Alive
  <2>2. t \in {current, tsk} \cup ToSet(rest)
    BY <1>3, <1>11 DEF OnCpu
  <2>3. t # Idle
    BY TasksAssumption
  <2>4. ToSet(rest) \subseteq ToSet(task_queue')
    BY <1>1, <1>6
  <2>5. CASE switch
    <3>1. current' = tsk /\ back = current
      BY <1>1, <2>5
    <3>2. t = current => t \in ToSet(task_queue')
      BY <1>1, <1>6, <1>11, <2>1, <2>3, <3>1
    <3> QED
      BY <2>2, <2>4, <3>1, <3>2 DEF OnCpu
  <2>6. CASE ~switch
    <3>1. current' = current /\ back = tsk /\ putback
      BY <1>1, <2>6
    <3>2. t = tsk => t \in ToSet(task_queue')
      BY <1>1, <1>6, <2>1, <2>3, <3>1
    <3> QED
      BY <2>2, <2>4, <3>1, <3>2 DEF OnCpu
  <2> QED
    BY <2>5, <2>6
<1> QED
  BY <1>1, <1>8, <1>9, <1>10, <1>11 DEF SchedulerKeeps

LEMMA RetFromIntrKeeps ==
  ASSUME NEW st, NEW need, NEW vr, NEW q, NEW count, NEW slice,
         current \in AllTasks, SchedulerType(st, need, vr, q, count, slice),
         fault = "none", RetFromIntr(st, need, vr, q, count, slice)
  PROVE  SchedulerKeeps(st, q, count)
<1>1. CASE need[current] /\ Reschedule(st, need, vr, q, count, slice)
  BY <1>1, RescheduleKeeps
<1>2. CASE /\ state' = st
           /\ need_schedule' = need
           /\ vrun_time' = vr
           /\ task_queue' = q
           /\ running_task_count' = count
           /\ CPU_exec_task_jiffies' = slice
           /\ UNCHANGED <<current, fault>>
  BY <1>2 DEF SchedulerKeeps, SchedulerType, OnCpu
<1> QED
  BY <1>1, <1>2 DEF RetFromIntr

-----------------------------------------------------------------------------
(* The inductive invariant *)

\* Where a task has an insert_task_queue of do_fork under way, it has a child to
\* insert; idle never has.
AtInsert == {"fork", "insert_link", "insert_load", "insert_store"}
InsertersHaveChild ==
  /\ pc[Idle] = "run"
  /\ \A t \in Tasks : pc[t] \in AtInsert => inserting[t] \in Tasks

\* As long as no interrupt has landed inside an increment, only the running task
\* can be inside one, and what it has read is still the count.
LoadedFresh ==
  Alive /\ "insert_store" \notin hit => \A t \in Tasks :
    pc[t] = "insert_store" => t = current /\ loaded[t] = running_task_count

SInv == TypeOK /\ InsertersHaveChild /\ CountMatchesQueue /\ RunnableNotLost
        /\ LoadedFresh

\* Nobody is caught inside an increment.
NoneStoring == \A t \in Tasks : pc[t] # "insert_store"

\* Whoever calls schedule() with the count and the queue in step, and with every
\* runnable task accounted for, gets SInv back.
LEMMA SInvAfterScheduler ==
  ASSUME SInv, fault = "none", NEW st, NEW q, NEW count,
         SchedulerKeeps(st, q, count),
         count \in Int, q \in Seq(Tasks),
         count - Len(q) = running_task_count - Len(task_queue),
         \A t \in Tasks : st[t] = "RUNNING" => t \in OnCpu(q) \cup BeingForked,
         wait_list' \in Seq(Tasks), UNCHANGED <<before, loaded>>,
         hit \subseteq hit', hit' \subseteq Windows,
         "insert_store" \notin hit' => NoneStoring',
         pc' \in [AllTasks -> PCs], inserting' \in [AllTasks -> Tasks \cup {NoTask}],
         InsertersHaveChild', Uncounted' = Uncounted, BeingForked' = BeingForked
  PROVE  SInv'
<1>1. TypeOK'
  BY DEF SInv, TypeOK, SchedulerKeeps, SchedulerType
<1>2. CountMatchesQueue'
  <2> SUFFICES ASSUME Alive', "insert_store" \notin hit'
               PROVE  running_task_count' = 1 + Len(task_queue') - Cardinality(Uncounted)
    BY DEF CountMatchesQueue
  <2>1. running_task_count' - Len(task_queue') = running_task_count - Len(task_queue)
    BY DEF SchedulerKeeps
  <2>2. running_task_count = 1 + Len(task_queue) - Cardinality(Uncounted)
    BY DEF SInv, CountMatchesQueue, Alive
  <2>3. /\ Len(task_queue) \in Int /\ Len(task_queue') \in Int
        /\ running_task_count \in Int /\ running_task_count' \in Int
    BY <1>1, LenProperties DEF SInv, TypeOK
  <2>4. Cardinality(Uncounted) \in Int
    BY TasksAssumption, FS_Subset, FS_CardinalityType DEF Uncounted
  <2> QED
    <3> DEFINE r == running_task_count
               rr == running_task_count'
               l == Len(task_queue)
               ll == Len(task_queue')
               k == Cardinality(Uncounted)
    <3>1. /\ r \in Int /\ rr \in Int /\ l \in Int /\ ll \in Int /\ k \in Int
          /\ rr - ll = r - l /\ r = 1 + l - k
      BY <2>1, <2>2, <2>3, <2>4
    <3> HIDE DEF r, rr, l, ll, k
    <3>2. rr = 1 + ll - k
      BY <3>1
    <3> QED
      BY <3>2 DEF rr, ll, k
<1>3. RunnableNotLost'
  BY DEF RunnableNotLost, SchedulerKeeps, OnCpu, Queued
<1>4. LoadedFresh'
  BY DEF LoadedFresh, NoneStoring
<1> QED
  BY <1>1, <1>2, <1>3, <1>4 DEF SInv

\* An interrupt handler that ends in ret_from_intr.
LEMMA SInvAfterInterrupt ==
  ASSUME SInv, fault = "none", NEW st, NEW need, NEW vr, NEW q, NEW count, NEW slice,
         SchedulerType(st, need, vr, q, count, slice),
         RetFromIntr(st, need, vr, q, count, slice),
         count - Len(q) = running_task_count - Len(task_queue),
         \A t \in Tasks : st[t] = "RUNNING" => t \in OnCpu(q) \cup BeingForked,
         wait_list' \in Seq(Tasks), Interrupted,
         UNCHANGED <<pc, inserting, before, loaded>>
  PROVE  SInv'
<1>1. SchedulerKeeps(st, q, count)
  BY RetFromIntrKeeps DEF SInv, TypeOK
<1>2. hit \subseteq hit' /\ hit' \subseteq Windows
  BY DEF SInv, TypeOK, Interrupted
<1>4. "insert_store" \notin hit' => NoneStoring'
  BY DEF SInv, LoadedFresh, Alive, Interrupted, NoneStoring, Windows
<1>3. /\ pc' \in [AllTasks -> PCs] /\ inserting' \in [AllTasks -> Tasks \cup {NoTask}]
      /\ InsertersHaveChild' /\ Uncounted' = Uncounted /\ BeingForked' = BeingForked
  BY DEF SInv, TypeOK, InsertersHaveChild, Uncounted, BeingForked
<1> QED
  BY <1>1, <1>2, <1>3, <1>4, SInvAfterScheduler DEF SchedulerType

LEMMA SInvHPET_handler ==
  ASSUME SInv, fault = "none", HPET_handler
  PROVE  SInv'
<1> DEFINE slice == CPU_exec_task_jiffies - Charge
           vr    == [vrun_time EXCEPT ![current] = @ + Charge]
           need  == [need_schedule EXCEPT ![current] = @ \/ slice <= 0]
<1>1. /\ RetFromIntr(state, need, vr, task_queue, running_task_count, slice)
      /\ Interrupted /\ UNCHANGED <<wait_list, pc, inserting, before, loaded>>
  BY DEF HPET_handler
<1>2. Charge \in Nat
  BY DEF Charge
<1>3. slice \in Int /\ vr \in [AllTasks -> Nat] /\ need \in [AllTasks -> BOOLEAN]
  BY <1>2 DEF SInv, TypeOK
<1>4. SchedulerType(state, need, vr, task_queue, running_task_count, slice)
  BY <1>3 DEF SInv, TypeOK, SchedulerType
<1>5. \A t \in Tasks : state[t] = "RUNNING" => t \in OnCpu(task_queue) \cup BeingForked
  BY DEF SInv, RunnableNotLost, Alive, OnCpu, Queued
<1> HIDE DEF slice, vr, need
<1> QED
  BY <1>1, <1>4, <1>5, SInvAfterInterrupt DEF SInv, TypeOK

LEMMA SInvKeyboard_handler ==
  ASSUME SInv, fault = "none", Keyboard_handler
  PROVE  SInv'
<1>1. \A t \in Tasks : state[t] = "RUNNING" => t \in OnCpu(task_queue) \cup BeingForked
  BY DEF SInv, RunnableNotLost, Alive, OnCpu, Queued
<1>2. Interrupted /\ UNCHANGED <<pc, inserting, before, loaded>>
  BY DEF Keyboard_handler
<1>3. CASE /\ RetFromIntr(state, need_schedule, vrun_time, task_queue,
                          running_task_count, CPU_exec_task_jiffies)
           /\ UNCHANGED wait_list
  <2>1. SchedulerType(state, need_schedule, vrun_time, task_queue,
                      running_task_count, CPU_exec_task_jiffies)
    BY DEF SInv, TypeOK, SchedulerType
  <2> QED
    BY <1>1, <1>2, <1>3, <2>1, SInvAfterInterrupt DEF SInv, TypeOK
<1>4. CASE /\ Sleeper \in Tasks \ ToSet(task_queue)
           /\ wait_list' = Tail(wait_list)
           /\ RetFromIntr([state EXCEPT ![Sleeper] = "RUNNING"],
                          [need_schedule EXCEPT ![current] = TRUE], vrun_time,
                          Insert(task_queue, vrun_time, Sleeper),
                          running_task_count + 1, CPU_exec_task_jiffies)
  <2> DEFINE st   == [state EXCEPT ![Sleeper] = "RUNNING"]
             need == [need_schedule EXCEPT ![current] = TRUE]
             q    == Insert(task_queue, vrun_time, Sleeper)
  <2>1. wait_list' \in Seq(Tasks)
    BY <1>4, FirstEntry, TasksAssumption DEF SInv, TypeOK, Sleeper
  <2>2. /\ q \in Seq(Tasks) /\ Len(q) = Len(task_queue) + 1
        /\ ToSet(q) = ToSet(task_queue) \cup {Sleeper}
    <3>1. Sleeper \in AllTasks /\ Sleeper # Idle
      BY <1>4, TasksAssumption DEF AllTasks
    <3>2. task_queue \in Seq(Tasks) /\ vrun_time \in [AllTasks -> Nat]
      BY DEF SInv, TypeOK
    <3>3. Counted(Sleeper) = 1 /\ {Sleeper} \ {Idle} = {Sleeper}
      BY <3>1 DEF Counted
    <3> QED
      BY <3>1, <3>2, <3>3, InsertProperties
  <2>3. /\ st \in [AllTasks -> States] /\ need \in [AllTasks -> BOOLEAN]
    BY <1>4 DEF SInv, TypeOK, States
  <2>4. \A t \in Tasks : st[t] = "RUNNING" => t \in OnCpu(q) \cup BeingForked
    BY <1>1, <1>4, <2>2 DEF SInv, TypeOK, OnCpu
  <2> HIDE DEF st, need, q
  <2>5. SchedulerType(st, need, vrun_time, q, running_task_count + 1, CPU_exec_task_jiffies)
    BY <2>2, <2>3 DEF SInv, TypeOK, SchedulerType
  <2>6. (running_task_count + 1) - Len(q) = running_task_count - Len(task_queue)
    BY <2>2, LenProperties DEF SInv, TypeOK
  <2>7. RetFromIntr(st, need, vrun_time, q, running_task_count + 1, CPU_exec_task_jiffies)
    BY <1>4 DEF st, need, q
  <2> QED
    BY <1>2, <2>1, <2>4, <2>5, <2>6, <2>7, SInvAfterInterrupt
<1>5. CASE /\ fault' = "list_corrupted"
           /\ UNCHANGED <<current, state, need_schedule, vrun_time, task_queue,
                          running_task_count, CPU_exec_task_jiffies, wait_list>>
  BY <1>2, <1>5 DEF SInv, TypeOK, InsertersHaveChild, CountMatchesQueue,
                    RunnableNotLost, LoadedFresh, Alive, Interrupted
<1> QED
  BY <1>3, <1>4, <1>5 DEF Keyboard_handler

\* A step within the kernel that leaves the insertions of others alone.
LEMMA GotoOutside ==
  ASSUME SInv, NEW here \in PCs \ AtInsert, NEW next \in PCs \ AtInsert,
         Goto(here, next), current # Idle \/ next = "run", UNCHANGED inserting
  PROVE  /\ pc' \in [AllTasks -> PCs] /\ InsertersHaveChild'
         /\ Uncounted' = Uncounted /\ BeingForked' = BeingForked
         /\ Alive /\ "insert_store" \notin hit => NoneStoring'
<1>1. /\ pc' = [pc EXCEPT ![current] = next] /\ pc[current] = here
      /\ pc \in [AllTasks -> PCs] /\ current \in AllTasks
  BY DEF Goto, SInv, TypeOK
<1>2. pc' \in [AllTasks -> PCs]
  BY <1>1
<1>3. \A t \in AllTasks : pc'[t] = IF t = current THEN next ELSE pc[t]
  BY <1>1
<1>4. \A t \in Tasks : t \in AllTasks /\ t # Idle
  BY TasksAssumption DEF AllTasks
<1>5. InsertersHaveChild'
  BY <1>3, <1>4 DEF SInv, InsertersHaveChild, AllTasks
<1>6. Uncounted' = Uncounted
  BY <1>1, <1>3, <1>4 DEF Uncounted, CountWindows, AtInsert
<1>7. BeingForked' = BeingForked
  <2>1. {u \in Tasks : pc'[u] \in {"fork", "insert_link"}}
          = {u \in Tasks : pc[u] \in {"fork", "insert_link"}}
    BY <1>1, <1>3, <1>4 DEF AtInsert
  <2> QED
    BY <2>1 DEF BeingForked
<1>8. Alive /\ "insert_store" \notin hit => NoneStoring'
  BY <1>1, <1>3, <1>4 DEF SInv, LoadedFresh, NoneStoring, AtInsert
<1> QED
  BY <1>2, <1>5, <1>6, <1>7, <1>8

LEMMA SInvSleepOn ==
  ASSUME SInv, fault = "none", SleepOn
  PROVE  SInv'
<1>1. CASE SleepSetState
  <2>1. /\ pc' \in [AllTasks -> PCs] /\ InsertersHaveChild'
        /\ Uncounted' = Uncounted /\ BeingForked' = BeingForked
        /\ Alive /\ "insert_store" \notin hit => NoneStoring'
    BY <1>1, GotoOutside DEF SleepSetState, PCs, Windows, AtInsert
  <2>2. TypeOK'
    BY <1>1, <2>1 DEF SInv, TypeOK, SleepSetState, queueVars, States
  <2>3. CountMatchesQueue' /\ RunnableNotLost' /\ LoadedFresh'
    BY <1>1, <2>1 DEF LoadedFresh, NoneStoring, SInv, TypeOK, SleepSetState, queueVars, AllTasks, Alive,
                      CountMatchesQueue, RunnableNotLost, Queued
  <2> QED
    BY <2>1, <2>2, <2>3 DEF SInv
<1>2. CASE SleepLink
  <2>1. current # Idle
    BY <1>2 DEF SleepLink, Goto, SInv, InsertersHaveChild
  <2>2. /\ pc' \in [AllTasks -> PCs] /\ InsertersHaveChild'
        /\ Uncounted' = Uncounted /\ BeingForked' = BeingForked
        /\ Alive /\ "insert_store" \notin hit => NoneStoring'
    BY <1>2, <2>1, GotoOutside DEF SleepLink, PCs, Windows, AtInsert
  <2>3. wait_list' \in Seq(Tasks)
    BY <1>2, <2>1, AppendProperties DEF SleepLink, SInv, TypeOK, AllTasks
  <2>4. TypeOK'
    BY <1>2, <2>2, <2>3 DEF SInv, TypeOK, SleepLink
  <2>5. CountMatchesQueue' /\ RunnableNotLost' /\ LoadedFresh'
    BY <1>2, <2>2 DEF LoadedFresh, NoneStoring, SInv, SleepLink, Alive, CountMatchesQueue, RunnableNotLost, Queued
  <2> QED
    BY <2>2, <2>4, <2>5 DEF SInv
<1>3. CASE SleepSwitch
  <2>1. SchedulerType(state, need_schedule, vrun_time, task_queue,
                      running_task_count, CPU_exec_task_jiffies)
    BY DEF SInv, TypeOK, SchedulerType
  <2>2. SchedulerKeeps(state, task_queue, running_task_count)
    BY <1>3, <2>1, RescheduleKeeps DEF SleepSwitch, SInv, TypeOK
  <2>3. /\ pc' \in [AllTasks -> PCs] /\ InsertersHaveChild'
        /\ Uncounted' = Uncounted /\ BeingForked' = BeingForked
        /\ Alive /\ "insert_store" \notin hit => NoneStoring'
    BY <1>3, GotoOutside DEF SleepSwitch, PCs, Windows, AtInsert
  <2>4. \A t \in Tasks : state[t] = "RUNNING" => t \in OnCpu(task_queue) \cup BeingForked
    BY DEF SInv, RunnableNotLost, Alive, OnCpu, Queued
  <2>5. /\ wait_list' \in Seq(Tasks) /\ hit' = hit /\ hit \subseteq Windows
        /\ UNCHANGED <<before, loaded>> /\ Alive
        /\ inserting' \in [AllTasks -> Tasks \cup {NoTask}]
    BY <1>3 DEF SleepSwitch, SInv, TypeOK, Alive
  <2> QED
    BY <2>2, <2>3, <2>4, <2>5, SInvAfterScheduler DEF SInv, TypeOK
<1> QED
  BY <1>1, <1>2, <1>3 DEF SleepOn

\* What the steps of do_fork leave of the other tasks' insertions.
LEMMA GotoInside ==
  ASSUME SInv, NEW here \in PCs, NEW next \in PCs, Goto(here, next), current # Idle
  PROVE  /\ current \in Tasks /\ pc[current] = here
         /\ pc' \in [AllTasks -> PCs] /\ pc'[Idle] = "run"
         /\ \A t \in Tasks : pc'[t] = IF t = current THEN next ELSE pc[t]
BY DEF Goto, SInv, TypeOK, InsertersHaveChild, AllTasks

LEMMA SInvFork ==
  ASSUME SInv, fault = "none", NEW child \in Tasks, Fork(child)
  PROVE  SInv'
<1>1. /\ current \in Tasks /\ pc[current] = "run"
      /\ pc' \in [AllTasks -> PCs] /\ pc'[Idle] = "run"
      /\ \A t \in Tasks : pc'[t] = IF t = current THEN "fork" ELSE pc[t]
  BY GotoInside DEF Fork, PCs, Windows
<1>2. /\ inserting' \in [AllTasks -> Tasks \cup {NoTask}]
      /\ \A t \in Tasks : inserting'[t] = IF t = current THEN child ELSE inserting[t]
  BY DEF Fork, SInv, TypeOK, AllTasks
<1>3. TypeOK'
  BY <1>1, <1>2 DEF Fork, SInv, TypeOK, queueVars, States, AllTasks
<1>4. InsertersHaveChild'
  BY <1>1, <1>2 DEF SInv, InsertersHaveChild
<1>5. Uncounted' = Uncounted
  BY <1>1 DEF Uncounted, CountWindows
<1>6. BeingForked \subseteq BeingForked'
  BY <1>1, <1>2 DEF BeingForked
<1>7. CountMatchesQueue'
  BY <1>5 DEF Fork, SInv, CountMatchesQueue, Alive, queueVars
<1>8. RunnableNotLost'
  BY <1>6 DEF Fork, SInv, TypeOK, RunnableNotLost, Alive, queueVars, Queued, AllTasks
<1>9. LoadedFresh'
  BY <1>1 DEF Fork, SInv, LoadedFresh, Alive, queueVars
<1> QED
  BY <1>3, <1>4, <1>7, <1>8, <1>9 DEF SInv

LEMMA SInvInsertFind ==
  ASSUME SInv, fault = "none", InsertFind
  PROVE  SInv'
<1>1. current # Idle
  BY DEF InsertFind, Goto, SInv, InsertersHaveChild
<1>2. /\ current \in Tasks /\ pc[current] = "fork"
      /\ pc' \in [AllTasks -> PCs] /\ pc'[Idle] = "run"
      /\ \A t \in Tasks : pc'[t] = IF t = current THEN "insert_link" ELSE pc[t]
  BY <1>1, GotoInside DEF InsertFind, PCs, Windows
<1>3. inserting[current] \in Tasks
  BY <1>2 DEF SInv, InsertersHaveChild, AtInsert
<1>4. before' \in [AllTasks -> Tasks \cup {NoTask}]
  <2> DEFINE place == Place(task_queue, vrun_time, inserting[current])
  <2>1. place \in 1..Len(task_queue) + 1
    BY <1>3, PlaceFound DEF SInv, TypeOK
  <2> HIDE DEF place
  <2>2. place <= Len(task_queue) => task_queue[place] \in Tasks
    BY <2>1, ElementOfSeq, LenProperties DEF SInv, TypeOK
  <2>3. before' = [before EXCEPT ![current] =
                     IF place <= Len(task_queue) THEN task_queue[place] ELSE NoTask]
    BY DEF InsertFind, place
  <2> QED
    BY <2>2, <2>3 DEF SInv, TypeOK
<1>5. TypeOK'
  BY <1>2, <1>3, <1>4 DEF InsertFind, SInv, TypeOK, queueVars, States, AllTasks
<1>6. InsertersHaveChild' /\ Uncounted' = Uncounted
  BY <1>2 DEF InsertFind, SInv, InsertersHaveChild, AtInsert, Uncounted, CountWindows
<1>7. BeingForked \subseteq BeingForked' /\ inserting[current] \in BeingForked'
  BY <1>2 DEF InsertFind, BeingForked
<1>8. CountMatchesQueue'
  BY <1>6 DEF InsertFind, SInv, CountMatchesQueue, Alive, queueVars
<1>9. RunnableNotLost'
  BY <1>7 DEF InsertFind, SInv, TypeOK, RunnableNotLost, Alive, queueVars, Queued, AllTasks
<1>10. LoadedFresh'
  BY <1>2 DEF InsertFind, SInv, LoadedFresh, Alive, queueVars
<1> QED
  BY <1>5, <1>6, <1>8, <1>9, <1>10 DEF SInv

LEMMA SInvInsertLink ==
  ASSUME SInv, fault = "none", InsertLink
  PROVE  SInv'
<1>1. current # Idle
  BY DEF InsertLink, Goto, SInv, InsertersHaveChild
<1>2. /\ current \in Tasks /\ pc[current] = "insert_link"
      /\ pc' \in [AllTasks -> PCs] /\ pc'[Idle] = "run"
      /\ \A t \in Tasks : pc'[t] = IF t = current THEN "insert_load" ELSE pc[t]
  BY <1>1, GotoInside DEF InsertLink, PCs, Windows
<1>3. inserting[current] \in Tasks
  BY <1>2 DEF SInv, InsertersHaveChild, AtInsert
<1>4. before' \in [AllTasks -> Tasks \cup {NoTask}]
  BY DEF InsertLink, SInv, TypeOK
<1>5. InsertersHaveChild'
  BY <1>2 DEF InsertLink, SInv, InsertersHaveChild, AtInsert
<1> DEFINE tmp  == before[current]
           tsk  == inserting[current]
           gone == tmp # NoTask /\ tmp \notin ToSet(task_queue)
           i    == IF tmp = NoTask THEN Len(task_queue) + 1
                   ELSE CHOOSE j \in 1..Len(task_queue) : task_queue[j] = tmp
<1>6. CASE gone /\ fault' = "list_corrupted" /\ UNCHANGED task_queue
  BY <1>2, <1>4, <1>5, <1>6 DEF InsertLink, SInv, TypeOK, CountMatchesQueue,
                                 RunnableNotLost, LoadedFresh, Alive
<1>7. CASE /\ ~gone
           /\ task_queue' = InsertAt(task_queue, i, tsk)
           /\ UNCHANGED fault
  <2>1. task_queue \in Seq(Tasks) /\ Len(task_queue) \in Nat
        /\ DOMAIN task_queue = 1..Len(task_queue)
    BY LenProperties DEF SInv, TypeOK
  <2>2. i \in 1..Len(task_queue) + 1
    <3>1. CASE tmp = NoTask
      BY <2>1, <3>1
    <3>2. CASE tmp # NoTask
      <4>1. \E j \in 1..Len(task_queue) : task_queue[j] = tmp
        BY <1>7, <2>1, <3>2 DEF ToSet
      <4>2. i \in 1..Len(task_queue)
        BY <3>2, <4>1
      <4> QED
        BY <2>1, <4>2
    <3> QED
      BY <3>1, <3>2
  <2>3. task_queue' = InsertAt(task_queue, i, tsk) /\ tsk \in Tasks
    BY <1>3, <1>7
  <2> HIDE DEF i
  <2>4. /\ task_queue' \in Seq(Tasks) /\ Len(task_queue') = Len(task_queue) + 1
        /\ ToSet(task_queue') = ToSet(task_queue) \cup {tsk}
    BY <2>1, <2>2, <2>3, InsertAtEntries, EntriesOfInsertion DEF Inserted
  <2>5. TypeOK'
    BY <1>2, <1>4, <1>7, <2>4 DEF InsertLink, SInv, TypeOK
  <2>6. Cardinality(Uncounted') = Cardinality(Uncounted) + 1
    <3>1. Uncounted' = Uncounted \cup {current} /\ current \notin Uncounted
      BY <1>2 DEF Uncounted, CountWindows
    <3>2. IsFiniteSet(Uncounted)
      BY TasksAssumption, FS_Subset DEF Uncounted
    <3> QED
      BY <3>1, <3>2, FS_AddElement
  <2>7. CountMatchesQueue'
    <3> SUFFICES ASSUME "insert_store" \notin hit
                 PROVE  CountMatchesQueue'
      BY DEF CountMatchesQueue, InsertLink
    <3>1. /\ running_task_count \in Int
          /\ running_task_count' = running_task_count
          /\ running_task_count = 1 + Len(task_queue) - Cardinality(Uncounted)
      BY DEF InsertLink, SInv, TypeOK, CountMatchesQueue, Alive
    <3>2. Cardinality(Uncounted) \in Nat
      BY TasksAssumption, FS_Subset, FS_CardinalityType DEF Uncounted
    <3> QED
      BY <2>1, <2>4, <2>6, <3>1, <3>2 DEF CountMatchesQueue
  <2>8. BeingForked \subseteq BeingForked' \cup {tsk}
    BY <1>2 DEF InsertLink, BeingForked
  <2>9. RunnableNotLost'
    BY <2>4, <2>8 DEF InsertLink, SInv, RunnableNotLost, Alive, Queued
  <2>10. LoadedFresh'
    BY <1>2 DEF InsertLink, SInv, LoadedFresh, Alive
  <2> QED
    BY <1>5, <2>5, <2>7, <2>9, <2>10 DEF SInv
<1> QED
  BY <1>6, <1>7 DEF InsertLink

LEMMA SInvInsertLoad ==
  ASSUME SInv, fault = "none", InsertLoad
  PROVE  SInv'
<1>1. current # Idle
  BY DEF InsertLoad, Goto, SInv, InsertersHaveChild
<1>2. /\ current \in Tasks /\ pc[current] = "insert_load"
      /\ pc' \in [AllTasks -> PCs] /\ pc'[Idle] = "run"
      /\ \A t \in Tasks : pc'[t] = IF t = current THEN "insert_store" ELSE pc[t]
  BY <1>1, GotoInside DEF InsertLoad, PCs, Windows
<1>3. TypeOK'
  BY <1>2 DEF InsertLoad, SInv, TypeOK, queueVars
<1>4. InsertersHaveChild'
  BY <1>2 DEF InsertLoad, SInv, InsertersHaveChild, AtInsert
<1>5. Uncounted' = Uncounted /\ BeingForked' = BeingForked
  <2>1. {u \in Tasks : pc'[u] \in {"fork", "insert_link"}}
          = {u \in Tasks : pc[u] \in {"fork", "insert_link"}}
    BY <1>2
  <2> QED
    BY <1>2, <2>1 DEF InsertLoad, Uncounted, CountWindows, BeingForked
<1>6. CountMatchesQueue' /\ RunnableNotLost'
  BY <1>5 DEF InsertLoad, SInv, CountMatchesQueue, RunnableNotLost, Alive, Queued, queueVars
<1>7. LoadedFresh'
  <2>1. loaded'[current] = running_task_count
    BY DEF InsertLoad, SInv, TypeOK
  <2> QED
    BY <1>2, <2>1 DEF InsertLoad, SInv, LoadedFresh, Alive, queueVars
<1> QED
  BY <1>3, <1>4, <1>6, <1>7 DEF SInv

LEMMA SInvInsertStore ==
  ASSUME SInv, fault = "none", InsertStore
  PROVE  SInv'
<1>1. current # Idle
  BY DEF InsertStore, Goto, SInv, InsertersHaveChild
<1>2. /\ current \in Tasks /\ pc[current] = "insert_store"
      /\ pc' \in [AllTasks -> PCs] /\ pc'[Idle] = "run"
      /\ \A t \in Tasks : pc'[t] = IF t = current THEN "run" ELSE pc[t]
  BY <1>1, GotoInside DEF InsertStore, PCs, Windows
<1>3. \A t \in Tasks \ {current} : inserting'[t] = inserting[t]
  BY DEF InsertStore, SInv, TypeOK, AllTasks
<1>4. TypeOK'
  <2>1. /\ inserting' \in [AllTasks -> Tasks \cup {NoTask}]
        /\ need_schedule' \in [AllTasks -> BOOLEAN]
        /\ loaded' \in [AllTasks -> Int]
        /\ running_task_count' \in Int
    BY DEF InsertStore, SInv, TypeOK
  <2> QED
    BY <1>2, <2>1 DEF InsertStore, SInv, TypeOK
<1>5. InsertersHaveChild'
  BY <1>2, <1>3 DEF SInv, InsertersHaveChild, AtInsert
<1>6. Uncounted' = Uncounted \ {current} /\ current \in Uncounted
  BY <1>2 DEF Uncounted, CountWindows
<1>7. IsFiniteSet(Uncounted) /\ Cardinality(Uncounted) \in Nat
  BY TasksAssumption, FS_Subset, FS_CardinalityType DEF Uncounted
<1>8. Cardinality(Uncounted') = Cardinality(Uncounted) - 1
  BY <1>6, <1>7, FS_RemoveElement
<1>9. CountMatchesQueue'
  <2> SUFFICES ASSUME "insert_store" \notin hit
               PROVE  CountMatchesQueue'
    BY DEF CountMatchesQueue, InsertStore
  <2>1. loaded[current] = running_task_count
    BY <1>2 DEF SInv, LoadedFresh, Alive
  <2>2. /\ running_task_count \in Int /\ Len(task_queue) \in Nat
        /\ running_task_count' = running_task_count + 1
        /\ Len(task_queue') = Len(task_queue)
        /\ running_task_count = 1 + Len(task_queue) - Cardinality(Uncounted)
    BY <2>1, LenProperties DEF InsertStore, SInv, TypeOK, CountMatchesQueue, Alive
  <2> QED
    BY <1>7, <1>8, <2>2 DEF CountMatchesQueue
<1>10. BeingForked \subseteq BeingForked'
  BY <1>2, <1>3 DEF BeingForked
<1>11. RunnableNotLost'
  BY <1>10 DEF InsertStore, SInv, RunnableNotLost, Alive, Queued
<1>12. LoadedFresh'
  BY <1>2 DEF InsertStore, SInv, LoadedFresh, Alive
<1> QED
  BY <1>4, <1>5, <1>9, <1>11, <1>12 DEF SInv

LEMMA SInvInit == Init => SInv
<1> SUFFICES ASSUME Init
             PROVE  SInv
  OBVIOUS
<1>1. /\ Len(<<InitTask>>) = 1 /\ <<InitTask>> \in Seq(Tasks) /\ <<>> \in Seq(Tasks)
      /\ ToSet(<<InitTask>>) = {InitTask}
  BY TasksAssumption DEF ToSet
<1>2. TypeOK
  BY <1>1, TasksAssumption DEF Init, TypeOK, AllTasks, States, PCs, Windows
<1>3. InsertersHaveChild
  BY DEF Init, InsertersHaveChild, AllTasks, AtInsert
<1>4. Uncounted = {}
  BY DEF Init, Uncounted, CountWindows, AllTasks
<1>5. CountMatchesQueue
  BY <1>1, <1>4, FS_EmptySet DEF Init, CountMatchesQueue
<1>6. RunnableNotLost
  BY <1>1, TasksAssumption DEF Init, RunnableNotLost, Queued, AllTasks
<1>7. LoadedFresh
  BY DEF Init, LoadedFresh, AllTasks
<1> QED
  BY <1>2, <1>3, <1>5, <1>6, <1>7 DEF SInv

LEMMA SInvStep == SInv /\ [Next]_vars => SInv'
<1> SUFFICES ASSUME SInv, [Next]_vars
             PROVE  SInv'
  OBVIOUS
<1>1. CASE fault = "none" /\ HPET_handler
  BY <1>1, SInvHPET_handler
<1>2. CASE fault = "none" /\ Keyboard_handler
  BY <1>2, SInvKeyboard_handler
<1>3. CASE fault = "none" /\ SleepOn
  BY <1>3, SInvSleepOn
<1>4. CASE fault = "none" /\ \E child \in Tasks : Fork(child)
  BY <1>4, SInvFork
<1>5. CASE fault = "none" /\ InsertFind
  BY <1>5, SInvInsertFind
<1>6. CASE fault = "none" /\ InsertLink
  BY <1>6, SInvInsertLink
<1>7. CASE fault = "none" /\ InsertLoad
  BY <1>7, SInvInsertLoad
<1>8. CASE fault = "none" /\ InsertStore
  BY <1>8, SInvInsertStore
<1>9. CASE UNCHANGED vars
  BY <1>9 DEF LoadedFresh, vars, queueVars, SInv, TypeOK, InsertersHaveChild, CountMatchesQueue,
              RunnableNotLost, Alive, Uncounted, BeingForked, Queued
<1> QED
  BY <1>1, <1>2, <1>3, <1>4, <1>5, <1>6, <1>7, <1>8, <1>9
  DEF Next, Running, Stopped, Interrupt, DoFork

LEMMA SInvAlways == Spec => []SInv
BY SInvInit, SInvStep, PTL DEF Spec

-----------------------------------------------------------------------------
(* Theorems *)

\* The scheduler's variables keep their types whatever is forked, put to sleep,
\* woken and preempted: schedule() never leaves the run queue or the slice with
\* something that is not a list of tasks or a number.
THEOREM TypeCorrect == Spec => []TypeOK
<1>1. SInv => TypeOK
  BY DEF SInv
<1> QED
  BY <1>1, SInvAlways, PTL

\* running_task_count follows the run queue through every preemption: it falls
\* short of it by exactly the insertions caught before their count, until an
\* interrupt lands inside an increment.
THEOREM CountCorrect == Spec => []CountMatchesQueue
<1>1. SInv => CountMatchesQueue
  BY DEF SInv
<1> QED
  BY <1>1, SInvAlways, PTL

\* For any number of tasks, no interleaving of ticks, wakeups, sleeps and forks
\* takes a runnable task off both the CPU and the run queue.
THEOREM NoRunnableLost == Spec => []RunnableNotLost
<1>1. SInv => RunnableNotLost
  BY DEF SInv
<1> QED
  BY <1>1, SInvAlways, PTL

-----------------------------------------------------------------------------
(* The order of the run queue *)

Sorted(q, vr) == \A i, j \in DOMAIN q : i < j => vr[q[i]] <= vr[q[j]]

\* A sorted queue without its first entry is sorted, and no entry is less than
\* the first.
LEMMA FirstLeast ==
  ASSUME NEW q \in Seq(Tasks), q # <<>>, NEW vr \in [AllTasks -> Nat], Sorted(q, vr)
  PROVE  /\ Sorted(Tail(q), vr)
         /\ \A t \in ToSet(q) : vr[Head(q)] <= vr[t]
<1>1. /\ Tail(q) \in Seq(Tasks) /\ Len(Tail(q)) = Len(q) - 1
      /\ \A i \in 1..Len(Tail(q)) : Tail(q)[i] = q[i + 1]
  BY HeadTailProperties
<1>2. Len(q) \in Nat \ {0} /\ Head(q) = q[1] /\ \A i \in 1..Len(q) : q[i] \in Tasks
  BY EmptySeq, ElementOfSeq
<1>3. DOMAIN q = 1..Len(q) /\ DOMAIN Tail(q) = 1..Len(q) - 1
  BY <1>1, LenProperties
<1>4. \A i \in 1..Len(q) : vr[q[i]] \in Nat
  BY <1>2 DEF AllTasks
<1>5. Sorted(Tail(q), vr)
  <2> SUFFICES ASSUME NEW i \in 1..Len(q) - 1, NEW j \in 1..Len(q) - 1, i < j
               PROVE  vr[q[i + 1]] <= vr[q[j + 1]]
    BY <1>1, <1>3, SMTT(20) DEF Sorted
  <2>1. i + 1 \in 1..Len(q) /\ j + 1 \in 1..Len(q) /\ i + 1 < j + 1
    BY <1>2
  <2> QED
    BY <1>3, <2>1 DEF Sorted
<1>6. ASSUME NEW i \in 1..Len(q)
      PROVE  vr[q[1]] <= vr[q[i]]
  <2>1. CASE i = 1
    BY <1>4, <2>1
  <2>2. CASE i # 1
    BY <1>2, <1>3, <2>2 DEF Sorted
  <2> QED
    BY <2>1, <2>2
<1> QED
  BY <1>2, <1>3, <1>5, <1>6 DEF ToSet

\* Inserting where the loop of insert_task_queue stops keeps the queue sorted.
LEMMA InsertionSorted ==
  ASSUME NEW q \in Seq(Tasks), NEW vr \in [AllTasks -> Nat], NEW t \in Tasks,
         Sorted(q, vr)
  PROVE  Sorted(InsertAt(q, Place(q, vr, t), t), vr)
<1> DEFINE p == Place(q, vr, t)
           r == InsertAt(q, p, t)
<1>1. /\ p \in 1..Len(q) + 1
      /\ \A j \in 1..p - 1 : vr[q[j]] < vr[t]
      /\ p <= Len(q) => vr[q[p]] >= vr[t]
  BY PlaceFound
<1> HIDE DEF p
<1>2. /\ r \in Seq(Tasks) /\ Len(r) = Len(q) + 1
      /\ \A j \in 1..Len(q) + 1 :
           r[j] = IF j < p THEN q[j] ELSE IF j = p THEN t ELSE q[j - 1]
  <2>1. p \in 1..Len(q) + 1
    BY <1>1
  <2>2. InsertAt(q, p, t) \in Seq(Tasks) /\ Inserted(InsertAt(q, p, t), q, p, t)
    BY <2>1, InsertAtEntries, Zenon
  <2> QED
    BY <2>2, Zenon DEF Inserted
<1> HIDE DEF r
<1>3. /\ Len(q) \in Nat /\ DOMAIN q = 1..Len(q) /\ DOMAIN r = 1..Len(q) + 1
      /\ \A j \in 1..Len(q) : q[j] \in Tasks
  BY <1>2, LenProperties, ElementOfSeq
<1>4. vr[t] \in Nat /\ \A j \in 1..Len(q) : vr[q[j]] \in Nat
  BY <1>3 DEF AllTasks
<1>5. \A j \in 1..Len(q) : j >= p => vr[t] <= vr[q[j]]
  <2> SUFFICES ASSUME NEW j \in 1..Len(q), j >= p
               PROVE  vr[t] <= vr[q[j]]
    OBVIOUS
  <2>1. p \in 1..Len(q) /\ vr[t] <= vr[q[p]]
    BY <1>1, <1>3, <1>4
  <2>2. vr[q[p]] <= vr[q[j]]
    BY <1>3, <1>4, <2>1 DEF Sorted
  <2> QED
    BY <1>4, <2>1, <2>2
<1>6. ASSUME NEW i \in 1..Len(q) + 1, NEW j \in 1..Len(q) + 1, i < j
      PROVE  vr[r[i]] <= vr[r[j]]
  <2>1. CASE j < p
    <3>1. i \in DOMAIN q /\ j \in DOMAIN q /\ r[i] = q[i] /\ r[j] = q[j]
      BY <1>1, <1>2, <1>3, <1>6, <2>1
    <3> QED
      BY <1>6, <3>1 DEF Sorted
  <2>2. CASE j = p
    <3>1. i \in 1..p - 1 /\ i \in 1..Len(q) /\ r[i] = q[i] /\ r[j] = t
      BY <1>1, <1>2, <1>3, <1>6, <2>2
    <3> QED
      BY <1>1, <1>4, <3>1
  <2>3. CASE j > p /\ i < p
    <3>1. i \in 1..Len(q) /\ j - 1 \in 1..Len(q) /\ j - 1 >= p /\ r[i] = q[i]
          /\ r[j] = q[j - 1] /\ i \in 1..p - 1
      BY <1>1, <1>2, <1>3, <1>6, <2>3
    <3>2. vr[q[i]] < vr[t] /\ vr[t] <= vr[q[j - 1]]
      BY <1>1, <1>5, <3>1
    <3> QED
      BY <1>4, <3>1, <3>2
  <2>4. CASE j > p /\ i = p
    <3>1. j - 1 \in 1..Len(q) /\ j - 1 >= p /\ r[i] = t /\ r[j] = q[j - 1]
      BY <1>1, <1>2, <1>3, <1>6, <2>4
    <3> QED
      BY <1>5, <3>1
  <2>5. CASE j > p /\ i > p
    <3>1. /\ i - 1 \in DOMAIN q /\ j - 1 \in DOMAIN q /\ i - 1 < j - 1
          /\ r[i] = q[i - 1] /\ r[j] = q[j - 1]
      BY <1>1, <1>2, <1>3, <1>6, <2>5
    <3> QED
      BY <3>1 DEF Sorted
  <2> QED
    BY <1>1, <1>3, <2>1, <2>2, <2>3, <2>4, <2>5
<1>7. Sorted(r, vr)
  BY <1>3, <1>6 DEF Sorted
<1> QED
  BY <1>7 DEF r, p

\* What Insert does to the order of a queue that lacks the task.
LEMMA InsertOrder ==
  ASSUME NEW q \in Seq(Tasks), NEW vr \in [AllTasks -> Nat], NEW t \in AllTasks
  PROVE  /\ Sorted(q, vr) => Sorted(Insert(q, vr, t), vr)
         /\ IsInjective(q) /\ t \notin ToSet(q) => IsInjective(Insert(q, vr, t))
<1>1. CASE t = Idle
  BY <1>1 DEF Insert
<1>2. CASE t # Idle
  <2>1. t \in Tasks /\ Insert(q, vr, t) = InsertAt(q, Place(q, vr, t), t)
    BY <1>2 DEF AllTasks, Insert
  <2>2. Place(q, vr, t) \in 1..Len(q) + 1
    BY <2>1, PlaceFound
  <2> QED
    BY <2>1, <2>2, InsertionSorted, InsertionApart, Zenon
<1> QED
  BY <1>1, <1>2

\* No slice is longer than that of a task alone with idle.
LEMMA SliceAtMost ==
  ASSUME NEW count \in Int, count # 0
  PROVE  Slice(count) <= MaxSlice /\ MaxSlice \in Nat
<1>1. Quotient(4, 1) = 4
  BY DEF Quotient
<1>2. Quotient(4, count) \in Int /\ Quotient(4, count) <= 4
  <2>1. \A d \in Nat \ {0} : 4 \div d \in Int /\ 0 <= 4 \div d /\ 4 \div d <= 4
    OBVIOUS
  <2>2. CASE count > 0
    BY <2>1, <2>2 DEF Quotient
  <2>3. CASE ~(count > 0)
    <3>1. -count \in Nat \ {0}
      BY <2>3
    <3>2. 4 \div (-count) \in Int /\ 0 <= 4 \div (-count)
      BY <2>1, <3>1
    <3> QED
      BY <2>3, <3>2 DEF Quotient
  <2> QED
    BY <2>2, <2>3
<1>3. Quotient(4, count) * 3 <= 12
  BY <1>2
<1> QED
  BY <1>1, <1>2, <1>3 DEF Slice, MaxSlice

LEMMA MaxWithZero ==
  ASSUME NEW n \in Int
  PROVE  Max({n, 0}) = IF n >= 0 THEN n ELSE 0
<1> DEFINE m == IF n >= 0 THEN n ELSE 0
<1>1. m \in {n, 0} /\ \A y \in {n, 0} : m >= y
  OBVIOUS
<1>2. \A x \in {n, 0} : (\A y \in {n, 0} : x >= y) => x = m
  OBVIOUS
<1> HIDE DEF m
<1>3. Max({n, 0}) = m
  BY <1>1, <1>2 DEF Max
<1> QED
  BY <1>3 DEF m

-----------------------------------------------------------------------------
(* What schedule() does to the run queue of whatever state it is called in *)

\* schedule(), and so ret_from_intr, queues nothing but what was queued and the
\* task that ran, keeps the order, corrupts the list only if the running task was
\* queued, and divides by zero only if the count had fallen behind the queue.
SchedulerOrders(st, vr, q, count, slice) ==
  /\ state' = st /\ vrun_time' = vr
  /\ IsInjective(task_queue')
  /\ \A t \in ToSet(task_queue') : t \in ToSet(q) \/ (t = current /\ st[t] = "RUNNING")
  /\ current' \in {Idle, current} \cup ToSet(q)
  /\ current \notin ToSet(q) => current' \notin ToSet(task_queue')
  /\ Sorted(q, vr) => Sorted(task_queue', vr)
  /\ fault' = "list_corrupted" => current \in ToSet(q)
  /\ fault' = "divide_error" => ~(count > Len(q))
  /\ slice <= MaxSlice => CPU_exec_task_jiffies' <= MaxSlice

\* schedule() itself goes further: it takes a task that does not run off the CPU,
\* and the task it leaves there has run no more than any that is queued.
LEMMA RescheduleOrders ==
  ASSUME NEW st, NEW need, NEW vr, NEW q, NEW count, NEW slice,
         current \in AllTasks, SchedulerType(st, need, vr, q, count, slice),
         fault = "none", IsInjective(q), Reschedule(st, need, vr, q, count, slice)
  PROVE  /\ SchedulerOrders(st, vr, q, count, slice)
         /\ st[current] # "RUNNING" /\ current \notin ToSet(q) /\ current # Idle
              => current' # current
         /\ Sorted(q, vr) => \A t \in ToSet(task_queue') : vr[current'] <= vr[t]
         /\ Alive' => Abstract!Reschedule(st, ToSet(q))
<1> DEFINE empty   == q = <<>>
           tsk     == IF empty THEN Idle ELSE Head(q)
           rest    == IF empty THEN q ELSE Tail(q)
           left    == IF empty THEN count ELSE count - 1
           runs    == st[current] = "RUNNING"
           switch  == GivesWay(vr, current, tsk) \/ ~runs
           back    == IF switch THEN current ELSE tsk
           putback == switch => runs
           total   == IF putback THEN left + Counted(back) ELSE left
           broken  == putback /\ back \in ToSet(rest)
           divzero == slice = 0 /\ total = 0
           Q       == ToSet(q)
           R       == ToSet(rest)
           first   == IF empty THEN {} ELSE {tsk}
<1>1. /\ need_schedule' = [need EXCEPT ![current] = FALSE]
      /\ vrun_time' = vr
      /\ state' = st
      /\ fault' = IF broken THEN "list_corrupted"
                  ELSE IF divzero THEN "divide_error" ELSE "none"
      /\ task_queue' = IF putback /\ ~broken THEN Insert(rest, vr, back) ELSE rest
      /\ running_task_count' = total
      /\ CPU_exec_task_jiffies' = IF divzero THEN slice ELSE Refill(slice, total)
      /\ current' = IF switch THEN tsk ELSE current
  BY DEF Reschedule
<1>2. /\ st \in [AllTasks -> States] /\ vr \in [AllTasks -> Nat]
      /\ q \in Seq(Tasks) /\ count \in Int /\ slice \in Int
      /\ Idle \notin Q /\ Len(q) \in Nat
  <2>1. q \in Seq(Tasks)
    BY DEF SchedulerType
  <2>2. Q \subseteq Tasks
    BY <2>1, ElementOfSeq, LenProperties DEF ToSet
  <2> QED
    BY <2>1, <2>2, LenProperties, TasksAssumption DEF SchedulerType
<1>3. /\ tsk \in AllTasks /\ rest \in Seq(Tasks) /\ left \in Int
      /\ Q = first \cup R /\ R \cap first = {}
      /\ empty => R = {}
      /\ IsInjective(rest)
      /\ Sorted(q, vr) => Sorted(rest, vr) /\ (~empty => \A t \in R : vr[tsk] <= vr[t])
  <2>1. CASE empty
    BY <1>2, <2>1, EmptySeq DEF AllTasks, ToSet
  <2>2. CASE ~empty
    <3>1. /\ Head(q) \in Tasks /\ Tail(q) \in Seq(Tasks)
          /\ ToSet(q) = {Head(q)} \cup ToSet(Tail(q))
      BY <1>2, <2>2, FirstEntry
    <3>2. IsInjective(Tail(q)) /\ Head(q) \notin ToSet(Tail(q))
      BY <1>2, <2>2, FirstApart
    <3>3. Sorted(q, vr) => Sorted(Tail(q), vr) /\ \A t \in ToSet(q) : vr[Head(q)] <= vr[t]
      BY <1>2, <2>2, FirstLeast
    <3> QED
      BY <1>2, <2>2, <3>1, <3>2, <3>3 DEF AllTasks
  <2> QED
    BY <2>1, <2>2
<1>4. /\ ~empty => tsk \in Q /\ tsk # Idle
      /\ empty => tsk = Idle
      /\ Idle \notin R /\ tsk \notin R /\ R \subseteq Q
  BY <1>2, <1>3
<1>5. count > Len(q) => left > 0
  BY <1>2, EmptySeq
<1>6. Counted(back) \in {0, 1}
  BY DEF Counted
<1>7. back \in AllTasks
  BY <1>3
<1>8. /\ ToSet(Insert(rest, vr, back)) = R \cup ({back} \ {Idle})
      /\ back \notin R => IsInjective(Insert(rest, vr, back))
      /\ Sorted(rest, vr) => Sorted(Insert(rest, vr, back), vr)
  BY <1>2, <1>3, <1>7, InsertProperties, InsertOrder
<1> HIDE DEF empty, tsk, rest, left
<1>9. /\ IsInjective(task_queue')
      /\ Sorted(q, vr) => Sorted(task_queue', vr)
  BY <1>1, <1>3, <1>8
<1>10. ToSet(task_queue') = IF putback /\ ~broken THEN R \cup ({back} \ {Idle}) ELSE R
  BY <1>1, <1>8
<1>11. broken => switch /\ runs /\ current \in R
  BY <1>4
<1>12. /\ \A t \in ToSet(task_queue') : t \in Q \/ (t = current /\ st[t] = "RUNNING")
       /\ current' \in {Idle, current} \cup Q
       /\ current \notin Q => current' \notin ToSet(task_queue')
       /\ fault' = "list_corrupted" => current \in Q
  BY <1>1, <1>2, <1>4, <1>10, <1>11
<1>13. fault' = "divide_error" => ~(count > Len(q))
  <2> SUFFICES ASSUME count > Len(q)
               PROVE  total # 0
    BY <1>1
  <2> QED
    BY <1>3, <1>5, <1>6
<1>14. slice <= MaxSlice => CPU_exec_task_jiffies' <= MaxSlice
  <2>1. total \in Int
    BY <1>3, <1>6
  <2> HIDE DEF total
  <2>2. CASE slice = 0 /\ total # 0
    BY <1>1, <2>1, <2>2, SliceAtMost DEF Refill
  <2>3. CASE slice # 0 \/ total = 0
    BY <1>1, <2>3 DEF Refill
  <2> QED
    BY <2>2, <2>3
<1>15. SchedulerOrders(st, vr, q, count, slice)
  BY <1>1, <1>9, <1>12, <1>13, <1>14 DEF SchedulerOrders
<1>16. ASSUME st[current] # "RUNNING", current \notin Q, current # Idle
       PROVE  current' # current
  BY <1>1, <1>4, <1>16
<1>17. ASSUME Sorted(q, vr), NEW t \in ToSet(task_queue')
       PROVE  vr[current'] <= vr[t]
  <2>1. \A u \in R : ~empty /\ vr[tsk] <= vr[u] /\ u \in AllTasks
    <3>1. R \subseteq Tasks
      BY <1>3, ElementOfSeq, LenProperties DEF ToSet
    <3> QED
      BY <1>3, <1>17, <3>1 DEF AllTasks
  <2>2. vr[current] \in Nat /\ vr[tsk] \in Nat /\ \A u \in AllTasks : vr[u] \in Nat
    BY <1>2, <1>3
  <2>3. CASE switch
    <3>1. current' = tsk /\ back = current
      BY <1>1, <2>3
    <3>2. CASE t \in R
      BY <2>1, <3>1, <3>2
    <3>3. CASE t \notin R
      <4>1. t = current /\ runs
        BY <1>10, <3>1, <3>3
      <4> QED
        BY <2>2, <2>3, <3>1, <4>1 DEF GivesWay
    <3> QED
      BY <3>2, <3>3
  <2>4. CASE ~switch
    <3>1. current' = current /\ back = tsk /\ vr[current] <= vr[tsk]
      BY <1>1, <2>2, <2>4 DEF GivesWay
    <3>2. t \in R \/ t = tsk
      BY <1>10, <3>1
    <3> QED
      BY <2>1, <2>2, <3>1, <3>2
  <2> QED
    BY <2>3, <2>4
<1>18. ASSUME Alive'
       PROVE  Abstract!Reschedule(st, Q)
  <2>1. ~broken /\ fault' = "none"
    BY <1>1, <1>18 DEF Alive
  <2>2. CASE switch
    <3>1. tsk \in (IF Q = {} THEN {Idle} ELSE Q) /\ R = Q \ {tsk}
      BY <1>3, <1>4
    <3>2. current' = tsk /\ back = current /\ (putback <=> runs)
      BY <1>1, <2>2
    <3>3. Abstract!PutBack(st) = IF runs THEN {current} \ {Idle} ELSE {}
      BY DEF Abstract!PutBack
    <3>4. ToSet(task_queue') = (Q \ {tsk}) \cup Abstract!PutBack(st)
      BY <1>10, <2>1, <3>1, <3>2, <3>3
    <3>5. Abstract!PutBack(st) \cap (Q \ {tsk}) = {}
      BY <2>1, <3>1, <3>2, <3>3
    <3>6. \E next \in IF Q = {} THEN {Idle} ELSE Q :
            /\ current' = next
            /\ ToSet(task_queue') = (Q \ {next}) \cup Abstract!PutBack(st)
            /\ fault' = IF Abstract!PutBack(st) \cap (Q \ {next}) = {} THEN "none"
                        ELSE "list_corrupted"
      BY <2>1, <3>1, <3>2, <3>4, <3>5
    <3> HIDE DEF Q, R
    <3> QED
      BY <1>1, <3>6 DEF Abstract!Reschedule, Q
  <2>3. CASE ~switch
    <3>1. current' = current /\ back = tsk /\ putback /\ runs
      BY <1>1, <2>3
    <3>2. ToSet(task_queue') = Q
      BY <1>2, <1>3, <1>4, <1>10, <2>1, <3>1
    <3> QED
      BY <1>1, <2>1, <3>1, <3>2 DEF Abstract!Reschedule
  <2> QED
    BY <2>2, <2>3
<1> QED
  BY <1>15, <1>16, <1>17, <1>18

LEMMA RetFromIntrOrders ==
  ASSUME NEW st, NEW need, NEW vr, NEW q, NEW count, NEW slice,
         current \in AllTasks, SchedulerType(st, need, vr, q, count, slice),
         fault = "none", IsInjective(q), RetFromIntr(st, need, vr, q, count, slice)
  PROVE  /\ SchedulerOrders(st, vr, q, count, slice)
         /\ Alive' => Abstract!RetFromIntr(st, ToSet(q))
         /\ IF need[current]
            THEN Sorted(q, vr) => \A t \in ToSet(task_queue') : vr[current'] <= vr[t]
            ELSE /\ task_queue' = q /\ need_schedule' = need
                 /\ CPU_exec_task_jiffies' = slice /\ current' = current
<1>1. CASE need[current] /\ Reschedule(st, need, vr, q, count, slice)
  BY <1>1, RescheduleOrders DEF Abstract!RetFromIntr
<1>2. CASE /\ ~need[current]
           /\ state' = st
           /\ need_schedule' = need
           /\ vrun_time' = vr
           /\ task_queue' = q
           /\ running_task_count' = count
           /\ CPU_exec_task_jiffies' = slice
           /\ UNCHANGED <<current, fault>>
  BY <1>2 DEF SchedulerOrders, Abstract!RetFromIntr
<1> QED
  BY <1>1, <1>2 DEF RetFromIntr

-----------------------------------------------------------------------------
(* Who is on which list: the inductive invariant behind the properties *)

\* The tasks in do_fork that have not linked their child yet.
Forking == {t \in Tasks : pc[t] \in {"fork", "insert_link"}}

\* Nothing has been done yet that a running task does.
Fresh(t) == t # current /\ t \notin Queued \cup ToSet(wait_list) /\ pc[t] = "run"

\* A task is fresh until it is linked into the run queue, and every child has one
\* parent that will link it.
NewTasksApart ==
  /\ \A t \in Tasks : state[t] = "NONE" => Fresh(t) /\ t \notin BeingForked
  /\ \A p \in Forking :
       /\ Fresh(inserting[p])
       /\ state[inserting[p]] = IF pc[p] = "fork" THEN "UNINTERRUPTIBLE" ELSE "RUNNING"
  /\ \A p, r \in Forking : inserting[p] = inserting[r] => p = r

\* As long as no interrupt has landed between setting the state and linking.
SleepersKnown ==
  "sleep_link" \notin hit => \A t \in Tasks :
    /\ pc[t] = "sleep_link" => t = current
    /\ state[t] = "UNINTERRUPTIBLE" =>
         \/ pc[t] = "sleep_link"
         \/ t \in ToSet(wait_list) \cup BeingForked

Clean == hit \cap ListWindows = {}

\* The entry insert_task_queue is to precede, as its loop would find it now.
Successor(tsk) ==
  LET place == Place(task_queue, vrun_time, tsk)
  IN IF place <= Len(task_queue) THEN task_queue[place] ELSE NoTask

\* As long as no interrupt has left the lists in doubt, the run queue holds
\* runnable tasks other than the one that runs, the wait list sleepers, and only
\* the running task is on its way between the two.
CleanLists ==
  Clean =>
    /\ current \notin Queued
    /\ \A t \in Queued : state[t] = "RUNNING"
    /\ IsInjective(wait_list)
    /\ \A t \in ToSet(wait_list) :
         /\ state[t] = "UNINTERRUPTIBLE"
         /\ t = current => pc[t] = "sleep_switch"
    /\ \A t \in Tasks :
         /\ pc[t] \in {"sleep_link", "sleep_switch"} => state[t] = "UNINTERRUPTIBLE"
         /\ pc[t] = "sleep_switch" => t = current
         /\ pc[t] = "sleep_link" => t \notin ToSet(wait_list)
         /\ pc[t] = "insert_link" => t = current /\ before[t] = Successor(inserting[t])

ListsApart == IsInjective(task_queue) /\ NewTasksApart /\ SleepersKnown /\ CleanLists

\* What the types say of the lists taken as sets.
LEMMA ListsOfTasks ==
  ASSUME SInv
  PROVE  /\ Queued \subseteq Tasks /\ ToSet(wait_list) \subseteq Tasks
         /\ current \in AllTasks /\ AllTasks = Tasks \cup {Idle} /\ Idle \notin Tasks
         /\ pc \in [AllTasks -> PCs] /\ state \in [AllTasks -> States]
         /\ \A p \in Forking : inserting[p] \in Tasks
         /\ BeingForked = {inserting[p] : p \in Forking}
<1>1. task_queue \in Seq(Tasks) /\ wait_list \in Seq(Tasks)
  BY DEF SInv, TypeOK
<1>2. Queued \subseteq Tasks /\ ToSet(wait_list) \subseteq Tasks
  BY <1>1, ElementOfSeq, LenProperties DEF Queued, ToSet
<1>3. \A p \in Forking : inserting[p] \in Tasks
  BY DEF Forking, SInv, InsertersHaveChild, AtInsert
<1> QED
  BY <1>2, <1>3, TasksAssumption DEF SInv, TypeOK, AllTasks, BeingForked, Forking

\* An interrupt handler that wakes the tasks of woken, taken off the wait list,
\* and then lets schedule() choose.
LEMMA ListsAfterInterrupt ==
  ASSUME SInv, SInv', ListsApart,
         NEW st, NEW vr, NEW q, NEW count, NEW slice, NEW woken \in SUBSET Tasks,
         SchedulerOrders(st, vr, q, count, slice),
         ToSet(q) = Queued \cup woken,
         \A t \in Tasks : st[t] = IF t \in woken THEN "RUNNING" ELSE state[t],
         \A t \in woken : t \in ToSet(wait_list) /\ state[t] = "UNINTERRUPTIBLE",
         ToSet(wait_list) \subseteq ToSet(wait_list') \cup woken,
         ToSet(wait_list') \subseteq ToSet(wait_list),
         IsInjective(wait_list) =>
           IsInjective(wait_list') /\ woken \cap ToSet(wait_list') = {},
         Interrupted, UNCHANGED <<pc, inserting, before>>
  PROVE  ListsApart'
<1>1. /\ Queued \subseteq Tasks /\ ToSet(wait_list) \subseteq Tasks
      /\ current \in AllTasks /\ AllTasks = Tasks \cup {Idle} /\ Idle \notin Tasks
      /\ pc \in [AllTasks -> PCs]
      /\ \A p \in Forking : inserting[p] \in Tasks
  BY ListsOfTasks
<1>2. /\ state' = st /\ IsInjective(task_queue')
      /\ \A t \in Queued' : t \in Queued \cup woken \/ (t = current /\ st[t] = "RUNNING")
      /\ current' \in {Idle, current} \cup Queued \cup woken
      /\ current \notin Queued \cup woken => current' \notin Queued'
  BY DEF SchedulerOrders, Queued
<1>3. Forking' = Forking /\ BeingForked' = BeingForked
  BY DEF Forking, BeingForked
<1>4. hit' = hit \cup ({pc[current]} \cap Windows)
  BY DEF Interrupted
<1>5. \A t \in Tasks : Fresh(t) => Fresh(t)' /\ t \notin woken
  BY <1>1, <1>2 DEF Fresh
<1>6. NewTasksApart'
  <2>1. \A t \in Tasks : state'[t] = "NONE" => Fresh(t)' /\ t \notin BeingForked'
    BY <1>2, <1>3, <1>5 DEF ListsApart, NewTasksApart
  <2>2. \A p \in Forking : inserting'[p] = inserting[p] /\ pc'[p] = pc[p]
    OBVIOUS
  <2>3. \A p \in Forking : /\ Fresh(inserting[p])'
                           /\ state'[inserting[p]] = state[inserting[p]]
    BY <1>1, <1>2, <1>5 DEF ListsApart, NewTasksApart
  <2> QED
    BY <1>3, <2>1, <2>2, <2>3 DEF ListsApart, NewTasksApart, Fresh
<1>7. SleepersKnown'
  <2> SUFFICES ASSUME "sleep_link" \notin hit', NEW t \in Tasks
               PROVE  /\ pc[t] # "sleep_link"
                      /\ state'[t] = "UNINTERRUPTIBLE" =>
                           t \in ToSet(wait_list') \cup BeingForked
    BY <1>3 DEF SleepersKnown
  <2>1. pc[t] # "sleep_link"
    BY <1>4 DEF ListsApart, SleepersKnown, Windows
  <2> QED
    BY <1>2, <1>4, <2>1 DEF ListsApart, SleepersKnown
<1>8. CleanLists'
  <2> SUFFICES ASSUME Clean'
               PROVE  CleanLists'
    BY DEF CleanLists
  <2>1. Clean /\ pc[current] \notin ListWindows
    BY <1>4 DEF Clean, ListWindows, Windows
  <2>2. current \notin Queued \cup woken
    BY <2>1 DEF ListsApart, CleanLists, ListWindows
  <2>3. \A t \in Queued' : state'[t] = "RUNNING"
    BY <1>1, <1>2, <2>1 DEF ListsApart, CleanLists
  <2>4. IsInjective(wait_list') /\ woken \cap ToSet(wait_list') = {}
    BY <2>1 DEF ListsApart, CleanLists
  <2>5. ASSUME NEW t \in ToSet(wait_list')
        PROVE  state'[t] = "UNINTERRUPTIBLE" /\ t # current'
    <3>1. t \in ToSet(wait_list) /\ t \in Tasks /\ t \notin woken
      BY <1>1, <2>4
    <3>2. state'[t] = "UNINTERRUPTIBLE" /\ state[t] = "UNINTERRUPTIBLE" /\ t # current
      BY <1>2, <2>1, <3>1 DEF ListsApart, CleanLists, ListWindows
    <3>3. t \notin Queued
      BY <2>1, <3>2 DEF ListsApart, CleanLists
    <3> QED
      BY <1>1, <1>2, <3>1, <3>2, <3>3
  <2>6. ASSUME NEW t \in Tasks
        PROVE  /\ pc[t] \notin {"sleep_switch", "insert_link"}
               /\ pc[t] = "sleep_link" =>
                    state'[t] = "UNINTERRUPTIBLE" /\ t \notin ToSet(wait_list')
    BY <1>2, <2>1 DEF ListsApart, CleanLists, ListWindows
  <2>7. current' \notin Queued'
    BY <1>2, <2>2
  <2> QED
    BY <2>3, <2>4, <2>5, <2>6, <2>7 DEF CleanLists
<1> QED
  BY <1>2, <1>6, <1>7, <1>8 DEF ListsApart

\* As long as no interrupt has landed in a window of the count, only the running
\* task can have linked an entry it has not counted.
UncountedRuns == hit \cap CountWindows = {} => Uncounted \subseteq {current}

SliceBounded == CPU_exec_task_jiffies <= MaxSlice

OInv ==
  /\ Alive => ListsApart /\ UncountedRuns
  /\ SliceBounded /\ FaultsByWindow /\ QueueSorted /\ BoundedLag

LEMMA SortedWhenClean == QueueSorted <=> (Clean => Sorted(task_queue, vrun_time))
BY DEF QueueSorted, Clean, Sorted

\* While the count is right, it is more than the queue holds.
LEMMA CountAboveQueue ==
  ASSUME SInv, OInv, fault = "none", hit \cap CountWindows = {},
         pc[current] \notin CountWindows
  PROVE  running_task_count = 1 + Len(task_queue)
<1>1. Uncounted = {}
  BY DEF OInv, UncountedRuns, Uncounted, Alive
<1>2. running_task_count = 1 + Len(task_queue) - Cardinality(Uncounted)
  BY DEF SInv, CountMatchesQueue, CountWindows, Alive
<1> QED
  BY <1>1, <1>2, FS_EmptySet, LenProperties DEF SInv, TypeOK

\* Where schedule() has left the task that has run least on the CPU, it is no
\* more than one slice ahead.
LEMMA LagAfterSchedule ==
  ASSUME TypeOK', SliceBounded',
         \A t \in ToSet(task_queue') : vrun_time'[current'] <= vrun_time'[t]
  PROVE  BoundedLag'
<1> SUFFICES ASSUME task_queue' # <<>>
             PROVE  vrun_time'[current'] + Max({CPU_exec_task_jiffies', 0})
                      <= vrun_time'[Head(task_queue')] + MaxSlice
  BY DEF BoundedLag, MaxSlice, Slice
<1>1. /\ CPU_exec_task_jiffies' \in Int /\ CPU_exec_task_jiffies' <= MaxSlice
      /\ MaxSlice \in Nat
  BY SliceAtMost DEF TypeOK, SliceBounded, MaxSlice, Slice
<1>2. Max({CPU_exec_task_jiffies', 0})
        = IF CPU_exec_task_jiffies' >= 0 THEN CPU_exec_task_jiffies' ELSE 0
  BY <1>1, MaxWithZero
<1>3. /\ Head(task_queue') \in Tasks
      /\ Head(task_queue') \in ToSet(task_queue')
      /\ current' \in AllTasks /\ vrun_time' \in [AllTasks -> Nat]
  BY FirstEntry DEF TypeOK
<1>4. /\ vrun_time'[current'] \in Nat /\ vrun_time'[Head(task_queue')] \in Nat
      /\ vrun_time'[current'] <= vrun_time'[Head(task_queue')]
  BY <1>3 DEF AllTasks
<1> QED
  BY <1>1, <1>2, <1>4

\* The same handler again: the invariant, and the step of the abstraction.
LEMMA OInvAfterInterrupt ==
  ASSUME SInv, SInv', OInv, fault = "none",
         NEW st, NEW need, NEW vr, NEW q, NEW count, NEW slice, NEW woken \in SUBSET Tasks,
         SchedulerType(st, need, vr, q, count, slice), IsInjective(q),
         RetFromIntr(st, need, vr, q, count, slice),
         ToSet(q) = Queued \cup woken,
         \A t \in Tasks : st[t] = IF t \in woken THEN "RUNNING" ELSE state[t],
         \A t \in woken : t \in ToSet(wait_list) /\ state[t] = "UNINTERRUPTIBLE",
         ToSet(wait_list) \subseteq ToSet(wait_list') \cup woken,
         ToSet(wait_list') \subseteq ToSet(wait_list),
         IsInjective(wait_list) =>
           IsInjective(wait_list') /\ woken \cap ToSet(wait_list') = {},
         Interrupted, UNCHANGED <<pc, inserting, before>>,
         count - Len(q) = running_task_count - Len(task_queue),
         Clean' => Sorted(q, vr),
         slice <= MaxSlice,
         ~need[current] /\ Clean /\ q # <<>> /\ pc[current] \notin CountWindows =>
           vr[current] + Max({slice, 0}) <= vr[Head(q)] + MaxSlice
  PROVE  /\ OInv'
         /\ Alive' => Abstract!RetFromIntr(st, Queued \cup woken)
<1>1. current \in AllTasks /\ ListsApart /\ UncountedRuns
  BY DEF SInv, TypeOK, OInv, Alive
<1>2. /\ SchedulerOrders(st, vr, q, count, slice)
      /\ Alive' => Abstract!RetFromIntr(st, ToSet(q))
      /\ IF need[current]
         THEN Sorted(q, vr) => \A t \in ToSet(task_queue') : vr[current'] <= vr[t]
         ELSE /\ task_queue' = q /\ need_schedule' = need
              /\ CPU_exec_task_jiffies' = slice /\ current' = current
  BY <1>1, RetFromIntrOrders, ZenonT(60)
<1>3. ListsApart'
  BY <1>1, <1>2, ListsAfterInterrupt, ZenonT(60)
<1>4. /\ hit' = hit \cup ({pc[current]} \cap Windows)
      /\ ListWindows \subseteq Windows /\ CountWindows \subseteq Windows
  BY DEF Interrupted, ListWindows, CountWindows, Windows
<1>5. Clean' => Clean /\ pc[current] \notin ListWindows
  BY <1>4 DEF Clean
<1>6. hit' \cap CountWindows = {} => hit \cap CountWindows = {} /\ pc[current] \notin CountWindows
  BY <1>4
<1>7. UncountedRuns'
  BY <1>1, <1>6 DEF UncountedRuns, Uncounted
<1>8. SliceBounded'
  BY <1>2 DEF SliceBounded, SchedulerOrders, MaxSlice, Slice
<1>9. QueueSorted'
  BY <1>2 DEF QueueSorted, SchedulerOrders, Sorted, Clean
<1>10. FaultsByWindow'
  <2>1. ASSUME fault' = "divide_error", hit' \cap CountWindows = {}
        PROVE  FALSE
    <3>1. running_task_count = 1 + Len(task_queue)
      BY <1>6, <2>1, CountAboveQueue
    <3>2. Len(task_queue) \in Nat /\ Len(q) \in Nat /\ count \in Int
      BY LenProperties DEF SInv, TypeOK, SchedulerType
    <3>3. count > Len(q)
      BY <3>1, <3>2
    <3> QED
      BY <1>2, <2>1, <3>3 DEF SchedulerOrders
  <2>2. ASSUME fault' = "list_corrupted", Clean'
        PROVE  FALSE
    <3>1. current \in Queued \cup woken /\ Clean /\ pc[current] \notin ListWindows
      BY <1>2, <1>5, <2>2 DEF SchedulerOrders
    <3> QED
      BY <1>1, <3>1 DEF ListsApart, CleanLists, ListWindows
  <2> QED
    BY <2>1, <2>2 DEF FaultsByWindow, Clean
<1>11. BoundedLag'
  <2> SUFFICES ASSUME Clean'
               PROVE  BoundedLag'
    BY DEF BoundedLag, Clean
  <2>1. CASE need[current]
    BY <1>2, <1>8, <2>1, LagAfterSchedule DEF SInv, SchedulerOrders
  <2>2. CASE ~need[current]
    BY <1>2, <1>5, <2>2 DEF BoundedLag, SchedulerOrders, MaxSlice, Slice
  <2> QED
    BY <2>1, <2>2
<1> QED
  BY <1>2, <1>3, <1>7, <1>8, <1>9, <1>10, <1>11 DEF OInv

LEMMA OInvHPET_handler ==
  ASSUME SInv, SInv', OInv, fault = "none", HPET_handler
  PROVE  OInv' /\ (Alive' => Abstract!RetFromIntr(state, Queued))
<1> DEFINE slice == CPU_exec_task_jiffies - Charge
           vr    == [vrun_time EXCEPT ![current] = @ + Charge]
           need  == [need_schedule EXCEPT ![current] = @ \/ slice <= 0]
           q     == task_queue
<1>1. /\ RetFromIntr(state, need, vr, q, running_task_count, slice)
      /\ Interrupted /\ UNCHANGED <<wait_list, pc, inserting, before, loaded>>
  BY DEF HPET_handler
<1>2. Charge \in {1, 2}
  BY DEF Charge
<1>3. /\ CPU_exec_task_jiffies \in Int /\ vrun_time \in [AllTasks -> Nat]
      /\ need_schedule \in [AllTasks -> BOOLEAN] /\ current \in AllTasks
      /\ task_queue \in Seq(Tasks) /\ Queued = ToSet(task_queue)
      /\ CPU_exec_task_jiffies <= MaxSlice /\ MaxSlice \in Nat
      /\ ListsApart
  BY SliceAtMost DEF SInv, TypeOK, OInv, SliceBounded, Alive, Queued, MaxSlice, Slice
<1>4. slice \in Int /\ slice < CPU_exec_task_jiffies /\ slice <= MaxSlice
  BY <1>2, <1>3
<1>5. vr \in [AllTasks -> Nat] /\ need \in [AllTasks -> BOOLEAN]
  BY <1>2, <1>3
<1>6. SchedulerType(state, need, vr, q, running_task_count, slice)
  BY <1>4, <1>5 DEF SInv, TypeOK, SchedulerType
<1>7. \A t \in AllTasks : t # current => vr[t] = vrun_time[t]
  BY <1>3
<1>8. ASSUME Clean
      PROVE  current \notin Queued /\ Sorted(q, vr)
  <2>1. current \notin Queued /\ Sorted(q, vrun_time)
    BY <1>3, <1>8, SortedWhenClean DEF ListsApart, CleanLists, OInv
  <2>2. \A i \in DOMAIN q : q[i] \in AllTasks /\ q[i] # current
    BY <1>3, <2>1, ListsOfTasks DEF Queued, ToSet
  <2> QED
    BY <1>7, <2>1, <2>2 DEF Sorted
<1>9. Clean' => Clean
  BY <1>1 DEF Interrupted, Clean
<1>10. ASSUME ~need[current], Clean, q # <<>>, pc[current] \notin CountWindows
       PROVE  vr[current] + Max({slice, 0}) <= vr[Head(q)] + MaxSlice
  <2>1. ~need_schedule[current] /\ slice > 0
    <3>1. need[current] = (need_schedule[current] \/ slice <= 0)
      BY <1>3, Zenon
    <3> HIDE DEF need, slice
    <3>2. ~need_schedule[current] /\ ~(slice <= 0)
      BY <1>10, <3>1
    <3> QED
      BY <1>4, <3>2
  <2>2. vrun_time[current] + Max({CPU_exec_task_jiffies, 0})
          <= vrun_time[Head(task_queue)] + MaxSlice
    BY <1>10, <2>1 DEF OInv, BoundedLag, Clean
  <2>3. Max({slice, 0}) = slice /\ Max({CPU_exec_task_jiffies, 0}) = CPU_exec_task_jiffies
    BY <1>3, <1>4, <2>1, MaxWithZero
  <2>4. vr[Head(q)] = vrun_time[Head(q)] /\ vrun_time[Head(q)] \in Nat
    <3>1. Head(q) \in AllTasks /\ Head(q) \in Queued
      BY <1>3, <1>10, FirstEntry DEF AllTasks
    <3> QED
      BY <1>3, <1>7, <1>8, <1>10, <3>1
  <2>5. vr[current] = vrun_time[current] + Charge /\ vrun_time[current] \in Nat
    BY <1>3
  <2> QED
    BY <1>2, <1>3, <2>2, <2>3, <2>4, <2>5
<1>11. /\ running_task_count - Len(q) = running_task_count - Len(task_queue)
       /\ {} \in SUBSET Tasks /\ IsInjective(q) /\ wait_list' = wait_list
  BY <1>1, <1>3 DEF ListsApart
<1> HIDE DEF slice, vr, need
<1>12. /\ OInv'
       /\ Alive' => Abstract!RetFromIntr(state, Queued \cup {})
  BY <1>1, <1>3, <1>4, <1>6, <1>8, <1>9, <1>10, <1>11, OInvAfterInterrupt
<1> QED
  BY <1>12

LEMMA OInvKeyboard_handler ==
  ASSUME SInv, SInv', OInv, fault = "none", Keyboard_handler
  PROVE  /\ OInv'
         /\ Alive' => \/ Abstract!RetFromIntr(state, Queued)
                      \/ \E t \in Tasks : Abstract!WakeAndReturn(t)
<1>1. Interrupted /\ UNCHANGED <<pc, inserting, before, loaded>>
  BY DEF Keyboard_handler
<1>2. /\ CPU_exec_task_jiffies \in Int /\ vrun_time \in [AllTasks -> Nat]
      /\ need_schedule \in [AllTasks -> BOOLEAN] /\ current \in AllTasks
      /\ task_queue \in Seq(Tasks) /\ Queued = ToSet(task_queue) /\ wait_list \in Seq(Tasks)
      /\ state \in [AllTasks -> States] /\ running_task_count \in Int
      /\ CPU_exec_task_jiffies <= MaxSlice
      /\ ListsApart /\ Len(task_queue) \in Nat
  BY LenProperties DEF SInv, TypeOK, OInv, SliceBounded, Alive, Queued
<1>3. Clean' => Clean /\ pc[current] \notin ListWindows
  BY <1>1 DEF Interrupted, Clean, ListWindows, Windows
<1>4. Clean => Sorted(task_queue, vrun_time)
  BY SortedWhenClean DEF OInv
<1>5. CASE /\ RetFromIntr(state, need_schedule, vrun_time, task_queue,
                          running_task_count, CPU_exec_task_jiffies)
           /\ UNCHANGED wait_list
  <2>1. SchedulerType(state, need_schedule, vrun_time, task_queue,
                      running_task_count, CPU_exec_task_jiffies)
    BY DEF SInv, TypeOK, SchedulerType
  <2>2. /\ running_task_count - Len(task_queue) = running_task_count - Len(task_queue)
        /\ {} \in SUBSET Tasks /\ IsInjective(task_queue) /\ wait_list' = wait_list
    BY <1>2, <1>5 DEF ListsApart
  <2>3. ~need_schedule[current] /\ Clean /\ task_queue # <<>> /\ pc[current] \notin CountWindows =>
          vrun_time[current] + Max({CPU_exec_task_jiffies, 0})
            <= vrun_time[Head(task_queue)] + MaxSlice
    BY DEF OInv, BoundedLag, Clean
  <2>4. /\ OInv'
        /\ Alive' => Abstract!RetFromIntr(state, Queued \cup {})
    BY <1>1, <1>2, <1>3, <1>4, <1>5, <2>1, <2>2, <2>3, OInvAfterInterrupt
  <2> QED
    BY <2>4
<1>6. CASE /\ Sleeper \in Tasks \ ToSet(task_queue)
           /\ wait_list' = Tail(wait_list)
           /\ RetFromIntr([state EXCEPT ![Sleeper] = "RUNNING"],
                          [need_schedule EXCEPT ![current] = TRUE], vrun_time,
                          Insert(task_queue, vrun_time, Sleeper),
                          running_task_count + 1, CPU_exec_task_jiffies)
  <2> DEFINE st   == [state EXCEPT ![Sleeper] = "RUNNING"]
             need == [need_schedule EXCEPT ![current] = TRUE]
             q    == Insert(task_queue, vrun_time, Sleeper)
  <2>1. /\ Sleeper \in Tasks /\ Sleeper \notin ToSet(task_queue) /\ Sleeper # NoTask
        /\ Sleeper # Idle /\ Sleeper \in AllTasks /\ {Sleeper} \in SUBSET Tasks
    BY <1>6, TasksAssumption DEF AllTasks
  <2>2. wait_list # <<>> /\ state[Sleeper] = "UNINTERRUPTIBLE" /\ Sleeper = Head(wait_list)
    BY <2>1 DEF Sleeper
  <2>3. /\ ToSet(wait_list) = {Sleeper} \cup ToSet(wait_list')
        /\ IsInjective(wait_list) =>
             IsInjective(wait_list') /\ {Sleeper} \cap ToSet(wait_list') = {}
    BY <1>2, <1>6, <2>2, FirstEntry, FirstApart
  <2>4. /\ q \in Seq(Tasks) /\ Len(q) = Len(task_queue) + 1
        /\ ToSet(q) = ToSet(task_queue) \cup {Sleeper}
    <3>1. Counted(Sleeper) = 1 /\ {Sleeper} \ {Idle} = {Sleeper}
      BY <2>1 DEF Counted
    <3> QED
      BY <1>2, <2>1, <3>1, InsertProperties
  <2>5. /\ IsInjective(q)
        /\ Sorted(task_queue, vrun_time) => Sorted(q, vrun_time)
    BY <1>2, <2>1, InsertOrder DEF ListsApart
  <2>6. /\ st \in [AllTasks -> States] /\ need \in [AllTasks -> BOOLEAN]
        /\ need[current]
    BY <1>2 DEF States
  <2>7. \A t \in Tasks : st[t] = IF t \in {Sleeper} THEN "RUNNING" ELSE state[t]
    BY <1>2 DEF AllTasks
  <2>8. RetFromIntr(st, need, vrun_time, q, running_task_count + 1, CPU_exec_task_jiffies)
    BY <1>6
  <2> HIDE DEF st, need, q
  <2>9. SchedulerType(st, need, vrun_time, q, running_task_count + 1, CPU_exec_task_jiffies)
    BY <1>2, <2>4, <2>6 DEF SchedulerType
  <2>10. (running_task_count + 1) - Len(q) = running_task_count - Len(task_queue)
    BY <1>2, <2>4
  <2>11. ToSet(q) = Queued \cup {Sleeper}
    BY <1>2, <2>4
  <2>12. Clean' => Sorted(q, vrun_time)
    BY <1>3, <1>4, <2>5
  <2>13. /\ OInv'
         /\ Alive' => Abstract!RetFromIntr(st, Queued \cup {Sleeper})
    BY <1>1, <1>2, <2>1, <2>2, <2>3, <2>5, <2>6, <2>7, <2>8, <2>9, <2>10, <2>11, <2>12,
       OInvAfterInterrupt
  <2>14. Alive' => Abstract!WakeAndReturn(Sleeper)
    BY <1>2, <2>1, <2>13 DEF Abstract!WakeAndReturn, st
  <2> QED
    BY <2>1, <2>13, <2>14
<1>7. CASE /\ Sleeper \in ToSet(task_queue)
           /\ fault' = "list_corrupted"
           /\ UNCHANGED <<current, state, need_schedule, vrun_time, task_queue,
                          running_task_count, CPU_exec_task_jiffies, wait_list>>
  <2>1. ~Alive' /\ fault' # "divide_error"
    BY <1>7 DEF Alive
  <2>2. ~Clean
    <3>1. Sleeper \in Queued /\ Sleeper \in Tasks
      BY <1>2, <1>7, ListsOfTasks
    <3>2. wait_list # <<>> /\ state[Sleeper] = "UNINTERRUPTIBLE"
      BY <3>1, TasksAssumption DEF Sleeper
    <3> QED
      BY <1>2, <3>1, <3>2 DEF ListsApart, CleanLists
  <2>3. ~Clean'
    BY <1>3, <2>2
  <2> QED
    BY <1>7, <2>1, <2>3 DEF OInv, SliceBounded, FaultsByWindow, QueueSorted, BoundedLag,
                            Clean, MaxSlice, Slice
<1> QED
  BY <1>5, <1>6, <1>7 DEF Keyboard_handler

-----------------------------------------------------------------------------
(* The steps of the running task *)

LEMMA GotoStep ==
  ASSUME SInv, NEW here, NEW next \in PCs, Goto(here, next)
  PROVE  /\ pc[current] = here /\ pc'[current] = next /\ current \in AllTasks
         /\ \A t \in AllTasks : t # current => pc'[t] = pc[t]
BY DEF Goto, SInv, TypeOK

\* A step that leaves the queue, its order and the slice alone.
LEMMA OrderFrame ==
  ASSUME SInv, OInv, UNCHANGED <<current, task_queue, CPU_exec_task_jiffies, hit>>,
         \A t \in Queued \cup {current} : vrun_time'[t] = vrun_time[t],
         ~need_schedule'[current] /\ pc'[current] \notin CountWindows =>
           ~need_schedule[current] /\ pc[current] \notin CountWindows
  PROVE  SliceBounded' /\ QueueSorted' /\ BoundedLag'
<1>1. \A i \in DOMAIN task_queue : vrun_time'[task_queue[i]] = vrun_time[task_queue[i]]
  BY DEF Queued, ToSet
<1>2. task_queue # <<>> => vrun_time'[Head(task_queue)] = vrun_time[Head(task_queue)]
  <2>1. task_queue # <<>> => Head(task_queue) \in Queued
    BY FirstEntry DEF SInv, TypeOK, Queued
  <2> QED
    BY <2>1
<1>3. SliceBounded' /\ QueueSorted'
  BY <1>1 DEF OInv, SliceBounded, MaxSlice, Slice, QueueSorted
<1>4. BoundedLag'
  BY <1>2 DEF OInv, BoundedLag, MaxSlice, Slice
<1> QED
  BY <1>3, <1>4

LEMMA OInvSleepSetState ==
  ASSUME SInv, OInv, fault = "none", SleepSetState
  PROVE  OInv' /\ Abstract!SetState
<1>1. /\ current # Idle /\ pc[current] = "run" /\ pc'[current] = "sleep_link"
      /\ \A t \in AllTasks : t # current => pc'[t] = pc[t]
      /\ UNCHANGED <<current, need_schedule, vrun_time, task_queue, wait_list,
                     CPU_exec_task_jiffies, fault, inserting, before, hit>>
      /\ state' = [state EXCEPT ![current] = "UNINTERRUPTIBLE"]
  BY GotoStep DEF SleepSetState, PCs, Windows, queueVars
<1>2. /\ Queued \subseteq Tasks /\ ToSet(wait_list) \subseteq Tasks
      /\ current \in Tasks /\ AllTasks = Tasks \cup {Idle} /\ Idle \notin Tasks
      /\ \A p \in Forking : inserting[p] \in Tasks
      /\ Queued' = Queued /\ state'[current] = "UNINTERRUPTIBLE"
      /\ \A t \in AllTasks : t # current => state'[t] = state[t]
  BY <1>1, ListsOfTasks DEF Queued
<1>3. Forking' = Forking /\ current \notin Forking
  BY <1>1, <1>2 DEF Forking
<1>4. BeingForked' = BeingForked
  BY <1>1, <1>3 DEF BeingForked, Forking
<1>5. \A t \in Tasks : Fresh(t) => Fresh(t)' /\ t # current /\ state'[t] = state[t]
  BY <1>1, <1>2 DEF Fresh
<1>6. ListsApart /\ UncountedRuns
  BY DEF OInv, Alive
<1>7. NewTasksApart'
  <2>1. \A t \in Tasks : state'[t] = "NONE" => Fresh(t)' /\ t \notin BeingForked'
    BY <1>2, <1>4, <1>5, <1>6 DEF ListsApart, NewTasksApart
  <2>2. \A p \in Forking : pc'[p] = pc[p] /\ inserting'[p] = inserting[p]
    BY <1>1, <1>2, <1>3 DEF Forking
  <2> QED
    BY <1>2, <1>3, <1>5, <1>6, <2>1, <2>2 DEF ListsApart, NewTasksApart
<1>8. SleepersKnown'
  BY <1>1, <1>2, <1>4, <1>6 DEF ListsApart, SleepersKnown
<1>9. CleanLists'
  <2> SUFFICES ASSUME Clean
               PROVE  CleanLists'
    BY <1>1 DEF CleanLists, Clean
  <2>1. \A tsk : Successor(tsk)' = Successor(tsk)
    BY <1>1 DEF Successor
  <2> QED
    BY <1>1, <1>2, <1>6, <2>1 DEF ListsApart, CleanLists
<1>10. UncountedRuns'
  BY <1>1, <1>2, <1>6 DEF UncountedRuns, Uncounted, CountWindows
<1>11. SliceBounded' /\ QueueSorted' /\ BoundedLag'
  BY <1>1, OrderFrame DEF CountWindows
<1> QED
  BY <1>1, <1>6, <1>7, <1>8, <1>9, <1>10, <1>11
  DEF OInv, ListsApart, FaultsByWindow, SleepSetState, queueVars, Abstract!SetState

LEMMA OInvSleepLink ==
  ASSUME SInv, OInv, fault = "none", SleepLink
  PROVE  OInv' /\ UNCHANGED <<current, state, task_queue>>
<1>1. /\ pc[current] = "sleep_link" /\ pc'[current] = "sleep_switch"
      /\ \A t \in AllTasks : t # current => pc'[t] = pc[t]
      /\ UNCHANGED <<current, state, need_schedule, vrun_time, task_queue,
                     CPU_exec_task_jiffies, inserting, before, hit>>
      /\ wait_list' = Append(wait_list, current)
      /\ fault' = IF current \in ToSet(wait_list) THEN "list_corrupted" ELSE "none"
  BY GotoStep DEF SleepLink, PCs, Windows
<1>2. /\ Queued \subseteq Tasks /\ ToSet(wait_list) \subseteq Tasks
      /\ current \in Tasks /\ AllTasks = Tasks \cup {Idle} /\ Idle \notin Tasks
      /\ \A p \in Forking : inserting[p] \in Tasks
      /\ Queued' = Queued
  BY <1>1, ListsOfTasks DEF Queued, SInv, InsertersHaveChild
<1>3. /\ ToSet(wait_list') = ToSet(wait_list) \cup {current}
      /\ IsInjective(wait_list) /\ current \notin ToSet(wait_list) => IsInjective(wait_list')
  BY <1>1, <1>2, AppendEntries DEF SInv, TypeOK
<1>4. Forking' = Forking /\ current \notin Forking
  BY <1>1, <1>2 DEF Forking
<1>5. BeingForked' = BeingForked
  BY <1>1, <1>4 DEF BeingForked, Forking
<1>6. \A t \in Tasks : Fresh(t) => Fresh(t)'
  BY <1>1, <1>2, <1>3 DEF Fresh
<1>7. ListsApart /\ UncountedRuns
  BY DEF OInv, Alive
<1>8. Clean => current \notin ToSet(wait_list)
  BY <1>1, <1>2, <1>7 DEF ListsApart, CleanLists
<1>9. NewTasksApart'
  <2>1. \A p \in Forking : pc'[p] = pc[p]
    BY <1>1, <1>2, <1>4 DEF Forking
  <2> QED
    BY <1>1, <1>2, <1>4, <1>5, <1>6, <1>7, <2>1 DEF ListsApart, NewTasksApart
<1>10. SleepersKnown'
  BY <1>1, <1>2, <1>3, <1>5, <1>7 DEF ListsApart, SleepersKnown
<1>11. CleanLists'
  <2> SUFFICES ASSUME Clean
               PROVE  CleanLists'
    BY <1>1 DEF CleanLists, Clean
  <2>1. \A tsk : Successor(tsk)' = Successor(tsk)
    BY <1>1 DEF Successor
  <2> QED
    BY <1>1, <1>2, <1>3, <1>7, <1>8, <2>1 DEF ListsApart, CleanLists
<1>12. UncountedRuns'
  BY <1>1, <1>2, <1>7 DEF UncountedRuns, Uncounted, CountWindows
<1>13. SliceBounded' /\ QueueSorted' /\ BoundedLag'
  BY <1>1, OrderFrame DEF CountWindows
<1>14. FaultsByWindow'
  BY <1>1, <1>8 DEF FaultsByWindow, Clean
<1> QED
  BY <1>1, <1>7, <1>9, <1>10, <1>11, <1>12, <1>13, <1>14 DEF OInv, ListsApart

LEMMA OInvSleepSwitch ==
  ASSUME SInv, SInv', OInv, fault = "none", SleepSwitch
  PROVE  OInv' /\ (Alive' => Abstract!RetFromIntr(state, Queued))
<1>1. /\ pc[current] = "sleep_switch" /\ pc'[current] = "run"
      /\ \A t \in AllTasks : t # current => pc'[t] = pc[t]
      /\ UNCHANGED <<wait_list, inserting, before, hit>>
      /\ Reschedule(state, need_schedule, vrun_time, task_queue,
                    running_task_count, CPU_exec_task_jiffies)
  BY GotoStep DEF SleepSwitch, PCs
<1>2. /\ Queued \subseteq Tasks /\ ToSet(wait_list) \subseteq Tasks
      /\ current \in Tasks /\ AllTasks = Tasks \cup {Idle} /\ Idle \notin Tasks
      /\ \A p \in Forking : inserting[p] \in Tasks
      /\ current # Idle
  BY <1>1, ListsOfTasks DEF SInv, InsertersHaveChild
<1>3. ListsApart /\ UncountedRuns
  BY DEF OInv, Alive
<1>4. SchedulerType(state, need_schedule, vrun_time, task_queue,
                    running_task_count, CPU_exec_task_jiffies)
  BY DEF SInv, TypeOK, SchedulerType
<1>5. /\ SchedulerOrders(state, vrun_time, task_queue, running_task_count, CPU_exec_task_jiffies)
      /\ state[current] # "RUNNING" /\ current \notin Queued => current' # current
      /\ Sorted(task_queue, vrun_time) =>
           \A t \in ToSet(task_queue') : vrun_time[current'] <= vrun_time[t]
      /\ Alive' => Abstract!RetFromIntr(state, Queued)
  BY <1>1, <1>2, <1>3, <1>4, RescheduleOrders DEF ListsApart, Queued, Abstract!RetFromIntr
<1>6. /\ state' = state /\ vrun_time' = vrun_time /\ IsInjective(task_queue')
      /\ \A t \in Queued' : t \in Queued \/ (t = current /\ state[t] = "RUNNING")
      /\ current' \in {Idle, current} \cup Queued
      /\ current \notin Queued => current' \notin Queued'
      /\ fault' = "list_corrupted" => current \in Queued
      /\ fault' = "divide_error" => ~(running_task_count > Len(task_queue))
      /\ CPU_exec_task_jiffies <= MaxSlice => CPU_exec_task_jiffies' <= MaxSlice
      /\ Sorted(task_queue, vrun_time) => Sorted(task_queue', vrun_time)
  BY <1>5 DEF SchedulerOrders, Queued
<1>7. Forking' = Forking /\ current \notin Forking
  BY <1>1, <1>2 DEF Forking
<1>8. BeingForked' = BeingForked
  BY <1>1, <1>7 DEF BeingForked, Forking
<1>9. \A t \in Tasks : Fresh(t) => Fresh(t)'
  BY <1>1, <1>2, <1>6 DEF Fresh
<1>10. NewTasksApart'
  <2>1. \A p \in Forking : pc'[p] = pc[p]
    BY <1>1, <1>2, <1>7 DEF Forking
  <2> QED
    BY <1>1, <1>2, <1>3, <1>6, <1>7, <1>8, <1>9, <2>1 DEF ListsApart, NewTasksApart
<1>11. SleepersKnown'
  BY <1>1, <1>2, <1>3, <1>6, <1>8 DEF ListsApart, SleepersKnown
<1>12. Clean => current \notin Queued /\ state[current] = "UNINTERRUPTIBLE" /\ current' # current
  BY <1>1, <1>2, <1>3, <1>5 DEF ListsApart, CleanLists
<1>13. CleanLists'
  <2> SUFFICES ASSUME Clean
               PROVE  CleanLists'
    BY <1>1 DEF CleanLists, Clean
  <2>1. \A t \in Queued' : t \in Queued /\ state'[t] = "RUNNING"
    BY <1>3, <1>6, <1>12 DEF ListsApart, CleanLists
  <2>2. \A t \in ToSet(wait_list) : state'[t] = "UNINTERRUPTIBLE" /\ t # current'
    BY <1>2, <1>3, <1>6, <1>12 DEF ListsApart, CleanLists
  <2>3. \A t \in Tasks :
          /\ pc'[t] \notin {"sleep_switch", "insert_link"}
          /\ pc'[t] = "sleep_link" => state'[t] = "UNINTERRUPTIBLE" /\ t \notin ToSet(wait_list)
    BY <1>1, <1>2, <1>3, <1>6 DEF ListsApart, CleanLists
  <2> QED
    BY <1>1, <1>3, <1>6, <1>12, <2>1, <2>2, <2>3 DEF ListsApart, CleanLists
<1>14. UncountedRuns'
  BY <1>1, <1>2, <1>3 DEF UncountedRuns, Uncounted, CountWindows
<1>15. SliceBounded' /\ QueueSorted'
  BY <1>1, <1>6, SortedWhenClean
  DEF OInv, SliceBounded, MaxSlice, Slice, QueueSorted, Sorted, Clean
<1>16. BoundedLag'
  <2> SUFFICES ASSUME Clean
               PROVE  BoundedLag'
    BY <1>1 DEF BoundedLag, Clean
  <2>1. Sorted(task_queue, vrun_time)
    BY SortedWhenClean DEF OInv
  <2> QED
    BY <1>5, <1>6, <1>15, <2>1, LagAfterSchedule DEF SInv
<1>17. FaultsByWindow'
  <2>1. fault' = "list_corrupted" => ~Clean
    BY <1>6, <1>12
  <2>2. ASSUME hit \cap CountWindows = {}
        PROVE  fault' # "divide_error"
    <3>1. running_task_count = 1 + Len(task_queue) /\ Len(task_queue) \in Nat
      BY <1>1, <2>2, CountAboveQueue, LenProperties DEF CountWindows, SInv, TypeOK
    <3> QED
      BY <1>6, <3>1
  <2> QED
    BY <1>1, <2>1, <2>2 DEF FaultsByWindow, Clean
<1> QED
  BY <1>3, <1>5, <1>6, <1>10, <1>11, <1>13, <1>14, <1>15, <1>16, <1>17 DEF OInv, ListsApart

LEMMA OInvFork ==
  ASSUME SInv, OInv, fault = "none", NEW child \in Tasks, Fork(child)
  PROVE  OInv' /\ Abstract!Create(child)
<1>1. /\ current # Idle /\ pc[current] = "run" /\ pc'[current] = "fork"
      /\ \A t \in AllTasks : t # current => pc'[t] = pc[t]
      /\ UNCHANGED <<current, task_queue, wait_list, CPU_exec_task_jiffies, fault,
                     before, hit>>
      /\ state[child] = "NONE"
      /\ state' = [state EXCEPT ![child] = "UNINTERRUPTIBLE"]
      /\ vrun_time' = [vrun_time EXCEPT ![child] = vrun_time[current]]
      /\ need_schedule' = [need_schedule EXCEPT ![child] = need_schedule[current]]
      /\ inserting' = [inserting EXCEPT ![current] = child]
  BY GotoStep DEF Fork, PCs, queueVars
<1>2. /\ Queued \subseteq Tasks /\ ToSet(wait_list) \subseteq Tasks
      /\ current \in Tasks /\ AllTasks = Tasks \cup {Idle} /\ Idle \notin Tasks
      /\ \A p \in Forking : inserting[p] \in Tasks
      /\ Queued' = Queued
  BY <1>1, ListsOfTasks DEF Queued
<1>3. ListsApart /\ UncountedRuns
  BY DEF OInv, Alive
<1>4. Fresh(child) /\ child \notin BeingForked /\ child # current /\ child \notin Queued
  BY <1>1, <1>3 DEF ListsApart, NewTasksApart, Fresh
<1>5. /\ state'[child] = "UNINTERRUPTIBLE" /\ inserting'[current] = child
      /\ \A t \in AllTasks : t # child => /\ state'[t] = state[t]
                                          /\ vrun_time'[t] = vrun_time[t]
                                          /\ need_schedule'[t] = need_schedule[t]
      /\ \A t \in AllTasks : t # current => inserting'[t] = inserting[t]
  BY <1>1, <1>2 DEF SInv, TypeOK
<1>6. Forking' = Forking \cup {current} /\ current \notin Forking
  BY <1>1, <1>2 DEF Forking
<1>7. \A p \in Forking : /\ p \in AllTasks /\ p # current
                         /\ pc'[p] = pc[p] /\ inserting'[p] = inserting[p]
                         /\ inserting[p] \in BeingForked /\ inserting[p] # child
  BY <1>1, <1>2, <1>4, <1>5, <1>6 DEF Forking, BeingForked
<1>8. BeingForked' = BeingForked \cup {child}
  <2>1. BeingForked = {inserting[p] : p \in Forking}
    BY DEF BeingForked, Forking
  <2>2. BeingForked' = {inserting'[p] : p \in Forking'}
    BY DEF BeingForked, Forking
  <2> QED
    BY <1>5, <1>6, <1>7, <2>1, <2>2
<1>9. \A t \in Tasks : Fresh(t) => Fresh(t)'
  BY <1>1, <1>2 DEF Fresh
<1>10. NewTasksApart'
  <2>1. \A t \in Tasks : state'[t] = "NONE" => Fresh(t)' /\ t \notin BeingForked'
    BY <1>2, <1>3, <1>5, <1>8, <1>9 DEF ListsApart, NewTasksApart
  <2>2. \A p \in Forking' :
          /\ Fresh(inserting[p])'
          /\ state'[inserting'[p]] = IF pc'[p] = "fork" THEN "UNINTERRUPTIBLE" ELSE "RUNNING"
    <3>1. Fresh(inserting[current])' /\ state'[inserting'[current]] = "UNINTERRUPTIBLE"
      BY <1>1, <1>4, <1>5, <1>9 DEF Fresh
    <3>2. ASSUME NEW p \in Forking
          PROVE  /\ Fresh(inserting[p])'
                 /\ state'[inserting'[p]] = IF pc'[p] = "fork" THEN "UNINTERRUPTIBLE" ELSE "RUNNING"
      <4>1. Fresh(inserting[p])'
        BY <1>2, <1>3, <1>7, <1>9 DEF ListsApart, NewTasksApart, Fresh
      <4>2. state'[inserting'[p]] = state[inserting[p]]
        BY <1>2, <1>5, <1>7
      <4> QED
        BY <1>3, <1>7, <4>1, <4>2 DEF ListsApart, NewTasksApart
    <3> QED
      BY <1>1, <1>6, <3>1, <3>2
  <2>3. \A p, r \in Forking' : inserting'[p] = inserting'[r] => p = r
    BY <1>3, <1>5, <1>6, <1>7 DEF ListsApart, NewTasksApart
  <2> QED
    BY <2>1, <2>2, <2>3 DEF NewTasksApart
<1>11. SleepersKnown'
  BY <1>1, <1>2, <1>3, <1>5, <1>8 DEF ListsApart, SleepersKnown
<1>12. CleanLists'
  <2> SUFFICES ASSUME Clean
               PROVE  CleanLists'
    BY <1>1 DEF CleanLists, Clean
  <2>1. \A t \in Queued \cup ToSet(wait_list) : t # child /\ state'[t] = state[t]
    BY <1>2, <1>4, <1>5 DEF Fresh
  <2>2. \A t \in Tasks : /\ pc'[t] # "insert_link"
                         /\ pc'[t] = "sleep_link" => t \notin ToSet(wait_list)
                         /\ pc'[t] \in {"sleep_link", "sleep_switch"} =>
                              state'[t] = "UNINTERRUPTIBLE" /\ t # current /\ pc'[t] = pc[t]
    BY <1>1, <1>2, <1>3, <1>5 DEF ListsApart, CleanLists
  <2> QED
    BY <1>1, <1>2, <1>3, <2>1, <2>2 DEF ListsApart, CleanLists
<1>13. UncountedRuns'
  BY <1>1, <1>2, <1>3 DEF UncountedRuns, Uncounted, CountWindows
<1>14. SliceBounded' /\ QueueSorted' /\ BoundedLag'
  <2>1. \A t \in Queued \cup {current} : vrun_time'[t] = vrun_time[t]
    BY <1>2, <1>4, <1>5
  <2>2. need_schedule'[current] = need_schedule[current]
    BY <1>2, <1>4, <1>5
  <2> QED
    BY <1>1, <2>1, <2>2, OrderFrame DEF CountWindows
<1> QED
  BY <1>1, <1>3, <1>10, <1>11, <1>12, <1>13, <1>14
  DEF OInv, ListsApart, FaultsByWindow, Abstract!Create

LEMMA OInvInsertFind ==
  ASSUME SInv, OInv, fault = "none", InsertFind
  PROVE  OInv' /\ \E t \in Tasks : Abstract!MakeRunnable(t)
<1> DEFINE tsk == inserting[current]
<1>1. /\ pc[current] = "fork" /\ pc'[current] = "insert_link"
      /\ \A t \in AllTasks : t # current => pc'[t] = pc[t]
      /\ UNCHANGED <<current, task_queue, wait_list, CPU_exec_task_jiffies, fault,
                     inserting, vrun_time, need_schedule, hit>>
      /\ state' = [state EXCEPT ![tsk] = "RUNNING"]
      /\ before' = [before EXCEPT ![current] = Successor(tsk)]
  BY GotoStep DEF InsertFind, PCs, Windows, queueVars, Successor
<1>2. /\ Queued \subseteq Tasks /\ ToSet(wait_list) \subseteq Tasks
      /\ current \in Tasks /\ AllTasks = Tasks \cup {Idle} /\ Idle \notin Tasks
      /\ \A p \in Forking : inserting[p] \in Tasks
      /\ Queued' = Queued
  BY <1>1, ListsOfTasks DEF Queued, SInv, InsertersHaveChild
<1>3. ListsApart /\ UncountedRuns
  BY DEF OInv, Alive
<1>4. Forking' = Forking /\ current \in Forking
  BY <1>1, <1>2 DEF Forking
<1>5. BeingForked' = BeingForked
  BY <1>1, <1>4 DEF BeingForked, Forking
<1>6. /\ tsk \in Tasks /\ Fresh(tsk) /\ state[tsk] = "UNINTERRUPTIBLE"
      /\ tsk \in BeingForked
  <2>1. BeingForked = {inserting[p] : p \in Forking}
    BY DEF BeingForked, Forking
  <2> QED
    BY <1>1, <1>2, <1>3, <1>4, <2>1 DEF ListsApart, NewTasksApart
<1> HIDE DEF tsk
<1>7. /\ state'[tsk] = "RUNNING" /\ before'[current] = Successor(tsk)
      /\ \A t \in AllTasks : t # tsk => state'[t] = state[t]
  BY <1>1, <1>2, <1>6 DEF SInv, TypeOK
<1>8. \A t \in Tasks : Fresh(t) => Fresh(t)'
  BY <1>1, <1>2 DEF Fresh
<1>9. NewTasksApart'
  <2>1. \A t \in Tasks : state'[t] = "NONE" => Fresh(t)' /\ t \notin BeingForked'
    BY <1>2, <1>3, <1>5, <1>7, <1>8 DEF ListsApart, NewTasksApart
  <2>2. ASSUME NEW p \in Forking
        PROVE  /\ Fresh(inserting[p])'
               /\ state'[inserting[p]] = IF pc'[p] = "fork" THEN "UNINTERRUPTIBLE" ELSE "RUNNING"
    <3>1. Fresh(inserting[p])'
      BY <1>1, <1>2, <1>3, <1>8 DEF ListsApart, NewTasksApart, Fresh
    <3>2. CASE p = current
      BY <1>1, <1>7, <3>1, <3>2 DEF tsk
    <3>3. CASE p # current
      <4>1. inserting[p] # tsk
        BY <1>3, <1>4, <3>3 DEF ListsApart, NewTasksApart, tsk
      <4>2. pc'[p] = pc[p] /\ state'[inserting[p]] = state[inserting[p]]
        BY <1>1, <1>2, <1>7, <3>3, <4>1 DEF Forking
      <4> QED
        BY <1>3, <3>1, <4>2 DEF ListsApart, NewTasksApart
    <3> QED
      BY <3>2, <3>3
  <2> QED
    BY <1>1, <1>3, <1>4, <2>1, <2>2 DEF ListsApart, NewTasksApart
<1>10. SleepersKnown'
  BY <1>1, <1>2, <1>3, <1>5, <1>7 DEF ListsApart, SleepersKnown
<1>11. CleanLists'
  <2> SUFFICES ASSUME Clean
               PROVE  CleanLists'
    BY <1>1 DEF CleanLists, Clean
  <2>1. \A t : Successor(t)' = Successor(t)
    BY <1>1 DEF Successor
  <2>2. \A t \in Queued \cup ToSet(wait_list) : t # tsk /\ state'[t] = state[t]
    BY <1>2, <1>6, <1>7 DEF Fresh
  <2>3. \A t \in Tasks :
          /\ pc'[t] = "insert_link" => t = current /\ before'[t] = Successor(inserting[t])
          /\ pc'[t] \in {"sleep_link", "sleep_switch"} => t # tsk /\ t # current
    BY <1>1, <1>2, <1>3, <1>6, <1>7 DEF ListsApart, CleanLists, Fresh, tsk
  <2> QED
    BY <1>1, <1>2, <1>3, <1>7, <2>1, <2>2, <2>3 DEF ListsApart, CleanLists
<1>12. UncountedRuns'
  BY <1>1, <1>2, <1>3 DEF UncountedRuns, Uncounted, CountWindows
<1>13. SliceBounded' /\ QueueSorted' /\ BoundedLag'
  BY <1>1, OrderFrame DEF CountWindows
<1>14. Abstract!MakeRunnable(tsk)
  BY <1>1, <1>6 DEF Abstract!MakeRunnable
<1> QED
  BY <1>1, <1>3, <1>6, <1>9, <1>10, <1>11, <1>12, <1>13, <1>14
  DEF OInv, ListsApart, FaultsByWindow

\* In a list without duplicates, the place of an entry is the only one.
LEMMA PlaceOfEntry ==
  ASSUME NEW q \in Seq(Tasks), IsInjective(q), NEW p \in 1..Len(q)
  PROVE  (CHOOSE j \in 1..Len(q) : q[j] = q[p]) = p
<1>1. DOMAIN q = 1..Len(q)
  BY LenProperties
<1>2. \A j \in 1..Len(q) : q[j] = q[p] => j = p
  BY <1>1 DEF IsInjective
<1> QED
  BY <1>2

LEMMA OInvInsertLink ==
  ASSUME SInv, SInv', OInv, fault = "none", InsertLink
  PROVE  OInv' /\ (Alive' => \E t \in Tasks : Abstract!Enqueue(t))
<1> DEFINE tmp  == before[current]
           tsk  == inserting[current]
           gone == tmp # NoTask /\ tmp \notin ToSet(task_queue)
           i    == IF tmp = NoTask THEN Len(task_queue) + 1
                   ELSE CHOOSE j \in 1..Len(task_queue) : task_queue[j] = tmp
           p0   == Place(task_queue, vrun_time, tsk)
<1>1. /\ pc[current] = "insert_link" /\ pc'[current] = "insert_load"
      /\ \A t \in AllTasks : t # current => pc'[t] = pc[t]
      /\ UNCHANGED <<current, state, need_schedule, vrun_time, CPU_exec_task_jiffies,
                     wait_list, inserting, hit>>
      /\ \/ gone /\ fault' = "list_corrupted" /\ UNCHANGED task_queue
         \/ ~gone /\ task_queue' = InsertAt(task_queue, i, tsk) /\ UNCHANGED fault
  BY GotoStep DEF InsertLink, PCs, Windows
<1>2. /\ Queued \subseteq Tasks /\ ToSet(wait_list) \subseteq Tasks
      /\ current \in Tasks /\ AllTasks = Tasks \cup {Idle} /\ Idle \notin Tasks
      /\ \A p \in Forking : inserting[p] \in Tasks
      /\ BeingForked = {inserting[p] : p \in Forking}
      /\ Queued = ToSet(task_queue)
  BY <1>1, ListsOfTasks DEF Queued, SInv, InsertersHaveChild
<1>3. ListsApart /\ UncountedRuns
  BY DEF OInv, Alive
<1>4. /\ task_queue \in Seq(Tasks) /\ Len(task_queue) \in Nat
      /\ DOMAIN task_queue = 1..Len(task_queue) /\ vrun_time \in [AllTasks -> Nat]
      /\ IsInjective(task_queue)
  BY <1>3, LenProperties DEF SInv, TypeOK, ListsApart
<1>5. Forking' = Forking \ {current} /\ current \in Forking
  BY <1>1, <1>2 DEF Forking
<1>6. /\ tsk \in Tasks /\ Fresh(tsk) /\ state[tsk] = "RUNNING"
      /\ \A p \in Forking \ {current} : inserting[p] # tsk
  BY <1>1, <1>2, <1>3, <1>5 DEF ListsApart, NewTasksApart
<1>7. p0 \in 1..Len(task_queue) + 1
  BY <1>4, <1>6, PlaceFound
\* Nothing has come between the search and the link.
<1>8. ASSUME Clean
      PROVE  ~gone /\ i = p0
  <2>1. tmp = IF p0 <= Len(task_queue) THEN task_queue[p0] ELSE NoTask
    BY <1>1, <1>2, <1>3, <1>8 DEF ListsApart, CleanLists, Successor
  <2> HIDE DEF p0, tmp
  <2>2. CASE p0 <= Len(task_queue)
    <3>1. /\ p0 \in 1..Len(task_queue) /\ tmp = task_queue[p0]
          /\ tmp \in ToSet(task_queue)
      BY <1>4, <1>7, <2>1, <2>2 DEF ToSet
    <3>2. tmp # NoTask
      BY <1>2, <3>1, TasksAssumption
    <3>3. (CHOOSE j \in 1..Len(task_queue) : task_queue[j] = tmp) = p0
      BY <1>4, <3>1, PlaceOfEntry
    <3> QED
      BY <3>1, <3>2, <3>3
  <2>3. CASE ~(p0 <= Len(task_queue))
    BY <1>4, <1>7, <2>1, <2>3
  <2> QED
    BY <2>2, <2>3
<1>9. UncountedRuns'
  BY <1>1, <1>2, <1>3 DEF UncountedRuns, Uncounted, CountWindows
<1>10. SliceBounded' /\ BoundedLag'
  BY <1>1 DEF OInv, SliceBounded, MaxSlice, Slice, BoundedLag, CountWindows
<1>11. CASE gone /\ fault' = "list_corrupted" /\ UNCHANGED task_queue
  <2>1. ~Clean /\ ~Clean'
    BY <1>1, <1>8, <1>11 DEF Clean
  <2> QED
    BY <1>10, <1>11, <2>1 DEF OInv, Alive, FaultsByWindow, QueueSorted, Clean
<1>12. CASE ~gone /\ task_queue' = InsertAt(task_queue, i, tsk) /\ UNCHANGED fault
  <2>1. i \in 1..Len(task_queue) + 1
    <3>1. CASE tmp = NoTask
      BY <1>4, <3>1
    <3>2. CASE tmp # NoTask
      <4>1. \E j \in 1..Len(task_queue) : task_queue[j] = tmp
        BY <1>4, <1>12, <3>2 DEF ToSet
      <4>2. i \in 1..Len(task_queue)
        BY <3>2, <4>1
      <4> QED
        BY <1>4, <4>2
    <3> QED
      BY <3>1, <3>2
  <2>2. Clean => i = p0
    BY <1>8
  <2>3. task_queue' = InsertAt(task_queue, i, tsk)
    BY <1>12
  <2> HIDE DEF i, tsk, tmp
  <2>4. Queued' = Queued \cup {tsk} /\ IsInjective(task_queue') /\ tsk \notin Queued
    <3>1. tsk \notin ToSet(task_queue)
      BY <1>2, <1>6 DEF Fresh
    <3>2. ToSet(InsertAt(task_queue, i, tsk)) = ToSet(task_queue) \cup {tsk}
      BY <1>4, <1>6, <2>1, EntriesOfInsertion
    <3>3. IsInjective(InsertAt(task_queue, i, tsk))
      BY <1>4, <1>6, <2>1, <3>1, InsertionApart
    <3> QED
      BY <2>3, <3>1, <3>2, <3>3 DEF Queued
  <2>5. QueueSorted'
    <3>1. ASSUME Clean
          PROVE  Sorted(task_queue', vrun_time)
      <4>1. Sorted(task_queue, vrun_time)
        BY <3>1, SortedWhenClean DEF OInv
      <4>2. task_queue' = InsertAt(task_queue, Place(task_queue, vrun_time, tsk), tsk)
        BY <2>2, <2>3, <3>1
      <4> QED
        BY <1>4, <1>6, <4>1, <4>2, InsertionSorted
    <3> QED
      BY <1>1, <3>1 DEF QueueSorted, Sorted, Clean
  <2>6. BeingForked' \subseteq BeingForked /\ BeingForked \subseteq BeingForked' \cup {tsk}
    <3>1. BeingForked' = {inserting'[p] : p \in Forking'}
      BY DEF BeingForked, Forking
    <3> QED
      BY <1>1, <1>2, <1>5, <3>1 DEF tsk
  <2>7. \A t \in Tasks : Fresh(t) /\ t # tsk => Fresh(t)'
    BY <1>1, <1>2, <2>4 DEF Fresh
  <2>8. NewTasksApart'
    <3>1. \A t \in Tasks : state'[t] = "NONE" => Fresh(t)' /\ t \notin BeingForked'
      BY <1>1, <1>3, <1>6, <2>6, <2>7 DEF ListsApart, NewTasksApart
    <3>2. \A p \in Forking' :
            /\ inserting'[p] = inserting[p] /\ inserting[p] # tsk /\ pc'[p] = pc[p]
            /\ inserting[p] \in Tasks /\ p \in Forking
      BY <1>1, <1>2, <1>5, <1>6 DEF Forking
    <3>3. \A p \in Forking' : Fresh(inserting[p])'
      BY <1>1, <1>3, <2>7, <3>2 DEF ListsApart, NewTasksApart, Fresh
    <3> QED
      BY <1>1, <1>3, <3>1, <3>2, <3>3 DEF ListsApart, NewTasksApart
  <2>9. SleepersKnown'
    BY <1>1, <1>2, <1>3, <1>6, <2>6 DEF ListsApart, SleepersKnown
  <2>10. CleanLists'
    <3> SUFFICES ASSUME Clean
                 PROVE  CleanLists'
      BY <1>1 DEF CleanLists, Clean
    <3>1. current \notin Queued' /\ \A t \in Queued' : state[t] = "RUNNING"
      BY <1>3, <1>6, <2>4 DEF ListsApart, CleanLists, Fresh
    <3>2. \A t \in Tasks : pc'[t] # "insert_link"
      BY <1>1, <1>2, <1>3 DEF ListsApart, CleanLists
    <3> QED
      BY <1>1, <1>2, <1>3, <3>1, <3>2 DEF ListsApart, CleanLists
  <2>11. Abstract!Enqueue(tsk)
    BY <1>1, <1>12, <2>4 DEF Abstract!Enqueue, Queued
  <2> QED
    BY <1>3, <1>6, <1>9, <1>10, <1>12, <2>4, <2>5, <2>8, <2>9, <2>10, <2>11
    DEF OInv, ListsApart, FaultsByWindow
<1> QED
  BY <1>1, <1>11, <1>12

\* The two steps that count an entry already linked.
LEMMA OInvCount ==
  ASSUME SInv, OInv, fault = "none", InsertLoad \/ InsertStore
  PROVE  OInv' /\ UNCHANGED <<current, state, task_queue, fault>>
<1>1. /\ pc[current] \in CountWindows
      /\ pc'[current] = "insert_store" \/ (pc'[current] = "run" /\ need_schedule'[current])
      /\ \A t \in AllTasks : t # current => pc'[t] = pc[t]
      /\ UNCHANGED <<current, state, vrun_time, task_queue, CPU_exec_task_jiffies,
                     fault, wait_list, before, hit>>
      /\ \A t \in AllTasks : t # current => inserting'[t] = inserting[t]
  <2>1. CASE InsertLoad
    BY <2>1, GotoStep DEF InsertLoad, PCs, Windows, CountWindows, queueVars
  <2>2. CASE InsertStore
    <3>1. Goto("insert_store", "run") /\ need_schedule'[current]
          /\ \A t \in AllTasks : t # current => inserting'[t] = inserting[t]
      BY <2>2 DEF InsertStore, SInv, TypeOK
    <3> QED
      BY <2>2, <3>1, GotoStep DEF InsertStore, PCs, CountWindows
  <2> QED
    BY <2>1, <2>2
<1>2. /\ Queued \subseteq Tasks /\ ToSet(wait_list) \subseteq Tasks
      /\ current \in Tasks /\ AllTasks = Tasks \cup {Idle} /\ Idle \notin Tasks
      /\ \A p \in Forking : inserting[p] \in Tasks
      /\ Queued' = Queued
  BY <1>1, ListsOfTasks DEF Queued, SInv, InsertersHaveChild, CountWindows
<1>3. ListsApart /\ UncountedRuns
  BY DEF OInv, Alive
<1>4. Forking' = Forking /\ current \notin Forking
  BY <1>1, <1>2 DEF Forking, CountWindows
<1>5. \A p \in Forking : p \in AllTasks /\ inserting'[p] = inserting[p] /\ pc'[p] = pc[p]
  BY <1>1, <1>2, <1>4 DEF Forking
<1>6. BeingForked' = BeingForked
  BY <1>4, <1>5 DEF BeingForked, Forking
<1>7. \A t \in Tasks : Fresh(t) => Fresh(t)'
  BY <1>1, <1>2 DEF Fresh
<1>8. NewTasksApart'
  <2>1. \A p \in Forking : Fresh(inserting[p])'
    BY <1>1, <1>2, <1>3, <1>5, <1>7 DEF ListsApart, NewTasksApart, Fresh
  <2> QED
    BY <1>1, <1>3, <1>4, <1>5, <1>6, <1>7, <2>1 DEF ListsApart, NewTasksApart
<1>9. SleepersKnown'
  BY <1>1, <1>2, <1>3, <1>6 DEF ListsApart, SleepersKnown, CountWindows
<1>10. CleanLists'
  <2> SUFFICES ASSUME Clean
               PROVE  CleanLists'
    BY <1>1 DEF CleanLists, Clean
  <2>1. \A t \in Tasks : pc'[t] # "insert_link"
    BY <1>1, <1>2, <1>3 DEF ListsApart, CleanLists, CountWindows
  <2> QED
    BY <1>1, <1>2, <1>3, <2>1 DEF ListsApart, CleanLists, CountWindows
<1>11. UncountedRuns'
  BY <1>1, <1>2, <1>3 DEF UncountedRuns, Uncounted
<1>12. SliceBounded' /\ QueueSorted' /\ BoundedLag'
  BY <1>1, OrderFrame DEF CountWindows
<1> QED
  BY <1>1, <1>3, <1>8, <1>9, <1>10, <1>11, <1>12 DEF OInv, ListsApart, FaultsByWindow

LEMMA OInvInit == Init => OInv /\ Abstract!DispatchInit
<1> SUFFICES ASSUME Init
             PROVE  OInv /\ Abstract!DispatchInit
  OBVIOUS
<1>1. /\ <<InitTask>> \in Seq(Tasks) /\ Len(<<InitTask>>) = 1 /\ <<InitTask>>[1] = InitTask
      /\ DOMAIN <<InitTask>> = {1} /\ ToSet(<<InitTask>>) = {InitTask}
      /\ ToSet(<<>>) = {} /\ IsInjective(<<InitTask>>) /\ IsInjective(<<>>)
      /\ Head(<<InitTask>>) = InitTask
  BY TasksAssumption DEF ToSet, IsInjective
<1>2. /\ InitTask \in Tasks /\ Idle \notin Tasks /\ AllTasks = Tasks \cup {Idle}
      /\ \A t \in AllTasks : /\ pc[t] = "run" /\ vrun_time[t] = 0
                             /\ state[t] = IF t \in {Idle, InitTask} THEN "RUNNING" ELSE "NONE"
      /\ task_queue = <<InitTask>> /\ wait_list = <<>> /\ current = Idle
      /\ hit = {} /\ fault = "none" /\ CPU_exec_task_jiffies = 4
      /\ need_schedule[Idle]
  BY TasksAssumption DEF Init, AllTasks
<1>3. Forking = {} /\ BeingForked = {} /\ Uncounted = {}
  BY <1>2 DEF Forking, BeingForked, Uncounted, CountWindows
<1>4. ListsApart /\ UncountedRuns
  BY <1>1, <1>2, <1>3 DEF ListsApart, NewTasksApart, Fresh, SleepersKnown, CleanLists,
                          Queued, UncountedRuns
<1>5. SliceBounded
  BY <1>2 DEF SliceBounded, MaxSlice, Slice, Quotient
<1>6. FaultsByWindow /\ QueueSorted /\ BoundedLag
  BY <1>1, <1>2 DEF FaultsByWindow, QueueSorted, BoundedLag
<1>7. Abstract!DispatchInit
  <2>1. state = [t \in Abstract!AllTasks |-> IF t \in {Idle, InitTask} THEN "RUNNING" ELSE "NONE"]
    BY DEF Init, AllTasks, Abstract!AllTasks
  <2> QED
    BY <1>1, <1>2, <2>1 DEF Abstract!DispatchInit
<1> QED
  BY <1>4, <1>5, <1>6, <1>7 DEF OInv

\* Every step keeps the invariant and is a step of the abstraction or none.
LEMMA OInvStep ==
  SInv /\ SInv' /\ OInv /\ [Next]_vars => OInv' /\ [Abstract!DispatchNext]_(Abstract!dispatchVars)
<1> SUFFICES ASSUME SInv, SInv', OInv, [Next]_vars
             PROVE  OInv' /\ [Abstract!DispatchNext]_(Abstract!dispatchVars)
  OBVIOUS
<1>0. /\ Alive <=> fault = "none"
      /\ Alive' <=> fault' = "none"
  BY DEF Alive
<1> USE <1>0 DEF Abstract!DispatchNext, Abstract!dispatchVars, Abstract!Break, Queued
<1>1. CASE fault = "none" /\ HPET_handler
  BY <1>1, OInvHPET_handler
<1>2. CASE fault = "none" /\ Keyboard_handler
  BY <1>2, OInvKeyboard_handler
<1>3. CASE fault = "none" /\ SleepSetState
  BY <1>3, OInvSleepSetState
<1>4. CASE fault = "none" /\ SleepLink
  BY <1>4, OInvSleepLink
<1>5. CASE fault = "none" /\ SleepSwitch
  BY <1>5, OInvSleepSwitch
<1>6. CASE fault = "none" /\ \E child \in Tasks : Fork(child)
  BY <1>6, OInvFork
<1>7. CASE fault = "none" /\ InsertFind
  BY <1>7, OInvInsertFind
<1>8. CASE fault = "none" /\ InsertLink
  BY <1>8, OInvInsertLink
<1>9. CASE fault = "none" /\ (InsertLoad \/ InsertStore)
  BY <1>9, OInvCount
<1>10. CASE UNCHANGED vars
  <2>1. \A t : Successor(t)' = Successor(t)
    BY <1>10 DEF vars, queueVars, Successor
  <2>2. OInv'
    BY <1>10, <2>1
    DEF vars, queueVars, OInv, ListsApart, NewTasksApart, Fresh, SleepersKnown, CleanLists,
        Clean, Forking, BeingForked, Uncounted, UncountedRuns, SliceBounded, MaxSlice, Slice,
        FaultsByWindow, QueueSorted, BoundedLag, Alive
  <2> QED
    BY <1>10, <2>2 DEF vars, queueVars
<1> QED
  BY <1>1, <1>2, <1>3, <1>4, <1>5, <1>6, <1>7, <1>8, <1>9, <1>10
  DEF Next, Running, Stopped, Interrupt, SleepOn, DoFork

LEMMA OInvAlways == Spec => []OInv
BY OInvInit, OInvStep, SInvAlways, PTL DEF Spec

-----------------------------------------------------------------------------
(* Theorems *)

\* For any number of tasks, schedule() divides by zero only after an interrupt has
\* landed between linking an entry and counting it, and a list is corrupted only
\* after one has landed between the search and the link or before a sleeper
\* switched away.
THEOREM FaultsOnlyByWindow == Spec => []FaultsByWindow
<1>1. OInv => FaultsByWindow
  BY DEF OInv
<1> QED
  BY <1>1, OInvAlways, PTL

\* The run queue stays ordered by vrun_time, and no sleeper is off the wait list,
\* as long as no interrupt has landed in the windows that break either.
THEOREM QueuesAreSound == Spec => []QueuesSound
<1>1. OInv /\ SInv => QueuesSound
  <2> SUFFICES ASSUME OInv, Alive, "sleep_link" \notin hit, NEW t \in Tasks,
                      state[t] = "UNINTERRUPTIBLE"
               PROVE  t = current \/ t \in ToSet(wait_list) \cup BeingForked
    BY DEF OInv, QueuesSound, SleeperNotLost
  <2> QED
    BY DEF OInv, ListsApart, SleepersKnown
<1> QED
  BY <1>1, OInvAlways, SInvAlways, PTL

\* No task gets further ahead of the head of the queue than one slice, for any
\* priority a task may have.
THEOREM LagIsBounded == Spec => []BoundedLag
<1>1. OInv => BoundedLag
  BY DEF OInv
<1> QED
  BY <1>1, OInvAlways, PTL

\* Schedule implements Dispatch: whatever schedule(), the interrupt handlers,
\* sleep_on and do_fork do to the tasks and the run queue, Dispatch allows.
THEOREM ImplementsDispatch == Spec => RefinesDispatch
<1>1. Init => Abstract!DispatchInit
  BY OInvInit
<1>2. SInv /\ SInv' /\ OInv /\ [Next]_vars => [Abstract!DispatchNext]_(Abstract!dispatchVars)
  BY OInvStep
<1> QED
  BY <1>1, <1>2, SInvAlways, OInvAlways, PTL
  DEF Spec, RefinesDispatch, Abstract!DispatchSpec
=============================================================================
