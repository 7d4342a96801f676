--------------------------- MODULE StorageProofs ---------------------------
(***************************************************************************)
(* Proofs about the disk and what is on it: the driver's request queue     *)
(* (Disk), for any number of tasks, requests, sectors and interrupts, and  *)
(* the file system above it (Fat32), for any number of users, files and    *)
(* clusters, clusters of any size, writes of any length and any number of  *)
(* events.                                                                 *)
(***************************************************************************)
EXTENDS Disk, Fat32, ListLemmas, FiniteSetTheorems

-----------------------------------------------------------------------------
(* The request queue.  Nothing in disk.c is locked: what each window breaks is *)
(* what each part of the invariant below is guarded by.                        *)

Issuing == Uncounting \cup {"issue"}   \* cmd_out has set in_using
Clean(windows) == Alive /\ hit \cap windows = {}

\* A task that was switched away from in a transfer was so in a window.
Windowed ==
  /\ pc[Idle] = "run"
  /\ \A t \in Tasks \ {current} : pc[t] # "run" => pc[t] \in hit

\* What a request is part of: the list, in_using, the drive, and the node of a task in
\* cmd_out; each entry is in the list once, and two tasks in cmd_out have two.
Requests ==
  Alive =>
    /\ IsInjective(requests)
    /\ \A n \in ToSet(requests) :
         owner[n] # NoTask /\ n # in_using /\ n # device /\ \A t \in At(Issuing) : n # node[t]
    /\ in_using # NoNode => owner[in_using] # NoTask
    /\ device # NoNode => owner[device] # NoTask /\ sectors = count[device]
    /\ irq => device # NoNode
    /\ \A n \in Nodes : owner[n] # NoTask => count[n] >= 1
    /\ \A t \in At(Issuing) :
         /\ node[t] \in Nodes /\ owner[node[t]] # NoTask /\ node[t] # device
         /\ \A u \in At(Issuing) \ {t} : node[u] # node[t]

\* The count, and that the running task's load of it is still good.
Counted ==
  /\ IsFiniteSet(At(Windows))
  /\ CountMatches
  /\ Clean(Stores) /\ pc[current] \in Stores => loaded[current] = block_request_count

\* in_using is the lock of cmd_out.
InUsingLocks ==
  Clean(Deciding) =>
    /\ \A t \in At(Issuing) : in_using = node[t]
    /\ \A t \in At(Deciding) : in_using = NoNode
    /\ device # NoNode => in_using = device

\* The request a task has submitted is there for it to take.
Entering == Counting \cup {"test"} \cup Deciding
OwnRequestListed ==
  Clean(Entering) =>
    /\ pc[current] \in Entering => requests # <<>>
    /\ pc[current] = "claim" => node[current] \in ToSet(requests)

\* Who waits for a request sleeps, out of the run queue, and has but one.
SleepersOut ==
  /\ current \notin queued
  /\ state[Idle] = "RUNNING"
  /\ \A t \in Tasks \ {current} : state[t] = "UNINTERRUPTIBLE" => t \notin queued
  /\ \A t \in Tasks :
       /\ pc[t] = "switch" => state[t] = "UNINTERRUPTIBLE"
       /\ state[t] = "UNINTERRUPTIBLE" => pc[t] = "switch" \/ (pc[t] = "run" /\ t # current)
  /\ \A n \in Nodes : owner[n] # NoTask =>
       /\ pc[owner[n]] = "run" => state[owner[n]] = "UNINTERRUPTIBLE"
       /\ \A m \in Nodes \ {n} : owner[m] # owner[n]
Sleepers == Clean(Deciding \cup Hasty) => SleepersOut

DInv == TypeOK /\ Windowed /\ Requests /\ Counted /\ InUsingLocks /\ OwnRequestListed
        /\ Sleepers /\ FaultsByWindow
-----------------------------------------------------------------------------
(* A step of the scheduler *)

TaskStates == [AllTasks -> {"RUNNING", "UNINTERRUPTIBLE"}]

\* Whatever schedule() does, the CPU and the queue hold tasks.
LEMMA RescheduleTypes ==
  ASSUME current \in AllTasks, fault = "none", NEW st, NEW q \in SUBSET Tasks, Reschedule(st, q)
  PROVE  /\ state' = st /\ current' \in AllTasks /\ queued' \subseteq Tasks
         /\ fault' \in {"none", "list_corrupted"}
         /\ current' \in {current, Idle} \cup q
         /\ queued' \subseteq q \cup {current}
         /\ st[current] # "RUNNING" => queued' \subseteq q /\ current' \in {Idle} \cup q
         /\ current \notin q => fault' = "none" /\ current' \notin queued'
PROOF
<1>1. AllTasks = Tasks \cup {Idle} /\ Idle \notin Tasks
  BY IdleAssumption DEF AllTasks
<1>2. PutBack(st) \subseteq {current} \ {Idle} /\ (st[current] # "RUNNING" => PutBack(st) = {})
  BY DEF PutBack
<1>3. CASE /\ st[current] = "RUNNING"
           /\ queued' = q /\ UNCHANGED <<current, fault>>
  BY <1>1, <1>3 DEF Reschedule
<1>4. ASSUME NEW t \in IF q = {} THEN {Idle} ELSE q,
             current' = t, queued' = (q \ {t}) \cup PutBack(st),
             fault' = IF PutBack(st) \cap (q \ {t}) = {} THEN "none" ELSE "list_corrupted"
      PROVE  /\ current' \in AllTasks /\ queued' \subseteq Tasks
             /\ fault' \in {"none", "list_corrupted"}
             /\ current' \in {current, Idle} \cup q
             /\ queued' \subseteq q \cup {current}
             /\ st[current] # "RUNNING" => queued' \subseteq q /\ current' \in {Idle} \cup q
             /\ current \notin q => fault' = "none" /\ current' \notin queued'
  <2>1. t \in {Idle} \cup q /\ t \in AllTasks
    BY <1>1
  <2>2. queued' \subseteq Tasks
    BY <1>1, <1>2, <1>4
  <2>3. current \notin q => PutBack(st) \cap q = {} /\ t \notin PutBack(st)
    BY <1>1, <1>2, <2>1
  <2> QED
    BY <1>2, <1>4, <2>1, <2>2, <2>3
<1>5. state' = st
  BY DEF Reschedule
<1> QED
  BY <1>3, <1>4, <1>5 DEF Reschedule

\* The way back from a handler, when the running task is not queued and no sleeper is:
\* this stays so, and the queue is not corrupted.
LEMMA ReturnKeepsApart ==
  ASSUME current \in AllTasks, fault = "none", NEW st \in TaskStates, NEW q \in SUBSET Tasks,
         RetFromIntr(st, q)
  PROVE  /\ state' = st /\ current' \in AllTasks /\ queued' \subseteq Tasks
         /\ fault' \in {"none", "list_corrupted"}
         /\ current \notin q /\ st[current] = "RUNNING"
              /\ (\A t \in Tasks : st[t] = "UNINTERRUPTIBLE" => t \notin q)
            => /\ fault' = "none" /\ current' \notin queued'
               /\ \A t \in Tasks : st[t] = "UNINTERRUPTIBLE" => t \notin queued' /\ t # current'
PROOF
<1>1. CASE state' = st /\ queued' = q /\ UNCHANGED <<current, fault>>
  BY <1>1
<1>2. CASE Reschedule(st, q)
  BY <1>2, RescheduleTypes, IdleAssumption
<1> QED
  BY <1>1, <1>2 DEF RetFromIntr
-----------------------------------------------------------------------------
(* A step of the running task *)

LEMMA PointsApart ==
  /\ PCs = Windows \cup {"run"} /\ "run" \notin Windows
  /\ Issuing = {"uncount_load", "uncount_store", "issue"}
  /\ Entering = {"count_load", "count_store", "test", "take", "claim"}
  /\ Windows = {"count_load", "count_store", "uncount_load", "uncount_store", "take", "claim",
                "test", "sleep", "switch", "issue"}
  /\ Deciding \cup Hasty =
       {"take", "claim", "count_load", "count_store", "test", "sleep", "switch"}
BY DEF PCs, Windows, Issuing, Entering, Counting, Uncounting, Deciding, Leaving, Hasty

\* Goto moves the running task only, and leaves no other task outside of a window.
LEMMA Moved ==
  ASSUME TypeOK, Windowed, NEW here \in PCs, NEW there \in PCs, Goto(here, there),
         here # "run" \/ current # Idle, UNCHANGED <<current, hit>>
  PROVE  /\ current \in Tasks /\ pc[current] = here
         /\ pc' \in [AllTasks -> PCs] /\ pc'[current] = there
         /\ \A t \in AllTasks \ {current} : pc'[t] = pc[t]
         /\ Windowed'
PROOF
<1>1. current \in AllTasks /\ pc \in [AllTasks -> PCs] /\ AllTasks = Tasks \cup {Idle}
      /\ Idle \notin Tasks
  BY IdleAssumption DEF TypeOK, AllTasks
<1>2. pc[current] = here /\ pc' = [pc EXCEPT ![current] = there]
  BY DEF Goto
<1>3. current \in Tasks
  BY <1>1, <1>2 DEF Windowed
<1> QED
  BY <1>1, <1>2, <1>3 DEF Windowed

\* What a move makes of the tasks at some points.
LEMMA AtMoved ==
  ASSUME NEW X, current \in Tasks, \A t \in AllTasks \ {current} : pc'[t] = pc[t]
  PROVE  At(X)' = IF pc'[current] \in X THEN At(X) \cup {current} ELSE At(X) \ {current}
BY DEF At, AllTasks

\* The tasks at some of the windows are finitely many.
LEMMA AtFinite ==
  ASSUME IsFiniteSet(At(Windows)), NEW X \in SUBSET Windows
  PROVE  IsFiniteSet(At(X)) /\ Cardinality(At(X)) \in Nat
PROOF
<1>1. At(X) \subseteq At(Windows)
  BY DEF At
<1> QED
  BY <1>1, FS_Subset, FS_CardinalityType

\* So they are after a move, one more or one less.
LEMMA AtMovedFinite ==
  ASSUME IsFiniteSet(At(Windows)), current \in Tasks,
         \A t \in AllTasks \ {current} : pc'[t] = pc[t]
  PROVE  /\ IsFiniteSet(At(Windows)')
         /\ \A X \in SUBSET Windows :
              Cardinality(At(X)') = Cardinality(At(X))
                + (IF pc'[current] \in X THEN 1 ELSE 0) - (IF pc[current] \in X THEN 1 ELSE 0)
PROOF
<1>1. ASSUME NEW X \in SUBSET Windows
      PROVE  /\ IsFiniteSet(At(X)')
             /\ Cardinality(At(X)') = Cardinality(At(X))
                  + (IF pc'[current] \in X THEN 1 ELSE 0) - (IF pc[current] \in X THEN 1 ELSE 0)
  <2>1. IsFiniteSet(At(X)) /\ Cardinality(At(X)) \in Nat
    BY AtFinite
  <2>2. At(X)' = IF pc'[current] \in X THEN At(X) \cup {current} ELSE At(X) \ {current}
    BY AtMoved
  <2>3. current \in At(X) <=> pc[current] \in X
    BY DEF At
  <2>4. /\ IsFiniteSet(At(X) \cup {current})
        /\ Cardinality(At(X) \cup {current}) =
             IF current \in At(X) THEN Cardinality(At(X)) ELSE Cardinality(At(X)) + 1
    BY <2>1, FS_AddElement
  <2>5. /\ IsFiniteSet(At(X) \ {current})
        /\ Cardinality(At(X) \ {current}) =
             IF current \in At(X) THEN Cardinality(At(X)) - 1 ELSE Cardinality(At(X))
    BY <2>1, FS_RemoveElement
  <2> QED
    BY <2>1, <2>2, <2>3, <2>4, <2>5
<1> QED
  BY <1>1

-----------------------------------------------------------------------------
(* What is kept by steps that change little *)

\* Requests, by a step that moves no task into the issuing part of cmd_out or out of it.
LEMMA RequestsStay ==
  ASSUME DInv, fault = "none", At(Issuing)' = At(Issuing),
         \A t \in At(Issuing) : node'[t] = node[t],
         UNCHANGED <<owner, count, requests, in_using, device, sectors>>,
         irq' => irq \/ device # NoNode
  PROVE  Requests'
BY DEF DInv, Requests, Alive

\* Sleepers, by a step of the running task inside a transfer and awake.
LEMMA SleepersStay ==
  ASSUME DInv, fault = "none", NEW here \in Windows \ {"switch"},
         NEW there \in Windows \ {"switch"}, Goto(here, there),
         UNCHANGED <<current, state, queued, owner, hit>>
  PROVE  Sleepers'
PROOF
<1> USE DEF DInv
<1>1. /\ current \in Tasks /\ pc[current] = here
      /\ pc' \in [AllTasks -> PCs] /\ pc'[current] = there
      /\ \A t \in AllTasks \ {current} : pc'[t] = pc[t]
  BY Moved, PointsApart
<1>2. Tasks \subseteq AllTasks /\ "run" \notin Windows
  BY PointsApart DEF AllTasks
<1> SUFFICES ASSUME Clean(Deciding \cup Hasty)'
             PROVE  SleepersOut'
  BY DEF Sleepers
<1>3. Clean(Deciding \cup Hasty)
  BY DEF Clean, Alive
<1>4. owner \in [Nodes -> Tasks \cup {NoTask}]
  BY DEF TypeOK
<1> QED
  BY <1>1, <1>2, <1>3, <1>4 DEF Sleepers, SleepersOut

-----------------------------------------------------------------------------
(* IDE_transfer *)

LEMMA SubmitStep ==
  ASSUME DInv, fault = "none", NEW n \in Nodes, NEW blocks \in 1..MaxSectors, Submit(n, blocks)
  PROVE  DInv'
PROOF
<1> USE DEF DInv
<1>1. /\ current \in Tasks /\ pc[current] = "run"
      /\ pc' \in [AllTasks -> PCs] /\ pc'[current] = "count_load"
      /\ \A t \in AllTasks \ {current} : pc'[t] = pc[t]
      /\ Windowed'
  BY Moved, PointsApart DEF Submit, dispatchVars
<1>2. /\ UNCHANGED <<current, state, queued, fault, node, loaded, in_using, block_request_count,
                     device, sectors, irq, hit>>
      /\ owner[n] = NoTask /\ owner' = [owner EXCEPT ![n] = current]
      /\ count' = [count EXCEPT ![n] = blocks] /\ requests' = Append(requests, n)
  BY DEF Submit, dispatchVars, localVars, driveVars
<1>3. Tasks \subseteq AllTasks /\ NoTask \notin Tasks
  BY DiskAssumption DEF AllTasks
<1>4. requests \in Seq(Nodes) /\ IsInjective(requests) /\ n \notin ToSet(requests)
  BY <1>2 DEF Requests, Alive, TypeOK
<1>5. /\ requests' \in Seq(Nodes) /\ Len(requests') = Len(requests) + 1
      /\ ToSet(requests') = ToSet(requests) \cup {n} /\ IsInjective(requests')
  BY <1>2, <1>4, AppendEntries
<1>6. owner' \in [Nodes -> Tasks \cup {NoTask}] /\ owner'[n] = current
      /\ \A m \in Nodes \ {n} : owner'[m] = owner[m]
  BY <1>1, <1>2 DEF TypeOK
<1>7. count' \in [Nodes -> 0..MaxSectors] /\ count'[n] >= 1
      /\ \A m \in Nodes \ {n} : count'[m] = count[m]
  BY <1>2, DiskAssumption DEF TypeOK
<1>8. TypeOK'
  BY <1>1, <1>2, <1>5, <1>6, <1>7 DEF TypeOK
<1>9. At(Issuing)' = At(Issuing) /\ At(Deciding)' = At(Deciding)
  BY <1>1, <1>3, PointsApart DEF At, Deciding
<1>10. Requests'
  <2>1. /\ in_using # n /\ device # n /\ \A t \in At(Issuing) : node[t] # n
        /\ in_using \in Nodes \cup {NoNode} /\ device \in Nodes \cup {NoNode}
    BY <1>2, DiskAssumption DEF Requests, Alive, TypeOK
  <2>2. \A m \in ToSet(requests') : owner'[m] # NoTask /\ m # in_using /\ m # device
          /\ \A t \in At(Issuing) : m # node[t]
    <3>1. ToSet(requests) \subseteq Nodes \ {n} /\ current # NoTask
      BY <1>1, <1>3, <1>4, ElementOfSeq, LenProperties DEF ToSet
    <3> QED
      BY <1>5, <1>6, <2>1, <3>1 DEF Requests, Alive
  <2>3. /\ in_using # NoNode => owner'[in_using] # NoTask
        /\ device # NoNode => owner'[device] # NoTask /\ sectors = count'[device]
    BY <1>6, <1>7, <2>1 DEF Requests, Alive
  <2>4. \A m \in Nodes : owner'[m] # NoTask => count'[m] >= 1
    BY <1>6, <1>7 DEF Requests, Alive
  <2>5. \A t \in At(Issuing) :
         /\ node[t] \in Nodes /\ owner'[node[t]] # NoTask /\ node[t] # device
         /\ \A u \in At(Issuing) \ {t} : node[u] # node[t]
    BY <1>6, <2>1 DEF Requests, Alive
  <2>6. irq => device # NoNode
    BY DEF Requests, Alive
  <2> QED
    BY <1>2, <1>5, <1>9, <2>2, <2>3, <2>4, <2>5, <2>6 DEF Requests
<1>11. Counted'
  <2>1. IsFiniteSet(At(Windows)) /\ Counting \subseteq Windows /\ Uncounting \subseteq Windows
    BY DEF Counted, Windows
  <2>2. /\ IsFiniteSet(At(Windows)')
        /\ Cardinality(At(Counting)') = Cardinality(At(Counting)) + 1
        /\ Cardinality(At(Uncounting)') = Cardinality(At(Uncounting))
    <3>1. \A X \in SUBSET Windows : Cardinality(At(X)) \in Nat
      BY <2>1, AtFinite
    <3> QED
      BY <2>1, <1>1, <3>1, AtMovedFinite DEF Counting, Uncounting
  <2>3. Cardinality(At(Counting)) \in Nat /\ Cardinality(At(Uncounting)) \in Nat /\ Len(requests) \in Nat
    BY <2>1, AtFinite, <1>4, LenProperties
  <2>4. CountMatches'
    BY <1>2, <1>5, <2>2, <2>3 DEF Counted, CountMatches, Alive, TypeOK
  <2> QED
    BY <2>2, <2>4, <1>1, <1>2 DEF Counted, Stores
<1>12. InUsingLocks'
  BY <1>2, <1>9 DEF InUsingLocks, Clean, Alive
<1>13. OwnRequestListed'
  <2>1. requests' # <<>>
    BY <1>5, EmptySeq DEF ToSet
  <2> QED
    BY <2>1, <1>1, <1>2 DEF OwnRequestListed
<1>14. Sleepers'
  <2> SUFFICES ASSUME Clean(Deciding \cup Hasty) PROVE SleepersOut'
    BY <1>2 DEF Sleepers, Clean, Alive
  <2>1. state[current] # "UNINTERRUPTIBLE" /\ \A m \in Nodes : owner[m] # current
    BY <1>1, <1>3 DEF Sleepers, SleepersOut
  <2>2. owner \in [Nodes -> Tasks \cup {NoTask}]
    BY DEF TypeOK
  <2> QED
    BY <2>1, <2>2, <1>1, <1>2, <1>3, <1>6 DEF Sleepers, SleepersOut
<1>15. FaultsByWindow'
  BY <1>2 DEF FaultsByWindow
<1> QED
  BY <1>1, <1>8, <1>10, <1>11, <1>12, <1>13, <1>14, <1>15

LEMMA LoadCountStep == ASSUME DInv, fault = "none", LoadCount PROVE DInv'
PROOF
<1> USE DEF DInv
<1>1. PICK here \in {"count_load", "uncount_load"},
           there \in {"count_store", "uncount_store"} :
        Goto(here, there) /\ (here = "count_load" <=> there = "count_store")
  BY DEF LoadCount
<1>2. /\ UNCHANGED <<current, state, queued, fault, node, owner, count, requests, in_using,
                     block_request_count, device, sectors, irq, hit>>
      /\ loaded' = [loaded EXCEPT ![current] = block_request_count]
  BY DEF LoadCount, dispatchVars, requestVars, driveVars
<1>3. /\ current \in Tasks /\ pc[current] = here
      /\ pc' \in [AllTasks -> PCs] /\ pc'[current] = there
      /\ \A t \in AllTasks \ {current} : pc'[t] = pc[t]
      /\ Windowed'
  BY <1>1, <1>2, Moved, PointsApart
<1>4. Tasks \subseteq AllTasks
  BY DEF AllTasks
<1>5. loaded' \in [AllTasks -> Int] /\ loaded'[current] = block_request_count
  BY <1>2, <1>3, <1>4 DEF TypeOK
<1>6. TypeOK'
  BY <1>2, <1>3, <1>5 DEF TypeOK
<1>7. /\ At(Issuing)' = At(Issuing) /\ At(Deciding)' = At(Deciding)
      /\ At(Counting)' = At(Counting) /\ At(Uncounting)' = At(Uncounting)
      /\ At(Windows)' = At(Windows)
  BY <1>1, <1>3, <1>4, PointsApart DEF At, Deciding, Counting, Uncounting
<1>8. Requests'
  BY <1>2, <1>7, RequestsStay
<1>9. Counted'
  BY <1>2, <1>5, <1>7 DEF Counted, CountMatches, Alive, Clean
<1>10. InUsingLocks'
  BY <1>2, <1>7 DEF InUsingLocks, Clean, Alive
<1>11. OwnRequestListed'
  BY <1>1, <1>2, <1>3, PointsApart DEF OwnRequestListed, Clean, Alive
<1>12. Sleepers'
  BY <1>1, <1>2, SleepersStay, PointsApart
<1>13. FaultsByWindow'
  BY <1>2 DEF FaultsByWindow
<1> QED
  BY <1>3, <1>6, <1>8, <1>9, <1>10, <1>11, <1>12, <1>13

LEMMA StoreCountStep == ASSUME DInv, fault = "none", StoreCount PROVE DInv'
PROOF
<1> USE DEF DInv
<1>1. PICK here \in {"count_store", "uncount_store"}, there \in {"test", "issue"} :
        /\ Goto(here, there) /\ (here = "count_store" <=> there = "test")
        /\ block_request_count' = loaded[current] + IF here = "count_store" THEN 1 ELSE -1
  <2>1. loaded[current] \in Int
    BY DEF TypeOK
  <2>2. loaded[current] - 1 = loaded[current] + -1
    BY <2>1
  <2>3. CASE Goto("count_store", "test") /\ block_request_count' = loaded[current] + 1
    BY <2>3
  <2>4. CASE Goto("uncount_store", "issue") /\ block_request_count' = loaded[current] - 1
    BY <2>4, <2>2
  <2> QED
    BY <2>3, <2>4 DEF StoreCount
<1>2. /\ UNCHANGED <<current, state, queued, fault, node, owner, count, requests, in_using,
                     device, sectors, irq, hit>>
      /\ loaded' = [loaded EXCEPT ![current] = 0]
  BY DEF StoreCount, dispatchVars, requestVars, driveVars
<1>3. /\ current \in Tasks /\ pc[current] = here
      /\ pc' \in [AllTasks -> PCs] /\ pc'[current] = there
      /\ \A t \in AllTasks \ {current} : pc'[t] = pc[t]
      /\ Windowed'
  BY <1>1, <1>2, Moved, PointsApart
<1>4. Tasks \subseteq AllTasks
  BY DEF AllTasks
<1>5. loaded[current] \in Int /\ block_request_count \in Int
  BY <1>3, <1>4 DEF TypeOK
<1>6. TypeOK'
  <2>1. block_request_count' \in Int /\ loaded' \in [AllTasks -> Int]
    BY <1>1, <1>2, <1>5 DEF TypeOK
  <2> QED
    BY <2>1, <1>2, <1>3 DEF TypeOK
<1>7. At(Issuing)' = At(Issuing) /\ At(Deciding)' = At(Deciding)
  BY <1>1, <1>3, <1>4, PointsApart DEF At, Deciding
<1>8. Requests'
  BY <1>2, <1>7, RequestsStay
<1>9. Counted'
  <2>1. IsFiniteSet(At(Windows)) /\ Counting \subseteq Windows /\ Uncounting \subseteq Windows
    BY DEF Counted, Windows
  <2>2. /\ IsFiniteSet(At(Windows)')
        /\ Cardinality(At(Counting)') = Cardinality(At(Counting)) - IF here = "count_store" THEN 1 ELSE 0
        /\ Cardinality(At(Uncounting)') = Cardinality(At(Uncounting)) - IF here = "count_store" THEN 0 ELSE 1
    <3>1. \A X \in SUBSET Windows : Cardinality(At(X)) \in Nat
      BY <2>1, AtFinite
    <3> QED
      BY <2>1, <1>1, <1>3, <3>1, AtMovedFinite DEF Counting, Uncounting
  <2>3. Cardinality(At(Counting)) \in Nat /\ Cardinality(At(Uncounting)) \in Nat /\ Len(requests) \in Nat
    BY <2>1, AtFinite, LenProperties DEF TypeOK
  <2>4. CountMatches'
    <3> SUFFICES ASSUME hit \cap Stores = {} PROVE
          block_request_count' = Len(requests) - Cardinality(At(Counting)') + Cardinality(At(Uncounting)')
      BY <1>2 DEF CountMatches, Alive
    <3>1. loaded[current] = block_request_count
      BY <1>1, <1>3 DEF Counted, Clean, Alive, Stores
    <3>2. block_request_count = Len(requests) - Cardinality(At(Counting)) + Cardinality(At(Uncounting))
      BY DEF Counted, CountMatches, Alive
    <3> QED
      BY <3>1, <3>2, <1>1, <1>5, <2>2, <2>3
  <2> QED
    BY <2>2, <2>4, <1>1, <1>2, <1>3 DEF Counted, Stores
<1>10. InUsingLocks'
  BY <1>2, <1>7 DEF InUsingLocks, Clean, Alive
<1>11. OwnRequestListed'
  BY <1>1, <1>2, <1>3, PointsApart DEF OwnRequestListed, Clean, Alive
<1>12. Sleepers'
  BY <1>1, <1>2, SleepersStay, PointsApart
<1>13. FaultsByWindow'
  BY <1>2 DEF FaultsByWindow
<1> QED
  BY <1>3, <1>6, <1>8, <1>9, <1>10, <1>11, <1>12, <1>13

LEMMA TestStep == ASSUME DInv, fault = "none", Test PROVE DInv'
PROOF
<1> USE DEF DInv
<1>1. PICK there \in {"take", "sleep"} :
        Goto("test", there) /\ (there = "take" => in_using = NoNode)
  BY DEF Test
<1>2. UNCHANGED <<current, state, queued, fault, node, loaded, owner, count, requests, in_using,
                  block_request_count, device, sectors, irq, hit>>
  BY DEF Test, dispatchVars, requestVars, driveVars, localVars
<1>3. /\ current \in Tasks /\ pc[current] = "test"
      /\ pc' \in [AllTasks -> PCs] /\ pc'[current] = there
      /\ \A t \in AllTasks \ {current} : pc'[t] = pc[t]
      /\ Windowed'
  BY <1>1, <1>2, Moved, PointsApart
<1>4. Tasks \subseteq AllTasks
  BY DEF AllTasks
<1>6. TypeOK'
  BY <1>1, <1>2, <1>3 DEF TypeOK
<1>7. /\ At(Issuing)' = At(Issuing) /\ At(Windows)' = At(Windows)
      /\ At(Counting)' = At(Counting) /\ At(Uncounting)' = At(Uncounting)
      /\ At(Deciding)' \subseteq At(Deciding) \cup {current}
      /\ current \in At(Deciding)' => in_using = NoNode
  BY <1>1, <1>3, <1>4, PointsApart DEF At, Deciding, Counting, Uncounting
<1>8. Requests'
  BY <1>2, <1>7, RequestsStay
<1>9. Counted'
  BY <1>1, <1>2, <1>3, <1>7 DEF Counted, CountMatches, Alive, Clean, Stores
<1>10. InUsingLocks'
  BY <1>2, <1>7 DEF InUsingLocks, Clean, Alive
<1>11. OwnRequestListed'
  BY <1>1, <1>2, <1>3, PointsApart DEF OwnRequestListed, Clean, Alive
<1>12. Sleepers'
  BY <1>1, <1>2, SleepersStay, PointsApart
<1>13. FaultsByWindow'
  BY <1>2 DEF FaultsByWindow
<1> QED
  BY <1>3, <1>6, <1>8, <1>9, <1>10, <1>11, <1>12, <1>13

\* A step that ends in a fault leaves little to show.
LEMMA FaultStep ==
  ASSUME TypeOK', Windowed', IsFiniteSet(At(Windows)'), fault' # "none", FaultsByWindow'
  PROVE  DInv'
BY DEF DInv, Requests, Counted, CountMatches, InUsingLocks, OwnRequestListed, Sleepers, Clean, Alive

LEMMA TakeStep == ASSUME DInv, fault = "none", Take PROVE DInv'
PROOF
<1> USE DEF DInv
<1>1. UNCHANGED <<current, state, queued, loaded, owner, count, requests, in_using,
                  block_request_count, device, sectors, irq, hit>>
      /\ Goto("take", "claim")
  BY DEF Take, requestVars, driveVars
<1>2. /\ current \in Tasks /\ pc[current] = "take"
      /\ pc' \in [AllTasks -> PCs] /\ pc'[current] = "claim"
      /\ \A t \in AllTasks \ {current} : pc'[t] = pc[t]
      /\ Windowed'
  BY <1>1, Moved, PointsApart
<1>3. Tasks \subseteq AllTasks /\ IsFiniteSet(At(Windows)) /\ requests \in Seq(Nodes)
  BY DEF AllTasks, Counted, TypeOK
<1>4. /\ At(Issuing)' = At(Issuing) /\ At(Windows)' = At(Windows)
      /\ At(Counting)' = At(Counting) /\ At(Uncounting)' = At(Uncounting)
      /\ At(Deciding)' = At(Deciding) /\ current \notin At(Issuing)
  BY <1>2, <1>3, PointsApart DEF At, Deciding, Counting, Uncounting
<1>5. CASE requests = <<>> /\ fault' = "no_request" /\ UNCHANGED node
  <2>1. TypeOK'
    BY <1>1, <1>2, <1>5 DEF TypeOK
  <2>2. FaultsByWindow'
    <3>1. hit \cap Entering # {}
      BY <1>2, <1>5, PointsApart DEF OwnRequestListed, Clean, Alive
    <3> QED
      BY <3>1, <1>1, <1>5 DEF FaultsByWindow, Entering
  <2> QED
    BY <2>1, <2>2, <1>2, <1>3, <1>4, <1>5, FaultStep
<1>6. CASE requests # <<>> /\ node' = [node EXCEPT ![current] = Head(requests)] /\ UNCHANGED fault
  <2>1. Head(requests) \in Nodes /\ Head(requests) \in ToSet(requests)
    BY <1>3, <1>6, FirstEntry
  <2>2. /\ node' \in [AllTasks -> Nodes \cup {NoNode}] /\ node'[current] = Head(requests)
        /\ \A t \in At(Issuing) : node'[t] = node[t]
    BY <2>1, <1>2, <1>3, <1>4, <1>6 DEF TypeOK, At
  <2>3. TypeOK'
    BY <2>2, <1>1, <1>2, <1>6 DEF TypeOK
  <2>4. Requests'
    BY <2>2, <1>1, <1>4, RequestsStay
  <2>5. Counted'
    BY <1>1, <1>2, <1>4, <1>6 DEF Counted, CountMatches, Alive, Clean, Stores
  <2>6. InUsingLocks'
    BY <2>2, <1>1, <1>4, <1>6 DEF InUsingLocks, Clean, Alive
  <2>7. OwnRequestListed'
    BY <2>1, <2>2, <1>1, <1>6 DEF OwnRequestListed
  <2>8. Sleepers'
    BY <1>1, <1>6, SleepersStay, PointsApart
  <2>9. FaultsByWindow'
    BY <1>6 DEF FaultsByWindow
  <2> QED
    BY <1>2, <2>3, <2>4, <2>5, <2>6, <2>7, <2>8, <2>9
<1> QED
  BY <1>5, <1>6 DEF Take

LEMMA ClaimStep == ASSUME DInv, fault = "none", Claim PROVE DInv'
PROOF
<1> USE DEF DInv
<1>1. UNCHANGED <<current, state, queued, node, loaded, owner, count,
                  block_request_count, device, sectors, irq, hit>>
      /\ Goto("claim", "uncount_load") /\ in_using' = node[current]
      /\ requests' = RemoveFirst(requests, node[current])
      /\ fault' = IF node[current] \in ToSet(requests) THEN "none" ELSE "no_request"
  BY DEF Claim, localVars, driveVars
<1>2. /\ current \in Tasks /\ pc[current] = "claim"
      /\ pc' \in [AllTasks -> PCs] /\ pc'[current] = "uncount_load"
      /\ \A t \in AllTasks \ {current} : pc'[t] = pc[t]
      /\ Windowed'
  BY <1>1, Moved, PointsApart
<1>3. Tasks \subseteq AllTasks /\ IsFiniteSet(At(Windows)) /\ requests \in Seq(Nodes)
      /\ IsInjective(requests) /\ node[current] \in Nodes \cup {NoNode}
  BY <1>2 DEF AllTasks, Counted, TypeOK, Requests, Alive
<1>4. /\ At(Issuing)' = At(Issuing) \cup {current} /\ current \notin At(Issuing)
      /\ At(Deciding)' = At(Deciding) \ {current} /\ At(Windows)' = At(Windows)
  BY <1>2, <1>3, PointsApart DEF At, Deciding
<1>5. /\ requests' \in Seq(Nodes) /\ ToSet(requests') = ToSet(requests) \ {node[current]}
      /\ IsInjective(requests')
      /\ Len(requests') = Len(requests) - (IF node[current] \in ToSet(requests) THEN 1 ELSE 0)
  BY <1>1, <1>3, RemovalApart
<1>6. TypeOK'
  BY <1>1, <1>2, <1>3, <1>5 DEF TypeOK
<1>7. CASE node[current] \notin ToSet(requests)
  <2>1. hit \cap Entering # {}
    BY <1>2, <1>7, PointsApart DEF OwnRequestListed, Clean, Alive
  <2>2. FaultsByWindow'
    BY <2>1, <1>1, <1>7 DEF FaultsByWindow, Entering
  <2> QED
    BY <2>2, <1>1, <1>2, <1>3, <1>4, <1>6, <1>7, FaultStep
<1>8. CASE node[current] \in ToSet(requests)
  <2>1. fault' = "none" /\ node[current] \in Nodes
    BY <1>1, <1>3, <1>8, ElementOfSeq, LenProperties DEF ToSet
  <2>2. Requests'
    <3>1. /\ owner[node[current]] # NoTask /\ node[current] # device
          /\ \A t \in At(Issuing) : node[current] # node[t]
      BY <1>8 DEF Requests, Alive
    <3>2. \A n \in ToSet(requests') :
            owner[n] # NoTask /\ n # node[current] /\ n # device /\ \A t \in At(Issuing) : n # node[t]
      BY <1>5 DEF Requests, Alive
    <3>3. \A t \in At(Issuing) \cup {current} :
            /\ node[t] \in Nodes /\ owner[node[t]] # NoTask /\ node[t] # device
            /\ \A u \in (At(Issuing) \cup {current}) \ {t} : node[u] # node[t]
      BY <3>1, <2>1 DEF Requests, Alive
    <3>4. /\ device # NoNode => owner[device] # NoTask /\ sectors = count[device]
          /\ irq => device # NoNode
          /\ \A n \in Nodes : owner[n] # NoTask => count[n] >= 1
      BY DEF Requests, Alive
    <3> QED
      BY <3>1, <3>2, <3>3, <3>4, <1>1, <1>4, <1>5 DEF Requests
  <2>3. Counted'
    <3>1. Counting \subseteq Windows /\ Uncounting \subseteq Windows
      BY DEF Windows
    <3>2. /\ Cardinality(At(Counting)') = Cardinality(At(Counting))
          /\ Cardinality(At(Uncounting)') = Cardinality(At(Uncounting)) + 1
      <4>1. \A X \in SUBSET Windows : Cardinality(At(X)) \in Nat
        BY <1>3, AtFinite
      <4> QED
        BY <1>2, <1>3, <3>1, <4>1, AtMovedFinite, SMTT(20) DEF Counting, Uncounting
    <3>3. Cardinality(At(Counting)) \in Nat /\ Cardinality(At(Uncounting)) \in Nat /\ Len(requests) \in Nat
      BY <1>3, <3>1, AtFinite, LenProperties
    <3>4. CountMatches'
      BY <1>1, <1>5, <1>8, <3>2, <3>3, SMTT(20) DEF Counted, CountMatches, Alive, TypeOK
    <3> QED
      BY <3>4, <1>1, <1>2, <1>3, <1>4 DEF Counted, Stores
  <2>4. InUsingLocks'
    <3> SUFFICES ASSUME Clean(Deciding)
                 PROVE  /\ \A t \in At(Issuing)' : node[current] = node[t]
                        /\ At(Deciding)' = {}
                        /\ device # NoNode => node[current] = device
      BY <1>1, <2>1 DEF InUsingLocks, Clean, Alive
    <3>1. in_using = NoNode
      BY <1>2, PointsApart DEF InUsingLocks, At, Deciding
    <3>2. At(Issuing) = {} /\ device = NoNode
      BY <3>1, DiskAssumption DEF InUsingLocks, Requests, Alive
    <3>3. \A t \in At(Deciding) : t = current
      BY PointsApart DEF At, Windowed, Clean, Deciding
    <3> QED
      BY <3>2, <3>3, <1>4
  <2>5. OwnRequestListed'
    BY <1>1, <1>2, PointsApart DEF OwnRequestListed
  <2>6. Sleepers'
    BY <1>1, <2>1, SleepersStay, PointsApart
  <2>7. FaultsByWindow'
    BY <2>1 DEF FaultsByWindow
  <2> QED
    BY <1>2, <1>6, <2>2, <2>3, <2>4, <2>5, <2>6, <2>7
<1> QED
  BY <1>7, <1>8

LEMMA IssueStep == ASSUME DInv, fault = "none", Issue PROVE DInv'
PROOF
<1> USE DEF DInv
<1>1. UNCHANGED <<current, state, queued, loaded, owner, count, requests, in_using,
                  block_request_count, hit>>
      /\ Goto("issue", "sleep") /\ (device = NoNode \/ irq)
      /\ device' = node[current] /\ sectors' = count[node[current]] /\ irq' = FALSE
      /\ fault' = (IF device = NoNode THEN "none" ELSE "wrong_request")
      /\ node' = [node EXCEPT ![current] = NoNode]
  BY DEF Issue, Command, requestVars
<1>2. /\ current \in Tasks /\ pc[current] = "issue"
      /\ pc' \in [AllTasks -> PCs] /\ pc'[current] = "sleep"
      /\ \A t \in AllTasks \ {current} : pc'[t] = pc[t]
      /\ Windowed'
  BY <1>1, Moved, PointsApart
<1>3. Tasks \subseteq AllTasks /\ IsFiniteSet(At(Windows)) /\ current \in At(Issuing)
  BY <1>2, PointsApart DEF AllTasks, Counted, At
<1>4. /\ At(Issuing)' = At(Issuing) \ {current} /\ At(Windows)' = At(Windows)
      /\ At(Deciding)' = At(Deciding)
      /\ At(Counting)' = At(Counting) /\ At(Uncounting)' = At(Uncounting)
  BY <1>2, <1>3, PointsApart DEF At, Deciding, Counting, Uncounting
<1>5. /\ node[current] \in Nodes /\ owner[node[current]] # NoTask /\ node[current] # device
      /\ \A u \in At(Issuing) \ {current} : node[u] # node[current]
  BY <1>3 DEF Requests, Alive
<1>6. /\ node' \in [AllTasks -> Nodes \cup {NoNode}]
      /\ \A t \in AllTasks \ {current} : node'[t] = node[t]
  BY <1>1, <1>2 DEF TypeOK
<1>7. TypeOK'
  BY <1>1, <1>2, <1>5, <1>6 DEF TypeOK
<1>8. CASE device # NoNode
  <2>1. hit \cap Deciding # {}
    BY <1>3, <1>5, <1>8 DEF InUsingLocks, Clean, Alive
  <2>2. FaultsByWindow'
    BY <2>1, <1>1, <1>8 DEF FaultsByWindow
  <2> QED
    BY <2>2, <1>1, <1>2, <1>3, <1>4, <1>7, <1>8, FaultStep
<1>9. CASE device = NoNode
  <2>1. fault' = "none"
    BY <1>1, <1>9
  <2>2. Requests'
    <3>1. \A n \in ToSet(requests) :
            owner[n] # NoTask /\ n # in_using /\ n # node[current]
            /\ \A t \in At(Issuing) \ {current} : n # node'[t]
      BY <1>3, <1>6 DEF Requests, Alive, At
    <3>2. \A t \in At(Issuing) \ {current} :
            /\ node'[t] = node[t] /\ node[t] \in Nodes
            /\ owner[node[t]] # NoTask /\ node[t] # node[current]
            /\ \A u \in (At(Issuing) \ {current}) \ {t} : node'[u] = node[u] /\ node[u] # node[t]
      BY <1>3, <1>5, <1>6 DEF Requests, Alive, At
    <3>3. node[current] # NoNode
      BY <1>5, DiskAssumption
    <3>4. /\ IsInjective(requests) /\ (in_using # NoNode => owner[in_using] # NoTask)
          /\ \A n \in Nodes : owner[n] # NoTask => count[n] >= 1
      BY DEF Requests, Alive
    <3> QED
      BY <3>1, <3>2, <3>3, <3>4, <1>1, <1>4, <1>5 DEF Requests
  <2>3. Counted'
    BY <1>1, <1>2, <1>4, <2>1 DEF Counted, CountMatches, Alive, Clean, Stores
  <2>4. InUsingLocks'
    <3>1. \A t \in At(Issuing)' : node'[t] = node[t]
      BY <1>4, <1>6, <1>3 DEF At
    <3> QED
      BY <3>1, <1>1, <1>3, <1>4, <2>1 DEF InUsingLocks, Clean, Alive
  <2>5. OwnRequestListed'
    BY <1>1, <1>2, PointsApart DEF OwnRequestListed
  <2>6. Sleepers'
    BY <1>1, <2>1, SleepersStay, PointsApart
  <2>7. FaultsByWindow'
    BY <2>1 DEF FaultsByWindow
  <2> QED
    BY <1>2, <1>7, <2>2, <2>3, <2>4, <2>5, <2>6, <2>7
<1> QED
  BY <1>8, <1>9

LEMMA SleepSetStateStep == ASSUME DInv, fault = "none", SleepSetState PROVE DInv'
PROOF
<1> USE DEF DInv
<1>1. UNCHANGED <<current, queued, fault, node, loaded, owner, count, requests, in_using,
                  block_request_count, device, sectors, irq, hit>>
      /\ Goto("sleep", "switch") /\ state' = [state EXCEPT ![current] = "UNINTERRUPTIBLE"]
  BY DEF SleepSetState, requestVars, driveVars, localVars
<1>2. /\ current \in Tasks /\ pc[current] = "sleep"
      /\ pc' \in [AllTasks -> PCs] /\ pc'[current] = "switch"
      /\ \A t \in AllTasks \ {current} : pc'[t] = pc[t]
      /\ Windowed'
  BY <1>1, Moved, PointsApart
<1>3. AllTasks = Tasks \cup {Idle} /\ Idle \notin Tasks
  BY IdleAssumption DEF AllTasks
<1>4. /\ state' \in TaskStates /\ state'[current] = "UNINTERRUPTIBLE"
      /\ \A t \in AllTasks \ {current} : state'[t] = state[t]
  BY <1>1, <1>2, <1>3 DEF TypeOK, TaskStates
<1>5. TypeOK'
  BY <1>1, <1>2, <1>4 DEF TypeOK, TaskStates
<1>6. /\ At(Issuing)' = At(Issuing) /\ At(Windows)' = At(Windows)
      /\ At(Deciding)' = At(Deciding)
      /\ At(Counting)' = At(Counting) /\ At(Uncounting)' = At(Uncounting)
  BY <1>2, <1>3, PointsApart DEF At, Deciding, Counting, Uncounting
<1>7. Requests'
  BY <1>1, <1>6, RequestsStay
<1>8. Counted'
  BY <1>1, <1>2, <1>6 DEF Counted, CountMatches, Alive, Clean, Stores
<1>9. InUsingLocks'
  BY <1>1, <1>6 DEF InUsingLocks, Clean, Alive
<1>10. OwnRequestListed'
  BY <1>1, <1>2, PointsApart DEF OwnRequestListed
<1>11. Sleepers'
  <2> SUFFICES ASSUME Clean(Deciding \cup Hasty) PROVE SleepersOut'
    BY <1>1 DEF Sleepers, Clean, Alive
  <2>1. owner \in [Nodes -> Tasks \cup {NoTask}]
    BY DEF TypeOK
  <2> QED
    BY <2>1, <1>1, <1>2, <1>3, <1>4 DEF Sleepers, SleepersOut
<1>12. FaultsByWindow'
  BY <1>1 DEF FaultsByWindow
<1> QED
  BY <1>2, <1>5, <1>7, <1>8, <1>9, <1>10, <1>11, <1>12

\* When no task is in a window that no interrupt has come in, what is said of the task
\* that runs holds of whichever does.
LEMMA AllHit ==
  ASSUME pc'[Idle] = "run", current' \in AllTasks,
         \A t \in AllTasks : pc'[t] # "run" => pc'[t] \in hit'
  PROVE  /\ Windowed'
         /\ OwnRequestListed'
         /\ (Clean(Stores) /\ pc[current] \in Stores => loaded[current] = block_request_count)'
BY PointsApart DEF Windowed, OwnRequestListed, Clean, Stores, AllTasks

LEMMA SleepSwitchStep == ASSUME DInv, fault = "none", SleepSwitch PROVE DInv'
PROOF
<1> USE DEF DInv
<1>1. UNCHANGED <<node, loaded, owner, count, requests, in_using,
                  block_request_count, device, sectors, irq, hit>>
      /\ pc[current] = "switch" /\ pc' = [pc EXCEPT ![current] = "run"]
  BY DEF SleepSwitch, Goto, requestVars, driveVars, localVars
<1>2. AllTasks = Tasks \cup {Idle} /\ Idle \notin Tasks
  BY IdleAssumption DEF AllTasks
<1>3. /\ current \in Tasks /\ pc'[current] = "run" /\ pc' \in [AllTasks -> PCs]
      /\ \A t \in AllTasks \ {current} : pc'[t] = pc[t]
  BY <1>1, <1>2, PointsApart DEF TypeOK, Windowed
<1>4. /\ state' = state /\ current' \in AllTasks /\ queued' \subseteq Tasks
      /\ fault' \in {"none", "list_corrupted"}
      /\ state[current] # "RUNNING" => queued' \subseteq queued /\ current' \in {Idle} \cup queued
      /\ current \notin queued => fault' = "none" /\ current' \notin queued'
  BY RescheduleTypes DEF SleepSwitch, TypeOK
<1>5. TypeOK'
  BY <1>1, <1>3, <1>4 DEF TypeOK
<1>6. \A t \in AllTasks : pc'[t] # "run" => pc'[t] \in hit'
  BY <1>1, <1>2, <1>3 DEF Windowed
<1>7. pc'[Idle] = "run"
  BY <1>2, <1>3 DEF Windowed
<1>8. /\ At(Issuing)' = At(Issuing) /\ At(Windows)' = At(Windows) \ {current}
      /\ At(Deciding)' = At(Deciding)
      /\ At(Counting)' = At(Counting) /\ At(Uncounting)' = At(Uncounting)
  BY <1>1, <1>2, <1>3, PointsApart DEF At, Deciding, Counting, Uncounting
<1>9. IsFiniteSet(At(Windows)')
  BY <1>8, FS_Subset DEF Counted
<1>10. FaultsByWindow'
  BY <1>1, <1>4 DEF FaultsByWindow, Sleepers, SleepersOut, Clean, Alive
<1>11. CASE fault' # "none"
  BY <1>5, <1>6, <1>7, <1>4, <1>9, <1>10, <1>11, AllHit, FaultStep
<1>12. CASE fault' = "none"
  <2>1. Requests'
    BY <1>1, <1>8, RequestsStay
  <2>2. Counted'
    <3>1. CountMatches'
      BY <1>1, <1>8 DEF Counted, CountMatches, Alive
    <3> QED
      BY <3>1, <1>4, <1>6, <1>7, <1>9, AllHit DEF Counted
  <2>3. InUsingLocks'
    BY <1>1, <1>8 DEF InUsingLocks, Clean, Alive
  <2>4. Sleepers'
    <3> SUFFICES ASSUME Clean(Deciding \cup Hasty) PROVE SleepersOut'
      BY <1>1, <1>12 DEF Sleepers, Clean, Alive
    <3>1. SleepersOut
      BY DEF Sleepers
    <3>2. /\ state[current] = "UNINTERRUPTIBLE" /\ current \notin queued
          /\ queued' \subseteq queued /\ current' \in {Idle} \cup queued /\ current' \notin queued'
      BY <3>1, <1>1, <1>3, <1>4 DEF SleepersOut
    <3>3. \A t \in Tasks : state[t] = "UNINTERRUPTIBLE" => t \notin queued
      BY <3>1, <3>2 DEF SleepersOut
    <3>4. owner \in [Nodes -> Tasks \cup {NoTask}]
      BY DEF TypeOK
    <3>5. \A t \in Tasks : pc'[t] = "switch" => state'[t] = "UNINTERRUPTIBLE"
      BY <3>1, <1>2, <1>3, <1>4 DEF SleepersOut
    <3>6. ASSUME NEW t \in Tasks, state'[t] = "UNINTERRUPTIBLE"
          PROVE  t \notin queued' /\ t # current' /\ (pc'[t] = "switch" \/ pc'[t] = "run")
      BY <3>1, <3>2, <3>3, <3>6, <1>2, <1>3, <1>4 DEF SleepersOut
    <3>7. \A n \in Nodes : owner'[n] # NoTask =>
            /\ pc'[owner'[n]] = "run" => state'[owner'[n]] = "UNINTERRUPTIBLE"
            /\ \A m \in Nodes \ {n} : owner'[m] # owner'[n]
      BY <3>1, <3>2, <3>4, <1>1, <1>2, <1>3, <1>4 DEF SleepersOut
    <3>8. state'[Idle] = "RUNNING"
      BY <3>1, <1>4 DEF SleepersOut
    <3> QED
      BY <3>2, <3>5, <3>6, <3>7, <3>8 DEF SleepersOut
  <2> QED
    BY <1>4, <1>5, <1>6, <1>7, <1>10, <2>1, <2>2, <2>3, <2>4, AllHit
<1> QED
  BY <1>11, <1>12
-----------------------------------------------------------------------------
(* Interrupts and the drive *)

LEMMA SectorDoneStep == ASSUME DInv, fault = "none", SectorDone PROVE DInv'
PROOF
<1> USE DEF DInv
<1>1. UNCHANGED <<current, state, queued, fault, pc, node, loaded, owner, count, requests,
                  in_using, block_request_count, device, sectors, hit>>
      /\ irq' = TRUE /\ device # NoNode
  BY DEF SectorDone, dispatchVars, requestVars, localVars
<1>2. TypeOK'
  BY <1>1 DEF TypeOK
<1>3. /\ At(Issuing)' = At(Issuing) /\ At(Windows)' = At(Windows)
      /\ At(Deciding)' = At(Deciding)
      /\ At(Counting)' = At(Counting) /\ At(Uncounting)' = At(Uncounting)
  BY <1>1 DEF At
<1>4. Windowed' /\ FaultsByWindow' /\ OwnRequestListed' /\ Sleepers'
  BY <1>1 DEF Windowed, FaultsByWindow, OwnRequestListed, Sleepers, SleepersOut, Clean, Alive
<1>5. Requests'
  BY <1>1, <1>3, RequestsStay
<1>6. Counted' /\ InUsingLocks'
  BY <1>1, <1>3 DEF Counted, CountMatches, InUsingLocks, Clean, Alive
<1> QED
  BY <1>2, <1>4, <1>5, <1>6

\* An interrupt leaves no window unhit, and the points where the tasks are.
LEMMA InterruptHits ==
  ASSUME TypeOK, Windowed, Interrupted, UNCHANGED pc
  PROVE  /\ hit \subseteq hit' /\ hit' \subseteq Windows
         /\ pc'[Idle] = "run" /\ \A t \in AllTasks : pc'[t] # "run" => pc'[t] \in hit'
         /\ \A X : At(X)' = At(X)
PROOF
<1>1. hit' = hit \cup ({pc[current]} \cap Windows) /\ pc' = pc
  BY DEF Interrupted
<1>2. \A X : At(X)' = At(X)
  BY <1>1 DEF At
<1>3. hit \subseteq hit' /\ hit' \subseteq Windows
  BY <1>1 DEF TypeOK
<1>4. \A t \in AllTasks : pc'[t] # "run" => pc'[t] \in hit'
  BY <1>1, PointsApart DEF TypeOK, Windowed, AllTasks
<1> QED
  BY <1>1, <1>2, <1>3, <1>4 DEF Windowed

\* Where the tasks are after an interrupt that has come in no harmful window: awake
\* outside of a transfer, asleep in one, or in cmd_out behind the setting of in_using.
LEMMA SleepersAtInterrupt ==
  ASSUME DInv, fault = "none", Interrupted, UNCHANGED pc,
         hit' \cap (Deciding \cup Hasty) = {}
  PROVE  /\ SleepersOut /\ state[current] = "RUNNING"
         /\ \A t \in Tasks : state[t] = "UNINTERRUPTIBLE" => t \notin queued /\ t # current
         /\ \A t \in Tasks : state[t] = "UNINTERRUPTIBLE" => pc[t] = "run"
         /\ \A t \in Tasks : pc[t] # "run" => t \in At(Issuing)
PROOF
<1> USE DEF DInv
<1>1. /\ hit \subseteq hit' /\ pc' = pc
      /\ \A t \in AllTasks : pc'[t] # "run" => pc'[t] \in hit'
  BY InterruptHits
<1>2. SleepersOut
  BY <1>1 DEF Sleepers, Clean, Alive
<1>3. \A t \in AllTasks : pc[t] # "run" => pc[t] \in Issuing
  BY <1>1, PointsApart DEF TypeOK
<1>4. \A t \in Tasks : pc[t] # "switch"
  BY <1>3, PointsApart DEF AllTasks
<1>5. state[current] = "RUNNING"
  BY <1>2, <1>4 DEF SleepersOut, TypeOK, AllTasks
<1>6. \A t \in Tasks : pc[t] # "run" => t \in At(Issuing)
  BY <1>3 DEF At, AllTasks
<1> QED
  BY <1>2, <1>4, <1>5, <1>6 DEF SleepersOut, TypeOK, AllTasks

\* The scheduler's part of an interrupt that wakes nobody.
LEMMA InterruptReturns ==
  ASSUME DInv, fault = "none", RetFromIntr(state, queued), Interrupted,
         UNCHANGED <<pc, owner>>
  PROVE  /\ state' = state /\ current' \in AllTasks /\ queued' \subseteq Tasks
         /\ fault' \in {"none", "list_corrupted"}
         /\ Sleepers' /\ FaultsByWindow'
PROOF
<1> USE DEF DInv
<1>1. /\ state' = state /\ current' \in AllTasks /\ queued' \subseteq Tasks
      /\ fault' \in {"none", "list_corrupted"}
      /\ current \notin queued /\ state[current] = "RUNNING"
           /\ (\A t \in Tasks : state[t] = "UNINTERRUPTIBLE" => t \notin queued)
         => /\ fault' = "none" /\ current' \notin queued'
            /\ \A t \in Tasks : state[t] = "UNINTERRUPTIBLE" => t \notin queued' /\ t # current'
  BY ReturnKeepsApart DEF TypeOK, TaskStates
<1>2. ASSUME hit' \cap (Deciding \cup Hasty) = {}
      PROVE  fault' = "none" /\ SleepersOut'
  <2>1. /\ SleepersOut /\ state[current] = "RUNNING"
        /\ \A t \in Tasks : state[t] = "UNINTERRUPTIBLE" => t \notin queued /\ t # current
        /\ \A t \in Tasks : state[t] = "UNINTERRUPTIBLE" => pc[t] = "run"
        /\ \A t \in Tasks : pc[t] # "run" => t \in At(Issuing)
    BY <1>2, SleepersAtInterrupt
  <2>2. /\ fault' = "none" /\ current' \notin queued'
        /\ \A t \in Tasks : state[t] = "UNINTERRUPTIBLE" => t \notin queued' /\ t # current'
    BY <1>1, <2>1 DEF SleepersOut
  <2> QED
    BY <1>1, <2>1, <2>2 DEF SleepersOut
<1> QED
  BY <1>1, <1>2 DEF Sleepers, Clean, FaultsByWindow

LEMMA TickStep == ASSUME DInv, fault = "none", Tick PROVE DInv'
PROOF
<1> USE DEF DInv
<1>1. UNCHANGED <<pc, node, loaded, owner, count, requests,
                  in_using, block_request_count, device, sectors, irq>>
      /\ RetFromIntr(state, queued) /\ Interrupted
  BY DEF Tick, requestVars, driveVars, localVars
<1>2. /\ state' = state /\ current' \in AllTasks /\ queued' \subseteq Tasks
      /\ fault' \in {"none", "list_corrupted"}
      /\ Sleepers' /\ FaultsByWindow'
  BY <1>1, InterruptReturns
<1>3. /\ hit \subseteq hit' /\ hit' \subseteq Windows
      /\ pc'[Idle] = "run" /\ \A t \in AllTasks : pc'[t] # "run" => pc'[t] \in hit'
      /\ At(Issuing)' = At(Issuing) /\ At(Windows)' = At(Windows)
      /\ At(Deciding)' = At(Deciding)
      /\ At(Counting)' = At(Counting) /\ At(Uncounting)' = At(Uncounting)
  BY <1>1, InterruptHits
<1>4. TypeOK'
  BY <1>1, <1>2, <1>3 DEF TypeOK
<1>5. IsFiniteSet(At(Windows)')
  BY <1>3 DEF Counted
<1>6. CASE fault' # "none"
  BY <1>2, <1>3, <1>4, <1>5, <1>6, AllHit, FaultStep
<1>7. CASE fault' = "none"
  <2>1. Requests'
    BY <1>1, <1>3, RequestsStay
  <2>2. CountMatches'
    BY <1>1, <1>3 DEF Counted, CountMatches, Alive
  <2>3. InUsingLocks'
    BY <1>1, <1>3 DEF InUsingLocks, Clean, Alive
  <2> QED
    BY <1>2, <1>3, <1>4, <1>5, <2>1, <2>2, <2>3, AllHit DEF Counted
<1> QED
  BY <1>6, <1>7

\* What the handler finds: a drive with a command, whose node it may be wrong about.
LEMMA AtSector ==
  ASSUME DInv, fault = "none", irq
  PROVE  /\ device \in Nodes /\ owner[device] \in Tasks
         /\ sectors = count[device] /\ count[device] \in 1..MaxSectors
         /\ device \notin ToSet(requests) /\ \A t \in At(Issuing) : node[t] # device
PROOF
<1>1. device # NoNode /\ device \in Nodes
  BY DEF DInv, Requests, Alive, TypeOK
<1>2. owner[device] \in Tasks
  BY <1>1 DEF DInv, Requests, Alive, TypeOK
<1>3. count[device] >= 1 /\ count[device] \in 0..MaxSectors
  BY <1>1 DEF DInv, Requests, Alive, TypeOK
<1>4. count[device] \in 1..MaxSectors
  BY <1>3, DiskAssumption
<1> QED
  BY <1>1, <1>2, <1>4 DEF DInv, Requests, Alive

\* A sector that is not the last of its request.
LEMMA SectorStep ==
  ASSUME DInv, fault = "none", irq, in_using = device, Interrupted, UNCHANGED <<pc, localVars>>,
         ~LastSector, SectorRead, RetFromIntr(state, queued), UNCHANGED <<owner, requestVars>>,
         count' = [count EXCEPT ![in_using] = @ - 1]
  PROVE  DInv'
PROOF
<1> USE DEF DInv
<1>1. UNCHANGED <<pc, node, loaded, owner, requests, in_using, block_request_count>>
  BY DEF requestVars, localVars
<1>2. /\ state' = state /\ current' \in AllTasks /\ queued' \subseteq Tasks
      /\ fault' \in {"none", "list_corrupted"}
      /\ Sleepers' /\ FaultsByWindow'
  BY <1>1, InterruptReturns
<1>3. /\ hit \subseteq hit' /\ hit' \subseteq Windows
      /\ pc'[Idle] = "run" /\ \A t \in AllTasks : pc'[t] # "run" => pc'[t] \in hit'
      /\ At(Issuing)' = At(Issuing) /\ At(Windows)' = At(Windows)
      /\ At(Deciding)' = At(Deciding)
      /\ At(Counting)' = At(Counting) /\ At(Uncounting)' = At(Uncounting)
  BY <1>1, InterruptHits
<1>4. /\ device \in Nodes /\ owner[device] \in Tasks
      /\ sectors = count[device] /\ count[device] \in 1..MaxSectors /\ sectors # 1
  BY AtSector DEF LastSector
<1>5. device' = device /\ irq' = FALSE /\ sectors' = count[device] - 1
  BY <1>4 DEF SectorRead
<1>6. /\ count[device] - 1 \in 0..MaxSectors /\ count[device] - 1 >= 1
  BY <1>4, DiskAssumption
<1>7. /\ count' \in [Nodes -> 0..MaxSectors] /\ count'[device] = count[device] - 1
      /\ \A n \in Nodes \ {device} : count'[n] = count[n]
  BY <1>4, <1>6 DEF TypeOK
<1>8. TypeOK'
  BY <1>1, <1>2, <1>3, <1>5, <1>6, <1>7 DEF TypeOK
<1>9. IsFiniteSet(At(Windows)')
  BY <1>3 DEF Counted
<1>10. CASE fault' # "none"
  BY <1>2, <1>3, <1>8, <1>9, <1>10, AllHit, FaultStep
<1>11. CASE fault' = "none"
  <2>1. Requests'
    <3>1. \A n \in Nodes : owner[n] # NoTask => count'[n] >= 1
      BY <1>6, <1>7 DEF Requests, Alive
    <3>2. sectors' = count'[device]
      BY <1>5, <1>7
    <3> QED
      BY <3>1, <3>2, <1>1, <1>3, <1>5 DEF Requests, Alive
  <2>2. CountMatches'
    BY <1>1, <1>3 DEF Counted, CountMatches, Alive
  <2>3. InUsingLocks'
    BY <1>1, <1>3, <1>5 DEF InUsingLocks, Clean, Alive
  <2> QED
    BY <1>2, <1>3, <1>8, <1>9, <2>1, <2>2, <2>3, AllHit DEF Counted
<1> QED
  BY <1>10, <1>11

\* The last sector of a request: its owner is woken, and sleeps unless a window was hit,
\* since nobody is in cmd_out while the drive is at work.
LEMMA OwnerWoken ==
  ASSUME DInv, fault = "none", irq, in_using = device, Interrupted, UNCHANGED pc,
         owner' = [owner EXCEPT ![in_using] = NoTask], WakeAndReturn(owner[in_using])
  PROVE  /\ state' \in TaskStates /\ current' \in AllTasks /\ queued' \subseteq Tasks
         /\ fault' \in {"none", "list_corrupted"}
         /\ Sleepers' /\ FaultsByWindow'
PROOF
<1> USE DEF DInv
<1> DEFINE t == owner[in_using]
           st == [state EXCEPT ![t] = "RUNNING"]
           q == queued \cup ({t} \ {Idle})
<1>1. in_using \in Nodes /\ t \in Tasks /\ t # Idle /\ t \in AllTasks
  BY AtSector, IdleAssumption DEF AllTasks
<1>2. st \in TaskStates /\ q \in SUBSET Tasks /\ q = queued \cup {t}
  BY <1>1 DEF TypeOK, TaskStates
<1>3. \/ t \notin queued /\ RetFromIntr(st, q)
      \/ t \in queued /\ fault' = "list_corrupted" /\ UNCHANGED <<current, state, queued>>
  BY DEF WakeAndReturn
<1>4. owner \in [Nodes -> Tasks \cup {NoTask}] /\ owner'[in_using] = NoTask
      /\ \A n \in Nodes \ {in_using} : owner'[n] = owner[n]
  BY <1>1 DEF TypeOK
<1> HIDE DEF t, st, q
<1>5. ASSUME RetFromIntr(st, q)
      PROVE  /\ state' = st /\ current' \in AllTasks /\ queued' \subseteq Tasks
             /\ fault' \in {"none", "list_corrupted"}
             /\ current \notin q /\ st[current] = "RUNNING"
                  /\ (\A u \in Tasks : st[u] = "UNINTERRUPTIBLE" => u \notin q)
                => /\ fault' = "none" /\ current' \notin queued'
                   /\ \A u \in Tasks : st[u] = "UNINTERRUPTIBLE" => u \notin queued' /\ u # current'
  BY <1>2, <1>5, ReturnKeepsApart DEF TypeOK
<1>6. ASSUME hit' \cap (Deciding \cup Hasty) = {}
      PROVE  fault' = "none" /\ SleepersOut'
  <2>1. /\ SleepersOut /\ state[current] = "RUNNING"
        /\ \A u \in Tasks : state[u] = "UNINTERRUPTIBLE" => u \notin queued /\ u # current
        /\ \A u \in Tasks : state[u] = "UNINTERRUPTIBLE" => pc[u] = "run"
        /\ \A u \in Tasks : pc[u] # "run" => u \in At(Issuing)
    BY <1>6, SleepersAtInterrupt
  <2>2. hit \cap Deciding = {} /\ in_using # NoNode
    BY <1>1, <1>6, InterruptHits, DiskAssumption
  <2>3. At(Issuing) = {}
    BY <2>2, AtSector DEF InUsingLocks, Clean, Alive
  <2>4. \A u \in Tasks : pc[u] = "run"
    BY <2>1, <2>3
  <2>5. state[t] = "UNINTERRUPTIBLE"
    BY <2>1, <2>4, <1>1, DiskAssumption DEF SleepersOut, t, AllTasks
  <2>6. t \notin queued /\ t # current
    BY <2>1, <2>5, <1>1
  <2>7. st[t] = "RUNNING" /\ \A u \in AllTasks \ {t} : st[u] = state[u]
    BY <1>1 DEF st, TypeOK
  <2>8. /\ fault' = "none" /\ current' \notin queued' /\ state' = st
        /\ \A u \in Tasks : st[u] = "UNINTERRUPTIBLE" => u \notin queued' /\ u # current'
    BY <1>2, <1>3, <1>5, <2>1, <2>6, <2>7 DEF SleepersOut, TypeOK, AllTasks
  <2>9. \A n \in Nodes : owner'[n] # NoTask =>
          /\ n # in_using /\ owner'[n] = owner[n] /\ owner[n] # t /\ owner[n] \in Tasks
          /\ \A m \in Nodes \ {n} : owner'[m] # owner'[n]
    BY <1>1, <1>4, <2>1, DiskAssumption DEF SleepersOut, t, AllTasks
  <2>10. \A n \in Nodes : owner'[n] # NoTask =>
          /\ pc'[owner'[n]] = "run" => state'[owner'[n]] = "UNINTERRUPTIBLE"
          /\ \A m \in Nodes \ {n} : owner'[m] # owner'[n]
    BY <2>1, <2>7, <2>8, <2>9 DEF SleepersOut, AllTasks
  <2>11. \A u \in Tasks : pc'[u] = "run"
    BY <2>4
  <2>12. state'[Idle] = "RUNNING"
    BY <2>1, <2>7, <2>8, <1>1 DEF SleepersOut, AllTasks
  <2> QED
    BY <2>8, <2>10, <2>11, <2>12 DEF SleepersOut
<1>7. /\ state' \in TaskStates /\ current' \in AllTasks /\ queued' \subseteq Tasks
      /\ fault' \in {"none", "list_corrupted"}
  BY <1>2, <1>3, <1>5 DEF TypeOK, TaskStates
<1> QED
  BY <1>6, <1>7 DEF Sleepers, Clean, FaultsByWindow

LEMMA LastSectorStep ==
  ASSUME DInv, fault = "none", irq, in_using = device, Interrupted, UNCHANGED <<pc, localVars>>,
         LastSector, owner' = [owner EXCEPT ![in_using] = NoTask], NextCommand,
         WakeAndReturn(owner[in_using]), count' = [count EXCEPT ![in_using] = @ - 1]
  PROVE  DInv'
PROOF
<1> USE DEF DInv
<1>1. UNCHANGED <<pc, node, loaded>>
  BY DEF localVars
<1>2. /\ state' \in TaskStates /\ current' \in AllTasks /\ queued' \subseteq Tasks
      /\ fault' \in {"none", "list_corrupted"}
      /\ Sleepers' /\ FaultsByWindow'
  BY <1>1, OwnerWoken
<1>3. /\ hit \subseteq hit' /\ hit' \subseteq Windows
      /\ pc'[Idle] = "run" /\ \A t \in AllTasks : pc'[t] # "run" => pc'[t] \in hit'
      /\ At(Issuing)' = At(Issuing) /\ At(Windows)' = At(Windows)
      /\ At(Deciding)' = At(Deciding)
      /\ At(Counting)' = At(Counting) /\ At(Uncounting)' = At(Uncounting)
  BY <1>1, InterruptHits
<1>4. /\ device \in Nodes /\ device # NoNode
      /\ sectors = 1 /\ count[device] = 1
      /\ device \notin ToSet(requests) /\ \A t \in At(Issuing) : node[t] # device
  BY AtSector, DiskAssumption DEF LastSector
<1>5. /\ count' \in [Nodes -> 0..MaxSectors]
      /\ \A n \in Nodes \ {device} : count'[n] = count[n]
  <2>1. count[device] - 1 = 0 /\ 0 \in 0..MaxSectors
    BY <1>4, DiskAssumption
  <2> QED
    BY <2>1, <1>4 DEF TypeOK
<1>6. /\ owner' \in [Nodes -> Tasks \cup {NoTask}] /\ owner'[device] = NoTask
      /\ \A n \in Nodes \ {device} : owner'[n] = owner[n]
  BY <1>4 DEF TypeOK
<1>7. requests \in Seq(Nodes) /\ IsInjective(requests) /\ block_request_count \in Int
  BY DEF TypeOK, Requests, Alive
<1>8. IsFiniteSet(At(Windows)')
  BY <1>3 DEF Counted
<1>9. \A t \in At(Issuing) :
        /\ node[t] \in Nodes /\ owner'[node[t]] # NoTask
        /\ \A u \in At(Issuing) \ {t} : node[u] # node[t]
  BY <1>4, <1>6 DEF Requests, Alive
<1>10. \A n \in Nodes : owner'[n] # NoTask => count'[n] >= 1
  BY <1>5, <1>6 DEF Requests, Alive
\* A task behind the setting of in_using would have set it to its own node.
<1>11. hit' \cap Deciding = {} => At(Issuing)' = {} /\ At(Deciding)' = {}
  <2>1. hit' \cap Deciding = {} => At(Deciding)' = {}
    BY <1>3, PointsApart DEF At, Deciding, AllTasks
  <2>2. hit' \cap Deciding = {} => At(Issuing) = {}
    BY <1>3, <1>4 DEF InUsingLocks, Clean, Alive
  <2> QED
    BY <1>3, <2>1, <2>2
<1>12. CASE /\ block_request_count = 0 /\ in_using' = NoNode /\ SectorRead
            /\ UNCHANGED <<requests, block_request_count>>
  <2>1. device' = NoNode /\ irq' = FALSE /\ sectors' = 0
    BY <1>4, <1>12 DEF SectorRead
  <2>2. TypeOK'
    <3>1. /\ device' \in Nodes \cup {NoNode} /\ in_using' \in Nodes \cup {NoNode}
          /\ irq' \in BOOLEAN
      BY <1>12, <2>1
    <3>4. sectors' \in 0..MaxSectors
      BY <2>1, DiskAssumption
    <3>2. requests' \in Seq(Nodes) /\ block_request_count' \in Int
      BY <1>7, <1>12
    <3>3. /\ pc' \in [AllTasks -> PCs] /\ node' \in [AllTasks -> Nodes \cup {NoNode}]
          /\ loaded' \in [AllTasks -> Int]
      BY <1>1 DEF TypeOK
    <3> QED
      BY <1>2, <1>3, <1>5, <1>6, <3>1, <3>2, <3>3, <3>4 DEF TypeOK, TaskStates
  <2>3. CASE fault' # "none"
    BY <1>2, <1>3, <1>8, <2>2, <2>3, AllHit, FaultStep
  <2>4. CASE fault' = "none"
    <3>1. \A n \in ToSet(requests) : owner'[n] # NoTask /\ n # NoNode
            /\ \A t \in At(Issuing) : n # node[t]
      <4>1. ToSet(requests) \subseteq Nodes \ {device}
        BY <1>4, <1>7, ElementOfSeq, LenProperties DEF ToSet
      <4> QED
        BY <4>1, <1>6, DiskAssumption DEF Requests, Alive
    <3>2. Requests'
      BY <3>1, <1>1, <1>3, <1>7, <1>9, <1>10, <1>12, <2>1, DiskAssumption DEF Requests
    <3>3. CountMatches'
      BY <1>3, <1>12 DEF Counted, CountMatches, Alive
    <3>4. InUsingLocks'
      BY <1>11, <1>12, <2>1 DEF InUsingLocks, Clean
    <3> QED
      BY <1>2, <1>3, <1>8, <2>2, <3>2, <3>3, <3>4, AllHit DEF Counted
  <2> QED
    BY <2>3, <2>4
<1>13. CASE /\ block_request_count # 0 /\ requests # <<>>
            /\ in_using' = Head(requests) /\ requests' = Tail(requests)
            /\ block_request_count' = block_request_count - 1 /\ Command(Head(requests))
  <2>1. /\ requests' \in Seq(Nodes) /\ Len(requests') = Len(requests) - 1
        /\ ToSet(requests) = {in_using'} \cup ToSet(requests') /\ in_using' \in Nodes
        /\ IsInjective(requests') /\ in_using' \notin ToSet(requests')
    BY <1>7, <1>13, FirstEntry, FirstApart
  <2>2. device' = in_using' /\ irq' = FALSE /\ sectors' = count[in_using'] /\ in_using' # device
    BY <1>4, <1>13, <2>1 DEF Command
  <2>3. sectors' = count'[device'] /\ sectors' \in 0..MaxSectors
    BY <1>5, <2>1, <2>2 DEF TypeOK
  <2>4. TypeOK'
    <3>1. /\ device' \in Nodes \cup {NoNode} /\ in_using' \in Nodes \cup {NoNode}
          /\ irq' \in BOOLEAN
      BY <2>1, <2>2
    <3>2. requests' \in Seq(Nodes) /\ block_request_count' \in Int
      BY <1>7, <1>13, <2>1
    <3>3. /\ pc' \in [AllTasks -> PCs] /\ node' \in [AllTasks -> Nodes \cup {NoNode}]
          /\ loaded' \in [AllTasks -> Int]
      BY <1>1 DEF TypeOK
    <3> QED
      BY <1>2, <1>3, <1>5, <1>6, <2>3, <3>1, <3>2, <3>3 DEF TypeOK, TaskStates
  <2>5. CASE fault' # "none"
    BY <1>2, <1>3, <1>8, <2>4, <2>5, AllHit, FaultStep
  <2>6. CASE fault' = "none"
    <3>1. \A n \in ToSet(requests) : owner'[n] # NoTask /\ \A t \in At(Issuing) : n # node[t]
      <4>1. ToSet(requests) \subseteq Nodes \ {device}
        BY <1>4, <1>7, ElementOfSeq, LenProperties DEF ToSet
      <4> QED
        BY <4>1, <1>6 DEF Requests, Alive
    <3>2. Requests'
      BY <3>1, <1>1, <1>3, <1>9, <1>10, <2>1, <2>2, <2>3 DEF Requests
    <3>3. CountMatches'
      <4>1. Counting \subseteq Windows /\ Uncounting \subseteq Windows
        BY DEF Windows
      <4>2. Cardinality(At(Counting)) \in Nat /\ Cardinality(At(Uncounting)) \in Nat /\ Len(requests) \in Nat
        BY <4>1, <1>7, AtFinite, LenProperties DEF Counted
      <4> QED
        BY <4>2, <1>3, <1>7, <1>13, <2>1 DEF Counted, CountMatches, Alive
    <3>4. InUsingLocks'
      BY <1>11, <2>2 DEF InUsingLocks, Clean
    <3> QED
      BY <1>2, <1>3, <1>8, <2>4, <3>2, <3>3, <3>4, AllHit DEF Counted
  <2> QED
    BY <2>5, <2>6
<1> QED
  BY <1>12, <1>13 DEF NextCommand

\* The handler finds something wrong only after an interrupt in a window.
LEMMA AstrayStep ==
  ASSUME DInv, fault = "none", irq, HandleAstray, Interrupted, UNCHANGED <<pc, localVars>>
  PROVE  DInv'
PROOF
<1> USE DEF DInv
<1>1. UNCHANGED <<pc, node, loaded, current, state, queued, owner, count, requests, in_using,
                  block_request_count, device, sectors, irq>>
  BY DEF HandleAstray, localVars, requestVars, driveVars
<1>2. /\ hit \subseteq hit' /\ hit' \subseteq Windows
      /\ pc'[Idle] = "run" /\ \A t \in AllTasks : pc'[t] # "run" => pc'[t] \in hit'
      /\ At(Windows)' = At(Windows)
  BY <1>1, InterruptHits
<1>3. fault' \in {"null_deref", "wrong_request", "no_request"}
  BY DEF HandleAstray
<1>4. TypeOK'
  BY <1>1, <1>2, <1>3 DEF TypeOK
<1>5. device \in Nodes /\ device # NoNode
  BY AtSector, DiskAssumption
<1>6. hit' \cap Deciding = {} => in_using = device
  BY <1>2, <1>5 DEF InUsingLocks, Clean, Alive
<1>7. ASSUME in_using = NoNode, fault' = "null_deref" PROVE FaultsByWindow'
  BY <1>5, <1>6, <1>7 DEF FaultsByWindow
<1>8. ASSUME in_using \notin {NoNode, device}, fault' = "wrong_request" PROVE FaultsByWindow'
  BY <1>6, <1>8 DEF FaultsByWindow
<1>9. ASSUME block_request_count # 0, requests = <<>>, fault' = "no_request"
      PROVE  FaultsByWindow'
  <2> SUFFICES ASSUME hit' \cap (Deciding \cup Counting \cup {"test", "uncount_store"}) = {}
               PROVE  FALSE
    BY <1>9 DEF FaultsByWindow
  <2>1. At(Counting) = {}
    BY <1>1, <1>2, PointsApart DEF At, Counting, AllTasks
  <2>2. At(Issuing) = {}
    BY <1>2, <1>5, <1>6, AtSector DEF InUsingLocks, Clean, Alive
  <2>3. At(Uncounting) = {}
    BY <2>2 DEF At, Issuing
  <2>4. hit \cap Stores = {}
    BY <1>2 DEF Stores, Counting
  <2>5. block_request_count = Len(requests) - Cardinality(At(Counting)) + Cardinality(At(Uncounting))
    BY <2>4 DEF Counted, CountMatches, Alive
  <2>6. Len(requests) = 0 /\ Cardinality({}) = 0
    BY <1>9, FS_EmptySet
  <2> QED
    BY <2>1, <2>3, <2>5, <2>6, <1>9
<1>10. FaultsByWindow'
  BY <1>7, <1>8, <1>9 DEF HandleAstray
<1>11. IsFiniteSet(At(Windows)') /\ current' \in AllTasks
  BY <1>1, <1>2 DEF Counted, TypeOK
<1> QED
  BY <1>2, <1>3, <1>4, <1>10, <1>11, AllHit, FaultStep

LEMMA Disk_handlerStep == ASSUME DInv, fault = "none", Disk_handler PROVE DInv'
PROOF
<1>1. irq /\ Interrupted /\ UNCHANGED <<pc, localVars>>
  BY DEF Disk_handler
<1>2. CASE HandleAstray
  BY <1>1, <1>2, AstrayStep
<1>3. CASE in_using = device /\ HandleSector
  BY <1>1, <1>3, SectorStep, LastSectorStep DEF HandleSector
<1> QED
  BY <1>2, <1>3 DEF Disk_handler
-----------------------------------------------------------------------------
(* The theorems *)

LEMMA DInvInit == Init => DInv
PROOF
<1> SUFFICES ASSUME Init PROVE DInv
  OBVIOUS
<1> USE DEF Init
<1>1. << >> \in Seq(Nodes) /\ ToSet(<< >>) = {} /\ IsInjective(<< >>) /\ Len(<< >>) = 0
  BY EmptySeq DEF ToSet, IsInjective
<1>2. AllTasks = Tasks \cup {Idle} /\ Idle \notin Tasks
  BY IdleAssumption DEF AllTasks
<1>3. \A X \in SUBSET Windows : At(X) = {}
  BY <1>2, PointsApart DEF At
<1>4. IsFiniteSet({}) /\ Cardinality({}) = 0
  BY FS_EmptySet
<1>5. Counting \subseteq Windows /\ Uncounting \subseteq Windows /\ Issuing \subseteq Windows
      /\ Deciding \subseteq Windows
  BY DEF Windows, Issuing
<1>6. TypeOK
  <2>1. current \in AllTasks /\ state \in [AllTasks -> {"RUNNING", "UNINTERRUPTIBLE"}]
    BY <1>2
  <2>2. pc \in [AllTasks -> PCs] /\ node \in [AllTasks -> Nodes \cup {NoNode}]
    BY PointsApart
  <2>3. /\ owner \in [Nodes -> Tasks \cup {NoTask}] /\ count \in [Nodes -> 0..MaxSectors]
        /\ sectors \in 0..MaxSectors
    BY DiskAssumption
  <2>4. requests \in Seq(Nodes) /\ block_request_count \in Int /\ loaded \in [AllTasks -> Int]
    BY <1>1
  <2> QED
    BY <2>1, <2>2, <2>3, <2>4 DEF TypeOK
<1>7. Windowed
  BY <1>2 DEF Windowed
<1>8. Requests
  BY <1>1, <1>3, <1>5 DEF Requests
<1>9. Counted
  <2>1. At(Windows) = {} /\ At(Counting) = {} /\ At(Uncounting) = {}
    BY <1>3, <1>5
  <2>2. CountMatches
    BY <1>1, <1>4, <2>1 DEF CountMatches
  <2>3. pc[current] \notin Stores
    BY <1>2 DEF Stores
  <2> QED
    BY <1>4, <2>1, <2>2, <2>3 DEF Counted
<1>10. InUsingLocks /\ OwnRequestListed /\ FaultsByWindow
  BY <1>2, <1>3, <1>5, PointsApart DEF InUsingLocks, OwnRequestListed, FaultsByWindow
<1>11. Sleepers
  BY <1>2 DEF Sleepers, SleepersOut
<1> QED
  BY <1>6, <1>7, <1>8, <1>9, <1>10, <1>11 DEF DInv

LEMMA DInvNext == DInv /\ [Next]_vars => DInv'
PROOF
<1> SUFFICES ASSUME DInv, [Next]_vars PROVE DInv'
  OBVIOUS
<1>1. CASE UNCHANGED vars
  <2>1. UNCHANGED <<current, state, queued, fault, pc, node, loaded, owner, count, requests,
                    in_using, block_request_count, device, sectors, irq, hit>>
    BY <1>1 DEF vars, dispatchVars, localVars, requestVars, driveVars
  <2>2. \A X : At(X)' = At(X)
    BY <2>1 DEF At
  <2>3. TypeOK' /\ Windowed' /\ Requests'
    BY <2>1, <2>2 DEF DInv, TypeOK, Windowed, Requests, Alive
  <2>4. Counted' /\ InUsingLocks'
    BY <2>1, <2>2 DEF DInv, Counted, CountMatches, InUsingLocks, Clean, Alive
  <2>5. OwnRequestListed' /\ Sleepers' /\ FaultsByWindow'
    BY <2>1 DEF DInv, OwnRequestListed, Sleepers, SleepersOut, FaultsByWindow, Clean, Alive
  <2> QED
    BY <2>3, <2>4, <2>5 DEF DInv
<1>2. CASE Running
  BY <1>2, SubmitStep, LoadCountStep, StoreCountStep, TestStep, TakeStep, ClaimStep, IssueStep,
     SleepSetStateStep, SleepSwitchStep, TickStep, Disk_handlerStep, SectorDoneStep
     DEF Running, Transfer
<1> QED
  BY <1>1, <1>2 DEF Next, Stopped

LEMMA DInvAlways == Spec => []DInv
BY DInvInit, DInvNext, PTL DEF Spec

\* The request list and block_request_count agree, up to the tasks between their
\* updates, whatever interrupts land where, as long as none is inside an increment or
\* decrement (disk.c:50, 58).
THEOREM QueueIsSound == Spec => []QueueSound
PROOF
<1>1. DInv => QueueSound
  BY DEF DInv, Counted, QueueSound
<1> QED
  BY <1>1, DInvAlways, PTL

\* Each kind of fault of disk_handler and IDE_transfer has its windows (disk.c:50-58,
\* 212-224): without an interrupt in one of them it cannot happen.
THEOREM FaultsOnlyByWindow == Spec => []FaultsByWindow
PROOF
<1>1. DInv => FaultsByWindow
  BY DEF DInv
<1> QED
  BY <1>1, DInvAlways, PTL

\* in_using keeps all tasks but one out of cmd_out, and all of them while the drive
\* works, unless an interrupt lands between its test and its setting (disk.c:217, 56).
THEOREM OneIssuer == Spec => []SingleIssuer
PROOF
<1>1. DInv => SingleIssuer
  <2> SUFFICES ASSUME DInv, Clean(Deciding)
               PROVE  LET issuers == At(Deciding \cup Uncounting \cup {"issue"})
                      IN Cardinality(issuers) <= 1 /\ (device # NoNode => issuers = {})
    BY DEF SingleIssuer, Clean
  <2> DEFINE issuers == At(Deciding \cup Uncounting \cup {"issue"})
  <2>1. issuers = At(Deciding) \cup At(Issuing)
    BY DEF At, Issuing
  <2>2. \A t \in At(Deciding) : t = current
    BY PointsApart DEF DInv, Windowed, Clean, At, Deciding
  <2>3. \A t \in At(Issuing) : node[t] = in_using /\ in_using # NoNode /\ in_using # device
    BY DiskAssumption DEF DInv, InUsingLocks, Requests, Clean
  <2>4. At(Issuing) # {} => At(Deciding) = {}
    BY <2>3 DEF DInv, InUsingLocks
  <2>5. \A t, u \in At(Issuing) : t = u
    BY <2>3 DEF DInv, Requests, Clean
  <2>6. issuers = {} \/ \E t : issuers = {t}
    <3>1. CASE At(Issuing) = {}
      BY <2>1, <2>2, <3>1
    <3>2. CASE At(Issuing) # {}
      <4>1. issuers = At(Issuing)
        BY <2>1, <2>4, <3>2
      <4> QED
        BY <2>5, <3>2, <4>1
    <3> QED
      BY <3>1, <3>2
  <2>7. Cardinality(issuers) <= 1
    <3>1. ASSUME issuers = {} PROVE Cardinality(issuers) = 0
      BY <3>1, FS_EmptySet
    <3>2. ASSUME NEW t, issuers = {t} PROVE Cardinality(issuers) = 1
      BY <3>2, FS_Singleton
    <3> HIDE DEF issuers
    <3> QED
      BY <2>6, <3>1, <3>2
  <2>8. device # NoNode => issuers = {}
    BY <2>1, <2>3 DEF DInv, InUsingLocks
  <2> QED
    BY <2>7, <2>8
<1> QED
  BY <1>1, DInvAlways, PTL

\* IDE_transfer does not return before its request is done, unless an interrupt lands
\* where the request may be finished before its owner sleeps.
THEOREM ReturnsWhenDone == Spec => []ReturnsDone
PROOF
<1>1. DInv => ReturnsDone
  <2> SUFFICES ASSUME DInv, Clean(Deciding \cup Hasty), pc[current] = "run", NEW n \in Nodes,
                      owner[n] = current
               PROVE  FALSE
    BY DEF ReturnsDone, Clean
  <2>1. owner[n] # NoTask /\ owner[n] \in Tasks
    BY DiskAssumption DEF DInv, TypeOK
  <2>2. state[current] = "UNINTERRUPTIBLE"
    BY <2>1 DEF DInv, Sleepers, SleepersOut
  <2> QED
    BY <2>1, <2>2 DEF DInv, Sleepers, SleepersOut
<1> QED
  BY <1>1, DInvAlways, PTL
-----------------------------------------------------------------------------
(* The file system *)

FATs == [Clusters -> Links]
Dirs == [Files -> Inodes]
Buffers == [Offsets -> Bytes]
Locals ==
  [cluster : Links, next_cluster : Links, sector : Clusters \cup {Outside}, flags : BOOLEAN,
   index : 0..MaxSize, offset : Offsets, i : 0..MaxSize, buffer : Buffers,
   buf : {Empty} \cup FATs \cup Dirs]

InFAT == {"mark", "link", "end"}
InDir == {"inode", "size"}
Extending == InFAT \cup {"walk", "find_first", "inode", "load", "store", "next", "find_next"}
Fetching == {"walk_read", "fetch", "follow"}

\* The variables of a call fit the point it is at.
Fits(p, l, f, entry, pos) ==
  /\ p # "run" => f \in Files
  /\ p \in {"walk", "walk_read"} => l.i >= 1
  /\ p = "follow" => l.index >= 1
  /\ p \in Extending => pos + l.index <= MaxSize
  /\ p \in Fetching => pos + l.index <= entry.size
  /\ p \in InFAT => l.buf \in {Empty} \cup FATs
  /\ p \in InDir => l.buf \in {Empty} \cup Dirs
  /\ p \notin InFAT \cup InDir => l.buf = Empty
  /\ p \in Allocating \cup {"find_next"} => l.cluster \in Clusters
  /\ p \in {"link", "end"} => l.next_cluster \in Clusters
  /\ p = "inode" => entry.first = l.cluster
CallFits(t) == Fits(fat_pc[t], loc[t], filp[t], inode[t], position[t])

\* A call that may fail has left the position where it found it, inside the file.
Inside(t) == fat_pc[t] \in {"run", "walk", "find_first", "size"} => position[t] <= inode[t].size
StaysInside == "full" \notin fat_hit => \A t \in Users : Inside(t)

Types ==
  /\ fat \in FATs /\ dir \in Dirs /\ data \in [Clusters -> Buffers]
  /\ filp \in [Users -> Files \cup {NoFile}]
  /\ inode \in [Users -> Inodes]
  /\ position \in [Users -> 0..MaxSize]
  /\ fat_pc \in [Users -> FatPCs]
  /\ loc \in [Users -> Locals]
  /\ fat_hit \subseteq Events
Typed == Types /\ (\A t \in Users : CallFits(t)) /\ StaysInside

\* A step of t leaves what the others have.
OthersKept(t) ==
  \A u \in Users \ {t} : /\ fat_pc'[u] = fat_pc[u] /\ loc'[u] = loc[u] /\ filp'[u] = filp[u]
                         /\ inode'[u] = inode[u] /\ position'[u] = position[u]
FatMoved(t) == Typed' /\ OthersKept(t) /\ fat_hit \subseteq fat_hit'
-----------------------------------------------------------------------------
LEMMA FatDivMod ==
  ASSUME NEW a \in Nat, NEW b \in Nat \ {0}
  PROVE  /\ a \div b \in 0..a /\ a % b \in 0..(b - 1)
         /\ a = b * (a \div b) + (a % b)
<1>1. a % b \in Int /\ a % b >= 0 /\ a % b < b /\ a \div b \in Int
  BY SMT
<1>2. a = b * (a \div b) + (a % b)
  BY SMT
<1>3. ASSUME NEW q \in Int, NEW r \in 0..(b - 1), a = b * q + r
      PROVE  q >= 0 /\ q <= a
  BY <1>3, SMT
<1> QED
  BY <1>1, <1>2, <1>3

LEMMA FatConstants ==
  /\ NoFile \notin Files /\ Clusters \subseteq Nat /\ Clusters # {}
  /\ ClusterSize \in Nat \ {0} /\ IsFiniteSet(Clusters) /\ InitSize \in Nat
  /\ MaxSize \in Nat /\ MaxEvents \in Nat /\ InitSize <= MaxSize
  /\ EOC \in Nat /\ EOC > 2 /\ (\A c \in Clusters : c >= 2 /\ c < EOC) /\ 0 \notin Clusters /\ EOC \notin Clusters /\ 0 \in Offsets
<1>1. {MaxSize, MaxEvents} \subseteq Nat
  BY FatAssumption DEF FatAssumption
<1>2. MaxSize \in Nat /\ MaxEvents \in Nat
  BY <1>1
<1>3. EOC \in Nat /\ EOC > 2
  BY SMT DEF EOC
<1>4. /\ NoFile \notin Files /\ Clusters \subseteq 2..(EOC - 1) /\ Clusters # {}
      /\ ClusterSize \in Nat \ {0} /\ IsFiniteSet(Clusters) /\ InitSize \in Nat
      /\ InitSize <= MaxSize
  BY FatAssumption DEF FatAssumption
<1>5. Clusters \subseteq Nat /\ (\A c \in Clusters : c >= 2 /\ c < EOC)
  BY <1>3, <1>4
<1>6. 0 \in Offsets
  BY <1>4 DEF Offsets
<1> QED
  BY <1>2, <1>3, <1>4, <1>5, <1>6

LEMMA FreeClusterIsFree ==
  ASSUME fat \in FATs
  PROVE  FreeCluster = 0 \/ (FreeCluster \in Clusters /\ fat[FreeCluster] = 0)
<1> DEFINE F == {c \in Clusters : fat[c] = 0}
<1>1. CASE F = {}
  BY <1>1 DEF FreeCluster
<1>2. CASE F # {}
  <2>1. F \subseteq Nat
    BY FatConstants
  <2> HIDE DEF F
  <2>2. PICK m \in F : \A y \in F : m <= y
    <3>1. PICK m \in F : \A y \in F : ~(<<y, m>> \in OpToRel(<, Nat))
      BY <1>2, <2>1, NatLessThanWellFounded, WFMin, Zenon
    <3>2. \A y \in F : y \in Nat /\ m \in Nat /\ ~(y < m)
      BY <2>1, <3>1 DEF OpToRel
    <3> QED
      BY <3>2
  <2>3. Min(F) \in F
    BY <2>2, Zenon DEF Min
  <2> QED
    BY <1>2, <2>3 DEF FreeCluster, F
<1> QED
  BY <1>1, <1>2

LEMMA FatStep ==
  ASSUME Typed, NEW t \in Users, Types', OthersKept(t), CallFits(t)', fat_hit \subseteq fat_hit',
         "full" \notin fat_hit' => Inside(t)'
  PROVE  FatMoved(t)
<1>1. ASSUME NEW u \in Users \ {t}
      PROVE  CallFits(u)' /\ (Inside(u) => Inside(u)')
  BY DEF Typed, OthersKept, CallFits, Inside
<1> QED
  BY <1>1 DEF FatMoved, Typed, StaysInside

LEMMA UnusedIsLocal ==
  Unused \in Locals /\ Blank \in Buffers /\ NoByte \in Bytes
  BY FatConstants DEF Unused, Locals, Blank, Buffers, NoByte, Bytes, Links, Outside, Empty

LEMMA EntryIsLink ==
  ASSUME fat \in FATs, NEW c
  PROVE  Entry(c) \in Links
  BY DEF Entry, FATs, Links

LEMMA SectorIsSector ==
  ASSUME data \in [Clusters -> Buffers], NEW c
  PROVE  Sector(c) \in Clusters \cup {Outside} /\ Contents(Sector(c)) \in Buffers
  BY UnusedIsLocal DEF Sector, SectorOf, Contents, Outside

LEMMA LengthFits ==
  ASSUME loc \in [Users -> Locals], NEW t \in Users
  PROVE  /\ Length(t) \in 0..loc[t].index
         /\ loc[t].index - Length(t) \in 0..MaxSize
  BY FatConstants DEF Length, Locals, Offsets
-----------------------------------------------------------------------------
(* The types, step by step *)

LEMMA HitKeeps ==
  ASSUME NEW E, E \subseteq Events, fat_hit \subseteq Events, Hit(E)
  PROVE  fat_hit' \subseteq Events /\ fat_hit \subseteq fat_hit' /\ E \subseteq fat_hit'
  BY DEF Hit

LEMMA OpenTyped ==
  ASSUME Typed, NEW t \in Users, NEW f \in Files, NEW trunc \in BOOLEAN,
         NEW append \in BOOLEAN, Open(t, f, trunc, append)
  PROVE  FatMoved(t)
<1> DEFINE n == [dir[f] EXCEPT !.size = IF trunc THEN 0 ELSE @]
<1>1. n \in Inodes /\ n.size \in 0..MaxSize
  BY FatConstants DEF Typed, Types, Dirs, Inodes
<1>2. inode' = [inode EXCEPT ![t] = n]
  BY DEF Open, Lookup
<1> HIDE DEF n
<1>3. inode' \in [Users -> Inodes] /\ inode'[t] = n
  BY <1>1, <1>2 DEF Typed, Types
<1>4. position'[t] \in 0..n.size /\ position' \in [Users -> 0..MaxSize]
  <2>1. position' = [position EXCEPT ![t] = IF append THEN inode'[t].size ELSE 0]
    BY DEF Open
  <2>2. inode'[t].size = n.size /\ (IF append THEN n.size ELSE 0) \in 0..n.size /\ (IF append THEN n.size ELSE 0) \in 0..MaxSize
    BY <1>1, <1>3, FatConstants
  <2> QED
    BY <2>1, <2>2 DEF Typed, Types
<1>5. fat_hit' \subseteq Events /\ fat_hit \subseteq fat_hit'
  BY HitKeeps DEF Open, Events, Typed, Types
<1>6. Types'
  BY <1>3, <1>4, <1>5 DEF Open, Typed, Types
<1>7. OthersKept(t)
  BY <1>2, <1>6 DEF OthersKept, Open, Typed, Types
<1>8. CallFits(t)'
  BY DEF CallFits, Fits, Open, Typed, InFAT, InDir, Extending, Fetching, Allocating
<1>9. Inside(t)'
  BY <1>1, <1>3, <1>4 DEF Inside
<1> QED
  BY <1>5, <1>6, <1>7, <1>8, <1>9, FatStep

LEMMA CloseTyped ==
  ASSUME Typed, NEW t \in Users, Close(t)
  PROVE  FatMoved(t)
<1>1. NoEntry \in Inodes /\ NoEntry.size = 0
  BY FatConstants DEF NoEntry, Inodes
<1>2. Types' /\ fat_hit' = fat_hit
  BY <1>1, FatConstants DEF Close, Typed, Types
<1>3. OthersKept(t)
  BY DEF OthersKept, Close, Typed, Types
<1>4. CallFits(t)'
  BY DEF CallFits, Fits, Close, Typed, InFAT, InDir, Extending, Fetching, Allocating
<1>5. Inside(t)'
  BY <1>1 DEF Inside, Close, Typed, Types
<1> QED
  BY <1>2, <1>3, <1>4, <1>5, FatStep

LEMMA LseekTyped ==
  ASSUME Typed, NEW t \in Users, NEW pos \in 0..MaxSize, Lseek(t, pos)
  PROVE  FatMoved(t)
<1>1. Types' /\ fat_hit' = fat_hit
  BY DEF Lseek, openVars, Typed, Types
<1>2. OthersKept(t)
  BY DEF OthersKept, Lseek, openVars, Typed, Types
<1>3. CallFits(t)'
  BY DEF CallFits, Fits, Lseek, openVars, Typed, InFAT, InDir, Extending, Fetching, Allocating
<1>4. Inside(t)'
  BY DEF Inside, Lseek, openVars, Typed, Types, Inodes
<1> QED
  BY <1>1, <1>2, <1>3, <1>4, FatStep

LEMMA StartedFits ==
  ASSUME Types, NEW t \in Users, NEW n \in 0..MaxSize
  PROVE  /\ Started(t, n) \in Locals
         /\ Started(t, n).i \in Nat /\ Started(t, n).index = n /\ Started(t, n).buf = Empty
         /\ Started(t, n).cluster = inode[t].first
         /\ position[t] = ClusterSize * Started(t, n).i + Started(t, n).offset
<1>1. position[t] \in 0..MaxSize /\ position[t] \in Nat
  BY FatConstants DEF Types
<1>2. /\ position[t] \div ClusterSize \in 0..position[t] /\ position[t] % ClusterSize \in Offsets
      /\ position[t] = ClusterSize * (position[t] \div ClusterSize) + (position[t] % ClusterSize)
  BY <1>1, FatConstants, FatDivMod, Zenon DEF Offsets
<1> DEFINE i == position[t] \div ClusterSize
           o == position[t] % ClusterSize
<1>3. i \in 0..MaxSize /\ o \in Offsets
  BY <1>1, <1>2, FatConstants
<1>4. inode[t].first \in Links
  BY DEF Types, Inodes, Links
<1>5. Started(t, n) = [Unused EXCEPT !.cluster = inode[t].first, !.i = i, !.offset = o, !.index = n]
  BY DEF Started
<1>6. position[t] = ClusterSize * i + o
  BY <1>2
<1> HIDE DEF i, o
<1>7. Started(t, n) = [cluster |-> inode[t].first, next_cluster |-> 0, sector |-> Outside,
                       flags |-> FALSE, index |-> n, offset |-> o, i |-> i, buffer |-> Blank,
                       buf |-> Empty]
  BY <1>5 DEF Unused
<1>8. Started(t, n) \in Locals
  BY <1>3, <1>4, <1>7, UnusedIsLocal DEF Locals, Links
<1> QED
  BY <1>3, <1>6, <1>7, <1>8

LEMMA WriteTyped ==
  ASSUME Typed, NEW t \in Users, NEW n \in 1..MaxSize, Write(t, n)
  PROVE  FatMoved(t)
<1> DEFINE l == Started(t, n)
<1>1. l \in Locals /\ l.i \in Nat /\ l.index = n /\ l.buf = Empty
  BY StartedFits, FatConstants DEF Typed
<1>2. loc' = [loc EXCEPT ![t] = l] /\ loc'[t] = l
  BY DEF Write, openVars, Typed, Types
<1> HIDE DEF l
<1>3. fat_pc'[t] \in {"find_first", "walk", "load"} /\ (fat_pc'[t] = "walk" => l.i >= 1)
  BY <1>1, <1>2 DEF Write, openVars, Typed, Types
<1>4. Types' /\ fat_hit' = fat_hit
  BY <1>1, <1>2, <1>3 DEF Write, openVars, Typed, Types, FatPCs
<1>5. OthersKept(t)
  BY <1>2 DEF OthersKept, Write, openVars, Typed, Types
<1>6. filp'[t] \in Files /\ inode' = inode /\ position' = position /\ position[t] + n <= MaxSize
      /\ fat_pc[t] = "run"
  BY DEF Write, openVars, Typed, Types
<1>7. CallFits(t)'
  BY <1>1, <1>2, <1>3, <1>6 DEF CallFits, Fits, InFAT, InDir, Extending, Fetching, Allocating
<1>8. "full" \notin fat_hit' => Inside(t)'
  BY <1>4, <1>6 DEF Inside, Typed, StaysInside
<1> QED
  BY <1>4, <1>5, <1>7, <1>8, FatStep

LEMMA ReadTyped ==
  ASSUME Typed, NEW t \in Users, NEW n \in 1..MaxSize, Read(t, n)
  PROVE  FatMoved(t)
<1> DEFINE m == IF position[t] + n > inode[t].size THEN inode[t].size - position[t] ELSE n
           l == Started(t, m)
<1>1. m \in 0..MaxSize /\ position[t] + m <= inode[t].size
  BY FatConstants DEF Read, openVars, Typed, Types, Inodes
<1>2. loc' = [loc EXCEPT ![t] = l] /\ loc'[t] = l
  BY DEF Read, openVars, Typed, Types
<1> HIDE DEF m
<1>3. l \in Locals /\ l.i \in Nat /\ l.index = m /\ l.buf = Empty
  BY <1>1, StartedFits DEF Typed
<1> HIDE DEF l
<1>4. fat_pc'[t] \in {"walk_read", "fetch"} /\ (fat_pc'[t] = "walk_read" => l.i >= 1)
  BY <1>2, <1>3 DEF Read, openVars, Typed, Types
<1>5. Types' /\ fat_hit' = fat_hit
  BY <1>2, <1>3, <1>4 DEF Read, openVars, Typed, Types, FatPCs
<1>6. OthersKept(t)
  BY <1>2 DEF OthersKept, Read, openVars, Typed, Types
<1>7. filp'[t] \in Files /\ inode' = inode /\ position' = position
  BY DEF Read, openVars, Typed, Types
<1>8. CallFits(t)'
  BY <1>1, <1>2, <1>3, <1>4, <1>7 DEF CallFits, Fits, InFAT, InDir, Extending, Fetching, Allocating
<1>9. Inside(t)'
  BY <1>4 DEF Inside
<1> QED
  BY <1>5, <1>6, <1>8, <1>9, FatStep

LEMMA WalkTyped ==
  ASSUME Typed, NEW t \in Users,
         NEW from \in {"walk", "walk_read"}, NEW after, after = IF from = "walk" THEN "load" ELSE "fetch",
         Walk(t, from, after)
  PROVE  FatMoved(t)
<1> DEFINE c == Entry(loc[t].cluster)
<1>1. c \in Links /\ loc[t] \in Locals /\ fat_pc[t] = from
  BY EntryIsLink DEF Walk, Typed, Types
<1>2. /\ fat' = fat /\ dir' = dir /\ data' = data /\ filp' = filp /\ inode' = inode
      /\ position' = position /\ fat_hit' = fat_hit
  BY DEF Walk, openVars
<1>3. CallFits(t)
  BY DEF Typed
<1> HIDE DEF c
<1>4. CASE after = "load" /\ loc[t].i = 1 /\ c = 0
  <2>. Return(t)
    BY <1>4 DEF Walk, c
  <2>1. fat_pc'[t] = "run" /\ loc'[t] = Unused /\ from = "walk"
    BY <1>4 DEF Return, Typed, Types
  <2>2. Types'
    BY <1>2, UnusedIsLocal DEF Return, Typed, Types, FatPCs
  <2>3. OthersKept(t)
    BY <1>2 DEF OthersKept, Return, Typed, Types
  <2>4. CallFits(t)'
    BY <2>1 DEF CallFits, Fits, InFAT, InDir, Extending, Fetching, Allocating, Unused
  <2>5. "full" \notin fat_hit' => Inside(t)'
    BY <1>1, <1>2, <2>1 DEF Inside, Typed, StaysInside
  <2> QED
    BY <1>2, <2>2, <2>3, <2>4, <2>5, FatStep
<1>5. CASE ~(after = "load" /\ loc[t].i = 1 /\ c = 0)
  <2>1. /\ loc' = [loc EXCEPT ![t].cluster = c, ![t].i = loc[t].i - 1]
        /\ fat_pc' = [fat_pc EXCEPT ![t] = IF loc[t].i = 1 THEN after ELSE from]
    BY <1>5 DEF Walk, FatGoto, c
  <2>2. loc' = [loc EXCEPT ![t] = [@ EXCEPT !.cluster = c, !.i = loc[t].i - 1]]
    BY <2>1
  <2>3. loc[t].i \in 1..MaxSize
    BY <1>1, <1>3, FatConstants DEF CallFits, Fits, Locals
  <2>4. [loc[t] EXCEPT !.cluster = c, !.i = loc[t].i - 1] \in Locals
    <3> DEFINE k == loc[t].i - 1
    <3>1. k \in 0..MaxSize
      BY <2>3, FatConstants
    <3> HIDE DEF k
    <3>2. [loc[t] EXCEPT !.cluster = c, !.i = k] \in Locals
      BY <1>1, <3>1 DEF Locals
    <3> QED
      BY <3>2 DEF k
  <2>5. Types'
    BY <1>1, <1>2, <2>1, <2>2, <2>4 DEF Typed, Types, FatPCs
  <2>6. OthersKept(t)
    BY <1>2, <2>1, <2>2 DEF OthersKept, Typed, Types
  <2>7. /\ loc'[t].i = loc[t].i - 1 /\ loc'[t].index = loc[t].index /\ loc'[t].buf = loc[t].buf
        /\ fat_pc'[t] = IF loc[t].i = 1 THEN after ELSE from
    BY <1>1, <2>1, <2>2 DEF Typed, Types, Locals
  <2>8. CallFits(t)'
    BY <1>1, <1>2, <1>3, <2>3, <2>7
       DEF CallFits, Fits, InFAT, InDir, Extending, Fetching, Allocating
  <2>9. "full" \notin fat_hit' => Inside(t)'
    BY <1>1, <1>2, <2>7 DEF Inside, Typed, StaysInside
  <2> QED
    BY <1>2, <2>5, <2>6, <2>8, <2>9, FatStep
<1> QED
  BY <1>4, <1>5

LEMMA FindFirstTyped ==
  ASSUME Typed, NEW t \in Users, FindFirst(t)
  PROVE  FatMoved(t)
<1>1. /\ fat' = fat /\ dir' = dir /\ data' = data /\ filp' = filp
      /\ position' = position /\ fat_pc[t] = "find_first" /\ CallFits(t)
  BY DEF FindFirst, Typed
<1>2. fat_hit' \subseteq Events /\ fat_hit \subseteq fat_hit'
  <2>1. FindRace(t) \subseteq Events /\ Hit(FindRace(t))
    BY DEF FindRace, Events, FindFirst
  <2> QED
    BY <2>1, HitKeeps DEF Typed, Types
<1>3. CASE FreeCluster = 0
  <2>1. Return(t) /\ inode' = inode
    BY <1>3 DEF FindFirst
  <2>2. fat_pc'[t] = "run" /\ loc'[t] = Unused
    BY <2>1 DEF Return, Typed, Types
  <2>3. Types'
    BY <1>1, <1>2, <2>1, UnusedIsLocal DEF Return, Typed, Types, FatPCs
  <2>4. OthersKept(t)
    BY <1>1, <2>1 DEF OthersKept, Return, Typed, Types
  <2>5. CallFits(t)'
    BY <2>2 DEF CallFits, Fits, InFAT, InDir, Extending, Fetching, Allocating, Unused
  <2>6. "full" \notin fat_hit' => Inside(t)'
    BY <1>1, <1>2, <2>1, <2>2 DEF Inside, Typed, StaysInside
  <2> QED
    BY <1>2, <2>3, <2>4, <2>5, <2>6, FatStep
<1>4. CASE FreeCluster # 0
  <2> DEFINE c == FreeCluster
  <2>1. c \in Clusters /\ loc[t] \in Locals /\ inode[t] \in Inodes
    BY <1>4, FreeClusterIsFree DEF Typed, Types
  <2>2. /\ inode' = [inode EXCEPT ![t] = [@ EXCEPT !.first = c]]
        /\ loc' = [loc EXCEPT ![t] = [@ EXCEPT !.cluster = c, !.flags = TRUE]]
        /\ fat_pc' = [fat_pc EXCEPT ![t] = "inode"]
    BY <1>4 DEF FindFirst, FatGoto
  <2> HIDE DEF c
  <2>3. /\ [loc[t] EXCEPT !.cluster = c, !.flags = TRUE] \in Locals
        /\ [inode[t] EXCEPT !.first = c] \in Inodes
    BY <2>1 DEF Locals, Links, Inodes
  <2>4. Types'
    BY <1>1, <1>2, <2>2, <2>3 DEF Typed, Types, FatPCs, Allocating
  <2>5. OthersKept(t)
    BY <1>1, <2>2 DEF OthersKept, Typed, Types
  <2>6. /\ loc'[t].index = loc[t].index /\ loc'[t].buf = loc[t].buf /\ loc'[t].cluster = c
        /\ fat_pc'[t] = "inode" /\ inode'[t].first = c
    BY <2>1, <2>2 DEF Typed, Types, Locals, Inodes
  <2>7. CallFits(t)'
    BY <1>1, <2>1, <2>6 DEF CallFits, Fits, InFAT, InDir, Extending, Fetching, Allocating
  <2>8. Inside(t)'
    BY <2>6 DEF Inside
  <2> QED
    BY <1>2, <2>4, <2>5, <2>7, <2>8, FatStep
<1> QED
  BY <1>3, <1>4

LEMMA FindNextTyped ==
  ASSUME Typed, NEW t \in Users, FindNext(t)
  PROVE  FatMoved(t)
<1>1. /\ fat' = fat /\ dir' = dir /\ data' = data /\ filp' = filp /\ inode' = inode
      /\ position' = position /\ fat_pc[t] = "find_next" /\ CallFits(t)
  BY DEF FindNext, Typed, openVars
<1>2. /\ fat_hit' \subseteq Events /\ fat_hit \subseteq fat_hit'
      /\ FreeCluster = 0 => "full" \in fat_hit'
  <2> DEFINE E == FindRace(t) \cup IF FreeCluster = 0 THEN {"full"} ELSE {}
  <2>1. E \subseteq Events /\ Hit(E) /\ (FreeCluster = 0 => "full" \in E)
    BY DEF FindRace, Events, FindNext
  <2> HIDE DEF E
  <2> QED
    BY <2>1, HitKeeps DEF Typed, Types
<1>3. CASE FreeCluster = 0
  <2>1. Return(t)
    BY <1>3 DEF FindNext
  <2>2. fat_pc'[t] = "run" /\ loc'[t] = Unused
    BY <2>1 DEF Return, Typed, Types
  <2>3. Types'
    BY <1>1, <1>2, <2>1, UnusedIsLocal DEF Return, Typed, Types, FatPCs
  <2>4. OthersKept(t)
    BY <1>1, <2>1 DEF OthersKept, Return, Typed, Types
  <2>5. CallFits(t)'
    BY <2>2 DEF CallFits, Fits, InFAT, InDir, Extending, Fetching, Allocating, Unused
  <2> QED
    BY <1>2, <1>3, <2>3, <2>4, <2>5, FatStep
<1>4. CASE FreeCluster # 0
  <2> DEFINE c == FreeCluster
  <2>1. c \in Clusters /\ loc[t] \in Locals
    BY <1>4, FreeClusterIsFree DEF Typed, Types
  <2>2. /\ loc' = [loc EXCEPT ![t] = [@ EXCEPT !.next_cluster = c]]
        /\ fat_pc' = [fat_pc EXCEPT ![t] = "link"]
    BY <1>4 DEF FindNext, FatGoto
  <2> HIDE DEF c
  <2>3. [loc[t] EXCEPT !.next_cluster = c] \in Locals
    BY <2>1 DEF Locals, Links
  <2>4. Types'
    BY <1>1, <1>2, <2>2, <2>3 DEF Typed, Types, FatPCs, Allocating
  <2>5. OthersKept(t)
    BY <1>1, <2>2 DEF OthersKept, Typed, Types
  <2>6. /\ loc'[t].index = loc[t].index /\ loc'[t].buf = loc[t].buf
        /\ loc'[t].cluster = loc[t].cluster /\ loc'[t].next_cluster = c
        /\ fat_pc'[t] = "link"
    BY <2>1, <2>2 DEF Typed, Types, Locals
  <2>7. CallFits(t)'
    BY <1>1, <2>1, <2>6 DEF CallFits, Fits, InFAT, InDir, Extending, Fetching, Allocating
  <2>8. Inside(t)'
    BY <2>6 DEF Inside
  <2> QED
    BY <1>2, <2>4, <2>5, <2>7, <2>8, FatStep
<1> QED
  BY <1>3, <1>4

\* What ReadFAT and ReadDir have in common: only buf is set.
LEMMA BufferTyped ==
  ASSUME Typed, NEW t \in Users, NEW b \in {Empty} \cup FATs \cup Dirs,
         loc' = [loc EXCEPT ![t].buf = b],
         fat_pc[t] \in InFAT => b \in FATs, fat_pc[t] \in InDir => b \in Dirs,
         fat_pc[t] \in InFAT \cup InDir,
         fat' = fat /\ dir' = dir /\ data' = data /\ filp' = filp /\ inode' = inode,
         position' = position /\ fat_pc' = fat_pc,
         fat_hit \subseteq fat_hit' /\ fat_hit' \subseteq Events
  PROVE  FatMoved(t)
<1>1. loc[t] \in Locals /\ CallFits(t)
  BY DEF Typed, Types
<1>2. loc' = [loc EXCEPT ![t] = [@ EXCEPT !.buf = b]]
  OBVIOUS
<1>3. [loc[t] EXCEPT !.buf = b] \in Locals
  BY <1>1 DEF Locals
<1>4. Types'
  BY <1>2, <1>3 DEF Typed, Types
<1>5. OthersKept(t)
  BY DEF OthersKept, Typed, Types
<1>6. /\ loc'[t].index = loc[t].index /\ loc'[t].buf = b /\ loc'[t].cluster = loc[t].cluster
      /\ loc'[t].next_cluster = loc[t].next_cluster /\ loc'[t].i = loc[t].i
  BY <1>1, <1>2 DEF Typed, Types, Locals
<1>7. CallFits(t)'
  BY <1>1, <1>6 DEF CallFits, Fits, InFAT, InDir, Extending, Fetching, Allocating
<1>8. "full" \notin fat_hit' => Inside(t)'
  BY DEF Inside, Typed, StaysInside
<1> QED
  BY <1>4, <1>5, <1>7, <1>8, FatStep

LEMMA ReadFATTyped ==
  ASSUME Typed, NEW t \in Users, ReadFAT(t)
  PROVE  FatMoved(t)
<1>1. fat \in FATs /\ fat_hit \subseteq Events
  BY DEF Typed, Types
<1>2. /\ fat_pc[t] \in InFAT /\ loc' = [loc EXCEPT ![t].buf = fat]
      /\ fat' = fat /\ dir' = dir /\ data' = data /\ filp' = filp /\ inode' = inode
      /\ position' = position /\ fat_pc' = fat_pc /\ fat_hit' = fat_hit
      /\ fat_pc[t] \notin InDir
  BY DEF ReadFAT, openVars, InFAT, InDir
<1> QED
  BY <1>1, <1>2, BufferTyped

LEMMA ReadDirTyped ==
  ASSUME Typed, NEW t \in Users, ReadDir(t)
  PROVE  FatMoved(t)
<1>1. dir \in Dirs
  BY DEF Typed, Types
<1>2. /\ fat_pc[t] \in InDir /\ loc' = [loc EXCEPT ![t].buf = dir]
      /\ fat' = fat /\ dir' = dir /\ data' = data /\ filp' = filp /\ inode' = inode
      /\ position' = position /\ fat_pc' = fat_pc
      /\ fat_pc[t] \notin InFAT
  BY DEF ReadDir, openVars, InFAT, InDir
<1>3. fat_hit \subseteq fat_hit' /\ fat_hit' \subseteq Events
  BY HitKeeps DEF ReadDir, Events, Typed, Types
<1> QED
  BY <1>1, <1>2, <1>3, BufferTyped

LEMMA ChangeFits ==
  ASSUME Typed, NEW t \in Users, fat_pc[t] \in InFAT
  PROVE  Change(t)[1] \in Clusters /\ Change(t)[2] \in Links
<1>1. loc[t].cluster \in Clusters /\ (fat_pc[t] # "mark" => loc[t].next_cluster \in Clusters)
  BY DEF Typed, CallFits, Fits, InFAT, Allocating
<1>2. CASE fat_pc[t] = "mark"
  BY <1>1, <1>2 DEF Change, Links
<1>3. CASE fat_pc[t] = "link"
  BY <1>1, <1>3 DEF Change, Links
<1>4. CASE fat_pc[t] = "end"
  BY <1>1, <1>4 DEF Change, Links
<1> QED
  BY <1>2, <1>3, <1>4 DEF InFAT

LEMMA WriteFATTyped ==
  ASSUME Typed, NEW t \in Users, WriteFAT(t)
  PROVE  FatMoved(t)
<1>1. /\ loc[t] \in Locals /\ CallFits(t) /\ fat_pc[t] \in InFAT /\ loc[t].buf # Empty
      /\ dir' = dir /\ data' = data /\ filp' = filp /\ inode' = inode
      /\ position' = position /\ fat_hit' = fat_hit
  BY DEF WriteFAT, openVars, InFAT, Typed, Types
<1>2. loc[t].buf \in FATs
  BY <1>1 DEF CallFits, Fits
<1>3. fat' \in FATs
  <2>1. fat' = [loc[t].buf EXCEPT ![Change(t)[1]] = Change(t)[2]]
    BY DEF WriteFAT
  <2> QED
    BY <1>1, <1>2, <2>1, ChangeFits DEF FATs
<1>4. PICK l \in Locals :
        /\ loc' = [loc EXCEPT ![t] = l]
        /\ l.buf = Empty /\ l.index = loc[t].index
        /\ fat_pc[t] = "link" => /\ l.cluster = loc[t].cluster
                                /\ l.next_cluster = loc[t].next_cluster
  <2> DEFINE l0 == [loc[t] EXCEPT !.buf = Empty]
             l1 == [loc[t] EXCEPT !.buf = Empty, !.cluster = loc[t].next_cluster, !.flags = TRUE]
  <2>1. loc' = [loc EXCEPT ![t] = IF fat_pc[t] = "end" THEN l1 ELSE l0]
    BY DEF WriteFAT
  <2>2. l0 \in Locals /\ l0.buf = Empty /\ l0.index = loc[t].index
        /\ l0.cluster = loc[t].cluster /\ l0.next_cluster = loc[t].next_cluster
    BY <1>1 DEF Locals
  <2>3. l1 \in Locals /\ l1.buf = Empty /\ l1.index = loc[t].index
    BY <1>1 DEF Locals
  <2> HIDE DEF l0, l1
  <2> QED
    BY <2>1, <2>2, <2>3
<1>5. fat_pc' = [fat_pc EXCEPT ![t] = IF fat_pc[t] = "link" THEN "end" ELSE "store"]
  BY DEF WriteFAT
<1>6. Types'
  BY <1>1, <1>3, <1>4, <1>5 DEF Typed, Types, FatPCs, Allocating
<1>7. OthersKept(t)
  BY <1>1, <1>4, <1>5 DEF OthersKept, Typed, Types
<1>8. loc'[t] = l /\ fat_pc'[t] = IF fat_pc[t] = "link" THEN "end" ELSE "store"
  BY <1>4, <1>5 DEF Typed, Types
<1>9. CallFits(t)'
  BY <1>1, <1>4, <1>8 DEF CallFits, Fits, InFAT, InDir, Extending, Fetching, Allocating
<1>10. Inside(t)'
  BY <1>8 DEF Inside
<1> QED
  BY <1>1, <1>6, <1>7, <1>9, <1>10, FatStep

LEMMA WriteDirTyped ==
  ASSUME Typed, NEW t \in Users, WriteDir(t)
  PROVE  FatMoved(t)
<1>1. /\ loc[t] \in Locals /\ CallFits(t) /\ fat_pc[t] \in InDir /\ loc[t].buf # Empty
      /\ fat' = fat /\ data' = data /\ filp' = filp /\ inode' = inode
      /\ position' = position /\ fat_hit' = fat_hit
  BY DEF WriteDir, openVars, InDir, Typed, Types
<1>2. loc[t].buf \in Dirs
  BY <1>1 DEF CallFits, Fits
<1>3. dir' \in Dirs
  BY <1>2 DEF WriteDir, Dirs, Typed, Types
<1>4. CASE fat_pc[t] = "inode"
  <2>1. /\ fat_pc' = [fat_pc EXCEPT ![t] = "mark"]
        /\ loc' = [loc EXCEPT ![t] = [@ EXCEPT !.buf = Empty]]
    BY <1>4 DEF WriteDir, FatGoto
  <2>2. [loc[t] EXCEPT !.buf = Empty] \in Locals
    BY <1>1 DEF Locals
  <2>3. Types'
    BY <1>1, <1>3, <2>1, <2>2 DEF Typed, Types, FatPCs, Allocating
  <2>4. OthersKept(t)
    BY <1>1, <2>1 DEF OthersKept, Typed, Types
  <2>5. /\ loc'[t].index = loc[t].index /\ loc'[t].buf = Empty
        /\ loc'[t].cluster = loc[t].cluster /\ fat_pc'[t] = "mark"
    BY <1>1, <2>1 DEF Typed, Types, Locals
  <2>6. CallFits(t)'
    BY <1>1, <1>4, <2>5 DEF CallFits, Fits, InFAT, InDir, Extending, Fetching, Allocating
  <2>7. Inside(t)'
    BY <2>5 DEF Inside
  <2> QED
    BY <1>1, <2>3, <2>4, <2>6, <2>7, FatStep
<1>5. CASE fat_pc[t] # "inode"
  <2>1. Return(t) /\ fat_pc[t] = "size"
    BY <1>1, <1>5 DEF WriteDir, InDir
  <2>2. fat_pc'[t] = "run" /\ loc'[t] = Unused
    BY <2>1 DEF Return, Typed, Types
  <2>3. Types'
    BY <1>1, <1>3, <2>1, UnusedIsLocal DEF Return, Typed, Types, FatPCs
  <2>4. OthersKept(t)
    BY <1>1, <2>1 DEF OthersKept, Return, Typed, Types
  <2>5. CallFits(t)'
    BY <2>2 DEF CallFits, Fits, InFAT, InDir, Extending, Fetching, Allocating, Unused
  <2>6. "full" \notin fat_hit' => Inside(t)'
    BY <1>1, <2>1 DEF Inside, Typed, StaysInside
  <2> QED
    BY <1>1, <2>3, <2>4, <2>5, <2>6, FatStep
<1> QED
  BY <1>4, <1>5

LEMMA LoadTyped ==
  ASSUME Typed, NEW t \in Users, Load(t)
  PROVE  FatMoved(t)
<1>1. /\ loc[t] \in Locals /\ CallFits(t) /\ fat_pc[t] = "load"
      /\ fat' = fat /\ dir' = dir /\ data' = data /\ filp' = filp /\ inode' = inode
      /\ position' = position
  BY DEF Load, FatGoto, openVars, Typed, Types
<1>2. fat_hit \subseteq fat_hit' /\ fat_hit' \subseteq Events
  <2>1. PICK E : E \subseteq Events /\ Hit(E)
    BY DEF Load, Events
  <2> QED
    BY <2>1, HitKeeps DEF Typed, Types
<1>3. PICK s \in Clusters \cup {Outside}, b \in Buffers :
        /\ loc' = [loc EXCEPT ![t] = [@ EXCEPT !.sector = s, !.buffer = b]]
        /\ fat_pc' = [fat_pc EXCEPT ![t] = "store"]
  <2> DEFINE s == Sector(loc[t].cluster)
             b == Contents(Sector(loc[t].cluster))
  <2>1. s \in Clusters \cup {Outside} /\ b \in Buffers
    BY SectorIsSector DEF Typed, Types
  <2>2. /\ loc' = [loc EXCEPT ![t] = [@ EXCEPT !.sector = s, !.buffer = b]]
        /\ fat_pc' = [fat_pc EXCEPT ![t] = "store"]
    BY DEF Load, FatGoto
  <2> QED
    BY <2>1, <2>2
<1>4. [loc[t] EXCEPT !.sector = s, !.buffer = b] \in Locals
  BY <1>1 DEF Locals
<1>5. Types'
  BY <1>1, <1>2, <1>3, <1>4 DEF Typed, Types, FatPCs
<1>6. OthersKept(t)
  BY <1>1, <1>3 DEF OthersKept, Typed, Types
<1>7. loc'[t].index = loc[t].index /\ loc'[t].buf = loc[t].buf /\ fat_pc'[t] = "store"
  BY <1>1, <1>3 DEF Typed, Types, Locals
<1>8. CallFits(t)'
  BY <1>1, <1>7 DEF CallFits, Fits, InFAT, InDir, Extending, Fetching, Allocating
<1>9. Inside(t)'
  BY <1>7 DEF Inside
<1> QED
  BY <1>2, <1>5, <1>6, <1>8, <1>9, FatStep

LEMMA NextClusterTyped ==
  ASSUME Typed, NEW t \in Users, NextCluster(t)
  PROVE  FatMoved(t)
<1> DEFINE c == Entry(loc[t].cluster)
<1>1. /\ loc[t] \in Locals /\ CallFits(t) /\ fat_pc[t] = "next" /\ c \in Links
      /\ fat' = fat /\ dir' = dir /\ data' = data /\ filp' = filp /\ inode' = inode
      /\ position' = position
  BY EntryIsLink DEF NextCluster, FatGoto, openVars, Typed, Types
<1>2. fat_hit \subseteq fat_hit' /\ fat_hit' \subseteq Events
  <2>1. PICK E : E \subseteq Events /\ Hit(E)
    BY DEF NextCluster, Events
  <2> QED
    BY <2>1, HitKeeps DEF Typed, Types
<1>3. /\ loc' = [loc EXCEPT ![t] = [@ EXCEPT !.next_cluster = c]]
      /\ fat_pc' = [fat_pc EXCEPT ![t] = IF c >= EOC THEN "find_next"
                                       ELSE IF loc[t].flags THEN "store" ELSE "load"]
  BY DEF NextCluster, FatGoto
<1>4. c >= EOC => loc[t].cluster \in Clusters
  <2>1. loc[t].cluster \notin Clusters => c = 0
    BY DEF Entry
  <2>2. ~(0 >= EOC)
    BY FatConstants
  <2> QED
    BY <2>1, <2>2
<1> HIDE DEF c
<1>5. [loc[t] EXCEPT !.next_cluster = c] \in Locals
  BY <1>1 DEF Locals
<1>6. Types'
  BY <1>1, <1>2, <1>3, <1>5 DEF Typed, Types, FatPCs
<1>7. OthersKept(t)
  BY <1>1, <1>3 DEF OthersKept, Typed, Types
<1>8. /\ loc'[t].index = loc[t].index /\ loc'[t].buf = loc[t].buf /\ loc'[t].cluster = loc[t].cluster
      /\ fat_pc'[t] = IF c >= EOC THEN "find_next" ELSE IF loc[t].flags THEN "store" ELSE "load"
  BY <1>1, <1>3 DEF Typed, Types, Locals
<1>9. CallFits(t)'
  BY <1>1, <1>4, <1>8 DEF CallFits, Fits, InFAT, InDir, Extending, Fetching, Allocating
<1>10. Inside(t)'
  BY <1>8 DEF Inside
<1> QED
  BY <1>2, <1>6, <1>7, <1>9, <1>10, FatStep

LEMMA FollowTyped ==
  ASSUME Typed, NEW t \in Users, Follow(t)
  PROVE  FatMoved(t)
<1> DEFINE c == Entry(loc[t].cluster)
<1>1. /\ loc[t] \in Locals /\ CallFits(t) /\ fat_pc[t] = "follow" /\ c \in Links
      /\ fat' = fat /\ dir' = dir /\ data' = data /\ filp' = filp /\ inode' = inode
      /\ position' = position /\ fat_hit' = fat_hit
  BY EntryIsLink DEF Follow, openVars, Typed, Types
<1>2. position[t] <= inode[t].size
  BY <1>1, FatConstants DEF CallFits, Fits, Fetching, Typed, Types, Locals, Inodes
<1>3. CASE c = 0
  <2>1. Return(t)
    BY <1>3 DEF Follow
  <2>2. fat_pc'[t] = "run" /\ loc'[t] = Unused
    BY <2>1 DEF Return, Typed, Types
  <2>3. Types'
    BY <1>1, <2>1, UnusedIsLocal DEF Return, Typed, Types, FatPCs
  <2>4. OthersKept(t)
    BY <1>1, <2>1 DEF OthersKept, Return, Typed, Types
  <2>5. CallFits(t)'
    BY <2>2 DEF CallFits, Fits, InFAT, InDir, Extending, Fetching, Allocating, Unused
  <2>6. Inside(t)'
    BY <1>1, <1>2 DEF Inside
  <2> QED
    BY <1>1, <2>3, <2>4, <2>5, <2>6, FatStep
<1>4. CASE c # 0
  <2>1. /\ loc' = [loc EXCEPT ![t] = [@ EXCEPT !.cluster = c]]
        /\ fat_pc' = [fat_pc EXCEPT ![t] = "fetch"]
    BY <1>4 DEF Follow, FatGoto
  <2> HIDE DEF c
  <2>2. [loc[t] EXCEPT !.cluster = c] \in Locals
    BY <1>1 DEF Locals
  <2>3. Types'
    BY <1>1, <2>1, <2>2 DEF Typed, Types, FatPCs
  <2>4. OthersKept(t)
    BY <1>1, <2>1 DEF OthersKept, Typed, Types
  <2>5. loc'[t].index = loc[t].index /\ loc'[t].buf = loc[t].buf /\ fat_pc'[t] = "fetch"
    BY <1>1, <2>1 DEF Typed, Types, Locals
  <2>6. CallFits(t)'
    BY <1>1, <2>5 DEF CallFits, Fits, InFAT, InDir, Extending, Fetching, Allocating
  <2>7. Inside(t)'
    BY <2>5 DEF Inside
  <2> QED
    BY <1>1, <2>3, <2>4, <2>6, <2>7, FatStep
<1> QED
  BY <1>3, <1>4

LEMMA PieceFits ==
  ASSUME Types, NEW t \in Users, NEW b \in Buffers
  PROVE  /\ Piece(t, b) \in Locals
         /\ Piece(t, b).index = loc[t].index - Length(t) /\ Piece(t, b).buf = loc[t].buf
         /\ Piece(t, b).offset = 0 /\ Piece(t, b).buffer = b
         /\ Piece(t, b).cluster = loc[t].cluster /\ Piece(t, b).flags = loc[t].flags
         /\ Piece(t, b).sector = loc[t].sector /\ Piece(t, b).next_cluster = loc[t].next_cluster
<1> DEFINE k == loc[t].index - Length(t)
<1>1. k \in 0..MaxSize
  BY LengthFits DEF Types
<1>2. Piece(t, b) = [loc[t] EXCEPT !.index = k, !.offset = 0, !.buffer = b]
  BY DEF Piece
<1> HIDE DEF k
<1>3. loc[t] \in Locals
  BY DEF Types
<1> QED
  BY <1>1, <1>2, <1>3, FatConstants DEF Locals, k

LEMMA ByteIsByte ==
  ASSUME Types, NEW t \in Users, filp[t] \in Files, NEW o \in Covered(t)
  PROVE  o \in Offsets /\ Byte(t, o) \in Bytes /\ position[t] + o - loc[t].offset \in Nat
<1>1. o \in Offsets /\ o >= loc[t].offset /\ o \in Nat
  BY FatConstants DEF Covered, Offsets
<1>2. position[t] \in Nat /\ loc[t].offset \in Nat
  BY FatConstants DEF Types, Locals, Offsets
<1>3. position[t] + o - loc[t].offset \in Nat
  BY <1>1, <1>2
<1> QED
  BY <1>1, <1>3 DEF Byte, Bytes

LEMMA StoreTyped ==
  ASSUME Typed, NEW t \in Users, Store(t)
  PROVE  FatMoved(t)
<1> DEFINE b == [o \in Offsets |-> IF o \in Covered(t) THEN Byte(t, o) ELSE loc[t].buffer[o]]
           pos == position[t] + Length(t)
           piece == Piece(t, b)
<1>1. /\ loc[t] \in Locals /\ CallFits(t) /\ fat_pc[t] = "store" /\ filp[t] \in Files
      /\ fat' = fat /\ dir' = dir /\ filp' = filp
  BY DEF Store, Typed, Types, CallFits, Fits
<1>2. fat_hit \subseteq fat_hit' /\ fat_hit' \subseteq Events
  <2>1. PICK E : E \subseteq Events /\ Hit(E)
    BY DEF Store, Events
  <2> QED
    BY <2>1, HitKeeps DEF Typed, Types
<1>3. b \in Buffers
  BY <1>1, ByteIsByte DEF Typed, Buffers, Locals
<1>4. /\ piece \in Locals /\ piece.index = loc[t].index - Length(t) /\ piece.buf = loc[t].buf
  BY <1>3, PieceFits DEF Typed
<1>5. pos \in 0..MaxSize /\ pos + piece.index <= MaxSize /\ piece.index \in 0..MaxSize
  BY <1>1, <1>4, LengthFits, FatConstants DEF Typed, Types, CallFits, Fits, Extending, Locals
<1>6. /\ data' = IF loc[t].sector = Outside THEN data ELSE [data EXCEPT ![loc[t].sector] = b]
      /\ position' = [position EXCEPT ![t] = pos]
      /\ inode' = IF piece.index > 0 THEN inode
                  ELSE [inode EXCEPT ![t] = [@ EXCEPT !.size = Grown(t, pos)]]
      /\ IF piece.index > 0
         THEN fat_pc' = [fat_pc EXCEPT ![t] = "next"] /\ loc' = [loc EXCEPT ![t] = piece]
         ELSE IF pos > inode[t].size
         THEN fat_pc' = [fat_pc EXCEPT ![t] = "size"] /\ loc' = [loc EXCEPT ![t] = Unused]
         ELSE fat_pc' = [fat_pc EXCEPT ![t] = "run"] /\ loc' = [loc EXCEPT ![t] = Unused]
  BY DEF Store, FatGoto, Return
<1> HIDE DEF b, pos, piece
<1>7. data' \in [Clusters -> Buffers]
  BY <1>1, <1>3, <1>6 DEF Typed, Types, Locals
<1>8. position' \in [Users -> 0..MaxSize] /\ position'[t] = pos
  BY <1>5, <1>6 DEF Typed, Types
<1>9. inode[t] \in Inodes /\ Grown(t, pos) \in 0..MaxSize
      /\ pos <= Grown(t, pos)
  BY <1>5, FatConstants DEF Grown, Inodes, Typed, Types
<1>10. [inode[t] EXCEPT !.size = Grown(t, pos)] \in Inodes
  BY <1>9 DEF Inodes
<1>11. inode' \in [Users -> Inodes]
  BY <1>6, <1>10 DEF Typed, Types
<1>12. loc' \in [Users -> Locals] /\ fat_pc' \in [Users -> FatPCs]
  BY <1>4, <1>6, UnusedIsLocal DEF Typed, Types, FatPCs
<1>13. Types'
  BY <1>1, <1>2, <1>7, <1>8, <1>11, <1>12 DEF Typed, Types
<1>14. OthersKept(t)
  BY <1>1, <1>6 DEF OthersKept, Typed, Types
<1>15. CASE piece.index > 0
  <2>1. fat_pc'[t] = "next" /\ loc'[t] = piece
    BY <1>6, <1>15 DEF Typed, Types
  <2>2. CallFits(t)'
    BY <1>1, <1>4, <1>5, <1>8, <2>1
       DEF CallFits, Fits, InFAT, InDir, Extending, Fetching, Allocating
  <2>3. Inside(t)'
    BY <2>1 DEF Inside
  <2> QED
    BY <1>2, <1>13, <1>14, <2>2, <2>3, FatStep
<1>16. CASE ~(piece.index > 0)
  <2>1. fat_pc'[t] \in {"size", "run"} /\ loc'[t] = Unused
    BY <1>6, <1>16 DEF Typed, Types
  <2>2. Unused.buf = Empty
    BY DEF Unused
  <2>3. CallFits(t)'
    BY <1>1, <2>1, <2>2 DEF CallFits, Fits, InFAT, InDir, Extending, Fetching, Allocating
  <2>4. inode'[t].size = Grown(t, pos)
    BY <1>6, <1>9, <1>16 DEF Typed, Types, Inodes
  <2>5. Inside(t)'
    BY <1>8, <1>9, <2>4 DEF Inside
  <2> QED
    BY <1>2, <1>13, <1>14, <2>3, <2>5, FatStep
<1> QED
  BY <1>15, <1>16

LEMMA FetchTyped ==
  ASSUME Typed, NEW t \in Users, Fetch(t)
  PROVE  FatMoved(t)
<1> DEFINE b == Contents(Sector(loc[t].cluster))
           pos == position[t] + Length(t)
           piece == Piece(t, b)
<1>1. /\ loc[t] \in Locals /\ CallFits(t) /\ fat_pc[t] = "fetch" /\ filp[t] \in Files
      /\ fat' = fat /\ dir' = dir /\ data' = data /\ filp' = filp /\ inode' = inode
      /\ fat_hit' = fat_hit
  BY DEF Fetch, openVars, Typed, Types, CallFits, Fits
<1>2. /\ piece \in Locals /\ piece.index = loc[t].index - Length(t) /\ piece.buf = loc[t].buf
  BY SectorIsSector, PieceFits DEF Typed, Types
<1>3. /\ pos \in 0..MaxSize /\ pos + piece.index <= inode[t].size /\ piece.index \in 0..MaxSize
      /\ pos <= inode[t].size
  BY <1>1, <1>2, LengthFits, FatConstants DEF Typed, Types, CallFits, Fits, Fetching, Locals, Inodes
<1>4. /\ position' = [position EXCEPT ![t] = pos]
      /\ IF piece.index > 0
         THEN fat_pc' = [fat_pc EXCEPT ![t] = "follow"] /\ loc' = [loc EXCEPT ![t] = piece]
         ELSE fat_pc' = [fat_pc EXCEPT ![t] = "run"] /\ loc' = [loc EXCEPT ![t] = Unused]
  BY DEF Fetch, FatGoto, Return
<1> HIDE DEF b, pos, piece
<1>5. Types' /\ position'[t] = pos
  BY <1>1, <1>2, <1>3, <1>4, UnusedIsLocal DEF Typed, Types, FatPCs
<1>6. OthersKept(t)
  BY <1>1, <1>4 DEF OthersKept, Typed, Types
<1>7. CASE piece.index > 0
  <2>1. fat_pc'[t] = "follow" /\ loc'[t] = piece
    BY <1>4, <1>7 DEF Typed, Types
  <2>2. CallFits(t)'
    BY <1>1, <1>2, <1>3, <1>5, <1>7, <2>1
       DEF CallFits, Fits, InFAT, InDir, Extending, Fetching, Allocating
  <2>3. Inside(t)'
    BY <2>1 DEF Inside
  <2> QED
    BY <1>1, <1>5, <1>6, <2>2, <2>3, FatStep
<1>8. CASE ~(piece.index > 0)
  <2>1. fat_pc'[t] = "run" /\ loc'[t] = Unused
    BY <1>4, <1>8 DEF Typed, Types
  <2>2. Unused.buf = Empty
    BY DEF Unused
  <2>3. CallFits(t)'
    BY <2>1, <2>2 DEF CallFits, Fits, InFAT, InDir, Extending, Fetching, Allocating
  <2>4. Inside(t)'
    BY <1>1, <1>3, <1>5 DEF Inside
  <2> QED
    BY <1>1, <1>5, <1>6, <2>3, <2>4, FatStep
<1> QED
  BY <1>7, <1>8

LEMMA NeededFits ==
  ASSUME NEW n \in 0..MaxSize
  PROVE  /\ Needed(n) \in Nat /\ n <= ClusterSize * Needed(n)
         /\ Needed(n) = 0 <=> n = 0
<1> DEFINE a == n + ClusterSize - 1
           q == a \div ClusterSize
           r == a % ClusterSize
<1>1. a \in Nat /\ n \in Nat /\ ClusterSize \in Nat \ {0}
  BY FatConstants
<1> HIDE DEF a
<1>2. q \in 0..a /\ r \in 0..(ClusterSize - 1) /\ a = ClusterSize * q + r
  BY <1>1, FatDivMod, Zenon
<1>3. Needed(n) = q
  BY DEF Needed, a
<1> HIDE DEF q, r
<1>4. q \in Nat /\ r \in Nat /\ r < ClusterSize /\ n + ClusterSize - 1 = ClusterSize * q + r
  BY <1>1, <1>2 DEF a
<1>5. n <= ClusterSize * q
  <2> DEFINE p == ClusterSize * q
  <2>1. p \in Int
    BY <1>1, <1>4
  <2>2. n + ClusterSize - 1 = p + r
    BY <1>4
  <2> HIDE DEF p
  <2>3. n <= p
    BY <1>1, <1>4, <2>1, <2>2
  <2> QED
    BY <2>3 DEF p
<1>6. q = 0 => n = 0
  BY <1>1, <1>5
<1>7. ASSUME n = 0, q # 0
      PROVE  FALSE
  <2>1. q >= 1 /\ ClusterSize * q >= ClusterSize
    BY <1>1, <1>4, <1>7
  <2> QED
    BY <1>1, <1>4, <1>7, <2>1
<1> QED
  BY <1>3, <1>4, <1>5, <1>6, <1>7

Piled(sizes, first, f) == first[f]..(first[f] + Needed(sizes[f]) - 1)

\* What the tool that makes the image leaves, file by file.
LEMMA FormattedFacts ==
  ASSUME NEW sizes \in [Files -> 0..InitSize], NEW first \in [Files -> Clusters],
         Formatted(sizes, first)
  PROVE  /\ \A f \in Files : Piled(sizes, first, f) \subseteq Clusters
         /\ \A f, g \in Files : f # g => Piled(sizes, first, f) \cap Piled(sizes, first, g) = {}
         /\ dir \in Dirs /\ fat \in FATs /\ data \in [Clusters -> Buffers]
         /\ \A f \in Files : /\ dir[f].size = sizes[f]
                            /\ dir[f].first = IF sizes[f] = 0 THEN 0 ELSE first[f]
         /\ \A f \in Files : \A c \in Piled(sizes, first, f) :
              /\ fat[c] = IF c + 1 \in Piled(sizes, first, f) THEN c + 1 ELSE EOC
              /\ data[c] = [o \in Offsets |-> <<f, (c - first[f]) * ClusterSize + o>>]
         /\ \A c \in Clusters : (\A f \in Files : c \notin Piled(sizes, first, f)) =>
              fat[c] = 0 /\ data[c] = Blank
<1> DEFINE own(f) == Piled(sizes, first, f)
           user(c) == CHOOSE f \in Files : c \in own(f)
           used == UNION {own(f) : f \in Files}
<1>1. /\ used \subseteq Clusters
      /\ \A f, g \in Files : f # g => own(f) \cap own(g) = {}
      /\ dir = [f \in Files |-> [size |-> sizes[f],
                                first |-> IF sizes[f] = 0 THEN 0 ELSE first[f]]]
      /\ fat = [c \in Clusters |-> IF c \notin used THEN 0
                                   ELSE IF c + 1 \in own(user(c)) THEN c + 1 ELSE EOC]
      /\ data = [s \in Clusters |-> [o \in Offsets |->
           IF s \in used THEN <<user(s), (s - first[user(s)]) * ClusterSize + o>> ELSE NoByte]]
  BY DEF Formatted, Piled
<1>2. \A c : c \in used <=> \E f \in Files : c \in own(f)
  OBVIOUS
<1> HIDE DEF used
<1>3. \A f \in Files : own(f) \subseteq Clusters
  BY <1>1, <1>2
<1>4. \A f \in Files : \A c \in own(f) : user(c) = f
  BY <1>1
<1>5. \A f \in Files : \A c \in own(f) :
        /\ c \in Clusters
        /\ fat[c] = IF c + 1 \in own(f) THEN c + 1 ELSE EOC
        /\ data[c] = [o \in Offsets |-> <<f, (c - first[f]) * ClusterSize + o>>]
  <2> SUFFICES ASSUME NEW f \in Files, NEW c \in own(f)
               PROVE  /\ c \in Clusters
                      /\ fat[c] = IF c + 1 \in own(f) THEN c + 1 ELSE EOC
                      /\ data[c] = [o \in Offsets |-> <<f, (c - first[f]) * ClusterSize + o>>]
    OBVIOUS
  <2>1. c \in Clusters /\ c \in used /\ user(c) = f
    BY <1>2, <1>3, <1>4
  <2> HIDE DEF own, user
  <2> QED
    BY <1>1, <2>1
<1>6. \A c \in Clusters : (\A f \in Files : c \notin own(f)) => fat[c] = 0 /\ data[c] = Blank
  <2> SUFFICES ASSUME NEW c \in Clusters, \A f \in Files : c \notin own(f)
               PROVE  fat[c] = 0 /\ data[c] = Blank
    OBVIOUS
  <2>1. c \notin used
    BY <1>2
  <2> HIDE DEF own, user
  <2> QED
    BY <1>1, <2>1 DEF Blank
<1>7. \A f \in Files : sizes[f] \in 0..MaxSize /\ sizes[f] \in Nat
  BY FatConstants
<1>8. dir \in Dirs
  BY <1>1, <1>7, FatConstants DEF Dirs, Inodes
<1>9. \A c \in Clusters : fat[c] \in Links
  <2> SUFFICES ASSUME NEW c \in Clusters
               PROVE  fat[c] \in Links
    OBVIOUS
  <2>1. CASE \E f \in Files : c \in own(f)
    <3>1. PICK f \in Files : c \in own(f)
      BY <2>1
    <3>2. (fat[c] = c + 1 /\ c + 1 \in Clusters) \/ fat[c] = EOC
      BY <1>3, <1>5, <3>1
    <3> QED
      BY <3>2 DEF Links
  <2>2. CASE ~\E f \in Files : c \in own(f)
    BY <1>6, <2>2 DEF Links
  <2> QED
    BY <2>1, <2>2
<1>10. \A c \in Clusters : data[c] \in Buffers
  <2> SUFFICES ASSUME NEW c \in Clusters
               PROVE  data[c] \in Buffers
    OBVIOUS
  <2>1. CASE \E f \in Files : c \in own(f)
    <3>1. PICK f \in Files : c \in own(f)
      BY <2>1
    <3>2. data[c] = [o \in Offsets |-> <<f, (c - first[f]) * ClusterSize + o>>]
      BY <1>5, <3>1
    <3>3. c - first[f] \in Nat
      <4>1. first[f] \in Nat /\ Needed(sizes[f]) \in Nat
        BY <1>7, NeededFits, FatConstants
      <4> QED
        BY <3>1, <4>1 DEF Piled
    <3> DEFINE k == c - first[f]
    <3> HIDE DEF k
    <3>4. \A o \in Offsets : k * ClusterSize + o \in Nat
      BY <3>3, FatConstants DEF k, Offsets
    <3>5. data[c] = [o \in Offsets |-> <<f, k * ClusterSize + o>>]
      BY <3>2 DEF k
    <3> QED
      BY <3>4, <3>5 DEF Buffers, Bytes
  <2>2. CASE ~\E f \in Files : c \in own(f)
    BY <1>6, <2>2, UnusedIsLocal
  <2> QED
    BY <2>1, <2>2
<1>11. fat \in FATs /\ data \in [Clusters -> Buffers]
  BY <1>1, <1>9, <1>10 DEF FATs
<1>12. \A f \in Files : /\ dir[f].size = sizes[f]
                       /\ dir[f].first = IF sizes[f] = 0 THEN 0 ELSE first[f]
  BY <1>1
<1> HIDE DEF own, user
<1>13. /\ \A f, g \in Files : f # g => own(f) \cap own(g) = {}
  BY <1>1
<1> QED
  BY <1>3, <1>13, <1>5, <1>6, <1>8, <1>11, <1>12 DEF own

LEMMA InitTyped ==
  FatInit => Typed
<1> SUFFICES ASSUME FatInit PROVE Typed
  OBVIOUS
<1>1. dir \in Dirs /\ fat \in FATs /\ data \in [Clusters -> Buffers]
  BY FormattedFacts DEF FatInit
<1>2. NoEntry \in Inodes /\ NoEntry.size = 0 /\ 0 \in 0..MaxSize
  BY FatConstants DEF NoEntry, Inodes
<1>3. Types
  BY <1>1, <1>2, UnusedIsLocal DEF Types, FatInit, FatPCs
<1>4. \A t \in Users : fat_pc[t] = "run" /\ loc[t].buf = Empty /\ position[t] = 0 /\ inode[t].size = 0
  BY <1>2 DEF FatInit, Unused
<1>5. \A t \in Users : CallFits(t)
  BY <1>4 DEF CallFits, Fits, InFAT, InDir, Extending, Fetching, Allocating
<1>6. StaysInside
  BY <1>4 DEF StaysInside, Inside
<1> QED
  BY <1>3, <1>5, <1>6 DEF Typed

LEMMA NextMoves ==
  ASSUME Typed, NEW t \in Users, SysCall(t) \/ FatTransfer(t)
  PROVE  FatMoved(t)
<1>1. CASE SysCall(t)
  BY <1>1, OpenTyped, CloseTyped, LseekTyped, WriteTyped, ReadTyped DEF SysCall
<1>2. CASE FatTransfer(t)
  <2>1. CASE Walk(t, "walk", "load")
    BY <2>1, WalkTyped
  <2>2. CASE Walk(t, "walk_read", "fetch")
    BY <2>2, WalkTyped
  <2>3. CASE FindFirst(t) \/ FindNext(t)
    BY <2>3, FindFirstTyped, FindNextTyped
  <2>4. CASE ReadFAT(t) \/ WriteFAT(t) \/ ReadDir(t) \/ WriteDir(t)
    BY <2>4, ReadFATTyped, WriteFATTyped, ReadDirTyped, WriteDirTyped
  <2>5. CASE Load(t) \/ Store(t) \/ NextCluster(t)
    BY <2>5, LoadTyped, StoreTyped, NextClusterTyped
  <2>6. CASE Fetch(t) \/ Follow(t)
    BY <2>6, FetchTyped, FollowTyped
  <2> QED
    BY <1>2, <2>1, <2>2, <2>3, <2>4, <2>5, <2>6 DEF FatTransfer
<1> QED
  BY <1>1, <1>2

LEMMA NextTyped ==
  Typed /\ [FatNext]_fat_vars => Typed'
<1> SUFFICES ASSUME Typed, [FatNext]_fat_vars PROVE Typed'
  OBVIOUS
<1>1. CASE UNCHANGED fat_vars
  BY <1>1 DEF fat_vars, openVars, Typed, Types, CallFits, StaysInside, Inside
<1>2. CASE \E t \in Users : SysCall(t) \/ FatTransfer(t)
  BY <1>2, NextMoves DEF FatMoved
<1> QED
  BY <1>1, <1>2 DEF FatNext, Bounded

LEMMA TypedIsInvariant ==
  FatSpec => []Typed
<1> QED
  BY InitTyped, NextTyped, PTL DEF FatSpec
-----------------------------------------------------------------------------
(* Whose the clusters are *)

Owners == [Clusters -> Files \cup {NoFile}]
Mine(own, f, c) == c \in Clusters => own[c] = f
Only(f, bytes) == \A o \in Offsets : bytes[o][1] \in {NoFile, f}
Entries(own, d) == \A f \in Files : Mine(own, f, d[f].first)

\* t has found c free and not yet entered it into the FAT.
Takes(t, c) == \/ fat_pc[t] \in {"inode", "mark"} /\ loc[t].cluster = c
               \/ fat_pc[t] \in {"link", "end"} /\ loc[t].next_cluster = c

CellOwned(own, c) ==
  /\ fat[c] # 0 => own[c] \in Files
  /\ fat[c] \in Clusters => own[fat[c]] = own[c]
  /\ own[c] \in Files => fat[c] # 0 \/ \E t \in Users : Takes(t, c)
  /\ Only(own[c], data[c])

\* The clusters and the bytes a task has in its variables are those of its file.
TaskOwns(own, t) ==
  LET l == loc[t]
      f == filp[t]
  IN /\ f \in Files => Mine(own, f, inode[t].first)
     /\ fat_pc[t] # "run" =>
          /\ Mine(own, f, l.cluster) /\ Mine(own, f, l.next_cluster) /\ Mine(own, f, l.sector)
          /\ Only(f, l.buffer)
     /\ fat_pc[t] \in InFAT => l.buf \in {Empty, fat}
     /\ fat_pc[t] \in InDir => l.buf = Empty \/ Entries(own, l.buf)

Owns(own) ==
  /\ Entries(own, dir)
  /\ \A c \in Clusters : CellOwned(own, c)
  /\ \A t \in Users : TaskOwns(own, t)

OneAllocates ==
  \A t, u \in Users : fat_pc[t] \in Allocating /\ fat_pc[u] \in Allocating => t = u

Ownership == "fat_race" \notin fat_hit => OneAllocates /\ \E own \in Owners : Owns(own)

\* A step that changes nothing of the disk.
LEMMA OwnTask ==
  ASSUME Typed, NEW t \in Users, OthersKept(t), NEW own \in Owners, Owns(own),
         fat' = fat, dir' = dir, data' = data, TaskOwns(own, t)',
         \A c \in Clusters : Takes(t, c) => Takes(t, c)'
  PROVE  Owns(own)'
<1>1. ASSUME NEW u \in Users \ {t}
      PROVE  TaskOwns(own, u)' /\ \A c \in Clusters : Takes(u, c)' <=> Takes(u, c)
  BY DEF Owns, TaskOwns, OthersKept, Takes
<1>2. \A u \in Users : TaskOwns(own, u)'
  BY <1>1
<1>3. ASSUME NEW c \in Clusters
      PROVE  CellOwned(own, c)'
  <2>1. CellOwned(own, c)
    BY DEF Owns
  <2>2. (\E u \in Users : Takes(u, c)) => \E u \in Users : Takes(u, c)'
    BY <1>1
  <2> QED
    BY <2>1, <2>2 DEF CellOwned
<1>4. Entries(own, dir)'
  BY DEF Owns, Entries
<1> QED
  BY <1>2, <1>3, <1>4 DEF Owns

LEMMA OthersAllocate ==
  ASSUME Typed, NEW t \in Users, OthersKept(t), OneAllocates,
         fat_pc'[t] \in Allocating => fat_pc[t] \in Allocating
                                      \/ \A u \in Users \ {t} : fat_pc[u] \notin Allocating
  PROVE  OneAllocates'
  BY DEF OneAllocates, OthersKept

LEMMA OpenOwned ==
  ASSUME Typed, NEW t \in Users, NEW f \in Files, NEW trunc \in BOOLEAN, NEW append \in BOOLEAN,
         Open(t, f, trunc, append), NEW own \in Owners, Owns(own), OthersKept(t)
  PROVE  Owns(own)'
<1>1. /\ filp'[t] = f /\ inode'[t].first = dir[f].first /\ fat_pc'[t] = "run" /\ fat_pc[t] = "run"
      /\ fat' = fat /\ dir' = dir /\ data' = data
  BY DEF Open, Lookup, Typed, Types, Dirs, Inodes
<1>2. TaskOwns(own, t)'
  BY <1>1 DEF TaskOwns, Owns, Entries, InFAT, InDir
<1>3. \A c : ~Takes(t, c)
  BY <1>1 DEF Takes
<1> QED
  BY <1>1, <1>2, <1>3, OwnTask

LEMMA CloseOwned ==
  ASSUME Typed, NEW t \in Users, Close(t), NEW own \in Owners, Owns(own), OthersKept(t)
  PROVE  Owns(own)'
<1>1. /\ filp'[t] = NoFile /\ fat_pc'[t] = "run" /\ fat_pc[t] = "run"
      /\ fat' = fat /\ dir' = dir /\ data' = data
  BY DEF Close, Typed, Types
<1>2. TaskOwns(own, t)'
  BY <1>1, FatConstants DEF TaskOwns, InFAT, InDir
<1>3. \A c : ~Takes(t, c)
  BY <1>1 DEF Takes
<1> QED
  BY <1>1, <1>2, <1>3, OwnTask

LEMMA LseekOwned ==
  ASSUME Typed, NEW t \in Users, NEW pos, Lseek(t, pos), NEW own \in Owners, Owns(own), OthersKept(t)
  PROVE  Owns(own)'
<1>1. /\ fat' = fat /\ dir' = dir /\ data' = data /\ filp' = filp /\ inode' = inode
      /\ fat_pc' = fat_pc /\ loc' = loc
  BY DEF Lseek, openVars
<1>2. TaskOwns(own, t)'
  BY <1>1 DEF TaskOwns, Owns
<1>3. \A c : Takes(t, c) => Takes(t, c)'
  BY <1>1 DEF Takes
<1> QED
  BY <1>1, <1>2, <1>3, OwnTask

\* What a call has at first, and what it leaves, is nobody's or its file's.
LEMMA StartedOwned ==
  ASSUME Typed, NEW t \in Users, NEW n \in 0..MaxSize, NEW own \in Owners, Owns(own), OthersKept(t),
         filp[t] \in Files, fat_pc[t] = "run", fat_pc'[t] \notin InFAT \cup InDir,
         loc'[t] = Started(t, n),
         fat' = fat, dir' = dir, data' = data, filp' = filp, inode' = inode
  PROVE  Owns(own)'
<1>1. /\ loc'[t].cluster = inode[t].first /\ loc'[t].next_cluster = 0 /\ loc'[t].sector = Outside
      /\ loc'[t].buffer = Blank /\ loc'[t].buf = Empty
  BY DEF Started, Unused
<1>2. Only(filp[t], Blank)
  BY DEF Only, Blank, NoByte
<1>3. Outside \notin Clusters /\ 0 \notin Clusters
  BY FatConstants DEF Outside
<1>4. TaskOwns(own, t)'
  BY <1>1, <1>2, <1>3 DEF TaskOwns, Owns, Mine
<1>5. \A c : ~Takes(t, c)
  BY DEF Takes
<1> QED
  BY <1>4, <1>5, OwnTask

LEMMA WriteOwned ==
  ASSUME Typed, NEW t \in Users, NEW n \in 1..MaxSize, Write(t, n),
         NEW own \in Owners, Owns(own), OthersKept(t)
  PROVE  Owns(own)'
<1>1. /\ filp[t] \in Files /\ fat_pc[t] = "run" /\ fat_pc'[t] \notin InFAT \cup InDir
      /\ loc'[t] = Started(t, n)
      /\ fat' = fat /\ dir' = dir /\ data' = data /\ filp' = filp /\ inode' = inode
  BY DEF Write, openVars, Typed, Types, InFAT, InDir
<1>2. n \in 0..MaxSize
  BY FatConstants
<1> QED
  BY <1>1, <1>2, StartedOwned

LEMMA ReadOwned ==
  ASSUME Typed, NEW t \in Users, NEW n \in 1..MaxSize, Read(t, n),
         NEW own \in Owners, Owns(own), OthersKept(t)
  PROVE  Owns(own)'
<1> DEFINE m == IF position[t] + n > inode[t].size THEN inode[t].size - position[t] ELSE n
<1>1. m \in 0..MaxSize
  BY FatConstants DEF Read, Typed, Types, Inodes
<1>2. /\ filp[t] \in Files /\ fat_pc[t] = "run" /\ fat_pc'[t] \notin InFAT \cup InDir
      /\ loc'[t] = Started(t, m)
      /\ fat' = fat /\ dir' = dir /\ data' = data /\ filp' = filp /\ inode' = inode
  BY DEF Read, openVars, Typed, Types, InFAT, InDir
<1> QED
  BY <1>1, <1>2, StartedOwned

LEMMA EntryOwned ==
  ASSUME Typed, NEW own \in Owners, Owns(own), NEW f \in Files, NEW c, Mine(own, f, c)
  PROVE  Mine(own, f, Entry(c))
  BY FatConstants DEF Mine, Entry, Owns, CellOwned

LEMMA SectorOwned ==
  ASSUME Typed, NEW own \in Owners, Owns(own), NEW f \in Files, NEW c, Mine(own, f, c)
  PROVE  Mine(own, f, Sector(c)) /\ Only(f, Contents(Sector(c)))
<1>1. Only(f, Blank) /\ Outside \notin Clusters
  BY FatConstants DEF Only, Blank, NoByte, Outside
<1> QED
  BY <1>1 DEF Mine, Sector, SectorOf, Contents, Owns, CellOwned

\* A call that returns.
LEMMA ReturnOwned ==
  ASSUME Typed, NEW t \in Users, Return(t), NEW own \in Owners, Owns(own), OthersKept(t),
         fat_pc[t] \notin Allocating,
         fat' = fat, dir' = dir, data' = data, filp' = filp, inode' = inode
  PROVE  Owns(own)'
<1>1. fat_pc'[t] = "run"
  BY DEF Return, Typed, Types
<1>2. TaskOwns(own, t)'
  BY <1>1 DEF TaskOwns, Owns, InFAT, InDir
<1>3. \A c : ~Takes(t, c)
  BY DEF Takes, Allocating
<1> QED
  BY <1>2, <1>3, OwnTask

\* A step inside a call, which may have looked at the FAT or read a cluster.
LEMMA LooksOwned ==
  ASSUME Typed, NEW t \in Users, NEW own \in Owners, Owns(own), OthersKept(t),
         fat_pc[t] \notin Allocating, fat_pc[t] # "run", fat_pc'[t] \notin InFAT \cup InDir,
         fat' = fat, dir' = dir, data' = data, filp' = filp, inode' = inode,
         loc'[t].cluster \in {loc[t].cluster, Entry(loc[t].cluster)},
         loc'[t].next_cluster \in {loc[t].next_cluster, Entry(loc[t].cluster)},
         loc'[t].sector \in {loc[t].sector, Sector(loc[t].cluster)},
         loc'[t].buffer \in {loc[t].buffer, Contents(Sector(loc[t].cluster))}
  PROVE  Owns(own)'
<1>1. filp[t] \in Files
  BY DEF Typed, CallFits, Fits
<1>2. TaskOwns(own, t)
  BY DEF Owns
<1>3. Mine(own, filp[t], Entry(loc[t].cluster))
  BY <1>1, <1>2, EntryOwned DEF TaskOwns
<1>4. Mine(own, filp[t], Sector(loc[t].cluster)) /\ Only(filp[t], Contents(Sector(loc[t].cluster)))
  BY <1>1, <1>2, SectorOwned DEF TaskOwns
<1>5. TaskOwns(own, t)'
  BY <1>1, <1>2, <1>3, <1>4 DEF TaskOwns, Mine, Only
<1>6. \A c : ~Takes(t, c)
  BY DEF Takes, Allocating
<1> QED
  BY <1>5, <1>6, OwnTask

LEMMA WalkOwned ==
  ASSUME Typed, NEW t \in Users,
         NEW from \in {"walk", "walk_read"}, NEW after, after = IF from = "walk" THEN "load" ELSE "fetch",
         Walk(t, from, after), NEW own \in Owners, Owns(own), OthersKept(t)
  PROVE  Owns(own)'
<1> DEFINE c == Entry(loc[t].cluster)
<1>1. /\ fat' = fat /\ dir' = dir /\ data' = data /\ filp' = filp /\ inode' = inode
      /\ fat_pc[t] = from /\ fat_pc[t] \notin Allocating /\ fat_pc[t] # "run" /\ loc[t] \in Locals
  BY DEF Walk, openVars, Allocating, Typed, Types
<1> HIDE DEF c
<1>2. CASE after = "load" /\ loc[t].i = 1 /\ c = 0
  <2>1. Return(t)
    BY <1>2 DEF Walk, c
  <2> QED
    BY <1>1, <2>1, ReturnOwned
<1>3. CASE ~(after = "load" /\ loc[t].i = 1 /\ c = 0)
  <2>1. /\ loc' = [loc EXCEPT ![t].cluster = c, ![t].i = loc[t].i - 1]
        /\ fat_pc' = [fat_pc EXCEPT ![t] = IF loc[t].i = 1 THEN after ELSE from]
    BY <1>3 DEF Walk, FatGoto, c
  <2>2. loc' = [loc EXCEPT ![t] = [@ EXCEPT !.cluster = c, !.i = loc[t].i - 1]]
    BY <2>1
  <2>3. /\ loc'[t].cluster = c /\ loc'[t].next_cluster = loc[t].next_cluster
        /\ loc'[t].sector = loc[t].sector /\ loc'[t].buffer = loc[t].buffer
        /\ fat_pc'[t] \notin InFAT \cup InDir
    BY <1>1, <2>1, <2>2 DEF Typed, Types, Locals, InFAT, InDir
  <2> QED
    BY <1>1, <2>3, LooksOwned DEF c
<1> QED
  BY <1>2, <1>3

LEMMA LoadOwned ==
  ASSUME Typed, NEW t \in Users, Load(t), NEW own \in Owners, Owns(own), OthersKept(t)
  PROVE  Owns(own)'
<1> DEFINE s == Sector(loc[t].cluster)
           b == Contents(Sector(loc[t].cluster))
<1>1. /\ fat' = fat /\ dir' = dir /\ data' = data /\ filp' = filp /\ inode' = inode
      /\ fat_pc[t] = "load" /\ fat_pc[t] \notin Allocating /\ fat_pc[t] # "run" /\ loc[t] \in Locals
  BY DEF Load, FatGoto, openVars, Allocating, Typed, Types
<1>2. /\ loc' = [loc EXCEPT ![t] = [@ EXCEPT !.sector = s, !.buffer = b]]
      /\ fat_pc' = [fat_pc EXCEPT ![t] = "store"]
  BY DEF Load, FatGoto
<1> HIDE DEF s, b
<1>3. /\ loc'[t].cluster = loc[t].cluster /\ loc'[t].next_cluster = loc[t].next_cluster
      /\ loc'[t].sector = s /\ loc'[t].buffer = b /\ fat_pc'[t] \notin InFAT \cup InDir
  BY <1>1, <1>2 DEF Typed, Types, Locals, InFAT, InDir
<1> QED
  BY <1>1, <1>3, LooksOwned DEF s, b

LEMMA NextClusterOwned ==
  ASSUME Typed, NEW t \in Users, NextCluster(t), NEW own \in Owners, Owns(own), OthersKept(t)
  PROVE  Owns(own)'
<1> DEFINE c == Entry(loc[t].cluster)
<1>1. /\ fat' = fat /\ dir' = dir /\ data' = data /\ filp' = filp /\ inode' = inode
      /\ fat_pc[t] = "next" /\ fat_pc[t] \notin Allocating /\ fat_pc[t] # "run" /\ loc[t] \in Locals
  BY DEF NextCluster, FatGoto, openVars, Allocating, Typed, Types
<1>2. /\ loc' = [loc EXCEPT ![t] = [@ EXCEPT !.next_cluster = c]]
      /\ fat_pc' = [fat_pc EXCEPT ![t] = IF c >= EOC THEN "find_next"
                                       ELSE IF loc[t].flags THEN "store" ELSE "load"]
  BY DEF NextCluster, FatGoto
<1> HIDE DEF c
<1>3. /\ loc'[t].cluster = loc[t].cluster /\ loc'[t].next_cluster = c
      /\ loc'[t].sector = loc[t].sector /\ loc'[t].buffer = loc[t].buffer
      /\ fat_pc'[t] \notin InFAT \cup InDir
  BY <1>1, <1>2 DEF Typed, Types, Locals, InFAT, InDir
<1> QED
  BY <1>1, <1>3, LooksOwned DEF c

LEMMA FollowOwned ==
  ASSUME Typed, NEW t \in Users, Follow(t), NEW own \in Owners, Owns(own), OthersKept(t)
  PROVE  Owns(own)'
<1> DEFINE c == Entry(loc[t].cluster)
<1>1. /\ fat' = fat /\ dir' = dir /\ data' = data /\ filp' = filp /\ inode' = inode
      /\ fat_pc[t] = "follow" /\ fat_pc[t] \notin Allocating /\ fat_pc[t] # "run" /\ loc[t] \in Locals
  BY DEF Follow, openVars, Allocating, Typed, Types
<1>2. CASE c = 0
  <2>1. Return(t)
    BY <1>2 DEF Follow
  <2> QED
    BY <1>1, <2>1, ReturnOwned
<1>3. CASE c # 0
  <2>1. /\ loc' = [loc EXCEPT ![t] = [@ EXCEPT !.cluster = c]]
        /\ fat_pc' = [fat_pc EXCEPT ![t] = "fetch"]
    BY <1>3 DEF Follow, FatGoto
  <2> HIDE DEF c
  <2>2. /\ loc'[t].cluster = c /\ loc'[t].next_cluster = loc[t].next_cluster
        /\ loc'[t].sector = loc[t].sector /\ loc'[t].buffer = loc[t].buffer
        /\ fat_pc'[t] \notin InFAT \cup InDir
    BY <1>1, <2>1 DEF Typed, Types, Locals, InFAT, InDir
  <2> QED
    BY <1>1, <2>2, LooksOwned DEF c
<1> QED
  BY <1>2, <1>3

LEMMA FetchOwned ==
  ASSUME Typed, NEW t \in Users, Fetch(t), NEW own \in Owners, Owns(own), OthersKept(t)
  PROVE  Owns(own)'
<1> DEFINE b == Contents(Sector(loc[t].cluster))
           piece == Piece(t, b)
<1>1. /\ fat' = fat /\ dir' = dir /\ data' = data /\ filp' = filp /\ inode' = inode
      /\ fat_pc[t] = "fetch" /\ fat_pc[t] \notin Allocating /\ fat_pc[t] # "run"
  BY DEF Fetch, openVars, Allocating
<1>2. \/ fat_pc' = [fat_pc EXCEPT ![t] = "follow"] /\ loc' = [loc EXCEPT ![t] = piece]
      \/ Return(t)
  BY DEF Fetch, FatGoto
<1>3. /\ piece.cluster = loc[t].cluster /\ piece.next_cluster = loc[t].next_cluster
      /\ piece.sector = loc[t].sector /\ piece.buffer = b
  BY SectorIsSector, PieceFits DEF Typed, Types
<1> HIDE DEF b, piece
<1>4. CASE Return(t)
  BY <1>1, <1>4, ReturnOwned
<1>5. CASE fat_pc' = [fat_pc EXCEPT ![t] = "follow"] /\ loc' = [loc EXCEPT ![t] = piece]
  <2>1. /\ loc'[t].cluster = loc[t].cluster /\ loc'[t].next_cluster = loc[t].next_cluster
        /\ loc'[t].sector = loc[t].sector /\ loc'[t].buffer = b
        /\ fat_pc'[t] \notin InFAT \cup InDir
    BY <1>3, <1>5 DEF Typed, Types, InFAT, InDir
  <2> QED
    BY <1>1, <2>1, LooksOwned DEF b
<1> QED
  BY <1>2, <1>4, <1>5

LEMMA ReadFATOwned ==
  ASSUME Typed, NEW t \in Users, ReadFAT(t), NEW own \in Owners, Owns(own), OthersKept(t)
  PROVE  Owns(own)'
<1>1. /\ fat' = fat /\ dir' = dir /\ data' = data /\ filp' = filp /\ inode' = inode
      /\ fat_pc[t] \in InFAT /\ fat_pc[t] \notin InDir /\ fat_pc' = fat_pc /\ loc[t] \in Locals
      /\ loc' = [loc EXCEPT ![t] = [@ EXCEPT !.buf = fat]]
  BY DEF ReadFAT, openVars, InFAT, InDir, Typed, Types
<1>2. /\ loc'[t].cluster = loc[t].cluster /\ loc'[t].next_cluster = loc[t].next_cluster
      /\ loc'[t].sector = loc[t].sector /\ loc'[t].buffer = loc[t].buffer /\ loc'[t].buf = fat
  BY <1>1 DEF Typed, Types, Locals
<1>3. TaskOwns(own, t)'
  BY <1>1, <1>2 DEF TaskOwns, Owns
<1>4. \A c : Takes(t, c) => Takes(t, c)'
  BY <1>1, <1>2 DEF Takes
<1> QED
  BY <1>1, <1>3, <1>4, OwnTask

LEMMA ReadDirOwned ==
  ASSUME Typed, NEW t \in Users, ReadDir(t), NEW own \in Owners, Owns(own), OthersKept(t)
  PROVE  Owns(own)'
<1>1. /\ fat' = fat /\ dir' = dir /\ data' = data /\ filp' = filp /\ inode' = inode
      /\ fat_pc[t] \in InDir /\ fat_pc[t] \notin InFAT /\ fat_pc' = fat_pc /\ loc[t] \in Locals
      /\ loc' = [loc EXCEPT ![t] = [@ EXCEPT !.buf = dir]]
  BY DEF ReadDir, openVars, InFAT, InDir, Typed, Types
<1>2. /\ loc'[t].cluster = loc[t].cluster /\ loc'[t].next_cluster = loc[t].next_cluster
      /\ loc'[t].sector = loc[t].sector /\ loc'[t].buffer = loc[t].buffer /\ loc'[t].buf = dir
  BY <1>1 DEF Typed, Types, Locals
<1>3. TaskOwns(own, t)'
  BY <1>1, <1>2 DEF TaskOwns, Owns
<1>4. \A c : Takes(t, c) => Takes(t, c)'
  BY <1>1, <1>2 DEF Takes
<1> QED
  BY <1>1, <1>3, <1>4, OwnTask

LEMMA WriteFATOwned ==
  ASSUME Typed, NEW t \in Users, WriteFAT(t), NEW own \in Owners, Owns(own), OthersKept(t),
         OneAllocates
  PROVE  Owns(own)'
<1> DEFINE c == loc[t].cluster
           n == loc[t].next_cluster
           f == filp[t]
<1>1. /\ dir' = dir /\ data' = data /\ filp' = filp /\ inode' = inode /\ loc[t] \in Locals
      /\ fat_pc[t] \in InFAT /\ loc[t].buf # Empty /\ CallFits(t) /\ TaskOwns(own, t)
      /\ fat_pc' = [fat_pc EXCEPT ![t] = IF fat_pc[t] = "link" THEN "end" ELSE "store"]
      /\ fat_pc[t] \in Allocating /\ fat \in FATs
  BY DEF WriteFAT, openVars, InFAT, Allocating, Typed, Types, Owns
<1>2. f \in Files /\ loc[t].buf = fat
  BY <1>1 DEF CallFits, Fits, TaskOwns, InFAT
<1>3. c \in Clusters /\ own[c] = f /\ (fat_pc[t] # "mark" => n \in Clusters /\ own[n] = f)
  BY <1>1, <1>2 DEF CallFits, Fits, TaskOwns, Mine, InFAT, Allocating
<1>4. fat' = [fat EXCEPT ![Change(t)[1]] = Change(t)[2]]
  BY <1>2 DEF WriteFAT
<1>5. Change(t) = CASE fat_pc[t] = "mark" -> <<c, EOC>>
                    [] fat_pc[t] = "link" -> <<c, n>>
                    [] fat_pc[t] = "end"  -> <<n, EOC>>
  BY DEF Change
<1>6. /\ loc'[t].next_cluster = n /\ loc'[t].sector = loc[t].sector
      /\ loc'[t].buffer = loc[t].buffer /\ loc'[t].buf = Empty
      /\ loc'[t].cluster = IF fat_pc[t] = "end" THEN n ELSE c
  <2> DEFINE l0 == [loc[t] EXCEPT !.buf = Empty]
             l1 == [loc[t] EXCEPT !.buf = Empty, !.cluster = n, !.flags = TRUE]
  <2>1. loc' = [loc EXCEPT ![t] = IF fat_pc[t] = "end" THEN l1 ELSE l0]
    BY DEF WriteFAT
  <2>2. /\ l0.next_cluster = n /\ l0.sector = loc[t].sector
        /\ l0.buffer = loc[t].buffer /\ l0.buf = Empty /\ l0.cluster = c
    BY <1>1 DEF Locals
  <2>3. /\ l1.next_cluster = n /\ l1.sector = loc[t].sector
        /\ l1.buffer = loc[t].buffer /\ l1.buf = Empty /\ l1.cluster = n
    BY <1>1 DEF Locals
  <2>4. loc'[t] = IF fat_pc[t] = "end" THEN l1 ELSE l0
    BY <2>1 DEF Typed, Types
  <2> HIDE DEF l0, l1
  <2> QED
    BY <2>2, <2>3, <2>4
<1> HIDE DEF c, n, f
<1>7. PICK x \in Clusters, y \in Links \ {0} :
        /\ fat' = [fat EXCEPT ![x] = y] /\ own[x] = f /\ Mine(own, f, y)
        /\ \A z : z # x => (Takes(t, z) => Takes(t, z)')
  <2>1. CASE fat_pc[t] = "mark"
    <3>1. fat' = [fat EXCEPT ![c] = EOC]
      BY <1>4, <1>5, <2>1
    <3>2. \A z : z # c => (Takes(t, z) => Takes(t, z)')
      BY <2>1 DEF Takes, c
    <3>3. EOC \in Links \ {0} /\ Mine(own, f, EOC) /\ c \in Clusters /\ own[c] = f
      BY <1>3, <2>1, FatConstants DEF Mine, Links
    <3> QED
      BY <3>1, <3>2, <3>3
  <2>2. CASE fat_pc[t] = "link"
    <3>1. fat' = [fat EXCEPT ![c] = n] /\ fat_pc'[t] = "end"
      BY <1>1, <1>4, <1>5, <2>2 DEF Typed, Types
    <3>2. \A z : Takes(t, z) => Takes(t, z)'
      BY <1>6, <2>2, <3>1 DEF Takes, n
    <3> QED
      BY <1>3, <2>2, <3>1, <3>2, FatConstants DEF Mine, Links
  <2>3. CASE fat_pc[t] = "end"
    <3>1. fat' = [fat EXCEPT ![n] = EOC]
      BY <1>4, <1>5, <2>3
    <3>2. \A z : z # n => (Takes(t, z) => Takes(t, z)')
      BY <2>3 DEF Takes, n
    <3>3. EOC \in Links \ {0} /\ Mine(own, f, EOC) /\ n \in Clusters /\ own[n] = f
      BY <1>3, <2>3, FatConstants DEF Mine, Links
    <3> QED
      BY <3>1, <3>2, <3>3
  <2> QED
    BY <1>1, <2>1, <2>2, <2>3 DEF InFAT
<1>8. \A u \in Users \ {t} : \A z : Takes(u, z) => Takes(u, z)'
  BY DEF Takes, OthersKept
<1>9. ASSUME NEW z \in Clusters
      PROVE  CellOwned(own, z)'
  <2>1. CellOwned(own, z)
    BY DEF Owns
  <2>2. CASE z = x
    <3>1. fat'[z] = y
      BY <1>1, <1>7, <2>2 DEF FATs
    <3> QED
      BY <1>1, <1>2, <1>7, <2>1, <2>2, <3>1 DEF CellOwned, Mine
  <2>3. CASE z # x
    <3>1. fat'[z] = fat[z]
      BY <1>1, <1>7, <2>3 DEF FATs
    <3>2. (\E u \in Users : Takes(u, z)) => \E u \in Users : Takes(u, z)'
      BY <1>7, <1>8, <2>3
    <3> QED
      BY <1>1, <2>1, <3>1, <3>2 DEF CellOwned
  <2> QED
    BY <2>2, <2>3
<1>10. TaskOwns(own, t)'
  <2>1. fat_pc'[t] \in {"store", "end"}
    BY <1>1 DEF Typed, Types
  <2>2. Mine(own, f, loc'[t].cluster) /\ Mine(own, f, loc'[t].next_cluster)
    BY <1>1, <1>6, <1>2 DEF TaskOwns, InFAT, c, n, f
  <2> QED
    BY <1>1, <1>2, <1>6, <2>1, <2>2 DEF TaskOwns, InFAT, InDir, f
<1>11. ASSUME NEW u \in Users \ {t}
       PROVE  TaskOwns(own, u)'
  <2>1. fat_pc[u] \notin InFAT
    BY <1>1 DEF OneAllocates, InFAT, Allocating
  <2> QED
    BY <2>1 DEF TaskOwns, OthersKept, Owns
<1> QED
  BY <1>1, <1>9, <1>10, <1>11 DEF Owns

LEMMA WriteDirOwned ==
  ASSUME Typed, NEW t \in Users, WriteDir(t), NEW own \in Owners, Owns(own), OthersKept(t)
  PROVE  Owns(own)'
<1>1. /\ fat' = fat /\ data' = data /\ filp' = filp /\ inode' = inode /\ loc[t] \in Locals
      /\ fat_pc[t] \in InDir /\ loc[t].buf # Empty /\ CallFits(t) /\ TaskOwns(own, t)
  BY DEF WriteDir, openVars, InDir, Typed, Types, Owns
<1>2. filp[t] \in Files /\ loc[t].buf \in Dirs /\ Entries(own, loc[t].buf)
      /\ Mine(own, filp[t], inode[t].first)
  BY <1>1 DEF CallFits, Fits, TaskOwns, InDir
<1>3. Entries(own, dir')
  BY <1>2 DEF WriteDir, Entries, Dirs
<1>4. ASSUME NEW u \in Users \ {t}
      PROVE  TaskOwns(own, u)' /\ \A c \in Clusters : Takes(u, c)' <=> Takes(u, c)
  BY <1>1 DEF Owns, TaskOwns, OthersKept, Takes
<1>5. \/ Return(t) /\ fat_pc[t] = "size"
      \/ /\ fat_pc[t] = "inode" /\ fat_pc' = [fat_pc EXCEPT ![t] = "mark"]
         /\ loc' = [loc EXCEPT ![t] = [@ EXCEPT !.buf = Empty]]
  BY <1>1 DEF WriteDir, FatGoto, InDir
<1>6. TaskOwns(own, t)' /\ \A c : Takes(t, c) => Takes(t, c)'
  <2>1. CASE Return(t) /\ fat_pc[t] = "size"
    <3>1. fat_pc'[t] = "run"
      BY <2>1 DEF Return, Typed, Types
    <3> QED
      BY <1>1, <2>1, <3>1 DEF TaskOwns, Takes, InFAT, InDir
  <2>2. CASE /\ fat_pc[t] = "inode" /\ fat_pc' = [fat_pc EXCEPT ![t] = "mark"]
             /\ loc' = [loc EXCEPT ![t] = [@ EXCEPT !.buf = Empty]]
    <3>1. /\ loc'[t].cluster = loc[t].cluster /\ loc'[t].next_cluster = loc[t].next_cluster
          /\ loc'[t].sector = loc[t].sector /\ loc'[t].buffer = loc[t].buffer
          /\ loc'[t].buf = Empty /\ fat_pc'[t] = "mark"
      BY <1>1, <2>2 DEF Typed, Types, Locals
    <3> QED
      BY <1>1, <2>2, <3>1 DEF TaskOwns, Takes, InFAT, InDir
  <2> QED
    BY <1>5, <2>1, <2>2
<1>7. ASSUME NEW c \in Clusters
      PROVE  CellOwned(own, c)'
  <2>1. CellOwned(own, c)
    BY DEF Owns
  <2>2. (\E u \in Users : Takes(u, c)) => \E u \in Users : Takes(u, c)'
    BY <1>4, <1>6
  <2> QED
    BY <1>1, <2>1, <2>2 DEF CellOwned
<1> QED
  BY <1>3, <1>4, <1>6, <1>7 DEF Owns, Entries

LEMMA StoreOwned ==
  ASSUME Typed, NEW t \in Users, Store(t), NEW own \in Owners, Owns(own), OthersKept(t)
  PROVE  Owns(own)'
<1> DEFINE b == [o \in Offsets |-> IF o \in Covered(t) THEN Byte(t, o) ELSE loc[t].buffer[o]]
           piece == Piece(t, b)
           f == filp[t]
           s == loc[t].sector
<1>1. /\ fat' = fat /\ dir' = dir /\ filp' = filp /\ loc[t] \in Locals
      /\ fat_pc[t] = "store" /\ f \in Files /\ TaskOwns(own, t)
  BY DEF Store, Typed, Types, CallFits, Fits, Owns
<1>2. b \in Buffers /\ Only(f, b)
  <2>1. Only(f, loc[t].buffer)
    BY <1>1 DEF TaskOwns
  <2>2. \A o \in Offsets : Byte(t, o)[1] = f
    BY DEF Byte
  <2>3. b \in Buffers
    BY <1>1, ByteIsByte DEF Typed, Buffers, Locals
  <2> QED
    BY <2>1, <2>2, <2>3 DEF Only
<1>3. /\ piece.cluster = loc[t].cluster /\ piece.next_cluster = loc[t].next_cluster
      /\ piece.sector = s /\ piece.buffer = b
  BY <1>2, PieceFits DEF Typed
<1>4. /\ data' = IF s = Outside THEN data ELSE [data EXCEPT ![s] = b]
      /\ \/ inode' = inode
         \/ \E pos : inode' = [inode EXCEPT ![t] = [@ EXCEPT !.size = pos]]
      /\ \/ fat_pc' = [fat_pc EXCEPT ![t] = "next"] /\ loc' = [loc EXCEPT ![t] = piece]
         \/ fat_pc' = [fat_pc EXCEPT ![t] = "size"] /\ loc' = [loc EXCEPT ![t] = Unused]
         \/ fat_pc' = [fat_pc EXCEPT ![t] = "run"] /\ loc' = [loc EXCEPT ![t] = Unused]
  <2> DEFINE pos == Grown(t, position[t] + Length(t))
  <2>1. inode' = IF piece.index > 0 THEN inode ELSE [inode EXCEPT ![t] = [@ EXCEPT !.size = pos]]
    BY DEF Store
  <2> HIDE DEF pos
  <2>2. /\ data' = IF s = Outside THEN data ELSE [data EXCEPT ![s] = b]
        /\ \/ fat_pc' = [fat_pc EXCEPT ![t] = "next"] /\ loc' = [loc EXCEPT ![t] = piece]
           \/ fat_pc' = [fat_pc EXCEPT ![t] = "size"] /\ loc' = [loc EXCEPT ![t] = Unused]
           \/ fat_pc' = [fat_pc EXCEPT ![t] = "run"] /\ loc' = [loc EXCEPT ![t] = Unused]
    BY DEF Store, FatGoto, Return
  <2> HIDE DEF piece
  <2> QED
    BY <2>1, <2>2
<1>5. inode'[t].first = inode[t].first
  BY <1>4 DEF Typed, Types, Inodes
<1>6. s \in Clusters \cup {Outside} /\ Mine(own, f, s)
  BY <1>1 DEF TaskOwns, Locals
<1> HIDE DEF b, piece, s
<1>7. TaskOwns(own, t)'
  <2>1. CASE fat_pc' = [fat_pc EXCEPT ![t] = "next"] /\ loc' = [loc EXCEPT ![t] = piece]
    <3>1. fat_pc'[t] = "next" /\ loc'[t] = piece
      BY <2>1 DEF Typed, Types
    <3> QED
      BY <1>1, <1>2, <1>3, <1>5, <3>1, <1>6 DEF TaskOwns, InFAT, InDir
  <2>2. CASE fat_pc' = [fat_pc EXCEPT ![t] = "size"] /\ loc' = [loc EXCEPT ![t] = Unused]
    <3>1. fat_pc'[t] = "size" /\ loc'[t] = Unused
      BY <2>2 DEF Typed, Types
    <3>2. Mine(own, f, 0) /\ Mine(own, f, Outside) /\ Only(f, Blank)
      BY FatConstants DEF Mine, Outside, Only, Blank, NoByte
    <3>3. /\ Unused.cluster = 0 /\ Unused.next_cluster = 0 /\ Unused.sector = Outside
          /\ Unused.buffer = Blank /\ Unused.buf = Empty
      BY DEF Unused
    <3> QED
      BY <1>1, <1>5, <3>1, <3>2, <3>3 DEF TaskOwns, InFAT, InDir
  <2>3. CASE fat_pc' = [fat_pc EXCEPT ![t] = "run"] /\ loc' = [loc EXCEPT ![t] = Unused]
    <3>1. fat_pc'[t] = "run"
      BY <2>3 DEF Typed, Types
    <3> QED
      BY <1>1, <1>5, <3>1 DEF TaskOwns, InFAT, InDir
  <2> QED
    BY <1>4, <2>1, <2>2, <2>3
<1>8. ASSUME NEW u \in Users \ {t}
      PROVE  TaskOwns(own, u)' /\ \A c \in Clusters : Takes(u, c)' <=> Takes(u, c)
  BY <1>1 DEF Owns, TaskOwns, OthersKept, Takes
<1>9. ASSUME NEW c \in Clusters
      PROVE  CellOwned(own, c)'
  <2>1. CellOwned(own, c)
    BY DEF Owns
  <2>2. (\E u \in Users : Takes(u, c)) => \E u \in Users : Takes(u, c)'
    BY <1>1, <1>8 DEF Takes
  <2>3. Only(own[c], data'[c])
    <3>1. CASE c = s
      <4>1. data'[c] = b /\ own[c] = f
        BY <1>4, <1>6, <3>1, FatConstants DEF Typed, Types, Outside, Mine
      <4> QED
        BY <1>2, <4>1
    <3>2. CASE c # s
      <4>1. data'[c] = data[c]
        BY <1>4, <1>6, <3>2 DEF Typed, Types
      <4> QED
        BY <2>1, <4>1 DEF CellOwned
    <3> QED
      BY <3>1, <3>2
  <2> QED
    BY <1>1, <2>1, <2>2, <2>3 DEF CellOwned
<1> QED
  BY <1>1, <1>7, <1>8, <1>9 DEF Owns, Entries

\* While no other task allocates, a free cluster is nobody's, and nobody has it.
LEMMA FreeIsNobodys ==
  ASSUME Typed, NEW t \in Users, fat_pc[t] \notin Allocating,
         \A u \in Users \ {t} : fat_pc[u] \notin Allocating,
         NEW own \in Owners, Owns(own), NEW c \in Clusters, fat[c] = 0
  PROVE  own[c] = NoFile
<1>1. \A u \in Users : fat_pc[u] \notin Allocating
  OBVIOUS
<1>2. ~\E u \in Users : Takes(u, c)
  BY <1>1 DEF Takes, Allocating
<1> QED
  BY <1>2 DEF Owns, CellOwned, Owners

LEMMA MineStays ==
  ASSUME NEW own \in Owners, NEW c \in Clusters, own[c] = NoFile, NEW g,
         NEW f \in Files, NEW x, Mine(own, f, x)
  PROVE  Mine([own EXCEPT ![c] = g], f, x)
  BY FatConstants DEF Mine, Owners

LEMMA GivenOwned ==
  ASSUME Typed, NEW t \in Users, OthersKept(t), fat_pc[t] \notin Allocating,
         NEW own \in Owners, Owns(own), NEW c \in Clusters, fat[c] = 0, own[c] = NoFile,
         filp[t] \in Files, NEW new \in Owners, new = [own EXCEPT ![c] = filp[t]],
         Takes(t, c)', TaskOwns(new, t)', fat' = fat, dir' = dir, data' = data, filp' = filp
  PROVE  Owns(new)'
<1>2. \A f \in Files : \A x : Mine(own, f, x) => Mine(new, f, x)
  BY MineStays
<1>3. new[c] = filp[t] /\ \A x \in Clusters \ {c} : new[x] = own[x]
  BY DEF Owners
<1>4. Entries(new, dir)'
  BY <1>2 DEF Entries, Owns
<1>5. ASSUME NEW u \in Users \ {t}
      PROVE  TaskOwns(new, u)'
  <2>1. TaskOwns(own, u) /\ (filp[u] \in Files \/ fat_pc[u] = "run")
    BY DEF Owns, Typed, CallFits, Fits
  <2>2. \A d : Entries(own, d) => Entries(new, d)
    BY <1>2 DEF Entries
  <2>3. TaskOwns(new, u)
    BY <1>2, <2>1, <2>2 DEF TaskOwns, InFAT, InDir
  <2> QED
    BY <2>3 DEF TaskOwns, OthersKept
<1>6. ASSUME NEW x \in Clusters
      PROVE  CellOwned(new, x)'
  <2>1. CellOwned(own, x) /\ CellOwned(own, c)
    BY DEF Owns
  <2>2. CASE x = c
    <3>1. Only(filp[t], data[c])
      BY <2>1 DEF CellOwned, Only
    <3>2. \E u \in Users : Takes(u, c)'
      OBVIOUS
    <3>3. 0 \notin Clusters
      BY FatConstants
    <3> QED
      BY <1>3, <2>2, <3>1, <3>2, <3>3 DEF CellOwned
  <2>3. CASE x # c
    <3>1. new[x] = own[x]
      BY <1>3, <2>3
    <3>2. fat[x] \in Clusters => new[fat[x]] = new[x]
      <4>1. SUFFICES ASSUME fat[x] \in Clusters
                     PROVE  new[fat[x]] = new[x]
        OBVIOUS
      <4>2. own[fat[x]] = own[x] /\ own[x] \in Files
        BY <2>1, <4>1, FatConstants DEF CellOwned
      <4>3. fat[x] # c
        BY <4>2, FatConstants
      <4> QED
        BY <1>3, <3>1, <4>1, <4>2, <4>3
    <3>3. (\E u \in Users : Takes(u, x)) => \E u \in Users : Takes(u, x)'
      <4>1. ~Takes(t, x)
        BY DEF Takes, Allocating
      <4>2. \A u \in Users \ {t} : Takes(u, x) => Takes(u, x)'
        BY DEF Takes, OthersKept
      <4> QED
        BY <4>1, <4>2
    <3> QED
      BY <2>1, <3>1, <3>2, <3>3 DEF CellOwned
  <2> QED
    BY <2>2, <2>3
<1> QED
  BY <1>4, <1>5, <1>6 DEF Owns

LEMMA RaceIsSeen ==
  ASSUME Typed, NEW t \in Users, FindFirst(t) \/ FindNext(t), "fat_race" \notin fat_hit'
  PROVE  "fat_race" \notin fat_hit /\ \A u \in Users \ {t} : fat_pc[u] \notin Allocating
<1>1. PICK E : FindRace(t) \subseteq E /\ Hit(E)
  BY DEF FindFirst, FindNext
<1>2. "fat_race" \notin FindRace(t) /\ "fat_race" \notin fat_hit
  BY <1>1 DEF Hit
<1> QED
  BY <1>2 DEF FindRace, Others

LEMMA FindFirstOwned ==
  ASSUME Typed, NEW t \in Users, FindFirst(t), NEW own \in Owners, Owns(own), OthersKept(t),
         \A u \in Users \ {t} : fat_pc[u] \notin Allocating
  PROVE  \E new \in Owners : Owns(new)'
<1>1. /\ fat' = fat /\ dir' = dir /\ data' = data /\ filp' = filp
      /\ fat_pc[t] = "find_first" /\ fat_pc[t] \notin Allocating
      /\ loc[t] \in Locals /\ inode[t] \in Inodes /\ filp[t] \in Files
      /\ loc[t].buf = Empty /\ TaskOwns(own, t)
  BY DEF FindFirst, Typed, Types, Allocating, CallFits, Fits, InFAT, InDir, Owns
<1>2. CASE FreeCluster = 0
  <2>1. Return(t) /\ inode' = inode
    BY <1>2 DEF FindFirst
  <2> QED
    BY <1>1, <2>1, ReturnOwned
<1>3. CASE FreeCluster # 0
  <2>1. PICK c \in Clusters : c = FreeCluster /\ fat[c] = 0
    BY <1>3, FreeClusterIsFree DEF Typed, Types
  <2>2. /\ inode' = [inode EXCEPT ![t] = [@ EXCEPT !.first = c]]
        /\ loc' = [loc EXCEPT ![t] = [@ EXCEPT !.cluster = c, !.flags = TRUE]]
        /\ fat_pc' = [fat_pc EXCEPT ![t] = "inode"]
    BY <1>3, <2>1 DEF FindFirst, FatGoto
  <2>3. /\ loc'[t].buf = loc[t].buf /\ loc'[t].cluster = c
        /\ loc'[t].next_cluster = loc[t].next_cluster /\ loc'[t].sector = loc[t].sector
        /\ loc'[t].buffer = loc[t].buffer
        /\ fat_pc'[t] = "inode" /\ inode'[t].first = c
    BY <1>1, <2>2 DEF Typed, Types, Locals, Inodes
  <2>4. own[c] = NoFile
    BY <1>1, <2>1, FreeIsNobodys
  <2> PICK new \in Owners : new = [own EXCEPT ![c] = filp[t]]
    BY <1>1 DEF Owners
  <2>5. \A x : Mine(own, filp[t], x) => Mine(new, filp[t], x)
    BY <1>1, <2>1, <2>4, MineStays
  <2>6. Mine(new, filp[t], c)
    BY <2>1 DEF Mine, Owners
  <2>7. TaskOwns(new, t)'
    BY <1>1, <2>3, <2>5, <2>6 DEF TaskOwns, InFAT, InDir
  <2>8. Takes(t, c)'
    BY <2>3 DEF Takes
  <2> QED
    BY <1>1, <2>1, <2>4, <2>7, <2>8, GivenOwned
<1> QED
  BY <1>2, <1>3

LEMMA FindNextOwned ==
  ASSUME Typed, NEW t \in Users, FindNext(t), NEW own \in Owners, Owns(own), OthersKept(t),
         \A u \in Users \ {t} : fat_pc[u] \notin Allocating
  PROVE  \E new \in Owners : Owns(new)'
<1>1. /\ fat' = fat /\ dir' = dir /\ data' = data /\ filp' = filp /\ inode' = inode
      /\ fat_pc[t] = "find_next" /\ fat_pc[t] \notin Allocating
      /\ loc[t] \in Locals /\ filp[t] \in Files
      /\ loc[t].buf = Empty /\ TaskOwns(own, t)
  BY DEF FindNext, openVars, Typed, Types, Allocating, CallFits, Fits, InFAT, InDir, Owns
<1>2. CASE FreeCluster = 0
  <2>1. Return(t)
    BY <1>2 DEF FindNext
  <2> QED
    BY <1>1, <2>1, ReturnOwned
<1>3. CASE FreeCluster # 0
  <2>1. PICK c \in Clusters : c = FreeCluster /\ fat[c] = 0
    BY <1>3, FreeClusterIsFree DEF Typed, Types
  <2>2. /\ loc' = [loc EXCEPT ![t] = [@ EXCEPT !.next_cluster = c]]
        /\ fat_pc' = [fat_pc EXCEPT ![t] = "link"]
    BY <1>3, <2>1 DEF FindNext, FatGoto
  <2>3. /\ loc'[t].buf = loc[t].buf /\ loc'[t].cluster = loc[t].cluster
        /\ loc'[t].next_cluster = c /\ loc'[t].sector = loc[t].sector
        /\ loc'[t].buffer = loc[t].buffer /\ fat_pc'[t] = "link"
    BY <1>1, <2>2 DEF Typed, Types, Locals
  <2>4. own[c] = NoFile
    BY <1>1, <2>1, FreeIsNobodys
  <2> PICK new \in Owners : new = [own EXCEPT ![c] = filp[t]]
    BY <1>1 DEF Owners
  <2>5. \A x : Mine(own, filp[t], x) => Mine(new, filp[t], x)
    BY <1>1, <2>1, <2>4, MineStays
  <2>6. Mine(new, filp[t], c)
    BY <2>1 DEF Mine, Owners
  <2>7. TaskOwns(new, t)'
    BY <1>1, <2>3, <2>5, <2>6 DEF TaskOwns, InFAT, InDir
  <2>8. Takes(t, c)'
    BY <2>3 DEF Takes
  <2> QED
    BY <1>1, <2>1, <2>4, <2>7, <2>8, GivenOwned
<1> QED
  BY <1>2, <1>3

LEMMA InitOwned ==
  FatInit => Ownership
<1> SUFFICES ASSUME FatInit PROVE OneAllocates /\ \E own \in Owners : Owns(own)
  BY DEF Ownership
<1>1. PICK sizes \in [Files -> 0..InitSize], first \in [Files -> Clusters] : Formatted(sizes, first)
  BY DEF FatInit
<1> DEFINE pile(f) == Piled(sizes, first, f)
           own == [c \in Clusters |-> IF \E f \in Files : c \in pile(f)
                                     THEN CHOOSE f \in Files : c \in pile(f) ELSE NoFile]
<1>2. /\ \A f \in Files : pile(f) \subseteq Clusters
      /\ \A f, g \in Files : f # g => pile(f) \cap pile(g) = {}
      /\ fat \in FATs
      /\ \A f \in Files : /\ dir[f].size = sizes[f]
                         /\ dir[f].first = IF sizes[f] = 0 THEN 0 ELSE first[f]
      /\ \A f \in Files : \A c \in pile(f) :
           /\ fat[c] = IF c + 1 \in pile(f) THEN c + 1 ELSE EOC
           /\ data[c] = [o \in Offsets |-> <<f, (c - first[f]) * ClusterSize + o>>]
      /\ \A c \in Clusters : (\A f \in Files : c \notin pile(f)) =>
           fat[c] = 0 /\ data[c] = Blank
  BY <1>1, FormattedFacts, SMTT(30)
<1>3. own \in Owners
  BY DEF Owners
<1>4. \A f \in Files : \A c \in pile(f) : own[c] = f
  <2> SUFFICES ASSUME NEW f \in Files, NEW c \in pile(f)
               PROVE  own[c] = f
    OBVIOUS
  <2>1. \A g \in Files : c \in pile(g) => g = f
    BY <1>2
  <2> HIDE DEF pile
  <2> QED
    BY <1>2, <2>1
<1>5. \A c \in Clusters : own[c] \in Files => \E f \in Files : c \in pile(f)
  BY FatConstants
<1> HIDE DEF own
<1>6. \A f \in Files : sizes[f] # 0 => first[f] \in pile(f)
  <2> SUFFICES ASSUME NEW f \in Files, sizes[f] # 0
               PROVE  first[f] \in pile(f)
    OBVIOUS
  <2>1. Needed(sizes[f]) \in Nat \ {0}
    <3>1. sizes[f] \in 0..MaxSize
      BY FatConstants
    <3> QED
      BY <3>1, NeededFits
  <2>2. first[f] \in Nat
    BY FatConstants
  <2> QED
    BY <2>1, <2>2 DEF Piled
<1> HIDE DEF pile
<1>7. Entries(own, dir)
  BY <1>2, <1>4, <1>6, FatConstants DEF Entries, Mine
<1>8. ASSUME NEW c \in Clusters
      PROVE  CellOwned(own, c)
  <2>1. CASE \E f \in Files : c \in pile(f)
    <3>1. PICK f \in Files : c \in pile(f)
      BY <2>1
    <3>2. own[c] = f /\ (fat[c] = EOC \/ (fat[c] = c + 1 /\ c + 1 \in pile(f)))
      BY <1>2, <1>4, <3>1
    <3>3. Only(f, data[c])
      <4>1. data[c] = [o \in Offsets |-> <<f, (c - first[f]) * ClusterSize + o>>]
        BY <1>2, <3>1
      <4>2. \A o \in Offsets : data[c][o][1] = f
        BY <4>1
      <4> QED
        BY <4>2 DEF Only
    <3>4. fat[c] # 0
      <4>1. c \in Nat /\ EOC # 0
        BY FatConstants
      <4> QED
        BY <3>2, <4>1
    <3>5. fat[c] \in Clusters => own[fat[c]] = f
      BY <1>4, <3>2, FatConstants
    <3> QED
      BY <3>2, <3>3, <3>4, <3>5 DEF CellOwned
  <2>2. CASE ~\E f \in Files : c \in pile(f)
    <3>1. fat[c] = 0 /\ data[c] = Blank /\ own[c] \notin Files /\ 0 \notin Clusters
      BY <1>2, <1>5, <2>2, FatConstants
    <3>2. Only(own[c], Blank)
      BY DEF Only, Blank, NoByte
    <3> QED
      BY <3>1, <3>2 DEF CellOwned
  <2> QED
    BY <2>1, <2>2
<1>9. \A t \in Users : fat_pc[t] = "run" /\ filp[t] = NoFile
  BY DEF FatInit
<1>10. \A t \in Users : TaskOwns(own, t)
  BY <1>9, FatConstants DEF TaskOwns, InFAT, InDir
<1>11. OneAllocates
  BY <1>9 DEF OneAllocates, Allocating
<1> QED
  BY <1>3, <1>7, <1>8, <1>10, <1>11 DEF Owns

\* Which steps may make a task an allocating one.
LEMMA AllocatingStarts ==
  ASSUME Typed, NEW t \in Users, SysCall(t) \/ FatTransfer(t), ~FindFirst(t), ~FindNext(t),
         fat_pc'[t] \in Allocating
  PROVE  fat_pc[t] \in Allocating
<1>1. ASSUME NEW p, NEW q, fat_pc' = [fat_pc EXCEPT ![t] = q]
      PROVE  fat_pc'[t] = q
  BY <1>1 DEF Typed, Types
<1>2. CASE SysCall(t)
  BY <1>2, <1>1 DEF SysCall, Open, Close, Lseek, Write, Read, Allocating
<1>3. CASE Walk(t, "walk", "load") \/ Walk(t, "walk_read", "fetch")
  BY <1>3, <1>1 DEF Walk, FatGoto, Return, Allocating
<1>4. CASE ReadFAT(t) \/ WriteFAT(t) \/ ReadDir(t)
  BY <1>4 DEF ReadFAT, WriteFAT, ReadDir, Allocating
<1>5. CASE WriteDir(t)
  <2>1. CASE fat_pc[t] = "inode"
    BY <2>1 DEF Allocating
  <2>2. CASE fat_pc[t] # "inode"
    <3>1. fat_pc' = [fat_pc EXCEPT ![t] = "run"]
      BY <1>5, <2>2 DEF WriteDir, Return
    <3> QED
      BY <1>1, <3>1 DEF Allocating
  <2> QED
    BY <2>1, <2>2
<1>6. CASE Load(t) \/ Store(t) \/ NextCluster(t)
  BY <1>6, <1>1 DEF Load, Store, NextCluster, FatGoto, Return, Allocating
<1>7. CASE Fetch(t) \/ Follow(t)
  BY <1>7, <1>1 DEF Fetch, Follow, FatGoto, Return, Allocating
<1> QED
  BY <1>2, <1>3, <1>4, <1>5, <1>6, <1>7 DEF FatTransfer

LEMMA NextOwned ==
  Typed /\ Ownership /\ [FatNext]_fat_vars => Ownership'
<1> SUFFICES ASSUME Typed, Ownership, [FatNext]_fat_vars, "fat_race" \notin fat_hit'
             PROVE  OneAllocates' /\ \E own \in Owners : Owns(own)'
  BY DEF Ownership
<1>1. CASE UNCHANGED fat_vars
  <2>1. OneAllocates /\ \E own \in Owners : Owns(own)
    BY <1>1 DEF Ownership, fat_vars
  <2> QED
    BY <1>1, <2>1 DEF fat_vars, openVars, OneAllocates, Owns, Entries, CellOwned, TaskOwns, Takes
<1>2. ASSUME NEW t \in Users, SysCall(t) \/ FatTransfer(t)
      PROVE  OneAllocates' /\ \E own \in Owners : Owns(own)'
  <2>1. Typed' /\ OthersKept(t) /\ fat_hit \subseteq fat_hit'
    BY <1>2, NextMoves DEF FatMoved
  <2>2. OneAllocates /\ \E own \in Owners : Owns(own)
    BY <2>1 DEF Ownership
  <2>3. PICK own \in Owners : Owns(own)
    BY <2>2
  <2>4. FindFirst(t) \/ FindNext(t) => \A u \in Users \ {t} : fat_pc[u] \notin Allocating
    BY RaceIsSeen
  <2>5. OneAllocates'
    BY <1>2, <2>1, <2>2, <2>4, AllocatingStarts, OthersAllocate
  <2>6. CASE SysCall(t)
    BY <2>5, <2>1, <2>3, <2>6, OpenOwned, CloseOwned, LseekOwned, WriteOwned, ReadOwned DEF SysCall
  <2>7. CASE Walk(t, "walk", "load")
    BY <2>5, <2>1, <2>3, <2>7, WalkOwned
  <2>8. CASE Walk(t, "walk_read", "fetch")
    BY <2>5, <2>1, <2>3, <2>8, WalkOwned
  <2>9. CASE FindFirst(t) \/ FindNext(t)
    BY <2>5, <2>1, <2>3, <2>4, <2>9, FindFirstOwned, FindNextOwned
  <2>10. CASE ReadFAT(t) \/ WriteFAT(t) \/ ReadDir(t) \/ WriteDir(t)
    BY <2>5, <2>1, <2>2, <2>3, <2>10, ReadFATOwned, WriteFATOwned, ReadDirOwned, WriteDirOwned
  <2>11. CASE Load(t) \/ Store(t) \/ NextCluster(t)
    BY <2>5, <2>1, <2>3, <2>11, LoadOwned, StoreOwned, NextClusterOwned
  <2>12. CASE Fetch(t) \/ Follow(t)
    BY <2>5, <2>1, <2>3, <2>12, FetchOwned, FollowOwned
  <2> QED
    BY <1>2, <2>5, <2>6, <2>7, <2>8, <2>9, <2>10, <2>11, <2>12 DEF FatTransfer
<1> QED
  BY <1>1, <1>2 DEF FatNext, Bounded

\* What is closed under the links of a file holds its chain.
LEMMA ChainIsLeast ==
  ASSUME NEW f \in Files, NEW S \in SUBSET Clusters, FollowsLinks(f, S)
  PROVE  Chain(f) \subseteq S
  BY DEF Chain

LEMMA ChainIsMine ==
  ASSUME NEW own \in Owners, Owns(own), NEW f \in Files
  PROVE  \A c \in Chain(f) : c \in Clusters /\ own[c] = f
<1> DEFINE S == {c \in Clusters : own[c] = f}
<1>1. FollowsLinks(f, S)
  BY DEF FollowsLinks, Owns, Entries, Mine, CellOwned
<1>2. Chain(f) \subseteq S
  BY <1>1, ChainIsLeast
<1> QED
  BY <1>2

\* The chains of two files meet nowhere, and no byte of a file is in the other's.
LEMMA OwnershipSaves ==
  ASSUME Typed, Ownership
  PROVE  /\ OwnBytesOnly
         /\ "fat_race" \notin fat_hit =>
              \A f, g \in Files : f # g => Chain(f) \cap Chain(g) = {}
<1> SUFFICES ASSUME "fat_race" \notin fat_hit
             PROVE  /\ \A f \in Files : \A c \in Chain(f), o \in Offsets :
                         data[c][o] = NoByte \/ data[c][o][1] = f
                    /\ \A f, g \in Files : f # g => Chain(f) \cap Chain(g) = {}
  BY DEF OwnBytesOnly
<1>1. PICK own \in Owners : Owns(own)
  BY DEF Ownership
<1>2. \A f, g \in Files : f # g => Chain(f) \cap Chain(g) = {}
  BY <1>1, ChainIsMine
<1>3. ASSUME NEW f \in Files, NEW c \in Chain(f), NEW o \in Offsets
      PROVE  data[c][o] = NoByte \/ data[c][o][1] = f
  <2>1. c \in Clusters /\ own[c] = f
    BY <1>1, ChainIsMine
  <2>2. data[c][o][1] \in {NoFile, f} /\ data[c][o] \in Bytes
    BY <1>1, <2>1 DEF Owns, CellOwned, Only, Typed, Types, Buffers
  <2>3. \A x \in Files \X Nat : x[1] \in Files
    OBVIOUS
  <2> QED
    BY <2>2, <2>3, FatConstants DEF Bytes
<1> QED
  BY <1>2, <1>3

\* A write changes no byte of another file.
THEOREM BytesAreOwn ==
  FatSpec => []OwnBytesOnly
<1>1. FatInit => Typed /\ Ownership
  BY InitTyped, InitOwned
<1>2. Typed /\ Ownership /\ [FatNext]_fat_vars => Typed' /\ Ownership'
  BY NextTyped, NextOwned
<1>3. Typed /\ Ownership => OwnBytesOnly
  BY OwnershipSaves
<1> QED
  BY <1>1, <1>2, <1>3, PTL DEF FatSpec
-----------------------------------------------------------------------------
(* The chains *)

Clash == fat_hit \cap Races # {}

\* What a task has of the directory is what it says, and so is its first cluster.
TaskAlone(t) ==
  /\ fat_pc[t] \in InDir => loc[t].buf \in {Empty, dir}
  /\ filp[t] \in Files =>
       dir[filp[t]].first = IF fat_pc[t] = "inode" THEN 0 ELSE inode[t].first
InDirectory(t) == fat_pc[t] \in InDir /\ loc[t].buf # Empty

\* A file is open once, and the directory is being written by one task.
Alone ==
  /\ \A t, u \in Users : filp[t] = filp[u] /\ filp[t] \in Files => t = u
  /\ \A t, u \in Users : InDirectory(t) /\ InDirectory(u) => t = u
  /\ \A t \in Users : TaskAlone(t)

\* m says of each cluster which file's it is and the how manyth of its chain, and of
\* each file how long its chain is.
Maps == [of : Owners, rank : [Clusters -> Nat], len : [Files -> Nat]]

\* t is about to enter c, the last of its file's chain, into the FAT.
Enters(t, c) == \/ fat_pc[t] = "mark" /\ loc[t].cluster = c
                \/ fat_pc[t] = "end" /\ loc[t].next_cluster = c

CellLinked(m, c) ==
  /\ fat[c] # 0 => m.of[c] \in Files
  /\ m.of[c] \in Files =>
       /\ m.rank[c] \in 1..m.len[m.of[c]]
       /\ IF m.rank[c] < m.len[m.of[c]]
          THEN fat[c] \in Clusters /\ m.of[fat[c]] = m.of[c] /\ m.rank[fat[c]] = m.rank[c] + 1
          ELSE fat[c] = EOC \/ (fat[c] = 0 /\ \E t \in Users : Enters(t, c))

FileLinked(m, f) ==
  /\ m.len[f] = 0 <=> dir[f].first = 0
  /\ dir[f].first \in Clusters => m.of[dir[f].first] = f /\ m.rank[dir[f].first] = 1

Ends(m, f, c) == m.of[c] = f /\ m.rank[c] = m.len[f]

TaskLinked(m, t) ==
  LET l == loc[t]
      f == filp[t]
  IN /\ fat_pc[t] # "inode" /\ l.cluster \in Clusters => m.of[l.cluster] = f
     /\ fat_pc[t] = "find_first" => inode[t].first = 0
     /\ fat_pc[t] = "inode" => m.len[f] = 0 /\ m.of[l.cluster] = NoFile
     /\ fat_pc[t] = "mark" => m.len[f] = 1 /\ Ends(m, f, l.cluster) /\ fat[l.cluster] = 0
     /\ fat_pc[t] \in {"find_next", "link"} => Ends(m, f, l.cluster) /\ fat[l.cluster] = EOC
     /\ fat_pc[t] = "link" => m.of[l.next_cluster] = NoFile
     /\ fat_pc[t] = "end" => Ends(m, f, l.next_cluster) /\ fat[l.next_cluster] = 0

Unique(m) ==
  \A c, d \in Clusters : m.of[c] \in Files /\ m.of[c] = m.of[d] /\ m.rank[c] = m.rank[d] => c = d

Linked(m) ==
  /\ \A c \in Clusters : CellLinked(m, c)
  /\ \A f \in Files : FileLinked(m, f)
  /\ \A t \in Users : fat_pc[t] # "run" => TaskLinked(m, t)
  /\ Unique(m)

\* The first byte of a cluster, in its file.
Before(m, c) == ClusterSize * (m.rank[c] - 1)

\* Where a call is in the chain of its file.
Placed(m, t) ==
  LET l == loc[t]
      p == fat_pc[t]
  IN /\ p \in {"walk", "walk_read"} /\ l.cluster \in Clusters =>
          position[t] = Before(m, l.cluster) + ClusterSize * l.i + l.offset
     /\ p \in {"load", "store", "fetch"} /\ l.cluster \in Clusters =>
          position[t] = Before(m, l.cluster) + l.offset
     /\ p \in {"store", "next", "find_next", "link", "follow"} => l.cluster \in Clusters
     /\ p \in {"walk_read", "fetch"} /\ l.cluster \notin Clusters => l.index = 0
     /\ p \in {"next", "find_next", "link", "follow"} =>
          l.offset = 0 /\ position[t] = Before(m, l.cluster) + ClusterSize
     /\ p \in {"find_first", "inode", "mark"} => l.offset = 0 /\ position[t] = 0
     /\ p = "end" => l.offset = 0 /\ position[t] = Before(m, l.next_cluster)

TaskSized(m, t) ==
  /\ filp[t] \in Files =>
       /\ inode[t].size <= ClusterSize * m.len[filp[t]]
       /\ position[t] <= ClusterSize * m.len[filp[t]]
  /\ fat_pc[t] # "run" => Placed(m, t)

\* Every file's chain is as long as its size needs, and no position is behind it.
Sized(m) ==
  /\ \A f \in Files : dir[f].size <= ClusterSize * m.len[f]
  /\ \A t \in Users : TaskSized(m, t)

\* Every cluster holds the bytes of its place, unless it has just been given to its file.
RightBytes(m, c) == [o \in Offsets |-> <<m.of[c], Before(m, c) + o>>]
Fresh(t, c) == Enters(t, c) \/ (fat_pc[t] = "store" /\ loc[t].flags /\ loc[t].cluster = c)
TaskFilled(t) ==
  /\ fat_pc[t] = "store" /\ ~loc[t].flags =>
       loc[t].sector = loc[t].cluster /\ loc[t].buffer = data[loc[t].cluster]
  /\ fat_pc[t] \in {"inode", "mark"} => loc[t].flags
Filled(m) ==
  /\ ~garbled
  /\ \A c \in Clusters :
       m.of[c] \in Files => data[c] = RightBytes(m, c) \/ \E t \in Users : Fresh(t, c)
  /\ \A t \in Users : TaskFilled(t)

InOrder(m) ==
  /\ Linked(m)
  /\ fat_hit \cap {"boundary", "crossing"} = {} => Sized(m)
  /\ fat_hit \subseteq {"full"} => Filled(m)
Order == ~Clash => Alone /\ \E m \in Maps : InOrder(m)

\* What a sector of the FAT in a task's buffer is good for.
SectorsGood == \A t \in Users : fat_pc[t] \in InFAT => loc[t].buf \in {Empty, fat}

\* A step of t without a race.
Calm(t, m) ==
  /\ Typed /\ FatMoved(t) /\ OneAllocates /\ SectorsGood /\ Alone
  /\ m \in Maps /\ Linked(m) /\ fat_hit' \cap Races = {}

\* What a step leaves in order that leaves m as it was.
Kept(m) ==
  /\ Alone' /\ Linked(m)'
  /\ fat_hit' \cap {"boundary", "crossing"} = {} /\ Sized(m) => Sized(m)'
  /\ fat_hit' \subseteq {"full"} /\ Sized(m) /\ Filled(m) => Filled(m)'
-----------------------------------------------------------------------------
LEMMA AloneStep ==
  ASSUME NEW t \in Users, OthersKept(t), Alone, dir' = dir, filp' = filp,
         TaskAlone(t)', InDirectory(t)' => InDirectory(t)
  PROVE  Alone'
<1>1. ASSUME NEW u \in Users \ {t}
      PROVE  TaskAlone(u)' /\ (InDirectory(u)' => InDirectory(u))
  BY DEF Alone, TaskAlone, InDirectory, OthersKept
<1> QED
  BY <1>1 DEF Alone

LEMMA LinkedStep ==
  ASSUME NEW t \in Users, OthersKept(t), NEW m, Linked(m), fat' = fat,
         \A f \in Files : dir'[f].first = dir[f].first,
         \A c : Enters(t, c) => Enters(t, c)',
         fat_pc'[t] # "run" => TaskLinked(m, t)'
  PROVE  Linked(m)'
<1>1. ASSUME NEW u \in Users \ {t}
      PROVE  /\ fat_pc'[u] # "run" => TaskLinked(m, u)'
             /\ \A c : Enters(u, c) => Enters(u, c)'
  BY DEF Linked, TaskLinked, Ends, Enters, OthersKept
<1>2. ASSUME NEW c \in Clusters
      PROVE  CellLinked(m, c)'
  <2>1. CellLinked(m, c)
    BY DEF Linked
  <2>2. (\E u \in Users : Enters(u, c)) => \E u \in Users : Enters(u, c)'
    BY <1>1
  <2> QED
    BY <2>1, <2>2 DEF CellLinked
<1>3. Unique(m)' /\ \A f \in Files : FileLinked(m, f)'
  BY DEF Linked, Unique, FileLinked
<1> QED
  BY <1>1, <1>2, <1>3 DEF Linked

LEMMA SizedStep ==
  ASSUME NEW t \in Users, OthersKept(t), NEW m, Sized(m), TaskSized(m, t)',
         \A f \in Files : dir'[f].size <= ClusterSize * m.len[f]
  PROVE  Sized(m)'
<1>1. ASSUME NEW u \in Users \ {t}
      PROVE  TaskSized(m, u)'
  BY DEF Sized, TaskSized, Placed, Before, OthersKept
<1> QED
  BY <1>1 DEF Sized

LEMMA FilledStep ==
  ASSUME NEW t \in Users, OthersKept(t), NEW m, Filled(m), ~garbled => ~garbled', data' = data,
         TaskFilled(t)', \A c : Fresh(t, c) => Fresh(t, c)'
  PROVE  Filled(m)'
<1>1. ASSUME NEW u \in Users \ {t}
      PROVE  TaskFilled(u)' /\ \A c : Fresh(u, c) => Fresh(u, c)'
  BY DEF Filled, TaskFilled, Fresh, Enters, OthersKept
<1>2. ASSUME NEW c \in Clusters, m.of[c] \in Files
      PROVE  data'[c] = RightBytes(m, c) \/ \E u \in Users : Fresh(u, c)'
  <2>1. data[c] = RightBytes(m, c) \/ \E u \in Users : Fresh(u, c)
    BY <1>2 DEF Filled
  <2> QED
    BY <1>1, <2>1
<1> QED
  BY <1>1, <1>2 DEF Filled, RightBytes, Before

LEMMA FatTimes ==
  ASSUME NEW a \in Int
  PROVE  /\ ClusterSize * a \in Int /\ ClusterSize * (a + 1) = ClusterSize * a + ClusterSize
         /\ ClusterSize * (a - 1) = ClusterSize * a - ClusterSize
         /\ \A b \in Int : a <= b => ClusterSize * a <= ClusterSize * b
         /\ \A b \in Int : ClusterSize * a < ClusterSize * b => a < b
<1>1. ClusterSize \in Nat \ {0}
  BY FatConstants
<1>2. \A b \in Int : a <= b => ClusterSize * a <= ClusterSize * b
  BY <1>1
<1>3. \A b \in Int : ClusterSize * a < ClusterSize * b => a < b
  BY <1>1
<1> QED
  BY <1>1, <1>2, <1>3

\* Steps that change nothing of the disk or of the files that are open.
LEMMA KeptStep ==
  ASSUME NEW t \in Users, NEW m, Calm(t, m),
         fat' = fat, dir' = dir, data' = data, filp' = filp,
         TaskAlone(t)', InDirectory(t)' => InDirectory(t),
         \A c : Enters(t, c) => Enters(t, c)', \A c : Fresh(t, c) => Fresh(t, c)',
         fat_pc'[t] # "run" => TaskLinked(m, t)',
         fat_hit' \cap {"boundary", "crossing"} = {} /\ Sized(m) => TaskSized(m, t)',
         fat_hit' \subseteq {"full"} /\ Sized(m) /\ Filled(m) =>
           TaskFilled(t)' /\ (~garbled => ~garbled')
  PROVE  Kept(m)
<1>1. OthersKept(t) /\ Alone /\ Linked(m)
  BY DEF Calm, FatMoved
<1>2. Alone' /\ Linked(m)'
  BY <1>1, AloneStep, LinkedStep
<1>3. Sized(m) => \A f \in Files : dir'[f].size <= ClusterSize * m.len[f]
  BY DEF Sized
<1>4. fat_hit' \cap {"boundary", "crossing"} = {} /\ Sized(m) => Sized(m)'
  BY <1>1, <1>3, SizedStep
<1>5. fat_hit' \subseteq {"full"} /\ Sized(m) /\ Filled(m) => Filled(m)'
  BY <1>1, FilledStep
<1> QED
  BY <1>2, <1>4, <1>5 DEF Kept

LEMMA OpenKept ==
  ASSUME NEW t \in Users, NEW m, Calm(t, m), NEW f \in Files, NEW trunc \in BOOLEAN,
         NEW append \in BOOLEAN, Open(t, f, trunc, append)
  PROVE  Kept(m)
<1>1. OthersKept(t) /\ Alone /\ Linked(m) /\ Types /\ Types'
  BY DEF Calm, FatMoved, Typed
<1>2. /\ filp' = [filp EXCEPT ![t] = f] /\ inode'[t].first = dir[f].first
      /\ fat_pc' = fat_pc /\ fat_pc[t] = "run" /\ loc' = loc
      /\ fat' = fat /\ dir' = dir /\ data' = data /\ garbled' = garbled
      /\ inode'[t].size \in {0, dir[f].size} /\ position'[t] \in {0, inode'[t].size}
  BY <1>1 DEF Open, Lookup, Types, Dirs, Inodes
<1>3. \A u \in Users \ {t} : filp[u] # f
  <2>1. PICK E : Hit(E) /\ (E = IF \E u \in Users \ {t} : filp[u] = f THEN {"shared"} ELSE {})
    BY DEF Open
  <2>2. "shared" \notin fat_hit'
    BY DEF Calm, Races
  <2> QED
    BY <2>1, <2>2 DEF Hit
<1>4. filp'[t] = f /\ \A u \in Users \ {t} : filp'[u] = filp[u]
  BY <1>1, <1>2 DEF Types
<1>5. Alone'
  <2>1. \A u \in Users : TaskAlone(u)'
    BY <1>1, <1>2, <1>4 DEF Alone, TaskAlone, OthersKept, InDir
  <2>2. \A u \in Users : InDirectory(u)' => InDirectory(u)
    BY <1>2 DEF InDirectory
  <2>3. \A u, v \in Users : filp'[u] = filp'[v] /\ filp'[u] \in Files => u = v
    BY <1>1, <1>3, <1>4 DEF Alone
  <2> QED
    BY <1>1, <2>1, <2>2, <2>3 DEF Alone
<1>6. Linked(m)'
  BY <1>1, <1>2, LinkedStep DEF Enters
<1>7. ASSUME Sized(m) PROVE Sized(m)'
  <2>1. m.len[f] \in Nat /\ ClusterSize * m.len[f] \in Nat
    BY FatConstants DEF Calm, Maps
  <2>2. dir[f].size <= ClusterSize * m.len[f] /\ dir[f].size \in Nat
    BY <1>1, <1>7, FatConstants DEF Sized, Types, Dirs, Inodes
  <2> DEFINE k == ClusterSize * m.len[f]
  <2> HIDE DEF k
  <2>3. inode'[t].size <= k /\ position'[t] <= k
    BY <1>2, <2>1, <2>2 DEF k
  <2>4. TaskSized(m, t)'
    BY <1>2, <1>4, <2>3 DEF TaskSized, k
  <2>5. \A g \in Files : dir'[g].size <= ClusterSize * m.len[g]
    BY <1>2, <1>7 DEF Sized
  <2> QED
    BY <1>1, <1>7, <2>4, <2>5, SizedStep
<1>8. Filled(m) => Filled(m)'
  <2>1. TaskFilled(t)' /\ \A c : ~Fresh(t, c)
    BY <1>2 DEF TaskFilled, Fresh, Enters
  <2> QED
    BY <1>1, <1>2, <2>1, FilledStep
<1> QED
  BY <1>5, <1>6, <1>7, <1>8 DEF Kept

LEMMA CloseKept ==
  ASSUME NEW t \in Users, NEW m, Calm(t, m), Close(t)
  PROVE  Kept(m)
<1>1. OthersKept(t) /\ Alone /\ Linked(m) /\ Types /\ Types'
  BY DEF Calm, FatMoved, Typed
<1>2. /\ filp' = [filp EXCEPT ![t] = NoFile]
      /\ fat_pc' = fat_pc /\ fat_pc[t] = "run" /\ loc' = loc
      /\ fat' = fat /\ dir' = dir /\ data' = data /\ garbled' = garbled
  BY DEF Close
<1>3. filp'[t] = NoFile /\ NoFile \notin Files /\ \A u \in Users \ {t} : filp'[u] = filp[u]
  BY <1>1, <1>2, FatConstants DEF Types
<1>4. Alone'
  <2>1. \A u \in Users : TaskAlone(u)'
    BY <1>1, <1>2, <1>3 DEF Alone, TaskAlone, OthersKept, InDir
  <2>2. \A u \in Users : InDirectory(u)' => InDirectory(u)
    BY <1>2 DEF InDirectory
  <2>3. \A u, v \in Users : filp'[u] = filp'[v] /\ filp'[u] \in Files => u = v
    BY <1>1, <1>3 DEF Alone
  <2> QED
    BY <1>1, <2>1, <2>2, <2>3 DEF Alone
<1>5. Linked(m)'
  BY <1>1, <1>2, LinkedStep DEF Enters
<1>6. Sized(m) => Sized(m)'
  <2>1. TaskSized(m, t)'
    BY <1>2, <1>3 DEF TaskSized
  <2>2. Sized(m) => \A g \in Files : dir'[g].size <= ClusterSize * m.len[g]
    BY <1>2 DEF Sized
  <2> QED
    BY <1>1, <2>1, <2>2, SizedStep
<1>7. Filled(m) => Filled(m)'
  <2>1. TaskFilled(t)' /\ \A c : ~Fresh(t, c)
    BY <1>2 DEF TaskFilled, Fresh, Enters
  <2> QED
    BY <1>1, <1>2, <2>1, FilledStep
<1> QED
  BY <1>4, <1>5, <1>6, <1>7 DEF Kept

LEMMA LseekKept ==
  ASSUME NEW t \in Users, NEW m, Calm(t, m), NEW pos \in 0..MaxSize, Lseek(t, pos)
  PROVE  Kept(m)
<1>1. OthersKept(t) /\ Alone /\ Linked(m) /\ Types
  BY DEF Calm, FatMoved, Typed
<1>2. /\ filp' = filp /\ inode' = inode /\ fat_pc' = fat_pc /\ fat_pc[t] = "run" /\ loc' = loc
      /\ fat' = fat /\ dir' = dir /\ data' = data /\ garbled' = garbled
      /\ position'[t] <= inode[t].size /\ position'[t] \in Nat /\ filp[t] \in Files
      /\ inode[t].size \in Nat
  BY <1>1, FatConstants DEF Lseek, openVars, Types, Inodes
<1>3. TaskAlone(t)' /\ (InDirectory(t)' => InDirectory(t))
  BY <1>1, <1>2 DEF Alone, TaskAlone, InDirectory
<1>4. ASSUME Sized(m) PROVE TaskSized(m, t)'
  <2> DEFINE k == ClusterSize * m.len[filp[t]]
  <2>1. m.len[filp[t]] \in Nat /\ k \in Nat
    BY <1>2, FatConstants DEF Calm, Maps
  <2>2. inode[t].size <= k
    BY <1>2, <1>4 DEF Sized, TaskSized
  <2> HIDE DEF k
  <2>3. position'[t] <= k
    BY <1>2, <2>1, <2>2
  <2> QED
    BY <1>2, <2>2, <2>3 DEF TaskSized, k
<1>5. TaskFilled(t)' /\ (\A c : ~Fresh(t, c)) /\ (\A c : ~Enters(t, c)) /\ fat_pc'[t] = "run"
  BY <1>2 DEF TaskFilled, Fresh, Enters
<1> QED
  BY <1>2, <1>3, <1>4, <1>5, KeptStep

\* A call that returns has nothing to keep.
LEMMA ReturnKept ==
  ASSUME NEW t \in Users, NEW m, Calm(t, m), Return(t), fat_pc[t] \notin Allocating, fat_pc[t] # "store",
         fat' = fat, dir' = dir, data' = data, filp' = filp, garbled' = garbled,
         inode' = inode, position' = position
  PROVE  Kept(m)
<1>1. fat_pc'[t] = "run"
  BY DEF Return, Calm, Typed, Types
<1>2. TaskAlone(t)' /\ ~InDirectory(t)'
  BY <1>1 DEF Calm, Alone, TaskAlone, InDirectory, InDir, Allocating
<1>3. Sized(m) => TaskSized(m, t)'
  BY <1>1 DEF Sized, TaskSized
<1>4. TaskFilled(t)' /\ (\A c : ~Fresh(t, c)) /\ (\A c : ~Enters(t, c))
  BY <1>1 DEF TaskFilled, Fresh, Enters, Allocating
<1> QED
  BY <1>1, <1>2, <1>3, <1>4, KeptStep

\* The first cluster a task knows of its file.
LEMMA FirstLinked ==
  ASSUME NEW t \in Users, NEW m, Calm(t, m), filp[t] \in Files, fat_pc[t] = "run"
  PROVE  /\ inode[t].first \in Clusters \cup {0}
         /\ inode[t].first \in Clusters => m.of[inode[t].first] = filp[t] /\ m.rank[inode[t].first] = 1
         /\ inode[t].first = 0 => m.len[filp[t]] = 0
<1>1. dir[filp[t]].first = inode[t].first
  BY DEF Calm, Alone, TaskAlone
<1>2. FileLinked(m, filp[t]) /\ inode[t] \in Inodes
  BY DEF Calm, Linked, Typed, Types
<1> QED
  BY <1>1, <1>2 DEF FileLinked, Inodes

LEMMA BeforeFirst ==
  ASSUME NEW m \in Maps, NEW c \in Clusters
  PROVE  /\ Before(m, c) \in Int /\ Before(m, c) + ClusterSize = ClusterSize * m.rank[c]
         /\ m.rank[c] = 1 => Before(m, c) = 0
         /\ m.rank[c] \in Nat
<1>1. m.rank[c] \in Nat /\ ClusterSize \in Nat
  BY FatConstants DEF Maps
<1>2. ClusterSize * (m.rank[c] - 1) = ClusterSize * m.rank[c] - ClusterSize
      /\ ClusterSize * m.rank[c] \in Int /\ ClusterSize * (m.rank[c] - 1) \in Int
  BY <1>1, FatTimes
<1>3. Before(m, c) + ClusterSize = ClusterSize * m.rank[c] /\ Before(m, c) \in Int
  BY <1>1, <1>2 DEF Before
<1>4. ASSUME m.rank[c] = 1 PROVE Before(m, c) = 0
  BY <1>1, <1>4, FatConstants DEF Before
<1> QED
  BY <1>1, <1>3, <1>4

LEMMA WriteKept ==
  ASSUME NEW t \in Users, NEW m, Calm(t, m), NEW n \in 1..MaxSize, Write(t, n)
  PROVE  Kept(m)
<1> DEFINE l == Started(t, n)
<1>1. Alone /\ Linked(m) /\ Types /\ m \in Maps /\ n \in 0..MaxSize
  BY FatConstants DEF Calm, FatMoved, Typed
<1>2. /\ filp' = filp /\ inode' = inode /\ position' = position /\ fat_pc[t] = "run"
      /\ fat' = fat /\ dir' = dir /\ data' = data /\ garbled' = garbled /\ filp[t] \in Files
      /\ loc'[t] = l
      /\ fat_pc'[t] = IF inode[t].first = 0 THEN "find_first" ELSE IF l.i > 0 THEN "walk" ELSE "load"
  BY <1>1 DEF Write, openVars, Types
<1>3. /\ l.cluster = inode[t].first /\ l.i \in Nat /\ l.buf = Empty /\ l.offset \in Nat
      /\ position[t] = ClusterSize * l.i + l.offset
  BY <1>1, StartedFits, FatConstants DEF Locals, Offsets
<1> HIDE DEF l
<1>4. TaskAlone(t)' /\ ~InDirectory(t)'
  BY <1>1, <1>2 DEF Alone, TaskAlone, InDirectory, InDir
<1>5. TaskLinked(m, t)'
  BY <1>2, <1>3, FirstLinked DEF TaskLinked
<1>6. ASSUME Sized(m) PROVE TaskSized(m, t)'
  <2>1. /\ inode[t].size <= ClusterSize * m.len[filp[t]]
        /\ position[t] <= ClusterSize * m.len[filp[t]] /\ position[t] \in Nat
    BY <1>1, <1>2, <1>6, FatConstants DEF Sized, TaskSized, Types
  <2>2. CASE inode[t].first = 0
    <3>1. m.len[filp[t]] = 0 /\ ClusterSize * 0 = 0
      BY <1>2, <2>2, FirstLinked, FatConstants
    <3>2. position[t] = 0
      BY <2>1, <3>1
    <3>3. l.offset = 0
      <4>1. ClusterSize * l.i \in Nat
        BY <1>3, FatConstants
      <4> DEFINE k == ClusterSize * l.i
      <4> HIDE DEF k
      <4> QED
        BY <1>3, <3>2, <4>1 DEF k
    <3>4. Placed(m, t)'
      BY <1>2, <2>2, <3>2, <3>3 DEF Placed
    <3> QED
      BY <1>2, <2>1, <3>4 DEF TaskSized
  <2>3. CASE inode[t].first # 0
    <3>1. inode[t].first \in Clusters /\ Before(m, inode[t].first) = 0
      BY <1>1, <1>2, <2>3, FirstLinked, BeforeFirst
    <3>2. fat_pc'[t] = "load" => ClusterSize * l.i = 0
      BY <1>2, <1>3, <2>3, FatConstants
    <3>3. /\ fat_pc'[t] = "load" => position[t] = Before(m, inode[t].first) + l.offset
          /\ position[t] = Before(m, inode[t].first) + ClusterSize * l.i + l.offset
      <4>1. ClusterSize * l.i \in Nat
        BY <1>3, FatConstants
      <4> DEFINE k == ClusterSize * l.i
      <4> HIDE DEF k
      <4> QED
        BY <1>3, <3>1, <3>2, <4>1 DEF k
    <3>4. Placed(m, t)'
      BY <1>2, <1>3, <2>3, <3>1, <3>3 DEF Placed, Before
    <3> QED
      BY <1>2, <2>1, <3>4 DEF TaskSized
  <2> QED
    BY <2>2, <2>3
<1>7. TaskFilled(t)' /\ (\A c : ~Fresh(t, c)) /\ (\A c : ~Enters(t, c))
  BY <1>2 DEF TaskFilled, Fresh, Enters
<1> QED
  BY <1>2, <1>4, <1>5, <1>6, <1>7, KeptStep

LEMMA ReadKept ==
  ASSUME NEW t \in Users, NEW m, Calm(t, m), NEW n \in 1..MaxSize, Read(t, n)
  PROVE  Kept(m)
<1> DEFINE k == IF position[t] + n > inode[t].size THEN inode[t].size - position[t] ELSE n
           l == Started(t, k)
<1>1. Alone /\ Linked(m) /\ Types /\ m \in Maps
  BY DEF Calm, FatMoved, Typed
<1>2. k \in 0..MaxSize
  BY <1>1, FatConstants DEF Read, Types, Inodes
<1>3. /\ filp' = filp /\ inode' = inode /\ position' = position /\ fat_pc[t] = "run"
      /\ fat' = fat /\ dir' = dir /\ data' = data /\ garbled' = garbled /\ filp[t] \in Files
      /\ loc'[t] = l /\ inode[t].first # 0
      /\ fat_pc'[t] = IF l.i > 0 THEN "walk_read" ELSE "fetch"
  BY <1>1 DEF Read, openVars, Types
<1> HIDE DEF k
<1>4. /\ l.cluster = inode[t].first /\ l.i \in Nat /\ l.buf = Empty /\ l.offset \in Nat
      /\ position[t] = ClusterSize * l.i + l.offset
  BY <1>1, <1>2, StartedFits, FatConstants DEF Locals, Offsets
<1> HIDE DEF l
<1>5. TaskAlone(t)' /\ ~InDirectory(t)'
  BY <1>1, <1>3 DEF Alone, TaskAlone, InDirectory, InDir
<1>6. TaskLinked(m, t)'
  BY <1>3, <1>4, FirstLinked DEF TaskLinked
<1>7. ASSUME Sized(m) PROVE TaskSized(m, t)'
  <2>1. /\ inode[t].size <= ClusterSize * m.len[filp[t]]
        /\ position[t] <= ClusterSize * m.len[filp[t]] /\ position[t] \in Nat
    BY <1>1, <1>3, <1>7, FatConstants DEF Sized, TaskSized, Types
  <2>2. inode[t].first \in Clusters /\ Before(m, inode[t].first) = 0
    BY <1>1, <1>3, FirstLinked, BeforeFirst
  <2>3. fat_pc'[t] = "fetch" => ClusterSize * l.i = 0
    BY <1>3, <1>4, FatConstants
  <2>4. /\ fat_pc'[t] = "fetch" => position[t] = Before(m, inode[t].first) + l.offset
        /\ position[t] = Before(m, inode[t].first) + ClusterSize * l.i + l.offset
    <3>1. ClusterSize * l.i \in Nat
      BY <1>4, FatConstants
    <3> DEFINE j == ClusterSize * l.i
    <3> HIDE DEF j
    <3> QED
      BY <1>4, <2>2, <2>3, <3>1 DEF j
  <2>5. Placed(m, t)'
    BY <1>3, <1>4, <2>2, <2>4 DEF Placed, Before
  <2> QED
    BY <1>3, <2>1, <2>5 DEF TaskSized
<1>8. TaskFilled(t)' /\ (\A c : ~Fresh(t, c)) /\ (\A c : ~Enters(t, c))
  BY <1>3 DEF TaskFilled, Fresh, Enters
<1> QED
  BY <1>3, <1>5, <1>6, <1>7, <1>8, KeptStep

\* The entry of a cluster in a chain: the next one's number, or no cluster's.
LEMMA EntryLinked ==
  ASSUME NEW m \in Maps, Linked(m), NEW c \in Clusters, m.of[c] \in Files
  PROVE  /\ Entry(c) \in Clusters => /\ m.of[Entry(c)] = m.of[c]
                                    /\ m.rank[Entry(c)] = m.rank[c] + 1
         /\ Entry(c) \notin Clusters => m.rank[c] = m.len[m.of[c]]
         /\ m.rank[c] \in 1..m.len[m.of[c]] /\ m.len[m.of[c]] \in Nat
<1>1. CellLinked(m, c) /\ Entry(c) = fat[c]
  BY DEF Linked, Entry
<1>2. m.rank[c] \in Nat /\ m.len[m.of[c]] \in Nat
  BY DEF Maps
<1>3. EOC \notin Clusters /\ 0 \notin Clusters
  BY FatConstants
<1>4. CASE m.rank[c] < m.len[m.of[c]]
  BY <1>1, <1>2, <1>4 DEF CellLinked
<1>5. CASE ~(m.rank[c] < m.len[m.of[c]])
  <2>1. fat[c] \in {EOC, 0} /\ m.rank[c] \in 1..m.len[m.of[c]]
    BY <1>1, <1>5 DEF CellLinked
  <2> QED
    BY <1>1, <1>2, <1>3, <1>5, <2>1
<1> QED
  BY <1>4, <1>5

LEMMA WalkKept ==
  ASSUME NEW t \in Users, NEW m, Calm(t, m),
         NEW from \in {"walk", "walk_read"}, NEW after, after = IF from = "walk" THEN "load" ELSE "fetch",
         Walk(t, from, after)
  PROVE  Kept(m)
<1> DEFINE c == Entry(loc[t].cluster)
           d == loc[t].cluster
           f == filp[t]
<1>1. /\ Alone /\ Linked(m) /\ Types /\ m \in Maps /\ CallFits(t) /\ loc[t] \in Locals
  BY DEF Calm, FatMoved, Typed, Types
<1>2. /\ fat' = fat /\ dir' = dir /\ data' = data /\ filp' = filp /\ inode' = inode
      /\ fat_pc[t] = from /\ position' = position /\ garbled' = garbled
      /\ fat_pc[t] \notin Allocating
  BY DEF Walk, openVars, Allocating
<1>3. CASE after = "load" /\ loc[t].i = 1 /\ c = 0
  <2>1. Return(t)
    BY <1>3 DEF Walk
  <2> QED
    BY <1>2, <2>1, ReturnKept
<1>4. CASE ~(after = "load" /\ loc[t].i = 1 /\ c = 0)
  <2>1. /\ loc' = [loc EXCEPT ![t].cluster = c, ![t].i = loc[t].i - 1]
        /\ fat_pc' = [fat_pc EXCEPT ![t] = IF loc[t].i = 1 THEN after ELSE from]
    BY <1>4 DEF Walk, FatGoto
  <2> HIDE DEF c
  <2>2. loc' = [loc EXCEPT ![t] = [@ EXCEPT !.cluster = c, !.i = loc[t].i - 1]]
    BY <2>1
  <2>3. /\ loc'[t].cluster = c /\ loc'[t].i = loc[t].i - 1 /\ loc'[t].offset = loc[t].offset
        /\ loc'[t].index = loc[t].index /\ loc'[t].buf = loc[t].buf
        /\ fat_pc'[t] = IF loc[t].i = 1 THEN after ELSE from
    BY <1>1, <2>1, <2>2 DEF Types, Locals
  <2>4. f \in Files /\ loc[t].i \in Nat /\ loc[t].i >= 1 /\ loc[t].offset \in Nat /\ loc[t].index \in Nat
    BY <1>1, <1>2, FatConstants DEF CallFits, Fits, Locals, Offsets
  <2>5. d \in Clusters => m.of[d] = f
    BY <1>1, <1>2 DEF Linked, TaskLinked
  <2>6. c \in Clusters => d \in Clusters /\ m.of[c] = f /\ m.rank[c] = m.rank[d] + 1
    BY <1>1, <2>4, <2>5, EntryLinked, FatConstants DEF c, Entry
  <2>7. TaskAlone(t)' /\ ~InDirectory(t)'
    BY <1>1, <1>2, <2>3 DEF Alone, TaskAlone, InDirectory, InDir
  <2>8. TaskLinked(m, t)'
    BY <1>2, <2>3, <2>6 DEF TaskLinked
  <2>9. ASSUME Sized(m) PROVE TaskSized(m, t)'
    <3>1. /\ inode[t].size <= ClusterSize * m.len[f] /\ position[t] <= ClusterSize * m.len[f]
          /\ Placed(m, t) /\ position[t] \in Nat /\ inode[t].size \in Nat
      BY <1>1, <1>2, <2>4, <2>9, FatConstants DEF Sized, TaskSized, Types, Inodes
    <3>2. d \in Clusters => position[t] = Before(m, d) + ClusterSize * loc[t].i + loc[t].offset
      BY <1>2, <3>1 DEF Placed
    <3>3. ClusterSize * (loc[t].i - 1) = ClusterSize * loc[t].i - ClusterSize
          /\ ClusterSize * loc[t].i \in Int /\ ClusterSize * (loc[t].i - 1) \in Nat
          /\ ClusterSize \in Nat /\ (loc[t].i = 1 => ClusterSize * (loc[t].i - 1) = 0)
      <4> PICK k \in Nat : k = loc[t].i /\ k >= 1
        BY <2>4
      <4>1. ClusterSize \in Nat
        BY FatConstants
      <4>2. ClusterSize * (k - 1) = ClusterSize * k - ClusterSize /\ ClusterSize * k \in Int
        BY FatTimes
      <4>3. ClusterSize * (k - 1) \in Nat /\ (k = 1 => ClusterSize * (k - 1) = 0)
        BY <4>1
      <4> QED
        BY <4>1, <4>2, <4>3
    <3>4. ASSUME c \in Clusters
          PROVE  /\ position[t] = Before(m, c) + ClusterSize * (loc[t].i - 1) + loc[t].offset
                 /\ loc[t].i = 1 => position[t] = Before(m, c) + loc[t].offset
      <4>1. Before(m, c) + ClusterSize = ClusterSize * (m.rank[d] + 1) /\ Before(m, c) \in Int
        BY <1>1, <2>6, <3>4, BeforeFirst
      <4>2. Before(m, d) + ClusterSize = ClusterSize * m.rank[d] /\ Before(m, d) \in Int
            /\ m.rank[d] \in Nat
        BY <1>1, <2>6, <3>4, BeforeFirst
      <4>3. ClusterSize * (m.rank[d] + 1) = ClusterSize * m.rank[d] + ClusterSize
            /\ ClusterSize * m.rank[d] \in Int
        BY <4>2, FatTimes
      <4>4. Before(m, c) = Before(m, d) + ClusterSize
        <5> DEFINE q == ClusterSize * m.rank[d]
        <5>1. Before(m, c) + ClusterSize = q + ClusterSize /\ Before(m, d) + ClusterSize = q
              /\ q \in Int /\ Before(m, c) \in Int /\ Before(m, d) \in Int /\ ClusterSize \in Nat
          BY <4>1, <4>2, <4>3, FatConstants
        <5> HIDE DEF q
        <5> QED
          BY <5>1
      <4> DEFINE a == ClusterSize * (loc[t].i - 1)
                 b == ClusterSize * loc[t].i
      <4>5. position[t] = Before(m, d) + b + loc[t].offset
        BY <2>6, <3>2, <3>4
      <4>6. a = b - ClusterSize /\ b \in Int /\ (loc[t].i = 1 => a = 0)
        BY <3>3
      <4> HIDE DEF a, b
      <4>7. /\ position[t] = Before(m, c) + a + loc[t].offset
            /\ loc[t].i = 1 => position[t] = Before(m, c) + loc[t].offset
        BY <2>4, <3>1, <3>3, <4>2, <4>4, <4>5, <4>6
      <4> QED
        BY <4>7 DEF a
    <3>5. ASSUME from = "walk_read", c \notin Clusters PROVE loc[t].index = 0
      <4>1. CASE d \notin Clusters
        BY <1>2, <3>1, <3>5, <4>1 DEF Placed
      <4>2. CASE d \in Clusters
        <5>1. m.rank[d] = m.len[f]
          BY <1>1, <2>4, <2>5, <3>5, <4>2, EntryLinked DEF c
        <5>2. Before(m, d) + ClusterSize = ClusterSize * m.len[f] /\ Before(m, d) \in Int
          BY <1>1, <4>2, <5>1, BeforeFirst
        <5>3. position[t] + loc[t].index <= inode[t].size
          BY <1>1, <1>2, <3>5 DEF CallFits, Fits, Fetching
        <5> DEFINE a == ClusterSize * (loc[t].i - 1)
                   b == ClusterSize * loc[t].i
                   e == ClusterSize * m.len[f]
        <5>4. /\ position[t] = Before(m, d) + b + loc[t].offset /\ a = b - ClusterSize
              /\ b \in Int /\ a \in Nat /\ inode[t].size <= e /\ Before(m, d) + ClusterSize = e
              /\ ClusterSize \in Nat /\ position[t] \in Nat /\ inode[t].size \in Nat
              /\ Before(m, d) \in Int /\ e \in Int
          BY <3>1, <3>2, <3>3, <4>2, <5>2
        <5> HIDE DEF a, b, e
        <5>5. position[t] >= e + loc[t].offset
          BY <2>4, <5>4
        <5> QED
          BY <2>4, <5>3, <5>4, <5>5
      <4> QED
        BY <4>1, <4>2
    <3>6. Placed(m, t)'
      BY <1>2, <2>3, <3>4, <3>5 DEF Placed, Before
    <3> QED
      BY <1>2, <3>1, <3>6 DEF TaskSized
  <2>10. TaskFilled(t)' /\ (\A x : ~Fresh(t, x)) /\ (\A x : ~Enters(t, x))
    BY <1>2, <2>3 DEF TaskFilled, Fresh, Enters
  <2> QED
    BY <1>2, <2>7, <2>8, <2>9, <2>10, KeptStep
<1> QED
  BY <1>3, <1>4

\* A cluster that is free while nobody allocates is in no chain.
LEMMA FreeIsUnlinked ==
  ASSUME NEW t \in Users, NEW m, Calm(t, m), FindFirst(t) \/ FindNext(t),
         NEW c \in Clusters, fat[c] = 0
  PROVE  m.of[c] = NoFile
<1>1. \A u \in Users \ {t} : fat_pc[u] \notin Allocating
  <2>1. Typed /\ "fat_race" \notin fat_hit'
    BY DEF Calm, Races
  <2> QED
    BY <2>1, RaceIsSeen
<1>2. \A u \in Users : ~Enters(u, c)
  BY <1>1 DEF Enters, Allocating, FindFirst, FindNext
<1>3. CellLinked(m, c) /\ m.of[c] \in Files \cup {NoFile} /\ 0 \notin Clusters /\ EOC # 0
  BY FatConstants DEF Calm, Linked, Maps, Owners
<1> QED
  BY <1>2, <1>3 DEF CellLinked

LEMMA FindFirstKept ==
  ASSUME NEW t \in Users, NEW m, Calm(t, m), FindFirst(t)
  PROVE  Kept(m)
<1>1. /\ Alone /\ Linked(m) /\ Types /\ m \in Maps /\ loc[t] \in Locals /\ inode[t] \in Inodes
      /\ CallFits(t)
  BY DEF Calm, FatMoved, Typed, Types
<1>2. /\ fat' = fat /\ dir' = dir /\ data' = data /\ filp' = filp /\ position' = position
      /\ garbled' = garbled /\ fat_pc[t] = "find_first" /\ fat_pc[t] \notin Allocating
      /\ fat_pc[t] # "store"
  BY DEF FindFirst, Allocating
<1>3. CASE FreeCluster = 0
  <2>1. Return(t) /\ inode' = inode
    BY <1>3 DEF FindFirst
  <2> QED
    BY <1>2, <2>1, ReturnKept
<1>4. CASE FreeCluster # 0
  <2>1. PICK c \in Clusters : c = FreeCluster /\ fat[c] = 0
    BY <1>1, <1>4, FreeClusterIsFree DEF Types
  <2>2. /\ inode' = [inode EXCEPT ![t] = [@ EXCEPT !.first = c]]
        /\ loc' = [loc EXCEPT ![t] = [@ EXCEPT !.cluster = c, !.flags = TRUE]]
        /\ fat_pc' = [fat_pc EXCEPT ![t] = "inode"]
    BY <1>4, <2>1 DEF FindFirst, FatGoto
  <2>3. /\ loc'[t].cluster = c /\ loc'[t].flags = TRUE /\ loc'[t].offset = loc[t].offset
        /\ loc'[t].buf = loc[t].buf /\ loc[t].buf = Empty
        /\ fat_pc'[t] = "inode" /\ inode'[t].size = inode[t].size
    BY <1>1, <1>2, <2>2 DEF Types, Locals, Inodes, CallFits, Fits, InFAT, InDir
  <2>4. m.of[c] = NoFile
    BY <2>1, FreeIsUnlinked
  <2>5. filp[t] \in Files /\ inode[t].first = 0 /\ dir[filp[t]].first = 0 /\ m.len[filp[t]] = 0
    BY <1>1, <1>2 DEF CallFits, Fits, Linked, TaskLinked, FileLinked, Alone, TaskAlone
  <2>6. TaskAlone(t)' /\ ~InDirectory(t)'
    BY <1>2, <2>3, <2>5 DEF TaskAlone, InDirectory
  <2>7. TaskLinked(m, t)'
    BY <1>2, <2>3, <2>4, <2>5 DEF TaskLinked
  <2>8. ASSUME Sized(m) PROVE TaskSized(m, t)'
    <3>1. TaskSized(m, t)
      BY <2>8 DEF Sized
    <3> QED
      BY <1>2, <2>3, <3>1 DEF TaskSized, Placed
  <2>9. TaskFilled(t)' /\ (\A x : ~Fresh(t, x)) /\ (\A x : ~Enters(t, x))
    BY <1>2, <2>3 DEF TaskFilled, Fresh, Enters
  <2> QED
    BY <1>2, <2>6, <2>7, <2>8, <2>9, KeptStep
<1> QED
  BY <1>3, <1>4

LEMMA FindNextKept ==
  ASSUME NEW t \in Users, NEW m, Calm(t, m), FindNext(t)
  PROVE  Kept(m)
<1>1. /\ Alone /\ Linked(m) /\ Types /\ m \in Maps /\ loc[t] \in Locals /\ CallFits(t)
  BY DEF Calm, FatMoved, Typed, Types
<1>2. /\ fat' = fat /\ dir' = dir /\ data' = data /\ filp' = filp /\ position' = position
      /\ inode' = inode /\ garbled' = garbled /\ fat_pc[t] = "find_next"
      /\ fat_pc[t] \notin Allocating /\ fat_pc[t] # "store"
  BY DEF FindNext, openVars, Allocating
<1>3. CASE FreeCluster = 0
  <2>1. Return(t)
    BY <1>3 DEF FindNext
  <2> QED
    BY <1>2, <2>1, ReturnKept
<1>4. CASE FreeCluster # 0
  <2>1. PICK c \in Clusters : c = FreeCluster /\ fat[c] = 0
    BY <1>1, <1>4, FreeClusterIsFree DEF Types
  <2>2. /\ loc' = [loc EXCEPT ![t] = [@ EXCEPT !.next_cluster = c]]
        /\ fat_pc' = [fat_pc EXCEPT ![t] = "link"]
    BY <1>4, <2>1 DEF FindNext, FatGoto
  <2>3. /\ loc'[t].next_cluster = c /\ loc'[t].cluster = loc[t].cluster
        /\ loc'[t].offset = loc[t].offset /\ fat_pc'[t] = "link"
    BY <1>1, <2>2 DEF Types, Locals
  <2>4. m.of[c] = NoFile
    BY <2>1, FreeIsUnlinked
  <2>5. TaskAlone(t)' /\ ~InDirectory(t)'
    BY <1>1, <1>2, <2>3 DEF Alone, TaskAlone, InDirectory, InDir
  <2>6. TaskLinked(m, t)'
    <3>1. TaskLinked(m, t)
      BY <1>1, <1>2 DEF Linked
    <3> QED
      BY <1>2, <2>3, <2>4, <3>1 DEF TaskLinked, Ends
  <2>7. ASSUME Sized(m) PROVE TaskSized(m, t)'
    <3>1. TaskSized(m, t)
      BY <2>7 DEF Sized
    <3> QED
      BY <1>2, <2>3, <3>1 DEF TaskSized, Placed, Before
  <2>8. TaskFilled(t)' /\ (\A x : ~Fresh(t, x)) /\ (\A x : ~Enters(t, x))
    BY <1>2, <2>3 DEF TaskFilled, Fresh, Enters
  <2> QED
    BY <1>2, <2>5, <2>6, <2>7, <2>8, KeptStep
<1> QED
  BY <1>3, <1>4

LEMMA ReadFATKept ==
  ASSUME NEW t \in Users, NEW m, Calm(t, m), ReadFAT(t)
  PROVE  Kept(m)
<1>1. /\ Alone /\ Linked(m) /\ Types /\ m \in Maps /\ loc[t] \in Locals
  BY DEF Calm, FatMoved, Typed, Types
<1>2. /\ fat' = fat /\ dir' = dir /\ data' = data /\ filp' = filp /\ position' = position
      /\ inode' = inode /\ garbled' = garbled /\ fat_pc[t] \in {"mark", "link", "end"}
      /\ fat_pc' = fat_pc /\ loc' = [loc EXCEPT ![t] = [@ EXCEPT !.buf = fat]]
  BY DEF ReadFAT, openVars
<1>3. /\ loc'[t].next_cluster = loc[t].next_cluster /\ loc'[t].cluster = loc[t].cluster
      /\ loc'[t].offset = loc[t].offset /\ loc'[t].flags = loc[t].flags
  BY <1>1, <1>2 DEF Types, Locals
<1>4. TaskAlone(t)' /\ ~InDirectory(t)'
  BY <1>1, <1>2 DEF Alone, TaskAlone, InDirectory, InDir
<1>5. TaskLinked(m, t)'
  <2>1. TaskLinked(m, t)
    BY <1>1, <1>2 DEF Linked
  <2> QED
    BY <1>2, <1>3, <2>1 DEF TaskLinked, Ends
<1>6. ASSUME Sized(m) PROVE TaskSized(m, t)'
  <2>1. TaskSized(m, t)
    BY <1>6 DEF Sized
  <2> QED
    BY <1>2, <1>3, <2>1 DEF TaskSized, Placed, Before
<1>7. /\ Filled(m) => TaskFilled(t)'
      /\ \A x : Fresh(t, x) => Fresh(t, x)'
      /\ \A x : Enters(t, x) => Enters(t, x)'
  BY <1>2, <1>3 DEF Filled, TaskFilled, Fresh, Enters
<1> QED
  BY <1>2, <1>4, <1>5, <1>6, <1>7, KeptStep

LEMMA ReadDirKept ==
  ASSUME NEW t \in Users, NEW m, Calm(t, m), ReadDir(t)
  PROVE  Kept(m)
<1>1. /\ Alone /\ Linked(m) /\ Types /\ m \in Maps /\ loc[t] \in Locals /\ OthersKept(t)
  BY DEF Calm, FatMoved, Typed, Types
<1>2. /\ fat' = fat /\ dir' = dir /\ data' = data /\ filp' = filp /\ position' = position
      /\ inode' = inode /\ garbled' = garbled /\ fat_pc[t] \in {"inode", "size"}
      /\ fat_pc' = fat_pc /\ loc' = [loc EXCEPT ![t] = [@ EXCEPT !.buf = dir]]
  BY DEF ReadDir, openVars
<1>3. /\ loc'[t].next_cluster = loc[t].next_cluster /\ loc'[t].cluster = loc[t].cluster
      /\ loc'[t].offset = loc[t].offset /\ loc'[t].flags = loc[t].flags /\ loc'[t].buf = dir
  BY <1>1, <1>2 DEF Types, Locals
<1>4. Alone'
  <2>1. \A u \in Users \ {t} : ~InDirectory(u)
    <3>1. PICK E : Hit(E) /\ (E = IF \E u \in Users \ {t} : fat_pc[u] \in {"inode", "size"}
                                                      /\ loc[u].buf # Empty
                                 THEN {"dir_race"} ELSE {})
      BY DEF ReadDir
    <3>2. "dir_race" \notin fat_hit'
      BY DEF Calm, Races
    <3> QED
      BY <3>1, <3>2 DEF Hit, InDirectory, InDir
  <2>2. \A u \in Users \ {t} : ~InDirectory(u)'
    BY <1>1, <2>1 DEF InDirectory, OthersKept
  <2>3. \A u \in Users : TaskAlone(u)'
    BY <1>1, <1>2, <1>3 DEF Alone, TaskAlone, OthersKept
  <2> QED
    BY <1>1, <1>2, <2>2, <2>3 DEF Alone
<1>5. Linked(m)'
  <2>1. TaskLinked(m, t)
    BY <1>1, <1>2 DEF Linked
  <2>2. TaskLinked(m, t)'
    BY <1>2, <1>3, <2>1 DEF TaskLinked, Ends
  <2>3. \A x : ~Enters(t, x)
    BY <1>2 DEF Enters
  <2> QED
    BY <1>1, <1>2, <2>2, <2>3, LinkedStep
<1>6. ASSUME Sized(m) PROVE Sized(m)'
  <2>1. TaskSized(m, t) /\ \A f \in Files : dir'[f].size <= ClusterSize * m.len[f]
    BY <1>2, <1>6 DEF Sized
  <2>2. TaskSized(m, t)'
    BY <1>2, <1>3, <2>1 DEF TaskSized, Placed
  <2> QED
    BY <1>1, <1>6, <2>1, <2>2, SizedStep
<1>7. ASSUME Filled(m) PROVE Filled(m)'
  <2>1. TaskFilled(t)' /\ (\A x : ~Fresh(t, x))
    BY <1>2, <1>3, <1>7 DEF Filled, TaskFilled, Fresh, Enters
  <2> QED
    BY <1>1, <1>2, <1>7, <2>1, FilledStep
<1> QED
  BY <1>4, <1>5, <1>6, <1>7 DEF Kept

LEMMA LoadKept ==
  ASSUME NEW t \in Users, NEW m, Calm(t, m), Load(t)
  PROVE  Kept(m)
<1> DEFINE s == Sector(loc[t].cluster)
           b == Contents(Sector(loc[t].cluster))
<1>1. /\ Alone /\ Linked(m) /\ Types /\ m \in Maps /\ loc[t] \in Locals
  BY DEF Calm, FatMoved, Typed, Types
<1>2. /\ fat' = fat /\ dir' = dir /\ data' = data /\ filp' = filp /\ position' = position
      /\ inode' = inode /\ garbled' = garbled /\ fat_pc[t] = "load"
      /\ loc' = [loc EXCEPT ![t] = [@ EXCEPT !.sector = s, !.buffer = b]]
      /\ fat_pc' = [fat_pc EXCEPT ![t] = "store"]
  BY DEF Load, FatGoto, openVars
<1>3. loc[t].cluster \in Clusters => s = loc[t].cluster /\ b = data[loc[t].cluster]
  BY FatConstants DEF Sector, SectorOf, Contents, Outside
<1>4. loc[t].cluster \notin Clusters => "boundary" \in fat_hit'
  <2>1. PICK E : Hit(E) /\ (E = IF loc[t].cluster \in Clusters THEN {} ELSE {"boundary"})
    BY DEF Load
  <2> QED
    BY <2>1 DEF Hit
<1> HIDE DEF s, b
<1>5. /\ loc'[t].sector = s /\ loc'[t].buffer = b /\ loc'[t].cluster = loc[t].cluster
      /\ loc'[t].offset = loc[t].offset /\ loc'[t].flags = loc[t].flags /\ fat_pc'[t] = "store"
  BY <1>1, <1>2 DEF Types, Locals
<1>6. TaskAlone(t)' /\ ~InDirectory(t)'
  BY <1>1, <1>2, <1>5 DEF Alone, TaskAlone, InDirectory, InDir
<1>7. TaskLinked(m, t)'
  <2>1. TaskLinked(m, t)
    BY <1>1, <1>2 DEF Linked
  <2> QED
    BY <1>2, <1>5, <2>1 DEF TaskLinked
<1>8. ASSUME fat_hit' \cap {"boundary", "crossing"} = {}, Sized(m) PROVE TaskSized(m, t)'
  <2>1. TaskSized(m, t) /\ loc[t].cluster \in Clusters
    BY <1>4, <1>8 DEF Sized
  <2> QED
    BY <1>2, <1>5, <2>1 DEF TaskSized, Placed, Before
<1>9. fat_hit' \subseteq {"full"} => TaskFilled(t)'
  BY <1>2, <1>3, <1>4, <1>5 DEF TaskFilled
<1>10. (\A x : ~Fresh(t, x)) /\ (\A x : ~Enters(t, x))
  BY <1>2 DEF Fresh, Enters
<1> QED
  BY <1>2, <1>6, <1>7, <1>8, <1>9, <1>10, KeptStep

LEMMA NextClusterKept ==
  ASSUME NEW t \in Users, NEW m, Calm(t, m), NextCluster(t)
  PROVE  Kept(m)
<1> DEFINE d == loc[t].cluster
           c == Entry(d)
           f == filp[t]
<1>1. /\ Alone /\ Linked(m) /\ Types /\ m \in Maps /\ loc[t] \in Locals /\ CallFits(t)
  BY DEF Calm, FatMoved, Typed, Types
<1>2. /\ fat' = fat /\ dir' = dir /\ data' = data /\ filp' = filp /\ position' = position
      /\ inode' = inode /\ garbled' = garbled /\ fat_pc[t] = "next"
      /\ loc' = [loc EXCEPT ![t] = [@ EXCEPT !.next_cluster = c]]
      /\ fat_pc' = [fat_pc EXCEPT ![t] = IF c >= EOC THEN "find_next"
                                       ELSE IF loc[t].flags THEN "store" ELSE "load"]
  BY DEF NextCluster, FatGoto, openVars
<1>3. ~(c >= EOC) => "crossing" \in fat_hit'
  <2>1. PICK E : Hit(E) /\ (E = IF c >= EOC THEN {} ELSE {"crossing"})
    BY DEF NextCluster
  <2> QED
    BY <2>1 DEF Hit
<1>4. ASSUME c >= EOC
      PROVE  d \in Clusters /\ fat[d] = EOC /\ Ends(m, f, d)
  <2>1. c \in Links
    BY <1>1, EntryIsLink DEF Types
  <2>2. c \notin Clusters /\ c # 0 /\ c = EOC
    <3>1. 0 < EOC /\ EOC \in Nat /\ \A x \in Clusters : x \in Nat /\ x < EOC
      BY FatConstants
    <3> DEFINE x == c
    <3> HIDE DEF x
    <3>2. x \in Clusters \cup {0, EOC} /\ x >= EOC
      BY <1>4, <2>1 DEF x, Links
    <3>3. x \notin Clusters /\ x # 0
      BY <3>1, <3>2
    <3> QED
      BY <3>2, <3>3 DEF x
  <2>3. d \in Clusters /\ fat[d] = EOC
    BY <2>2 DEF Entry
  <2>4. m.of[d] = f /\ f \in Files
    BY <1>1, <1>2, <2>3 DEF Linked, TaskLinked, CallFits, Fits
  <2>5. m.rank[d] = m.len[f]
    BY <1>1, <2>2, <2>3, <2>4, EntryLinked
  <2> QED
    BY <2>3, <2>4, <2>5 DEF Ends
<1> HIDE DEF c
<1>5. /\ loc'[t].cluster = d /\ loc'[t].offset = loc[t].offset /\ loc'[t].buf = loc[t].buf
      /\ loc'[t].flags = loc[t].flags
      /\ fat_pc'[t] = IF c >= EOC THEN "find_next" ELSE IF loc[t].flags THEN "store" ELSE "load"
  BY <1>1, <1>2 DEF Types, Locals
<1>6. TaskAlone(t)' /\ ~InDirectory(t)'
  BY <1>1, <1>2, <1>5 DEF Alone, TaskAlone, InDirectory, InDir
<1>7. TaskLinked(m, t)'
  <2>1. TaskLinked(m, t)
    BY <1>1, <1>2 DEF Linked
  <2> QED
    BY <1>2, <1>4, <1>5, <2>1 DEF TaskLinked, Ends
<1>8. ASSUME fat_hit' \cap {"boundary", "crossing"} = {}, Sized(m) PROVE TaskSized(m, t)'
  <2>1. TaskSized(m, t) /\ c >= EOC
    BY <1>3, <1>8 DEF Sized
  <2> QED
    BY <1>2, <1>5, <2>1 DEF TaskSized, Placed, Before
<1>9. fat_hit' \subseteq {"full"} => TaskFilled(t)'
  BY <1>2, <1>3, <1>5 DEF TaskFilled
<1>10. (\A x : ~Fresh(t, x)) /\ (\A x : ~Enters(t, x))
  BY <1>2 DEF Fresh, Enters
<1> QED
  BY <1>2, <1>6, <1>7, <1>8, <1>9, <1>10, KeptStep

\* The next cluster of a chain begins where the one before it ends.
LEMMA BeforeNext ==
  ASSUME NEW m \in Maps, NEW c \in Clusters, NEW d \in Clusters, m.rank[d] = m.rank[c] + 1
  PROVE  Before(m, d) = Before(m, c) + ClusterSize
<1>1. m.rank[c] \in Nat /\ ClusterSize \in Nat
  BY FatConstants DEF Maps
<1>2. ClusterSize * (m.rank[c] - 1) = ClusterSize * m.rank[c] - ClusterSize
      /\ ClusterSize * m.rank[c] \in Int
  BY <1>1, FatTimes
<1>3. m.rank[d] - 1 = m.rank[c]
  BY <1>1
<1>4. Before(m, d) = ClusterSize * m.rank[c]
  BY <1>3 DEF Before
<1>5. Before(m, c) = ClusterSize * m.rank[c] - ClusterSize
  BY <1>2 DEF Before
<1> QED
  BY <1>1, <1>2, <1>4, <1>5

LEMMA FollowKept ==
  ASSUME NEW t \in Users, NEW m, Calm(t, m), Follow(t)
  PROVE  Kept(m)
<1> DEFINE d == loc[t].cluster
           c == Entry(d)
           f == filp[t]
<1>1. /\ Alone /\ Linked(m) /\ Types /\ m \in Maps /\ loc[t] \in Locals /\ CallFits(t)
  BY DEF Calm, FatMoved, Typed, Types
<1>2. /\ fat' = fat /\ dir' = dir /\ data' = data /\ filp' = filp /\ position' = position
      /\ inode' = inode /\ garbled' = garbled /\ fat_pc[t] = "follow"
      /\ fat_pc[t] \notin Allocating /\ fat_pc[t] # "store"
  BY DEF Follow, openVars, Allocating
<1>3. CASE c = 0
  <2>1. Return(t)
    BY <1>3 DEF Follow
  <2> QED
    BY <1>2, <2>1, ReturnKept
<1>4. CASE c # 0
  <2>1. /\ loc' = [loc EXCEPT ![t] = [@ EXCEPT !.cluster = c]]
        /\ fat_pc' = [fat_pc EXCEPT ![t] = "fetch"]
    BY <1>4 DEF Follow, FatGoto
  <2>2. d \in Clusters /\ f \in Files /\ m.of[d] = f
    BY <1>1, <1>2, <1>4 DEF Entry, CallFits, Fits, Linked, TaskLinked
  <2>3. /\ c \in Clusters => m.of[c] = f /\ m.rank[c] = m.rank[d] + 1
        /\ c \notin Clusters => m.rank[d] = m.len[f]
    BY <1>1, <2>2, EntryLinked
  <2> HIDE DEF c
  <2>4. /\ loc'[t].cluster = c /\ loc'[t].offset = loc[t].offset /\ loc'[t].index = loc[t].index
        /\ fat_pc'[t] = "fetch"
    BY <1>1, <2>1 DEF Types, Locals
  <2>5. TaskAlone(t)' /\ ~InDirectory(t)'
    BY <1>1, <1>2, <2>4 DEF Alone, TaskAlone, InDirectory, InDir
  <2>6. TaskLinked(m, t)'
    BY <1>2, <2>3, <2>4 DEF TaskLinked
  <2>7. ASSUME Sized(m) PROVE TaskSized(m, t)'
    <3>1. /\ inode[t].size <= ClusterSize * m.len[f] /\ position[t] <= ClusterSize * m.len[f]
          /\ loc[t].offset = 0 /\ position[t] = Before(m, d) + ClusterSize
          /\ position[t] \in Nat /\ inode[t].size \in Nat
      BY <1>1, <1>2, <2>2, <2>7, FatConstants DEF Sized, TaskSized, Placed, Types, Inodes
    <3>2. c \in Clusters
      <4> SUFFICES ASSUME c \notin Clusters PROVE FALSE
        OBVIOUS
      <4>1. Before(m, d) + ClusterSize = ClusterSize * m.len[f] /\ Before(m, d) \in Int
        BY <1>1, <2>2, <2>3, BeforeFirst
      <4>2. loc[t].index \in Nat /\ loc[t].index >= 1 /\ position[t] + loc[t].index <= inode[t].size
        BY <1>1, <1>2, FatConstants DEF CallFits, Fits, Fetching, Locals
      <4> DEFINE e == ClusterSize * m.len[f]
      <4>3. position[t] = e /\ inode[t].size <= e
        BY <3>1, <4>1
      <4> HIDE DEF e
      <4> QED
        BY <3>1, <4>2, <4>3
    <3>3. Before(m, c) = position[t] /\ Before(m, c) \in Int
      BY <1>1, <2>2, <2>3, <3>1, <3>2, BeforeNext, BeforeFirst
    <3>4. position[t] = Before(m, c) + loc[t].offset
      BY <3>1, <3>3
    <3>5. Placed(m, t)'
      BY <1>2, <2>4, <3>2, <3>4 DEF Placed, Before
    <3> QED
      BY <1>2, <3>1, <3>5 DEF TaskSized
  <2>8. TaskFilled(t)' /\ (\A x : ~Fresh(t, x)) /\ (\A x : ~Enters(t, x))
    BY <1>2, <2>4 DEF TaskFilled, Fresh, Enters
  <2> QED
    BY <1>2, <2>5, <2>6, <2>7, <2>8, KeptStep
<1> QED
  BY <1>3, <1>4

\* A cluster that has just been given to a file is in the hands of who has it open.
LEMMA FreshIsOwn ==
  ASSUME Typed, NEW m \in Maps, Linked(m), NEW u \in Users, NEW c \in Clusters, Fresh(u, c)
  PROVE  m.of[c] = filp[u] /\ filp[u] \in Files
<1>1. CallFits(u) /\ fat_pc[u] # "run" /\ TaskLinked(m, u)
  BY DEF Typed, Fresh, Enters, Linked
<1> QED
  BY <1>1 DEF Fresh, Enters, CallFits, Fits, TaskLinked, Ends

\* What a step of a read or write covers, and what is left.
LEMMA LengthIs ==
  ASSUME Types, NEW t \in Users
  PROVE  /\ loc[t].index - Length(t) > 0 => Length(t) = ClusterSize - loc[t].offset
         /\ loc[t].index = 0 => Covered(t) = {}
         /\ Length(t) \in Nat /\ loc[t].offset \in Nat /\ loc[t].index \in Nat
         /\ loc[t].offset + Length(t) <= ClusterSize
<1>1. /\ loc[t].index \in Nat /\ loc[t].offset \in Nat /\ loc[t].offset < ClusterSize
      /\ ClusterSize \in Nat
  BY FatConstants DEF Types, Locals, Offsets
<1>2. /\ loc[t].index - Length(t) > 0 => Length(t) = ClusterSize - loc[t].offset
      /\ Length(t) \in Nat /\ loc[t].offset + Length(t) <= ClusterSize
      /\ loc[t].index = 0 => Length(t) = 0
  BY <1>1 DEF Length
<1>3. ASSUME Length(t) = 0 PROVE Covered(t) = {}
  BY <1>1, <1>3 DEF Covered, Offsets
<1> QED
  BY <1>1, <1>2, <1>3

LEMMA FetchKept ==
  ASSUME NEW t \in Users, NEW m, Calm(t, m), Fetch(t)
  PROVE  Kept(m)
<1> DEFINE d == loc[t].cluster
           b == Contents(Sector(d))
           pos == position[t] + Length(t)
           piece == Piece(t, b)
           f == filp[t]
<1>1. /\ Alone /\ Linked(m) /\ Types /\ m \in Maps /\ loc[t] \in Locals /\ CallFits(t) /\ Typed
  BY DEF Calm, FatMoved, Typed, Types
<1>2. /\ fat' = fat /\ dir' = dir /\ data' = data /\ filp' = filp
      /\ inode' = inode /\ fat_pc[t] = "fetch" /\ f \in Files
      /\ garbled' = (garbled \/ \E o \in Covered(t) : b[o] # Byte(t, o))
      /\ position' = [position EXCEPT ![t] = pos]
      /\ IF piece.index > 0
         THEN fat_pc' = [fat_pc EXCEPT ![t] = "follow"] /\ loc' = [loc EXCEPT ![t] = piece]
         ELSE fat_pc' = [fat_pc EXCEPT ![t] = "run"] /\ loc' = [loc EXCEPT ![t] = Unused]
  BY <1>1 DEF Fetch, openVars, FatGoto, Return, CallFits, Fits
<1>3. /\ piece.index = loc[t].index - Length(t) /\ piece.cluster = d /\ piece.offset = 0
  BY <1>1, SectorIsSector, PieceFits DEF Types
<1>4. d \in Clusters => b = data[d] /\ m.of[d] = f
  BY <1>1, <1>2, FatConstants DEF Sector, SectorOf, Contents, Outside, Linked, TaskLinked
<1> HIDE DEF b, piece
<1>5. pos <= inode[t].size /\ pos \in Nat /\ inode[t].size \in Nat /\ position[t] \in Nat
  BY <1>1, <1>2, LengthFits, FatConstants DEF Types, CallFits, Fits, Fetching, Locals, Inodes
<1>6. position'[t] = pos
  BY <1>1, <1>2 DEF Types
<1>7. fat_pc'[t] = (IF piece.index > 0 THEN "follow" ELSE "run") /\ (piece.index > 0 => loc'[t] = piece)
  BY <1>1, <1>2 DEF Types
<1> HIDE DEF pos
<1>8. TaskAlone(t)' /\ ~InDirectory(t)'
  BY <1>1, <1>2, <1>7 DEF Alone, TaskAlone, InDirectory, InDir
<1>9. fat_pc'[t] # "run" => TaskLinked(m, t)'
  BY <1>2, <1>3, <1>4, <1>7 DEF TaskLinked
<1>10. ASSUME Sized(m)
       PROVE  /\ inode[t].size <= ClusterSize * m.len[f]
              /\ d \in Clusters => position[t] = Before(m, d) + loc[t].offset /\ Before(m, d) \in Int
              /\ d \notin Clusters => loc[t].index = 0
  BY <1>1, <1>2, <1>10, BeforeFirst DEF Sized, TaskSized, Placed
<1>11. ASSUME Sized(m) PROVE TaskSized(m, t)'
  <2>1. pos <= ClusterSize * m.len[f]
    <3> DEFINE e == ClusterSize * m.len[f]
    <3>1. e \in Int /\ inode[t].size <= e
      BY <1>1, <1>2, <1>10, <1>11, FatConstants DEF Maps
    <3> HIDE DEF e
    <3>2. pos <= e
      BY <1>5, <3>1
    <3> QED
      BY <3>2 DEF e
  <2>2. ASSUME piece.index > 0 PROVE d \in Clusters /\ pos = Before(m, d) + ClusterSize
    <3>1. loc[t].index # 0 /\ Length(t) = ClusterSize - loc[t].offset
      BY <1>1, <1>3, <2>2, LengthIs
    <3>2. d \in Clusters /\ position[t] = Before(m, d) + loc[t].offset /\ Before(m, d) \in Int
      BY <1>10, <1>11, <3>1
    <3>3. pos = position[t] + Length(t) /\ loc[t].offset \in Nat /\ ClusterSize \in Nat
      BY <1>1, LengthIs, FatConstants DEF pos
    <3> QED
      BY <3>1, <3>2, <3>3
  <2>3. fat_pc'[t] # "run" => Placed(m, t)'
    BY <1>3, <1>6, <1>7, <2>2 DEF Placed, Before
  <2> QED
    BY <1>2, <1>6, <1>10, <1>11, <2>1, <2>3 DEF TaskSized
<1>12. ASSUME Sized(m), Filled(m) PROVE ~garbled'
  <2> SUFFICES ASSUME NEW o \in Covered(t) PROVE b[o] = Byte(t, o)
    BY <1>2, <1>12 DEF Filled
  <2>1. o \in Offsets /\ o \in Int
    BY FatConstants DEF Covered, Offsets
  <2>2. d \in Clusters
    BY <1>1, <1>10, <1>12, LengthIs
  <2>3. data[d] = RightBytes(m, d)
    <3>1. ASSUME NEW u \in Users, Fresh(u, d) PROVE FALSE
      <4>1. filp[u] = f
        BY <1>1, <1>4, <2>2, <3>1, FreshIsOwn
      <4>2. u = t
        BY <1>1, <1>2, <4>1 DEF Alone
      <4> QED
        BY <1>2, <3>1, <4>2 DEF Fresh, Enters
    <3> QED
      BY <1>2, <1>4, <1>12, <2>2, <3>1 DEF Filled
  <2>4. b[o] = <<f, Before(m, d) + o>>
    BY <1>4, <2>1, <2>2, <2>3 DEF RightBytes
  <2>5. position[t] + o - loc[t].offset = Before(m, d) + o
    <3>1. loc[t].offset \in Int
      BY <1>1, LengthIs
    <3> QED
      BY <1>5, <1>10, <1>12, <2>1, <2>2, <3>1
  <2> QED
    BY <2>4, <2>5 DEF Byte
<1>13. TaskFilled(t)' /\ (\A x : ~Fresh(t, x)) /\ (\A x : ~Enters(t, x))
  BY <1>2, <1>7 DEF TaskFilled, Fresh, Enters
<1> QED
  BY <1>2, <1>8, <1>9, <1>11, <1>12, <1>13, KeptStep

LEMMA StoreKept ==
  ASSUME NEW t \in Users, NEW m, Calm(t, m), Store(t)
  PROVE  Kept(m)
<1> DEFINE d == loc[t].cluster
           b == [o \in Offsets |-> IF o \in Covered(t) THEN Byte(t, o) ELSE loc[t].buffer[o]]
           pos == position[t] + Length(t)
           piece == Piece(t, b)
           f == filp[t]
<1>1. /\ Alone /\ Linked(m) /\ Types /\ m \in Maps /\ loc[t] \in Locals /\ CallFits(t) /\ Typed
      /\ OthersKept(t)
  BY DEF Calm, FatMoved, Typed, Types
<1>2. /\ fat' = fat /\ dir' = dir /\ filp' = filp /\ garbled' = garbled
      /\ fat_pc[t] = "store" /\ f \in Files
      /\ data' = IF loc[t].sector = Outside THEN data ELSE [data EXCEPT ![loc[t].sector] = b]
      /\ position' = [position EXCEPT ![t] = pos]
      /\ inode' = IF piece.index > 0 THEN inode
                  ELSE [inode EXCEPT ![t] = [@ EXCEPT !.size = Grown(t, pos)]]
      /\ IF piece.index > 0
         THEN fat_pc' = [fat_pc EXCEPT ![t] = "next"] /\ loc' = [loc EXCEPT ![t] = piece]
         ELSE IF pos > inode[t].size
         THEN fat_pc' = [fat_pc EXCEPT ![t] = "size"] /\ loc' = [loc EXCEPT ![t] = Unused]
         ELSE fat_pc' = [fat_pc EXCEPT ![t] = "run"] /\ loc' = [loc EXCEPT ![t] = Unused]
  BY <1>1 DEF Store, FatGoto, Return, CallFits, Fits
<1>3. b \in Buffers
  BY <1>1, <1>2, ByteIsByte DEF Typed, Buffers, Locals
<1>4. piece.index = loc[t].index - Length(t) /\ piece.cluster = d /\ piece.offset = 0
  BY <1>1, <1>3, PieceFits
<1>5. \A o \in Offsets : b[o] = IF o \in Covered(t) THEN Byte(t, o) ELSE loc[t].buffer[o]
  OBVIOUS
<1> HIDE DEF b, piece
<1>6. /\ pos = position[t] + Length(t) /\ pos \in Nat /\ position[t] \in Nat /\ Length(t) \in Nat
      /\ inode[t].size \in Nat /\ loc[t].offset \in Nat /\ loc[t].offset + Length(t) <= ClusterSize
      /\ ClusterSize \in Nat
  <2>1. position[t] \in Nat /\ inode[t].size \in Nat
    BY <1>1, FatConstants DEF Types, Inodes
  <2> QED
    BY <1>1, <2>1, LengthIs, FatConstants
<1> HIDE DEF pos
<1>7. /\ fat_pc'[t] \in {"next", "size", "run"} /\ (fat_pc'[t] = "next" <=> piece.index > 0)
      /\ fat_pc'[t] = "next" => loc'[t] = piece
      /\ fat_pc'[t] # "next" => loc'[t] = Unused
      /\ position'[t] = pos
  BY <1>1, <1>2 DEF Types
<1>8. inode'[t].first = inode[t].first /\ inode'[t].size \in {inode[t].size, pos}
  <2>1. inode[t] \in Inodes
    BY <1>1 DEF Types
  <2>2. Grown(t, pos) \in {inode[t].size, pos}
    BY DEF Grown
  <2> QED
    BY <1>1, <1>2, <2>1, <2>2 DEF Types, Inodes
<1>9. Unused.cluster \notin Clusters /\ Unused.buf = Empty
  BY FatConstants DEF Unused
<1>10. TaskAlone(t)' /\ ~InDirectory(t)'
  BY <1>1, <1>2, <1>7, <1>8, <1>9 DEF Alone, TaskAlone, InDirectory, InDir
<1>11. fat_pc'[t] # "run" => TaskLinked(m, t)'
  <2>1. d \in Clusters => m.of[d] = f
    BY <1>1, <1>2 DEF Linked, TaskLinked
  <2> QED
    BY <1>2, <1>4, <1>7, <1>9, <2>1 DEF TaskLinked
<1>12. Alone' /\ Linked(m)'
  <2>1. \A x : ~Enters(t, x)
    BY <1>2 DEF Enters
  <2> QED
    BY <1>1, <1>2, <1>10, <1>11, <2>1, AloneStep, LinkedStep
<1>13. ASSUME Sized(m)
       PROVE  /\ d \in Clusters /\ m.of[d] = f /\ Before(m, d) \in Int
              /\ position[t] = Before(m, d) + loc[t].offset
  BY <1>1, <1>2, <1>13, BeforeFirst DEF Sized, TaskSized, Placed, Linked, TaskLinked
<1>14. ASSUME Sized(m) PROVE Sized(m)'
  <2>1. pos <= Before(m, d) + ClusterSize
    BY <1>6, <1>13, <1>14
  <2>2. Before(m, d) + ClusterSize <= ClusterSize * m.len[f]
    <3>1. m.rank[d] \in Nat /\ m.len[f] \in Nat /\ m.rank[d] <= m.len[f]
      BY <1>1, <1>2, <1>13, <1>14, EntryLinked, BeforeFirst
    <3>2. ClusterSize * m.rank[d] <= ClusterSize * m.len[f]
      BY <3>1, FatTimes
    <3> QED
      BY <1>1, <1>13, <1>14, <3>2, BeforeFirst
  <2>3. pos <= ClusterSize * m.len[f] /\ inode[t].size <= ClusterSize * m.len[f]
    <3> DEFINE e == ClusterSize * m.len[f]
    <3>1. e \in Int /\ inode[t].size <= e
      BY <1>1, <1>2, <1>14, FatConstants DEF Maps, Sized, TaskSized
    <3>2. Before(m, d) + ClusterSize <= e
      BY <2>2
    <3> HIDE DEF e
    <3>3. pos <= e
      BY <1>6, <1>13, <1>14, <2>1, <3>1, <3>2
    <3> QED
      BY <3>1, <3>3 DEF e
  <2>4. piece.index > 0 => pos = Before(m, d) + ClusterSize
    <3>1. piece.index > 0 => Length(t) = ClusterSize - loc[t].offset
      BY <1>1, <1>4, LengthIs
    <3> QED
      BY <1>6, <1>13, <1>14, <3>1
  <2>5. fat_pc'[t] # "run" => Placed(m, t)'
    BY <1>4, <1>7, <1>13, <1>14, <2>4 DEF Placed, Before
  <2>6. TaskSized(m, t)'
    BY <1>2, <1>7, <1>8, <2>3, <2>5 DEF TaskSized
  <2>7. \A g \in Files : dir'[g].size <= ClusterSize * m.len[g]
    BY <1>2, <1>14 DEF Sized
  <2> QED
    BY <1>1, <1>14, <2>6, <2>7, SizedStep
<1>15. ASSUME fat_hit' \subseteq {"full"}, Sized(m), Filled(m) PROVE Filled(m)'
  <2>1. ~loc[t].flags
    <3>1. PICK E : Hit(E) /\ (E = IF loc[t].flags THEN {"fresh"} ELSE {})
      BY DEF Store
    <3> QED
      BY <1>15, <3>1 DEF Hit
  <2>2. /\ d \in Clusters /\ m.of[d] = f /\ Before(m, d) \in Int
        /\ position[t] = Before(m, d) + loc[t].offset
    BY <1>13, <1>15
  <2>3. loc[t].sector = d /\ loc[t].buffer = data[d] /\ d # Outside
    BY <1>2, <1>15, <2>1, <2>2, FatConstants DEF Filled, TaskFilled, Outside
  <2>4. data' = [data EXCEPT ![d] = b]
    BY <1>2, <2>3
  <2>5. data[d] = RightBytes(m, d)
    <3>1. ASSUME NEW u \in Users, Fresh(u, d) PROVE FALSE
      <4>1. filp[u] = f
        BY <1>1, <2>2, <3>1, FreshIsOwn
      <4>2. u = t
        BY <1>1, <1>2, <4>1 DEF Alone
      <4> QED
        BY <1>2, <2>1, <3>1, <4>2 DEF Fresh, Enters
    <3> QED
      BY <1>2, <1>15, <2>2, <3>1 DEF Filled
  <2>6. ASSUME NEW o \in Offsets PROVE b[o] = <<f, Before(m, d) + o>>
    <3>1. data[d][o] = <<f, Before(m, d) + o>>
      BY <2>2, <2>5 DEF RightBytes
    <3>2. position[t] + o - loc[t].offset = Before(m, d) + o
      <4>1. o \in Int
        BY FatConstants DEF Offsets
      <4> QED
        BY <1>6, <2>2, <4>1
    <3> QED
      BY <1>5, <2>3, <3>1, <3>2 DEF Byte
  <2>7. b = RightBytes(m, d)
    <3>1. b = [o \in Offsets |-> b[o]]
      BY <1>3 DEF Buffers
    <3> QED
      BY <2>2, <2>6, <3>1 DEF RightBytes
  <2>8. ASSUME NEW c \in Clusters, m.of[c] \in Files
        PROVE  data'[c] = RightBytes(m, c) \/ \E u \in Users : Fresh(u, c)'
    <3>1. CASE c = d
      BY <1>1, <2>4, <2>7, <3>1 DEF Types
    <3>2. CASE c # d
      <4>1. data'[c] = data[c]
        BY <1>1, <2>4, <3>2 DEF Types
      <4>2. ASSUME NEW u \in Users, Fresh(u, c) PROVE Fresh(u, c)'
        <5>1. u # t
          BY <1>2, <2>1, <4>2 DEF Fresh, Enters
        <5> QED
          BY <1>1, <4>2, <5>1 DEF Fresh, Enters, OthersKept
      <4> QED
        BY <1>15, <2>8, <4>1, <4>2 DEF Filled
    <3> QED
      BY <3>1, <3>2
  <2>9. ASSUME NEW u \in Users PROVE TaskFilled(u)'
    <3>1. CASE u = t
      BY <1>7, <3>1 DEF TaskFilled
    <3>2. CASE u # t
      <4>1. TaskFilled(u) /\ CallFits(u)
        BY <1>1, <1>15 DEF Filled, Typed
      <4>2. ASSUME fat_pc[u] = "store", ~loc[u].flags
            PROVE  data'[loc[u].cluster] = data[loc[u].cluster]
        <5>1. loc[u].cluster \in Clusters /\ m.of[loc[u].cluster] = filp[u] /\ filp[u] \in Files
          BY <1>1, <1>15, <4>1, <4>2 DEF Sized, TaskSized, Placed, Linked, TaskLinked, CallFits, Fits
        <5>2. loc[u].cluster # d
          BY <1>1, <2>2, <3>2, <5>1 DEF Alone
        <5> QED
          BY <1>1, <2>4, <5>1, <5>2 DEF Types
      <4>3. fat_pc'[u] = fat_pc[u] /\ loc'[u] = loc[u]
        BY <1>1, <3>2 DEF OthersKept
      <4> QED
        BY <4>1, <4>2, <4>3 DEF TaskFilled
    <3> QED
      BY <3>1, <3>2
  <2>10. ~garbled'
    BY <1>2, <1>15 DEF Filled
  <2> QED
    BY <2>8, <2>9, <2>10 DEF Filled, RightBytes, Before
<1> QED
  BY <1>12, <1>14, <1>15 DEF Kept

\* A task enters its file's last cluster into the FAT.
LEMMA EnterKept ==
  ASSUME NEW t \in Users, NEW m, Calm(t, m), NEW c \in Clusters,
         WriteFAT(t), Enters(t, c)
  PROVE  Kept(m)
<1> DEFINE f == filp[t]
<1>1. /\ Alone /\ Linked(m) /\ Types /\ m \in Maps /\ loc[t] \in Locals /\ CallFits(t)
      /\ OthersKept(t) /\ OneAllocates /\ TaskLinked(m, t)
  BY DEF Calm, FatMoved, Typed, Types, Linked, Enters
<1>2. /\ dir' = dir /\ data' = data /\ filp' = filp /\ position' = position
      /\ inode' = inode /\ garbled' = garbled /\ fat_pc[t] \in {"mark", "end"}
      /\ fat_pc' = [fat_pc EXCEPT ![t] = "store"] /\ f \in Files
  BY <1>1 DEF WriteFAT, openVars, Enters, CallFits, Fits
<1>3. fat' = [fat EXCEPT ![c] = EOC]
  <2>1. loc[t].buf = fat
    BY <1>2 DEF WriteFAT, Calm, SectorsGood, InFAT
  <2>2. Change(t) = <<c, EOC>>
    BY <1>2 DEF Change, Enters
  <2> QED
    BY <2>1, <2>2 DEF WriteFAT
<1>4. /\ loc'[t].cluster = c /\ loc'[t].offset = loc[t].offset /\ loc'[t].buf = Empty
      /\ loc'[t].flags = IF fat_pc[t] = "end" THEN TRUE ELSE loc[t].flags
      /\ fat_pc'[t] = "store"
  <2>1. loc' = [loc EXCEPT ![t] =
          IF fat_pc[t] = "end" THEN [loc[t] EXCEPT !.buf = Empty, !.cluster = c, !.flags = TRUE]
          ELSE [loc[t] EXCEPT !.buf = Empty]]
    BY DEF WriteFAT, Enters
  <2>2. CASE fat_pc[t] = "end"
    BY <1>1, <1>2, <2>1, <2>2 DEF Types, Locals
  <2>3. CASE fat_pc[t] = "mark"
    <3>1. loc' = [loc EXCEPT ![t] = [loc[t] EXCEPT !.buf = Empty]] /\ loc[t].cluster = c
      BY <2>1, <2>3 DEF Enters
    <3> QED
      BY <1>1, <1>2, <2>3, <3>1 DEF Types, Locals
  <2> QED
    BY <1>2, <2>2, <2>3
<1>5. Ends(m, f, c) /\ fat[c] = 0 /\ (fat_pc[t] = "mark" => m.len[f] = 1)
  BY <1>1 DEF TaskLinked, Enters
<1>6. Alone'
  <2>1. TaskAlone(t)' /\ ~InDirectory(t)'
    BY <1>1, <1>2, <1>4 DEF Alone, TaskAlone, InDirectory, InDir
  <2> QED
    BY <1>1, <1>2, <2>1, AloneStep
<1>8. ASSUME NEW x \in Clusters PROVE CellLinked(m, x)'
  <2>1. CellLinked(m, x)
    BY <1>1 DEF Linked
  <2>2. CASE x = c
    <3>1. fat'[x] = EOC
      BY <1>1, <1>3, <2>2 DEF Types, FATs
    <3>2. m.of[x] = f /\ m.rank[x] = m.len[f] /\ m.rank[x] \in 1..m.len[f] /\ m.len[f] \in Nat
      BY <1>1, <1>2, <1>5, <2>1, <2>2 DEF Ends, CellLinked, Maps
    <3> QED
      BY <1>2, <3>1, <3>2 DEF CellLinked
  <2>3. CASE x # c
    <3>1. fat'[x] = fat[x]
      BY <1>1, <1>3, <2>3 DEF Types, FATs
    <3>2. ~Enters(t, x)
      BY <1>2, <2>3 DEF Enters
    <3>3. ASSUME NEW u \in Users, Enters(u, x) PROVE Enters(u, x)'
      <4>1. u # t
        BY <3>2, <3>3
      <4> QED
        BY <1>1, <3>3, <4>1 DEF Enters, OthersKept
    <3> QED
      BY <2>1, <3>1, <3>3 DEF CellLinked
  <2> QED
    BY <2>2, <2>3
<1>9. ASSUME NEW u \in Users, fat_pc'[u] # "run" PROVE TaskLinked(m, u)'
  <2>1. CASE u = t
    BY <1>2, <1>4, <1>5, <2>1 DEF TaskLinked, Ends
  <2>2. CASE u # t
    <3>1. fat_pc[u] \notin Allocating
      BY <1>1, <1>2, <2>2 DEF OneAllocates, Allocating
    <3>2. TaskLinked(m, u) /\ fat_pc'[u] = fat_pc[u] /\ loc'[u] = loc[u] /\ filp'[u] = filp[u]
          /\ inode'[u] = inode[u]
      BY <1>1, <1>9, <2>2 DEF OthersKept, Linked
    <3>3. fat_pc[u] = "find_next" => fat'[loc[u].cluster] = EOC
      <4>1. fat_pc[u] = "find_next" => loc[u].cluster \in Clusters
        BY DEF Calm, Typed, CallFits, Fits
      <4> QED
        BY <1>1, <1>3, <3>2, <4>1 DEF TaskLinked, Types, FATs
    <3> QED
      BY <3>1, <3>2, <3>3 DEF TaskLinked, Ends, Allocating
  <2> QED
    BY <2>1, <2>2
<1>10. Linked(m)'
  <2>1. Unique(m)' /\ \A g \in Files : FileLinked(m, g)'
    BY <1>1, <1>2 DEF Linked, Unique, FileLinked
  <2> QED
    BY <1>8, <1>9, <2>1 DEF Linked
<1>11. ASSUME Sized(m) PROVE Sized(m)'
  <2>1. TaskSized(m, t) /\ Placed(m, t)
    BY <1>2, <1>11 DEF Sized, TaskSized
  <2>2. loc[t].offset = 0 /\ position[t] = Before(m, c)
    <3>1. CASE fat_pc[t] = "mark"
      <4>1. m.rank[c] = 1
        BY <1>5, <3>1 DEF Ends
      <4> QED
        BY <1>1, <2>1, <3>1, <4>1, BeforeFirst DEF Placed
    <3>2. CASE fat_pc[t] = "end"
      BY <2>1, <3>2 DEF Placed, Enters
    <3> QED
      BY <1>2, <3>1, <3>2
  <2>3. position[t] = Before(m, c) + loc[t].offset
    BY <1>1, <2>2, BeforeFirst
  <2>4. Placed(m, t)'
    BY <1>2, <1>4, <2>3 DEF Placed, Before
  <2>5. TaskSized(m, t)'
    BY <1>2, <2>1, <2>4 DEF TaskSized
  <2>6. \A g \in Files : dir'[g].size <= ClusterSize * m.len[g]
    BY <1>2, <1>11 DEF Sized
  <2> QED
    BY <1>1, <1>11, <2>5, <2>6, SizedStep
<1>12. ASSUME Filled(m) PROVE Filled(m)'
  <2>1. loc'[t].flags
    BY <1>2, <1>4, <1>12 DEF Filled, TaskFilled
  <2>2. TaskFilled(t)'
    BY <1>4, <2>1 DEF TaskFilled
  <2>3. \A x : Fresh(t, x) => Fresh(t, x)'
    BY <1>2, <1>4, <2>1 DEF Fresh, Enters
  <2>4. ~garbled => ~garbled'
    BY <1>2
  <2> QED
    BY <1>1, <1>2, <1>12, <2>2, <2>3, <2>4, FilledStep
<1> QED
  BY <1>6, <1>10, <1>11, <1>12 DEF Kept

\* The file f gets the free cluster c at the end of its chain.
Longer(m, f, c) == [of |-> [m.of EXCEPT ![c] = f], rank |-> [m.rank EXCEPT ![c] = m.len[f] + 1],
                    len |-> [m.len EXCEPT ![f] = m.len[f] + 1]]

\* What a step leaves in order after which a file's chain is longer.
Continued(m, k) ==
  /\ k \in Maps /\ Alone' /\ Linked(k)'
  /\ fat_hit' \cap {"boundary", "crossing"} = {} /\ Sized(m) => Sized(k)'
  /\ fat_hit' \subseteq {"full"} /\ Sized(m) /\ Filled(m) => Filled(k)'

\* k is m with one file longer by the cluster c.
Lengthens(m, k, f, c) ==
  /\ k \in Maps /\ m.of[c] = NoFile
  /\ k.of[c] = f /\ k.rank[c] = m.len[f] + 1 /\ k.len[f] = m.len[f] + 1
  /\ \A x \in Clusters \ {c} : k.of[x] = m.of[x] /\ k.rank[x] = m.rank[x]
  /\ \A g \in Files \ {f} : k.len[g] = m.len[g]

LEMMA LongerLengthens ==
  ASSUME NEW m \in Maps, NEW f \in Files, NEW c \in Clusters, m.of[c] = NoFile
  PROVE  Lengthens(m, Longer(m, f, c), f, c)
<1>1. /\ m.of \in Owners /\ m.rank \in [Clusters -> Nat] /\ m.len \in [Files -> Nat]
  BY DEF Maps
<1>2. m.len[f] + 1 \in Nat
  BY <1>1
<1>3. /\ [m.of EXCEPT ![c] = f] \in Owners
      /\ [m.rank EXCEPT ![c] = m.len[f] + 1] \in [Clusters -> Nat]
      /\ [m.len EXCEPT ![f] = m.len[f] + 1] \in [Files -> Nat]
  BY <1>1, <1>2 DEF Owners
<1>4. Longer(m, f, c) \in Maps
  BY <1>3 DEF Longer, Maps
<1> QED
  BY <1>1, <1>4 DEF Longer, Lengthens, Owners

\* A task that adds the cluster c to its file, by the entry of the last one before
\* or the file's own.
Adds(t, m, k, f, c) ==
  /\ Calm(t, m) /\ f = filp[t] /\ Lengthens(m, k, f, c)
  /\ fat_pc[t] \in Allocating /\ filp' = filp /\ data' = data /\ garbled' = garbled
  /\ Enters(t, c)' /\ fat' \in FATs
  /\ \A x \in Clusters : fat'[x] = IF Ends(m, f, x) THEN c ELSE fat[x]

LEMMA OthersLonger ==
  ASSUME NEW t \in Users, NEW m, NEW k, NEW f \in Files, NEW c \in Clusters, Adds(t, m, k, f, c),
         NEW u \in Users \ {t}
  PROVE  /\ fat_pc[u] \notin Allocating
         /\ filp[u] \in Files => k.len[filp[u]] = m.len[filp[u]]
         /\ \A x \in Clusters : m.of[x] \in Files => x # c
         /\ fat_pc[u] # "run" /\ loc[u].cluster \in Clusters =>
              /\ m.of[loc[u].cluster] = filp[u] /\ filp[u] \in Files /\ loc[u].cluster # c
              /\ k.rank[loc[u].cluster] = m.rank[loc[u].cluster] /\ k.of[loc[u].cluster] = filp[u]
<1>1. Calm(t, m) /\ f = filp[t] /\ Lengthens(m, k, f, c) /\ fat_pc[t] \in Allocating
  BY DEF Adds
<1>2. fat_pc[u] \notin Allocating
  BY <1>1 DEF Calm, OneAllocates
<1>3. filp[u] \in Files => filp[u] # f
  BY <1>1 DEF Calm, Alone
<1>4. \A x \in Clusters : m.of[x] \in Files => x # c
  BY <1>1, FatConstants DEF Lengthens
<1>5. ASSUME fat_pc[u] # "run", loc[u].cluster \in Clusters
      PROVE  m.of[loc[u].cluster] = filp[u] /\ filp[u] \in Files
  <2>1. TaskLinked(m, u) /\ CallFits(u) /\ fat_pc[u] # "inode"
    BY <1>1, <1>2, <1>5 DEF Calm, Linked, Typed, Allocating
  <2> QED
    BY <1>5, <2>1 DEF TaskLinked, CallFits, Fits
<1> QED
  BY <1>1, <1>2, <1>3, <1>4, <1>5 DEF Lengthens

LEMMA LinkedLonger ==
  ASSUME NEW t \in Users, NEW m, NEW k, NEW f \in Files, NEW c \in Clusters, Adds(t, m, k, f, c),
         FileLinked(k, f)', \A g \in Files \ {f} : dir'[g].first = dir[g].first,
         TaskLinked(k, t)'
  PROVE  Linked(k)'
<1>1. /\ Calm(t, m) /\ f = filp[t] /\ Lengthens(m, k, f, c) /\ fat_pc[t] \in Allocating
      /\ filp' = filp /\ Enters(t, c)' /\ Linked(m) /\ OthersKept(t) /\ m \in Maps /\ Types
      /\ \A x \in Clusters : fat'[x] = IF Ends(m, f, x) THEN c ELSE fat[x]
  BY DEF Adds, Calm, FatMoved, Typed
<1>2. /\ m.of[c] = NoFile /\ k.of[c] = f /\ k.rank[c] = m.len[f] + 1 /\ k.len[f] = m.len[f] + 1
      /\ \A x \in Clusters \ {c} : k.of[x] = m.of[x] /\ k.rank[x] = m.rank[x]
      /\ \A g \in Files \ {f} : k.len[g] = m.len[g]
      /\ NoFile \notin Files
  BY <1>1, FatConstants DEF Lengthens
<1>3. \A x \in Clusters : m.rank[x] \in Nat /\ m.of[x] \in Files \cup {NoFile}
  BY <1>1 DEF Maps, Owners
<1>4. \A g \in Files : m.len[g] \in Nat
  BY <1>1 DEF Maps
<1>5. \A u \in Users : Enters(u, c) => u = t
  BY <1>1 DEF Enters, Allocating, Calm, OneAllocates
<1>6. ~Ends(m, f, c)
  BY <1>2 DEF Ends
<1>7. fat[c] = 0 /\ fat'[c] = 0
  <2>1. CellLinked(m, c)
    BY <1>1 DEF Linked
  <2>2. fat[c] = 0
    BY <1>2, <2>1 DEF CellLinked
  <2> QED
    BY <1>1, <1>6, <2>2
<1>8. ASSUME NEW x \in Clusters PROVE CellLinked(k, x)'
  <2>1. CellLinked(m, x)
    BY <1>1 DEF Linked
  <2>2. CASE x = c
    <3>1. m.len[f] + 1 \in 1..(m.len[f] + 1)
      BY <1>4
    <3> QED
      BY <1>1, <1>2, <1>7, <2>2, <3>1 DEF CellLinked
  <2>3. CASE x # c /\ Ends(m, f, x)
    <3>1. fat'[x] = c /\ k.of[x] = f /\ k.rank[x] = m.len[f] /\ m.rank[x] = m.len[f]
      BY <1>1, <1>2, <2>3 DEF Ends
    <3>2. m.len[f] \in Nat /\ m.len[f] \in 1..m.len[f]
      BY <1>4, <2>1, <2>3, <3>1 DEF Ends, CellLinked
    <3>3. m.len[f] \in 1..(m.len[f] + 1) /\ m.len[f] < m.len[f] + 1
      BY <3>2
    <3> QED
      BY <1>2, <3>1, <3>3 DEF CellLinked
  <2>4. CASE x # c /\ ~Ends(m, f, x) /\ m.of[x] \in Files
    <3>1. fat'[x] = fat[x] /\ k.of[x] = m.of[x] /\ k.rank[x] = m.rank[x]
      BY <1>1, <1>2, <2>4
    <3>2. fat[x] \in Clusters /\ m.of[fat[x]] = m.of[x] =>
            k.of[fat[x]] = m.of[x] /\ k.rank[fat[x]] = m.rank[fat[x]]
      BY <1>2, <2>4
    <3>3. CASE m.of[x] = f
      <4>1. m.rank[x] # m.len[f] /\ m.rank[x] \in 1..m.len[f]
        BY <2>1, <2>4, <3>3 DEF Ends, CellLinked
      <4>2. m.rank[x] < m.len[f] /\ m.rank[x] < m.len[f] + 1 /\ m.rank[x] \in 1..(m.len[f] + 1)
        BY <1>3, <1>4, <4>1
      <4> QED
        BY <1>2, <2>1, <2>4, <3>1, <3>2, <3>3, <4>2 DEF CellLinked
    <3>4. CASE m.of[x] # f
      <4>1. k.len[m.of[x]] = m.len[m.of[x]]
        BY <1>2, <2>4, <3>4
      <4>2. ASSUME NEW u \in Users, Enters(u, x) PROVE Enters(u, x)'
        <5>1. u # t
          <6>1. Enters(t, x) => m.of[x] \in {f, NoFile}
            <7>1. fat_pc[t] # "run" => TaskLinked(m, t)
              BY <1>1 DEF Linked
            <7> QED
              BY <1>1, <7>1 DEF Enters, TaskLinked, Ends
          <6> QED
            BY <1>2, <2>4, <3>4, <4>2, <6>1
        <5> QED
          BY <1>1, <4>2, <5>1 DEF Enters, OthersKept
      <4> QED
        BY <2>1, <2>4, <3>1, <3>2, <4>1, <4>2 DEF CellLinked
    <3> QED
      BY <3>3, <3>4
  <2>5. CASE x # c /\ m.of[x] \notin Files
    <3>1. ~Ends(m, f, x)
      BY <2>5 DEF Ends
    <3>2. fat'[x] = fat[x] /\ k.of[x] = m.of[x]
      BY <1>1, <1>2, <2>5, <3>1
    <3> QED
      BY <2>1, <2>5, <3>2 DEF CellLinked
  <2> QED
    BY <2>2, <2>3, <2>4, <2>5
<1>9. ASSUME NEW g \in Files PROVE FileLinked(k, g)'
  <2>1. CASE g = f
    BY <2>1
  <2>2. CASE g # f
    <3>1. FileLinked(m, g) /\ dir'[g].first = dir[g].first /\ k.len[g] = m.len[g]
      BY <1>1, <1>2, <2>2 DEF Linked
    <3>2. \A x \in Clusters : m.of[x] = g => k.of[x] = g /\ k.rank[x] = m.rank[x]
      BY <1>2
    <3> QED
      BY <3>1, <3>2 DEF FileLinked
  <2> QED
    BY <2>1, <2>2
<1>10. ASSUME NEW u \in Users, fat_pc'[u] # "run" PROVE TaskLinked(k, u)'
  <2>1. CASE u = t
    BY <2>1
  <2>2. CASE u # t
    <3>1. /\ fat_pc'[u] = fat_pc[u] /\ loc'[u] = loc[u] /\ filp'[u] = filp[u]
          /\ inode'[u] = inode[u] /\ fat_pc[u] # "run" /\ TaskLinked(m, u)
      BY <1>1, <1>10, <2>2 DEF OthersKept, Linked
    <3>2. /\ fat_pc[u] \notin Allocating
          /\ filp[u] \in Files => k.len[filp[u]] = m.len[filp[u]]
          /\ loc[u].cluster \in Clusters =>
              /\ m.of[loc[u].cluster] = filp[u] /\ filp[u] \in Files
              /\ k.rank[loc[u].cluster] = m.rank[loc[u].cluster] /\ k.of[loc[u].cluster] = filp[u]
      <4>1. u \in Users \ {t} /\ Adds(t, m, k, f, c)
        BY <2>2
      <4>2. fat_pc[u] # "run"
        BY <3>1
      <4> QED
        BY <4>1, <4>2, OthersLonger
    <3>3. fat_pc[u] = "find_next" => Ends(k, filp[u], loc[u].cluster) /\ fat'[loc[u].cluster] = EOC
      <4>1. ASSUME fat_pc[u] = "find_next"
            PROVE  Ends(k, filp[u], loc[u].cluster) /\ fat'[loc[u].cluster] = EOC
        <5>1. loc[u].cluster \in Clusters
          BY <1>1, <4>1 DEF Calm, Typed, CallFits, Fits
        <5>2. filp[u] # f
          BY <1>1, <2>2, <3>2, <5>1 DEF Calm, Alone
        <5> QED
          BY <1>1, <3>1, <3>2, <4>1, <5>1, <5>2 DEF TaskLinked, Ends
      <4> QED
        BY <4>1
    <3> QED
      BY <3>1, <3>2, <3>3 DEF TaskLinked, Allocating
  <2> QED
    BY <2>1, <2>2
<1>11. Unique(k)
  <2> SUFFICES ASSUME NEW x \in Clusters, NEW y \in Clusters, k.of[x] \in Files,
                      k.of[x] = k.of[y], k.rank[x] = k.rank[y]
               PROVE  x = y
    BY DEF Unique
  <2>1. \A z \in Clusters \ {c} : k.of[z] = f => m.rank[z] <= m.len[f]
    <3> SUFFICES ASSUME NEW z \in Clusters \ {c}, k.of[z] = f PROVE m.rank[z] <= m.len[f]
      OBVIOUS
    <3>1. CellLinked(m, z) /\ m.of[z] = f
      BY <1>1, <1>2 DEF Linked
    <3> QED
      BY <1>3, <1>4, <3>1 DEF CellLinked
  <2>2. \A z \in Clusters \ {c} : k.of[z] = f => k.rank[z] # k.rank[c]
    BY <1>2, <1>3, <1>4, <2>1
  <2>3. CASE x = c \/ y = c
    BY <1>2, <2>2, <2>3
  <2>4. CASE x # c /\ y # c
    BY <1>1, <1>2, <2>4 DEF Linked, Unique
  <2> QED
    BY <2>3, <2>4
<1> QED
  BY <1>8, <1>9, <1>10, <1>11 DEF Linked, Unique

LEMMA SizedLonger ==
  ASSUME NEW t \in Users, NEW m, NEW k, NEW f \in Files, NEW c \in Clusters, Adds(t, m, k, f, c),
         Sized(m), Placed(k, t)', position' = position, inode'[t].size = inode[t].size,
         \A g \in Files : dir'[g].size <= ClusterSize * m.len[g]
  PROVE  Sized(k)'
<1>1. /\ Calm(t, m) /\ f = filp[t] /\ Lengthens(m, k, f, c) /\ filp' = filp /\ OthersKept(t)
      /\ m \in Maps /\ Types
  BY DEF Adds, Calm, FatMoved, Typed
<1>2. ASSUME NEW g \in Files
      PROVE  ClusterSize * m.len[g] <= ClusterSize * k.len[g]
  <2>1. m.len[g] \in Nat /\ m.len[g] <= k.len[g] /\ k.len[g] \in Nat
    BY <1>1 DEF Lengthens, Maps
  <2> QED
    BY <2>1, FatTimes
<1>3. ASSUME NEW g \in Files, NEW p \in Nat, p <= ClusterSize * m.len[g]
      PROVE  p <= ClusterSize * k.len[g]
  <2> DEFINE a == ClusterSize * m.len[g]
             b == ClusterSize * k.len[g]
  <2>1. a \in Int /\ b \in Int /\ a <= b /\ p <= a
    <3>1. m.len[g] \in Int /\ k.len[g] \in Int
      BY <1>1 DEF Lengthens, Maps
    <3> QED
      BY <1>2, <1>3, <3>1, FatTimes
  <2> HIDE DEF a, b
  <2>2. p <= b
    BY <2>1
  <2> QED
    BY <2>2 DEF b
<1>4. ASSUME NEW g \in Files PROVE dir'[g].size <= ClusterSize * k.len[g]
  <2>1. dir'[g].size \in Nat
    BY <1>1, FatConstants DEF Calm, FatMoved, Typed, Types, Dirs, Inodes
  <2> QED
    BY <1>3, <2>1
<1>5. ASSUME NEW u \in Users PROVE TaskSized(k, u)'
  <2>1. /\ filp'[u] = filp[u] /\ inode'[u].size = inode[u].size /\ position'[u] = position[u]
        /\ inode[u].size \in Nat /\ position[u] \in Nat /\ TaskSized(m, u)
    <3>1. inode[u].size \in Nat /\ position[u] \in Nat
      BY <1>1, FatConstants DEF Types, Inodes
    <3> QED
      BY <1>1, <3>1 DEF OthersKept, Sized
  <2>2. filp'[u] \in Files => /\ inode'[u].size <= ClusterSize * k.len[filp'[u]]
                              /\ position'[u] <= ClusterSize * k.len[filp'[u]]
    BY <1>3, <2>1 DEF TaskSized
  <2>3. CASE u = t
    BY <2>2, <2>3 DEF TaskSized
  <2>4. CASE u # t
    <3>1. fat_pc'[u] = fat_pc[u] /\ loc'[u] = loc[u]
      BY <1>1, <2>4 DEF OthersKept
    <3>2. ASSUME fat_pc[u] # "run" PROVE Placed(k, u)'
      <4>1. Placed(m, u)
        BY <2>1, <3>2 DEF TaskSized
      <4>2. u \in Users \ {t} /\ Adds(t, m, k, f, c)
        BY <2>4
      <4>3. fat_pc[u] \notin Allocating
        BY <4>2, OthersLonger
      <4>4. ASSUME loc[u].cluster \in Clusters
            PROVE  Before(k, loc[u].cluster) = Before(m, loc[u].cluster)
        <5>1. TaskLinked(m, u) /\ CallFits(u) /\ fat_pc[u] # "inode"
          BY <1>1, <3>2, <4>3 DEF Calm, Linked, Typed, Allocating
        <5>2. m.of[loc[u].cluster] \in Files
          BY <3>2, <4>4, <5>1 DEF TaskLinked, CallFits, Fits
        <5>3. k.rank[loc[u].cluster] = m.rank[loc[u].cluster]
          BY <1>1, <4>4, <5>2, FatConstants DEF Lengthens
        <5> QED
          BY <5>3 DEF Before
      <4>5. Placed(k, u)
        BY <4>1, <4>3, <4>4 DEF Placed, Allocating
      <4> QED
        BY <2>1, <3>1, <4>5 DEF Placed, Before
    <3> QED
      BY <2>2, <3>1, <3>2 DEF TaskSized
  <2> QED
    BY <2>3, <2>4
<1> QED
  BY <1>4, <1>5 DEF Sized

LEMMA FilledLonger ==
  ASSUME NEW t \in Users, NEW m, NEW k, NEW f \in Files, NEW c \in Clusters, Adds(t, m, k, f, c),
         Filled(m), TaskFilled(t)', \A x : ~Fresh(t, x)
  PROVE  Filled(k)'
<1>1. /\ Calm(t, m) /\ Lengthens(m, k, f, c) /\ OthersKept(t)
      /\ data' = data /\ garbled' = garbled /\ Enters(t, c)'
  BY DEF Adds, Calm, FatMoved
<1>2. ASSUME NEW x \in Clusters, k.of[x] \in Files
      PROVE  data'[x] = RightBytes(k, x) \/ \E u \in Users : Fresh(u, x)'
  <2>1. CASE x = c
    BY <1>1, <2>1 DEF Fresh
  <2>2. CASE x # c
    <3>1. m.of[x] = k.of[x] /\ m.rank[x] = k.rank[x]
      BY <1>1, <2>2 DEF Lengthens
    <3>2. RightBytes(k, x) = RightBytes(m, x)
      BY <3>1 DEF RightBytes, Before
    <3>3. data[x] = RightBytes(m, x) \/ \E u \in Users : Fresh(u, x)
      BY <1>2, <3>1 DEF Filled
    <3>4. ASSUME NEW u \in Users, Fresh(u, x) PROVE Fresh(u, x)'
      <4>1. u # t
        BY <3>4
      <4> QED
        BY <1>1, <3>4, <4>1 DEF Fresh, Enters, OthersKept
    <3> QED
      BY <1>1, <3>2, <3>3, <3>4
  <2> QED
    BY <2>1, <2>2
<1>3. ASSUME NEW u \in Users \ {t} PROVE TaskFilled(u)'
  BY <1>1 DEF Filled, TaskFilled, OthersKept
<1>4. ~garbled'
  BY <1>1 DEF Filled
<1> QED
  BY <1>2, <1>3, <1>4 DEF Filled, RightBytes, Before

\* A task links a free cluster behind the last one of its file.
LEMMA LinkContinued ==
  ASSUME NEW t \in Users, NEW m, Calm(t, m), WriteFAT(t), fat_pc[t] = "link"
  PROVE  \E k : Continued(m, k)
<1>1. /\ Alone /\ Linked(m) /\ Types /\ m \in Maps /\ loc[t] \in Locals /\ CallFits(t)
      /\ OthersKept(t) /\ TaskLinked(m, t) /\ fat \in FATs
  BY DEF Calm, FatMoved, Typed, Types, Linked
<1>2. PICK f \in Files, c \in Clusters, d \in Clusters :
        f = filp[t] /\ c = loc[t].next_cluster /\ d = loc[t].cluster
  BY <1>1 DEF CallFits, Fits, Allocating
<1>3. m.of[c] = NoFile /\ Ends(m, f, d) /\ fat[d] = EOC
  BY <1>1, <1>2 DEF TaskLinked
<1>4. PICK k : Lengthens(m, k, f, c)
  BY <1>1, <1>3, LongerLengthens
<1>5. /\ dir' = dir /\ data' = data /\ filp' = filp /\ position' = position
      /\ inode' = inode /\ garbled' = garbled /\ fat_pc' = [fat_pc EXCEPT ![t] = "end"]
      /\ fat' = [fat EXCEPT ![d] = c] /\ loc' = [loc EXCEPT ![t] = [@ EXCEPT !.buf = Empty]]
  <2>1. loc[t].buf = fat /\ Change(t) = <<d, c>>
    BY <1>2 DEF WriteFAT, Calm, SectorsGood, InFAT, Change
  <2>2. fat' = [fat EXCEPT ![d] = c]
    BY <2>1 DEF WriteFAT
  <2>3. fat_pc' = [fat_pc EXCEPT ![t] = "end"]
    BY DEF WriteFAT
  <2>4. loc' = [loc EXCEPT ![t] = [@ EXCEPT !.buf = Empty]]
    BY DEF WriteFAT
  <2> QED
    BY <2>2, <2>3, <2>4 DEF WriteFAT, openVars
<1>6. /\ fat_pc'[t] = "end" /\ loc'[t].next_cluster = c /\ loc'[t].cluster = d
      /\ loc'[t].offset = loc[t].offset /\ filp'[t] = f
  BY <1>1, <1>2, <1>5 DEF Types, Locals
<1>7. Adds(t, m, k, f, c)
  <2>1. Enters(t, c)'
    BY <1>6 DEF Enters
  <2>2. fat' \in FATs
    BY <1>1, <1>5 DEF FATs, Links
  <2>3. ASSUME NEW x \in Clusters PROVE fat'[x] = IF Ends(m, f, x) THEN c ELSE fat[x]
    <3>1. Ends(m, f, x) => x = d
      BY <1>1, <1>3 DEF Ends, Linked, Unique
    <3>2. fat'[x] = IF x = d THEN c ELSE fat[x]
      BY <1>1, <1>5 DEF FATs
    <3> QED
      BY <1>3, <3>1, <3>2
  <2> QED
    BY <1>2, <1>4, <1>5, <2>1, <2>2, <2>3 DEF Adds, Allocating
<1>8. /\ m.rank[d] = m.len[f] /\ m.rank[d] \in 1..m.len[f] /\ m.len[f] \in Nat /\ d # c
      /\ k.of[c] = f /\ k.rank[c] = m.len[f] + 1 /\ k.len[f] = m.len[f] + 1
      /\ k.of[d] = f /\ k.rank[d] = m.rank[d] /\ k \in Maps
  <2>1. CellLinked(m, d) /\ m.of[d] = f /\ m.rank[d] = m.len[f] /\ m.len[f] \in Nat
    BY <1>1, <1>3 DEF Linked, Ends, Maps
  <2>2. d # c
    BY <1>3, <2>1, FatConstants
  <2> QED
    BY <1>4, <2>1, <2>2 DEF Lengthens, CellLinked
<1>9. fat'[c] = 0
  <2>1. CellLinked(m, c) /\ ~Ends(m, f, c)
    BY <1>1, <1>3, FatConstants DEF Linked, Ends
  <2> QED
    BY <1>3, <1>7, <2>1, FatConstants DEF CellLinked, Adds
<1>10. Alone'
  <2>1. TaskAlone(t)' /\ ~InDirectory(t)'
    BY <1>1, <1>5, <1>6 DEF Alone, TaskAlone, InDirectory, InDir
  <2> QED
    BY <1>1, <1>5, <2>1, AloneStep
<1>11. Linked(k)'
  <2>1. FileLinked(k, f)'
    <3>1. FileLinked(m, f)
      BY <1>1 DEF Linked
    <3>2. m.len[f] # 0 /\ m.len[f] + 1 # 0
      BY <1>8
    <3>3. ASSUME dir[f].first \in Clusters
          PROVE  k.of[dir[f].first] = f /\ k.rank[dir[f].first] = 1
      BY <1>3, <1>4, <3>1, <3>3, FatConstants DEF FileLinked, Lengthens
    <3> QED
      BY <1>5, <1>8, <3>1, <3>2, <3>3 DEF FileLinked
  <2>2. TaskLinked(k, t)'
    BY <1>6, <1>8, <1>9 DEF TaskLinked, Ends
  <2> QED
    BY <1>5, <1>7, <2>1, <2>2, LinkedLonger
<1>12. ASSUME Sized(m) PROVE Sized(k)'
  <2>1. loc[t].offset = 0 /\ position[t] = Before(m, d) + ClusterSize
    BY <1>2, <1>12 DEF Sized, TaskSized, Placed
  <2>2. Before(k, c) = Before(m, d) + ClusterSize
    <3>1. k.rank[c] = k.rank[d] + 1 /\ Before(k, d) = Before(m, d)
      BY <1>8 DEF Before
    <3> QED
      BY <1>8, <3>1, BeforeNext
  <2>3. Placed(k, t)'
    BY <1>5, <1>6, <2>1, <2>2 DEF Placed, Before
  <2>4. \A g \in Files : dir'[g].size <= ClusterSize * m.len[g]
    BY <1>5, <1>12 DEF Sized
  <2> QED
    BY <1>5, <1>7, <1>12, <2>3, <2>4, SizedLonger
<1>13. ASSUME Filled(m) PROVE Filled(k)'
  <2>1. TaskFilled(t)' /\ \A x : ~Fresh(t, x)
    BY <1>6 DEF TaskFilled, Fresh, Enters
  <2> QED
    BY <1>7, <1>13, <2>1, FilledLonger
<1> QED
  BY <1>8, <1>10, <1>11, <1>12, <1>13 DEF Continued

\* A task writes the directory, in which nobody else is.
LEMMA WriteDirAlone ==
  ASSUME NEW t \in Users, NEW m, Calm(t, m), WriteDir(t)
  PROVE  /\ Alone' /\ filp[t] \in Files
         /\ dir' = [dir EXCEPT ![filp[t]] = inode[t]]
<1>1. /\ Alone /\ Types /\ CallFits(t) /\ OthersKept(t) /\ loc[t] \in Locals /\ dir \in Dirs
  BY DEF Calm, FatMoved, Typed, Types
<1>2. /\ filp' = filp /\ inode' = inode /\ fat_pc[t] \in {"inode", "size"} /\ loc[t].buf # Empty
      /\ dir' = [loc[t].buf EXCEPT ![filp[t]] = inode[t]] /\ filp[t] \in Files
  BY <1>1 DEF WriteDir, openVars, CallFits, Fits
<1>3. loc[t].buf = dir
  BY <1>1, <1>2 DEF Alone, TaskAlone, InDir
<1>4. dir' = [dir EXCEPT ![filp[t]] = inode[t]]
  BY <1>2, <1>3
<1>5. dir'[filp[t]] = inode[t] /\ \A f \in Files \ {filp[t]} : dir'[f] = dir[f]
  BY <1>1, <1>2, <1>4 DEF Dirs
<1>6. fat_pc'[t] \in {"mark", "run"}
  BY <1>1 DEF WriteDir, FatGoto, Return, Types
<1>7. TaskAlone(t)' /\ ~InDirectory(t)'
  BY <1>2, <1>5, <1>6 DEF TaskAlone, InDirectory, InDir
<1>8. ASSUME NEW u \in Users \ {t} PROVE TaskAlone(u)' /\ ~InDirectory(u)'
  <2>1. ~InDirectory(u)
    BY <1>1, <1>2 DEF Alone, InDirectory, InDir
  <2>2. filp[u] \in Files => dir'[filp[u]] = dir[filp[u]]
    BY <1>1, <1>2, <1>5 DEF Alone
  <2>3. /\ fat_pc'[u] = fat_pc[u] /\ loc'[u] = loc[u] /\ filp'[u] = filp[u] /\ inode'[u] = inode[u]
    BY <1>1 DEF OthersKept
  <2>4. TaskAlone(u)
    BY <1>1 DEF Alone
  <2> QED
    BY <2>1, <2>2, <2>3, <2>4 DEF TaskAlone, InDirectory
<1> QED
  BY <1>1, <1>2, <1>4, <1>7, <1>8 DEF Alone

LEMMA SizeKept ==
  ASSUME NEW t \in Users, NEW m, Calm(t, m), WriteDir(t), fat_pc[t] = "size"
  PROVE  Kept(m)
<1>1. /\ Alone /\ Linked(m) /\ Types /\ OthersKept(t) /\ dir \in Dirs /\ inode[t] \in Inodes
  BY DEF Calm, FatMoved, Typed, Types
<1>2. /\ fat' = fat /\ data' = data /\ filp' = filp /\ position' = position /\ inode' = inode
      /\ garbled' = garbled /\ Return(t)
  BY DEF WriteDir, openVars
<1>3. Alone' /\ filp[t] \in Files /\ dir' = [dir EXCEPT ![filp[t]] = inode[t]]
  BY WriteDirAlone
<1>4. fat_pc'[t] = "run"
  BY <1>1, <1>2 DEF Return, Types
<1>5. \A f \in Files : dir'[f].first = dir[f].first
  <2>1. dir[filp[t]].first = inode[t].first
    BY <1>1, <1>3 DEF Alone, TaskAlone
  <2> QED
    BY <1>1, <1>3, <2>1 DEF Dirs
<1>6. Linked(m)'
  <2>1. \A c : ~Enters(t, c)
    BY DEF Enters
  <2> QED
    BY <1>1, <1>2, <1>4, <1>5, <2>1, LinkedStep
<1>7. ASSUME Sized(m) PROVE Sized(m)'
  <2>1. TaskSized(m, t)'
    BY <1>2, <1>4, <1>7 DEF Sized, TaskSized
  <2>2. \A f \in Files : dir'[f].size <= ClusterSize * m.len[f]
    <3>1. inode[t].size <= ClusterSize * m.len[filp[t]]
      BY <1>3, <1>7 DEF Sized, TaskSized
    <3> QED
      BY <1>1, <1>3, <1>7, <3>1 DEF Dirs, Sized
  <2> QED
    BY <1>1, <1>7, <2>1, <2>2, SizedStep
<1>8. ASSUME Filled(m) PROVE Filled(m)'
  <2>1. TaskFilled(t)' /\ (\A c : ~Fresh(t, c)) /\ (~garbled => ~garbled')
    BY <1>2, <1>4 DEF TaskFilled, Fresh, Enters
  <2> QED
    BY <1>1, <1>2, <1>8, <2>1, FilledStep
<1> QED
  BY <1>3, <1>6, <1>7, <1>8 DEF Kept

\* A task enters its file's first cluster into the directory.
LEMMA InodeContinued ==
  ASSUME NEW t \in Users, NEW m, Calm(t, m), WriteDir(t), fat_pc[t] = "inode"
  PROVE  \E k : Continued(m, k)
<1>1. /\ Alone /\ Linked(m) /\ Types /\ m \in Maps /\ loc[t] \in Locals /\ CallFits(t)
      /\ OthersKept(t) /\ TaskLinked(m, t) /\ fat \in FATs /\ dir \in Dirs /\ inode[t] \in Inodes
  BY DEF Calm, FatMoved, Typed, Types, Linked
<1>2. /\ Alone' /\ filp[t] \in Files /\ dir' = [dir EXCEPT ![filp[t]] = inode[t]]
  BY WriteDirAlone
<1>3. PICK f \in Files, c \in Clusters :
        f = filp[t] /\ c = loc[t].cluster /\ inode[t].first = c
  BY <1>1, <1>2 DEF CallFits, Fits, Allocating
<1>4. m.of[c] = NoFile /\ m.len[f] = 0
  BY <1>1, <1>3 DEF TaskLinked
<1>5. PICK k : Lengthens(m, k, f, c)
  BY <1>1, <1>4, LongerLengthens
<1>6. /\ fat' = fat /\ data' = data /\ filp' = filp /\ position' = position
      /\ inode' = inode /\ garbled' = garbled /\ fat_pc' = [fat_pc EXCEPT ![t] = "mark"]
      /\ loc' = [loc EXCEPT ![t] = [@ EXCEPT !.buf = Empty]]
  BY DEF WriteDir, FatGoto, openVars
<1>7. /\ fat_pc'[t] = "mark" /\ loc'[t].cluster = c /\ loc'[t].flags = loc[t].flags
      /\ loc'[t].offset = loc[t].offset /\ filp'[t] = f
  BY <1>1, <1>3, <1>6 DEF Types, Locals
<1>8. dir'[f] = inode[t] /\ \A g \in Files \ {f} : dir'[g] = dir[g]
  BY <1>1, <1>2, <1>3 DEF Dirs
<1>9. Adds(t, m, k, f, c)
  <2>1. Enters(t, c)'
    BY <1>7 DEF Enters
  <2>2. ASSUME NEW x \in Clusters PROVE ~Ends(m, f, x)
    <3>1. CellLinked(m, x)
      BY <1>1 DEF Linked
    <3> QED
      BY <1>4, <3>1 DEF CellLinked, Ends
  <2> QED
    BY <1>1, <1>3, <1>5, <1>6, <2>1, <2>2 DEF Adds, Allocating
<1>10. k.of[c] = f /\ k.rank[c] = 1 /\ k.len[f] = 1 /\ k \in Maps
  BY <1>4, <1>5 DEF Lengthens
<1>11. fat[c] = 0
  <2>1. CellLinked(m, c)
    BY <1>1 DEF Linked
  <2> QED
    BY <1>4, <2>1, FatConstants DEF CellLinked
<1>12. Linked(k)'
  <2>1. FileLinked(k, f)'
    BY <1>3, <1>8, <1>10, FatConstants DEF FileLinked
  <2>2. TaskLinked(k, t)'
    BY <1>6, <1>7, <1>10, <1>11 DEF TaskLinked, Ends
  <2> QED
    BY <1>8, <1>9, <2>1, <2>2, LinkedLonger
<1>13. ASSUME Sized(m) PROVE Sized(k)'
  <2>1. loc[t].offset = 0 /\ position[t] = 0 /\ inode[t].size <= ClusterSize * m.len[f]
    BY <1>3, <1>13 DEF Sized, TaskSized, Placed
  <2>2. Placed(k, t)'
    BY <1>6, <1>7, <2>1 DEF Placed
  <2>3. \A g \in Files : dir'[g].size <= ClusterSize * m.len[g]
    BY <1>8, <1>13, <2>1 DEF Sized
  <2> QED
    BY <1>6, <1>9, <1>13, <2>2, <2>3, SizedLonger
<1>14. ASSUME Filled(m) PROVE Filled(k)'
  <2>1. TaskFilled(t)' /\ \A x : ~Fresh(t, x)
    BY <1>7, <1>14 DEF Filled, TaskFilled, Fresh, Enters
  <2> QED
    BY <1>9, <1>14, <2>1, FilledLonger
<1> QED
  BY <1>2, <1>10, <1>12, <1>13, <1>14 DEF Continued

LEMMA KeptContinues ==
  ASSUME NEW m \in Maps, Kept(m)
  PROVE  Continued(m, m)
  BY DEF Kept, Continued

LEMMA WriteFATContinued ==
  ASSUME NEW t \in Users, NEW m, Calm(t, m), WriteFAT(t)
  PROVE  \E k : Continued(m, k)
<1>1. m \in Maps /\ CallFits(t) /\ fat_pc[t] \in {"mark", "link", "end"}
  BY DEF Calm, Typed, WriteFAT
<1>2. CASE fat_pc[t] = "link"
  BY <1>2, LinkContinued
<1>3. CASE fat_pc[t] # "link"
  <2>1. PICK c \in Clusters : Enters(t, c)
    BY <1>1, <1>3 DEF CallFits, Fits, Allocating, Enters
  <2> QED
    BY <1>1, <2>1, EnterKept, KeptContinues
<1> QED
  BY <1>2, <1>3

LEMMA WriteDirContinued ==
  ASSUME NEW t \in Users, NEW m, Calm(t, m), WriteDir(t)
  PROVE  \E k : Continued(m, k)
<1>1. m \in Maps /\ fat_pc[t] \in {"inode", "size"}
  BY DEF Calm, WriteDir
<1>2. CASE fat_pc[t] = "inode"
  BY <1>2, InodeContinued
<1>3. CASE fat_pc[t] = "size"
  BY <1>1, <1>3, SizeKept, KeptContinues
<1> QED
  BY <1>1, <1>2, <1>3

LEMMA StepContinues ==
  ASSUME NEW t \in Users, NEW m, Calm(t, m), SysCall(t) \/ FatTransfer(t)
  PROVE  \E k : Continued(m, k)
<1>1. m \in Maps
  BY DEF Calm
<1>2. CASE SysCall(t)
  <2>1. Kept(m)
    BY <1>2, OpenKept, CloseKept, LseekKept, WriteKept, ReadKept DEF SysCall
  <2> QED
    BY <1>1, <2>1, KeptContinues
<1>3. CASE Walk(t, "walk", "load") \/ Walk(t, "walk_read", "fetch")
  <2>1. CASE Walk(t, "walk", "load")
    <3>1. Kept(m)
      BY <2>1, WalkKept
    <3> QED
      BY <1>1, <3>1, KeptContinues
  <2>2. CASE Walk(t, "walk_read", "fetch")
    <3>1. Kept(m)
      BY <2>2, WalkKept
    <3> QED
      BY <1>1, <3>1, KeptContinues
  <2> QED
    BY <1>3, <2>1, <2>2
<1>4. CASE FindFirst(t) \/ FindNext(t) \/ ReadFAT(t) \/ ReadDir(t)
  <2>1. Kept(m)
    BY <1>4, FindFirstKept, FindNextKept, ReadFATKept, ReadDirKept
  <2> QED
    BY <1>1, <2>1, KeptContinues
<1>5. CASE WriteFAT(t) \/ WriteDir(t)
  BY <1>5, WriteFATContinued, WriteDirContinued
<1>6. CASE Load(t) \/ Store(t) \/ NextCluster(t)
  <2>1. Kept(m)
    BY <1>6, LoadKept, StoreKept, NextClusterKept
  <2> QED
    BY <1>1, <2>1, KeptContinues
<1>7. CASE Fetch(t) \/ Follow(t)
  <2>1. Kept(m)
    BY <1>7, FetchKept, FollowKept
  <2> QED
    BY <1>1, <2>1, KeptContinues
<1> QED
  BY <1>2, <1>3, <1>4, <1>5, <1>6, <1>7 DEF FatTransfer

LEMMA OrderStays ==
  ASSUME Alone, NEW m \in Maps, InOrder(m), UNCHANGED fat_vars
  PROVE  Alone' /\ InOrder(m)'
<1>1. /\ fat' = fat /\ dir' = dir /\ data' = data /\ filp' = filp /\ position' = position
      /\ inode' = inode /\ garbled' = garbled /\ fat_pc' = fat_pc /\ loc' = loc /\ fat_hit' = fat_hit
  BY DEF fat_vars, openVars
<1>2. Alone'
  BY <1>1 DEF Alone, TaskAlone, InDirectory
<1>3. Linked(m) => Linked(m)'
  BY <1>1 DEF Linked, CellLinked, FileLinked, TaskLinked, Enters, Unique, Ends
<1>4. Sized(m) => Sized(m)'
  BY <1>1 DEF Sized, TaskSized, Placed, Before
<1>5. Filled(m) => Filled(m)'
  BY <1>1 DEF Filled, RightBytes, Before, Fresh, Enters, TaskFilled
<1> QED
  BY <1>1, <1>2, <1>3, <1>4, <1>5 DEF InOrder

LEMMA NextOrder ==
  Typed /\ Ownership /\ Order /\ [FatNext]_fat_vars => Order'
<1> SUFFICES ASSUME Typed, Ownership, Order, [FatNext]_fat_vars, ~Clash'
             PROVE  Alone' /\ \E m \in Maps : InOrder(m)'
  BY DEF Order
<1>1. CASE UNCHANGED fat_vars
  <2>1. Alone /\ \E m \in Maps : InOrder(m)
    BY <1>1 DEF Order, Clash, fat_vars
  <2> QED
    BY <1>1, <2>1, OrderStays
<1>2. ASSUME NEW t \in Users, SysCall(t) \/ FatTransfer(t)
      PROVE  Alone' /\ \E m \in Maps : InOrder(m)'
  <2>1. FatMoved(t)
    BY <1>2, NextMoves
  <2>2. fat_hit \subseteq fat_hit' /\ fat_hit' \cap Races = {} /\ fat_hit \cap Races = {}
    BY <2>1 DEF FatMoved, Clash
  <2>3. PICK m \in Maps : Alone /\ InOrder(m)
    BY <2>2 DEF Order, Clash
  <2>4. OneAllocates /\ SectorsGood
    <3>1. "fat_race" \notin fat_hit
      BY <2>2 DEF Races
    <3> QED
      BY <3>1 DEF Ownership, Owns, TaskOwns, SectorsGood
  <2>5. Calm(t, m)
    BY <2>1, <2>2, <2>3, <2>4 DEF Calm, InOrder
  <2>6. PICK k : Continued(m, k)
    BY <1>2, <2>5, StepContinues
  <2>7. k \in Maps /\ Alone' /\ Linked(k)'
    BY <2>6 DEF Continued
  <2>8. ASSUME fat_hit' \cap {"boundary", "crossing"} = {} PROVE Sized(k)'
    BY <2>2, <2>3, <2>6, <2>8 DEF Continued, InOrder
  <2>9. ASSUME fat_hit' \subseteq {"full"} PROVE Filled(k)'
    <3>1. fat_hit \subseteq {"full"} /\ fat_hit \cap {"boundary", "crossing"} = {}
      BY <2>2, <2>9
    <3> QED
      BY <2>3, <2>6, <2>9, <3>1 DEF Continued, InOrder
  <2> QED
    BY <2>7, <2>8, <2>9 DEF InOrder
<1> QED
  BY <1>1, <1>2 DEF FatNext, Bounded

LEMMA InitOrder ==
  FatInit => Order
<1> SUFFICES ASSUME FatInit PROVE Alone /\ \E m \in Maps : InOrder(m)
  BY DEF Order
<1>1. PICK sizes \in [Files -> 0..InitSize], first \in [Files -> Clusters] : Formatted(sizes, first)
  BY DEF FatInit
<1> DEFINE pile(f) == Piled(sizes, first, f)
           own == [c \in Clusters |-> IF \E f \in Files : c \in pile(f)
                                     THEN CHOOSE f \in Files : c \in pile(f) ELSE NoFile]
           rank == [c \in Clusters |-> IF own[c] \in Files THEN c - first[own[c]] + 1 ELSE 0]
           len == [f \in Files |-> Needed(sizes[f])]
           map == [of |-> own, rank |-> rank, len |-> len]
<1>2. /\ \A f \in Files : pile(f) \subseteq Clusters
      /\ \A f, g \in Files : f # g => pile(f) \cap pile(g) = {}
      /\ fat \in FATs
      /\ \A f \in Files : /\ dir[f].size = sizes[f]
                         /\ dir[f].first = IF sizes[f] = 0 THEN 0 ELSE first[f]
      /\ \A f \in Files : \A c \in pile(f) :
           /\ fat[c] = IF c + 1 \in pile(f) THEN c + 1 ELSE EOC
           /\ data[c] = [o \in Offsets |-> <<f, (c - first[f]) * ClusterSize + o>>]
      /\ \A c \in Clusters : (\A f \in Files : c \notin pile(f)) =>
           fat[c] = 0 /\ data[c] = Blank
  BY <1>1, FormattedFacts, SMTT(30)
<1>3. own \in Owners
  BY DEF Owners
<1>4. \A f \in Files : \A c \in pile(f) : own[c] = f
  <2> SUFFICES ASSUME NEW f \in Files, NEW c \in pile(f)
               PROVE  own[c] = f
    OBVIOUS
  <2>1. \A g \in Files : c \in pile(g) => g = f
    BY <1>2
  <2> HIDE DEF pile
  <2> QED
    BY <1>2, <2>1
<1>5. \A c \in Clusters : own[c] \in Files => c \in pile(own[c])
  BY FatConstants
<1> HIDE DEF own
<1>6. ASSUME NEW f \in Files
      PROVE  sizes[f] \in 0..MaxSize /\ first[f] \in Clusters /\ first[f] \in Nat
  <2>1. sizes[f] \in 0..MaxSize
    BY FatConstants
  <2>2. first[f] \in Clusters
    OBVIOUS
  <2> QED
    BY <2>1, <2>2, FatConstants
<1>7. \A f \in Files : /\ Needed(sizes[f]) \in Nat /\ sizes[f] <= ClusterSize * Needed(sizes[f])
                       /\ Needed(sizes[f]) = 0 <=> sizes[f] = 0
  BY <1>6, NeededFits
<1>8. \A f \in Files : \A c : c \in pile(f) <=>
        c \in Int /\ c >= first[f] /\ c - first[f] + 1 <= Needed(sizes[f])
  BY <1>6, <1>7 DEF Piled
<1> HIDE DEF pile
<1>9. /\ \A c \in Clusters : own[c] \in Files => rank[c] = c - first[own[c]] + 1
      /\ \A c \in Clusters : own[c] \notin Files => rank[c] = 0
      /\ \A f \in Files : len[f] = Needed(sizes[f])
  OBVIOUS
<1>10. \A c \in Clusters : own[c] \in Files => rank[c] \in 1..len[own[c]]
  <2> SUFFICES ASSUME NEW c \in Clusters, own[c] \in Files PROVE rank[c] \in 1..len[own[c]]
    OBVIOUS
  <2> DEFINE f == own[c]
  <2>1. f \in Files /\ c \in pile(f) /\ rank[c] = c - first[f] + 1 /\ len[f] = Needed(sizes[f])
    BY <1>5, <1>9
  <2> HIDE DEF f, rank, len
  <2>2. rank[c] \in 1..len[f]
    BY <1>6, <1>7, <1>8, <2>1
  <2> QED
    BY <2>2 DEF f
<1>11. rank \in [Clusters -> Nat] /\ len \in [Files -> Nat]
  <2>1. \A c \in Clusters : rank[c] \in Nat
    <3>1. \A f \in Files : len[f] \in Nat
      BY <1>7
    <3> HIDE DEF rank, len
    <3> QED
      BY <1>9, <1>10, <3>1
  <2>2. rank = [c \in Clusters |-> rank[c]]
    OBVIOUS
  <2> QED
    BY <1>7, <2>1, <2>2
<1> HIDE DEF rank, len
<1>12. PICK m \in Maps : m.of = own /\ m.rank = rank /\ m.len = len
  <2>1. map \in Maps /\ map.of = own /\ map.rank = rank /\ map.len = len
    BY <1>3, <1>11 DEF Maps
  <2> QED
    BY <2>1
<1>13. \A t \in Users : fat_pc[t] = "run" /\ filp[t] = NoFile
  BY DEF FatInit
<1>14. Alone
  BY <1>13, FatConstants DEF Alone, TaskAlone, InDirectory, InDir
<1>15. ASSUME NEW c \in Clusters PROVE CellLinked(m, c)
  <2>1. CASE own[c] \in Files
    <3> DEFINE f == own[c]
    <3>1. /\ f \in Files /\ c \in pile(f) /\ m.rank[c] = c - first[f] + 1
          /\ m.len[f] = Needed(sizes[f]) /\ m.of[c] = f /\ m.rank[c] \in 1..m.len[f]
      BY <1>5, <1>9, <1>10, <1>12, <2>1
    <3> HIDE DEF f
    <3>2. fat[c] = IF c + 1 \in pile(f) THEN c + 1 ELSE EOC
      BY <1>2, <3>1
    <3>3. c + 1 \in pile(f) <=> m.rank[c] < m.len[f]
      BY <1>6, <1>7, <1>8, <3>1
    <3>4. ASSUME c + 1 \in pile(f)
          PROVE  /\ c + 1 \in Clusters /\ m.of[c + 1] = f /\ m.rank[c + 1] = m.rank[c] + 1
      <4>1. c + 1 \in Clusters /\ own[c + 1] = f
        BY <1>2, <1>4, <3>1, <3>4
      <4>2. rank[c + 1] = (c + 1) - first[f] + 1
        BY <1>9, <3>1, <4>1
      <4> QED
        BY <1>6, <1>8, <1>12, <3>1, <4>1, <4>2
    <3> QED
      BY <3>1, <3>2, <3>3, <3>4 DEF CellLinked
  <2>2. CASE own[c] \notin Files
    <3>1. fat[c] = 0
      BY <1>2, <1>4, <2>2
    <3> QED
      BY <1>12, <2>2, <3>1 DEF CellLinked
  <2> QED
    BY <2>1, <2>2
<1>16. ASSUME NEW f \in Files PROVE FileLinked(m, f)
  <2>1. m.len[f] = Needed(sizes[f]) /\ dir[f].first = IF sizes[f] = 0 THEN 0 ELSE first[f]
    BY <1>2, <1>9, <1>12
  <2>2. ASSUME sizes[f] # 0 PROVE m.of[first[f]] = f /\ m.rank[first[f]] = 1
    <3>1. first[f] \in pile(f)
      BY <1>6, <1>7, <1>8, <2>2
    <3>2. own[first[f]] = f /\ rank[first[f]] = first[f] - first[f] + 1
      BY <1>4, <1>6, <1>9, <3>1
    <3> QED
      BY <1>6, <1>12, <3>2
  <2> QED
    BY <1>6, <1>7, <2>1, <2>2, FatConstants DEF FileLinked
<1>17. Unique(m)
  <2> SUFFICES ASSUME NEW c \in Clusters, NEW d \in Clusters, own[c] \in Files,
                      own[c] = own[d], rank[c] = rank[d]
               PROVE  c = d
    BY <1>12 DEF Unique
  <2>1. rank[c] = c - first[own[c]] + 1 /\ rank[d] = d - first[own[c]] + 1
    BY <1>9
  <2>2. first[own[c]] \in Nat /\ c \in Nat /\ d \in Nat
    BY <1>6, FatConstants
  <2>3. c - first[own[c]] + 1 = d - first[own[c]] + 1
    BY <2>1
  <2> DEFINE k == first[own[c]]
  <2> HIDE DEF k
  <2> QED
    BY <2>2, <2>3 DEF k
<1>18. Linked(m)
  BY <1>13, <1>15, <1>16, <1>17 DEF Linked
<1>19. Sized(m)
  <2>1. \A f \in Files : dir[f].size <= ClusterSize * m.len[f]
    BY <1>2, <1>7, <1>9, <1>12
  <2> QED
    BY <1>13, <2>1, FatConstants DEF Sized, TaskSized
<1>20. Filled(m)
  <2>1. ASSUME NEW c \in Clusters, m.of[c] \in Files PROVE data[c] = RightBytes(m, c)
    <3> DEFINE f == own[c]
    <3>1. f \in Files /\ c \in pile(f) /\ m.rank[c] = c - first[f] + 1 /\ m.of[c] = f
      BY <1>5, <1>9, <1>12, <2>1
    <3> HIDE DEF f
    <3>2. data[c] = [o \in Offsets |-> <<f, (c - first[f]) * ClusterSize + o>>]
      BY <1>2, <3>1
    <3>3. Before(m, c) = (c - first[f]) * ClusterSize
      <4>1. c \in Nat /\ first[f] \in Nat /\ ClusterSize \in Nat
        BY <1>6, <3>1, FatConstants
      <4>2. m.rank[c] - 1 = c - first[f]
        BY <3>1, <4>1
      <4> DEFINE k == c - first[f]
      <4>3. k \in Int
        BY <4>1
      <4> HIDE DEF k
      <4>4. ClusterSize * k = k * ClusterSize
        BY <4>1, <4>3
      <4> QED
        BY <4>2, <4>4 DEF Before, k
    <3> QED
      BY <3>1, <3>2, <3>3 DEF RightBytes
  <2>2. ~garbled /\ \A t \in Users : TaskFilled(t)
    BY <1>13 DEF FatInit, TaskFilled
  <2> QED
    BY <2>1, <2>2 DEF Filled
<1> QED
  BY <1>14, <1>18, <1>19, <1>20 DEF InOrder

LEMMA ChainIsClosed ==
  ASSUME NEW f \in Files
  PROVE  /\ dir[f].first \in Clusters => dir[f].first \in Chain(f)
         /\ \A c \in Chain(f) : c \in Clusters /\ (fat[c] \in Clusters => fat[c] \in Chain(f))
  BY DEF Chain, FollowsLinks

\* A chain has a cluster at each place up to its length.
LEMMA ChainHasRanks ==
  ASSUME Typed, NEW m \in Maps, Linked(m), NEW f \in Files, NEW i \in 1..m.len[f]
  PROVE  \E c \in Chain(f) : m.of[c] = f /\ m.rank[c] = i
<1> DEFINE Found(k) == \E c \in Chain(f) : m.of[c] = f /\ m.rank[c] = k
           Missing == {k \in 1..m.len[f] : ~Found(k)}
<1>1. m.len[f] \in Nat /\ Missing \subseteq Nat
  BY DEF Maps
<1>2. ASSUME NEW k \in Missing, \A j \in Missing : ~(j < k) PROVE FALSE
  <2>1. k \in 1..m.len[f] /\ ~Found(k)
    OBVIOUS
  <2>2. CASE k = 1
    <3>1. FileLinked(m, f) /\ dir[f].first \in Clusters \cup {0} /\ m.len[f] # 0
      BY <1>1, <2>1 DEF Linked, Typed, Types, Dirs, Inodes
    <3>2. dir[f].first \in Clusters /\ m.of[dir[f].first] = f /\ m.rank[dir[f].first] = 1
      BY <3>1 DEF FileLinked
    <3> QED
      BY <2>1, <2>2, <3>2, ChainIsClosed
  <2>3. CASE k # 1
    <3>1. k - 1 \in 1..m.len[f] /\ k - 1 < k /\ k - 1 < m.len[f]
      BY <1>1, <2>1, <2>3
    <3>2. Found(k - 1)
      BY <1>2, <3>1
    <3>3. PICK c \in Chain(f) : m.of[c] = f /\ m.rank[c] = k - 1
      BY <3>2
    <3>4. c \in Clusters /\ CellLinked(m, c)
      BY <3>3, ChainIsClosed DEF Linked
    <3>5. fat[c] \in Clusters /\ m.of[fat[c]] = f /\ m.rank[fat[c]] = k - 1 + 1
      BY <3>1, <3>3, <3>4 DEF CellLinked
    <3>6. fat[c] \in Chain(f) /\ m.rank[fat[c]] = k
      BY <1>1, <2>1, <3>5, ChainIsClosed
    <3> QED
      BY <2>1, <3>5, <3>6
  <2> QED
    BY <2>2, <2>3
<1> HIDE DEF Missing
<1>3. Missing = {}
  <2> SUFFICES ASSUME Missing # {} PROVE FALSE
    OBVIOUS
  <2>1. PICK k \in Missing : \A j \in Missing : ~(<<j, k>> \in OpToRel(<, Nat))
    BY <1>1, NatLessThanWellFounded, WFMin, Zenon
  <2>2. \A j \in Missing : j \in Nat /\ k \in Nat /\ ~(j < k)
    BY <1>1, <2>1 DEF OpToRel
  <2> QED
    BY <1>2, <2>2
<1> QED
  BY <1>3 DEF Missing

\* The chain of a file is what m says is the file's.
LEMMA ChainIsWhole ==
  ASSUME Typed, NEW m \in Maps, Linked(m), NEW f \in Files
  PROVE  /\ \A c : c \in Chain(f) <=> c \in Clusters /\ m.of[c] = f
         /\ m.len[f] \in Nat /\ m.len[f] <= Cardinality(Chain(f)) /\ Cardinality(Chain(f)) \in Nat
<1> DEFINE S == {c \in Clusters : m.of[c] = f}
<1>1. FollowsLinks(f, S)
  <2>1. dir[f].first \in Clusters => dir[f].first \in S
    BY DEF Linked, FileLinked
  <2>2. ASSUME NEW c \in S PROVE fat[c] \in Clusters => fat[c] \in S
    <3>1. CellLinked(m, c) /\ m.of[c] \in Files /\ EOC \notin Clusters /\ 0 \notin Clusters
      BY FatConstants DEF Linked
    <3> QED
      BY <3>1 DEF CellLinked
  <2> QED
    BY <2>1, <2>2 DEF FollowsLinks
<1>2. Chain(f) \subseteq S
  <2>1. S \in SUBSET Clusters
    OBVIOUS
  <2> QED
    BY <1>1, <2>1, ChainIsLeast
<1>3. ASSUME NEW c \in Clusters, m.of[c] = f PROVE c \in Chain(f)
  <2>1. m.rank[c] \in 1..m.len[f]
    BY <1>3 DEF Linked, CellLinked
  <2>2. PICK d \in Chain(f) : m.of[d] = f /\ m.rank[d] = m.rank[c]
    BY <2>1, ChainHasRanks
  <2>3. d \in Clusters
    BY <2>2, ChainIsClosed
  <2>4. d = c
    BY <1>3, <2>2, <2>3 DEF Linked, Unique
  <2> QED
    BY <2>4
<1>4. m.len[f] \in Nat
  BY DEF Maps
<1>5. IsFiniteSet(Chain(f))
  <2>1. Chain(f) \in SUBSET Clusters /\ IsFiniteSet(Clusters)
    BY FatConstants DEF Chain
  <2> QED
    BY <2>1, FS_Subset
<1>6. m.len[f] <= Cardinality(Chain(f))
  <2> DEFINE at == [i \in 1..m.len[f] |-> CHOOSE c \in Chain(f) : m.of[c] = f /\ m.rank[c] = i]
  <2>1. ASSUME NEW i \in 1..m.len[f] PROVE at[i] \in Chain(f) /\ m.rank[at[i]] = i
    BY ChainHasRanks
  <2>2. at \in [1..m.len[f] -> Chain(f)]
    BY <2>1
  <2> HIDE DEF at
  <2>3. \A i, j \in 1..m.len[f] : at[i] = at[j] => i = j
    BY <2>1
  <2>4. at \in Injection(1..m.len[f], Chain(f))
    BY <2>2, <2>3 DEF Injection, IsInjective
  <2>5. Cardinality(1..m.len[f]) <= Cardinality(Chain(f))
    BY <1>5, <2>4, FS_Injection
  <2>6. Cardinality(1..m.len[f]) = m.len[f]
    <3>1. Cardinality(1..m.len[f]) = IF 1 > m.len[f] THEN 0 ELSE m.len[f] - 1 + 1
      BY <1>4, FS_Interval
    <3> QED
      BY <1>4, <3>1
  <2> QED
    BY <2>5, <2>6
<1>7. Cardinality(Chain(f)) \in Nat
  BY <1>5, FS_CardinalityType
<1> QED
  BY <1>2, <1>3, <1>4, <1>6, <1>7

LEMMA TypedIsTyped ==
  ASSUME Typed
  PROVE  FatTypeOK
<1>1. ASSUME NEW t \in Users
      PROVE  /\ loc[t].cluster \in Links /\ loc[t].next_cluster \in Links
             /\ loc[t].sector \in Clusters \cup {Outside}
             /\ loc[t].index \in 0..MaxSize /\ loc[t].i \in 0..MaxSize
             /\ loc[t].offset \in Offsets
             /\ loc[t].buffer \in [Offsets -> Bytes]
  <2>1. loc[t] \in Locals
    BY DEF Typed, Types
  <2> QED
    BY <2>1 DEF Locals, Buffers
<1> QED
  BY <1>1 DEF Typed, Types, FatTypeOK, FATs, Dirs, Buffers

LEMMA OrderSaves ==
  ASSUME Typed, Ownership, Order
  PROVE  ChainsSound /\ SizeCovered
<1>1. ASSUME fat_hit \cap Races = {}
      PROVE  /\ \A f \in Files : \/ dir[f].first = 0 \/ Growing(f)
                                 \/ EOC \in {fat[c] : c \in Chain(f)}
             /\ \A c \in Clusters : fat[c] # 0 => \E f \in Files : c \in Chain(f)
             /\ fat_hit \cap {"boundary", "crossing"} = {} =>
                  \A f \in Files : dir[f].size <= ClusterSize * Cardinality(Chain(f))
  <2>1. PICK m \in Maps : InOrder(m)
    BY <1>1 DEF Order, Clash
  <2>2. Linked(m)
    BY <2>1 DEF InOrder
  <2>3. ASSUME NEW f \in Files, dir[f].first # 0, ~Growing(f)
        PROVE  EOC \in {fat[c] : c \in Chain(f)}
    <3>1. m.len[f] \in Nat /\ m.len[f] # 0
      BY <2>2, <2>3 DEF Linked, FileLinked, Maps
    <3>2. m.len[f] \in 1..m.len[f]
      BY <3>1
    <3>3. PICK c \in Chain(f) : m.of[c] = f /\ m.rank[c] = m.len[f]
      BY <2>2, <3>2, ChainHasRanks
    <3>4. c \in Clusters /\ CellLinked(m, c)
      BY <2>2, <3>3, ChainIsClosed DEF Linked
    <3>5. fat[c] = EOC \/ \E t \in Users : Enters(t, c)
      BY <3>1, <3>3, <3>4 DEF CellLinked
    <3>6. ASSUME NEW t \in Users PROVE ~Enters(t, c)
      <4> SUFFICES ASSUME Enters(t, c) PROVE FALSE
        OBVIOUS
      <4>1. filp[t] = f
        BY <2>2, <3>3, <3>4, FreshIsOwn DEF Fresh
      <4> QED
        BY <2>3, <4>1 DEF Growing, Enters, Allocating
    <3> QED
      BY <3>5, <3>6
  <2>4. ASSUME NEW c \in Clusters, fat[c] # 0 PROVE \E f \in Files : c \in Chain(f)
    <3>1. m.of[c] \in Files
      BY <2>2, <2>4 DEF Linked, CellLinked
    <3> QED
      BY <2>2, <3>1, ChainIsWhole
  <2>5. ASSUME fat_hit \cap {"boundary", "crossing"} = {}, NEW f \in Files
        PROVE  dir[f].size <= ClusterSize * Cardinality(Chain(f))
    <3> DEFINE a == ClusterSize * m.len[f]
               b == ClusterSize * Cardinality(Chain(f))
    <3>1. dir[f].size <= a
      BY <2>1, <2>5 DEF InOrder, Sized
    <3>2. a <= b /\ a \in Int /\ b \in Int
      BY <2>2, ChainIsWhole, FatTimes
    <3>3. dir[f].size \in Int
      BY FatConstants DEF Typed, Types, Dirs, Inodes
    <3> HIDE DEF a, b
    <3>4. dir[f].size <= b
      BY <3>1, <3>2, <3>3
    <3> QED
      BY <3>4 DEF b
  <2> QED
    BY <2>3, <2>4, <2>5
<1>2. "fat_race" \notin fat_hit => \A f, g \in Files : f # g => Chain(f) \cap Chain(g) = {}
  BY OwnershipSaves
<1>3. ChainsSound
  BY <1>1, <1>2 DEF ChainsSound
<1>4. SizeCovered
  <2> SUFFICES ASSUME fat_hit \cap (Races \cup {"boundary", "crossing"}) = {}
               PROVE  \A f \in Files : dir[f].size <= ClusterSize * Cardinality(Chain(f))
    BY DEF SizeCovered
  <2>1. fat_hit \cap Races = {} /\ fat_hit \cap {"boundary", "crossing"} = {}
    OBVIOUS
  <2> QED
    BY <1>1, <2>1
<1> QED
  BY <1>3, <1>4

LEMMA OrderReads ==
  ASSUME Typed, Order
  PROVE  ReadsRight
<1>1. PositionInside
  BY DEF PositionInside, Typed, StaysInside, Inside
<1>2. ASSUME fat_hit \cap (Events \ {"full"}) = {} PROVE ~garbled
  <2>1. fat_hit \subseteq {"full"}
    BY <1>2 DEF Typed, Types
  <2>2. ~Clash
    BY <2>1 DEF Clash, Races
  <2> QED
    BY <2>1, <2>2 DEF Order, InOrder, Filled
<1> QED
  BY <1>1, <1>2 DEF ReadsRight

LEMMA OrderIsInvariant ==
  FatSpec => [](Typed /\ Ownership /\ Order)
<1>1. FatInit => Typed /\ Ownership /\ Order
  BY InitTyped, InitOwned, InitOrder
<1>2. Typed /\ Ownership /\ Order /\ [FatNext]_fat_vars => Typed' /\ Ownership' /\ Order'
  BY NextTyped, NextOwned, NextOrder
<1> QED
  BY <1>1, <1>2, PTL DEF FatSpec

\* Without a race the chains are apart, end and hold all that is allocated, and what the
\* directory says a file's size is has its place in the file's chain.
THEOREM VolumeIsSound ==
  FatSpec => []VolumeSound
<1>1. Typed /\ Ownership /\ Order => VolumeSound
  BY TypedIsTyped, OrderSaves DEF VolumeSound
<1> QED
  BY <1>1, OrderIsInvariant, PTL

\* A read returns what was written, unless one of the events has come that break this.
THEOREM ReadsAreRight ==
  FatSpec => []ReadsRight
<1>1. Typed /\ Ownership /\ Order => ReadsRight
  BY OrderReads
<1> QED
  BY <1>1, OrderIsInvariant, PTL
=============================================================================
