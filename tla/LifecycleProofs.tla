-------------------------- MODULE LifecycleProofs --------------------------
(***************************************************************************)
(* What holds the life of tasks together, for any number of tasks and of   *)
(* pids.  A task that is not the running one is within a window only if an *)
(* interrupt has landed there (WindowsSeen): every race of Lifecycle comes *)
(* out of that.  While none has, the pids and the list belong to the       *)
(* running task alone; and a task in wait4 keeps its child, because only a *)
(* parent frees, whatever lands where (ChildrenKept, ReapsDead).           *)
(***************************************************************************)
EXTENDS Lifecycle, ListLemmas, FiniteSetTheorems

Forking == {"store_pid", "link", "wakeup"}
Waiting == {"sleep_set", "sleep_link", "sleep_switch", "reap"}

\* What the state of a task is where it is in do_fork, do_exit or sys_wait4.
StateFits(t) ==
  /\ pc[t] = "run" => state[t] \in {"RUNNING", "UNINTERRUPTIBLE", "NONE"}
  /\ pc[t] \in Forking \cup {"sleep_set"} => state[t] = "RUNNING"
  /\ pc[t] = "sleep_link" => state[t] = "INTERRUPTIBLE"
  /\ pc[t] \in {"sleep_switch", "reap"} => state[t] \in {"RUNNING", "INTERRUPTIBLE"}
  /\ pc[t] \in {"notify", "notify_queue", "exit_switch"} => state[t] \in {"ZOMBIE", "NONE"}

\* The running task is one that may run: not in do_fork's hands, not freed; and it
\* leaves sleep_on only RUNNING.
StatesFit ==
  /\ pc[Idle] = "run" /\ state[Idle] = "RUNNING"
  /\ \A t \in Tasks : StateFits(t)
  /\ state[current] \notin {"NONE", "UNINTERRUPTIBLE"}
  /\ pc[current] = "reap" => state[current] = "RUNNING"

\* What is on the run queue is RUNNING, and the running task is not on it.
QueueFits == current \notin queued /\ \A t \in queued : state[t] = "RUNNING"

\* Whose entry is on its wait_childexit is asleep there.
SleepersFit ==
  \A t \in waiting : state[t] = "INTERRUPTIBLE" /\ pc[t] \in {"sleep_switch", "reap"}

\* A task is within a window without running only after an interrupt there.
WindowsSeen == \A t \in Tasks \ {current} : pc[t] \in Windows => pc[t] \in hit

\* What a do_fork works on is its own new task, which cannot run yet.
ForksFit ==
  /\ \A u \in Tasks : pc[u] \in Forking => new[u] \in Tasks /\ state[new[u]] = "UNINTERRUPTIBLE"
  /\ \A u, v \in Tasks : pc[u] \in Forking /\ pc[v] \in Forking /\ new[u] = new[v] => u = v
  /\ \A u \in Tasks : pc[u] = "store_pid" => loaded[u] \in 2..MaxPid - 1
  /\ \A u \in Tasks : pc[u] = "link" => behind[u] \in AllTasks

\* A sys_wait4 under way has a child, and the place before it.
WaitsFit == \A t \in Tasks : pc[t] \in Waiting => child[t] \in Tasks /\ prev[t] \in AllTasks

\* The parent that exit_notify has set RUNNING is still to be queued.
WakesOne ==
  pc[current] = "notify_queue" =>
    parent[current] \in Tasks \ queued /\ state[parent[current]] = "RUNNING"

\* Nobody else frees the child a task waits for.
ChildrenKept ==
  "store_pid" \notin hit =>
    \A t \in Tasks : pc[t] \in Waiting => child[t] \in Existing /\ parent[child[t]] = t

\* A task wakes up for no other child than its own.
ReapsDead ==
  hit \cap {"wrong_child", "store_pid"} = {} =>
    \A t \in Tasks : pc[t] \in {"sleep_switch", "reap"} /\ state[t] = "RUNNING"
                       => state[child[t]] = "ZOMBIE"

\* The parent of a task that lives, or is just exiting, has not been freed.
ParentsExist ==
  "orphaned" \notin hit =>
    \A t \in Tasks : Alive(t) \/ t = current => Exists(parent[t])

\* What a do_fork has read of the head is still there.
HeadRead == "link" \notin hit => (pc[current] = "link" => behind[current] = next[Idle])

\* The place i of a list that begins and ends at the head.
Place(s, i) == IF i \in 1..Len(s) THEN s[i] ELSE Idle

\* nx goes from the head through s and back.
Chain(nx, s) == \A i \in 0..Len(s) : nx[Place(s, i)] = Place(s, i + 1)

\* nx makes one ring of the head and the tasks in ts.
Ring(nx, ts) == \E s \in Seq(Tasks) : IsInjective(s) /\ ToSet(s) = ts /\ Chain(nx, s)

\* The list of all tasks is a ring of the tasks there are.
ListLinked == hit \cap {"link", "stale_prev"} = {} => Ring(next, Existing)

Sound ==
  /\ StatesFit /\ QueueFits /\ SleepersFit /\ WindowsSeen /\ ForksFit /\ WaitsFit /\ WakesOne
  /\ ChildrenKept /\ ReapsDead /\ ParentsExist /\ HeadRead /\ ListLinked

\* The tasks whose pid is still that of their parent.
Copying == {new[u] : u \in {v \in Tasks : pc[v] = "store_pid"}}

\* A pid is given once: no task, alive, dead or freed, has the pid of one that exists,
\* and global_pid is above all of them.
PidsApart ==
  "store_pid" \notin hit =>
    /\ \A t \in Tasks : pid[t] < global_pid
    /\ \A u, t \in Tasks \ Copying : Exists(u) /\ t # u => pid[t] # pid[u]
    /\ Works => \A t \in Tasks : pc[t] = "store_pid" => loaded[t] = global_pid

IInv == TypeOK /\ PidsApart /\ FaultsByEvent /\ (Works => Sound)
-----------------------------------------------------------------------------
\* The steps a task or an interrupt can take.
LEMMA StepsAre ==
  ASSUME Running
  PROVE  \/ \E t \in Tasks : Fork(t)
         \/ ForkPid \/ ForkLink \/ ForkWakeup \/ Exit \/ ExitNotify \/ ExitWakeup \/ ExitSwitch
         \/ \E p \in OfChildren : Wait4(p)
         \/ SleepSetState \/ SleepLink \/ SleepSwitch \/ Reap \/ Tick
  BY DEF Running, DoFork, DoExit, SysWait4

\* Who is within a call is not the idle task.
LEMMA InCall ==
  ASSUME TypeOK, StatesFit, pc[current] # "run"
  PROVE  current \in Tasks
  BY DEF TypeOK, StatesFit, AllTasks

\* schedule() hands the CPU to a task that is RUNNING, and keeps the run queue in order.
LEMMA Switched ==
  ASSUME TypeOK, StatesFit, QueueFits, Works, Reschedule(state, queued)
  PROVE  /\ state' = state /\ fault' = "none"
         /\ current' \in AllTasks /\ state[current'] = "RUNNING"
         /\ queued' \subseteq queued \cup {current} /\ queued' \subseteq Tasks
         /\ \A t \in queued' : t # current' /\ state[t] = "RUNNING"
         /\ \A t \in Tasks : t # current /\ t # current' /\ t \in queued => t \in queued'
<1> USE IdleAssumption DEF TypeOK, AllTasks, PutBack, Works
<1>1. state[Idle] = "RUNNING" /\ Idle \notin queued /\ current \notin queued
  BY DEF StatesFit, QueueFits
<1>2. ASSUME NEW next_ \in IF queued = {} THEN {Idle} ELSE queued,
             state' = state, current' = next_,
             queued' = (queued \ {next_}) \cup PutBack(state),
             fault' = IF PutBack(state) \cap (queued \ {next_}) = {} THEN "none" ELSE "list_corrupted"
      PROVE  /\ fault' = "none"
             /\ current' \in AllTasks /\ state[current'] = "RUNNING"
             /\ queued' \subseteq queued \cup {current} /\ queued' \subseteq Tasks
             /\ \A t \in queued' : t # current' /\ state[t] = "RUNNING"
             /\ \A t \in Tasks : t # current /\ t # current' /\ t \in queued => t \in queued'
  BY <1>1, <1>2 DEF QueueFits
<1>3. CASE state' = state /\ state[current] = "RUNNING" /\ queued' = queued /\ UNCHANGED <<current, fault>>
  BY <1>1, <1>3 DEF QueueFits
<1> QED
  BY <1>2, <1>3 DEF Reschedule

-----------------------------------------------------------------------------
(* The list of all tasks, walked along next. *)

\* The function Entry is, of the list that nx makes.
Walk(nx) ==
  CHOOSE f : f = [i \in 0..Cardinality(Tasks) + 1 |-> IF i = 0 THEN Idle ELSE nx[f[i - 1]]]

\* f follows nx for n steps from the head on.
Follows(f, nx, n) ==
  /\ f \in [0..n -> AllTasks] /\ f[0] = Idle
  /\ \A i \in 1..n : f[i] = nx[f[i - 1]]

\* A list can be walked any number of steps.
LEMMA FollowsExist ==
  ASSUME NEW nx \in [AllTasks -> AllTasks], NEW n \in Nat
  PROVE  \E f : Follows(f, nx, n)
<1> DEFINE Bad == {m \in Nat : ~\E f : Follows(f, nx, m)}
<1> SUFFICES ASSUME Bad # {} PROVE FALSE
  OBVIOUS
<1>1. PICK m \in Bad : \A k \in Bad : ~(<<k, m>> \in OpToRel(<, Nat))
  BY NatLessThanWellFounded, WFMin, Zenon
<1>2. m \in Nat /\ ~\E f : Follows(f, nx, m)
  BY <1>1
<1>3. \A k \in Nat : k < m => \E f : Follows(f, nx, k)
  BY <1>1, <1>2 DEF OpToRel
<1> HIDE DEF Bad
<1>4. CASE m = 0
  <2>1. Follows([i \in 0..0 |-> Idle], nx, 0)
    BY DEF Follows, AllTasks
  <2> QED
    BY <1>2, <1>4, <2>1
<1>5. CASE m # 0
  <2>1. m - 1 \in Nat /\ m - 1 < m
    BY <1>2, <1>5
  <2>2. PICK f : Follows(f, nx, m - 1)
    BY <1>3, <2>1
  <2> DEFINE g == [i \in 0..m |-> IF i = m THEN nx[f[m - 1]] ELSE f[i]]
  <2>3. /\ f \in [0..m - 1 -> AllTasks] /\ f[0] = Idle
        /\ \A i \in 1..m - 1 : f[i] = nx[f[i - 1]]
    BY <2>2 DEF Follows
  <2>4. g \in [0..m -> AllTasks]
    BY <1>2, <2>1, <2>3
  <2>5. g[0] = Idle
    BY <1>2, <1>5, <2>3
  <2>6. ASSUME NEW i \in 1..m PROVE g[i] = nx[g[i - 1]]
    <3>1. i - 1 \in 0..m - 1 /\ i - 1 # m /\ g[i - 1] = f[i - 1]
      BY <1>2
    <3>2. CASE i = m
      BY <1>2, <3>1, <3>2
    <3>3. CASE i # m
      <4>1. i \in 1..m - 1
        BY <1>2, <3>3
      <4> QED
        BY <2>3, <3>1, <3>3, <4>1
    <3> QED
      BY <3>2, <3>3
  <2> HIDE DEF g
  <2>7. Follows(g, nx, m)
    BY <2>4, <2>5, <2>6 DEF Follows
  <2> QED
    BY <1>2, <2>7
<1> QED
  BY <1>4, <1>5

\* What Walk is.
LEMMA WalkFollows ==
  ASSUME NEW nx \in [AllTasks -> AllTasks]
  PROVE  Cardinality(Tasks) \in Nat /\ Follows(Walk(nx), nx, Cardinality(Tasks) + 1)
<1> DEFINE N == Cardinality(Tasks)
<1>1. N \in Nat
  BY LifecycleAssumption, FS_CardinalityType
<1> HIDE DEF N
<1>2. PICK f : Follows(f, nx, N + 1)
  BY <1>1, FollowsExist
<1>3. /\ f \in [0..N + 1 -> AllTasks] /\ f[0] = Idle
      /\ \A i \in 1..N + 1 : f[i] = nx[f[i - 1]]
  BY <1>2 DEF Follows
<1> DEFINE Eq(g) == g = [i \in 0..N + 1 |-> IF i = 0 THEN Idle ELSE nx[g[i - 1]]]
<1>4. f = [i \in 0..N + 1 |-> f[i]]
  BY <1>3
<1>5. \A i \in 0..N + 1 : f[i] = IF i = 0 THEN Idle ELSE nx[f[i - 1]]
  BY <1>1, <1>3
<1>6. Eq(f)
  BY <1>4, <1>5
<1>7. Walk(nx) = CHOOSE g : Eq(g)
  BY DEF Walk, N
<1> DEFINE w == Walk(nx)
<1>8. Eq(w)
  BY <1>6, <1>7, Zenon
<1> HIDE DEF w
<1>9. w[0] = Idle /\ \A i \in 1..N + 1 : w[i] = nx[w[i - 1]]
  BY <1>1, <1>8
<1>10. \A i \in 0..N + 1 : w[i] \in AllTasks
  <2> DEFINE Out == {i \in Nat : i \in 0..N + 1 /\ w[i] \notin AllTasks}
  <2> SUFFICES ASSUME Out # {} PROVE FALSE
    OBVIOUS
  <2>1. PICK i \in Out : \A k \in Out : ~(<<k, i>> \in OpToRel(<, Nat))
    BY NatLessThanWellFounded, WFMin, Zenon
  <2>2. i \in Nat /\ i \in 0..N + 1 /\ w[i] \notin AllTasks
    BY <2>1
  <2>3. i # 0
    BY <1>9, <2>2 DEF AllTasks
  <2>4. i - 1 \in Nat /\ i - 1 \in 0..N + 1 /\ i \in 1..N + 1
    BY <1>1, <2>2, <2>3
  <2>5. w[i - 1] \in AllTasks
    <3>1. \A k \in Nat : k < i => k \notin Out
      BY <2>1, <2>2 DEF OpToRel
    <3>2. i - 1 \notin Out
      BY <2>2, <2>4, <3>1
    <3> QED
      BY <2>4, <3>2
  <2> QED
    BY <1>9, <2>2, <2>4, <2>5
<1>11. w \in [0..N + 1 -> AllTasks]
  BY <1>8, <1>10
<1> QED
  BY <1>1, <1>9, <1>11 DEF Follows, N, w

\* Entry is Walk, before a step and after it.
LEMMA EntryIsWalk == Entry = Walk(next) /\ Entry' = Walk(next')
<1>1. Entry = Walk(next)
  BY DEF Entry, Walk
<1>2. Entry' = Walk(next')
  BY DEF Entry, Walk
<1> QED
  BY <1>1, <1>2

\* What sys_wait4 finds: a task with the pid, and the one before it.
LEMMA Found ==
  ASSUME TypeOK, NEW p, Before(p) # {}
  PROVE  LET i == First(Before(p))
         IN  /\ Entry[i] \in AllTasks /\ Entry[i + 1] \in Tasks
             /\ pid[Entry[i + 1]] = p
<1>1. /\ Cardinality(Tasks) \in Nat /\ Entry \in [0..Cardinality(Tasks) + 1 -> AllTasks]
  BY EntryIsWalk, WalkFollows DEF Follows, TypeOK
<1> DEFINE i == First(Before(p))
<1>2. Before(p) \subseteq Nat
  BY <1>1 DEF Before
<1>3. PICK j \in Before(p) : \A k \in Before(p) : j <= k
  <2>1. PICK j \in Before(p) : \A k \in Before(p) : ~(<<k, j>> \in OpToRel(<, Nat))
    BY <1>2, NatLessThanWellFounded, WFMin, Zenon
  <2>2. \A k \in Before(p) : k \in Nat /\ j \in Nat /\ ~(k < j)
    BY <1>2, <2>1 DEF OpToRel
  <2> QED
    BY <2>2
<1>4. i \in Before(p)
  BY <1>3 DEF First
<1> HIDE DEF i
<1>5. /\ i \in 0..Cardinality(Tasks) /\ i + 1 \in 1..i + 1
      /\ \A k \in 1..i + 1 : Entry[k] # Idle
      /\ pid[Entry[i + 1]] = p
  BY <1>1, <1>4 DEF Before
<1> QED
  BY <1>1, <1>5 DEF AllTasks, i

\* A list without repetitions is no longer than there are tasks.
LEMMA ShortList ==
  ASSUME NEW s \in Seq(Tasks), IsInjective(s)
  PROVE  Len(s) \in Nat /\ Cardinality(Tasks) \in Nat /\ Len(s) <= Cardinality(Tasks)
<1>1. Len(s) \in Nat /\ s \in [1..Len(s) -> Tasks]
  OBVIOUS
<1>2. \A i, j \in 1..Len(s) : s[i] = s[j] => i = j
  BY <1>1 DEF IsInjective
<1>3. s \in Injection(1..Len(s), Tasks)
  BY <1>1, <1>2 DEF Injection, IsInjective
<1>4. Cardinality(1..Len(s)) <= Cardinality(Tasks)
  BY <1>3, FS_Injection, LifecycleAssumption
<1>5. Cardinality(1..Len(s)) = Len(s)
  BY <1>1, FS_Interval
<1> QED
  BY <1>1, <1>4, <1>5, FS_CardinalityType, LifecycleAssumption

\* What follows nx stays in the ring, and visits its places in their order.
LEMMA RingFollowed ==
  ASSUME NEW nx \in [AllTasks -> AllTasks], NEW s \in Seq(Tasks), Chain(nx, s),
         NEW n \in Nat, NEW f, Follows(f, nx, n)
  PROVE  /\ \A i \in 0..n : f[i] \in ToSet(s) \cup {Idle}
         /\ \A i \in 0..n : i <= Len(s) => f[i] = Place(s, i)
<1>1. /\ f[0] = Idle /\ \A i \in 1..n : f[i] = nx[f[i - 1]]
  BY DEF Follows
<1>2. Len(s) \in Nat
  OBVIOUS
<1>3. \A i \in Nat : Place(s, i) \in ToSet(s) \cup {Idle}
  BY DEF Place, ToSet
<1>4. \A t \in ToSet(s) \cup {Idle} : nx[t] \in ToSet(s) \cup {Idle}
  <2>1. SUFFICES ASSUME NEW t \in ToSet(s) \cup {Idle} PROVE nx[t] \in ToSet(s) \cup {Idle}
    OBVIOUS
  <2>2. PICK i \in 0..Len(s) : Place(s, i) = t
    <3>1. CASE t = Idle
      BY <1>2, <3>1 DEF Place
    <3>2. CASE t \in ToSet(s)
      BY <1>2, <3>2 DEF Place, ToSet
    <3> QED
      BY <2>1, <3>1, <3>2
  <2>3. nx[t] = Place(s, i + 1) /\ i + 1 \in Nat
    BY <1>2, <2>2 DEF Chain
  <2> QED
    BY <1>3, <2>3
<1>5. \A i \in 0..n : f[i] \in ToSet(s) \cup {Idle}
  <2> DEFINE Out == {i \in Nat : i \in 0..n /\ f[i] \notin ToSet(s) \cup {Idle}}
  <2> SUFFICES ASSUME Out # {} PROVE FALSE
    OBVIOUS
  <2>1. PICK i \in Out : \A k \in Out : ~(<<k, i>> \in OpToRel(<, Nat))
    BY NatLessThanWellFounded, WFMin, Zenon
  <2>2. i \in Nat /\ i \in 0..n /\ f[i] \notin ToSet(s) \cup {Idle}
    BY <2>1
  <2>3. \A k \in Nat : k < i => k \notin Out
    BY <2>1, <2>2 DEF OpToRel
  <2>4. i # 0
    BY <1>1, <2>2
  <2>5. i - 1 \in Nat /\ i - 1 \in 0..n /\ i \in 1..n /\ i - 1 < i
    BY <2>2, <2>4
  <2>6. f[i - 1] \in ToSet(s) \cup {Idle}
    BY <2>3, <2>5
  <2> QED
    BY <1>1, <1>4, <2>2, <2>5, <2>6
<1>6. \A i \in 0..n : i <= Len(s) => f[i] = Place(s, i)
  <2> DEFINE Out == {i \in Nat : i \in 0..n /\ i <= Len(s) /\ f[i] # Place(s, i)}
  <2> SUFFICES ASSUME Out # {} PROVE FALSE
    OBVIOUS
  <2>1. PICK i \in Out : \A k \in Out : ~(<<k, i>> \in OpToRel(<, Nat))
    BY NatLessThanWellFounded, WFMin, Zenon
  <2>2. i \in Nat /\ i \in 0..n /\ i <= Len(s) /\ f[i] # Place(s, i)
    BY <2>1
  <2>3. \A k \in Nat : k < i => k \notin Out
    BY <2>1, <2>2 DEF OpToRel
  <2>4. i # 0
    BY <1>1, <2>2 DEF Place
  <2>5. i - 1 \in Nat /\ i - 1 \in 0..n /\ i \in 1..n /\ i - 1 < i /\ i - 1 <= Len(s) /\ i - 1 \in 0..Len(s)
    BY <1>2, <2>2, <2>4
  <2>6. f[i - 1] = Place(s, i - 1)
    BY <2>3, <2>5
  <2>7. nx[Place(s, i - 1)] = Place(s, (i - 1) + 1) /\ (i - 1) + 1 = i
    BY <2>2, <2>5 DEF Chain
  <2> QED
    BY <1>1, <2>2, <2>5, <2>6, <2>7
<1> QED
  BY <1>5, <1>6

\* On a ring, Listed is the tasks of the ring.
LEMMA RingListed ==
  ASSUME TypeOK, NEW ts, Ring(next, ts)
  PROVE  Listed = ts
<1>0. PICK s \in Seq(Tasks) : IsInjective(s) /\ ToSet(s) = ts /\ Chain(next, s)
  BY DEF Ring
<1> DEFINE N == Cardinality(Tasks)
<1>1. Len(s) \in Nat /\ N \in Nat /\ Len(s) <= N
  BY <1>0, ShortList
<1>2. next \in [AllTasks -> AllTasks]
  BY DEF TypeOK
<1>3. Follows(Entry, next, N + 1)
  BY <1>2, EntryIsWalk, WalkFollows
<1> HIDE DEF N
<1>4. /\ \A i \in 0..N + 1 : Entry[i] \in ToSet(s) \cup {Idle}
      /\ \A i \in 0..N + 1 : i <= Len(s) => Entry[i] = Place(s, i)
  BY <1>1, <1>2, <1>3, <1>0, RingFollowed
<1>5. Listed = {Entry[i] : i \in 1..N} \ {Idle}
  BY DEF Listed, N
<1>6. ToSet(s) \subseteq Tasks /\ Idle \notin ToSet(s)
  BY IdleAssumption DEF ToSet
<1>7. ASSUME NEW t \in Listed PROVE t \in ToSet(s)
  <2>1. PICK i \in 1..N : Entry[i] = t
    BY <1>5
  <2>2. i \in 0..N + 1 /\ t # Idle
    BY <1>1, <1>5
  <2> QED
    BY <1>4, <2>1, <2>2
<1>8. ASSUME NEW t \in ToSet(s) PROVE t \in Listed
  <2>1. PICK i \in 1..Len(s) : s[i] = t
    BY DEF ToSet
  <2>2. i \in 1..N /\ i \in 0..N + 1 /\ i <= Len(s)
    BY <1>1
  <2>3. Entry[i] = t
    BY <1>4, <2>1, <2>2 DEF Place
  <2> QED
    BY <1>5, <1>6, <2>2, <2>3
<1> QED
  BY <1>0, <1>7, <1>8

\* The places of a ring are the head and its tasks, each once.
LEMMA PlacesApart ==
  ASSUME NEW s \in Seq(Tasks), IsInjective(s)
  PROVE  /\ Len(s) \in Nat /\ Place(s, 0) = Idle /\ Place(s, Len(s) + 1) = Idle
         /\ \A i \in 1..Len(s) : Place(s, i) = s[i] /\ Place(s, i) \in Tasks
         /\ \A i, j \in 0..Len(s) : Place(s, i) = Place(s, j) => i = j
         /\ \A t \in ToSet(s) \cup {Idle} : \E i \in 0..Len(s) : Place(s, i) = t
<1>1. Len(s) \in Nat /\ s \in [1..Len(s) -> Tasks]
  OBVIOUS
<1>2. Place(s, 0) = Idle /\ Place(s, Len(s) + 1) = Idle
  BY <1>1 DEF Place
<1>3. \A i \in 1..Len(s) : Place(s, i) = s[i] /\ Place(s, i) \in Tasks
  BY <1>1 DEF Place
<1>4. ASSUME NEW i \in 0..Len(s), NEW j \in 0..Len(s), Place(s, i) = Place(s, j) PROVE i = j
  <2>1. CASE i = 0 /\ j # 0
    BY <1>1, <1>2, <1>3, <1>4, <2>1, IdleAssumption
  <2>2. CASE i # 0 /\ j = 0
    BY <1>1, <1>2, <1>3, <1>4, <2>2, IdleAssumption
  <2>3. CASE i # 0 /\ j # 0
    <3>1. i \in 1..Len(s) /\ j \in 1..Len(s)
      BY <1>1, <2>3
    <3>2. s[i] = s[j]
      BY <1>3, <1>4, <3>1
    <3> QED
      BY <1>1, <3>1, <3>2 DEF IsInjective
  <2> QED
    BY <2>1, <2>2, <2>3
<1>5. ASSUME NEW t \in ToSet(s) \cup {Idle} PROVE \E i \in 0..Len(s) : Place(s, i) = t
  <2>1. CASE t = Idle
    BY <1>1, <1>2, <2>1
  <2>2. CASE t \in ToSet(s)
    BY <1>1, <1>3, <2>2 DEF ToSet
  <2> QED
    BY <2>1, <2>2
<1> QED
  BY <1>1, <1>2, <1>3, <1>4, <1>5

\* A ring stays one when the links outside it change.
LEMMA RingKept ==
  ASSUME NEW nx, NEW nx2, NEW ts, Ring(nx, ts), \A t \in ts \cup {Idle} : nx2[t] = nx[t]
  PROVE  Ring(nx2, ts)
<1>0. PICK s \in Seq(Tasks) : IsInjective(s) /\ ToSet(s) = ts /\ Chain(nx, s)
  BY DEF Ring
<1>1. \A i \in 0..Len(s) : Place(s, i) \in ToSet(s) \cup {Idle}
  BY DEF Place, ToSet
<1> QED
  BY <1>0, <1>1 DEF Chain, Ring

\* Linking a task between the head and what the head had links it into the ring.
LEMMA RingAdded ==
  ASSUME NEW nx, NEW nx2, NEW ts, Ring(nx, ts), NEW t \in Tasks \ ts,
         nx2[Idle] = t, nx2[t] = nx[Idle], \A u \in ts : nx2[u] = nx[u]
  PROVE  Ring(nx2, ts \cup {t})
<1>0. PICK s \in Seq(Tasks) : IsInjective(s) /\ ToSet(s) = ts /\ Chain(nx, s)
  BY DEF Ring
<1> DEFINE r == <<t>> \o s
<1>1. /\ Len(s) \in Nat /\ Place(s, 0) = Idle /\ Place(s, Len(s) + 1) = Idle
      /\ \A i \in 1..Len(s) : Place(s, i) = s[i]
  BY <1>0, PlacesApart
<1>2. r \in Seq(Tasks) /\ ToSet(r) = ToSet(s) \cup {t} /\ IsInjective(r)
  BY <1>0, PrependEntries, PrependApart
<1>3. Len(r) = Len(s) + 1 /\ \A i \in 1..Len(s) + 1 : r[i] = IF i = 1 THEN t ELSE s[i - 1]
  BY <1>1
<1> HIDE DEF r
<1>4. Place(r, 0) = Idle /\ Place(r, 1) = t
  BY <1>1, <1>3 DEF Place
<1>5. ASSUME NEW i \in 2..Len(s) + 2 PROVE Place(r, i) = Place(s, i - 1)
  <2>1. CASE i = Len(s) + 2
    <3>1. i \notin 1..Len(r) /\ i - 1 = Len(s) + 1
      BY <1>1, <1>3, <2>1
    <3> QED
      BY <1>1, <3>1 DEF Place
  <2>2. CASE i # Len(s) + 2
    <3>1. i \in 1..Len(r) /\ i \in 1..Len(s) + 1 /\ i # 1 /\ i - 1 \in 1..Len(s)
      BY <1>1, <1>3, <2>2
    <3> QED
      BY <1>1, <1>3, <3>1 DEF Place
  <2> QED
    BY <2>1, <2>2
<1>6. ASSUME NEW i \in 0..Len(r) PROVE nx2[Place(r, i)] = Place(r, i + 1)
  <2>1. CASE i = 0
    BY <1>4, <2>1
  <2>2. CASE i = 1
    <3>1. nx[Place(s, 0)] = Place(s, 1)
      BY <1>0, <1>1 DEF Chain
    <3>2. Place(r, 2) = Place(s, 1)
      BY <1>1, <1>5
    <3> QED
      BY <1>1, <1>4, <2>2, <3>1, <3>2
  <2>3. CASE i # 0 /\ i # 1
    <3>1. i \in 2..Len(s) + 2 /\ i + 1 \in 2..Len(s) + 2 /\ i - 1 \in 1..Len(s) /\ i - 1 \in 0..Len(s)
          /\ (i + 1) - 1 = (i - 1) + 1
      BY <1>1, <1>3, <2>3
    <3>2. Place(r, i) = Place(s, i - 1) /\ Place(r, i + 1) = Place(s, (i - 1) + 1)
      BY <1>5, <3>1
    <3>3. Place(s, i - 1) \in ToSet(s)
      BY <1>1, <3>1 DEF ToSet
    <3>4. nx[Place(s, i - 1)] = Place(s, (i - 1) + 1)
      BY <1>0, <3>1 DEF Chain
    <3> QED
      BY <1>0, <3>2, <3>3, <3>4
  <2> QED
    BY <2>1, <2>2, <2>3
<1> QED
  BY <1>0, <1>2, <1>6 DEF Chain, Ring

\* Unlinking what follows a place of the ring takes it out of the ring.
LEMMA RingRemoved ==
  ASSUME NEW nx, NEW nx2, NEW ts, Ring(nx, ts), NEW t \in ts \cup {Idle}, NEW c \in Tasks, nx[t] = c, nx2[t] = nx[c],
         \A u \in AllTasks : u # t => nx2[u] = nx[u]
  PROVE  Ring(nx2, ts \ {c})
<1>0. PICK s \in Seq(Tasks) : IsInjective(s) /\ ToSet(s) = ts /\ Chain(nx, s)
  BY DEF Ring
<1>1. /\ Len(s) \in Nat /\ Place(s, 0) = Idle /\ Place(s, Len(s) + 1) = Idle
      /\ \A i \in 1..Len(s) : Place(s, i) = s[i] /\ Place(s, i) \in Tasks
      /\ \A i, j \in 0..Len(s) : Place(s, i) = Place(s, j) => i = j
      /\ \E i \in 0..Len(s) : Place(s, i) = t
  BY <1>0, PlacesApart
<1>2. PICK k \in 0..Len(s) : Place(s, k) = t
  BY <1>1
<1>3. Place(s, k + 1) = c
  BY <1>0, <1>2 DEF Chain
<1>4. k \in 0..Len(s) - 1 /\ k + 1 \in 1..Len(s) /\ s[k + 1] = c
  <2>1. k # Len(s)
    BY <1>1, <1>3, IdleAssumption
  <2>2. k + 1 \in 1..Len(s)
    BY <1>1, <2>1
  <2> QED
    BY <1>1, <1>3, <2>1, <2>2
<1> DEFINE r == RemoveAt(s, k + 1)
<1>5. /\ r \in Seq(Tasks) /\ Len(r) = Len(s) - 1
      /\ \A j \in 1..Len(s) - 1 : r[j] = IF j < k + 1 THEN s[j] ELSE s[j + 1]
  BY <1>4, RemoveAtEntries
<1> HIDE DEF r
<1>6. \A j \in 0..Len(s) : Place(r, j) = IF j <= k THEN Place(s, j) ELSE Place(s, j + 1)
  <2> SUFFICES ASSUME NEW j \in 0..Len(s)
               PROVE  Place(r, j) = IF j <= k THEN Place(s, j) ELSE Place(s, j + 1)
    OBVIOUS
  <2>1. CASE j = 0
    <3>1. Place(r, 0) = Idle
      BY <1>5 DEF Place
    <3> QED
      BY <1>1, <1>4, <2>1, <3>1
  <2>2. CASE j = Len(s)
    <3>1. j \notin 1..Len(r) /\ ~(j <= k)
      BY <1>1, <1>4, <1>5, <2>2
    <3> QED
      BY <1>1, <2>2, <3>1 DEF Place
  <2>3. CASE j # 0 /\ j # Len(s)
    <3>1. j \in 1..Len(s) - 1 /\ j \in 1..Len(r) /\ j \in 1..Len(s) /\ j + 1 \in 1..Len(s)
      BY <1>1, <1>5, <2>3
    <3>2. j <= k <=> j < k + 1
      BY <1>4, <3>1
    <3> QED
      BY <1>1, <1>5, <3>1, <3>2 DEF Place
  <2> QED
    BY <2>1, <2>2, <2>3
<1>7. ASSUME NEW j \in 0..Len(r) PROVE nx2[Place(r, j)] = Place(r, j + 1)
  <2>0. j \in 0..Len(s) /\ j + 1 \in 0..Len(s) /\ \A i \in 0..Len(s) : Place(s, i) \in AllTasks
    BY <1>1, <1>4, <1>5, IdleAssumption DEF AllTasks, Place
  <2>1. CASE j < k
    <3>1. j <= k /\ j + 1 <= k /\ j # k
      BY <1>4, <2>0, <2>1
    <3>2. Place(r, j) = Place(s, j) /\ Place(r, j + 1) = Place(s, j + 1)
      BY <1>6, <2>0, <3>1
    <3>3. Place(s, j) # t /\ nx[Place(s, j)] = Place(s, j + 1)
      BY <1>1, <1>2, <2>0, <3>1, <1>0 DEF Chain
    <3> QED
      BY <2>0, <3>2, <3>3
  <2>2. CASE j = k
    <3>1. Place(r, j) = t
      BY <1>2, <1>6, <2>0, <2>2
    <3>2. Place(r, j + 1) = Place(s, (k + 1) + 1)
      <4>1. ~(j + 1 <= k) /\ j + 1 = k + 1
        BY <1>4, <2>2
      <4> QED
        BY <1>6, <2>0, <4>1
    <3>3. nx[c] = Place(s, (k + 1) + 1)
      <4>1. k + 1 \in 0..Len(s)
        BY <1>1, <1>4
      <4> QED
        BY <1>3, <4>1, <1>0 DEF Chain
    <3> QED
      BY <3>1, <3>2, <3>3
  <2>3. CASE j > k
    <3>1. ~(j <= k) /\ ~(j + 1 <= k) /\ j + 1 # k /\ j + 1 \in 0..Len(s)
      BY <1>4, <2>0, <2>3
    <3>2. Place(r, j) = Place(s, j + 1) /\ Place(r, j + 1) = Place(s, (j + 1) + 1)
      BY <1>6, <2>0, <3>1
    <3>3. Place(s, j + 1) # t /\ nx[Place(s, j + 1)] = Place(s, (j + 1) + 1)
      BY <1>1, <1>2, <3>1, <1>0 DEF Chain
    <3> QED
      BY <2>0, <3>1, <3>2, <3>3
  <2> QED
    BY <1>4, <2>0, <2>1, <2>2, <2>3
<1>8. IsInjective(r)
  <2> SUFFICES ASSUME NEW i \in 1..Len(r), NEW j \in 1..Len(r), r[i] = r[j] PROVE i = j
    <3>1. DOMAIN r = 1..Len(r)
      BY <1>5
    <3> QED
      BY <3>1, Zenon DEF IsInjective
  <2>1. PICK a \in 1..Len(s) : r[i] = s[a] /\ a = IF i < k + 1 THEN i ELSE i + 1
    BY <1>1, <1>4, <1>5
  <2>2. PICK b \in 1..Len(s) : r[j] = s[b] /\ b = IF j < k + 1 THEN j ELSE j + 1
    BY <1>1, <1>4, <1>5
  <2>3. a = b
    <3>1. s[a] = s[b]
      BY <2>1, <2>2, Zenon
    <3>2. a \in DOMAIN s /\ b \in DOMAIN s
      OBVIOUS
    <3> QED
      BY <1>0, <3>1, <3>2 DEF IsInjective
  <2> QED
    BY <1>4, <2>1, <2>2, <2>3
<1>9. ASSUME NEW u PROVE u \in ToSet(r) <=> u \in ToSet(s) \ {c}
  <2>1. ASSUME NEW i \in 1..Len(r), r[i] = u PROVE u \in ToSet(s) \ {c}
    <3> DEFINE a == IF i < k + 1 THEN i ELSE i + 1
    <3>1. r[i] = s[a] /\ a \in 1..Len(s) /\ a # k + 1
      BY <1>1, <1>4, <1>5
    <3> HIDE DEF a
    <3> QED
      BY <1>4, <2>1, <1>0, <3>1 DEF IsInjective, ToSet
  <2>2. ASSUME NEW a \in 1..Len(s), s[a] = u, u # c PROVE \E i \in 1..Len(r) : r[i] = u
    <3>1. a # k + 1
      BY <1>4, <2>2
    <3>2. CASE a < k + 1
      <4>1. a \in 1..Len(r) /\ r[a] = s[a]
        BY <1>1, <1>4, <1>5, <3>2
      <4> QED
        BY <2>2, <4>1
    <3>3. CASE a > k + 1
      <4>1. a - 1 \in 1..Len(r) /\ ~(a - 1 < k + 1) /\ (a - 1) + 1 = a
        BY <1>1, <1>4, <1>5, <3>3
      <4>2. r[a - 1] = s[a]
        BY <1>5, <4>1
      <4> QED
        BY <2>2, <4>1, <4>2
    <3> QED
      BY <1>4, <3>1, <3>2, <3>3
  <2>3. /\ u \in ToSet(r) <=> \E i \in 1..Len(r) : r[i] = u
        /\ u \in ToSet(s) <=> \E a \in 1..Len(s) : s[a] = u
    <3>1. DOMAIN r = 1..Len(r) /\ DOMAIN s = 1..Len(s)
      BY <1>5
    <3> QED
      BY <3>1, Zenon DEF ToSet
  <2> QED
    BY <2>1, <2>2, <2>3
<1> QED
  BY <1>0, <1>5, <1>7, <1>8, <1>9 DEF Chain, Ring

-----------------------------------------------------------------------------
\* Every step keeps the types.
LEMMA TypesStep ==
  ASSUME TypeOK, Sound, Works, Running
  PROVE  TypeOK'
<1> USE LifecycleAssumption, IdleAssumption DEF TypeOK, AllTasks, PCs, Windows, Events, dispatchVars, listVars, forkVars, waitVars, Goto, Works
<1>1. ASSUME NEW t \in Tasks, Fork(t) PROVE TypeOK'
  BY <1>1 DEF Fork
<1>2. ASSUME ForkPid PROVE TypeOK'
  <2>1. current \in Tasks /\ loaded[current] \in 2..MaxPid - 1
    BY <1>2, InCall DEF ForkPid, Sound, ForksFit
  <2>2. loaded[current] + 1 \in 2..MaxPid /\ loaded[current] \in 0..MaxPid
    BY <2>1
  <2>3. pid' \in [AllTasks -> 0..MaxPid] /\ global_pid' \in 2..MaxPid
    BY <1>2, <2>2 DEF ForkPid
  <2>4. loaded' \in [AllTasks -> 0..MaxPid] /\ behind' \in [AllTasks -> AllTasks \cup {NoTask}]
    BY <1>2 DEF ForkPid
  <2>5. pc' \in [AllTasks -> PCs]
    BY <1>2 DEF ForkPid
  <2>6. UNCHANGED <<dispatchVars, next, parent, new, waitVars, hit>>
    BY <1>2 DEF ForkPid
  <2> QED
    BY <2>3, <2>4, <2>5, <2>6
<1>3. ASSUME ForkLink PROVE TypeOK'
  BY <1>3, InCall DEF ForkLink, Sound, ForksFit, Forking
<1>4. ASSUME ForkWakeup PROVE TypeOK'
  BY <1>4, InCall DEF ForkWakeup, Sound, ForksFit, Forking
<1>5. ASSUME Exit PROVE TypeOK'
  BY <1>5 DEF Exit
<1>6. ASSUME ExitNotify PROVE TypeOK'
  <2>1. pc' \in [AllTasks -> PCs] /\ state' \in [AllTasks -> {"NONE", "RUNNING", "INTERRUPTIBLE", "UNINTERRUPTIBLE", "ZOMBIE"}]
    BY <1>6 DEF ExitNotify
  <2>2. hit' \subseteq Windows \cup Events /\ waiting' \subseteq Tasks
    BY <1>6 DEF ExitNotify
  <2>3. UNCHANGED <<current, queued, pid, parent, next, global_pid, loaded, new, behind, child, prev>>
    BY <1>6 DEF ExitNotify
  <2>4. fault' \in {"none", "list_corrupted", "freed_parent", "freed_alive", "freed_twice"}
    BY <1>6 DEF ExitNotify
  <2> QED
    BY <2>1, <2>2, <2>3, <2>4
<1>7. ASSUME ExitWakeup PROVE TypeOK'
  BY <1>7 DEF ExitWakeup
<1>8. ASSUME ExitSwitch PROVE TypeOK'
  BY <1>8, Switched DEF ExitSwitch, Sound
<1>9. ASSUME NEW p \in OfChildren, Wait4(p) PROVE TypeOK'
  <2> DEFINE i == First(Before(p))
  <2>1. /\ Entry[i] \in AllTasks /\ Entry[i + 1] \in Tasks
    BY <1>9, Found DEF Wait4
  <2> HIDE DEF i
  <2>2. /\ Goto("run", IF state[Entry[i + 1]] = "ZOMBIE" THEN "reap" ELSE "sleep_set")
        /\ child' = [child EXCEPT ![current] = Entry[i + 1]]
        /\ prev' = [prev EXCEPT ![current] = Entry[i]]
        /\ UNCHANGED <<dispatchVars, listVars, forkVars, waiting, hit>>
    BY <1>9 DEF Wait4, i
  <2> QED
    BY <2>1, <2>2
<1>10. ASSUME SleepSetState PROVE TypeOK'
  BY <1>10 DEF SleepSetState
<1>11. ASSUME SleepLink PROVE TypeOK'
  BY <1>11, InCall DEF SleepLink, Sound
<1>12. ASSUME SleepSwitch PROVE TypeOK'
  BY <1>12, Switched DEF SleepSwitch, Sound
<1>13. ASSUME Reap PROVE TypeOK'
  BY <1>13, InCall DEF Reap, Sound, WaitsFit, Waiting, Unlink, Alive
<1>14. ASSUME Tick PROVE TypeOK'
  BY <1>14, Switched DEF Tick, Sound, RetFromIntr
<1> QED
  BY <1>1, <1>2, <1>3, <1>4, <1>5, <1>6, <1>7, <1>8, <1>9, <1>10, <1>11, <1>12, <1>13, <1>14, StepsAre

\* Every step keeps the states that go with where tasks are.
LEMMA StatesStep ==
  ASSUME TypeOK, Sound, Works, Running, Works'
  PROVE  StatesFit'
<1> USE IdleAssumption DEF AllTasks, dispatchVars, listVars, forkVars, waitVars, Goto
<1>0. TypeOK /\ StatesFit /\ QueueFits /\ ForksFit /\ WaitsFit /\ SleepersFit /\ current \in AllTasks
  BY DEF Sound, TypeOK
<1> USE DEF StatesFit, StateFits, TypeOK
<1>1. ASSUME NEW t \in Tasks, Fork(t) PROVE StatesFit'
  BY <1>0, <1>1 DEF Fork, Forking
<1>2. ASSUME ForkPid PROVE StatesFit'
  BY <1>0, <1>2 DEF ForkPid, ForksFit, Forking
<1>3. ASSUME ForkLink PROVE StatesFit'
  BY <1>0, <1>3 DEF ForkLink, ForksFit, Forking
<1>4. ASSUME ForkWakeup PROVE StatesFit'
  BY <1>0, <1>4 DEF ForkWakeup, ForksFit, Forking
<1>5. ASSUME Exit PROVE StatesFit'
  BY <1>0, <1>5 DEF Exit, Forking
<1>6. ASSUME ExitNotify PROVE StatesFit'
  BY <1>0, <1>6 DEF ExitNotify, SleepersFit, Notifies, Works, Forking
<1>7. ASSUME ExitWakeup PROVE StatesFit'
  BY <1>0, <1>7 DEF ExitWakeup, Forking
<1>8. ASSUME ExitSwitch PROVE StatesFit'
  BY <1>0, <1>8, Switched DEF ExitSwitch
<1>9. ASSUME NEW p \in OfChildren, Wait4(p) PROVE StatesFit'
  BY <1>0, <1>9 DEF Wait4, Forking
<1>10. ASSUME SleepSetState PROVE StatesFit'
  BY <1>0, <1>10 DEF SleepSetState, Forking
<1>11. ASSUME SleepLink PROVE StatesFit'
  BY <1>0, <1>11 DEF SleepLink, Forking
<1>12. ASSUME SleepSwitch PROVE StatesFit'
  BY <1>0, <1>12, Switched DEF SleepSwitch, Forking
<1>13. ASSUME Reap PROVE StatesFit'
  BY <1>0, <1>13 DEF Reap, WaitsFit, Waiting, Alive, Works, Forking
<1>14. ASSUME Tick PROVE StatesFit'
  BY <1>0, <1>14, Switched DEF Tick, RetFromIntr
<1> QED
  BY <1>1, <1>2, <1>3, <1>4, <1>5, <1>6, <1>7, <1>8, <1>9, <1>10, <1>11, <1>12, <1>13, <1>14, StepsAre

\* Every step keeps the run queue in order.
LEMMA QueueStep ==
  ASSUME TypeOK, Sound, Works, Running, Works'
  PROVE  QueueFits'
<1> USE IdleAssumption DEF AllTasks, dispatchVars, listVars, forkVars, waitVars, Goto
<1>0. TypeOK /\ StatesFit /\ QueueFits /\ ForksFit /\ WaitsFit /\ SleepersFit /\ current \in AllTasks
  BY DEF Sound, TypeOK
<1> USE DEF QueueFits, TypeOK
<1>1. ASSUME NEW t \in Tasks, Fork(t) PROVE QueueFits'
  BY <1>0, <1>1 DEF Fork
<1>2. ASSUME ForkPid PROVE QueueFits'
  BY <1>0, <1>2 DEF ForkPid
<1>3. ASSUME ForkLink PROVE QueueFits'
  BY <1>0, <1>3 DEF ForkLink
<1>4. ASSUME ForkWakeup PROVE QueueFits'
  BY <1>0, <1>4 DEF ForkWakeup, ForksFit, Forking, StatesFit
<1>5. ASSUME Exit PROVE QueueFits'
  BY <1>0, <1>5 DEF Exit
<1>6. ASSUME ExitNotify PROVE QueueFits'
  BY <1>0, <1>6 DEF ExitNotify, SleepersFit, Notifies, Works
<1>7. ASSUME ExitWakeup PROVE QueueFits'
  BY <1>0, <1>7 DEF ExitWakeup, Sound, WakesOne, StatesFit, StateFits
<1>8. ASSUME ExitSwitch PROVE QueueFits'
  BY <1>0, <1>8, Switched DEF ExitSwitch
<1>9. ASSUME NEW p \in OfChildren, Wait4(p) PROVE QueueFits'
  BY <1>0, <1>9 DEF Wait4
<1>10. ASSUME SleepSetState PROVE QueueFits'
  BY <1>0, <1>10 DEF SleepSetState
<1>11. ASSUME SleepLink PROVE QueueFits'
  BY <1>0, <1>11 DEF SleepLink
<1>12. ASSUME SleepSwitch PROVE QueueFits'
  BY <1>0, <1>12, Switched DEF SleepSwitch
<1>13. ASSUME Reap PROVE QueueFits'
  BY <1>0, <1>13 DEF Reap, WaitsFit, Waiting, Alive, Works
<1>14. ASSUME Tick PROVE QueueFits'
  BY <1>0, <1>14, Switched DEF Tick, RetFromIntr
<1> QED
  BY <1>1, <1>2, <1>3, <1>4, <1>5, <1>6, <1>7, <1>8, <1>9, <1>10, <1>11, <1>12, <1>13, <1>14, StepsAre

\* Every step keeps asleep who is on a wait_childexit.
LEMMA SleepersStep ==
  ASSUME TypeOK, Sound, Works, Running, Works'
  PROVE  SleepersFit'
<1> USE IdleAssumption DEF AllTasks, dispatchVars, listVars, forkVars, waitVars, Goto
<1>0. TypeOK /\ StatesFit /\ QueueFits /\ ForksFit /\ WaitsFit /\ SleepersFit /\ current \in AllTasks
  BY DEF Sound, TypeOK
<1> USE DEF SleepersFit, TypeOK
<1>1. ASSUME NEW t \in Tasks, Fork(t) PROVE SleepersFit'
  BY <1>0, <1>1 DEF Fork
<1>2. ASSUME ForkPid PROVE SleepersFit'
  BY <1>0, <1>2 DEF ForkPid
<1>3. ASSUME ForkLink PROVE SleepersFit'
  BY <1>0, <1>3 DEF ForkLink
<1>4. ASSUME ForkWakeup PROVE SleepersFit'
  BY <1>0, <1>4 DEF ForkWakeup, ForksFit, Forking, StatesFit
<1>5. ASSUME Exit PROVE SleepersFit'
  BY <1>0, <1>5 DEF Exit, StatesFit, StateFits
<1>6. ASSUME ExitNotify PROVE SleepersFit'
  BY <1>0, <1>6 DEF ExitNotify, Notifies, Works
<1>7. ASSUME ExitWakeup PROVE SleepersFit'
  BY <1>0, <1>7 DEF ExitWakeup
<1>8. ASSUME ExitSwitch PROVE SleepersFit'
  BY <1>0, <1>8, Switched DEF ExitSwitch
<1>9. ASSUME NEW p \in OfChildren, Wait4(p) PROVE SleepersFit'
  BY <1>0, <1>9 DEF Wait4
<1>10. ASSUME SleepSetState PROVE SleepersFit'
  BY <1>0, <1>10 DEF SleepSetState, StatesFit, StateFits
<1>11. ASSUME SleepLink PROVE SleepersFit'
  BY <1>0, <1>11 DEF SleepLink, StatesFit, StateFits
<1>12. ASSUME SleepSwitch PROVE SleepersFit'
  BY <1>0, <1>12, Switched DEF SleepSwitch
<1>13. ASSUME Reap PROVE SleepersFit'
  BY <1>0, <1>13 DEF Reap, WaitsFit, Waiting, Alive, Works, StatesFit
<1>14. ASSUME Tick PROVE SleepersFit'
  BY <1>0, <1>14, Switched DEF Tick, RetFromIntr
<1> QED
  BY <1>1, <1>2, <1>3, <1>4, <1>5, <1>6, <1>7, <1>8, <1>9, <1>10, <1>11, <1>12, <1>13, <1>14, StepsAre

\* Every step keeps the windows seen.
LEMMA WindowsStep ==
  ASSUME TypeOK, Sound, Works, Running, Works'
  PROVE  WindowsSeen'
<1> USE IdleAssumption DEF AllTasks, dispatchVars, listVars, forkVars, waitVars, Goto
<1>0. TypeOK /\ StatesFit /\ QueueFits /\ WindowsSeen /\ current \in AllTasks
  BY DEF Sound, TypeOK
<1> USE DEF WindowsSeen, Windows, TypeOK
<1>1. ASSUME NEW t \in Tasks, Fork(t) PROVE WindowsSeen'
  BY <1>0, <1>1 DEF Fork
<1>2. ASSUME ForkPid PROVE WindowsSeen'
  BY <1>0, <1>2 DEF ForkPid
<1>3. ASSUME ForkLink PROVE WindowsSeen'
  BY <1>0, <1>3 DEF ForkLink
<1>4. ASSUME ForkWakeup PROVE WindowsSeen'
  BY <1>0, <1>4 DEF ForkWakeup
<1>5. ASSUME Exit PROVE WindowsSeen'
  BY <1>0, <1>5 DEF Exit
<1>6. ASSUME ExitNotify PROVE WindowsSeen'
  BY <1>0, <1>6 DEF ExitNotify
<1>7. ASSUME ExitWakeup PROVE WindowsSeen'
  BY <1>0, <1>7 DEF ExitWakeup
<1>8. ASSUME ExitSwitch PROVE WindowsSeen'
  BY <1>0, <1>8, Switched DEF ExitSwitch
<1>9. ASSUME NEW p \in OfChildren, Wait4(p) PROVE WindowsSeen'
  BY <1>0, <1>9 DEF Wait4
<1>10. ASSUME SleepSetState PROVE WindowsSeen'
  BY <1>0, <1>10 DEF SleepSetState
<1>11. ASSUME SleepLink PROVE WindowsSeen'
  BY <1>0, <1>11 DEF SleepLink
<1>12. ASSUME SleepSwitch PROVE WindowsSeen'
  BY <1>0, <1>12, Switched DEF SleepSwitch
<1>13. ASSUME Reap PROVE WindowsSeen'
  BY <1>0, <1>13 DEF Reap
<1>14. ASSUME Tick PROVE WindowsSeen'
  BY <1>0, <1>14, Switched DEF Tick, RetFromIntr
<1> QED
  BY <1>1, <1>2, <1>3, <1>4, <1>5, <1>6, <1>7, <1>8, <1>9, <1>10, <1>11, <1>12, <1>13, <1>14, StepsAre

\* Every step leaves each do_fork a new task of its own.
LEMMA ForksStep ==
  ASSUME TypeOK, Sound, Works, Running, Works'
  PROVE  ForksFit'
<1> USE IdleAssumption DEF AllTasks, dispatchVars, listVars, forkVars, waitVars, Goto
<1>0. TypeOK /\ StatesFit /\ QueueFits /\ ForksFit /\ WaitsFit /\ SleepersFit /\ WindowsSeen /\ current \in AllTasks
  BY DEF Sound, TypeOK
<1> USE DEF ForksFit, Forking, TypeOK
<1>1. ASSUME NEW t \in Tasks, Fork(t) PROVE ForksFit'
  BY <1>0, <1>1, LifecycleAssumption DEF Fork, StatesFit, StateFits
<1>2. ASSUME ForkPid PROVE ForksFit'
  BY <1>0, <1>2 DEF ForkPid
<1>3. ASSUME ForkLink PROVE ForksFit'
  BY <1>0, <1>3 DEF ForkLink
<1>4. ASSUME ForkWakeup PROVE ForksFit'
  <2>1. \A u \in Tasks : pc'[u] \in Forking =>
          /\ u # current /\ pc'[u] = pc[u] /\ new'[u] = new[u]
          /\ loaded'[u] = loaded[u] /\ behind'[u] = behind[u]
    BY <1>0, <1>4 DEF ForkWakeup
  <2>2. pc[current] \in Forking /\ current \in Tasks
    BY <1>0, <1>4, InCall DEF ForkWakeup
  <2>3. \A u \in Tasks : pc'[u] \in Forking => new[u] # new[current]
    BY <1>0, <2>1, <2>2
  <2>4. \A t \in Tasks : t # new[current] => state'[t] = state[t]
    BY <1>0, <1>4 DEF ForkWakeup
  <2> QED
    BY <1>0, <2>1, <2>3, <2>4
<1>5. ASSUME Exit PROVE ForksFit'
  BY <1>0, <1>5 DEF Exit, StatesFit, StateFits
<1>6. ASSUME ExitNotify PROVE ForksFit'
  BY <1>0, <1>6 DEF ExitNotify, SleepersFit, Notifies, Works
<1>7. ASSUME ExitWakeup PROVE ForksFit'
  BY <1>0, <1>7 DEF ExitWakeup
<1>8. ASSUME ExitSwitch PROVE ForksFit'
  BY <1>0, <1>8, Switched DEF ExitSwitch
<1>9. ASSUME NEW p \in OfChildren, Wait4(p) PROVE ForksFit'
  BY <1>0, <1>9 DEF Wait4
<1>10. ASSUME SleepSetState PROVE ForksFit'
  BY <1>0, <1>10 DEF SleepSetState, StatesFit, StateFits
<1>11. ASSUME SleepLink PROVE ForksFit'
  BY <1>0, <1>11 DEF SleepLink
<1>12. ASSUME SleepSwitch PROVE ForksFit'
  BY <1>0, <1>12, Switched DEF SleepSwitch
<1>13. ASSUME Reap PROVE ForksFit'
  BY <1>0, <1>13 DEF Reap, WaitsFit, Waiting, Alive, Works
<1>14. ASSUME Tick PROVE ForksFit'
  BY <1>0, <1>14, Switched DEF Tick, RetFromIntr
<1> QED
  BY <1>1, <1>2, <1>3, <1>4, <1>5, <1>6, <1>7, <1>8, <1>9, <1>10, <1>11, <1>12, <1>13, <1>14, StepsAre

\* Every step leaves a sys_wait4 its child and its place.
LEMMA WaitsStep ==
  ASSUME TypeOK, Sound, Works, Running, Works'
  PROVE  WaitsFit'
<1> USE IdleAssumption DEF AllTasks, dispatchVars, listVars, forkVars, waitVars, Goto
<1>0. TypeOK /\ StatesFit /\ QueueFits /\ ForksFit /\ WaitsFit /\ SleepersFit /\ WindowsSeen /\ current \in AllTasks
  BY DEF Sound, TypeOK
<1> USE DEF WaitsFit, Waiting, TypeOK
<1>1. ASSUME NEW t \in Tasks, Fork(t) PROVE WaitsFit'
  BY <1>0, <1>1 DEF Fork
<1>2. ASSUME ForkPid PROVE WaitsFit'
  BY <1>0, <1>2 DEF ForkPid
<1>3. ASSUME ForkLink PROVE WaitsFit'
  BY <1>0, <1>3 DEF ForkLink
<1>4. ASSUME ForkWakeup PROVE WaitsFit'
  BY <1>0, <1>4 DEF ForkWakeup
<1>5. ASSUME Exit PROVE WaitsFit'
  BY <1>0, <1>5 DEF Exit
<1>6. ASSUME ExitNotify PROVE WaitsFit'
  BY <1>0, <1>6 DEF ExitNotify
<1>7. ASSUME ExitWakeup PROVE WaitsFit'
  BY <1>0, <1>7 DEF ExitWakeup
<1>8. ASSUME ExitSwitch PROVE WaitsFit'
  BY <1>0, <1>8, Switched DEF ExitSwitch
<1>9. ASSUME NEW p \in OfChildren, Wait4(p) PROVE WaitsFit'
  <2> DEFINE i == First(Before(p))
  <2>1. /\ Entry[i] \in AllTasks /\ Entry[i + 1] \in Tasks
    BY <1>9, Found DEF Wait4
  <2> HIDE DEF i
  <2>2. /\ Goto("run", IF state[Entry[i + 1]] = "ZOMBIE" THEN "reap" ELSE "sleep_set")
        /\ child' = [child EXCEPT ![current] = Entry[i + 1]]
        /\ prev' = [prev EXCEPT ![current] = Entry[i]]
    BY <1>9 DEF Wait4, i
  <2> QED
    BY <1>0, <2>1, <2>2
<1>10. ASSUME SleepSetState PROVE WaitsFit'
  BY <1>0, <1>10 DEF SleepSetState
<1>11. ASSUME SleepLink PROVE WaitsFit'
  BY <1>0, <1>11 DEF SleepLink
<1>12. ASSUME SleepSwitch PROVE WaitsFit'
  BY <1>0, <1>12, Switched DEF SleepSwitch
<1>13. ASSUME Reap PROVE WaitsFit'
  BY <1>0, <1>13 DEF Reap
<1>14. ASSUME Tick PROVE WaitsFit'
  BY <1>0, <1>14, Switched DEF Tick, RetFromIntr
<1> QED
  BY <1>1, <1>2, <1>3, <1>4, <1>5, <1>6, <1>7, <1>8, <1>9, <1>10, <1>11, <1>12, <1>13, <1>14, StepsAre

\* Every step leaves the parent woken by an exit off the run queue until it is put there.
LEMMA WakesStep ==
  ASSUME TypeOK, Sound, Works, Running, Works'
  PROVE  WakesOne'
<1> USE IdleAssumption DEF AllTasks, dispatchVars, listVars, forkVars, waitVars, Goto
<1>0. TypeOK /\ StatesFit /\ QueueFits /\ ForksFit /\ WaitsFit /\ SleepersFit /\ WindowsSeen /\ current \in AllTasks
  BY DEF Sound, TypeOK
<1>00. WakesOne
  BY DEF Sound
<1> USE DEF WakesOne, TypeOK
<1>1. ASSUME NEW t \in Tasks, Fork(t) PROVE WakesOne'
  BY <1>0, <1>1 DEF Fork, StatesFit
<1>2. ASSUME ForkPid PROVE WakesOne'
  BY <1>0, <1>00, <1>2 DEF ForkPid
<1>3. ASSUME ForkLink PROVE WakesOne'
  BY <1>0, <1>00, <1>3 DEF ForkLink
<1>4. ASSUME ForkWakeup PROVE WakesOne'
  BY <1>0, <1>4 DEF ForkWakeup
<1>5. ASSUME Exit PROVE WakesOne'
  BY <1>0, <1>00, <1>5 DEF Exit
<1>6. ASSUME ExitNotify PROVE WakesOne'
  BY <1>0, <1>6 DEF ExitNotify, SleepersFit, Notifies, Works, QueueFits
<1>7. ASSUME ExitWakeup PROVE WakesOne'
  BY <1>0, <1>00, <1>7 DEF ExitWakeup
<1>8. ASSUME ExitSwitch PROVE WakesOne'
  BY <1>0, <1>8, Switched DEF ExitSwitch, StatesFit, StateFits
<1>9. ASSUME NEW p \in OfChildren, Wait4(p) PROVE WakesOne'
  BY <1>0, <1>00, <1>9 DEF Wait4
<1>10. ASSUME SleepSetState PROVE WakesOne'
  BY <1>0, <1>00, <1>10 DEF SleepSetState
<1>11. ASSUME SleepLink PROVE WakesOne'
  BY <1>0, <1>00, <1>11 DEF SleepLink
<1>12. ASSUME SleepSwitch PROVE WakesOne'
  BY <1>0, <1>12, Switched DEF SleepSwitch, StatesFit, StateFits
<1>13. ASSUME Reap PROVE WakesOne'
  BY <1>0, <1>13 DEF Reap
<1>14. ASSUME Tick PROVE WakesOne'
  BY <1>0, <1>00, <1>14, Switched DEF Tick, RetFromIntr, StatesFit, StateFits
<1> QED
  BY <1>1, <1>2, <1>3, <1>4, <1>5, <1>6, <1>7, <1>8, <1>9, <1>10, <1>11, <1>12, <1>13, <1>14, StepsAre

\* History is never forgotten.
LEMMA HitGrows ==
  ASSUME Running
  PROVE  hit \subseteq hit'
  BY StepsAre DEF Fork, ForkPid, ForkLink, ForkWakeup, Exit, ExitNotify, ExitWakeup, ExitSwitch,
     Wait4, SleepSetState, SleepLink, SleepSwitch, Reap, Tick, forkVars, waitVars, dispatchVars, listVars

\* Only a fork makes a task exist, and only wait4 makes it exist no more.
ExistingNext ==
  {t \in Existing : Reap => t # child[current]} \cup {t \in Tasks : ForkLink /\ t = new[current]}

\* So says every step.
LEMMA ExistingStep ==
  ASSUME TypeOK, Sound, Works, Running
  PROVE  Existing' = ExistingNext
<1> USE IdleAssumption DEF AllTasks, dispatchVars, listVars, forkVars, waitVars, Goto
<1>0. TypeOK /\ StatesFit /\ QueueFits /\ ForksFit /\ WaitsFit /\ SleepersFit /\ WindowsSeen /\ current \in AllTasks
  BY DEF Sound, TypeOK
<1> USE DEF TypeOK, ExistingNext
<1>1. ASSUME NEW t \in Tasks, Fork(t) PROVE Existing' = ExistingNext
  <2>1. state[t] = "NONE" /\ current \in Tasks /\ pc[current] = "run" /\ t # current
    BY <1>0, <1>1 DEF Fork, StatesFit
  <2>2. \A u \in Tasks : pc'[u] \in {"store_pid", "link"} <=> u = current \/ pc[u] \in {"store_pid", "link"}
    BY <1>0, <1>1, <2>1 DEF Fork, StatesFit, StateFits, Forking
  <2>3. new'[current] = t /\ \A u \in Tasks \ {current} : new'[u] = new[u]
    BY <1>0, <1>1, <2>1 DEF Fork
  <2>4. \A u \in Tasks : state'[u] = "NONE" <=> state[u] = "NONE" /\ u # t
    BY <1>0, <1>1 DEF Fork
  <2>5. ~ForkLink /\ ~Reap
    BY <2>1 DEF ForkLink, Reap
  <2> QED
    BY <2>1, <2>2, <2>3, <2>4, <2>5 DEF Existing, BeingForked, Exists
<1>2. ASSUME ForkPid PROVE Existing' = ExistingNext
  <2>1. \A u \in Tasks : new'[u] = new[u] /\ (pc'[u] \in {"store_pid", "link"} <=> pc[u] \in {"store_pid", "link"})
    BY <1>0, <1>2 DEF ForkPid
  <2>2. \A u \in Tasks : state'[u] = "NONE" <=> state[u] = "NONE"
    BY <1>0, <1>2 DEF ForkPid
  <2>3. ~ForkLink /\ ~Reap
    BY <1>0, <1>2 DEF ForkPid, ForkLink, Reap
  <2> QED
    BY <2>1, <2>2, <2>3 DEF Existing, BeingForked, Exists
<1>3. ASSUME ForkLink PROVE Existing' = ExistingNext
  <2>1. current \in Tasks /\ new[current] \in Tasks /\ state[new[current]] # "NONE"
    BY <1>0, <1>3, InCall DEF ForkLink, ForksFit, Forking
  <2>2. \A u \in Tasks : pc'[u] \in {"store_pid", "link"} <=> u # current /\ pc[u] \in {"store_pid", "link"}
    BY <1>0, <1>3 DEF ForkLink
  <2>3. \A u \in Tasks : pc[u] \in {"store_pid", "link"} /\ u # current => new[u] # new[current]
    BY <1>0, <1>3, <2>1 DEF ForkLink, ForksFit, Forking
  <2>4. state' = state /\ new' = new /\ ~Reap /\ pc[current] \in {"store_pid", "link"}
    BY <1>0, <1>3 DEF ForkLink, Reap
  <2> QED
    BY <1>3, <2>1, <2>2, <2>3, <2>4 DEF Existing, BeingForked, Exists
<1>4. ASSUME ForkWakeup PROVE Existing' = ExistingNext
  <2>1. current \in Tasks /\ new[current] \in Tasks /\ state[new[current]] # "NONE"
    BY <1>0, <1>4, InCall DEF ForkWakeup, ForksFit, Forking
  <2>2. \A u \in Tasks : pc'[u] \in {"store_pid", "link"} <=> pc[u] \in {"store_pid", "link"}
    BY <1>0, <1>4 DEF ForkWakeup
  <2>3. \A u \in Tasks : pc[u] \in {"store_pid", "link"} => new'[u] = new[u]
    BY <1>0, <1>4 DEF ForkWakeup
  <2>4. \A u \in Tasks : state'[u] = "NONE" <=> state[u] = "NONE"
    BY <1>0, <1>4, <2>1 DEF ForkWakeup
  <2>5. ~ForkLink /\ ~Reap
    BY <1>0, <1>4 DEF ForkWakeup, ForkLink, Reap
  <2> QED
    BY <2>2, <2>3, <2>4, <2>5 DEF Existing, BeingForked, Exists
<1>5. ASSUME Exit PROVE Existing' = ExistingNext
  <2>1. \A u \in Tasks : new'[u] = new[u] /\ (pc'[u] \in {"store_pid", "link"} <=> pc[u] \in {"store_pid", "link"})
    BY <1>0, <1>5 DEF Exit, StatesFit, StateFits
  <2>2. \A u \in Tasks : state'[u] = "NONE" <=> state[u] = "NONE"
    BY <1>0, <1>5 DEF Exit, StatesFit, StateFits
  <2>3. ~ForkLink /\ ~Reap
    BY <1>0, <1>5 DEF Exit, StatesFit, StateFits, ForkLink, Reap
  <2> QED
    BY <2>1, <2>2, <2>3 DEF Existing, BeingForked, Exists
<1>6. ASSUME ExitNotify PROVE Existing' = ExistingNext
  <2>1. \A u \in Tasks : new'[u] = new[u] /\ (pc'[u] \in {"store_pid", "link"} <=> pc[u] \in {"store_pid", "link"})
    BY <1>0, <1>6 DEF ExitNotify, SleepersFit, Notifies
  <2>2. \A u \in Tasks : state'[u] = "NONE" <=> state[u] = "NONE"
    BY <1>0, <1>6 DEF ExitNotify, SleepersFit, Notifies
  <2>3. ~ForkLink /\ ~Reap
    BY <1>0, <1>6 DEF ExitNotify, SleepersFit, Notifies, ForkLink, Reap
  <2> QED
    BY <2>1, <2>2, <2>3 DEF Existing, BeingForked, Exists
<1>7. ASSUME ExitWakeup PROVE Existing' = ExistingNext
  <2>1. \A u \in Tasks : new'[u] = new[u] /\ (pc'[u] \in {"store_pid", "link"} <=> pc[u] \in {"store_pid", "link"})
    BY <1>0, <1>7 DEF ExitWakeup
  <2>2. \A u \in Tasks : state'[u] = "NONE" <=> state[u] = "NONE"
    BY <1>0, <1>7 DEF ExitWakeup
  <2>3. ~ForkLink /\ ~Reap
    BY <1>0, <1>7 DEF ExitWakeup, ForkLink, Reap
  <2> QED
    BY <2>1, <2>2, <2>3 DEF Existing, BeingForked, Exists
<1>8. ASSUME ExitSwitch PROVE Existing' = ExistingNext
  <2>1. \A u \in Tasks : new'[u] = new[u] /\ (pc'[u] \in {"store_pid", "link"} <=> pc[u] \in {"store_pid", "link"})
    BY <1>0, <1>8 DEF ExitSwitch, Reschedule
  <2>2. \A u \in Tasks : state'[u] = "NONE" <=> state[u] = "NONE"
    BY <1>0, <1>8 DEF ExitSwitch, Reschedule
  <2>3. ~ForkLink /\ ~Reap
    BY <1>0, <1>8 DEF ExitSwitch, Reschedule, ForkLink, Reap
  <2> QED
    BY <2>1, <2>2, <2>3 DEF Existing, BeingForked, Exists
<1>9. ASSUME NEW p \in OfChildren, Wait4(p) PROVE Existing' = ExistingNext
  <2>1. \A u \in Tasks : new'[u] = new[u] /\ (pc'[u] \in {"store_pid", "link"} <=> pc[u] \in {"store_pid", "link"})
    BY <1>0, <1>9 DEF Wait4
  <2>2. \A u \in Tasks : state'[u] = "NONE" <=> state[u] = "NONE"
    BY <1>0, <1>9 DEF Wait4
  <2>3. ~ForkLink /\ ~Reap
    BY <1>0, <1>9 DEF Wait4, ForkLink, Reap
  <2> QED
    BY <2>1, <2>2, <2>3 DEF Existing, BeingForked, Exists
<1>10. ASSUME SleepSetState PROVE Existing' = ExistingNext
  <2>1. \A u \in Tasks : new'[u] = new[u] /\ (pc'[u] \in {"store_pid", "link"} <=> pc[u] \in {"store_pid", "link"})
    BY <1>0, <1>10 DEF SleepSetState, StatesFit, StateFits
  <2>2. \A u \in Tasks : state'[u] = "NONE" <=> state[u] = "NONE"
    BY <1>0, <1>10 DEF SleepSetState, StatesFit, StateFits
  <2>3. ~ForkLink /\ ~Reap
    BY <1>0, <1>10 DEF SleepSetState, StatesFit, StateFits, ForkLink, Reap
  <2> QED
    BY <2>1, <2>2, <2>3 DEF Existing, BeingForked, Exists
<1>11. ASSUME SleepLink PROVE Existing' = ExistingNext
  <2>1. \A u \in Tasks : new'[u] = new[u] /\ (pc'[u] \in {"store_pid", "link"} <=> pc[u] \in {"store_pid", "link"})
    BY <1>0, <1>11 DEF SleepLink
  <2>2. \A u \in Tasks : state'[u] = "NONE" <=> state[u] = "NONE"
    BY <1>0, <1>11 DEF SleepLink
  <2>3. ~ForkLink /\ ~Reap
    BY <1>0, <1>11 DEF SleepLink, ForkLink, Reap
  <2> QED
    BY <2>1, <2>2, <2>3 DEF Existing, BeingForked, Exists
<1>12. ASSUME SleepSwitch PROVE Existing' = ExistingNext
  <2>1. \A u \in Tasks : new'[u] = new[u] /\ (pc'[u] \in {"store_pid", "link"} <=> pc[u] \in {"store_pid", "link"})
    BY <1>0, <1>12 DEF SleepSwitch, Reschedule
  <2>2. \A u \in Tasks : state'[u] = "NONE" <=> state[u] = "NONE"
    BY <1>0, <1>12 DEF SleepSwitch, Reschedule
  <2>3. ~ForkLink /\ ~Reap
    BY <1>0, <1>12 DEF SleepSwitch, Reschedule, ForkLink, Reap
  <2> QED
    BY <2>1, <2>2, <2>3 DEF Existing, BeingForked, Exists
<1>13. ASSUME Reap PROVE Existing' = ExistingNext
  <2>1. \A u \in Tasks : pc'[u] \in {"store_pid", "link"} <=> pc[u] \in {"store_pid", "link"}
    BY <1>0, <1>13 DEF Reap
  <2>2. new' = new /\ child[current] \in Tasks
    BY <1>0, <1>13, InCall DEF Reap, WaitsFit, Waiting
  <2>3. \A u \in Tasks : state'[u] = "NONE" <=> state[u] = "NONE" \/ u = child[current]
    BY <1>0, <1>13, <2>2 DEF Reap
  <2>4. ~ForkLink
    BY <1>0, <1>13 DEF Reap, ForkLink
  <2> QED
    BY <1>13, <2>1, <2>2, <2>3, <2>4 DEF Existing, BeingForked, Exists
<1>14. ASSUME Tick PROVE Existing' = ExistingNext
  <2>1. \A u \in Tasks : new'[u] = new[u] /\ (pc'[u] \in {"store_pid", "link"} <=> pc[u] \in {"store_pid", "link"})
    BY <1>0, <1>14 DEF Tick, Reschedule, RetFromIntr
  <2>2. \A u \in Tasks : state'[u] = "NONE" <=> state[u] = "NONE"
    BY <1>0, <1>14 DEF Tick, Reschedule, RetFromIntr
  <2>3. pc' = pc
    BY <1>14 DEF Tick
  <2>4. ~ForkLink /\ ~Reap
    BY <1>0, <1>14, <2>3 DEF ForkLink, Reap
  <2> QED
    BY <2>4, <2>1, <2>2, <2>3 DEF Existing, BeingForked, Exists
<1> QED
  BY <1>1, <1>2, <1>3, <1>4, <1>5, <1>6, <1>7, <1>8, <1>9, <1>10, <1>11, <1>12, <1>13, <1>14, StepsAre

\* While no interrupt has landed in a do_fork, sys_wait4 finds the very child whose pid
\* it was given: no other task has it, be it on the list by mistake.
LEMMA FindsChild ==
  ASSUME TypeOK, Sound, PidsApart, "store_pid" \notin hit, NEW p \in OfChildren, Wait4(p)
  PROVE  LET c == Entry[First(Before(p)) + 1]
         IN  /\ c \in Existing /\ parent[c] = current
             /\ child' = [child EXCEPT ![current] = c]
             /\ pc' = [pc EXCEPT ![current] = IF state[c] = "ZOMBIE" THEN "reap" ELSE "sleep_set"]
<1> DEFINE c == Entry[First(Before(p)) + 1]
<1>1. c \in Tasks /\ pid[c] = p
  BY Found DEF Wait4
<1>2. PICK u \in Existing : pid[u] = p /\ parent[u] = current
  BY DEF OfChildren
<1>3. Copying = {}
  <2>1. pc[current] = "run"
    BY DEF Wait4, Goto
  <2>2. \A v \in Tasks : pc[v] # "store_pid"
    BY <2>1 DEF Sound, WindowsSeen, Windows
  <2> QED
    BY <2>2 DEF Copying
<1>4. /\ child' = [child EXCEPT ![current] = c]
      /\ pc' = [pc EXCEPT ![current] = IF state[c] = "ZOMBIE" THEN "reap" ELSE "sleep_set"]
  BY DEF Wait4, Goto
<1> HIDE DEF c
<1>5. c = u
  BY <1>1, <1>2, <1>3 DEF PidsApart, Existing, Exists
<1> QED
  BY <1>2, <1>4, <1>5 DEF c

\* Every step leaves a task in sys_wait4 its child.
LEMMA ChildrenStep ==
  ASSUME TypeOK, Sound, PidsApart, Works, Running, Works'
  PROVE  ChildrenKept'
<1> DEFINE Kept == \A t \in Tasks : pc[t] \in Waiting => child[t] \in Existing /\ parent[child[t]] = t
<1> SUFFICES ASSUME "store_pid" \notin hit' PROVE Kept'
  BY Zenon DEF ChildrenKept
<1>00. "store_pid" \notin hit /\ Kept
  BY HitGrows DEF Sound, ChildrenKept
<1> USE IdleAssumption DEF AllTasks, dispatchVars, listVars, forkVars, waitVars, Goto
<1>0. TypeOK /\ StatesFit /\ QueueFits /\ ForksFit /\ WaitsFit /\ SleepersFit /\ WindowsSeen /\ current \in AllTasks
  BY DEF Sound, TypeOK
<1>000. Existing' = ExistingNext
  BY ExistingStep
<1> USE DEF TypeOK
<1>1. ASSUME NEW t \in Tasks, Fork(t) PROVE Kept'
  <2>1. \A u \in Tasks : pc'[u] \in Waiting => pc[u] \in Waiting /\ child'[u] = child[u]
    BY <1>0, <1>1 DEF Fork, Waiting
  <2>2. t \notin Existing /\ \A u \in Tasks \ {t} : parent'[u] = parent[u]
    BY <1>0, <1>1 DEF Fork, Existing, Exists
  <2>3. ~Reap
    BY <1>1 DEF Fork, Reap
  <2>4. Existing \subseteq Tasks
    BY DEF Existing
  <2> QED
    BY <2>1, <2>2, <2>3, <2>4, <1>00, <1>000 DEF ExistingNext
<1>2. ASSUME ForkPid PROVE Kept'
  <2>1. \A t \in Tasks : pc'[t] \in Waiting => pc[t] \in Waiting /\ child'[t] = child[t]
    BY <1>0, <1>2 DEF ForkPid, Waiting
  <2>2. UNCHANGED parent /\ ~Reap
    BY <1>0, <1>2 DEF ForkPid, Reap
  <2> QED
    BY <2>1, <2>2, <1>00, <1>000 DEF ExistingNext
<1>3. ASSUME ForkLink PROVE Kept'
  <2>1. \A u \in Tasks : pc'[u] \in Waiting => pc[u] \in Waiting /\ child'[u] = child[u]
    BY <1>0, <1>3 DEF ForkLink, Waiting
  <2>2. new[current] \notin Existing /\ \A u \in Tasks \ {new[current]} : parent'[u] = parent[u]
    BY <1>0, <1>3, InCall DEF ForkLink, Existing, BeingForked
  <2>3. ~Reap
    BY <1>3 DEF ForkLink, Reap
  <2>4. Existing \subseteq Tasks
    BY DEF Existing
  <2> QED
    BY <2>1, <2>2, <2>3, <2>4, <1>00, <1>000 DEF ExistingNext
<1>4. ASSUME ForkWakeup PROVE Kept'
  <2>1. \A t \in Tasks : pc'[t] \in Waiting => pc[t] \in Waiting /\ child'[t] = child[t]
    BY <1>0, <1>4 DEF ForkWakeup, Waiting
  <2>2. UNCHANGED parent /\ ~Reap
    BY <1>0, <1>4 DEF ForkWakeup, Reap
  <2> QED
    BY <2>1, <2>2, <1>00, <1>000 DEF ExistingNext
<1>5. ASSUME Exit PROVE Kept'
  <2>1. \A t \in Tasks : pc'[t] \in Waiting => pc[t] \in Waiting /\ child'[t] = child[t]
    BY <1>0, <1>5 DEF Exit, Waiting
  <2>2. UNCHANGED parent /\ ~Reap
    BY <1>0, <1>5 DEF Exit, Reap
  <2> QED
    BY <2>1, <2>2, <1>00, <1>000 DEF ExistingNext
<1>6. ASSUME ExitNotify PROVE Kept'
  <2>1. \A t \in Tasks : pc'[t] \in Waiting => pc[t] \in Waiting /\ child'[t] = child[t]
    BY <1>0, <1>6 DEF ExitNotify, Waiting
  <2>2. UNCHANGED parent /\ ~Reap
    BY <1>0, <1>6 DEF ExitNotify, Reap
  <2> QED
    BY <2>1, <2>2, <1>00, <1>000 DEF ExistingNext
<1>7. ASSUME ExitWakeup PROVE Kept'
  <2>1. \A t \in Tasks : pc'[t] \in Waiting => pc[t] \in Waiting /\ child'[t] = child[t]
    BY <1>0, <1>7 DEF ExitWakeup, Waiting
  <2>2. UNCHANGED parent /\ ~Reap
    BY <1>0, <1>7 DEF ExitWakeup, Reap
  <2> QED
    BY <2>1, <2>2, <1>00, <1>000 DEF ExistingNext
<1>8. ASSUME ExitSwitch PROVE Kept'
  <2>1. \A t \in Tasks : pc'[t] \in Waiting => pc[t] \in Waiting /\ child'[t] = child[t]
    BY <1>0, <1>8 DEF ExitSwitch, Waiting, Reschedule
  <2>2. UNCHANGED parent /\ ~Reap
    BY <1>0, <1>8 DEF ExitSwitch, Reap
  <2> QED
    BY <2>1, <2>2, <1>00, <1>000 DEF ExistingNext
<1>9. ASSUME NEW p \in OfChildren, Wait4(p) PROVE Kept'
  <2> DEFINE c == Entry[First(Before(p)) + 1]
  <2>1. /\ c \in Existing /\ parent[c] = current
        /\ child' = [child EXCEPT ![current] = c]
        /\ pc' = [pc EXCEPT ![current] = IF state[c] = "ZOMBIE" THEN "reap" ELSE "sleep_set"]
    BY <1>0, <1>9, <1>00, FindsChild
  <2> HIDE DEF c
  <2>2. UNCHANGED parent /\ ~Reap
    BY <1>9 DEF Wait4, Reap
  <2>3. ASSUME NEW t \in Tasks, pc'[t] \in Waiting
        PROVE  child'[t] \in Existing /\ parent[child'[t]] = t
    <3>1. CASE t = current
      BY <1>0, <2>1, <3>1
    <3>2. CASE t # current
      BY <1>0, <1>00, <2>1, <2>3, <3>2
    <3> QED
      BY <3>1, <3>2
  <2> QED
    BY <2>2, <2>3, <1>000 DEF ExistingNext
<1>10. ASSUME SleepSetState PROVE Kept'
  <2>1. \A t \in Tasks : pc'[t] \in Waiting => pc[t] \in Waiting /\ child'[t] = child[t]
    BY <1>0, <1>10 DEF SleepSetState, Waiting
  <2>2. UNCHANGED parent /\ ~Reap
    BY <1>0, <1>10 DEF SleepSetState, Reap
  <2> QED
    BY <2>1, <2>2, <1>00, <1>000 DEF ExistingNext
<1>11. ASSUME SleepLink PROVE Kept'
  <2>1. \A t \in Tasks : pc'[t] \in Waiting => pc[t] \in Waiting /\ child'[t] = child[t]
    BY <1>0, <1>11 DEF SleepLink, Waiting
  <2>2. UNCHANGED parent /\ ~Reap
    BY <1>0, <1>11 DEF SleepLink, Reap
  <2> QED
    BY <2>1, <2>2, <1>00, <1>000 DEF ExistingNext
<1>12. ASSUME SleepSwitch PROVE Kept'
  <2>1. \A t \in Tasks : pc'[t] \in Waiting => pc[t] \in Waiting /\ child'[t] = child[t]
    BY <1>0, <1>12 DEF SleepSwitch, Waiting, Reschedule
  <2>2. UNCHANGED parent /\ ~Reap
    BY <1>0, <1>12 DEF SleepSwitch, Reap
  <2> QED
    BY <2>1, <2>2, <1>00, <1>000 DEF ExistingNext
<1>13. ASSUME Reap PROVE Kept'
  <2>1. \A u \in Tasks : pc'[u] \in Waiting => pc[u] \in Waiting /\ child'[u] = child[u] /\ u # current
    BY <1>0, <1>13 DEF Reap, Waiting
  <2>2. UNCHANGED parent /\ current \in Tasks /\ pc[current] \in Waiting
    BY <1>0, <1>13, InCall DEF Reap, Waiting
  <2> QED
    BY <2>1, <2>2, <1>00, <1>000 DEF ExistingNext
<1>14. ASSUME Tick PROVE Kept'
  <2>1. UNCHANGED <<pc, child, parent>>
    BY <1>14 DEF Tick
  <2>2. ~Reap
    BY <1>0, <1>14, <2>1 DEF Reap
  <2> QED
    BY <2>1, <2>2, <1>00, <1>000 DEF ExistingNext
<1> QED
  BY <1>1, <1>2, <1>3, <1>4, <1>5, <1>6, <1>7, <1>8, <1>9, <1>10, <1>11, <1>12, <1>13, <1>14, StepsAre

\* Every step wakes a task in sys_wait4 for its own child only.
LEMMA DeadStep ==
  ASSUME TypeOK, Sound, PidsApart, Works, Running, Works'
  PROVE  ReapsDead'
<1> DEFINE Kept == \A t \in Tasks : pc[t] \in {"sleep_switch", "reap"} /\ state[t] = "RUNNING"
                             => state[child[t]] = "ZOMBIE"
<1> SUFFICES ASSUME hit' \cap {"wrong_child", "store_pid"} = {} PROVE Kept'
  BY Zenon DEF ReapsDead
<1>00. hit \cap {"wrong_child", "store_pid"} = {} /\ Kept
  BY HitGrows DEF Sound, ReapsDead
<1> USE IdleAssumption DEF AllTasks, dispatchVars, listVars, forkVars, waitVars, Goto
<1>0. TypeOK /\ StatesFit /\ QueueFits /\ ForksFit /\ WaitsFit /\ SleepersFit /\ WindowsSeen /\ ChildrenKept /\ current \in AllTasks
  BY DEF Sound, TypeOK
<1> USE DEF TypeOK
<1>1. ASSUME NEW t \in Tasks, Fork(t) PROVE Kept'
  <2>1. \A u \in Tasks : pc'[u] \in {"sleep_switch", "reap"} /\ state'[u] = "RUNNING" =>
          pc[u] \in {"sleep_switch", "reap"} /\ state[u] = "RUNNING" /\ child'[u] = child[u]
    BY <1>0, <1>1 DEF Fork
  <2>2. \A u \in Tasks : state[u] = "ZOMBIE" => state'[u] = "ZOMBIE"
    BY <1>0, <1>1 DEF Fork
  <2> QED
    BY <1>0, <1>00, <2>1, <2>2 DEF WaitsFit, Waiting
<1>2. ASSUME ForkPid PROVE Kept'
  <2>1. \A t \in Tasks : pc'[t] \in {"sleep_switch", "reap"} /\ state'[t] = "RUNNING" =>
          pc[t] \in {"sleep_switch", "reap"} /\ state[t] = "RUNNING" /\ child'[t] = child[t]
    BY <1>0, <1>2 DEF ForkPid
  <2>2. \A t \in Tasks : state[t] = "ZOMBIE" => state'[t] = "ZOMBIE"
    BY <1>0, <1>2 DEF ForkPid
  <2> QED
    BY <1>0, <1>00, <2>1, <2>2 DEF WaitsFit, Waiting
<1>3. ASSUME ForkLink PROVE Kept'
  <2>1. \A t \in Tasks : pc'[t] \in {"sleep_switch", "reap"} /\ state'[t] = "RUNNING" =>
          pc[t] \in {"sleep_switch", "reap"} /\ state[t] = "RUNNING" /\ child'[t] = child[t]
    BY <1>0, <1>3 DEF ForkLink
  <2>2. \A t \in Tasks : state[t] = "ZOMBIE" => state'[t] = "ZOMBIE"
    BY <1>0, <1>3 DEF ForkLink
  <2> QED
    BY <1>0, <1>00, <2>1, <2>2 DEF WaitsFit, Waiting
<1>4. ASSUME ForkWakeup PROVE Kept'
  <2>1. \A t \in Tasks : pc'[t] \in {"sleep_switch", "reap"} /\ state'[t] = "RUNNING" =>
          pc[t] \in {"sleep_switch", "reap"} /\ state[t] = "RUNNING" /\ child'[t] = child[t]
    BY <1>0, <1>4 DEF ForkWakeup, ForksFit, Forking, StatesFit, StateFits
  <2>2. \A t \in Tasks : state[t] = "ZOMBIE" => state'[t] = "ZOMBIE"
    BY <1>0, <1>4 DEF ForkWakeup, ForksFit, Forking, StatesFit, StateFits
  <2> QED
    BY <1>0, <1>00, <2>1, <2>2 DEF WaitsFit, Waiting
<1>5. ASSUME Exit PROVE Kept'
  <2>1. \A t \in Tasks : pc'[t] \in {"sleep_switch", "reap"} /\ state'[t] = "RUNNING" =>
          pc[t] \in {"sleep_switch", "reap"} /\ state[t] = "RUNNING" /\ child'[t] = child[t]
    BY <1>0, <1>5 DEF Exit, StatesFit, StateFits
  <2>2. \A t \in Tasks : state[t] = "ZOMBIE" => state'[t] = "ZOMBIE"
    BY <1>0, <1>5 DEF Exit, StatesFit, StateFits
  <2> QED
    BY <1>0, <1>00, <2>1, <2>2 DEF WaitsFit, Waiting
<1>6. ASSUME ExitNotify PROVE Kept'
  <2> DEFINE q == parent[current]
  <2>1. CASE UNCHANGED <<state, child>> /\ Goto("notify", "exit_switch")
    BY <1>0, <1>00, <2>1
  <2>2. CASE /\ Exists(q) /\ Notifies(q) /\ Goto("notify", "notify_queue")
             /\ state' = [state EXCEPT ![q] = "RUNNING"] /\ UNCHANGED child
             /\ hit' = hit \cup (IF child[q] # current THEN {"wrong_child"} ELSE {})
    <3>1. child[q] = current /\ q \in Tasks /\ state[q] = "INTERRUPTIBLE"
      BY <1>0, <2>2 DEF Notifies
    <3>2. current \in Tasks /\ state[current] = "ZOMBIE"
      BY <1>0, <2>2, InCall DEF StatesFit, StateFits
    <3> HIDE DEF q
    <3> QED
      BY <1>0, <1>00, <2>2, <3>1, <3>2
  <2> QED
    BY <1>6, <2>1, <2>2 DEF ExitNotify, Works
<1>7. ASSUME ExitWakeup PROVE Kept'
  <2>1. \A t \in Tasks : pc'[t] \in {"sleep_switch", "reap"} /\ state'[t] = "RUNNING" =>
          pc[t] \in {"sleep_switch", "reap"} /\ state[t] = "RUNNING" /\ child'[t] = child[t]
    BY <1>0, <1>7 DEF ExitWakeup
  <2>2. \A t \in Tasks : state[t] = "ZOMBIE" => state'[t] = "ZOMBIE"
    BY <1>0, <1>7 DEF ExitWakeup
  <2> QED
    BY <1>0, <1>00, <2>1, <2>2 DEF WaitsFit, Waiting
<1>8. ASSUME ExitSwitch PROVE Kept'
  <2>1. \A t \in Tasks : pc'[t] \in {"sleep_switch", "reap"} /\ state'[t] = "RUNNING" =>
          pc[t] \in {"sleep_switch", "reap"} /\ state[t] = "RUNNING" /\ child'[t] = child[t]
    BY <1>0, <1>8 DEF ExitSwitch, Reschedule
  <2>2. \A t \in Tasks : state[t] = "ZOMBIE" => state'[t] = "ZOMBIE"
    BY <1>0, <1>8 DEF ExitSwitch, Reschedule
  <2> QED
    BY <1>0, <1>00, <2>1, <2>2 DEF WaitsFit, Waiting
<1>9. ASSUME NEW p \in OfChildren, Wait4(p) PROVE Kept'
  <2> DEFINE c == Entry[First(Before(p)) + 1]
  <2>1. /\ child' = [child EXCEPT ![current] = c]
        /\ pc' = [pc EXCEPT ![current] = IF state[c] = "ZOMBIE" THEN "reap" ELSE "sleep_set"]
        /\ state' = state
    BY <1>0, <1>00, <1>9, FindsChild DEF Wait4
  <2> HIDE DEF c
  <2> QED
    BY <1>0, <1>00, <2>1
<1>10. ASSUME SleepSetState PROVE Kept'
  <2>1. \A t \in Tasks : pc'[t] \in {"sleep_switch", "reap"} /\ state'[t] = "RUNNING" =>
          pc[t] \in {"sleep_switch", "reap"} /\ state[t] = "RUNNING" /\ child'[t] = child[t]
    BY <1>0, <1>10 DEF SleepSetState, StatesFit, StateFits, Forking
  <2>2. \A t \in Tasks : state[t] = "ZOMBIE" => state'[t] = "ZOMBIE"
    BY <1>0, <1>10 DEF SleepSetState, StatesFit, StateFits, Forking
  <2> QED
    BY <1>0, <1>00, <2>1, <2>2 DEF WaitsFit, Waiting
<1>11. ASSUME SleepLink PROVE Kept'
  <2>1. \A t \in Tasks : pc'[t] \in {"sleep_switch", "reap"} /\ state'[t] = "RUNNING" =>
          pc[t] \in {"sleep_switch", "reap"} /\ state[t] = "RUNNING" /\ child'[t] = child[t]
    BY <1>0, <1>11 DEF SleepLink, StatesFit, StateFits, Forking
  <2>2. \A t \in Tasks : state[t] = "ZOMBIE" => state'[t] = "ZOMBIE"
    BY <1>0, <1>11 DEF SleepLink, StatesFit, StateFits, Forking
  <2> QED
    BY <1>0, <1>00, <2>1, <2>2 DEF WaitsFit, Waiting
<1>12. ASSUME SleepSwitch PROVE Kept'
  <2>1. \A t \in Tasks : pc'[t] \in {"sleep_switch", "reap"} /\ state'[t] = "RUNNING" =>
          pc[t] \in {"sleep_switch", "reap"} /\ state[t] = "RUNNING" /\ child'[t] = child[t]
    BY <1>0, <1>12 DEF SleepSwitch, Reschedule
  <2>2. \A t \in Tasks : state[t] = "ZOMBIE" => state'[t] = "ZOMBIE"
    BY <1>0, <1>12 DEF SleepSwitch, Reschedule
  <2> QED
    BY <1>0, <1>00, <2>1, <2>2 DEF WaitsFit, Waiting
<1>13. ASSUME Reap PROVE Kept'
  <2>1. \A u \in Tasks : pc'[u] \in {"sleep_switch", "reap"} =>
          pc[u] \in {"sleep_switch", "reap"} /\ child'[u] = child[u] /\ u # current
    BY <1>0, <1>13 DEF Reap
  <2>2. current \in Tasks /\ pc[current] = "reap" /\ child[current] \in Tasks
    BY <1>0, <1>13, InCall DEF Reap, WaitsFit, Waiting
  <2>3. \A u \in Tasks : pc'[u] \in {"sleep_switch", "reap"} => child[u] # child[current]
    BY <1>0, <1>00, <2>1, <2>2 DEF ChildrenKept, Waiting
  <2>4. \A u \in Tasks : u # child[current] => state'[u] = state[u]
    BY <1>0, <1>13 DEF Reap
  <2>5. \A u \in Tasks : state'[u] = "RUNNING" => state[u] = "RUNNING"
    BY <1>0, <1>13, <2>2 DEF Reap
  <2> QED
    BY <1>0, <1>00, <2>1, <2>3, <2>4, <2>5 DEF WaitsFit, Waiting
<1>14. ASSUME Tick PROVE Kept'
  <2>1. \A t \in Tasks : pc'[t] \in {"sleep_switch", "reap"} /\ state'[t] = "RUNNING" =>
          pc[t] \in {"sleep_switch", "reap"} /\ state[t] = "RUNNING" /\ child'[t] = child[t]
    BY <1>0, <1>14 DEF Tick, Reschedule, RetFromIntr
  <2>2. \A t \in Tasks : state[t] = "ZOMBIE" => state'[t] = "ZOMBIE"
    BY <1>0, <1>14 DEF Tick, Reschedule, RetFromIntr
  <2> QED
    BY <1>0, <1>00, <2>1, <2>2 DEF WaitsFit, Waiting
<1> QED
  BY <1>1, <1>2, <1>3, <1>4, <1>5, <1>6, <1>7, <1>8, <1>9, <1>10, <1>11, <1>12, <1>13, <1>14, StepsAre

\* No step frees the parent of a task that lives without its being seen.
LEMMA ParentsStep ==
  ASSUME TypeOK, Sound, PidsApart, Works, Running, Works'
  PROVE  ParentsExist'
<1> DEFINE Kept == \A t \in Tasks : Alive(t) \/ t = current => Exists(parent[t])
<1> SUFFICES ASSUME "orphaned" \notin hit' PROVE Kept'
  BY Zenon DEF ParentsExist
<1>00. "orphaned" \notin hit /\ Kept
  BY HitGrows DEF Sound, ParentsExist
<1> USE IdleAssumption DEF AllTasks, dispatchVars, listVars, forkVars, waitVars, Goto
<1>0. TypeOK /\ StatesFit /\ QueueFits /\ ForksFit /\ WaitsFit /\ SleepersFit /\ WindowsSeen /\ ChildrenKept /\ current \in AllTasks
  BY DEF Sound, TypeOK
<1> USE DEF TypeOK
<1>1. ASSUME NEW t \in Tasks, Fork(t) PROVE Kept'
  <2>1. current \in Tasks /\ Exists(parent[current]) /\ parent[current] # t /\ state[t] = "NONE"
    BY <1>0, <1>00, <1>1 DEF Fork, Exists
  <2>2. parent' = [parent EXCEPT ![t] = parent[current]] /\ state' = [state EXCEPT ![t] = "UNINTERRUPTIBLE"] /\ current' = current
    BY <1>1 DEF Fork
  <2>3. \A u \in AllTasks : Exists(u) => state'[u] # "NONE"
    BY <1>0, <2>2 DEF Exists
  <2>4. ASSUME NEW u \in Tasks, state'[u] \notin {"NONE", "ZOMBIE"} \/ u = current'
        PROVE  state'[parent'[u]] # "NONE"
    <3>1. CASE u = t
      BY <1>0, <2>1, <2>2, <2>3, <3>1
    <3>2. CASE u # t
      BY <1>0, <1>00, <2>2, <2>3, <2>4, <3>2 DEF Alive, Exists
    <3> QED
      BY <3>1, <3>2
  <2> QED
    BY <2>4 DEF Alive, Exists
<1>2. ASSUME ForkPid PROVE Kept'
  BY <1>0, <1>00, <1>2 DEF ForkPid, Alive, Exists
<1>3. ASSUME ForkLink PROVE Kept'
  <2>1. current \in Tasks /\ state[current] # "NONE" /\ state' = state /\ current' = current
    BY <1>0, <1>3, InCall DEF ForkLink, StatesFit
  <2>2. \A u \in Tasks : parent'[u] = parent[u] \/ parent'[u] = current
    BY <1>0, <1>3 DEF ForkLink
  <2> QED
    BY <1>0, <1>00, <2>1, <2>2 DEF Alive, Exists
<1>4. ASSUME ForkWakeup PROVE Kept'
  <2>1. new[current] \in Tasks /\ state[new[current]] = "UNINTERRUPTIBLE" /\ parent' = parent /\ current' = current
    BY <1>0, <1>4, InCall DEF ForkWakeup, ForksFit, Forking
  <2>2. \A u \in AllTasks : (state'[u] = "NONE" <=> state[u] = "NONE") /\ (state'[u] = "ZOMBIE" <=> state[u] = "ZOMBIE")
    BY <1>0, <1>4, <2>1 DEF ForkWakeup
  <2> QED
    BY <1>0, <1>00, <2>1, <2>2 DEF Alive, Exists
<1>5. ASSUME Exit PROVE Kept'
  BY <1>0, <1>00, <1>5 DEF Exit, Alive, Exists
<1>6. ASSUME ExitNotify PROVE Kept'
  BY <1>0, <1>00, <1>6 DEF ExitNotify, Alive, Exists, Notifies, SleepersFit, Works
<1>7. ASSUME ExitWakeup PROVE Kept'
  BY <1>0, <1>00, <1>7 DEF ExitWakeup, Alive, Exists
<1>8. ASSUME ExitSwitch PROVE Kept'
  BY <1>0, <1>00, <1>8, Switched DEF ExitSwitch, Alive, Exists
<1>9. ASSUME NEW p \in OfChildren, Wait4(p) PROVE Kept'
  BY <1>0, <1>00, <1>9 DEF Wait4, Alive, Exists
<1>10. ASSUME SleepSetState PROVE Kept'
  BY <1>0, <1>00, <1>10 DEF SleepSetState, Alive, Exists, StatesFit
<1>11. ASSUME SleepLink PROVE Kept'
  BY <1>0, <1>00, <1>11 DEF SleepLink, Alive, Exists
<1>12. ASSUME SleepSwitch PROVE Kept'
  BY <1>0, <1>00, <1>12, Switched DEF SleepSwitch, Alive, Exists
<1>13. ASSUME Reap PROVE Kept'
  <2>1. \A u \in Tasks : parent[u] = child[current] => ~Alive(u)
    BY <1>0, <1>00, <1>13 DEF Reap
  <2>2. current \in Tasks /\ Alive(current) /\ child[current] \in Tasks
    BY <1>0, <1>13, InCall DEF Reap, WaitsFit, Waiting, StatesFit, Alive
  <2>3. UNCHANGED <<parent, current>> /\ state' = [state EXCEPT ![child[current]] = "NONE"]
    BY <1>13 DEF Reap
  <2>4. \A u \in Tasks : state'[u] \notin {"NONE", "ZOMBIE"} => Alive(u)
    BY <1>0, <2>2, <2>3 DEF Alive
  <2>5. \A u \in AllTasks : u # child[current] => state'[u] = state[u]
    BY <1>0, <2>2, <2>3
  <2> QED
    BY <1>0, <1>00, <2>1, <2>2, <2>3, <2>4, <2>5 DEF Alive, Exists
<1>14. ASSUME Tick PROVE Kept'
  BY <1>0, <1>00, <1>14, Switched DEF Tick, Alive, Exists, RetFromIntr
<1> QED
  BY <1>1, <1>2, <1>3, <1>4, <1>5, <1>6, <1>7, <1>8, <1>9, <1>10, <1>11, <1>12, <1>13, <1>14, StepsAre

\* While no interrupt has landed there, only the running task is between the load and the
\* store of global_pid++.
LEMMA OnlyCopying ==
  ASSUME Sound, "store_pid" \notin hit, pc[current] # "store_pid"
  PROVE  \A v \in Tasks : pc[v] # "store_pid"
  BY DEF Sound, WindowsSeen, Windows

\* Every step gives no pid a second time.
LEMMA PidsStep ==
  ASSUME TypeOK, Sound, PidsApart, Works, Running
  PROVE  PidsApart'
<1> DEFINE Kept == /\ \A t \in Tasks : pid[t] < global_pid
                   /\ \A u, t \in Tasks \ Copying : Exists(u) /\ t # u => pid[t] # pid[u]
                   /\ Works => \A t \in Tasks : pc[t] = "store_pid" => loaded[t] = global_pid
<1> SUFFICES ASSUME "store_pid" \notin hit' PROVE Kept'
  BY Zenon DEF PidsApart
<1>00. "store_pid" \notin hit /\ Kept
  BY HitGrows DEF Sound, PidsApart
<1> USE IdleAssumption DEF AllTasks, dispatchVars, listVars, forkVars, waitVars, Goto
<1>0. TypeOK /\ StatesFit /\ QueueFits /\ ForksFit /\ WaitsFit /\ SleepersFit /\ WindowsSeen /\ ChildrenKept /\ current \in AllTasks
  BY DEF Sound, TypeOK
<1> USE DEF TypeOK
<1>1. ASSUME NEW t \in Tasks, Fork(t) PROVE Kept'
  <2>1. \A v \in Tasks : pc[v] # "store_pid"
    BY <1>0, <1>00, <1>1, OnlyCopying DEF Fork
  <2>2. current \in Tasks /\ t # current
    BY <1>0, <1>1 DEF Fork, StatesFit
  <2>3. \A v \in Tasks : pc'[v] = "store_pid" <=> v = current
    BY <1>0, <1>1, <2>1, <2>2 DEF Fork
  <2>4. new'[current] = t
    BY <1>0, <1>1 DEF Fork
  <2>5. Copying = {} /\ Copying' = {t}
    BY <2>1, <2>2, <2>3, <2>4 DEF Copying
  <2>6. global_pid' = global_pid /\ loaded'[current] = global_pid /\ pid' = [pid EXCEPT ![t] = pid[current]]
    BY <1>0, <1>1 DEF Fork
  <2>7. \A u \in Tasks \ {t} : state'[u] = state[u] /\ pid'[u] = pid[u]
    BY <1>0, <1>1 DEF Fork
  <2>8. \A u \in Tasks : pid'[u] < global_pid'
    BY <1>0, <1>00, <2>2, <2>6, <2>7
  <2> QED
    BY <1>00, <2>3, <2>5, <2>6, <2>7, <2>8 DEF Exists
<1>2. ASSUME ForkPid PROVE Kept'
  <2>1. current \in Tasks /\ pc[current] = "store_pid"
    BY <1>0, <1>2, InCall DEF ForkPid
  <2>2. \A v \in Tasks : pc[v] = "store_pid" <=> v = current
    BY <1>00, <2>1 DEF Sound, WindowsSeen, Windows
  <2>3. \A v \in Tasks : pc'[v] # "store_pid"
    BY <1>0, <1>2, <2>2 DEF ForkPid
  <2> DEFINE n == new[current]
  <2>4. n \in Tasks /\ loaded[current] = global_pid
    <3>1. pc[current] \in Forking
      BY <2>1 DEF Forking
    <3>2. n \in Tasks
      BY <1>0, <2>1, <3>1 DEF ForksFit
    <3>3. loaded[current] = global_pid
      BY <1>0, <1>00, <2>1
    <3> QED
      BY <3>2, <3>3
  <2>5. Copying = {n} /\ Copying' = {}
    BY <2>1, <2>2, <2>3 DEF Copying
  <2>6. global_pid' = global_pid + 1 /\ state' = state
        /\ pid'[n] = global_pid /\ \A u \in Tasks \ {n} : pid'[u] = pid[u]
    BY <1>0, <1>2, <2>4 DEF ForkPid
  <2> HIDE DEF n
  <2>7. \A u \in Tasks : pid'[u] < global_pid'
    BY <1>0, <1>00, <2>4, <2>6
  <2>8. \A u \in Tasks \ {n} : pid'[u] # pid'[n]
    BY <1>0, <1>00, <2>4, <2>6
  <2>9. \A u, t \in Tasks \ {n} : state[u] # "NONE" /\ t # u => pid'[t] # pid'[u]
    <3>1. \A u, t \in Tasks \ Copying : Exists(u) /\ t # u => pid[t] # pid[u]
      BY <1>00
    <3>2. \A u, t \in Tasks \ {n} : state[u] # "NONE" /\ t # u => pid[t] # pid[u]
      BY <2>5, <3>1 DEF Exists
    <3> QED
      BY <2>6, <3>2
  <2> QED
    BY <2>3, <2>5, <2>6, <2>7, <2>8, <2>9 DEF Exists
<1>3. ASSUME ForkLink PROVE Kept'
  <2>1. \A v \in Tasks : pc[v] # "store_pid" /\ pc'[v] # "store_pid"
    BY <1>0, <1>00, <1>3, OnlyCopying DEF ForkLink
  <2>2. UNCHANGED <<pid, global_pid>> /\ \A u \in Tasks : state'[u] # "NONE" => state[u] # "NONE"
    BY <1>0, <1>3 DEF ForkLink
  <2> QED
    BY <1>00, <2>1, <2>2 DEF Copying, Exists
<1>4. ASSUME ForkWakeup PROVE Kept'
  <2>1. \A v \in Tasks : pc[v] # "store_pid" /\ pc'[v] # "store_pid"
    BY <1>0, <1>00, <1>4, OnlyCopying DEF ForkWakeup
  <2>2. UNCHANGED <<pid, global_pid>> /\ \A u \in Tasks : state'[u] # "NONE" => state[u] # "NONE"
    <3>1. new[current] \in Tasks /\ state[new[current]] = "UNINTERRUPTIBLE"
      BY <1>0, <1>4, InCall DEF ForkWakeup, ForksFit, Forking
    <3>2. UNCHANGED <<pid, global_pid>> /\ state' = [state EXCEPT ![new[current]] = "RUNNING"]
      BY <1>4 DEF ForkWakeup
    <3> QED
      BY <1>0, <3>1, <3>2
  <2> QED
    BY <1>00, <2>1, <2>2 DEF Copying, Exists
<1>5. ASSUME Exit PROVE Kept'
  <2>1. \A v \in Tasks : pc[v] # "store_pid" /\ pc'[v] # "store_pid"
    BY <1>0, <1>00, <1>5, OnlyCopying DEF Exit, StatesFit
  <2>2. UNCHANGED <<pid, global_pid>> /\ \A u \in Tasks : state'[u] # "NONE" => state[u] # "NONE"
    BY <1>0, <1>5 DEF Exit, StatesFit
  <2> QED
    BY <1>00, <2>1, <2>2 DEF Copying, Exists
<1>6. ASSUME ExitNotify PROVE Kept'
  <2>1. \A v \in Tasks : pc[v] # "store_pid" /\ pc'[v] # "store_pid"
    <3>1. \A v \in Tasks : pc[v] # "store_pid"
      <4>1. pc[current] = "notify"
        BY <1>6 DEF ExitNotify
      <4> QED
        BY <1>0, <1>00, <4>1, OnlyCopying
    <3> QED
      BY <1>0, <1>6, <3>1 DEF ExitNotify
  <2>2. UNCHANGED <<pid, global_pid>> /\ \A u \in Tasks : state'[u] # "NONE" => state[u] # "NONE"
    BY <1>0, <1>6 DEF ExitNotify, Notifies, SleepersFit
  <2> QED
    BY <1>00, <2>1, <2>2 DEF Copying, Exists
<1>7. ASSUME ExitWakeup PROVE Kept'
  <2>1. \A v \in Tasks : pc[v] # "store_pid" /\ pc'[v] # "store_pid"
    BY <1>0, <1>00, <1>7, OnlyCopying DEF ExitWakeup
  <2>2. UNCHANGED <<pid, global_pid>> /\ \A u \in Tasks : state'[u] # "NONE" => state[u] # "NONE"
    BY <1>0, <1>7 DEF ExitWakeup
  <2> QED
    BY <1>00, <2>1, <2>2 DEF Copying, Exists
<1>8. ASSUME ExitSwitch PROVE Kept'
  <2>1. \A v \in Tasks : pc[v] # "store_pid" /\ pc'[v] # "store_pid"
    BY <1>0, <1>00, <1>8, OnlyCopying DEF ExitSwitch, Reschedule
  <2>2. UNCHANGED <<pid, global_pid>> /\ \A u \in Tasks : state'[u] # "NONE" => state[u] # "NONE"
    BY <1>0, <1>8 DEF ExitSwitch, Reschedule
  <2> QED
    BY <1>00, <2>1, <2>2 DEF Copying, Exists
<1>9. ASSUME NEW p \in OfChildren, Wait4(p) PROVE Kept'
  <2>1. \A v \in Tasks : pc[v] # "store_pid"
    BY <1>0, <1>00, <1>9, OnlyCopying DEF Wait4
  <2> DEFINE there == IF state[Entry[First(Before(p)) + 1]] = "ZOMBIE" THEN "reap" ELSE "sleep_set"
  <2>2. pc' = [pc EXCEPT ![current] = there] /\ there # "store_pid"
    BY <1>9 DEF Wait4
  <2> HIDE DEF there
  <2>3. \A v \in Tasks : pc'[v] # "store_pid"
    BY <1>0, <2>1, <2>2
  <2>4. UNCHANGED <<pid, global_pid, state>>
    BY <1>9 DEF Wait4
  <2> QED
    BY <1>00, <2>1, <2>3, <2>4 DEF Copying, Exists
<1>10. ASSUME SleepSetState PROVE Kept'
  <2>1. \A v \in Tasks : pc[v] # "store_pid" /\ pc'[v] # "store_pid"
    BY <1>0, <1>00, <1>10, OnlyCopying DEF SleepSetState, StatesFit
  <2>2. UNCHANGED <<pid, global_pid>> /\ \A u \in Tasks : state'[u] # "NONE" => state[u] # "NONE"
    BY <1>0, <1>10 DEF SleepSetState, StatesFit
  <2> QED
    BY <1>00, <2>1, <2>2 DEF Copying, Exists
<1>11. ASSUME SleepLink PROVE Kept'
  <2>1. \A v \in Tasks : pc[v] # "store_pid" /\ pc'[v] # "store_pid"
    BY <1>0, <1>00, <1>11, OnlyCopying DEF SleepLink
  <2>2. UNCHANGED <<pid, global_pid>> /\ \A u \in Tasks : state'[u] # "NONE" => state[u] # "NONE"
    BY <1>0, <1>11 DEF SleepLink
  <2> QED
    BY <1>00, <2>1, <2>2 DEF Copying, Exists
<1>12. ASSUME SleepSwitch PROVE Kept'
  <2>1. \A v \in Tasks : pc[v] # "store_pid" /\ pc'[v] # "store_pid"
    BY <1>0, <1>00, <1>12, OnlyCopying DEF SleepSwitch, Reschedule
  <2>2. UNCHANGED <<pid, global_pid>> /\ \A u \in Tasks : state'[u] # "NONE" => state[u] # "NONE"
    BY <1>0, <1>12 DEF SleepSwitch, Reschedule
  <2> QED
    BY <1>00, <2>1, <2>2 DEF Copying, Exists
<1>13. ASSUME Reap PROVE Kept'
  <2>1. \A v \in Tasks : pc[v] # "store_pid" /\ pc'[v] # "store_pid"
    BY <1>0, <1>00, <1>13, OnlyCopying DEF Reap
  <2>2. UNCHANGED <<pid, global_pid>>
    BY <1>13 DEF Reap
  <2>3. \A u \in Tasks : state'[u] # "NONE" => state[u] # "NONE"
    BY <1>0, <1>13 DEF Reap
  <2> QED
    BY <1>00, <2>1, <2>2, <2>3 DEF Copying, Exists
<1>14. ASSUME Tick PROVE Kept'
  <2>1. pc[current] # "store_pid"
    BY <1>00, <1>14 DEF Tick, Windows
  <2>2. \A v \in Tasks : pc[v] # "store_pid"
    BY <1>00, <2>1, OnlyCopying
  <2>3. UNCHANGED <<pc, pid, global_pid, state>>
    BY <1>14 DEF Tick, RetFromIntr, Reschedule
  <2> QED
    BY <1>00, <2>2, <2>3 DEF Copying, Exists
<1> QED
  BY <1>1, <1>2, <1>3, <1>4, <1>5, <1>6, <1>7, <1>8, <1>9, <1>10, <1>11, <1>12, <1>13, <1>14, StepsAre

\* PidsUnique is PidsApart for those that do_fork has linked.
LEMMA PidsApartUnique ==
  ASSUME PidsApart
  PROVE  PidsUnique
<1> SUFFICES ASSUME "store_pid" \notin hit, NEW t \in Existing, NEW u \in Existing, t # u
             PROVE  pid[t] # pid[u]
  BY DEF PidsUnique
<1>1. \A v \in Existing : v \in Tasks \ Copying /\ Exists(v)
  BY DEF Existing, BeingForked, Copying
<1> QED
  BY <1>1 DEF PidsApart

\* Every step faults for the event that FaultsByEvent names, or not at all.
LEMMA FaultsStep ==
  ASSUME TypeOK, Sound, PidsApart, Works, Running
  PROVE  FaultsByEvent'
<1> USE IdleAssumption DEF AllTasks, dispatchVars, listVars, forkVars, waitVars, Goto
<1>0. TypeOK /\ StatesFit /\ QueueFits /\ WaitsFit /\ SleepersFit /\ WakesOne /\ ChildrenKept /\ ReapsDead /\ ParentsExist
      /\ current \in AllTasks
  BY DEF Sound, TypeOK
<1> USE DEF TypeOK, Works
<1>1. ASSUME NEW t \in Tasks, Fork(t) PROVE FaultsByEvent'
  BY <1>0, <1>1 DEF Fork, FaultsByEvent
<1>2. ASSUME ForkPid PROVE FaultsByEvent'
  BY <1>0, <1>2 DEF ForkPid, FaultsByEvent
<1>3. ASSUME ForkLink PROVE FaultsByEvent'
  BY <1>0, <1>3 DEF ForkLink, FaultsByEvent
<1>4. ASSUME ForkWakeup PROVE FaultsByEvent'
  BY <1>0, <1>4 DEF ForkWakeup, FaultsByEvent
<1>5. ASSUME Exit PROVE FaultsByEvent'
  BY <1>0, <1>5 DEF Exit, FaultsByEvent
<1>6. ASSUME ExitNotify PROVE FaultsByEvent'
  <2>1. CASE pc[current] = "notify" /\ ~Exists(parent[current]) /\ fault' = "freed_parent" /\ hit' = hit
    <3>1. current \in Tasks
      BY <1>0, <2>1, InCall
    <3>2. "orphaned" \in hit
      BY <1>0, <2>1, <3>1 DEF ParentsExist
    <3> QED
      BY <2>1, <3>2 DEF FaultsByEvent
  <2>2. CASE fault' = fault
    BY <2>2 DEF FaultsByEvent, Works
  <2> QED
    BY <1>6, <2>1, <2>2 DEF ExitNotify
<1>7. ASSUME ExitWakeup PROVE FaultsByEvent'
  <2>1. parent[current] \notin queued
    BY <1>0, <1>7 DEF ExitWakeup, WakesOne
  <2> QED
    BY <1>7, <2>1 DEF ExitWakeup, FaultsByEvent
<1>8. ASSUME ExitSwitch PROVE FaultsByEvent'
  BY <1>0, <1>8, Switched DEF ExitSwitch, FaultsByEvent
<1>9. ASSUME NEW p \in OfChildren, Wait4(p) PROVE FaultsByEvent'
  BY <1>0, <1>9 DEF Wait4, FaultsByEvent
<1>10. ASSUME SleepSetState PROVE FaultsByEvent'
  BY <1>0, <1>10 DEF SleepSetState, FaultsByEvent
<1>11. ASSUME SleepLink PROVE FaultsByEvent'
  <2>1. current \notin waiting
    BY <1>0, <1>11 DEF SleepLink, SleepersFit
  <2> QED
    BY <1>11, <2>1 DEF SleepLink, FaultsByEvent
<1>12. ASSUME SleepSwitch PROVE FaultsByEvent'
  BY <1>0, <1>12, Switched DEF SleepSwitch, FaultsByEvent
<1>13. ASSUME Reap PROVE FaultsByEvent'
  <2> DEFINE c == child[current]
  <2>1. current \in Tasks /\ pc[current] = "reap" /\ state[current] = "RUNNING"
    BY <1>0, <1>13, InCall DEF Reap, StatesFit
  <2>2. c \in Tasks
    BY <1>0, <2>1 DEF WaitsFit, Waiting
  <2>3. \/ fault' = "freed_alive" /\ state[c] \notin {"NONE", "ZOMBIE"}
        \/ fault' = "freed_twice" /\ state[c] = "NONE"
        \/ fault' = "none"
    BY <1>0, <2>2, <1>13 DEF Reap, Alive
  <2>4. hit \subseteq hit'
    BY <1>13 DEF Reap
  <2>5. hit \cap {"wrong_child", "store_pid"} = {} => state[c] = "ZOMBIE"
    BY <1>0, <2>1 DEF ReapsDead
  <2>6. "store_pid" \notin hit => state[c] # "NONE"
    BY <1>0, <2>1 DEF ChildrenKept, Waiting, Existing, Exists
  <2> QED
    BY <2>3, <2>4, <2>5, <2>6 DEF FaultsByEvent
<1>14. ASSUME Tick PROVE FaultsByEvent'
  BY <1>0, <1>14, Switched DEF Tick, RetFromIntr, FaultsByEvent
<1> QED
  BY <1>1, <1>2, <1>3, <1>4, <1>5, <1>6, <1>7, <1>8, <1>9, <1>10, <1>11, <1>12, <1>13, <1>14, StepsAre

\* Every step leaves the head as the running do_fork has read it.
LEMMA HeadStep ==
  ASSUME TypeOK, Sound, Works, Running, Works'
  PROVE  HeadRead'
<1> DEFINE Kept == (pc[current] = "link" => behind[current] = next[Idle])
<1> SUFFICES ASSUME "link" \notin hit' PROVE Kept'
  BY Zenon DEF HeadRead
<1>00. "link" \notin hit /\ Kept
  BY HitGrows DEF Sound, HeadRead
<1> USE IdleAssumption DEF AllTasks, dispatchVars, listVars, forkVars, waitVars, Goto
<1>0. TypeOK /\ StatesFit /\ QueueFits /\ ForksFit /\ WaitsFit /\ SleepersFit /\ WindowsSeen /\ ChildrenKept /\ current \in AllTasks
  BY DEF Sound, TypeOK
<1> USE DEF TypeOK, StatesFit
<1>1. ASSUME NEW t \in Tasks, Fork(t) PROVE Kept'
  <2>1. pc'[current'] # "link"
    BY <1>0, <1>1 DEF Fork
  <2> QED
    BY <2>1
<1>2. ASSUME ForkPid PROVE Kept'
  BY <1>0, <1>2 DEF ForkPid
<1>3. ASSUME ForkLink PROVE Kept'
  <2>1. pc'[current'] # "link"
    BY <1>0, <1>3 DEF ForkLink
  <2> QED
    BY <2>1
<1>4. ASSUME ForkWakeup PROVE Kept'
  <2>1. pc'[current'] # "link"
    BY <1>0, <1>4 DEF ForkWakeup
  <2> QED
    BY <2>1
<1>5. ASSUME Exit PROVE Kept'
  <2>1. pc'[current'] # "link"
    BY <1>0, <1>5 DEF Exit
  <2> QED
    BY <2>1
<1>6. ASSUME ExitNotify PROVE Kept'
  <2>1. pc[current] = "notify" /\ pc'[current] # "link" /\ current' = current
    BY <1>0, <1>6 DEF ExitNotify
  <2> QED
    BY <2>1
<1>7. ASSUME ExitWakeup PROVE Kept'
  <2>1. pc'[current'] # "link"
    BY <1>0, <1>7 DEF ExitWakeup
  <2> QED
    BY <2>1
<1>8. ASSUME ExitSwitch PROVE Kept'
  <2>1. UNCHANGED <<next, behind>>
    BY <1>8 DEF ExitSwitch
  <2>2. \A u \in Tasks : pc'[u] = "link" => pc[u] = "link"
    BY <1>0, <1>8 DEF ExitSwitch
  <2>3. ASSUME current' # current, pc'[current'] = "link" PROVE FALSE
    <3>1. current' \in AllTasks /\ pc'[Idle] = "run"
      BY <1>0, <1>8, Switched DEF ExitSwitch, RetFromIntr
    <3>2. current' \in Tasks
      BY <2>3, <3>1
    <3> QED
      BY <1>0, <1>00, <2>2, <2>3, <3>2 DEF WindowsSeen, Windows
  <2>4. pc'[current] = "link" => pc[current] = "link"
    BY <1>0, <1>8 DEF ExitSwitch
  <2> QED
    BY <1>00, <2>1, <2>3, <2>4
<1>9. ASSUME NEW p \in OfChildren, Wait4(p) PROVE Kept'
  <2> DEFINE there == IF state[Entry[First(Before(p)) + 1]] = "ZOMBIE" THEN "reap" ELSE "sleep_set"
  <2>1. pc' = [pc EXCEPT ![current] = there] /\ there # "link" /\ current' = current
    BY <1>9 DEF Wait4
  <2> HIDE DEF there
  <2> QED
    BY <1>0, <2>1
<1>10. ASSUME SleepSetState PROVE Kept'
  <2>1. pc'[current'] # "link"
    BY <1>0, <1>10 DEF SleepSetState
  <2> QED
    BY <2>1
<1>11. ASSUME SleepLink PROVE Kept'
  <2>1. pc'[current'] # "link"
    BY <1>0, <1>11 DEF SleepLink
  <2> QED
    BY <2>1
<1>12. ASSUME SleepSwitch PROVE Kept'
  <2>1. UNCHANGED <<next, behind>>
    BY <1>12 DEF SleepSwitch
  <2>2. \A u \in Tasks : pc'[u] = "link" => pc[u] = "link"
    BY <1>0, <1>12 DEF SleepSwitch
  <2>3. ASSUME current' # current, pc'[current'] = "link" PROVE FALSE
    <3>1. current' \in AllTasks /\ pc'[Idle] = "run"
      BY <1>0, <1>12, Switched DEF SleepSwitch, RetFromIntr
    <3>2. current' \in Tasks
      BY <2>3, <3>1
    <3> QED
      BY <1>0, <1>00, <2>2, <2>3, <3>2 DEF WindowsSeen, Windows
  <2>4. pc'[current] = "link" => pc[current] = "link"
    BY <1>0, <1>12 DEF SleepSwitch
  <2> QED
    BY <1>00, <2>1, <2>3, <2>4
<1>13. ASSUME Reap PROVE Kept'
  <2>1. pc'[current'] # "link"
    BY <1>0, <1>13 DEF Reap
  <2> QED
    BY <2>1
<1>14. ASSUME Tick PROVE Kept'
  <2>1. UNCHANGED <<next, behind>>
    BY <1>14 DEF Tick, RetFromIntr, Reschedule
  <2>2. \A u \in Tasks : pc'[u] = "link" => pc[u] = "link"
    BY <1>0, <1>14 DEF Tick, RetFromIntr, Reschedule
  <2>3. ASSUME current' # current, pc'[current'] = "link" PROVE FALSE
    <3>1. current' \in AllTasks /\ pc'[Idle] = "run"
      BY <1>0, <1>14, Switched DEF Tick, RetFromIntr
    <3>2. current' \in Tasks
      BY <2>3, <3>1
    <3> QED
      BY <1>0, <1>00, <2>2, <2>3, <3>2 DEF WindowsSeen, Windows
  <2>4. pc'[current] = "link" => pc[current] = "link"
    BY <1>0, <1>14 DEF Tick, RetFromIntr, Reschedule
  <2> QED
    BY <1>00, <2>1, <2>3, <2>4
<1> QED
  BY <1>1, <1>2, <1>3, <1>4, <1>5, <1>6, <1>7, <1>8, <1>9, <1>10, <1>11, <1>12, <1>13, <1>14, StepsAre

\* Every step keeps the ring whole, as long as ListLinked says.
LEMMA LinkedStep ==
  ASSUME TypeOK, Sound, Works, Running, Works'
  PROVE  ListLinked'
<1> DEFINE Kept == Ring(next, Existing)
<1> SUFFICES ASSUME hit' \cap {"link", "stale_prev"} = {} PROVE Kept'
  BY Zenon DEF ListLinked
<1>00. hit \cap {"link", "stale_prev"} = {} /\ Kept
  BY HitGrows DEF Sound, ListLinked
<1> USE IdleAssumption DEF AllTasks, dispatchVars, listVars, forkVars, waitVars, Goto
<1>0. TypeOK /\ StatesFit /\ QueueFits /\ ForksFit /\ WaitsFit /\ SleepersFit /\ WindowsSeen /\ ChildrenKept /\ current \in AllTasks
  BY DEF Sound, TypeOK
<1>000. Existing' = ExistingNext
  BY ExistingStep
<1> USE DEF TypeOK
<1>1. ASSUME NEW t \in Tasks, Fork(t) PROVE Kept'
  <2>1. pc[current] = "run" /\ state[t] = "NONE" /\ next' = [next EXCEPT ![t] = next[current]]
    BY <1>0, <1>1 DEF Fork
  <2>2. ~Reap /\ ~ForkLink
    BY <2>1 DEF Reap, ForkLink
  <2>3. Existing' = Existing
    BY <1>000, <2>2 DEF ExistingNext
  <2>4. \A u \in Existing \cup {Idle} : u # t /\ u \in AllTasks
    BY <2>1 DEF Existing, Exists
  <2>5. \A u \in Existing \cup {Idle} : next'[u] = next[u]
    BY <1>0, <2>1, <2>4
  <2>6. Ring(next', Existing)
    BY <1>00, <2>5, RingKept, Zenon
  <2> QED
    BY <2>3, <2>6
<1>2. ASSUME ForkPid PROVE Kept'
  <2>1. UNCHANGED next /\ ~Reap /\ ~ForkLink
    BY <1>0, <1>2 DEF ForkPid, Reap, ForkLink
  <2> QED
    BY <1>00, <1>000, <2>1 DEF ExistingNext
<1>3. ASSUME ForkLink PROVE Kept'
  <2> DEFINE n == new[current]
  <2>1. current \in Tasks /\ pc[current] = "link" /\ n \in Tasks
    BY <1>0, <1>3, InCall DEF ForkLink, ForksFit, Forking
  <2>2. next' = [next EXCEPT ![n] = behind[current], ![Idle] = n]
    BY <1>3 DEF ForkLink
  <2>3. behind[current] = next[Idle]
    BY <1>00, <2>1 DEF Sound, HeadRead
  <2>4. n \notin Existing
    BY <2>1 DEF Existing, BeingForked
  <2>5. ~Reap /\ Existing' = Existing \cup {n}
    <3>1. ~Reap
      BY <2>1 DEF Reap
    <3> QED
      BY <1>3, <1>000, <2>1, <3>1 DEF ExistingNext
  <2> HIDE DEF n
  <2>6. next'[Idle] = n /\ next'[n] = next[Idle]
    BY <1>0, <2>1, <2>2, <2>3
  <2>7. \A u \in Existing : next'[u] = next[u]
    BY <1>0, <2>2, <2>4 DEF Existing
  <2>8. n \in Tasks \ Existing
    BY <2>1, <2>4
  <2>9. Ring(next', Existing \cup {n})
    BY <1>00, <2>6, <2>7, <2>8, RingAdded, Zenon
  <2> QED
    BY <2>5, <2>9
<1>4. ASSUME ForkWakeup PROVE Kept'
  <2>1. UNCHANGED next /\ ~Reap /\ ~ForkLink
    BY <1>0, <1>4 DEF ForkWakeup, Reap, ForkLink
  <2> QED
    BY <1>00, <1>000, <2>1 DEF ExistingNext
<1>5. ASSUME Exit PROVE Kept'
  <2>1. UNCHANGED next /\ ~Reap /\ ~ForkLink
    BY <1>0, <1>5 DEF Exit, Reap, ForkLink
  <2> QED
    BY <1>00, <1>000, <2>1 DEF ExistingNext
<1>6. ASSUME ExitNotify PROVE Kept'
  <2>1. pc[current] = "notify" /\ UNCHANGED next
    BY <1>0, <1>6 DEF ExitNotify
  <2>2. ~Reap /\ ~ForkLink
    BY <2>1 DEF Reap, ForkLink
  <2> QED
    BY <1>00, <1>000, <2>1, <2>2 DEF ExistingNext
<1>7. ASSUME ExitWakeup PROVE Kept'
  <2>1. UNCHANGED next /\ ~Reap /\ ~ForkLink
    BY <1>0, <1>7 DEF ExitWakeup, Reap, ForkLink
  <2> QED
    BY <1>00, <1>000, <2>1 DEF ExistingNext
<1>8. ASSUME ExitSwitch PROVE Kept'
  <2>1. UNCHANGED next /\ ~Reap /\ ~ForkLink
    BY <1>0, <1>8 DEF ExitSwitch, Reap, ForkLink
  <2> QED
    BY <1>00, <1>000, <2>1 DEF ExistingNext
<1>9. ASSUME NEW p \in OfChildren, Wait4(p) PROVE Kept'
  <2>1. UNCHANGED next /\ ~Reap /\ ~ForkLink
    BY <1>0, <1>9 DEF Wait4, Reap, ForkLink
  <2> QED
    BY <1>00, <1>000, <2>1 DEF ExistingNext
<1>10. ASSUME SleepSetState PROVE Kept'
  <2>1. UNCHANGED next /\ ~Reap /\ ~ForkLink
    BY <1>0, <1>10 DEF SleepSetState, Reap, ForkLink
  <2> QED
    BY <1>00, <1>000, <2>1 DEF ExistingNext
<1>11. ASSUME SleepLink PROVE Kept'
  <2>1. UNCHANGED next /\ ~Reap /\ ~ForkLink
    BY <1>0, <1>11 DEF SleepLink, Reap, ForkLink
  <2> QED
    BY <1>00, <1>000, <2>1 DEF ExistingNext
<1>12. ASSUME SleepSwitch PROVE Kept'
  <2>1. UNCHANGED next /\ ~Reap /\ ~ForkLink
    BY <1>0, <1>12 DEF SleepSwitch, Reap, ForkLink
  <2> QED
    BY <1>00, <1>000, <2>1 DEF ExistingNext
<1>13. ASSUME Reap PROVE Kept'
  <2> DEFINE c == child[current]
             t == prev[current]
  <2>1. current \in Tasks /\ pc[current] = "reap" /\ c \in Tasks /\ t \in AllTasks
    BY <1>0, <1>13, InCall DEF Reap, WaitsFit, Waiting
  <2>2. next' = [next EXCEPT ![t] = next[c]]
    BY <1>13 DEF Reap, Unlink
  <2>3. ~ForkLink /\ Existing' = Existing \ {c}
    <3>1. ~ForkLink
      BY <2>1 DEF ForkLink
    <3> QED
      BY <1>13, <1>000, <3>1 DEF ExistingNext
  <2>4. Precedes(t, c)
    BY <1>13 DEF Reap
  <2> HIDE DEF c, t
  <2>5. Listed = Existing
    BY <1>00, RingListed
  <2>6. t \in Existing \cup {Idle} /\ next[t] = c
    BY <2>4, <2>5 DEF Precedes
  <2>7. next'[t] = next[c] /\ \A u \in AllTasks : u # t => next'[u] = next[u]
    BY <1>0, <2>1, <2>2
  <2>8. Ring(next', Existing \ {c})
    <3>1. Ring(next, Existing) /\ c \in Tasks
      BY <1>00, <2>1
    <3> HIDE DEF AllTasks
    <3> QED
      BY <2>6, <2>7, <3>1, RingRemoved, ZenonT(40)
  <2> QED
    BY <2>3, <2>8
<1>14. ASSUME Tick PROVE Kept'
  <2>1. UNCHANGED <<next, pc>> /\ pc[current] \in PCs
    BY <1>0, <1>14 DEF Tick
  <2>2. ~Reap /\ ~ForkLink
    BY <2>1 DEF Reap, ForkLink
  <2> QED
    BY <1>00, <1>000, <2>1, <2>2 DEF ExistingNext
<1> QED
  BY <1>1, <1>2, <1>3, <1>4, <1>5, <1>6, <1>7, <1>8, <1>9, <1>10, <1>11, <1>12, <1>13, <1>14, StepsAre
-----------------------------------------------------------------------------
\* A fork, a switch or a free keeps all that keeps the life of tasks in order.
LEMMA SoundStep ==
  ASSUME TypeOK, Sound, PidsApart, Works, Running, Works'
  PROVE  Sound'
<1>1. StatesFit' /\ QueueFits' /\ SleepersFit' /\ WindowsSeen'
  BY StatesStep, QueueStep, SleepersStep, WindowsStep
<1>2. ForksFit' /\ WaitsFit' /\ WakesOne'
  BY ForksStep, WaitsStep, WakesStep
<1>3. ChildrenKept' /\ ReapsDead' /\ ParentsExist'
  BY ChildrenStep, DeadStep, ParentsStep
<1>4. HeadRead' /\ ListLinked'
  BY HeadStep, LinkedStep
<1> QED
  BY <1>1, <1>2, <1>3, <1>4 DEF Sound

\* At the start, init is alone on the list and nothing is under way.
LEMMA StartIsSound ==
  ASSUME Init
  PROVE  IInv
<1> USE LifecycleAssumption, IdleAssumption DEF Init, AllTasks
<1>1. TypeOK
  BY DEF TypeOK, PCs, Windows, Events
<1>2. \A t \in Tasks : pc[t] = "run" /\ (state[t] # "NONE" <=> t = InitTask)
  OBVIOUS
<1>3. Existing = {InitTask}
  BY <1>2 DEF Existing, BeingForked, Exists
<1>4. PidsApart
  <2>1. \A t \in Tasks : pid[t] < global_pid /\ (pid[t] = 1 <=> t = InitTask)
    OBVIOUS
  <2>2. \A u, t \in Tasks : Exists(u) /\ t # u => pid[t] # pid[u]
    BY <1>2, <2>1 DEF Exists
  <2> QED
    BY <1>2, <2>1, <2>2 DEF PidsApart
<1>5. FaultsByEvent
  BY DEF FaultsByEvent
<1>6. StatesFit /\ QueueFits /\ SleepersFit /\ WindowsSeen
  BY DEF StatesFit, StateFits, Forking, QueueFits, SleepersFit, WindowsSeen, Windows
<1>7. ForksFit /\ WaitsFit /\ WakesOne /\ ChildrenKept /\ ReapsDead /\ HeadRead
  BY DEF ForksFit, Forking, WaitsFit, Waiting, WakesOne, ChildrenKept, ReapsDead, HeadRead
<1>8. ParentsExist
  BY DEF ParentsExist, Alive, Exists
<1>9. Ring(next, {InitTask})
  <2> DEFINE s == <<InitTask>>
  <2>1. s \in Seq(Tasks) /\ Len(s) = 1 /\ s[1] = InitTask
    OBVIOUS
  <2>2. IsInjective(s) /\ ToSet(s) = {InitTask}
    BY <2>1 DEF IsInjective, ToSet
  <2> HIDE DEF s
  <2>3. Place(s, 0) = Idle /\ Place(s, 1) = InitTask /\ Place(s, 2) = Idle
    BY <2>1 DEF Place
  <2>4. next[Idle] = InitTask /\ next[InitTask] = Idle
    OBVIOUS
  <2>5. \A i \in 0..1 : i = 0 \/ i = 1
    OBVIOUS
  <2>6. Chain(next, s)
    BY <2>1, <2>3, <2>4, <2>5 DEF Chain
  <2> QED
    BY <2>1, <2>2, <2>6 DEF Ring
<1>10. ListLinked
  BY <1>3, <1>9 DEF ListLinked
<1> QED
  BY <1>1, <1>4, <1>5, <1>6, <1>7, <1>8, <1>10 DEF IInv, Sound

\* IInv is an inductive invariant of Lifecycle.
LEMMA IInvAlways == Spec => []IInv
<1>1. IInv /\ [Next]_vars => IInv'
  <2> SUFFICES ASSUME IInv, [Next]_vars PROVE IInv'
    OBVIOUS
  <2>1. CASE Running
    <3>1. TypeOK /\ PidsApart /\ Works /\ Sound
      BY <2>1 DEF IInv, Running, Works
    <3>2. TypeOK' /\ PidsApart' /\ FaultsByEvent'
      BY <2>1, <3>1, TypesStep, PidsStep, FaultsStep
    <3>3. ASSUME Works' PROVE Sound'
      BY <2>1, <3>1, <3>3, SoundStep
    <3> QED
      BY <3>2, <3>3 DEF IInv
  <2>2. CASE UNCHANGED vars
    <3>1. UNCHANGED <<current, state, queued, fault, pc, next, pid, global_pid, parent,
                      loaded, new, behind, child, prev, waiting, hit>>
      BY <2>2 DEF vars, dispatchVars, listVars, forkVars, waitVars
    <3>2. TypeOK' = TypeOK /\ PidsApart' = PidsApart /\ FaultsByEvent' = FaultsByEvent /\ Works' = Works
      BY <3>1 DEF TypeOK, PidsApart, Copying, Exists, FaultsByEvent, Works
    <3>3. /\ StatesFit' = StatesFit /\ QueueFits' = QueueFits /\ SleepersFit' = SleepersFit
          /\ WindowsSeen' = WindowsSeen /\ ForksFit' = ForksFit /\ WaitsFit' = WaitsFit
          /\ WakesOne' = WakesOne /\ ReapsDead' = ReapsDead /\ HeadRead' = HeadRead
      BY <3>1 DEF StatesFit, StateFits, QueueFits, SleepersFit, WindowsSeen, ForksFit, WaitsFit,
                  WakesOne, ReapsDead, HeadRead
    <3>4. Existing' = Existing
      BY <3>1 DEF Existing, BeingForked, Exists
    <3>5. /\ ChildrenKept' = ChildrenKept /\ ParentsExist' = ParentsExist
          /\ ListLinked' = ListLinked
      BY <3>1, <3>4 DEF ChildrenKept, ParentsExist, ListLinked, Ring, Chain, Alive, Exists
    <3> QED
      BY <3>2, <3>3, <3>5 DEF IInv, Sound
  <2> QED
    BY <2>1, <2>2 DEF Next, Stopped
<1> QED
  BY <1>1, StartIsSound, PTL DEF Spec

\* The list of all tasks and the pids by which it is searched, for any number of tasks,
\* of pids and of interrupts: only an interrupt in one of do_fork's two windows, or a
\* stale prev of wait4, puts the list or the pids out of order.
THEOREM ListIsSound == Spec => []ListSound
<1>1. IInv => ListSound
  <2> SUFFICES ASSUME IInv PROVE ListSound
    OBVIOUS
  <2>1. TypeOK /\ PidsUnique
    BY PidsApartUnique DEF IInv
  <2>2. ListComplete
    BY RingListed DEF IInv, ListComplete, ListLinked, Sound
  <2> QED
    BY <2>1, <2>2 DEF ListSound
<1> QED
  BY <1>1, IInvAlways, PTL

\* Why a task is freed alive, twice, or out from under its child: each time an event the
\* code leaves room for has come before; and no interleaving links a task into the run
\* queue twice.
THEOREM FaultsAreByEvent == Spec => []FaultsByEvent
<1>1. IInv => FaultsByEvent
  BY DEF IInv
<1> QED
  BY <1>1, IInvAlways, PTL
=============================================================================
