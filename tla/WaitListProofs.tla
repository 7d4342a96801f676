-------------------------- MODULE WaitListProofs --------------------------
(***************************************************************************)
(* The list under the wait queues and semaphores, store by store, for any  *)
(* number of tasks and units.  Each half done list_add_to_before and       *)
(* list_del has a shape of its own: as long as none is interrupted, only   *)
(* the running task is in one, and the invariant says which shape it is.   *)
(***************************************************************************)
EXTENDS WaitList, ListLemmas, FiniteSetTheorems

\* The i-th entry of a list; the head is before the first and behind the last.
Entry(s, i) == IF i \in 1..Len(s) THEN s[i] ELSE QueueHead

\* The pointers lead along the entries of s, forwards and backwards.
Forward(nx, s)  == \A i \in 0..Len(s) : nx[Entry(s, i)] = Entry(s, i + 1)
Backward(pv, s) == \A i \in 0..Len(s) : pv[Entry(s, i + 1)] = Entry(s, i)

Clean == hit \cap ListWindows = {}
Adding == {"add2", "add3", "add4"}

\* Where the running task is.
Here == IF current \in Tasks THEN pc[current] ELSE "out"

\* The shape of the list between the stores of a list operation, and outside of one.
Shape ==
  /\ IF Here \in {"add3", "add4"} THEN Forward(next, Append(order, current))
                                  ELSE Forward(next, order)
  /\ IF Here = "del2" THEN Backward(prev, Tail(order)) /\ prev[Head(order)] = QueueHead
                      ELSE Backward(prev, order)
  /\ Here = "add2" => next[current] = QueueHead
  /\ Here \in {"add2", "add3"} => prev[current] = current
  /\ Here = "add4" => prev[current] = Entry(order, Len(order))
  /\ Here = "take" => order # <<>>
  /\ Here \in {"del1", "del2"} => order # <<>> /\ node[current] = Head(order)

\* Who is in the list sleeps in wait, and nobody else but a task that is adding itself.
Waiting ==
  /\ fault = "none"
  /\ \A t \in Tasks : pc[t] \in ListWindows => t = current
  /\ IsInjective(order)
  /\ \A t \in ToSet(order) : pc[t] = "wait"
  /\ asleep = ToSet(order) \cup {t \in Tasks : pc[t] \in Adding}

\* A unit is free, held, or on its way.
Holders == {t \in Tasks : Holds(t)}
UnitsCounted == kind = "semaphore" /\ Clean => counter + Cardinality(Holders) = Units

\* The unit that semaphore_down has seen is still there.
SeenFree ==
  kind = "semaphore" /\ Clean /\ "dec" \notin hit =>
    /\ counter >= 0
    /\ \A t \in Tasks : pc[t] = "dec" => t = current /\ counter > 0

\* Nobody goes to sleep, or does, while a unit is free.
NoneFree ==
  kind = "semaphore" /\ hit = {} =>
    /\ \A t \in Tasks : pc[t] \in {"sleep", "inc"} => t = current
    /\ \A t \in Tasks : pc[t] \in {"sleep"} \cup Adding => counter = 0
    /\ order # <<>> => counter = 0
    /\ \A t \in Tasks : pc[t] = "inc" => order = <<>>

ListInv == TypeOK /\ order \in Seq(Tasks) /\ (Clean => Waiting /\ Shape)
UnitInv == UnitsCounted /\ SeenFree /\ NoneFree
WInv == ListInv /\ UnitInv

-----------------------------------------------------------------------------
(* What one store makes of a list *)

\* No task is in the list twice, and the head is no task: every place has its entry.
LEMMA EntriesApart ==
  ASSUME NEW s \in Seq(Tasks), IsInjective(s)
  PROVE  /\ \A i \in Nat : Entry(s, i) \in Nodes
         /\ \A i \in 1..Len(s) : Entry(s, i) \in ToSet(s)
         /\ \A i, j \in 0..Len(s) : Entry(s, i) = Entry(s, j) => i = j
         /\ \A i, j \in 1..Len(s) + 1 : Entry(s, i) = Entry(s, j) => i = j
         /\ Entry(s, 0) = QueueHead /\ Entry(s, Len(s) + 1) = QueueHead
PROOF
<1>1. /\ Len(s) \in Nat /\ DOMAIN s = 1..Len(s)
      /\ \A i \in 1..Len(s) : s[i] \in Tasks /\ s[i] \in ToSet(s)
  BY LenProperties, ElementOfSeq DEF ToSet
<1>2. QueueHead \notin Tasks
  BY WaitListAssumption
<1>3. \A i, j \in 1..Len(s) : s[i] = s[j] => i = j
  BY <1>1 DEF IsInjective
<1> QED
  BY <1>1, <1>2, <1>3 DEF Entry, Nodes

\* The entries of a list that a task has joined at its end, and those of its tail.
LEMMA EntriesOfAppend ==
  ASSUME NEW s \in Seq(Tasks), NEW t \in Tasks
  PROVE  /\ \A i \in 0..Len(s) : Entry(Append(s, t), i) = Entry(s, i)
         /\ Entry(Append(s, t), Len(s) + 1) = t
         /\ Entry(Append(s, t), Len(s) + 2) = QueueHead
PROOF
<1>1. /\ Len(Append(s, t)) = Len(s) + 1 /\ Len(s) \in Nat
      /\ \A i \in 1..Len(s) : Append(s, t)[i] = s[i]
      /\ Append(s, t)[Len(s) + 1] = t
  BY AppendProperties, LenProperties
<1> QED
  BY <1>1 DEF Entry

LEMMA EntriesOfTail ==
  ASSUME NEW s \in Seq(Tasks), s # <<>>
  PROVE  /\ Len(s) \in Nat \ {0} /\ Len(Tail(s)) = Len(s) - 1
         /\ \A i \in 1..Len(s) : Entry(Tail(s), i) = Entry(s, i + 1)
         /\ Entry(Tail(s), 0) = QueueHead
         /\ Entry(s, 1) = Head(s)
PROOF
<1>1. /\ Len(s) \in Nat \ {0} /\ Head(s) = s[1] /\ Len(Tail(s)) = Len(s) - 1
      /\ \A i \in 1..Len(s) - 1 : Tail(s)[i] = s[i + 1]
  BY EmptySeq, HeadTailProperties
<1> QED
  BY <1>1 DEF Entry

\* What next of the head says.
LEMMA Heads ==
  ASSUME NEW s \in Seq(Tasks), NEW nx, Forward(nx, s)
  PROVE  /\ s = <<>> => nx[QueueHead] = QueueHead
         /\ s # <<>> => nx[QueueHead] = Head(s) /\ nx[Head(s)] = Entry(s, 2)
         /\ s # <<>> => nx[QueueHead] \in ToSet(s) /\ nx[QueueHead] \in Tasks
PROOF
<1>1. CASE s = <<>>
  BY <1>1, EmptySeq DEF Forward, Entry
<1>2. CASE s # <<>>
  <2>1. 0 \in 0..Len(s) /\ 1 \in 0..Len(s) /\ 0 + 1 = 1 /\ 1 + 1 = 2
    BY <1>2, EntriesOfTail
  <2>2. nx[Entry(s, 0)] = Entry(s, 1) /\ nx[Entry(s, 1)] = Entry(s, 2)
    BY <2>1 DEF Forward
  <2>3. Entry(s, 0) = QueueHead
    BY DEF Entry
  <2> QED
    BY <1>2, <2>2, <2>3, EntriesOfTail, FirstEntry
<1> QED
  BY <1>1, <1>2

\* list_add_to_before, its second store and its last.
LEMMA AppendForward ==
  ASSUME NEW s \in Seq(Tasks), IsInjective(s), NEW t \in Tasks, t \notin ToSet(s),
         NEW nx \in [Nodes -> Nodes], Forward(nx, s), nx[t] = QueueHead
  PROVE  Forward([nx EXCEPT ![Entry(s, Len(s))] = t], Append(s, t))
PROOF
<1> DEFINE r  == [nx EXCEPT ![Entry(s, Len(s))] = t]
<1>1. Len(Append(s, t)) = Len(s) + 1 /\ Len(s) \in Nat
  BY AppendProperties, LenProperties
<1>2. Entry(s, Len(s)) \in Nodes /\ t \in Nodes /\ t # Entry(s, Len(s))
  BY <1>1, EntriesApart, WaitListAssumption DEF Nodes, Entry, ToSet
<1>3. r[Entry(s, Len(s))] = t /\ \A n \in Nodes : n # Entry(s, Len(s)) => r[n] = nx[n]
  BY <1>2
<1> HIDE DEF r
<1> SUFFICES ASSUME NEW i \in 0..Len(s) + 1
             PROVE  r[Entry(Append(s, t), i)] = Entry(Append(s, t), i + 1)
  BY <1>1 DEF Forward, r
<1>4. CASE i < Len(s)
  <2>1. i \in 0..Len(s) /\ i + 1 \in 0..Len(s) /\ Len(s) \in 0..Len(s) /\ i # Len(s)
    BY <1>1, <1>4
  <2>2. Entry(s, i) # Entry(s, Len(s)) /\ Entry(s, i) \in Nodes
    BY <2>1, EntriesApart
  <2> QED
    BY <2>1, <2>2, <1>3, EntriesOfAppend DEF Forward
<1>5. CASE i = Len(s)
  BY <1>1, <1>3, <1>5, EntriesOfAppend
<1>6. CASE i = Len(s) + 1
  <2>1. i + 1 = Len(s) + 2
    BY <1>1, <1>6
  <2> QED
    BY <1>2, <1>3, <1>6, <2>1, EntriesOfAppend
<1> QED
  BY <1>1, <1>4, <1>5, <1>6

LEMMA AppendBackward ==
  ASSUME NEW s \in Seq(Tasks), IsInjective(s), NEW t \in Tasks,
         NEW pv \in [Nodes -> Nodes], Backward(pv, s), pv[t] = Entry(s, Len(s))
  PROVE  Backward([pv EXCEPT ![QueueHead] = t], Append(s, t))
PROOF
<1> DEFINE r == [pv EXCEPT ![QueueHead] = t]
<1>1. Len(Append(s, t)) = Len(s) + 1 /\ Len(s) \in Nat
  BY AppendProperties, LenProperties
<1>2. r[QueueHead] = t /\ \A n \in Nodes : n # QueueHead => r[n] = pv[n]
  BY DEF Nodes
<1>3. t \in Nodes /\ t # QueueHead
  BY WaitListAssumption DEF Nodes
<1> HIDE DEF r
<1> SUFFICES ASSUME NEW i \in 0..Len(s) + 1
             PROVE  r[Entry(Append(s, t), i + 1)] = Entry(Append(s, t), i)
  BY <1>1 DEF Backward, r
<1>4. CASE i < Len(s)
  <2>1. i \in 0..Len(s) /\ i + 1 \in 0..Len(s) /\ i + 1 \in 1..Len(s)
    BY <1>1, <1>4
  <2>2. Entry(s, i + 1) # QueueHead /\ Entry(s, i + 1) \in Nodes
    BY <2>1, ElementOfSeq, WaitListAssumption DEF Entry, Nodes
  <2> QED
    BY <2>1, <2>2, <1>2, EntriesOfAppend DEF Backward
<1>5. CASE i = Len(s)
  <2>1. Entry(Append(s, t), i + 1) = t /\ Entry(Append(s, t), i) = Entry(s, Len(s))
    BY <1>1, <1>5, EntriesOfAppend
  <2> QED
    BY <2>1, <1>2, <1>3
<1>6. CASE i = Len(s) + 1
  <2>1. i + 1 = Len(s) + 2
    BY <1>1, <1>6
  <2> QED
    BY <1>2, <1>6, <2>1, EntriesOfAppend
<1> QED
  BY <1>1, <1>4, <1>5, <1>6

\* list_del of the first entry, its second store and its first.
LEMMA TailForward ==
  ASSUME NEW s \in Seq(Tasks), IsInjective(s), s # <<>>,
         NEW nx \in [Nodes -> Nodes], Forward(nx, s)
  PROVE  Forward([nx EXCEPT ![QueueHead] = nx[Head(s)]], Tail(s))
PROOF
<1> DEFINE r == [nx EXCEPT ![QueueHead] = nx[Head(s)]]
<1>1. Len(s) \in Nat \ {0} /\ Len(Tail(s)) = Len(s) - 1
  BY EntriesOfTail
<1>2. r[QueueHead] = Entry(s, 2) /\ \A n \in Nodes : n # QueueHead => r[n] = nx[n]
  BY Heads DEF Nodes
<1> HIDE DEF r
<1> SUFFICES ASSUME NEW i \in 0..Len(s) - 1
             PROVE  r[Entry(Tail(s), i)] = Entry(Tail(s), i + 1)
  BY <1>1 DEF Forward, r
<1>3. CASE i = 0
  <2>1. i + 1 = 1 /\ 1 \in 1..Len(s) /\ 1 + 1 = 2
    BY <1>1, <1>3
  <2>2. Entry(Tail(s), 1) = Entry(s, 2) /\ Entry(Tail(s), 0) = QueueHead
    BY <2>1, EntriesOfTail
  <2> QED
    BY <1>2, <1>3, <2>1, <2>2
<1>4. CASE i # 0
  <2>1. i \in 1..Len(s) /\ i + 1 \in 1..Len(s) /\ i + 1 \in 0..Len(s)
    BY <1>1, <1>4
  <2>2. Entry(s, i + 1) # QueueHead /\ Entry(s, i + 1) \in Nodes
    BY <2>1, ElementOfSeq, WaitListAssumption DEF Entry, Nodes
  <2>3. /\ Entry(Tail(s), i) = Entry(s, i + 1) /\ Entry(Tail(s), i + 1) = Entry(s, (i + 1) + 1)
        /\ nx[Entry(s, i + 1)] = Entry(s, (i + 1) + 1)
    BY <2>1, EntriesOfTail DEF Forward
  <2> QED
    BY <1>2, <2>2, <2>3
<1> QED
  BY <1>3, <1>4

LEMMA TailBackward ==
  ASSUME NEW s \in Seq(Tasks), IsInjective(s), s # <<>>,
         NEW pv \in [Nodes -> Nodes], Backward(pv, s)
  PROVE  LET r == [pv EXCEPT ![Entry(s, 2)] = QueueHead]
         IN Backward(r, Tail(s)) /\ r[Head(s)] = QueueHead /\ pv[Head(s)] = QueueHead
PROOF
<1> DEFINE r == [pv EXCEPT ![Entry(s, 2)] = QueueHead]
<1>1. Len(s) \in Nat \ {0} /\ Len(Tail(s)) = Len(s) - 1 /\ Entry(s, 1) = Head(s)
  BY EntriesOfTail
<1>2. /\ \A i \in 1..Len(s) + 1 : Entry(s, i) \in Nodes
      /\ \A i \in 1..Len(s) + 1 : i # 2 => Entry(s, i) # Entry(s, 2)
      /\ 2 \in 1..Len(s) + 1 /\ 1 \in 1..Len(s) + 1
  <2>1. 2 \in 1..Len(s) + 1 /\ 1 \in 1..Len(s) + 1
    BY <1>1
  <2>2. \A i \in 1..Len(s) + 1 : i \in Nat
    BY <1>1
  <2> QED
    BY <2>1, <2>2, EntriesApart
<1>3. /\ r[Entry(s, 2)] = QueueHead
      /\ \A i \in 1..Len(s) + 1 : i # 2 => r[Entry(s, i)] = pv[Entry(s, i)]
  BY <1>2
<1> HIDE DEF r
<1>4. pv[Head(s)] = QueueHead
  <2>1. 0 \in 0..Len(s) /\ 0 + 1 = 1 /\ Entry(s, 0) = QueueHead
    BY <1>1 DEF Entry
  <2> QED
    BY <1>1, <2>1 DEF Backward
<1>5. r[Head(s)] = QueueHead
  BY <1>1, <1>2, <1>3, <1>4
<1>6. ASSUME NEW i \in 0..Len(s) - 1
      PROVE  r[Entry(Tail(s), i + 1)] = Entry(Tail(s), i)
  <2>1. i + 1 \in 1..Len(s) /\ Entry(Tail(s), i + 1) = Entry(s, (i + 1) + 1)
    BY <1>1, EntriesOfTail
  <2>2. CASE i = 0
    <3>1. (i + 1) + 1 = 2
      BY <2>2
    <3> QED
      BY <1>3, <2>1, <2>2, <3>1, EntriesOfTail
  <2>3. CASE i # 0
    <3>1. /\ (i + 1) + 1 \in 1..Len(s) + 1 /\ (i + 1) + 1 # 2 /\ i \in 1..Len(s)
          /\ i + 1 \in 0..Len(s)
      BY <1>1, <2>3
    <3>2. r[Entry(s, (i + 1) + 1)] = pv[Entry(s, (i + 1) + 1)]
      BY <1>3, <3>1
    <3>3. pv[Entry(s, (i + 1) + 1)] = Entry(s, i + 1)
      BY <3>1 DEF Backward
    <3> QED
      BY <2>1, <3>1, <3>2, <3>3, EntriesOfTail
  <2> QED
    BY <2>2, <2>3
<1> QED
  BY <1>1, <1>4, <1>5, <1>6 DEF Backward, r

\* A store to the node of a task that is not in the list leaves the list alone.
LEMMA StoreElsewhere ==
  ASSUME NEW s \in Seq(Tasks), IsInjective(s), NEW t \in Tasks, t \notin ToSet(s), NEW n,
         NEW f \in [Nodes -> Nodes]
  PROVE  /\ Forward(f, s) => Forward([f EXCEPT ![t] = n], s)
         /\ Backward(f, s) => Backward([f EXCEPT ![t] = n], s)
PROOF
<1>1. /\ Len(s) \in Nat
      /\ \A i \in 0..Len(s) + 1 : Entry(s, i) \in Nodes /\ Entry(s, i) # t
  <2>1. Len(s) \in Nat /\ \A i \in 0..Len(s) + 1 : i \in Nat
    BY LenProperties
  <2>2. \A i \in 0..Len(s) + 1 : Entry(s, i) \in ToSet(s) \cup {QueueHead}
    BY <2>1, EntriesApart DEF Entry
  <2> QED
    BY <2>1, <2>2, EntriesApart, WaitListAssumption
<1>2. \A i \in 0..Len(s) : i \in 0..Len(s) + 1 /\ i + 1 \in 0..Len(s) + 1
  BY <1>1
<1> QED
  BY <1>1, <1>2 DEF Forward, Backward

-----------------------------------------------------------------------------
(* What a step starts from and what it may do *)

Places == Windows \cup {"out", "in", "wait"}

\* The names of the places, which the provers have to tell apart.
LEMMA PlacesApart ==
  /\ ListWindows = {"add2", "add3", "add4", "take", "del1", "del2"}
  /\ Windows = {"add2", "add3", "add4", "take", "del1", "del2", "dec", "sleep", "inc"}
  /\ Places = {"add2", "add3", "add4", "take", "del1", "del2", "dec", "sleep", "inc", "out", "in",
               "wait"}
BY DEF ListWindows, Windows, Places

\* Nothing is said of a list once an operation on it was interrupted.
LEMMA WhenDirty ==
  ASSUME TypeOK', order' \in Seq(Tasks), ~Clean'
  PROVE  WInv'
PROOF
<1>1. hit' # {}
  BY DEF Clean
<1> QED
  BY <1>1 DEF WInv, ListInv, UnitInv, UnitsCounted, SeenFree, NoneFree

LEMMA FailStep ==
  ASSUME WInv, ~Clean, NEW what \in Faults, Fail(what)
  PROVE  WInv'
PROOF
<1>1. TypeOK' /\ order' \in Seq(Tasks)
  BY DEF WInv, ListInv, TypeOK, Fail, list
<1>2. ~Clean'
  BY DEF Clean, Fail
<1> QED
  BY <1>1, <1>2, WhenDirty

\* A step of the running task.
LEMMA Moves ==
  ASSUME TypeOK, NEW t \in Tasks, NEW x \in Places, Goto(t, x)
  PROVE  /\ pc' \in [Tasks -> Places] /\ pc'[t] = x
         /\ \A u \in Tasks : u # t => pc'[u] = pc[u]
BY DEF TypeOK, Goto, Places

\* An empty list has no first entry; the first entry of any other sleeps, and it and
\* its neighbours are there.
LEMMA FirstIsThere ==
  ASSUME ListInv, Clean
  PROVE  /\ Here \notin ListWindows => (Empty <=> order = <<>>)
         /\ Here \notin ListWindows /\ ~Empty => Foremost = Head(order)
         /\ Here = "take" => ~Empty
         /\ ~Empty => /\ Foremost \in Tasks /\ Foremost \in asleep /\ Live(Foremost)
                      /\ Live(next[Foremost]) /\ Live(prev[Foremost])
PROOF
<1>1. /\ order \in Seq(Tasks) /\ Waiting /\ Shape /\ TypeOK /\ IsInjective(order)
      /\ ToSet(order) \subseteq Tasks
  BY DEF ListInv, Waiting, TypeOK
<1>2. QueueHead \notin Tasks /\ Live(QueueHead)
  BY WaitListAssumption DEF Live
<1>3. \A n \in ToSet(order) : n \in Tasks /\ n \in asleep /\ Live(n)
  BY <1>1 DEF Waiting, Live
<1>4. CASE Here \in {"add3", "add4"}
  <2> DEFINE t == current
             a == Append(order, t)
  <2>1. /\ t \in Tasks /\ pc[t] \in {"add3", "add4"} /\ t \in asleep /\ Live(t)
        /\ Here = pc[t]
    BY <1>1, <1>4 DEF Here, Waiting, Adding, Live
  <2>2. t \notin ToSet(order)
    BY <1>1, <2>1 DEF Waiting
  <2>3. /\ a \in Seq(Tasks) /\ ToSet(a) = ToSet(order) \cup {t} /\ IsInjective(a)
        /\ Len(a) = Len(order) + 1
    BY <1>1, <2>1, <2>2, AppendEntries
  <2>4. Forward(next, a)
    BY <1>1, <1>4 DEF Shape
  <2>5. a # <<>>
    BY <2>3, EmptySeq, LenProperties
  <2> HIDE DEF a
  <2>6. /\ next[QueueHead] = Head(a) /\ next[Head(a)] = Entry(a, 2)
        /\ next[QueueHead] \in ToSet(a)
    BY <2>3, <2>4, <2>5, Heads
  <2>7. Entry(a, 2) \in ToSet(a) \cup {QueueHead}
    BY <2>3, EntriesApart DEF Entry
  <2>8. Live(prev[Head(a)])
    <3>1. CASE order = <<>>
      <4>1. Head(a) = t
        BY <2>3, <2>6, <3>1, EmptySeq DEF ToSet
      <4>2. Entry(order, Len(order)) = QueueHead
        BY <3>1 DEF Entry
      <4>3. prev[t] \in {t, QueueHead}
        BY <1>1, <1>4, <4>2 DEF Shape
      <4> QED
        BY <4>1, <4>3, <1>2, <2>1
    <3>2. CASE order # <<>>
      <4>1. Head(a) = Head(order)
        <5>1. Len(order) \in Nat \ {0} /\ 1 \in 0..Len(order)
          BY <1>1, <3>2, EntriesOfTail
        <5>2. Entry(a, 1) = Entry(order, 1)
          BY <1>1, <2>1, <5>1, EntriesOfAppend DEF a
        <5> QED
          BY <1>1, <2>3, <2>5, <3>2, <5>2, EntriesOfTail
      <4>2. Backward(prev, order)
        BY <1>1, <1>4 DEF Shape
      <4>3. prev[Head(order)] = QueueHead
        BY <1>1, <3>2, <4>2, TailBackward DEF TypeOK
      <4> QED
        BY <4>1, <4>3, <1>2
    <3> QED
      BY <3>1, <3>2
  <2> QED
    BY <1>2, <1>3, <1>4, <2>1, <2>3, <2>6, <2>7, <2>8 DEF Foremost, Empty, ListWindows
<1>5. CASE Here \notin {"add3", "add4"}
  <2>1. Forward(next, order)
    BY <1>1, <1>5 DEF Shape
  <2>2. CASE order = <<>>
    <3>1. next[QueueHead] = QueueHead
      BY <1>1, <2>1, <2>2, Heads
    <3>2. Here # "del2" /\ Backward(prev, order)
      BY <1>1, <2>2 DEF Shape
    <3>3. prev[QueueHead] = QueueHead
      BY <2>2, <3>2, EmptySeq DEF Backward, Entry
    <3>4. Here # "take"
      BY <1>1, <2>2 DEF Shape
    <3> QED
      BY <2>2, <3>1, <3>3, <3>4 DEF Empty
  <2>3. CASE order # <<>>
    <3>1. /\ next[QueueHead] = Head(order) /\ next[Head(order)] = Entry(order, 2)
          /\ next[QueueHead] \in ToSet(order)
      BY <1>1, <2>1, <2>3, Heads
    <3>2. Entry(order, 2) \in ToSet(order) \cup {QueueHead}
      BY <1>1, EntriesApart DEF Entry
    <3>3. prev[Head(order)] = QueueHead
      <4>1. CASE Here = "del2"
        BY <1>1, <4>1 DEF Shape
      <4>2. CASE Here # "del2"
        BY <1>1, <2>3, <4>2, TailBackward DEF Shape, TypeOK
      <4> QED
        BY <4>1, <4>2
    <3> QED
      BY <1>2, <1>3, <2>3, <3>1, <3>2, <3>3 DEF Foremost, Empty
  <2> QED
    BY <2>2, <2>3
<1> QED
  BY <1>4, <1>5

-----------------------------------------------------------------------------
(* The list, step by step *)

\* A step between two places outside of the list operations, which stores to the node of
\* the running task at most.
LEMMA QuietStep ==
  ASSUME ListInv, NEW t \in Tasks, t = current, pc[t] \notin ListWindows,
         pc[t] = "wait" => t \notin asleep,
         NEW x \in Places \ (ListWindows \cup {"wait"}), Goto(t, x),
         \/ UNCHANGED <<prev, next>>
         \/ prev' = [prev EXCEPT ![t] = t] /\ next' = [next EXCEPT ![t] = t],
         UNCHANGED <<kind, asleep, current, node, order, hit, fault>>, counter' \in Int
  PROVE  ListInv'
PROOF
<1>1. TypeOK /\ order \in Seq(Tasks) /\ fault' = fault
  BY DEF ListInv
<1>2. /\ pc' \in [Tasks -> Places] /\ pc'[t] = x
      /\ \A u \in Tasks : u # t => pc'[u] = pc[u]
  BY <1>1, Moves
<1>3. TypeOK'
  <2>1. prev' \in [Nodes -> Nodes] /\ next' \in [Nodes -> Nodes]
    <3>1. t \in Nodes /\ prev \in [Nodes -> Nodes] /\ next \in [Nodes -> Nodes]
      BY <1>1 DEF TypeOK, Nodes
    <3> QED
      BY <3>1
  <2> QED
    BY <1>1, <1>2, <2>1 DEF TypeOK, Places
<1>4. ASSUME Clean' PROVE Waiting' /\ Shape'
  <2>1. Waiting /\ Shape /\ IsInjective(order)
    BY <1>4 DEF ListInv, Clean, Waiting
  <2>2. t \notin ToSet(order)
    BY <2>1 DEF Waiting
  <2>3. \A u \in Tasks : pc'[u] \in ListWindows <=> pc[u] \in ListWindows
    BY <1>2
  <2>4. {u \in Tasks : pc'[u] \in Adding} = {u \in Tasks : pc[u] \in Adding}
    <3>1. Adding \subseteq ListWindows
      BY DEF Adding, ListWindows
    <3> QED
      BY <1>2, <3>1
  <2>5. \A u \in ToSet(order) : pc'[u] = "wait"
    BY <1>1, <1>2, <2>1, <2>2 DEF Waiting, TypeOK
  <2>6. Waiting'
    BY <2>1, <2>3, <2>4, <2>5 DEF Waiting
  <2>7. Here = pc[t] /\ Here' = x
    BY <1>2 DEF Here
  <2>8. Forward(next, order) /\ Backward(prev, order)
    BY <2>1, <2>7 DEF Shape, ListWindows
  <2>9. Forward(next', order) /\ Backward(prev', order)
    <3>1. next \in [Nodes -> Nodes] /\ prev \in [Nodes -> Nodes]
      BY <1>1 DEF TypeOK
    <3>2. Forward([next EXCEPT ![t] = t], order)
      BY <1>1, <2>1, <2>2, <2>8, <3>1, StoreElsewhere
    <3>3. Backward([prev EXCEPT ![t] = t], order)
      BY <1>1, <2>1, <2>2, <2>8, <3>1, StoreElsewhere
    <3> QED
      BY <2>8, <3>2, <3>3
  <2> QED
    BY <2>6, <2>7, <2>9 DEF Shape, ListWindows
<1> QED
  BY <1>1, <1>3, <1>4 DEF ListInv

LEMMA SleepOnList == ASSUME ListInv, NEW t \in Tasks, SleepOn(t) PROVE ListInv'
PROOF
<1>1. /\ TypeOK /\ order \in Seq(Tasks) /\ t = current /\ pc[t] = "sleep" /\ Goto(t, "add2")
      /\ asleep' = asleep \cup {t}
      /\ next' = [next EXCEPT ![t] = QueueHead] /\ prev' = [prev EXCEPT ![t] = t]
      /\ UNCHANGED <<kind, counter, current, node, order, hit, fault>>
  BY DEF ListInv, SleepOn, At
<1>2. /\ pc' \in [Tasks -> Places] /\ pc'[t] = "add2"
      /\ \A u \in Tasks : u # t => pc'[u] = pc[u]
  BY <1>1, Moves, PlacesApart
<1>3. TypeOK'
  <2>1. prev' \in [Nodes -> Nodes] /\ next' \in [Nodes -> Nodes]
    <3>1. t \in Nodes /\ QueueHead \in Nodes /\ prev \in [Nodes -> Nodes] /\ next \in [Nodes -> Nodes]
      BY <1>1 DEF TypeOK, Nodes
    <3> QED
      BY <1>1, <3>1
  <2> QED
    BY <1>1, <1>2, <2>1 DEF TypeOK, Places
<1>4. ASSUME Clean' PROVE Waiting' /\ Shape'
  <2>1. Waiting /\ Shape /\ IsInjective(order)
    BY <1>1, <1>4 DEF ListInv, Clean, Waiting
  <2>2. t \notin ToSet(order)
    BY <1>1, <2>1 DEF Waiting
  <2>3. \A u \in Tasks : pc'[u] \in ListWindows => u = t
    BY <1>1, <1>2, <2>1 DEF Waiting
  <2>4. {u \in Tasks : pc'[u] \in Adding} = {u \in Tasks : pc[u] \in Adding} \cup {t}
    BY <1>2 DEF Adding
  <2>5. \A u \in ToSet(order) : pc'[u] = "wait"
    BY <1>1, <1>2, <2>1, <2>2 DEF Waiting, TypeOK
  <2>6. Waiting'
    BY <1>1, <2>1, <2>3, <2>4, <2>5 DEF Waiting
  <2>7. Here = "sleep" /\ Here' = "add2"
    BY <1>1, <1>2 DEF Here
  <2>8. Forward(next, order) /\ Backward(prev, order)
    BY <2>1, <2>7 DEF Shape
  <2>9. Forward(next', order) /\ Backward(prev', order)
    <3>1. next \in [Nodes -> Nodes] /\ prev \in [Nodes -> Nodes]
      BY <1>1 DEF TypeOK
    <3>2. Forward([next EXCEPT ![t] = QueueHead], order)
      BY <1>1, <2>1, <2>2, <2>8, <3>1, StoreElsewhere
    <3>3. Backward([prev EXCEPT ![t] = t], order)
      BY <1>1, <2>1, <2>2, <2>8, <3>1, StoreElsewhere
    <3> QED
      BY <1>1, <3>2, <3>3
  <2>10. next'[t] = QueueHead /\ prev'[t] = t
    BY <1>1 DEF TypeOK, Nodes
  <2> QED
    BY <1>1, <2>6, <2>7, <2>9, <2>10 DEF Shape
<1> QED
  BY <1>1, <1>3, <1>4 DEF ListInv

\* What the steps of adding leave as it is, and their being the running task's.
LEMMA AddingList ==
  ASSUME ListInv, NEW t \in Tasks, t = current, fault = "none", pc[t] \in Adding,
         NEW x \in Adding, Goto(t, x),
         next' \in [Nodes -> Nodes], prev' \in [Nodes -> Nodes],
         UNCHANGED <<kind, counter, asleep, current, node, order, hit, fault>>
  PROVE  /\ TypeOK' /\ order' \in Seq(Tasks)
         /\ Clean' => /\ Waiting /\ Waiting' /\ Shape /\ Here = pc[t] /\ Here' = x
                      /\ t \notin ToSet(order) /\ IsInjective(order)
PROOF
<1>1. TypeOK /\ order \in Seq(Tasks) /\ x \in Places
  BY DEF ListInv, Adding, Places, Windows, ListWindows
<1>2. /\ pc' \in [Tasks -> Places] /\ pc'[t] = x
      /\ \A u \in Tasks : u # t => pc'[u] = pc[u]
  BY <1>1, Moves
<1>3. TypeOK'
  BY <1>1, <1>2 DEF TypeOK, Places
<1>4. ASSUME Clean'
      PROVE  /\ Waiting /\ Waiting' /\ Shape /\ Here = pc[t] /\ Here' = x
             /\ t \notin ToSet(order) /\ IsInjective(order)
  <2>1. Waiting /\ Shape /\ IsInjective(order)
    BY <1>4 DEF ListInv, Clean, Waiting
  <2>2. t \notin ToSet(order)
    BY <2>1 DEF Waiting, Adding
  <2>3. {u \in Tasks : pc'[u] \in Adding} = {u \in Tasks : pc[u] \in Adding}
    BY <1>2
  <2>4. /\ \A u \in ToSet(order) : pc'[u] = "wait"
        /\ \A u \in Tasks : pc'[u] \in ListWindows => u = t
    BY <1>1, <1>2, <2>1, <2>2 DEF Waiting, TypeOK
  <2>5. Waiting'
    BY <2>1, <2>3, <2>4 DEF Waiting
  <2> QED
    BY <1>2, <2>1, <2>2, <2>5 DEF Here
<1> QED
  BY <1>1, <1>3, <1>4

\* The entry behind which a task adds itself is that of a task that waits.
LEMMA LastIsThere ==
  ASSUME ListInv, Clean, Here = "add2"
  PROVE  prev[QueueHead] = Entry(order, Len(order)) /\ Live(prev[QueueHead])
PROOF
<1>1. Waiting /\ Shape /\ order \in Seq(Tasks) /\ Len(order) \in 0..Len(order)
  BY LenProperties DEF ListInv
<1>2. prev[QueueHead] = Entry(order, Len(order))
  BY <1>1 DEF Shape, Backward, Entry
<1>3. Entry(order, Len(order)) \in ToSet(order) \cup {QueueHead}
  BY <1>1, LenProperties DEF Entry, ToSet
<1> QED
  BY <1>1, <1>2, <1>3 DEF Waiting, Live

LEMMA Add2List == ASSUME ListInv, NEW t \in Tasks, Add2(t), fault' = "none" PROVE ListInv'
PROOF
<1>1. /\ TypeOK /\ order \in Seq(Tasks) /\ t = current /\ pc[t] = "add2" /\ Goto(t, "add3")
      /\ next' = [next EXCEPT ![prev[QueueHead]] = t]
      /\ UNCHANGED <<kind, prev, counter, asleep, current, node, order, hit, fault>>
  BY DEF ListInv, Add2, At, Fail
<1>2. next' \in [Nodes -> Nodes] /\ prev' \in [Nodes -> Nodes]
  BY <1>1 DEF TypeOK, Nodes
<1>3. /\ TypeOK' /\ order' \in Seq(Tasks)
      /\ Clean' => /\ Waiting /\ Waiting' /\ Shape /\ Here = pc[t] /\ Here' = "add3"
                   /\ t \notin ToSet(order) /\ IsInjective(order)
  BY <1>1, <1>2, AddingList DEF Adding, At, Add2
<1>4. ASSUME Clean' PROVE Shape'
  <2>1. Forward(next, order) /\ Backward(prev, order) /\ next[t] = QueueHead /\ prev[t] = t
    BY <1>1, <1>3, <1>4 DEF Shape
  <2>2. prev[QueueHead] = Entry(order, Len(order))
    BY <1>1, <1>3, <1>4, LastIsThere DEF Clean
  <2>3. Forward(next', Append(order, t))
    BY <1>1, <1>3, <1>4, <2>1, <2>2, AppendForward DEF TypeOK
  <2> QED
    BY <1>1, <1>3, <1>4, <2>1, <2>3 DEF Shape
<1> QED
  BY <1>3, <1>4 DEF ListInv

LEMMA Add3List == ASSUME ListInv, NEW t \in Tasks, Add3(t) PROVE ListInv'
PROOF
<1>1. /\ TypeOK /\ order \in Seq(Tasks) /\ t = current /\ pc[t] = "add3" /\ Goto(t, "add4")
      /\ prev' = [prev EXCEPT ![t] = prev[QueueHead]]
      /\ UNCHANGED <<kind, next, counter, asleep, current, node, order, hit, fault>>
  BY DEF ListInv, Add3, At, ItsPrev
<1>2. next' \in [Nodes -> Nodes] /\ prev' \in [Nodes -> Nodes]
  BY <1>1 DEF TypeOK, Nodes
<1>3. /\ TypeOK' /\ order' \in Seq(Tasks)
      /\ Clean' => /\ Waiting /\ Waiting' /\ Shape /\ Here = pc[t] /\ Here' = "add4"
                   /\ t \notin ToSet(order) /\ IsInjective(order)
  BY <1>1, <1>2, AddingList DEF Adding, At, Add3
<1>4. ASSUME Clean' PROVE Shape'
  <2>1. Forward(next, Append(order, t)) /\ Backward(prev, order)
    BY <1>1, <1>3, <1>4 DEF Shape
  <2>2. prev[QueueHead] = Entry(order, Len(order))
    BY <1>1, <2>1, LenProperties DEF Backward, Entry
  <2>3. prev'[t] = Entry(order, Len(order)) /\ Backward(prev', order)
    BY <1>1, <1>3, <1>4, <2>1, <2>2, StoreElsewhere DEF TypeOK, Nodes
  <2> QED
    BY <1>1, <1>3, <1>4, <2>1, <2>3 DEF Shape
<1> QED
  BY <1>3, <1>4 DEF ListInv

LEMMA Add4List == ASSUME ListInv, NEW t \in Tasks, Add4(t) PROVE ListInv'
PROOF
<1>1. /\ TypeOK /\ order \in Seq(Tasks) /\ t = current /\ pc[t] = "add4" /\ Goto(t, "wait")
      /\ prev' = [prev EXCEPT ![QueueHead] = t] /\ order' = Append(order, t)
      /\ UNCHANGED <<kind, next, counter, asleep, current, node, hit, fault>>
  BY DEF ListInv, Add4, At
<1>2. next' \in [Nodes -> Nodes] /\ prev' \in [Nodes -> Nodes]
  BY <1>1 DEF TypeOK, Nodes
<1>3. /\ pc' \in [Tasks -> Places] /\ pc'[t] = "wait"
      /\ \A u \in Tasks : u # t => pc'[u] = pc[u]
  BY <1>1, Moves, PlacesApart
<1>4. /\ order' \in Seq(Tasks) /\ ToSet(order') = ToSet(order) \cup {t}
      /\ IsInjective(order) /\ t \notin ToSet(order) => IsInjective(order')
  BY <1>1, AppendEntries
<1>5. TypeOK'
  BY <1>1, <1>2, <1>3, <1>4 DEF TypeOK, Places
<1>6. ASSUME Clean' PROVE Waiting' /\ Shape'
  <2>1. Waiting /\ Shape /\ IsInjective(order) /\ t \notin ToSet(order)
    BY <1>1, <1>6 DEF ListInv, Clean, Waiting
  <2>2. Here = "add4" /\ Here' = "wait"
    BY <1>1, <1>3 DEF Here
  <2>3. {u \in Tasks : pc[u] \in Adding} = {u \in Tasks : pc'[u] \in Adding} \cup {t}
    BY <1>1, <1>3 DEF Adding
  <2>4. \A u \in ToSet(order') : pc'[u] = "wait"
    BY <1>1, <1>3, <1>4, <2>1 DEF Waiting, TypeOK
  <2>5. \A u \in Tasks : pc'[u] \in ListWindows => u = t
    BY <1>1, <1>3, <2>1 DEF Waiting
  <2>6. Waiting'
    BY <1>1, <1>4, <2>1, <2>3, <2>4, <2>5 DEF Waiting
  <2>7. Forward(next, Append(order, t)) /\ Backward(prev, order) /\ prev[t] = Entry(order, Len(order))
    BY <1>1, <2>1, <2>2 DEF Shape
  <2>8. Backward(prev', order')
    BY <1>1, <2>1, <2>7, AppendBackward DEF TypeOK
  <2> QED
    BY <1>1, <2>2, <2>6, <2>7, <2>8 DEF Shape
<1> QED
  BY <1>4, <1>5, <1>6 DEF ListInv

\* wakeup and semaphore_up have found the list not empty.
LEMMA WakeList ==
  ASSUME ListInv, NEW t \in Tasks, t = current, pc[t] \in {"in", "out"}, ~Empty,
         Goto(t, "take"), UNCHANGED <<kind, list, counter, asleep, current, node, order, hit, fault>>
  PROVE  ListInv'
PROOF
<1>1. TypeOK /\ order \in Seq(Tasks) /\ UNCHANGED <<prev, next>>
  BY DEF ListInv, list
<1>2. /\ pc' \in [Tasks -> Places] /\ pc'[t] = "take"
      /\ \A u \in Tasks : u # t => pc'[u] = pc[u]
  BY <1>1, Moves, PlacesApart
<1>3. TypeOK'
  BY <1>1, <1>2 DEF TypeOK, Places
<1>4. ASSUME Clean' PROVE Waiting' /\ Shape'
  <2>1. Waiting /\ Shape /\ Clean /\ t \notin ToSet(order)
    BY <1>1, <1>4 DEF ListInv, Clean, Waiting
  <2>2. Here \in {"in", "out"} /\ Here' = "take"
    BY <1>1, <1>2 DEF Here
  <2>3. {u \in Tasks : pc[u] \in Adding} = {u \in Tasks : pc'[u] \in Adding}
    BY <1>1, <1>2 DEF Adding
  <2>4. \A u \in ToSet(order) : pc'[u] = "wait"
    BY <1>1, <1>2, <2>1 DEF Waiting, TypeOK
  <2>5. \A u \in Tasks : pc'[u] \in ListWindows => u = t
    BY <1>1, <1>2, <2>1 DEF Waiting
  <2>6. Waiting'
    BY <1>1, <2>1, <2>3, <2>4, <2>5 DEF Waiting
  <2>7. Forward(next, order) /\ Backward(prev, order)
    BY <2>1, <2>2 DEF Shape
  <2>8. order # <<>>
    BY <2>1, <2>2, FirstIsThere, PlacesApart
  <2> QED
    BY <1>1, <2>2, <2>6, <2>7, <2>8 DEF Shape
<1> QED
  BY <1>1, <1>3, <1>4 DEF ListInv

\* They take the first, who is there and sleeps: wakeup's test of the state holds.
LEMMA TakeList == ASSUME ListInv, NEW t \in Tasks, Take(t), fault' = "none" PROVE ListInv'
PROOF
<1>1. /\ TypeOK /\ order \in Seq(Tasks) /\ t = current /\ pc[t] = "take" /\ fault = "none"
      /\ Foremost \in Tasks
      /\ UNCHANGED <<kind, prev, next, counter, asleep, current, order, hit, fault>>
      /\ \/ node' = [node EXCEPT ![t] = Foremost] /\ Goto(t, "del1")
         \/ Foremost \notin asleep /\ Goto(t, "out") /\ UNCHANGED node
  BY DEF ListInv, Take, At, Fail, list
<1>2. PICK x \in {"del1", "out"} : Goto(t, x)
  BY <1>1
<1>3. /\ pc' \in [Tasks -> Places] /\ pc'[t] = x
      /\ \A u \in Tasks : u # t => pc'[u] = pc[u]
  BY <1>1, <1>2, Moves, PlacesApart
<1>4. TypeOK'
  <2>1. node' \in [Tasks -> Nodes]
    BY <1>1 DEF TypeOK, Nodes
  <2> QED
    BY <1>1, <1>3, <2>1 DEF TypeOK, Places
<1>5. ASSUME Clean' PROVE Waiting' /\ Shape'
  <2>1. Waiting /\ Shape /\ Clean /\ IsInjective(order) /\ t \notin ToSet(order)
    BY <1>1, <1>5 DEF ListInv, Clean, Waiting
  <2>2. Here = "take" /\ Foremost \in asleep /\ order # <<>>
    <3>1. Here = "take"
      BY <1>1 DEF Here
    <3> QED
      BY <2>1, <3>1, FirstIsThere DEF Shape
  <2>3. node' = [node EXCEPT ![t] = Foremost] /\ Goto(t, "del1")
    BY <1>1, <2>2
  <2>4. pc'[t] = "del1" /\ Here' = "del1"
    BY <1>1, <2>3 DEF Here, Goto, TypeOK
  <2>5. {u \in Tasks : pc[u] \in Adding} = {u \in Tasks : pc'[u] \in Adding}
    BY <1>1, <1>3, <2>4 DEF Adding
  <2>6. \A u \in ToSet(order) : pc'[u] = "wait"
    BY <1>1, <1>3, <2>1 DEF Waiting, TypeOK
  <2>7. \A u \in Tasks : pc'[u] \in ListWindows => u = t
    BY <1>1, <1>3, <2>1 DEF Waiting
  <2>8. Waiting'
    BY <1>1, <2>1, <2>5, <2>6, <2>7 DEF Waiting
  <2>9. Forward(next, order) /\ Backward(prev, order)
    BY <2>1, <2>2 DEF Shape
  <2>10. Foremost = Head(order)
    BY <1>1, <2>2, <2>9, Heads DEF Foremost
  <2>11. node'[t] = Head(order)
    BY <1>1, <2>3, <2>10 DEF TypeOK
  <2> QED
    BY <1>1, <2>2, <2>4, <2>8, <2>9, <2>11 DEF Shape
<1> QED
  BY <1>1, <1>4, <1>5 DEF ListInv

\* What list_del works on: the foremost entry and its neighbours.
LEMMA DeletedIsThere ==
  ASSUME ListInv, Clean, Here \in {"del1", "del2"}
  PROVE  /\ order # <<>> /\ node[current] = Head(order)
         /\ Forward(next, order) /\ next[Head(order)] = Entry(order, 2)
         /\ prev[Head(order)] = QueueHead
         /\ Head(order) \in ToSet(order) /\ Head(order) \in asleep /\ Head(order) \in Tasks
         /\ Live(Head(order)) /\ Live(Entry(order, 2)) /\ Live(QueueHead)
PROOF
<1>1. /\ Waiting /\ Shape /\ order \in Seq(Tasks) /\ IsInjective(order) /\ order # <<>>
      /\ prev \in [Nodes -> Nodes]
  BY DEF ListInv, Waiting, Shape, TypeOK
<1>2. Forward(next, order) /\ node[current] = Head(order)
  BY <1>1 DEF Shape
<1>3. next[Head(order)] = Entry(order, 2) /\ Head(order) \in ToSet(order)
  BY <1>1, <1>2, Heads
<1>4. prev[Head(order)] = QueueHead
  <2>1. CASE Here = "del2"
    BY <1>1, <2>1 DEF Shape
  <2>2. CASE Here # "del2"
    BY <1>1, <2>2, TailBackward DEF Shape
  <2> QED
    BY <2>1, <2>2
<1>5. Entry(order, 2) \in ToSet(order) \cup {QueueHead} /\ ToSet(order) \subseteq Tasks
  BY <1>1, EntriesApart DEF Entry, ListInv, TypeOK
<1>6. \A n \in ToSet(order) \cup {QueueHead} : Live(n)
  BY <1>1 DEF Waiting, Live
<1> QED
  BY <1>1, <1>2, <1>3, <1>4, <1>5, <1>6 DEF Waiting

LEMMA Del1List == ASSUME ListInv, NEW t \in Tasks, Del1(t), fault' = "none" PROVE ListInv'
PROOF
<1>1. /\ TypeOK /\ order \in Seq(Tasks) /\ t = current /\ pc[t] = "del1" /\ Goto(t, "del2")
      /\ prev' = [prev EXCEPT ![next[node[t]]] = prev[node[t]]]
      /\ UNCHANGED <<kind, next, counter, asleep, current, node, order, hit, fault>>
  BY DEF ListInv, Del1, At, Fail
<1>2. node[t] \in Nodes /\ prev' \in [Nodes -> Nodes]
  BY <1>1 DEF TypeOK
<1>3. /\ pc' \in [Tasks -> Places] /\ pc'[t] = "del2"
      /\ \A u \in Tasks : u # t => pc'[u] = pc[u]
  BY <1>1, Moves, PlacesApart
<1>4. TypeOK'
  BY <1>1, <1>2, <1>3 DEF TypeOK, Places
<1>5. ASSUME Clean' PROVE Waiting' /\ Shape'
  <2>1. Waiting /\ Shape /\ IsInjective(order) /\ t \notin ToSet(order) /\ Clean
    BY <1>1, <1>5 DEF ListInv, Clean, Waiting
  <2>2. Here = "del1" /\ Here' = "del2"
    BY <1>1, <1>3 DEF Here
  <2>3. {u \in Tasks : pc[u] \in Adding} = {u \in Tasks : pc'[u] \in Adding}
    BY <1>1, <1>3 DEF Adding
  <2>4. \A u \in ToSet(order) : pc'[u] = "wait"
    BY <1>1, <1>3, <2>1 DEF Waiting, TypeOK
  <2>5. \A u \in Tasks : pc'[u] \in ListWindows => u = t
    BY <1>1, <1>3, <2>1 DEF Waiting
  <2>6. Waiting'
    BY <1>1, <2>1, <2>3, <2>4, <2>5 DEF Waiting
  <2>7. Backward(prev, order)
    BY <2>1, <2>2 DEF Shape
  <2>8. /\ order # <<>> /\ node[t] = Head(order) /\ next[Head(order)] = Entry(order, 2)
        /\ prev[Head(order)] = QueueHead /\ Forward(next, order)
    BY <1>1, <2>1, <2>2, DeletedIsThere
  <2>9. prev' = [prev EXCEPT ![Entry(order, 2)] = QueueHead]
    BY <1>1, <2>8
  <2>10. Backward(prev', Tail(order)) /\ prev'[Head(order)] = QueueHead
    <3>1. prev \in [Nodes -> Nodes]
      BY <1>1 DEF TypeOK
    <3> DEFINE r == [prev EXCEPT ![Entry(order, 2)] = QueueHead]
    <3>2. Backward(r, Tail(order)) /\ r[Head(order)] = QueueHead
      BY <1>1, <2>1, <2>7, <2>8, <3>1, TailBackward
    <3> HIDE DEF r
    <3>3. prev' = r
      BY <2>9 DEF r
    <3> QED
      BY <3>2, <3>3
  <2> QED
    BY <1>1, <2>2, <2>6, <2>8, <2>10 DEF Shape
<1> QED
  BY <1>1, <1>4, <1>5 DEF ListInv

LEMMA Del2List == ASSUME ListInv, NEW t \in Tasks, Del2(t), fault' = "none" PROVE ListInv'
PROOF
<1>1. /\ TypeOK /\ order \in Seq(Tasks) /\ t = current /\ pc[t] = "del2" /\ Goto(t, "out")
      /\ next' = [next EXCEPT ![prev[node[t]]] = next[node[t]]]
      /\ asleep' = asleep \ {node[t]}
      /\ order' = RemoveFirst(order, node[t])
      /\ node' = [node EXCEPT ![t] = QueueHead]
      /\ UNCHANGED <<kind, prev, counter, current, hit, fault>>
  BY DEF ListInv, Del2, At, Fail
<1>2. node[t] \in Nodes /\ next' \in [Nodes -> Nodes] /\ node' \in [Tasks -> Nodes]
  BY <1>1 DEF TypeOK, Nodes
<1>3. /\ pc' \in [Tasks -> Places] /\ pc'[t] = "out"
      /\ \A u \in Tasks : u # t => pc'[u] = pc[u]
  BY <1>1, Moves, PlacesApart
<1>4. order' \in Seq(Tasks) /\ ToSet(order') \subseteq Tasks
  <2>1. order' \in Seq(Tasks)
    BY <1>1, RemovalTypes
  <2> QED
    BY <2>1, ElementOfSeq, LenProperties DEF ToSet
<1>5. TypeOK'
  BY <1>1, <1>2, <1>3, <1>4 DEF TypeOK, Places
<1>6. ASSUME Clean' PROVE Waiting' /\ Shape'
  <2>1. Waiting /\ Shape /\ IsInjective(order) /\ t \notin ToSet(order) /\ Clean
    BY <1>1, <1>6 DEF ListInv, Clean, Waiting
  <2>2. Here = "del2" /\ Here' = "out"
    BY <1>1, <1>3 DEF Here
  <2>3. /\ order # <<>> /\ node[t] = Head(order) /\ next[Head(order)] = Entry(order, 2)
        /\ prev[Head(order)] = QueueHead /\ Forward(next, order) /\ Head(order) \in ToSet(order)
    BY <1>1, <2>1, <2>2, DeletedIsThere
  <2>4. order' = Tail(order)
    BY <1>1, <2>1, <2>3, RemovalOfHead
  <2>5. /\ ToSet(order) = {Head(order)} \cup ToSet(order') /\ IsInjective(order')
        /\ Head(order) \notin ToSet(order')
    BY <1>1, <2>1, <2>3, <2>4, FirstEntry, FirstApart, ZenonT(40)
  <2>6. {u \in Tasks : pc[u] \in Adding} = {u \in Tasks : pc'[u] \in Adding}
    BY <1>1, <1>3 DEF Adding
  <2>7. \A u \in ToSet(order') : pc'[u] = "wait"
    BY <1>1, <1>3, <1>4, <2>1, <2>5 DEF Waiting, TypeOK
  <2>8. \A u \in Tasks : pc'[u] \in ListWindows => u = t
    BY <1>1, <1>3, <2>1 DEF Waiting
  <2>9. Head(order) \notin {u \in Tasks : pc[u] \in Adding}
    BY <2>1, <2>3 DEF Waiting, Adding
  <2>10. asleep' = ToSet(order') \cup {u \in Tasks : pc'[u] \in Adding}
    <3>1. asleep = ToSet(order) \cup {u \in Tasks : pc[u] \in Adding}
      BY <2>1 DEF Waiting
    <3> QED
      BY <1>1, <2>3, <2>5, <2>6, <2>9, <3>1
  <2>11. Waiting'
    BY <1>1, <2>1, <2>5, <2>7, <2>8, <2>10 DEF Waiting
  <2>12. next' = [next EXCEPT ![QueueHead] = next[Head(order)]]
    BY <1>1, <2>3
  <2>13. Forward(next', order')
    <3>1. next \in [Nodes -> Nodes]
      BY <1>1 DEF TypeOK
    <3>2. Forward([next EXCEPT ![QueueHead] = next[Head(order)]], Tail(order))
      BY <1>1, <2>1, <2>3, <3>1, TailForward
    <3> QED
      BY <2>4, <2>12, <3>2
  <2>14. Backward(prev, order')
    BY <2>1, <2>2, <2>4 DEF Shape
  <2> QED
    BY <1>1, <2>2, <2>11, <2>13, <2>14 DEF Shape
<1> QED
  BY <1>4, <1>5, <1>6 DEF ListInv

\* The CPU is given to another task: the one that had it was in no list operation, or is
\* now known to have been interrupted in one.
LEMMA SwitchList ==
  ASSUME ListInv, NEW t \in Tasks \cup {Idle}, t = current, Other(t),
         hit \subseteq hit', hit' \subseteq Windows,
         t \in Tasks /\ pc[t] \in ListWindows => ~Clean',
         UNCHANGED <<kind, list, counter, asleep, pc, node, order, fault>>
  PROVE  ListInv'
PROOF
<1>1. TypeOK /\ order \in Seq(Tasks) /\ UNCHANGED <<prev, next>>
  BY DEF ListInv, list
<1>2. TypeOK'
  BY <1>1 DEF TypeOK, Other
<1>3. ASSUME Clean' PROVE Waiting' /\ Shape'
  <2>1. Waiting /\ Shape /\ Clean
    BY <1>3 DEF ListInv, Clean
  <2>2. Here \notin ListWindows /\ \A u \in Tasks : pc[u] \notin ListWindows
    BY <1>3, <2>1, WaitListAssumption DEF Here, Waiting, ListWindows
  <2>3. Here' \notin ListWindows
    BY <2>2 DEF Here, ListWindows
  <2>4. Forward(next, order) /\ Backward(prev, order)
    BY <2>1, <2>2 DEF Shape, ListWindows
  <2> QED
    BY <1>1, <2>1, <2>2, <2>3, <2>4 DEF Waiting, Shape, ListWindows
<1> QED
  BY <1>1, <1>2, <1>3 DEF ListInv

\* An interrupt leaves its mark.
LEMMA InterruptedHits ==
  ASSUME TypeOK, Interrupted
  PROVE  /\ hit \subseteq hit' /\ hit' \subseteq Windows
         /\ current \in Tasks /\ pc[current] \in ListWindows => ~Clean'
         /\ current \in Tasks /\ pc[current] \in Windows => pc[current] \in hit'
PROOF
<1>1. ListWindows \subseteq Windows /\ Idle \notin Tasks
  BY WaitListAssumption DEF Windows
<1> QED
  BY <1>1 DEF Interrupted, TypeOK, Clean

\* wakeup by a handler, on a whole list.
LEMMA HandlerList ==
  ASSUME ListInv, fault = "none", Interrupted,
         Foremost \in asleep,
         LET n == Foremost
             p == [prev EXCEPT ![next[n]] = prev[n]]
         IN prev' = p /\ next' = [next EXCEPT ![p[n]] = next[n]],
         asleep' = asleep \ {Foremost}, order' = RemoveFirst(order, Foremost), ~Empty,
         UNCHANGED <<kind, counter, current, pc, node, fault>>
  PROVE  ListInv'
PROOF
<1>1. TypeOK /\ order \in Seq(Tasks)
  BY DEF ListInv
<1>2. hit \subseteq hit' /\ hit' \subseteq Windows /\ (Here \in ListWindows => ~Clean')
  BY <1>1, InterruptedHits DEF Here, ListWindows
<1>3. order' \in Seq(Tasks) /\ ToSet(order') \subseteq Tasks
  <2>1. order' \in Seq(Tasks)
    BY <1>1, RemovalTypes
  <2> QED
    BY <2>1, ElementOfSeq, LenProperties DEF ToSet
<1>4. Foremost \in Nodes /\ prev' \in [Nodes -> Nodes] /\ next' \in [Nodes -> Nodes]
  BY <1>1 DEF TypeOK, Nodes, Foremost
<1>5. TypeOK'
  BY <1>1, <1>2, <1>3, <1>4 DEF TypeOK
<1>6. ASSUME Clean' PROVE Waiting' /\ Shape'
  <2>1. Waiting /\ Shape /\ IsInjective(order) /\ Here \notin ListWindows
    BY <1>2, <1>6 DEF ListInv, Clean, Waiting
  <2>2. Forward(next, order) /\ Backward(prev, order)
    BY <2>1 DEF Shape, ListWindows
  <2>3. order # <<>> /\ Foremost = Head(order)
    <3>1. ASSUME order = <<>> PROVE Empty
      <4>1. Len(order) = 0
        BY <3>1, EmptySeq
      <4>2. next[Entry(order, 0)] = Entry(order, 1) /\ prev[Entry(order, 1)] = Entry(order, 0)
        BY <2>2, <4>1 DEF Forward, Backward
      <4> QED
        BY <4>1, <4>2 DEF Empty, Entry
    <3> QED
      BY <1>1, <2>2, <3>1, Heads DEF Foremost
  <2>4. order' = Tail(order)
    BY <1>1, <2>1, <2>3, RemovalOfHead
  <2>5. /\ ToSet(order) = {Head(order)} \cup ToSet(order') /\ IsInjective(order')
        /\ Head(order) \notin ToSet(order')
    BY <1>1, <2>1, <2>3, <2>4, FirstEntry, FirstApart, ZenonT(40)
  <2> DEFINE p == [prev EXCEPT ![Entry(order, 2)] = QueueHead]
             x == [next EXCEPT ![QueueHead] = next[Head(order)]]
  <2>6. Backward(p, Tail(order)) /\ p[Head(order)] = QueueHead /\ prev[Head(order)] = QueueHead
    BY <1>1, <2>1, <2>2, <2>3, TailBackward DEF TypeOK
  <2>7. Forward(x, Tail(order)) /\ next[Head(order)] = Entry(order, 2)
    BY <1>1, <2>1, <2>2, <2>3, TailForward, Heads DEF TypeOK
  <2>8. prev' = p /\ next' = x
    BY <2>3, <2>6, <2>7
  <2> HIDE DEF p, x
  <2>9. Forward(next', order') /\ Backward(prev', order')
    BY <2>4, <2>6, <2>7, <2>8
  <2>10. Head(order) \in ToSet(order) /\ Head(order) \notin {u \in Tasks : pc[u] \in Adding}
    BY <2>1, <2>5 DEF Waiting, Adding
  <2>11. asleep' = ToSet(order') \cup {u \in Tasks : pc[u] \in Adding}
    BY <2>1, <2>3, <2>5, <2>10 DEF Waiting
  <2>12. Waiting'
    BY <2>1, <2>5, <2>11 DEF Waiting
  <2>13. Here' = Here
    BY DEF Here
  <2> QED
    BY <2>1, <2>9, <2>12, <2>13 DEF Shape, ListWindows
<1> QED
  BY <1>3, <1>5, <1>6 DEF ListInv

\* A whole list is never found wrong.
LEMMA NothingWrong ==
  ASSUME ListInv, Clean, fault = "none"
  PROVE  /\ \A t \in Tasks : Task(t) => fault' = "none"
         /\ Handler => fault' = "none"
PROOF
<1>1. ASSUME NEW t \in Tasks, Task(t) PROVE fault' = "none"
  <2>1. CASE \/ Down(t) \/ Dec(t) \/ SleepOn(t) \/ Add3(t) \/ Add4(t) \/ Sleep(t) \/ Return(t)
             \/ Wake(t) \/ Inc(t)
    BY <2>1 DEF Down, Dec, SleepOn, Add3, Add4, Sleep, Return, Wake, Inc
  <2>2. CASE Add2(t)
    <3>1. Here = "add2"
      BY <2>2 DEF Add2, At, Here
    <3> QED
      BY <2>2, <3>1, LastIsThere DEF Add2
  <2>3. CASE Take(t)
    <3>1. Here = "take"
      BY <2>3 DEF Take, At, Here
    <3>2. Foremost \in Tasks /\ Live(Foremost)
      BY <3>1, FirstIsThere
    <3> QED
      BY <2>3, <3>2, WaitListAssumption DEF Take
  <2>4. CASE Del1(t)
    <3>1. Here = "del1" /\ t = current
      BY <2>4 DEF Del1, At, Here
    <3> QED
      BY <2>4, <3>1, DeletedIsThere DEF Del1
  <2>5. CASE Del2(t)
    <3>1. Here = "del2" /\ t = current
      BY <2>5 DEF Del2, At, Here
    <3> QED
      BY <2>5, <3>1, DeletedIsThere DEF Del2
  <2> QED
    BY <1>1, <2>1, <2>2, <2>3, <2>4, <2>5 DEF Task
<1>2. ASSUME Handler PROVE fault' = "none"
  <2>1. /\ Foremost \in Tasks /\ Live(Foremost) /\ Live(next[Foremost]) /\ Live(prev[Foremost])
    BY <1>2, FirstIsThere DEF Handler
  <2> QED
    BY <1>2, <2>1, WaitListAssumption DEF Handler
<1> QED
  BY <1>1, <1>2

LEMMA TaskList ==
  ASSUME ListInv, NEW t \in Tasks, Task(t), fault = "none", fault' = "none"
  PROVE  ListInv'
PROOF
<1> USE DEF ListInv
<1>1. At(t, pc[t]) => t = current
  BY DEF At
<1>2. CASE Down(t)
  <2>1. PICK x \in {"dec", "sleep"} : Goto(t, x)
    BY <1>2 DEF Down
  <2>2. counter' \in Int
    BY <1>2 DEF Down, TypeOK
  <2> QED
    BY <1>2, <2>1, <2>2, PlacesApart, QuietStep DEF Down, At, list
<1>3. CASE Dec(t)
  <2>1. counter' \in Int
    BY <1>3 DEF Dec, TypeOK
  <2> QED
    BY <1>3, <2>1, PlacesApart, QuietStep DEF Dec, At, list
<1>4. CASE Return(t)
  <2>1. PICK x \in {"in", "out"} : Goto(t, x)
    BY <1>4 DEF Return
  <2>2. counter' \in Int
    BY <1>4 DEF Return, TypeOK
  <2> QED
    BY <1>4, <2>1, <2>2, PlacesApart, QuietStep DEF Return, At
<1>5. CASE Inc(t)
  <2>1. counter' \in Int
    BY <1>5 DEF Inc, IncCounter, TypeOK
  <2> QED
    BY <1>5, <2>1, PlacesApart, QuietStep DEF Inc, At, list
<1>6. CASE Wake(t)
  <2>1. t = current /\ pc[t] \in {"in", "out"}
    BY <1>6 DEF Wake, At
  <2>2. CASE Empty
    <3>1. PICK x \in {"inc", "out"} : Goto(t, x)
      BY <1>6, <2>2 DEF Wake
    <3>2. counter' \in Int
      BY <1>6 DEF Wake, TypeOK
    <3> QED
      BY <1>6, <2>1, <3>1, <3>2, PlacesApart, QuietStep DEF Wake, list
  <2>3. CASE ~Empty
    BY <1>6, <2>1, <2>3, WakeList DEF Wake
  <2> QED
    BY <2>2, <2>3
<1>7. CASE Sleep(t)
  BY <1>7, SwitchList, PlacesApart DEF Sleep, At, TypeOK
<1> QED
  BY <1>2, <1>3, <1>4, <1>5, <1>6, <1>7, SleepOnList, Add2List, Add3List, Add4List, TakeList,
     Del1List, Del2List DEF Task

-----------------------------------------------------------------------------
(* The units of the semaphore, step by step *)

LEMMA HoldersCounted ==
  /\ Cardinality(Holders) \in Nat
  /\ Holders' = Holders => Cardinality(Holders') = Cardinality(Holders)
  /\ \A t \in Tasks \ Holders :
       Holders' = Holders \cup {t} => Cardinality(Holders') = Cardinality(Holders) + 1
  /\ \A t \in Holders :
       Holders' = Holders \ {t} => Cardinality(Holders') = Cardinality(Holders) - 1
  /\ \A t \in Holders, u \in Tasks \ Holders :
       Holders' = (Holders \ {t}) \cup {u} => Cardinality(Holders') = Cardinality(Holders)
PROOF
<1>1. IsFiniteSet(Holders) /\ Cardinality(Holders) \in Nat
  <2>1. Holders \subseteq Tasks /\ IsFiniteSet(Tasks)
    BY WaitListAssumption DEF Holders
  <2> QED
    BY <2>1, FS_Subset, FS_CardinalityType
<1>2. ASSUME NEW t \in Tasks \ Holders
      PROVE  Cardinality(Holders \cup {t}) = Cardinality(Holders) + 1
  BY <1>1, <1>2, FS_AddElement
<1>3. ASSUME NEW t \in Holders
      PROVE  /\ IsFiniteSet(Holders \ {t})
             /\ Cardinality(Holders \ {t}) = Cardinality(Holders) - 1
  BY <1>1, <1>3, FS_RemoveElement
<1>4. ASSUME NEW t \in Holders, NEW u \in Tasks \ Holders
      PROVE  Cardinality((Holders \ {t}) \cup {u}) = Cardinality(Holders)
  <2>1. u \notin Holders \ {t}
    OBVIOUS
  <2>2. Cardinality((Holders \ {t}) \cup {u}) = Cardinality(Holders \ {t}) + 1
    BY <1>3, <1>4, <2>1, FS_AddElement
  <2>3. Cardinality(Holders \ {t}) = Cardinality(Holders) - 1
    BY <1>3
  <2> QED
    BY <1>1, <2>2, <2>3
<1> QED
  BY <1>1, <1>2, <1>3, <1>4

\* A step that takes, gives back and looks at no unit.
LEMMA NoUnitMoves ==
  ASSUME UnitInv, UNCHANGED <<kind, counter>>, hit \subseteq hit',
         kind = "semaphore" /\ Clean' => Holders' = Holders,
         kind = "semaphore" /\ Clean' /\ "dec" \notin hit' =>
           \A u \in Tasks : pc'[u] = "dec" => u = current' /\ counter > 0,
         kind = "semaphore" /\ hit' = {} =>
           /\ \A u \in Tasks : pc'[u] \in {"sleep", "inc"} => u = current'
           /\ (\E u \in Tasks : pc'[u] \in {"sleep"} \cup Adding) \/ order' # <<>> => counter = 0
           /\ \A u \in Tasks : pc'[u] = "inc" => order' = <<>>
  PROVE  UnitInv'
PROOF
<1>1. Clean' => Clean
  BY DEF Clean
<1>2. UnitsCounted'
  BY <1>1, HoldersCounted DEF UnitInv, UnitsCounted
<1>3. SeenFree'
  BY <1>1 DEF UnitInv, SeenFree
<1>4. NoneFree'
  BY DEF UnitInv, NoneFree
<1> QED
  BY <1>2, <1>3, <1>4 DEF UnitInv

\* What is known when nothing has been interrupted yet.
LEMMA BeforeAny ==
  ASSUME WInv, hit = {}
  PROVE  /\ Clean /\ Waiting /\ Shape
         /\ kind = "semaphore" =>
              /\ counter \in Int /\ counter >= 0
              /\ \A u \in Tasks : pc[u] = "dec" => u = current /\ counter > 0
              /\ \A u \in Tasks : pc[u] \in {"sleep", "inc"} => u = current
              /\ \A u \in Tasks : pc[u] \in {"sleep"} \cup Adding => counter = 0
              /\ order # <<>> => counter = 0
              /\ \A u \in Tasks : pc[u] = "inc" => order = <<>>
BY DEF WInv, ListInv, UnitInv, SeenFree, NoneFree, Clean, TypeOK

LEMMA DownUnits == ASSUME WInv, NEW t \in Tasks, Down(t) PROVE UnitInv'
PROOF
<1> DEFINE x == IF kind = "semaphore" /\ counter > 0 THEN "dec" ELSE "sleep"
<1>1. /\ TypeOK /\ UnitInv /\ t = current /\ pc[t] = "out" /\ Goto(t, x)
      /\ UNCHANGED <<kind, counter, asleep, current, order, hit>>
  BY DEF WInv, ListInv, Down, At
<1>2. /\ pc'[t] = x /\ \A u \in Tasks : u # t => pc'[u] = pc[u]
  BY <1>1, Moves, PlacesApart
<1>3. Holders' = Holders
  BY <1>1, <1>2 DEF Holders, Holds
<1>4. ASSUME kind = "semaphore", Clean, "dec" \notin hit
      PROVE  \A u \in Tasks : pc'[u] = "dec" => u = current' /\ counter > 0
  BY <1>1, <1>2, <1>4 DEF UnitInv, SeenFree
<1>5. ASSUME kind = "semaphore", hit = {}
      PROVE  /\ \A u \in Tasks : pc'[u] \in {"sleep", "inc"} => u = current'
             /\ (\E u \in Tasks : pc'[u] \in {"sleep"} \cup Adding) \/ order' # <<>> => counter = 0
             /\ \A u \in Tasks : pc'[u] = "inc" => order' = <<>>
  <2>1. pc'[t] = "sleep" => counter = 0
    BY <1>2, <1>5, BeforeAny
  <2>2. pc'[t] \in {"dec", "sleep"}
    BY <1>2
  <2> QED
    BY <1>1, <1>2, <1>5, <2>1, <2>2, BeforeAny DEF Adding
<1> QED
  BY <1>1, <1>3, <1>4, <1>5, NoUnitMoves DEF Clean

LEMMA DecUnits == ASSUME WInv, NEW t \in Tasks, Dec(t) PROVE UnitInv'
PROOF
<1>1. /\ TypeOK /\ UnitInv /\ t = current /\ pc[t] = "dec" /\ Goto(t, "in")
      /\ counter' = counter - 1 /\ counter \in Int
      /\ UNCHANGED <<kind, asleep, current, order, hit>>
  BY DEF WInv, ListInv, Dec, At, TypeOK
<1>2. /\ pc'[t] = "in" /\ \A u \in Tasks : u # t => pc'[u] = pc[u]
  BY <1>1, Moves, PlacesApart
<1>3. t \in Tasks \ Holders /\ Holders' = Holders \cup {t}
  BY <1>1, <1>2 DEF Holders, Holds
<1>4. UnitsCounted'
  <2>1. Cardinality(Holders') = Cardinality(Holders) + 1 /\ Cardinality(Holders) \in Nat
    BY <1>3, HoldersCounted
  <2> QED
    BY <1>1, <2>1 DEF UnitInv, UnitsCounted, Clean
<1>5. SeenFree'
  BY <1>1, <1>2 DEF UnitInv, SeenFree, Clean
<1>6. NoneFree'
  <2> SUFFICES ASSUME kind = "semaphore", hit = {}
               PROVE  /\ \A u \in Tasks : pc'[u] \notin {"sleep", "inc"} \cup Adding
                      /\ order = <<>>
    BY <1>1 DEF NoneFree
  <2>1. counter > 0
    BY <1>1, BeforeAny
  <2> QED
    BY <1>1, <1>2, <2>1, BeforeAny DEF Adding, Waiting, ListWindows
<1> QED
  BY <1>4, <1>5, <1>6 DEF UnitInv

LEMMA SleepOnUnits == ASSUME WInv, NEW t \in Tasks, SleepOn(t) PROVE UnitInv'
PROOF
<1>1. /\ TypeOK /\ UnitInv /\ t = current /\ pc[t] = "sleep" /\ Goto(t, "add2")
      /\ asleep' = asleep \cup {t}
      /\ UNCHANGED <<kind, counter, current, order, hit>>
  BY DEF WInv, ListInv, SleepOn, At
<1>2. /\ pc'[t] = "add2" /\ \A u \in Tasks : u # t => pc'[u] = pc[u]
  BY <1>1, Moves, PlacesApart
<1>3. Holders' = Holders
  BY <1>1, <1>2 DEF Holders, Holds
<1>4. ASSUME kind = "semaphore", Clean, "dec" \notin hit
      PROVE  \A u \in Tasks : pc'[u] = "dec" => u = current' /\ counter > 0
  BY <1>1, <1>2, <1>4 DEF UnitInv, SeenFree
<1>5. ASSUME kind = "semaphore", hit = {}
      PROVE  /\ \A u \in Tasks : pc'[u] \in {"sleep", "inc"} => u = current'
             /\ (\E u \in Tasks : pc'[u] \in {"sleep"} \cup Adding) \/ order' # <<>> => counter = 0
             /\ \A u \in Tasks : pc'[u] = "inc" => order' = <<>>
  BY <1>1, <1>2, <1>5, BeforeAny DEF Adding
<1> QED
  BY <1>1, <1>3, <1>4, <1>5, NoUnitMoves DEF Clean

LEMMA AddUnits ==
  ASSUME WInv, NEW t \in Tasks, Add2(t) \/ Add3(t) \/ Add4(t), fault' = "none"
  PROVE  UnitInv'
PROOF
<1>1. PICK x \in {"add3", "add4", "wait"} :
        /\ t = current /\ pc[t] \in Adding /\ Goto(t, x)
        /\ UNCHANGED <<kind, counter, asleep, current, hit>>
        /\ order' # <<>> => order # <<>> \/ pc[t] \in Adding
  BY DEF Add2, Add3, Add4, At, Fail, Adding
<1>2. TypeOK /\ UnitInv
  BY DEF WInv, ListInv
<1>3. /\ pc'[t] = x /\ \A u \in Tasks : u # t => pc'[u] = pc[u]
  BY <1>1, <1>2, Moves, PlacesApart
<1>4. Clean => Holders' = Holders
  <2>1. Clean => t \in asleep
    BY <1>1 DEF WInv, ListInv, Waiting
  <2> QED
    BY <1>1, <1>3, <2>1 DEF Holders, Holds, Adding
<1>5. ASSUME kind = "semaphore", Clean, "dec" \notin hit
      PROVE  \A u \in Tasks : pc'[u] = "dec" => u = current' /\ counter > 0
  BY <1>1, <1>2, <1>3, <1>5 DEF UnitInv, SeenFree
<1>6. ASSUME kind = "semaphore", hit = {}
      PROVE  /\ \A u \in Tasks : pc'[u] \in {"sleep", "inc"} => u = current'
             /\ (\E u \in Tasks : pc'[u] \in {"sleep"} \cup Adding) \/ order' # <<>> => counter = 0
             /\ \A u \in Tasks : pc'[u] = "inc" => order' = <<>>
  <2>1. counter = 0
    BY <1>1, <1>6, BeforeAny
  <2>2. \A u \in Tasks : pc'[u] # "inc"
    BY <1>1, <1>3, <1>6, BeforeAny DEF Adding
  <2> QED
    BY <1>1, <1>3, <1>6, <2>1, <2>2, BeforeAny
<1> QED
  BY <1>1, <1>2, <1>4, <1>5, <1>6, NoUnitMoves DEF Clean

LEMMA SwitchUnits ==
  ASSUME WInv, UNCHANGED <<kind, counter, asleep, pc, order>>,
         \/ Interrupted
         \/ hit' = hit /\ current \in Tasks /\ pc[current] = "wait"
  PROVE  UnitInv'
PROOF
<1>1. TypeOK /\ UnitInv
  BY DEF WInv, ListInv
<1>2. /\ hit \subseteq hit'
      /\ current \in Tasks /\ pc[current] \in Windows => pc[current] \in hit'
  BY <1>1, InterruptedHits, PlacesApart
<1>3. Holders' = Holders
  BY DEF Holders, Holds
<1>4. ASSUME kind = "semaphore", Clean', "dec" \notin hit'
      PROVE  \A u \in Tasks : pc'[u] # "dec"
  <2>1. Clean /\ "dec" \notin hit
    BY <1>2, <1>4 DEF Clean
  <2> QED
    BY <1>1, <1>2, <1>4, <2>1, PlacesApart DEF UnitInv, SeenFree
<1>5. ASSUME kind = "semaphore", hit' = {}
      PROVE  /\ \A u \in Tasks : pc'[u] \notin {"sleep", "inc"} \cup Adding
             /\ order' # <<>> => counter = 0
  <2>1. hit = {} /\ (current \in Tasks => pc[current] \notin Windows)
    BY <1>2, <1>5
  <2> QED
    BY <1>5, <2>1, BeforeAny, PlacesApart DEF Waiting, Adding
<1> QED
  BY <1>1, <1>2, <1>3, <1>4, <1>5, NoUnitMoves, WaitListAssumption DEF TypeOK

LEMMA ReturnUnits == ASSUME WInv, NEW t \in Tasks, Return(t) PROVE UnitInv'
PROOF
<1>1. PICK x \in {"in", "out"} :
        /\ t = current /\ pc[t] = "wait" /\ t \notin asleep /\ Goto(t, x)
        /\ kind = "semaphore" => x = "in"
        /\ UNCHANGED <<kind, counter, asleep, current, order, hit>>
  BY DEF Return, At
<1>2. TypeOK /\ UnitInv
  BY DEF WInv, ListInv
<1>3. /\ pc'[t] = x /\ \A u \in Tasks : u # t => pc'[u] = pc[u]
  BY <1>1, <1>2, Moves, PlacesApart
<1>4. kind = "semaphore" => Holders' = Holders
  BY <1>1, <1>3 DEF Holders, Holds
<1>5. ASSUME kind = "semaphore", Clean, "dec" \notin hit
      PROVE  \A u \in Tasks : pc'[u] = "dec" => u = current' /\ counter > 0
  BY <1>1, <1>2, <1>3, <1>5 DEF UnitInv, SeenFree
<1>6. ASSUME kind = "semaphore", hit = {}
      PROVE  /\ \A u \in Tasks : pc'[u] \in {"sleep", "inc"} => u = current'
             /\ (\E u \in Tasks : pc'[u] \in {"sleep"} \cup Adding) \/ order' # <<>> => counter = 0
             /\ \A u \in Tasks : pc'[u] = "inc" => order' = <<>>
  BY <1>1, <1>3, <1>6, BeforeAny DEF Adding
<1> QED
  BY <1>1, <1>2, <1>4, <1>5, <1>6, NoUnitMoves DEF Clean

LEMMA WakeUnits == ASSUME WInv, NEW t \in Tasks, Wake(t) \/ Take(t) PROVE UnitInv'
PROOF
<1>1. /\ t = current /\ UNCHANGED <<kind, counter, asleep, current, order, hit>>
      /\ pc[t] \in {"in", "out", "take"} /\ (kind = "semaphore" => pc[t] \in {"in", "take"})
  BY DEF Wake, Take, At, Fail
<1>2. TypeOK /\ UnitInv
  BY DEF WInv, ListInv
<1>3. CASE UNCHANGED pc
  BY <1>1, <1>2, <1>3, NoUnitMoves DEF Clean, Holders, Holds, UnitInv, SeenFree, NoneFree
<1>4. ASSUME NEW x \in {"inc", "out", "take", "del1"}, Goto(t, x),
             kind = "semaphore" => x \in {"inc", "take", "del1"},
             x = "inc" => Empty /\ pc[t] = "in"
      PROVE  UnitInv'
  <2>1. /\ pc'[t] = x /\ \A u \in Tasks : u # t => pc'[u] = pc[u]
    BY <1>2, <1>4, Moves, PlacesApart
  <2>2. kind = "semaphore" => Holders' = Holders
    BY <1>1, <1>4, <2>1 DEF Holders, Holds
  <2>3. ASSUME kind = "semaphore", Clean, "dec" \notin hit
        PROVE  \A u \in Tasks : pc'[u] = "dec" => u = current' /\ counter > 0
    BY <1>1, <1>2, <2>1, <2>3 DEF UnitInv, SeenFree
  <2>4. ASSUME kind = "semaphore", hit = {}
        PROVE  /\ \A u \in Tasks : pc'[u] \in {"sleep", "inc"} => u = current'
               /\ (\E u \in Tasks : pc'[u] \in {"sleep"} \cup Adding) \/ order' # <<>> => counter = 0
               /\ \A u \in Tasks : pc'[u] = "inc" => order' = <<>>
    <3>1. x = "inc" => order = <<>>
      <4> SUFFICES ASSUME x = "inc" PROVE order = <<>>
        OBVIOUS
      <4>1. Here \notin ListWindows /\ Clean
        BY <1>1, <1>4, <2>4 DEF Here, ListWindows, Clean
      <4> QED
        BY <1>4, <4>1, FirstIsThere DEF WInv
    <3> QED
      BY <1>1, <2>1, <2>4, <3>1, BeforeAny DEF Adding
  <2> QED
    BY <1>1, <1>2, <2>2, <2>3, <2>4, NoUnitMoves DEF Clean
<1>5. \/ UNCHANGED pc
      \/ \E x \in {"inc", "out", "take", "del1"} :
           /\ Goto(t, x) /\ (kind = "semaphore" => x \in {"inc", "take", "del1"})
           /\ (x = "inc" => Empty /\ pc[t] = "in")
  BY DEF Wake, Take, Fail, At
<1> QED
  BY <1>3, <1>4, <1>5

LEMMA IncUnits == ASSUME WInv, NEW t \in Tasks, Inc(t) PROVE UnitInv'
PROOF
<1>1. /\ TypeOK /\ UnitInv /\ t = current /\ pc[t] = "inc" /\ Goto(t, "out")
      /\ counter' = counter + 1 /\ counter \in Int
      /\ UNCHANGED <<kind, asleep, current, order, hit>>
  BY DEF WInv, ListInv, Inc, IncCounter, At, TypeOK
<1>2. /\ pc'[t] = "out" /\ \A u \in Tasks : u # t => pc'[u] = pc[u]
  BY <1>1, Moves, PlacesApart
<1>3. t \in Holders /\ Holders' = Holders \ {t}
  BY <1>1, <1>2 DEF Holders, Holds
<1>4. UnitsCounted'
  <2>1. Cardinality(Holders') = Cardinality(Holders) - 1 /\ Cardinality(Holders) \in Nat
    BY <1>3, HoldersCounted
  <2> QED
    BY <1>1, <2>1 DEF UnitInv, UnitsCounted, Clean
<1>5. SeenFree'
  BY <1>1, <1>2 DEF UnitInv, SeenFree, Clean
<1>6. NoneFree'
  <2> SUFFICES ASSUME kind = "semaphore", hit = {}
               PROVE  /\ \A u \in Tasks : pc'[u] \notin {"sleep", "inc"} \cup Adding
                      /\ order = <<>>
    BY <1>1 DEF NoneFree
  <2> QED
    BY <1>1, <1>2, BeforeAny DEF Adding, Waiting, ListWindows
<1> QED
  BY <1>4, <1>5, <1>6 DEF UnitInv

LEMMA Del1Units == ASSUME WInv, NEW t \in Tasks, Del1(t), fault' = "none" PROVE UnitInv'
PROOF
<1>1. /\ TypeOK /\ UnitInv /\ t = current /\ pc[t] = "del1" /\ Goto(t, "del2")
      /\ UNCHANGED <<kind, counter, asleep, current, order, hit>>
  BY DEF WInv, ListInv, Del1, At, Fail
<1>2. /\ pc'[t] = "del2" /\ \A u \in Tasks : u # t => pc'[u] = pc[u]
  BY <1>1, Moves, PlacesApart
<1>3. Holders' = Holders
  BY <1>1, <1>2 DEF Holders, Holds
<1>4. ASSUME kind = "semaphore", Clean, "dec" \notin hit
      PROVE  \A u \in Tasks : pc'[u] = "dec" => u = current' /\ counter > 0
  BY <1>1, <1>2, <1>4 DEF UnitInv, SeenFree
<1>5. ASSUME kind = "semaphore", hit = {}
      PROVE  /\ \A u \in Tasks : pc'[u] \in {"sleep", "inc"} => u = current'
             /\ (\E u \in Tasks : pc'[u] \in {"sleep"} \cup Adding) \/ order' # <<>> => counter = 0
             /\ \A u \in Tasks : pc'[u] = "inc" => order' = <<>>
  BY <1>1, <1>2, <1>5, BeforeAny DEF Adding
<1> QED
  BY <1>1, <1>3, <1>4, <1>5, NoUnitMoves DEF Clean

\* The unit that __up did not count goes to the task it wakes.
LEMMA Del2Units == ASSUME WInv, NEW t \in Tasks, Del2(t), fault' = "none" PROVE UnitInv'
PROOF
<1> DEFINE n == node[t]
<1>1. /\ TypeOK /\ UnitInv /\ order \in Seq(Tasks)
      /\ t = current /\ pc[t] = "del2" /\ Goto(t, "out")
      /\ asleep' = asleep \ {n} /\ order' = RemoveFirst(order, n)
      /\ UNCHANGED <<kind, counter, current, hit>>
  BY DEF WInv, ListInv, Del2, At, Fail
<1>2. /\ pc'[t] = "out" /\ \A u \in Tasks : u # t => pc'[u] = pc[u]
  BY <1>1, Moves, PlacesApart
<1>3. ASSUME Clean PROVE t \in Holders /\ n \in Tasks \ Holders /\ Holders' = (Holders \ {t}) \cup {n}
  <2>1. Here = "del2"
    BY <1>1 DEF Here
  <2>2. n \in ToSet(order) /\ n \in Tasks /\ n \in asleep /\ pc[n] = "wait"
    BY <1>1, <1>3, <2>1, DeletedIsThere DEF WInv, ListInv, Waiting
  <2> QED
    BY <1>1, <1>2, <2>2 DEF Holders, Holds
<1>4. UnitsCounted'
  <2>1. Clean => Cardinality(Holders') = Cardinality(Holders)
    BY <1>3, HoldersCounted
  <2> QED
    BY <1>1, <2>1 DEF UnitInv, UnitsCounted, Clean
<1>5. SeenFree'
  BY <1>1, <1>2 DEF UnitInv, SeenFree, Clean
<1>6. NoneFree'
  <2> SUFFICES ASSUME kind = "semaphore", hit = {}
               PROVE  /\ \A u \in Tasks : pc'[u] \notin {"sleep", "inc"} \cup Adding
                      /\ counter = 0
    BY <1>1 DEF NoneFree
  <2>1. Clean /\ Here = "del2"
    BY <1>1 DEF Here, Clean
  <2>2. order # <<>>
    BY <2>1, DeletedIsThere DEF WInv
  <2> QED
    BY <1>1, <1>2, <2>2, BeforeAny DEF Adding, Waiting, ListWindows
<1> QED
  BY <1>4, <1>5, <1>6 DEF UnitInv

LEMMA TaskUnits ==
  ASSUME WInv, NEW t \in Tasks, Task(t), fault' = "none"
  PROVE  UnitInv'
PROOF
<1>1. CASE Sleep(t)
  BY <1>1, SwitchUnits DEF Sleep, At
<1> QED
  BY <1>1, DownUnits, DecUnits, SleepOnUnits, AddUnits, ReturnUnits, WakeUnits, IncUnits,
     Del1Units, Del2Units DEF Task
-----------------------------------------------------------------------------
(* The theorems *)

LEMMA WInvInit == Init => WInv
PROOF
<1> SUFFICES ASSUME Init PROVE WInv
  OBVIOUS
<1>1. << >> \in Seq(Tasks) /\ ToSet(<< >>) = {} /\ IsInjective(<< >>) /\ Len(<< >>) = 0
  BY EmptySeq DEF ToSet, IsInjective
<1>2. order = <<>> /\ hit = {} /\ fault = "none" /\ asleep = {} /\ \A t \in Tasks : pc[t] = "out"
  BY DEF Init
<1>3. counter \in Int /\ (kind = "semaphore" => counter = Units /\ counter >= 0)
  BY WaitListAssumption DEF Init
<1>4. TypeOK
  BY <1>1, <1>2, <1>3 DEF Init, TypeOK, Nodes, Faults
<1>5. Waiting
  BY <1>1, <1>2 DEF Waiting, ListWindows, Adding
<1>6. Shape
  <2>1. Here = "out"
    BY <1>2 DEF Here
  <2>2. Forward(next, order) /\ Backward(prev, order)
    BY <1>1, <1>2 DEF Init, Forward, Backward, Entry, Nodes
  <2> QED
    BY <2>1, <2>2 DEF Shape
<1>7. UnitsCounted
  <2>1. Holders = {}
    BY <1>2 DEF Holders, Holds
  <2> QED
    BY <1>3, <2>1, FS_EmptySet, WaitListAssumption DEF UnitsCounted
<1>8. SeenFree /\ NoneFree
  BY <1>2, <1>3 DEF SeenFree, NoneFree, Adding
<1> QED
  BY <1>1, <1>2, <1>4, <1>5, <1>6, <1>7, <1>8 DEF WInv, ListInv, UnitInv

LEMMA WInvNext == WInv /\ [Next]_vars => WInv'
PROOF
<1> SUFFICES ASSUME WInv, [Next]_vars PROVE WInv'
  OBVIOUS
<1>1. CASE UNCHANGED vars
  BY <1>1 DEF vars, list, WInv, ListInv, UnitInv, TypeOK, Clean, Waiting, Shape, Here,
     UnitsCounted, Holders, Holds, SeenFree, NoneFree
<1>2. TypeOK /\ ListInv
  BY DEF WInv, ListInv
<1>3. CASE fault' # "none"
  <2>1. ASSUME Next PROVE \E what \in Faults : Fail(what) /\ ~Clean
    <3>1. fault = "none"
      BY <2>1 DEF Next, Task, Handler, Preempt, Down, Dec, SleepOn, Add2, Add3, Add4, Sleep,
         Return, Wake, Take, Inc, Del1, Del2, At
    <3>2. ~Clean
      BY <1>2, <1>3, <2>1, <3>1, NothingWrong DEF Next, Preempt
    <3>3. \E what \in Faults : Fail(what)
      BY <1>3, <2>1, <3>1 DEF Next, Task, Handler, Preempt, Down, Dec, SleepOn, Add2, Add3, Add4,
         Sleep, Return, Wake, Take, Inc, Del1, Del2, Faults
    <3> QED
      BY <3>2, <3>3
  <2> QED
    BY <1>1, <2>1, FailStep
<1>4. CASE fault' = "none"
  <2>1. CASE Handler
    <3>1. /\ kind = "queue" /\ UNCHANGED kind /\ Foremost \in asleep /\ Interrupted
      BY <1>4, <2>1 DEF Handler, Fail
    <3>2. ListInv'
      BY <1>2, <1>4, <2>1, HandlerList DEF Handler, Fail
    <3>3. UnitInv'
      BY <3>1 DEF UnitInv, UnitsCounted, SeenFree, NoneFree
    <3> QED
      BY <3>2, <3>3 DEF WInv
  <2>2. CASE Preempt
    <3>1. current \in Tasks \cup {Idle} /\ Interrupted /\ Other(current)
          /\ UNCHANGED <<kind, list, counter, asleep, pc, node, order, fault>>
      BY <1>2, <2>2 DEF Preempt, TypeOK
    <3>2. ListInv'
      BY <1>2, <3>1, InterruptedHits, SwitchList
    <3>3. UnitInv'
      BY <3>1, SwitchUnits
    <3> QED
      BY <3>2, <3>3 DEF WInv
  <2>3. ASSUME NEW t \in Tasks, Task(t) PROVE WInv'
    <3>1. fault = "none"
      BY <2>3 DEF Task, Down, Dec, SleepOn, Add2, Add3, Add4, Sleep, Return, Wake, Take, Inc, Del1,
         Del2, At
    <3> QED
      BY <1>2, <1>4, <2>3, <3>1, TaskList, TaskUnits DEF WInv
  <2> QED
    BY <1>1, <2>1, <2>2, <2>3 DEF Next
<1> QED
  BY <1>3, <1>4

LEMMA WInvAlways == Spec => []WInv
PROOF
<1> QED
  BY WInvInit, WInvNext, PTL DEF Spec

\* The list between its two heads, entry by entry.
LEMMA WholeEntries ==
  ASSUME NEW s \in Seq(Tasks), NEW i \in 1..Len(s) + 1
  PROVE  LET whole == <<QueueHead>> \o s \o <<QueueHead>>
         IN whole[i] = Entry(s, i - 1) /\ whole[i + 1] = Entry(s, i)
PROOF
<1> DEFINE front == <<QueueHead>> \o s
           whole == front \o <<QueueHead>>
<1>1. /\ Len(s) \in Nat /\ s \in Seq(Nodes) /\ <<QueueHead>> \in Seq(Nodes)
      /\ Len(<<QueueHead>>) = 1 /\ <<QueueHead>>[1] = QueueHead
  BY LenProperties, ElementOfSeq DEF Nodes
<1>2. /\ front \in Seq(Nodes) /\ Len(front) = Len(s) + 1
      /\ \A j \in 1..Len(s) + 1 : front[j] = IF j <= 1 THEN <<QueueHead>>[j] ELSE s[j - 1]
  BY <1>1, ConcatProperties
<1> HIDE DEF front
<1>3. \A j \in 1..Len(s) + 2 :
        whole[j] = IF j <= Len(s) + 1 THEN front[j] ELSE <<QueueHead>>[j - (Len(s) + 1)]
  BY <1>1, <1>2, ConcatProperties
<1> HIDE DEF whole
<1>4. \A j \in 1..Len(s) + 2 : whole[j] = Entry(s, j - 1)
  <2> TAKE j \in 1..Len(s) + 2
  <2>1. CASE j = 1
    BY <1>1, <1>2, <1>3, <2>1 DEF Entry
  <2>2. CASE j \in 2..Len(s) + 1
    <3>1. whole[j] = s[j - 1] /\ j - 1 \in 1..Len(s)
      BY <1>1, <1>2, <1>3, <2>2
    <3> QED
      BY <3>1 DEF Entry
  <2>3. CASE j = Len(s) + 2
    <3>1. j - (Len(s) + 1) = 1 /\ j - 1 \notin 1..Len(s) /\ ~(j <= Len(s) + 1)
      BY <1>1, <2>3
    <3> QED
      BY <1>1, <1>3, <3>1 DEF Entry
  <2> QED
    BY <1>1, <2>1, <2>2, <2>3
<1>5. i \in 1..Len(s) + 2 /\ i + 1 \in 1..Len(s) + 2 /\ (i + 1) - 1 = i
  BY <1>1
<1>6. whole[i] = Entry(s, i - 1) /\ whole[i + 1] = Entry(s, i)
  BY <1>4, <1>5
<1> QED
  BY <1>6 DEF whole, front

\* However tasks and handlers interleave at a wait queue or a semaphore, the list is that
\* of the tasks that wait, in the order they came, and no dead frame, list head or waking
\* task is taken for an entry, unless a list operation was interrupted (lib.h:57-69; a
\* removal from the test for an empty list on).
THEOREM ListIsSound == Spec => []ListSound
PROOF
<1>1. WInv => ListSound
  <2> SUFFICES ASSUME WInv PROVE ListSound
    OBVIOUS
  <2>1. TypeOK /\ order \in Seq(Tasks) /\ FaultsByWindow
    BY DEF WInv, ListInv, FaultsByWindow, Clean, Waiting
  <2>2. ASSUME Clean PROVE \A t \in asleep \ {current} : t \in ToSet(order)
    BY <2>1, <2>2 DEF WInv, ListInv, Waiting, TypeOK, Adding, ListWindows
  <2>3. ASSUME Clean, Quiet PROVE asleep = ToSet(order) /\ IsInjective(order)
    <3>1. {t \in Tasks : pc[t] \in Adding} = {}
      BY <2>3 DEF Quiet, Adding, ListWindows
    <3> QED
      BY <2>3, <3>1 DEF WInv, ListInv, Waiting
  <2>4. ASSUME Clean, Quiet, NEW i \in 1..Len(order) + 1
        PROVE  LET whole == <<QueueHead>> \o order \o <<QueueHead>>
               IN next[whole[i]] = whole[i + 1] /\ prev[whole[i + 1]] = whole[i]
    <3>1. Here \notin ListWindows
      BY <2>4 DEF Here, Quiet, ListWindows
    <3>2. Forward(next, order) /\ Backward(prev, order)
      BY <2>4, <3>1 DEF WInv, ListInv, Shape, ListWindows
    <3>3. i - 1 \in 0..Len(order) /\ (i - 1) + 1 = i
      BY <2>1, LenProperties
    <3>4. next[Entry(order, i - 1)] = Entry(order, i) /\ prev[Entry(order, i)] = Entry(order, i - 1)
      BY <3>2, <3>3 DEF Forward, Backward
    <3> QED
      BY <2>1, <3>4, WholeEntries
  <2> QED
    BY <2>1, <2>2, <2>3, <2>4 DEF ListSound, ListIsQueue, Clean
<1> QED
  BY <1>1, WInvAlways, PTL

\* The semaphore keeps the units it was given, and nobody waits while one is free, unless
\* a task is interrupted where the property says (semaphore.c:43, 61).
THEOREM UnitsAreKept == Spec => []UnitsKept
PROOF
<1>1. WInv => UnitsKept
  <2> SUFFICES ASSUME WInv, kind = "semaphore"
               PROVE  /\ Clean => counter + Cardinality({t \in Tasks : Holds(t)}) = Units
                      /\ Clean /\ "dec" \notin hit => counter >= 0
                      /\ hit = {} /\ order # <<>> => counter = 0
    BY DEF UnitsKept, Clean
  <2> QED
    BY DEF WInv, UnitInv, UnitsCounted, Holders, SeenFree, NoneFree
<1> QED
  BY <1>1, WInvAlways, PTL
=============================================================================
