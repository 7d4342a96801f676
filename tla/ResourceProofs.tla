--------------------------- MODULE ResourceProofs ---------------------------
(***************************************************************************)
(* Proofs about what tasks hold: struct files and mm_structs (Process), for *)
(* any set of tasks, tables of any length and any number of frames; pages  *)
(* and objects of kmalloc (Memory), for any number of tasks and of pages,  *)
(* slabs of any size and preemptions in any number of windows.             *)
(***************************************************************************)
EXTENDS Process, Memory, ListLemmas, FiniteSetTheorems
-----------------------------------------------------------------------------
(* What the allocators give *)

\* kmalloc gives something that is free, when anything is.
LEMMA FirstIs ==
  ASSUME NEW S, S \subseteq Nat, S # {}
  PROVE  First(S) \in S
<1>1. PICK x \in S : \A y \in S : x <= y
  BY Least
<1>2. {y \in S : y < x} = {}
  <2> SUFFICES ASSUME NEW y \in S, y < x PROVE FALSE
    OBVIOUS
  <2>1. x \in Nat /\ y \in Nat /\ x <= y
    BY <1>1
  <2> QED
    BY <2>1
<1>3. Cardinality({y \in S : y < x}) = 1 - 1
  BY <1>2, FS_EmptySet
<1> QED
  BY <1>3 DEF First, Nth

\* The k-th call of kmalloc gives what k - 1 others lie below.
LEMMA NthIs ==
  ASSUME NEW S, S \subseteq Nat, IsFiniteSet(S), NEW k \in 1..Cardinality(S)
  PROVE  /\ Nth(S, k) \in S
         /\ Cardinality({y \in S : y < Nth(S, k)}) = k - 1
BY RankIsTaken DEF Nth

\* The k-th and the j-th are two.
LEMMA NthApart ==
  ASSUME NEW S, S \subseteq Nat, IsFiniteSet(S),
         NEW k \in 1..Cardinality(S), NEW j \in 1..Cardinality(S), k # j
  PROVE  Nth(S, k) # Nth(S, j)
<1>1. Cardinality(S) \in Nat
  BY FS_CardinalityType
<1>2. /\ Cardinality({y \in S : y < Nth(S, k)}) = k - 1
      /\ Cardinality({y \in S : y < Nth(S, j)}) = j - 1
  BY NthIs
<1>3. k - 1 # j - 1
  BY <1>1
<1> QED
  BY <1>2, <1>3
-----------------------------------------------------------------------------
(* Tables of struct files *)

FileTables == [FDs -> Files \cup {NULL}]
UsedOf(s) == {fd \in FDs : s[fd] # NULL}
TableOf(s) == {s[fd] : fd \in UsedOf(s)}
NoneTwice(s) == \A a, b \in UsedOf(s) : a # b => s[a] # s[b]

LEMMA UsedTable == \A t : Used(t) = UsedOf(file_struct[t]) /\ Table(t) = TableOf(file_struct[t])
BY DEF Used, Table, UsedOf, TableOf

LEMMA FDsFinite == FDs \subseteq Nat /\ IsFiniteSet(FDs) /\ TASK_FILE_MAX \notin FDs
<1>1. TASK_FILE_MAX \in Nat
  BY ProcessAssumption
<1>2. IsFiniteSet(0..TASK_FILE_MAX - 1)
  BY <1>1, FS_Interval
<1> QED
  BY <1>1, <1>2 DEF FDs

LEMMA TableFinite ==
  ASSUME NEW s \in FileTables
  PROVE  /\ UsedOf(s) \subseteq FDs /\ IsFiniteSet(UsedOf(s))
         /\ TableOf(s) \subseteq Files /\ IsFiniteSet(TableOf(s))
         /\ NULL \notin TableOf(s)
<1>1. UsedOf(s) \subseteq FDs
  BY DEF UsedOf
<1>2. TableOf(s) \subseteq Files /\ NULL \notin TableOf(s)
  BY DEF FileTables, UsedOf, TableOf
<1> QED
  BY <1>1, <1>2, FDsFinite, ProcessAssumption, FS_Subset

LEMMA EmptyTable == NoFiles \in FileTables /\ UsedOf(NoFiles) = {} /\ TableOf(NoFiles) = {}
BY DEF NoFiles, FileTables, UsedOf, TableOf

\* A table without a struct file twice has as many as it has descriptors.
LEMMA TableAsLargeAsUsed ==
  ASSUME NEW s \in FileTables, NoneTwice(s)
  PROVE  ~(Cardinality(TableOf(s)) < Cardinality(UsedOf(s)))
<1> SUFFICES ASSUME Cardinality(TableOf(s)) < Cardinality(UsedOf(s)) PROVE FALSE
  OBVIOUS
<1> DEFINE f == [fd \in UsedOf(s) |-> s[fd]]
<1>1. f \in [UsedOf(s) -> TableOf(s)]
  BY DEF TableOf
<1>2. IsFiniteSet(UsedOf(s)) /\ IsFiniteSet(TableOf(s))
  BY TableFinite
<1> HIDE DEF f
<1>3. \E x, y \in UsedOf(s) : x # y /\ f[x] = f[y]
  BY <1>1, <1>2, FS_PigeonHole
<1> QED
  BY <1>3 DEF NoneTwice, f

\* How many of a set of descriptors come up to one of them: another number for each.
LEMMA RankIs ==
  ASSUME NEW U, U \subseteq FDs, NEW a \in U
  PROVE  /\ Cardinality(U \cap 0..a) \in 1..Cardinality(U)
         /\ \A b \in U : a < b => Cardinality(U \cap 0..a) # Cardinality(U \cap 0..b)
<1>1. U \subseteq Nat /\ IsFiniteSet(U)
  BY FDsFinite, FS_Subset
<1>2. IsFiniteSet(U \cap 0..a) /\ a \in U \cap 0..a
  BY <1>1, FS_Subset
<1>3. Cardinality(U \cap 0..a) \in Nat /\ Cardinality(U) \in Nat
  BY <1>1, <1>2, FS_CardinalityType
<1>4. Cardinality(U \cap 0..a) # 0
  BY <1>2, FS_EmptySet
<1>5. Cardinality(U \cap 0..a) <= Cardinality(U)
  <2>1. U \cap 0..a \in SUBSET U
    OBVIOUS
  <2> QED
    BY <2>1, <1>1, FS_Subset
<1>6. ASSUME NEW b \in U, a < b PROVE Cardinality(U \cap 0..a) # Cardinality(U \cap 0..b)
  <2>1. U \cap 0..a \in SUBSET (U \cap 0..b)
    BY <1>1, <1>6
  <2>2. b \in U \cap 0..b /\ b \notin U \cap 0..a
    BY <1>1, <1>6
  <2>3. IsFiniteSet(U \cap 0..b)
    BY <1>1, FS_Subset
  <2>4. Cardinality(U \cap 0..b) = Cardinality(U \cap 0..a) => U \cap 0..b = U \cap 0..a
    BY <2>1, <2>3, FS_Subset
  <2> QED
    BY <2>2, <2>4
<1> QED
  BY <1>3, <1>4, <1>5, <1>6

\* The copy that copy_files makes: the same descriptors, and a struct file of its
\* own, out of the free ones, for each.
LEMMA CopiesAre ==
  ASSUME NEW t \in Tasks, file_struct[t] \in FileTables,
         Cardinality(Files \ files) >= Cardinality(Used(t))
  PROVE  /\ Copies(t) \in FileTables
         /\ UsedOf(Copies(t)) = Used(t)
         /\ TableOf(Copies(t)) \subseteq Files \ files
         /\ TableOf(Copies(t)) = {Copies(t)[fd] : fd \in FDs} \ {NULL}
         /\ NoneTwice(Copies(t))
<1> DEFINE G == Files \ files
           U == Used(t)
           Rank(fd) == Cardinality(U \cap 0..fd)
           c == [fd \in FDs |-> IF fd \notin U THEN NULL ELSE Nth(G, Rank(fd))]
<1>1. G \subseteq Nat /\ IsFiniteSet(G) /\ Cardinality(G) \in Nat /\ NULL \notin G
  BY ProcessAssumption, FS_Subset, FS_CardinalityType
<1>2. U \subseteq FDs /\ IsFiniteSet(U) /\ Cardinality(U) \in Nat
  BY FDsFinite, FS_Subset, FS_CardinalityType DEF Used
<1>3. \A fd \in U : Rank(fd) \in 1..Cardinality(G)
  BY <1>1, <1>2, RankIs
<1>4. \A fd \in U : Nth(G, Rank(fd)) \in G
  BY <1>1, <1>3, NthIs
<1>5. \A a, b \in U : a < b => Rank(a) # Rank(b)
  BY <1>2, RankIs
<1>6. \A a, b \in U : a # b => Rank(a) # Rank(b)
  <2> SUFFICES ASSUME NEW a \in U, NEW b \in U, a # b PROVE Rank(a) # Rank(b)
    OBVIOUS
  <2>1. a \in Nat /\ b \in Nat
    BY <1>2, FDsFinite
  <2>2. a < b \/ b < a
    BY <2>1
  <2> HIDE DEF Rank
  <2> QED
    BY <2>2, <1>5
<1>7. \A a, b \in U : a # b => Nth(G, Rank(a)) # Nth(G, Rank(b))
  BY <1>1, <1>3, <1>6, NthApart
<1> HIDE DEF G, U, Rank
<1>8. UsedOf(c) = U /\ \A fd \in U : c[fd] = Nth(G, Rank(fd))
  BY <1>1, <1>2, <1>4 DEF UsedOf
<1>9. c \in [FDs -> G \cup {NULL}]
  BY <1>4
<1>10. c = Copies(t)
  BY DEF Copies, G, U, Rank
<1>11. \A fd \in FDs \ U : c[fd] = NULL
  OBVIOUS
<1> HIDE DEF c
<1>12. c \in FileTables
  BY <1>9 DEF G, FileTables
<1>13. TableOf(c) \subseteq G
  BY <1>4, <1>8 DEF TableOf
<1>14. TableOf(c) = {c[fd] : fd \in FDs} \ {NULL}
  BY <1>1, <1>2, <1>4, <1>8, <1>11 DEF TableOf
<1>15. NoneTwice(c)
  BY <1>7, <1>8 DEF NoneTwice
<1> QED
  BY <1>8, <1>10, <1>12, <1>13, <1>14, <1>15 DEF G, U
-----------------------------------------------------------------------------
(* The inductive invariant *)

\* What a task has follows from its state: who does not live has neither files nor a
\* flag, a program knows its descriptors, and one that sleeps in a read has the file.
Lives ==
  \A t \in Tasks :
    /\ state[t] # "ALIVE" => pc[t] = "user" /\ file_struct[t] = NoFiles
    /\ state[t] = "NONE" => t \notin vfork
    /\ opened[t] = UsedOf(file_struct[t])
    /\ pc[t] = "init" => t \in vfork /\ mm[t] = InitMm
    /\ pc[t] = "read" => filp[t] \in TableOf(file_struct[t])

\* The locals of do_fork, do_execve and do_brk: a child is of one parent, who has nothing
\* in its new mm has the flag, and what do_brk maps is in the heap.
Calls ==
  /\ \A t \in Tasks :
       /\ pc[t] = "copy" => child[t] \in Tasks /\ state[child[t]] = "NEW"
       /\ pc[t] = "exec_new" => t \in vfork /\ "exec_preempted" \in hit
       /\ pc[t] \in {"brk_test", "brk_store"} => brk[t].at >= 1
       /\ pc[t] = "brk_set" => brk[t].at \in 1..MaxHeap
  /\ \A t, u \in Tasks :
       t # u /\ pc[t] = "copy" /\ pc[u] = "copy" => child[t] # child[u]

\* Every mapping is of a frame; and a free mm_struct has none, and no heap.
Heaps ==
  /\ Cardinality(MappedFrames) <= frames
  /\ \A m \in Mms \ mms : mapped[m] = {} /\ end_brk[m] = 0

\* What of a heap is sure to be mapped below its end: the first frame only, once a heap
\* has been cut.
Sure == IF "heap_cut" \in hit THEN {1} ELSE 1..MaxHeap
Growing == {"brk_test", "brk_set", "brk_store"}
Backed(t, n) == (1..n) \cap Sure \subseteq mapped[mm[t]]

\* So it is for who runs in it, also for what do_brk has behind it; and of a child's heap
\* there is no more than the parent, who is copying it, has still got.
Sound == hit \cap {"brk_failed", "end_in_copy", "left_behind"} = {}
HeapsBacked ==
  /\ "brk_failed" \notin hit =>
       (\A m \in Mms : end_brk[m] <= MaxHeap) /\ (\A t \in Tasks : brk[t].at <= Beyond)
  /\ Sound => \A t \in Alive : mm[t] \in mms =>
       /\ Backed(t, end_brk[mm[t]])
       /\ pc[t] \in Growing => Backed(t, brk[t].at - 1)
       /\ pc[t] = "copy" =>
            /\ end_brk[mm[child[t]]] <= end_brk[mm[t]]
            /\ "heap_cut" \notin hit => end_brk[mm[child[t]]] <= 1

\* Who has an mm_struct, to run in it or to free it; and who has it alone: a child that
\* is being made, a zombie that will free it, and a vforked task that has just got it in
\* do_execve.
Holders == {t \in Existing : pc[t] # "init" /\ (state[t] # "ZOMBIE" \/ t \notin vfork)}
Alone(t) == state[t] \in {"NEW", "ZOMBIE"} \/ (t \in vfork /\ pc[t] \in {"exec", "exec_new"})

OwnMms ==
  Works /\ "left_behind" \notin hit =>
    /\ \A t \in Holders : mm[t] \in mms
    /\ \A t, u \in Holders :
         t # u /\ mm[t] = mm[u] => (t \in vfork \/ u \in vfork) /\ ~Alone(t) /\ ~Alone(u)

\* An mm_struct has the frame of the code, and nothing else for a child; and nothing yet
\* before do_execve goes on.
Code ==
  Works /\ "left_behind" \notin hit => \A t \in Holders :
    /\ pc[t] = "exec_new" => mapped[mm[t]] = {}
    /\ pc[t] # "exec_new" => 0 \in mapped[mm[t]]
    /\ state[t] = "NEW" => mapped[mm[t]] = {0}

\* What do_brk is going to map is not mapped, and by nobody else.
Places ==
  Works /\ hit \cap {"left_behind", "brk_race"} = {} =>
    /\ \A t \in Tasks : pc[t] = "brk_set" => brk[t].at \notin mapped[mm[t]]
    /\ \A t, u \in Tasks :
         t # u /\ pc[t] = "brk_set" /\ pc[u] = "brk_set" /\ mm[t] = mm[u] =>
           brk[t].at # brk[u].at

\* Every frame is mapped once until one is left.
FramesKept ==
  Works /\ hit \cap {"left_behind", "brk_race", "brk_left"} = {} =>
    frames = Cardinality(MappedFrames)

Calm == Works /\ hit \cap Borrowing = {}
OwnFiles ==
  Calm =>
    /\ \A t \in Alive : TableOf(file_struct[t]) \subseteq files /\ NoneTwice(file_struct[t])
    /\ \A t, u \in Alive \ vfork :
         t # u => TableOf(file_struct[t]) \cap TableOf(file_struct[u]) = {}

Tidy == Works /\ hit \cap (Borrowing \cup {"open_in_vfork", "fork_in_vfork"}) = {}
FilesKept ==
  Tidy => \A f \in files : \E t \in Alive \ vfork : f \in TableOf(file_struct[t])
Owns(t) == t \notin vfork \/ pc[t] \in {"exec", "exec_new"}
MmsKept ==
  Tidy => \A m \in mms : \E t \in Existing : Owns(t) /\ m = mm[t]

MInv == HeapsBacked /\ OwnMms /\ Code /\ Places /\ FramesKept /\ MmsKept
PInv == TypeOK /\ Lives /\ Calls /\ Heaps /\ MInv /\ OwnFiles /\ FilesKept /\ FaultsByEvent
-----------------------------------------------------------------------------
(* The frames of address spaces *)

FramesOf(M, mp) == {h \in M \X (0..MaxHeap) : h[2] \in mp[h[1]]}

\* An mm_struct has as many frames as it has places mapped.
LEMMA RowSize ==
  ASSUME NEW m, NEW G, IsFiniteSet(G)
  PROVE  IsFiniteSet({m} \X G) /\ Cardinality({m} \X G) = Cardinality(G)
<1>1. IsFiniteSet({m}) /\ Cardinality({m}) = 1
  BY FS_Singleton
<1>2. IsFiniteSet({m} \X G) /\ Cardinality({m} \X G) = 1 * Cardinality(G)
  BY <1>1, FS_Product
<1>3. Cardinality(G) \in Nat
  BY FS_CardinalityType
<1> QED
  BY <1>2, <1>3

\* Frames of different mm_structs, or of different places, add up.
LEMMA FramesAdd ==
  ASSUME NEW F, IsFiniteSet(F), NEW H, IsFiniteSet(H), F \cap H = {}
  PROVE  Cardinality(F \cup H) = Cardinality(F) + Cardinality(H)
<1>1. Cardinality(F \cup H) = Cardinality(F) + Cardinality(H) - 0
  BY FS_Union, FS_EmptySet
<1>2. Cardinality(F) \in Nat /\ Cardinality(H) \in Nat
  BY FS_CardinalityType
<1> QED
  BY <1>1, <1>2

LEMMA PlacesFinite ==
  ASSUME NEW G \in SUBSET (0..MaxHeap)
  PROVE  IsFiniteSet(G) /\ Cardinality(G) \in Nat
<1>1. IsFiniteSet(0..MaxHeap)
  BY ProcessAssumption, FS_Interval
<1> QED
  BY <1>1, FS_Subset, FS_CardinalityType

LEMMA FramesFinite ==
  ASSUME NEW M \in SUBSET Mms, NEW mp
  PROVE  IsFiniteSet(FramesOf(M, mp)) /\ Cardinality(FramesOf(M, mp)) \in Nat
<1>1. IsFiniteSet(M)
  BY ProcessAssumption, FS_Subset
<1>2. IsFiniteSet(0..MaxHeap)
  BY ProcessAssumption, FS_Interval
<1>3. IsFiniteSet(M \X (0..MaxHeap))
  BY <1>1, <1>2, FS_Product
<1>4. FramesOf(M, mp) \in SUBSET (M \X (0..MaxHeap))
  BY DEF FramesOf
<1> QED
  BY <1>3, <1>4, FS_Subset, FS_CardinalityType

\* What is mapped more adds as many frames as there are places.
LEMMA FramesOfMore ==
  ASSUME NEW M \in SUBSET Mms, NEW mp, NEW mq,
         NEW m \in M, NEW G \in SUBSET (0..MaxHeap), G \cap mp[m] = {},
         mq[m] = mp[m] \cup G, \A x \in Mms \ {m} : mq[x] = mp[x]
  PROVE  Cardinality(FramesOf(M, mq)) = Cardinality(FramesOf(M, mp)) + Cardinality(G)
<1>1. FramesOf(M, mq) = FramesOf(M, mp) \cup ({m} \X G)
  BY DEF FramesOf
<1>2. FramesOf(M, mp) \cap ({m} \X G) = {}
  BY DEF FramesOf
<1>3. IsFiniteSet(G)
  BY PlacesFinite
<1>4. IsFiniteSet(FramesOf(M, mp))
  BY FramesFinite
<1>5. Cardinality(FramesOf(M, mp) \cup ({m} \X G)) = Cardinality(FramesOf(M, mp)) + Cardinality(G)
  <2> DEFINE F == FramesOf(M, mp)
             H == {m} \X G
  <2>1. F \cap H = {} /\ IsFiniteSet(F)
    BY <1>2, <1>4
  <2>2. IsFiniteSet(H) /\ Cardinality(H) = Cardinality(G)
    BY <1>3, RowSize
  <2> HIDE DEF F, H
  <2>3. Cardinality(F \cup H) = Cardinality(F) + Cardinality(G)
    BY <2>1, <2>2, FramesAdd
  <2> QED
    BY <2>3 DEF F, H
<1> QED
  BY <1>1, <1>5

\* Or fewer, if some were mapped before.
LEMMA FramesOfMost ==
  ASSUME NEW M \in SUBSET Mms, NEW mp, NEW mq,
         NEW m \in M, NEW G \in SUBSET (0..MaxHeap),
         mq[m] = mp[m] \cup G, \A x \in Mms \ {m} : mq[x] = mp[x]
  PROVE  Cardinality(FramesOf(M, mq)) <= Cardinality(FramesOf(M, mp)) + Cardinality(G)
<1> DEFINE H == G \ mp[m]
<1>1. H \in SUBSET (0..MaxHeap) /\ H \cap mp[m] = {} /\ mq[m] = mp[m] \cup H
  OBVIOUS
<1>2. H \in SUBSET G /\ IsFiniteSet(G) /\ Cardinality(G) \in Nat
  BY PlacesFinite
<1>3. Cardinality(H) <= Cardinality(G) /\ Cardinality(H) \in Nat
  BY <1>2, FS_Subset, FS_CardinalityType
<1> HIDE DEF H
<1>4. Cardinality(FramesOf(M, mq)) = Cardinality(FramesOf(M, mp)) + Cardinality(H)
  BY <1>1, FramesOfMore
<1>5. Cardinality(FramesOf(M, mp)) \in Nat
  BY FramesFinite
<1> QED
  BY <1>2, <1>3, <1>4, <1>5

\* An mm_struct brings the frames it has, and takes them away.
LEMMA FramesOfNew ==
  ASSUME NEW M \in SUBSET Mms, NEW mp, NEW mq,
         NEW m \in Mms \ M, NEW N, N = M \cup {m}, NEW G \in SUBSET (0..MaxHeap),
         mq[m] = G, \A x \in Mms \ {m} : mq[x] = mp[x]
  PROVE  Cardinality(FramesOf(N, mq)) = Cardinality(FramesOf(M, mp)) + Cardinality(G)
<1>1. FramesOf(N, mq) = FramesOf(M, mp) \cup ({m} \X G)
  BY DEF FramesOf
<1>2. FramesOf(M, mp) \cap ({m} \X G) = {}
  BY DEF FramesOf
<1>3. IsFiniteSet(G)
  BY PlacesFinite
<1>4. IsFiniteSet(FramesOf(M, mp))
  BY FramesFinite
<1>5. Cardinality(FramesOf(M, mp) \cup ({m} \X G)) = Cardinality(FramesOf(M, mp)) + Cardinality(G)
  <2> DEFINE F == FramesOf(M, mp)
             H == {m} \X G
  <2>1. F \cap H = {} /\ IsFiniteSet(F)
    BY <1>2, <1>4
  <2>2. IsFiniteSet(H) /\ Cardinality(H) = Cardinality(G)
    BY <1>3, RowSize
  <2> HIDE DEF F, H
  <2>3. Cardinality(F \cup H) = Cardinality(F) + Cardinality(G)
    BY <2>1, <2>2, FramesAdd
  <2> QED
    BY <2>3 DEF F, H
<1> QED
  BY <1>1, <1>5
-----------------------------------------------------------------------------
(* What a step leaves as it is *)

\* An event is only added.
LEMMA HitGrows ==
  ASSUME NEW more, Hit(more), TypeOK, more \subseteq Events
  PROVE  hit' = hit \cup more /\ hit \subseteq hit' /\ hit' \subseteq Events
BY DEF Hit, TypeOK

LEMMA SureShrinks ==
  ASSUME hit \subseteq hit'
  PROVE  Sure' \subseteq Sure /\ (Sound' => Sound) /\ ("brk_failed" \notin hit' => "brk_failed" \notin hit)
<1>1. 1 \in 1..MaxHeap
  BY ProcessAssumption
<1> QED
  BY <1>1 DEF Sure, Sound

\* Who runs in an mm_struct has it, and a child its own.
LEMMA Running ==
  ASSUME PInv, Works, "left_behind" \notin hit
  PROVE  /\ \A t \in Alive : pc[t] # "init" => t \in Holders /\ mm[t] \in mms
         /\ \A t \in Alive : mm[t] \in Mms => t \in Holders /\ mm[t] \in mms
         /\ \A t \in Tasks : pc[t] = "copy" =>
              /\ child[t] \in Holders /\ Alone(child[t]) /\ mm[child[t]] \in mms
              /\ \A u \in Holders \ {child[t]} : mm[u] # mm[child[t]]
         /\ \A t \in Tasks : pc[t] = "brk_set" => t \in Holders /\ t \in Alive /\ mm[t] \in mms
<1>1. \A t \in Holders : mm[t] \in mms
  BY DEF PInv, MInv, OwnMms
<1>2. \A t \in Alive : pc[t] # "init" => t \in Holders
  BY DEF Alive, Holders, Existing
<1>3. \A t \in Alive : mm[t] \in Mms => pc[t] # "init"
  BY ProcessAssumption DEF PInv, Lives, Alive
<1>4. ASSUME NEW t \in Tasks, pc[t] = "copy"
      PROVE  child[t] \in Holders /\ Alone(child[t])
  <2>1. child[t] \in Tasks /\ state[child[t]] = "NEW"
    BY <1>4 DEF PInv, Calls
  <2>2. pc[child[t]] = "user"
    BY <2>1 DEF PInv, Lives
  <2> QED
    BY <2>1, <2>2 DEF Holders, Existing, Alone
<1>5. \A t, u \in Holders : t # u /\ mm[t] = mm[u] => ~Alone(t) /\ ~Alone(u)
  BY DEF PInv, MInv, OwnMms
<1>6. \A t \in Tasks : pc[t] = "brk_set" => t \in Alive /\ pc[t] # "init"
  BY DEF PInv, Lives, Alive
<1> HIDE DEF Alone
<1> QED
  BY <1>1, <1>2, <1>3, <1>4, <1>5, <1>6

\* The claims about the heap of one task.
HeapOf(t) ==
  /\ Backed(t, end_brk[mm[t]])
  /\ pc[t] \in Growing => Backed(t, brk[t].at - 1)
  /\ pc[t] = "copy" =>
       /\ end_brk[mm[child[t]]] <= end_brk[mm[t]]
       /\ "heap_cut" \notin hit => end_brk[mm[child[t]]] <= 1

LEMMA HeapsBackedIs ==
  HeapsBacked <=>
    /\ "brk_failed" \notin hit =>
         (\A m \in Mms : end_brk[m] <= MaxHeap) /\ (\A t \in Tasks : brk[t].at <= Beyond)
    /\ Sound => \A t \in Alive : mm[t] \in mms => HeapOf(t)
BY DEF HeapsBacked, HeapOf

LEMMA HeapOfKept ==
  ASSUME hit \subseteq hit', NEW u \in Tasks, HeapOf(u),
         mm'[u] = mm[u], end_brk'[mm[u]] = end_brk[mm[u]], mapped[mm[u]] \subseteq mapped'[mm[u]],
         pc'[u] \in Growing \cup {"copy"} => pc'[u] = pc[u] /\ brk'[u] = brk[u],
         pc'[u] = "copy" => /\ child'[u] = child[u] /\ mm'[child[u]] = mm[child[u]]
                            /\ end_brk'[mm[child[u]]] = end_brk[mm[child[u]]]
  PROVE  HeapOf(u)'
<1>1. Sure' \subseteq Sure
  BY SureShrinks
<1>2. ASSUME NEW n, Backed(u, n) PROVE (1..n) \cap Sure' \subseteq mapped'[mm'[u]]
  BY <1>1, <1>2 DEF Backed
<1>3. Backed(u, end_brk[mm[u]])'
  BY <1>2 DEF HeapOf, Backed
<1>4. ASSUME pc'[u] \in Growing PROVE Backed(u, brk[u].at - 1)'
  BY <1>2, <1>4 DEF HeapOf, Backed
<1>5. ASSUME pc'[u] = "copy"
      PROVE  /\ end_brk'[mm'[child'[u]]] <= end_brk'[mm'[u]]
             /\ "heap_cut" \notin hit' => end_brk'[mm'[child'[u]]] <= 1
  BY <1>5 DEF HeapOf
<1> QED
  BY <1>3, <1>4, <1>5 DEF HeapOf

\* The locals of calls that go on.
LEMMA CallsKept ==
  ASSUME Calls, hit \subseteq hit',
         \A u \in Tasks : state[u] = "NEW" => state'[u] = "NEW",
         \A u \in Tasks : pc'[u] \in Growing \cup {"copy", "exec_new"} =>
           pc'[u] = pc[u] /\ child'[u] = child[u] /\ brk'[u] = brk[u] /\ (u \in vfork => u \in vfork')
  PROVE  Calls'
BY DEF Calls, Growing

\* Nothing that is mapped or freed concerns who is in do_brk.
LEMMA PlacesKept ==
  ASSUME PInv, Works, hit \subseteq hit',
         \A u \in Tasks : pc'[u] = "brk_set" =>
           pc[u] = "brk_set" /\ brk'[u] = brk[u] /\ mm'[u] = mm[u],
         \A u \in Tasks : /\ "left_behind" \notin hit' /\ pc'[u] = "brk_set" /\ mm[u] \in mms
                          /\ brk[u].at \in mapped'[mm[u]]
                          => brk[u].at \in mapped[mm[u]]
  PROVE  Places'
<1> SUFFICES ASSUME Works', hit' \cap {"left_behind", "brk_race"} = {} PROVE
      /\ \A t \in Tasks : pc'[t] = "brk_set" => brk'[t].at \notin mapped'[mm'[t]]
      /\ \A t, u \in Tasks :
           t # u /\ pc'[t] = "brk_set" /\ pc'[u] = "brk_set" /\ mm'[t] = mm'[u] =>
             brk'[t].at # brk'[u].at
  BY DEF Places
<1>1. "left_behind" \notin hit' /\ hit \cap {"left_behind", "brk_race"} = {} /\ "left_behind" \notin hit
  OBVIOUS
<1>2. /\ \A t \in Tasks : pc[t] = "brk_set" => brk[t].at \notin mapped[mm[t]]
      /\ \A t, u \in Tasks :
           t # u /\ pc[t] = "brk_set" /\ pc[u] = "brk_set" /\ mm[t] = mm[u] => brk[t].at # brk[u].at
  BY <1>1 DEF PInv, MInv, Places
<1>3. \A t \in Tasks : pc[t] = "brk_set" => mm[t] \in mms
  BY <1>1, Running
<1> QED
  BY <1>1, <1>2, <1>3

LEMMA OwnersKept ==
  ASSUME OwnMms, MmsKept, UNCHANGED <<state, vfork, mm, mms>>, hit \subseteq hit',
         Works' => Works,
         \A t \in Tasks : pc'[t] = "init" <=> pc[t] = "init",
         \A t \in Tasks \cap vfork : pc'[t] \in {"exec", "exec_new"} <=> pc[t] \in {"exec", "exec_new"}
  PROVE  OwnMms' /\ MmsKept'
<1>1. OwnMms'
  <2>1. Holders' = Holders /\ \A t \in Holders : Alone(t)' <=> Alone(t)
    BY DEF Holders, Existing, Alone
  <2> QED
    BY <2>1 DEF OwnMms
<1>2. MmsKept'
  <2>1. (Tidy' => Tidy) /\ Existing' = Existing /\ Existing \subseteq Tasks
    BY DEF Tidy, Existing
  <2>2. \A t \in Existing : Owns(t)' <=> Owns(t)
    BY <2>1 DEF Owns
  <2> QED
    BY <2>1, <2>2 DEF MmsKept
<1> QED
  BY <1>1, <1>2

\* A call that only moves between the program, a read and, without a flag, an exec.
LEMMA SpacesKept ==
  ASSUME PInv, Works, hit \subseteq hit',
         UNCHANGED <<state, vfork, mm, mms, mapped, end_brk, frames, child, brk>>,
         \A t \in Tasks : \/ pc'[t] = pc[t]
                          \/ {pc[t], pc'[t]} \subseteq {"user", "read"}
                          \/ t \notin vfork /\ {pc[t], pc'[t]} \subseteq {"user", "exec"}
  PROVE  Calls' /\ Heaps' /\ MInv'
<1>1. \A t \in Tasks : {pc[t], pc'[t]} \cap (Growing \cup {"copy", "exec_new", "init"}) # {} =>
        pc'[t] = pc[t]
  BY DEF Growing
<1>2. Calls'
  BY <1>1, CallsKept DEF PInv
<1>3. MappedFrames' = MappedFrames
  BY DEF MappedFrames
<1>4. Heaps'
  BY <1>3 DEF PInv, Heaps
<1>5. HeapsBacked'
  <2>1. ASSUME Sound', NEW t \in Alive', mm'[t] \in mms' PROVE HeapOf(t)'
    <3>1. t \in Tasks /\ HeapOf(t)
      BY <2>1, SureShrinks, HeapsBackedIs DEF PInv, MInv, Alive
    <3> QED
      BY <1>1, <3>1, HeapOfKept
  <2>2. "brk_failed" \notin hit' =>
          (\A m \in Mms : end_brk'[m] <= MaxHeap) /\ (\A t \in Tasks : brk'[t].at <= Beyond')
    BY HeapsBackedIs DEF PInv, MInv, Beyond
  <2> QED
    BY <2>1, <2>2 DEF HeapsBacked, HeapOf
<1>6. OwnMms' /\ MmsKept'
  <2>1. \A t \in Tasks \cap vfork : pc'[t] \in {"exec", "exec_new"} <=> pc[t] \in {"exec", "exec_new"}
    BY <1>1
  <2> QED
    BY <1>1, <2>1, OwnersKept DEF PInv, MInv
<1>7. Code'
  <2>1. Holders' = Holders /\ Holders \subseteq Tasks
    BY <1>1 DEF Holders, Existing
  <2> QED
    BY <1>1, <2>1 DEF PInv, MInv, Code
<1>8. Places'
  BY <1>1, PlacesKept
<1>9. FramesKept'
  BY <1>3 DEF PInv, MInv, FramesKept
<1> QED
  BY <1>2, <1>4, <1>5, <1>6, <1>7, <1>8, <1>9 DEF MInv

LEMMA TablesKept ==
  ASSUME OwnFiles, FilesKept, UNCHANGED <<file_struct, files>>, hit \subseteq hit',
         Works' => Works, Alive' = Alive, (Alive \ vfork)' = Alive \ vfork
  PROVE  OwnFiles' /\ FilesKept'
<1>1. (Calm' => Calm) /\ (Tidy' => Tidy)
  BY DEF Calm, Tidy
<1>2. OwnFiles'
  BY <1>1 DEF OwnFiles
<1>3. FilesKept'
  BY <1>1 DEF FilesKept
<1> QED
  BY <1>2, <1>3

LEMMA NoFault ==
  ASSUME Works, UNCHANGED fault
  PROVE  FaultsByEvent' /\ Works'
BY DEF Works, FaultsByEvent

\* When the kernel stops, the claims about what tasks own end.
LEMMA FailStep ==
  ASSUME PInv, Works, NEW what, NEW more, Fail(what, more), what \in Faults \ {"none"},
         more \subseteq Events, FaultsByEvent'
  PROVE  PInv'
<1>1. hit \subseteq hit' /\ hit' \subseteq Events
  BY HitGrows DEF Fail, PInv
<1>2. /\ UNCHANGED <<state, vfork, file_struct, files, opened, binaries>>
      /\ UNCHANGED <<mm, mms, mapped, end_brk, frames, pc, filp, child, brk>>
  BY DEF Fail, tables, spaces, locals
<1>3. TypeOK'
  BY <1>1, <1>2 DEF PInv, TypeOK, Fail
<1>4. Lives'
  BY <1>2 DEF PInv, Lives
<1>5. Calls' /\ Heaps' /\ MInv'
  BY <1>1, <1>2, SpacesKept
<1>6. ~Works'
  BY DEF Works, Fail
<1>7. OwnFiles' /\ FilesKept'
  BY <1>6 DEF OwnFiles, FilesKept, Calm, Tidy
<1> QED
  BY <1>3, <1>4, <1>5, <1>7 DEF PInv
-----------------------------------------------------------------------------
(* The steps at which the kernel stops *)

LEMMA BadLookStep ==
  ASSUME PInv, Works, NEW t \in Tasks, NEW fd \in 0..TASK_FILE_MAX, BadLook(t, fd)
  PROVE  PInv'
<1> DEFINE what == Look(t, fd)
           more == When(fd \notin opened[t], "bad_fd")
<1>1. /\ Fail(what, more) /\ more \subseteq Events /\ what # "none"
      /\ state[t] = "ALIVE"
  BY DEF BadLook, When, Events, Ready, In
<1>2. fd = TASK_FILE_MAX \/ fd \in FDs
  BY ProcessAssumption DEF FDs
<1>3. Used(t) \subseteq FDs /\ Used(t) = UsedOf(file_struct[t])
  BY UsedTable DEF Used
<1>4. opened[t] = Used(t) /\ TASK_FILE_MAX \notin FDs
  BY <1>3, FDsFinite DEF PInv, Lives
<1>5. \/ what = "past_table" /\ fd = TASK_FILE_MAX
      \/ what = "null_file" /\ fd \in FDs \ Used(t)
      \/ what = "freed_file" /\ fd \in Used(t) /\ file_struct[t][fd] \notin files
  BY <1>1, <1>2, <1>3, <1>4 DEF Look
<1>6. fault' = what /\ hit' = hit \cup more
  BY <1>1 DEF Fail, Hit
<1>7. what \in {"past_table", "null_file"} => "bad_fd" \in hit'
  BY <1>3, <1>4, <1>5, <1>6 DEF When
<1>8. what = "freed_file" => hit' \cap Borrowing # {}
  <2> SUFFICES ASSUME what = "freed_file", hit \cap Borrowing = {} PROVE FALSE
    BY <1>6
  <2>1. file_struct[t][fd] \in TableOf(file_struct[t])
    BY <1>3, <1>5 DEF TableOf
  <2>2. TableOf(file_struct[t]) \subseteq files
    BY <1>1 DEF PInv, OwnFiles, Calm, Alive
  <2> QED
    BY <1>5, <2>1, <2>2
<1> HIDE DEF what, more
<1>9. FaultsByEvent'
  BY <1>5, <1>6, <1>7, <1>8 DEF FaultsByEvent
<1>10. what \in Faults \ {"none"}
  BY <1>5 DEF Faults
<1> QED
  BY <1>1, <1>9, <1>10, FailStep

LEMMA ForkFailsStep ==
  ASSUME PInv, Works, NEW t \in Tasks, ForkFails(t)
  PROVE  PInv'
<1>1. Fail("unmapped_heap", {}) /\ fault' = "unmapped_heap" /\ hit' = hit
  BY DEF ForkFails, Fail, Hit
<1>2. t \in Alive /\ mm[t] \in mms /\ end_brk[mm[t]] \in Nat /\ end_brk[mm[t]] # 0 /\ 1 \notin mapped[mm[t]]
  BY ProcessAssumption DEF ForkFails, In, Alive, HeapToCopy, PInv, TypeOK, Beyond
<1>3. ~Sound
  <2> SUFFICES ASSUME Sound PROVE FALSE
    OBVIOUS
  <2>1. 1 \in Sure /\ 1 \in 1..end_brk[mm[t]]
    BY <1>2, ProcessAssumption DEF Sure
  <2>2. Backed(t, end_brk[mm[t]])
    BY <1>2 DEF PInv, MInv, HeapsBacked
  <2> QED
    BY <1>2, <2>1, <2>2 DEF Backed
<1>4. FaultsByEvent'
  BY <1>1, <1>3 DEF FaultsByEvent, Sound
<1> QED
  BY <1>1, <1>4, FailStep DEF Faults

LEMMA NoFrameStep ==
  ASSUME PInv, Works, NEW t \in Tasks, ForkNoFrame(t) \/ ExecNoFrame(t)
  PROVE  PInv'
<1>1. Fail("no_frame", {})
  BY DEF ForkNoFrame, ExecNoFrame
<1>2. FaultsByEvent'
  BY <1>1 DEF FaultsByEvent, Fail
<1> QED
  BY <1>1, <1>2, FailStep DEF Faults

\* No struct file is freed twice while nobody has come in another's way.
LEMMA FreedOnce ==
  ASSUME PInv, Calm, NEW t \in Tasks, state[t] = "ALIVE"
  PROVE  ~FreedTwice(t)
<1>1. TableOf(file_struct[t]) \subseteq files /\ NoneTwice(file_struct[t])
  BY DEF PInv, OwnFiles, Alive
<1>2. file_struct[t] \in FileTables
  BY DEF PInv, TypeOK, FileTables
<1> QED
  BY <1>1, <1>2, TableAsLargeAsUsed, UsedTable DEF FreedTwice, Freed

LEMMA ExecFreedTwiceStep ==
  ASSUME PInv, Works, NEW t \in Tasks, ExecFreedTwice(t)
  PROVE  PInv'
<1>1. Fail("freed_file", {}) /\ fault' = "freed_file" /\ hit' = hit
  BY DEF ExecFreedTwice, Fail, Hit
<1>2. hit' \cap Borrowing # {}
  BY <1>1, FreedOnce DEF ExecFreedTwice, Calm
<1>3. FaultsByEvent'
  BY <1>1, <1>2 DEF FaultsByEvent
<1> QED
  BY <1>1, <1>3, FailStep DEF Faults

LEMMA FreedMmStep ==
  ASSUME PInv, Works, NEW t \in Tasks, FreedMm(t)
  PROVE  PInv'
<1>1. Fail("freed_mm", {}) /\ fault' = "freed_mm" /\ hit' = hit
  BY DEF FreedMm, Fail, Hit
<1>2. "left_behind" \in hit
  <2> SUFFICES ASSUME "left_behind" \notin hit PROVE FALSE
    OBVIOUS
  <2>1. CASE t \in Alive /\ pc[t] # "init" /\ ~(MmsInUse(t) \subseteq mms)
    <3>1. mm[t] \in mms /\ (pc[t] = "copy" => mm[child[t]] \in mms)
      BY <2>1, Running
    <3> QED
      BY <2>1, <3>1 DEF MmsInUse
  <2>2. CASE state[t] = "ZOMBIE" /\ t \notin vfork /\ (mm[t] \in mms => 0 \notin mapped[mm[t]])
    <3>1. t \in Holders /\ pc[t] # "exec_new"
      BY <2>2 DEF Holders, Existing, PInv, Lives
    <3>2. mm[t] \in mms /\ 0 \in mapped[mm[t]]
      BY <3>1 DEF PInv, MInv, OwnMms, Code
    <3> QED
      BY <2>2, <3>2
  <2> QED
    BY <2>1, <2>2 DEF FreedMm
<1>3. FaultsByEvent'
  BY <1>1, <1>2 DEF FaultsByEvent
<1> QED
  BY <1>1, <1>3, FailStep DEF Faults

LEMMA ExecArgsStep ==
  ASSUME PInv, Works, NEW t \in Tasks, ExecArgs(t)
  PROVE  PInv'
<1>1. Fail("bad_args", {"args_lost"})
  BY DEF ExecArgs
<1>2. FaultsByEvent'
  BY <1>1 DEF FaultsByEvent, Fail, Hit
<1> QED
  BY <1>1, <1>2, FailStep DEF Faults, Events

LEMMA ExecResumedFails ==
  ASSUME PInv, Works, NEW t \in Tasks, pc[t] = "exec_new", Fail("bad_cr3", {})
  PROVE  PInv'
<1>1. FaultsByEvent'
  BY DEF FaultsByEvent, Fail, Hit, PInv, Calls
<1> QED
  BY <1>1, FailStep DEF Faults
-----------------------------------------------------------------------------
(* Calls that change one table or one heap *)

LEMMA ReadStep ==
  ASSUME PInv, Works, NEW t \in Tasks, NEW fd \in FDs, Read(t, fd)
  PROVE  PInv'
<1>1. /\ UNCHANGED <<state, vfork, file_struct, files, opened, binaries>>
      /\ UNCHANGED <<mm, mms, mapped, end_brk, frames, child, brk, hit, fault>>
      /\ state[t] = "ALIVE" /\ pc[t] = "user" /\ Look(t, fd) = "none"
      /\ pc' = [pc EXCEPT ![t] = "read"] /\ filp' = [filp EXCEPT ![t] = file_struct[t][fd]]
  BY DEF Read, Ready, In, tables, spaces
<1>2. fd \in UsedOf(file_struct[t])
  BY <1>1, FDsFinite, UsedTable DEF Look, Used
<1>3. TypeOK'
  BY <1>1, <1>2 DEF PInv, TypeOK, UsedOf, TaskPCs
<1>4. Lives'
  BY <1>1, <1>2 DEF PInv, TypeOK, Lives, TableOf
<1>5. Calls' /\ Heaps' /\ MInv'
  BY <1>1, SpacesKept DEF PInv, TypeOK
<1>7. OwnFiles' /\ FilesKept'
  BY <1>1, TablesKept DEF PInv, Works, Alive
<1>8. FaultsByEvent'
  BY <1>1 DEF PInv, FaultsByEvent
<1> QED
  BY <1>3, <1>4, <1>5, <1>7, <1>8 DEF PInv

LEMMA ReadDoneStep ==
  ASSUME PInv, Works, NEW t \in Tasks, ReadDone(t)
  PROVE  PInv'
<1>1. CASE filp[t] \in files
  <2>1. /\ UNCHANGED <<state, vfork, file_struct, files, opened, binaries>>
        /\ UNCHANGED <<mm, mms, mapped, end_brk, frames, child, brk, hit, fault>>
        /\ state[t] = "ALIVE" /\ pc[t] = "read"
        /\ pc' = [pc EXCEPT ![t] = "user"] /\ filp' = [filp EXCEPT ![t] = NULL]
    BY <1>1 DEF ReadDone, In, tables, spaces
  <2>2. TypeOK'
    BY <2>1 DEF PInv, TypeOK, TaskPCs
  <2>3. Lives'
    BY <2>1 DEF PInv, TypeOK, Lives
  <2>4. Calls' /\ Heaps' /\ MInv'
    BY <2>1, SpacesKept DEF PInv, TypeOK
  <2>6. OwnFiles' /\ FilesKept'
    BY <2>1, TablesKept DEF PInv, Works, Alive
  <2>7. FaultsByEvent'
    BY <2>1 DEF PInv, FaultsByEvent
  <2> QED
    BY <2>2, <2>3, <2>4, <2>6, <2>7 DEF PInv
<1>2. CASE filp[t] \notin files
  <2>1. /\ Fail("freed_file", {}) /\ fault' = "freed_file" /\ hit' = hit
        /\ state[t] = "ALIVE" /\ pc[t] = "read"
    BY <1>2 DEF ReadDone, In, Fail, Hit
  <2>2. filp[t] \in TableOf(file_struct[t])
    BY <2>1 DEF PInv, Lives
  <2>3. hit' \cap Borrowing # {}
    BY <1>2, <2>1, <2>2 DEF PInv, OwnFiles, Calm, Alive
  <2>4. FaultsByEvent'
    BY <2>1, <2>3 DEF FaultsByEvent
  <2> QED
    BY <2>1, <2>4, FailStep DEF Faults
<1> QED
  BY <1>1, <1>2

LEMMA TableWith ==
  ASSUME NEW s \in FileTables, NEW fd \in FDs \ UsedOf(s), NEW f \in Files
  PROVE  LET r == [s EXCEPT ![fd] = f]
         IN /\ r \in FileTables /\ UsedOf(r) = UsedOf(s) \cup {fd}
            /\ TableOf(r) = TableOf(s) \cup {f}
            /\ f \notin TableOf(s) /\ NoneTwice(s) => NoneTwice(r)
<1> DEFINE r == [s EXCEPT ![fd] = f]
<1>1. r \in FileTables /\ r[fd] = f /\ \A a \in FDs \ {fd} : r[a] = s[a]
  BY DEF FileTables
<1>2. f # NULL
  BY ProcessAssumption
<1> HIDE DEF r
<1>3. UsedOf(r) = UsedOf(s) \cup {fd}
  BY <1>1, <1>2 DEF UsedOf
<1>4. TableOf(r) = TableOf(s) \cup {f}
  BY <1>1, <1>3 DEF TableOf, UsedOf
<1>5. ASSUME f \notin TableOf(s), NoneTwice(s) PROVE NoneTwice(r)
  BY <1>1, <1>3, <1>5 DEF NoneTwice, TableOf, UsedOf
<1> QED
  BY <1>1, <1>3, <1>4, <1>5 DEF r

LEMMA TableWithout ==
  ASSUME NEW s \in FileTables, NEW fd \in UsedOf(s)
  PROVE  LET r == [s EXCEPT ![fd] = NULL]
         IN /\ r \in FileTables /\ UsedOf(r) = UsedOf(s) \ {fd}
            /\ NoneTwice(s) => NoneTwice(r) /\ TableOf(r) = TableOf(s) \ {s[fd]}
<1> DEFINE r == [s EXCEPT ![fd] = NULL]
<1>1. r \in FileTables /\ r[fd] = NULL /\ \A a \in FDs \ {fd} : r[a] = s[a]
  BY DEF FileTables, UsedOf
<1> HIDE DEF r
<1>2. UsedOf(r) = UsedOf(s) \ {fd}
  BY <1>1 DEF UsedOf
<1>3. ASSUME NoneTwice(s) PROVE NoneTwice(r) /\ TableOf(r) = TableOf(s) \ {s[fd]}
  BY <1>1, <1>2, <1>3 DEF NoneTwice, TableOf, UsedOf
<1> QED
  BY <1>1, <1>2, <1>3 DEF r

LEMMA OpenStep ==
  ASSUME PInv, Works, NEW t \in Tasks, Open(t)
  PROVE  PInv'
<1> DEFINE fd == Min(FDs \ Used(t))
           f == First(Files \ files)
           s == file_struct[t]
           r == [s EXCEPT ![fd] = f]
<1>1. f \in Files \ files
  BY FirstIs, ProcessAssumption DEF Open
<1>2. fd \in FDs \ UsedOf(s)
  <2>1. FDs \ Used(t) # {} /\ FDs \ Used(t) \subseteq Nat
    BY FDsFinite DEF Open
  <2>2. \E x \in FDs \ Used(t) : \A y \in FDs \ Used(t) : x <= y
    BY <2>1, Least
  <2> QED
    BY <2>2, UsedTable DEF Min
<1>3. s \in FileTables
  BY DEF PInv, TypeOK, FileTables
<1>4. /\ r \in FileTables /\ UsedOf(r) = UsedOf(s) \cup {fd}
      /\ TableOf(r) = TableOf(s) \cup {f}
      /\ f \notin TableOf(s) /\ NoneTwice(s) => NoneTwice(r)
  BY <1>1, <1>2, <1>3, TableWith
<1>5. /\ state[t] = "ALIVE" /\ files' = files \cup {f}
      /\ file_struct' = [file_struct EXCEPT ![t] = r]
      /\ opened' = [opened EXCEPT ![t] = @ \cup {fd}]
      /\ Hit(When(t \in vfork, "open_in_vfork"))
      /\ UNCHANGED <<state, vfork, mm, mms, mapped, end_brk, frames, pc, filp, child, brk, binaries, fault>>
  BY DEF Open, Ready, In, spaces, locals
<1> HIDE DEF fd, f, r
<1>6. hit' = hit \cup When(t \in vfork, "open_in_vfork") /\ hit \subseteq hit' /\ hit' \subseteq Events
  BY <1>5, HitGrows DEF When, Events, PInv
<1>7. /\ file_struct \in [Tasks -> FileTables] /\ opened \in [Tasks -> SUBSET FDs]
      /\ file_struct'[t] = r /\ \A u \in Tasks \ {t} : file_struct'[u] = file_struct[u]
      /\ opened'[t] = opened[t] \cup {fd} /\ \A u \in Tasks \ {t} : opened'[u] = opened[u]
  BY <1>5 DEF PInv, TypeOK, FileTables
<1>8. file_struct' \in [Tasks -> FileTables]
  BY <1>4, <1>5, <1>7
<1>9. TypeOK'
  BY <1>1, <1>2, <1>5, <1>6, <1>8 DEF PInv, TypeOK, FileTables
<1>10. Lives'
  BY <1>4, <1>5, <1>7 DEF PInv, Lives
<1>11. Calls' /\ Heaps' /\ MInv'
  BY <1>5, <1>6, SpacesKept DEF PInv, TypeOK
<1>13. OwnFiles'
  <2> SUFFICES ASSUME Calm' PROVE
        /\ \A u \in Alive' : TableOf(file_struct'[u]) \subseteq files' /\ NoneTwice(file_struct'[u])
        /\ \A u, v \in Alive' \ vfork' :
             u # v => TableOf(file_struct'[u]) \cap TableOf(file_struct'[v]) = {}
    BY DEF OwnFiles
  <2>1. Calm /\ Alive' = Alive /\ Alive \subseteq Tasks /\ t \in Alive
    BY <1>5, <1>6 DEF Calm, Works, Alive
  <2>2. /\ \A u \in Alive : TableOf(file_struct[u]) \subseteq files /\ NoneTwice(file_struct[u])
        /\ \A u, v \in Alive \ vfork :
             u # v => TableOf(file_struct[u]) \cap TableOf(file_struct[v]) = {}
    BY <2>1 DEF PInv, OwnFiles
  <2> QED
    BY <1>1, <1>4, <1>5, <1>7, <2>1, <2>2
<1>14. FilesKept'
  <2> SUFFICES ASSUME Tidy', NEW g \in files' PROVE
        \E u \in Alive' \ vfork' : g \in TableOf(file_struct'[u])
    BY DEF FilesKept
  <2>1. Tidy /\ t \notin vfork /\ Alive' = Alive /\ t \in Alive /\ Alive \subseteq Tasks
    BY <1>5, <1>6 DEF Tidy, Works, Alive, When
  <2>2. ASSUME g \in files PROVE \E u \in Alive \ vfork : g \in TableOf(file_struct[u])
    BY <2>1, <2>2 DEF PInv, FilesKept
  <2> QED
    BY <1>4, <1>5, <1>7, <2>1, <2>2
<1>15. FaultsByEvent'
  BY <1>5, <1>6 DEF PInv, FaultsByEvent
<1> QED
  BY <1>9, <1>10, <1>11, <1>13, <1>14, <1>15 DEF PInv

LEMMA CloseStep ==
  ASSUME PInv, Works, NEW t \in Tasks, NEW fd \in FDs, Close(t, fd)
  PROVE  PInv'
<1> DEFINE s == file_struct[t]
           f == s[fd]
           r == [s EXCEPT ![fd] = NULL]
           more == When(\E u \in Alive \ {t} : f \in Table(u), "close_shared")
<1>1. /\ state[t] = "ALIVE" /\ Look(t, fd) = "none" /\ files' = files \ {f}
      /\ file_struct' = [file_struct EXCEPT ![t] = r]
      /\ opened' = [opened EXCEPT ![t] = @ \ {fd}]
      /\ Hit(more)
      /\ UNCHANGED <<state, vfork, mm, mms, mapped, end_brk, frames, pc, filp, child, brk, binaries, fault>>
  BY DEF Close, Ready, In, spaces, locals
<1>2. pc[t] = "user"
  BY DEF Close, Ready, In
<1>3. fd \in UsedOf(s)
  BY <1>1, FDsFinite, UsedTable DEF Look, Used
<1>4. s \in FileTables
  BY DEF PInv, TypeOK, FileTables
<1>5. /\ r \in FileTables /\ UsedOf(r) = UsedOf(s) \ {fd}
      /\ NoneTwice(s) => NoneTwice(r) /\ TableOf(r) = TableOf(s) \ {f}
  BY <1>3, <1>4, TableWithout
<1>6. f \in Files
  BY <1>3, <1>4 DEF FileTables, UsedOf
<1>7. hit' = hit \cup more /\ hit \subseteq hit' /\ hit' \subseteq Events
  BY <1>1, HitGrows DEF When, Events, PInv
<1>8. "close_shared" \notin hit' => \A u \in Alive \ {t} : f \notin TableOf(file_struct[u])
  BY <1>7, UsedTable DEF When
<1> HIDE DEF f, r, more
<1>9. /\ file_struct \in [Tasks -> FileTables] /\ opened \in [Tasks -> SUBSET FDs]
      /\ file_struct'[t] = r /\ \A u \in Tasks \ {t} : file_struct'[u] = file_struct[u]
      /\ opened'[t] = opened[t] \ {fd} /\ \A u \in Tasks \ {t} : opened'[u] = opened[u]
  BY <1>1 DEF PInv, TypeOK, FileTables
<1>10. file_struct' \in [Tasks -> FileTables]
  BY <1>5, <1>1, <1>9
<1>11. TypeOK'
  BY <1>1, <1>6, <1>7, <1>10 DEF PInv, TypeOK, FileTables
<1>12. Lives'
  BY <1>1, <1>2, <1>5, <1>9 DEF PInv, Lives
<1>13. Calls' /\ Heaps' /\ MInv'
  BY <1>1, <1>7, SpacesKept DEF PInv, TypeOK
<1>15. OwnFiles'
  <2> SUFFICES ASSUME Calm' PROVE
        /\ \A u \in Alive' : TableOf(file_struct'[u]) \subseteq files' /\ NoneTwice(file_struct'[u])
        /\ \A u, v \in Alive' \ vfork' :
             u # v => TableOf(file_struct'[u]) \cap TableOf(file_struct'[v]) = {}
    BY DEF OwnFiles
  <2>1. Calm /\ Alive' = Alive /\ Alive \subseteq Tasks /\ t \in Alive /\ "close_shared" \notin hit'
    BY <1>1, <1>7 DEF Calm, Works, Alive, Borrowing
  <2>2. /\ \A u \in Alive : TableOf(file_struct[u]) \subseteq files /\ NoneTwice(file_struct[u])
        /\ \A u, v \in Alive \ vfork :
             u # v => TableOf(file_struct[u]) \cap TableOf(file_struct[v]) = {}
    BY <2>1 DEF PInv, OwnFiles
  <2> QED
    BY <1>1, <1>5, <1>8, <1>9, <2>1, <2>2
<1>16. FilesKept'
  <2> SUFFICES ASSUME Tidy', NEW g \in files' PROVE
        \E u \in Alive' \ vfork' : g \in TableOf(file_struct'[u])
    BY DEF FilesKept
  <2>1. Tidy /\ Calm /\ Alive' = Alive /\ t \in Alive /\ Alive \subseteq Tasks /\ g \in files \ {f}
    BY <1>1, <1>7 DEF Tidy, Calm, Works, Alive
  <2>2. NoneTwice(s)
    BY <2>1 DEF PInv, OwnFiles
  <2>3. PICK u \in Alive \ vfork : g \in TableOf(file_struct[u])
    BY <2>1 DEF PInv, FilesKept
  <2> QED
    BY <1>1, <1>5, <1>9, <2>1, <2>2, <2>3
<1>17. FaultsByEvent'
  BY <1>1, <1>7 DEF PInv, FaultsByEvent
<1> QED
  BY <1>11, <1>12, <1>13, <1>15, <1>16, <1>17 DEF PInv

LEMMA ExecMissingStep ==
  ASSUME PInv, Works, NEW t \in Tasks, ExecMissing(t)
  PROVE  PInv'
<1>1. CASE t \notin vfork /\ pc' = [pc EXCEPT ![t] = "user"]
           /\ UNCHANGED <<state, vfork, tables, spaces, locals, hit, fault>>
  <2>1. /\ UNCHANGED <<state, vfork, file_struct, files, opened, binaries, filp, child, brk>>
        /\ UNCHANGED <<mm, mms, mapped, end_brk, frames, child, brk, hit, fault>>
        /\ state[t] = "ALIVE" /\ pc[t] = "exec"
    BY <1>1 DEF ExecMissing, In, tables, spaces, locals
  <2>2. TypeOK'
    BY <1>1, <2>1 DEF PInv, TypeOK, TaskPCs
  <2>3. Lives'
    BY <1>1, <2>1 DEF PInv, TypeOK, Lives
  <2>4. Calls' /\ Heaps' /\ MInv'
    BY <1>1, <2>1, SpacesKept DEF PInv, TypeOK
  <2>6. OwnFiles' /\ FilesKept'
    BY <2>1, TablesKept DEF PInv, Works, Alive
  <2>7. FaultsByEvent'
    BY <2>1 DEF PInv, FaultsByEvent
  <2> QED
    BY <2>2, <2>3, <2>4, <2>6, <2>7 DEF PInv
<1>2. CASE Fail("no_program", {"exec_failed"})
  <2>1. FaultsByEvent'
    BY <1>2 DEF FaultsByEvent, Fail
  <2> QED
    BY <1>2, <2>1, FailStep DEF Faults, Events
<1> QED
  BY <1>1, <1>2 DEF ExecMissing
-----------------------------------------------------------------------------
(* sys_brk *)

\* Frames are mapped, in an mm_struct that is there or is new.
LEMMA FramesGrow ==
  ASSUME PInv, Works, hit \subseteq hit', NEW m \in Mms, NEW G \in SUBSET (0..MaxHeap),
         mms' = mms \cup {m}, mapped' = [mapped EXCEPT ![m] = @ \cup G],
         frames' = frames + Cardinality(G),
         \A x \in Mms \ mms' : end_brk'[x] = end_brk[x],
         hit' \cap {"left_behind", "brk_race"} = {} => G \cap mapped[m] = {}
  PROVE  Heaps' /\ FramesKept'
<1>1. /\ mms \subseteq Mms /\ mapped \in [Mms -> SUBSET (0..MaxHeap)] /\ frames \in Nat
      /\ \A x \in Mms \ mms : mapped[x] = {} /\ end_brk[x] = 0
      /\ Cardinality(MappedFrames) <= frames
  BY ProcessAssumption DEF PInv, TypeOK, Heaps
<1>2. mapped'[m] = mapped[m] \cup G /\ \A x \in Mms \ {m} : mapped'[x] = mapped[x]
  BY <1>1
<1>3. MappedFrames = FramesOf(mms \cup {m}, mapped) /\ MappedFrames' = FramesOf(mms', mapped')
  BY <1>1 DEF MappedFrames, FramesOf
<1>4. mms' \in SUBSET Mms /\ m \in mms'
  BY <1>1
<1>5. Cardinality(MappedFrames) \in Nat /\ Cardinality(MappedFrames') \in Nat /\ Cardinality(G) \in Nat
  BY <1>3, <1>4, FramesFinite, PlacesFinite
<1>6. Cardinality(MappedFrames') <= Cardinality(MappedFrames) + Cardinality(G)
  BY <1>2, <1>3, <1>4, FramesOfMost
<1>7. Heaps'
  <2>1. Cardinality(MappedFrames') <= frames'
    BY <1>1, <1>5, <1>6
  <2>2. \A x \in Mms \ mms' : mapped'[x] = {} /\ end_brk'[x] = 0
    BY <1>1, <1>2
  <2> QED
    BY <2>1, <2>2 DEF Heaps
<1>8. FramesKept'
  <2> SUFFICES ASSUME hit' \cap {"left_behind", "brk_race", "brk_left"} = {}
               PROVE  frames' = Cardinality(MappedFrames')
    BY DEF FramesKept
  <2>1. frames = Cardinality(MappedFrames)
    BY DEF PInv, MInv, FramesKept
  <2>2. G \cap mapped[m] = {}
    OBVIOUS
  <2>3. PICK M, mp, mq : M = mms' /\ mp = mapped /\ mq = mapped'
    OBVIOUS
  <2>4. /\ M \in SUBSET Mms /\ m \in M /\ G \cap mp[m] = {}
        /\ mq[m] = mp[m] \cup G /\ \A x \in Mms \ {m} : mq[x] = mp[x]
    BY <1>2, <1>4, <2>2, <2>3
  <2>5. Cardinality(FramesOf(M, mq)) = Cardinality(FramesOf(M, mp)) + Cardinality(G)
    BY <2>4, FramesOfMore
  <2>6. mms \cup {m} = M
    BY <2>3
  <2> QED
    BY <1>3, <2>1, <2>3, <2>5, <2>6
<1> QED
  BY <1>7, <1>8

LEMMA OneFrame ==
  ASSUME NEW i \in 0..MaxHeap
  PROVE  {i} \in SUBSET (0..MaxHeap) /\ Cardinality({i}) = 1
BY FS_Singleton

\* An mm_struct gets frames it had not; who has it alone gets them itself.
LEMMA CodeKept ==
  ASSUME PInv, Works, hit \subseteq hit', Holders' = Holders, mm' = mm,
         NEW x \in Holders, pc'[x] # "exec_new", state'[x] # "NEW", 0 \in mapped'[mm[x]],
         \A u \in Holders \ {x} : state'[u] = state[u] /\ (pc'[u] = "exec_new" <=> pc[u] = "exec_new"),
         mapped[mm[x]] \subseteq mapped'[mm[x]],
         \A m \in Mms : m # mm[x] => mapped'[m] = mapped[m]
  PROVE  Code'
<1> SUFFICES ASSUME Works', "left_behind" \notin hit', NEW u \in Holders
             PROVE  /\ pc'[u] = "exec_new" => mapped'[mm[u]] = {}
                    /\ pc'[u] # "exec_new" => 0 \in mapped'[mm[u]]
                    /\ state'[u] = "NEW" => mapped'[mm[u]] = {0}
  BY DEF Code
<1>1. /\ \A t \in Holders : mm[t] \in mms
      /\ \A t, v \in Holders : t # v /\ mm[t] = mm[v] => ~Alone(t) /\ ~Alone(v)
  BY DEF PInv, MInv, OwnMms
<1>2. /\ pc[u] = "exec_new" => mapped[mm[u]] = {}
      /\ pc[u] # "exec_new" => 0 \in mapped[mm[u]]
      /\ state[u] = "NEW" => mapped[mm[u]] = {0}
  BY DEF PInv, MInv, Code
<1>3. mm[u] \in Mms /\ mm[x] \in Mms
  BY <1>1 DEF PInv, TypeOK
<1>4. CASE u = x
  BY <1>4
<1>5. CASE u # x /\ mm[u] # mm[x]
  BY <1>2, <1>3, <1>5
<1>6. CASE u # x /\ mm[u] = mm[x]
  <2>1. ~Alone(u) /\ u \in Tasks
    BY <1>1, <1>6 DEF Holders, Existing
  <2>2. state[u] # "NEW" /\ (pc[u] = "exec_new" => u \in vfork)
    BY <2>1 DEF Alone, PInv, Calls
  <2>3. pc[u] # "exec_new"
    BY <2>1, <2>2 DEF Alone
  <2> QED
    BY <1>2, <1>6, <2>2, <2>3
<1> QED
  BY <1>4, <1>5, <1>6

\* do_brk goes on without changing the tables.
LEMMA BrkMoves ==
  ASSUME PInv, Works, NEW t \in Tasks, t \in Alive,
         pc[t] \in {"user", "brk"} \cup Growing,
         UNCHANGED <<BrkPaths, mapped, end_brk, frames>>,
         NEW p \in {"brk"} \cup Growing, pc' = [pc EXCEPT ![t] = p],
         NEW b \in [at : 0..Beyond + 1, to : 0..MaxHeap], brk' = [brk EXCEPT ![t] = b],
         NEW more, more \subseteq Events, Hit(more),
         p # "brk" => b.at >= 1,
         "brk_failed" \notin hit' => b.at <= Beyond,
         p \in Growing /\ Sound' /\ mm[t] \in mms => Backed(t, b.at - 1),
         p = "brk_set" => /\ b.at <= MaxHeap /\ b.at \notin mapped[mm[t]]
                          /\ "brk_race" \notin hit' =>
                               \A u \in Tasks \ {t} : pc[u] = "brk_set" /\ mm[u] = mm[t] => brk[u].at # b.at
  PROVE  PInv'
<1>1. /\ UNCHANGED <<state, vfork, file_struct, files, opened, binaries>>
      /\ UNCHANGED <<mm, mms, filp, child, fault>>
  BY DEF BrkPaths, tables
<1>2. /\ pc'[t] = p /\ brk'[t] = b
      /\ \A u \in Tasks \ {t} : pc'[u] = pc[u] /\ brk'[u] = brk[u]
      /\ p \in {"brk", "brk_test", "brk_set", "brk_store"}
      /\ pc[t] \in {"user", "brk", "brk_test", "brk_set", "brk_store"}
      /\ t \in Tasks /\ state[t] = "ALIVE"
  BY DEF PInv, TypeOK, Growing, Alive
<1>3. hit' = hit \cup more /\ hit \subseteq hit' /\ hit' \subseteq Events
  BY HitGrows DEF PInv
<1>4. TypeOK'
  BY <1>1, <1>2, <1>3 DEF PInv, TypeOK, TaskPCs, Beyond
<1>5. Lives'
  BY <1>1, <1>2 DEF PInv, Lives
<1>6. Calls'
  <2>1. b.at \in Nat /\ MaxHeap \in Nat
    BY ProcessAssumption DEF Beyond
  <2> QED
    BY <1>1, <1>2, <1>3, <2>1 DEF PInv, Calls, Growing
<1>7. MappedFrames' = MappedFrames
  BY <1>1 DEF MappedFrames
<1>8. Heaps' /\ FramesKept'
  BY <1>1, <1>3, <1>7 DEF PInv, MInv, Heaps, FramesKept
<1>9. HeapsBacked'
  <2>1. ASSUME Sound', NEW u \in Alive', mm'[u] \in mms' PROVE HeapOf(u)'
    <3>1. u \in Alive /\ u \in Tasks /\ mm[u] \in mms /\ HeapOf(u)
      BY <1>1, <1>3, <2>1, SureShrinks, HeapsBackedIs DEF PInv, MInv, Alive
    <3>2. CASE u # t
      BY <1>1, <1>2, <1>3, <3>1, <3>2, HeapOfKept
    <3>3. CASE u = t
      <4>1. Backed(t, end_brk[mm[t]])'
        BY <1>1, <1>3, <3>1, <3>3, SureShrinks DEF HeapOf, Backed
      <4>2. p \in Growing => Backed(t, b.at - 1)
        BY <2>1, <3>1, <3>3
      <4>3. pc'[t] \in Growing => Backed(t, brk[t].at - 1)'
        BY <1>1, <1>2, <1>3, <4>2, SureShrinks DEF Backed
      <4> QED
        BY <1>2, <3>3, <4>1, <4>3 DEF HeapOf
    <3> QED
      BY <3>2, <3>3
  <2>2. "brk_failed" \notin hit' =>
          (\A m \in Mms : end_brk'[m] <= MaxHeap) /\ (\A u \in Tasks : brk'[u].at <= Beyond')
    BY <1>1, <1>2, <1>3, HeapsBackedIs DEF PInv, MInv, Beyond
  <2> QED
    BY <2>1, <2>2 DEF HeapsBacked, HeapOf
<1>10. OwnMms' /\ MmsKept'
  BY <1>1, <1>2, <1>3, OwnersKept DEF PInv, MInv, Works
<1>11. Code'
  <2>1. Holders' = Holders /\ Holders \subseteq Tasks
    BY <1>1, <1>2 DEF Holders, Existing
  <2> QED
    BY <1>1, <1>2, <1>3, <2>1 DEF PInv, MInv, Code
<1>12. Places'
  <2>1. \A u, v \in Tasks :
          u # v /\ pc'[u] = "brk_set" /\ pc'[v] = "brk_set" /\ mm[u] = mm[v]
            /\ hit' \cap {"left_behind", "brk_race"} = {} => brk'[u].at # brk'[v].at
    <3> SUFFICES ASSUME NEW u \in Tasks, NEW v \in Tasks, u # v, pc'[u] = "brk_set", pc'[v] = "brk_set",
                        mm[u] = mm[v], hit' \cap {"left_behind", "brk_race"} = {}
                 PROVE  brk'[u].at # brk'[v].at
      OBVIOUS
    <3>1. CASE u = t
      BY <1>2, <3>1
    <3>2. CASE v = t
      BY <1>2, <3>2
    <3>3. CASE u # t /\ v # t
      BY <1>2, <1>3, <3>3 DEF PInv, MInv, Places
    <3> QED
      BY <3>1, <3>2, <3>3
  <2>2. \A u \in Tasks :
          pc'[u] = "brk_set" /\ hit' \cap {"left_behind", "brk_race"} = {} => brk'[u].at \notin mapped[mm[u]]
    BY <1>2, <1>3 DEF PInv, MInv, Places
  <2> QED
    BY <1>1, <2>1, <2>2 DEF Places
<1>13. OwnFiles' /\ FilesKept'
  BY <1>1, <1>3, TablesKept DEF PInv, Works, Alive
<1>14. FaultsByEvent'
  BY <1>1, NoFault
<1> QED
  BY <1>4, <1>5, <1>6, <1>8, <1>9, <1>10, <1>11, <1>12, <1>13, <1>14 DEF PInv, MInv


LEMMA AtSet ==
  ASSUME NEW t \in Tasks, NEW n, brk \in [Tasks -> [at : 0..Beyond + 1, to : 0..MaxHeap]]
  PROVE  [brk EXCEPT ![t].at = n] = [brk EXCEPT ![t] = [at |-> n, to |-> brk[t].to]]
<1>1. [brk[t] EXCEPT !.at = n] = [at |-> n, to |-> brk[t].to]
  <2>1. brk[t] \in [at : 0..Beyond + 1, to : 0..MaxHeap]
    OBVIOUS
  <2> QED
    BY <2>1
<1> QED
  BY <1>1

LEMMA BrkStep ==
  ASSUME PInv, Works, NEW t \in Tasks, NEW n \in 0..MaxHeap, Brk(t, n)
  PROVE  PInv'
<1> DEFINE b == [at |-> 0, to |-> n]
<1>1. /\ t \in Alive /\ pc[t] = "user" /\ pc' = [pc EXCEPT ![t] = "brk"]
      /\ brk' = [brk EXCEPT ![t] = b]
      /\ UNCHANGED <<BrkPaths, mapped, end_brk, frames, hit>>
  BY DEF Brk, Ready, In, Alive
<1>2. 0 \in 0..Beyond + 1 /\ 0 <= Beyond
  BY ProcessAssumption DEF Beyond
<1>3. b \in [at : 0..Beyond + 1, to : 0..MaxHeap] /\ b.at = 0
  BY <1>2
<1>4. Hit({})
  BY <1>1 DEF Hit
<1> HIDE DEF b
<1> QED
  BY <1>1, <1>2, <1>3, <1>4, BrkMoves DEF Growing

LEMMA BrkStartStep ==
  ASSUME PInv, Works, NEW t \in Tasks, BrkStart(t)
  PROVE  PInv'
<1>0. PICK to \in 0..MaxHeap : brk' = [brk EXCEPT ![t] = [at |-> end_brk[mm[t]] + 1, to |-> to]]
  BY DEF BrkStart, PInv, TypeOK
<1> DEFINE b == [at |-> end_brk[mm[t]] + 1, to |-> to]
<1>1. /\ t \in Alive /\ pc[t] = "brk" /\ pc' = [pc EXCEPT ![t] = "brk_test"] /\ mm[t] \in mms
      /\ brk' = [brk EXCEPT ![t] = b]
      /\ UNCHANGED <<BrkPaths, mapped, end_brk, frames, hit>>
  BY <1>0 DEF BrkStart, In, Alive
<1>2. end_brk[mm[t]] \in 0..Beyond /\ mm[t] \in Mms /\ Beyond \in Nat /\ Beyond = MaxHeap + 1 /\ MaxHeap \in Nat
  BY <1>1, ProcessAssumption DEF PInv, TypeOK, Beyond
<1>3. b \in [at : 0..Beyond + 1, to : 0..MaxHeap] /\ b.at = end_brk[mm[t]] + 1
  BY <1>2
<1>4. Hit({})
  BY <1>1 DEF Hit
<1>5. "brk_failed" \notin hit => end_brk[mm[t]] <= MaxHeap
  BY <1>2 DEF PInv, MInv, HeapsBacked
<1>6. Sound => Backed(t, end_brk[mm[t]])
  BY <1>1 DEF PInv, MInv, HeapsBacked
<1>7. Sound' => Sound
  BY <1>1 DEF Sound
<1> HIDE DEF b
<1>8. b.at >= 1 /\ ("brk_failed" \notin hit' => b.at <= Beyond) /\ b.at - 1 = end_brk[mm[t]]
  BY <1>1, <1>2, <1>3, <1>5
<1>9. Sound' => Backed(t, b.at - 1)
  BY <1>6, <1>7, <1>8
<1>10. PICK p, more : p = "brk_test" /\ more = {}
  OBVIOUS
<1>11. /\ p \in {"brk"} \cup Growing /\ p # "brk_set" /\ pc' = [pc EXCEPT ![t] = p]
       /\ pc[t] \in {"user", "brk"} \cup Growing
       /\ more \subseteq Events /\ Hit(more)
  BY <1>1, <1>4, <1>10 DEF Growing
<1>12. b \in [at : 0..Beyond + 1, to : 0..MaxHeap]
  BY <1>3
<1> QED
  BY <1>1, <1>8, <1>9, <1>11, <1>12, BrkMoves

LEMMA BrkTestStep ==
  ASSUME PInv, Works, NEW t \in Tasks, BrkTest(t)
  PROVE  PInv'
<1> DEFINE at == brk[t].at
           here == {u \in Sharers(t) : pc[u] = "brk_set" /\ brk[u].at = at}
<1>1. /\ t \in Alive /\ pc[t] = "brk_test" /\ mm[t] \in mms /\ at <= brk[t].to
      /\ UNCHANGED <<BrkPaths, mapped, end_brk, frames>>
  BY DEF BrkTest, In, Alive
<1>2. /\ brk \in [Tasks -> [at : 0..Beyond + 1, to : 0..MaxHeap]] /\ pc \in [Tasks -> TaskPCs]
      /\ at \in Nat /\ at >= 1 /\ brk[t].to \in 0..MaxHeap /\ MaxHeap \in Nat /\ Beyond = MaxHeap + 1
  BY <1>1, ProcessAssumption DEF PInv, TypeOK, Calls, Beyond
<1>3. at \in 1..MaxHeap
  BY <1>1, <1>2
<1>4. Sound => Backed(t, at - 1)
  BY <1>1 DEF PInv, MInv, HeapsBacked, Growing
<1>5. CASE at \in mapped[mm[t]] /\ brk' = [brk EXCEPT ![t].at = at + 1] /\ UNCHANGED <<pc, hit>>
  <2> DEFINE b == [at |-> at + 1, to |-> brk[t].to]
  <2>1. brk' = [brk EXCEPT ![t] = b] /\ pc' = [pc EXCEPT ![t] = "brk_test"]
    BY <1>1, <1>2, <1>5, AtSet
  <2>2. b \in [at : 0..Beyond + 1, to : 0..MaxHeap] /\ b.at = at + 1 /\ b.at - 1 = at
    BY <1>2, <1>3
  <2>3. Hit({}) /\ (Sound' => Sound)
    BY <1>5 DEF Hit, Sound
  <2>4. Backed(t, at - 1) => Backed(t, at)
    <3>1. \A i \in 1..at : i \in 1..at - 1 \/ i = at
      BY <1>3
    <3> QED
      BY <1>5, <3>1 DEF Backed
  <2> HIDE DEF b
  <2>5. b.at >= 1 /\ b.at <= Beyond
    BY <1>2, <1>3, <2>2
  <2> QED
    BY <1>1, <1>4, <2>1, <2>2, <2>3, <2>4, <2>5, BrkMoves DEF Growing
<1>6. CASE /\ at \notin mapped[mm[t]] /\ pc' = [pc EXCEPT ![t] = "brk_set"]
           /\ Hit(When(here # {}, "brk_race")) /\ UNCHANGED brk
  <2>1. /\ brk[t] \in [at : 0..Beyond + 1, to : 0..MaxHeap]
        /\ brk' = [brk EXCEPT ![t] = brk[t]] /\ brk[t].at <= Beyond
    BY <1>2, <1>3, <1>6
  <2>2. When(here # {}, "brk_race") \subseteq Events
    BY DEF When, Events
  <2>3. hit \subseteq hit' /\ ("brk_race" \notin hit' => here = {})
    BY <1>6 DEF Hit, When
  <2>4. Sound' => Sound
    BY <2>3, SureShrinks
  <2>5. \A u \in Tasks \ {t} : pc[u] = "brk_set" /\ mm[u] = mm[t] => u \in Sharers(t)
    BY DEF PInv, Lives, Sharers, Alive
  <2>6. "brk_race" \notin hit' =>
          \A u \in Tasks \ {t} : pc[u] = "brk_set" /\ mm[u] = mm[t] => brk[u].at # at
    BY <2>3, <2>5
  <2>7. PICK b, more : b = brk[t] /\ more = When(here # {}, "brk_race")
    OBVIOUS
  <2> HIDE DEF here
  <2>8. /\ b \in [at : 0..Beyond + 1, to : 0..MaxHeap] /\ brk' = [brk EXCEPT ![t] = b]
        /\ more \subseteq Events /\ Hit(more) /\ b.at >= 1 /\ b.at <= Beyond
        /\ b.at <= MaxHeap /\ b.at \notin mapped[mm[t]]
    <3>1. at <= MaxHeap
      BY <1>3
    <3> QED
      BY <1>2, <1>6, <2>1, <2>2, <2>7, <3>1
  <2>9. Sound' => Backed(t, b.at - 1)
    BY <1>4, <2>4, <2>7
  <2>10. "brk_race" \notin hit' =>
           \A u \in Tasks \ {t} : pc[u] = "brk_set" /\ mm[u] = mm[t] => brk[u].at # b.at
    BY <2>6, <2>7
  <2> QED
    BY <1>1, <1>6, <2>8, <2>9, <2>10, BrkMoves DEF Growing
<1> QED
  BY <1>5, <1>6 DEF BrkTest

LEMMA BrkSetStep ==
  ASSUME PInv, Works, NEW t \in Tasks, BrkSet(t)
  PROVE  PInv'
<1> DEFINE at == brk[t].at
           m == mm[t]
<1>1. /\ t \in Alive /\ pc[t] = "brk_set" /\ m \in mms
      /\ UNCHANGED <<BrkPaths, end_brk>>
      /\ UNCHANGED <<state, vfork, file_struct, files, opened, binaries, mm, mms, filp, child, fault>>
  BY DEF BrkSet, In, Alive, BrkPaths, tables
<1>2. /\ brk \in [Tasks -> [at : 0..Beyond + 1, to : 0..MaxHeap]] /\ pc \in [Tasks -> TaskPCs]
      /\ at \in 1..MaxHeap /\ brk[t].to \in 0..MaxHeap /\ MaxHeap \in Nat /\ Beyond = MaxHeap + 1
      /\ m \in Mms /\ mms \subseteq Mms /\ mapped \in [Mms -> SUBSET (0..MaxHeap)]
      /\ frames \in 0..NrFrames /\ NrFrames \in Nat
  BY <1>1, ProcessAssumption DEF PInv, TypeOK, Calls, Beyond
<1>3. CASE /\ frames = NrFrames /\ pc' = [pc EXCEPT ![t] = "brk_store"]
           /\ brk' = [brk EXCEPT ![t].at = Beyond + 1]
           /\ Hit({"brk_failed"}) /\ UNCHANGED <<mapped, frames>>
  <2> DEFINE b == [at |-> Beyond + 1, to |-> brk[t].to]
  <2>1. brk' = [brk EXCEPT ![t] = b]
    BY <1>2, <1>3, AtSet
  <2>2. b \in [at : 0..Beyond + 1, to : 0..MaxHeap] /\ b.at >= 1
    BY <1>2
  <2>3. "brk_failed" \in hit' /\ ~Sound' /\ {"brk_failed"} \subseteq Events
    BY <1>3 DEF Hit, Events, Sound
  <2>4. PICK p, more : p = "brk_store" /\ more = {"brk_failed"}
    OBVIOUS
  <2> HIDE DEF b
  <2>5. /\ p \in {"brk"} \cup Growing /\ p # "brk_set" /\ pc' = [pc EXCEPT ![t] = p]
        /\ pc[t] \in {"user", "brk"} \cup Growing
        /\ more \subseteq Events /\ Hit(more)
    BY <1>1, <1>3, <2>3, <2>4 DEF Growing
  <2>6. UNCHANGED <<BrkPaths, mapped, end_brk, frames>>
    BY <1>1, <1>3
  <2> QED
    BY <1>1, <2>1, <2>2, <2>3, <2>5, <2>6, BrkMoves
<1>4. CASE /\ frames < NrFrames /\ frames' = frames + 1 /\ pc' = [pc EXCEPT ![t] = "brk_test"]
           /\ mapped' = [mapped EXCEPT ![m] = @ \cup {at}]
           /\ brk' = [brk EXCEPT ![t].at = @ + 1] /\ UNCHANGED hit
  <2>1. /\ pc'[t] = "brk_test" /\ brk'[t].at = at + 1 /\ brk'[t].to = brk[t].to
        /\ \A u \in Tasks \ {t} : pc'[u] = pc[u] /\ brk'[u] = brk[u]
        /\ mapped'[m] = mapped[m] \cup {at}
        /\ \A x \in Mms \ {m} : mapped'[x] = mapped[x]
    BY <1>2, <1>4
  <2>2. TypeOK'
    <3>1. brk' \in [Tasks -> [at : 0..Beyond + 1, to : 0..MaxHeap]]
      <4>1. at + 1 \in 0..Beyond + 1
        BY <1>2
      <4> HIDE DEF at
      <4>2. brk' = [brk EXCEPT ![t] = [brk[t] EXCEPT !.at = at + 1]]
        BY <1>2, <1>4 DEF at
      <4> QED
        BY <1>2, <4>1, <4>2
    <3>2. mapped' \in [Mms -> SUBSET (0..MaxHeap)] /\ frames' \in 0..NrFrames
      BY <1>2, <1>4
    <3>3. pc' \in [Tasks -> TaskPCs]
      BY <1>2, <1>4 DEF TaskPCs
    <3> QED
      BY <1>1, <1>4, <3>1, <3>2, <3>3 DEF PInv, TypeOK, Beyond
  <2>3. Lives'
    BY <1>1, <2>1, <1>4 DEF PInv, Lives, Alive
  <2>4. Calls'
    BY <1>1, <1>2, <1>4, <2>1 DEF PInv, Calls
  <2>5. Heaps' /\ FramesKept'
    <3>1. {at} \in SUBSET (0..MaxHeap) /\ Cardinality({at}) = 1
      BY <1>2, OneFrame
    <3>2. hit' \cap {"left_behind", "brk_race"} = {} => at \notin mapped[m]
      BY <1>1, <1>4 DEF PInv, MInv, Places
    <3>3. mms' = mms \cup {m} /\ frames' = frames + Cardinality({at})
      BY <1>1, <1>4, <3>1
    <3>4. mapped' = [mapped EXCEPT ![m] = @ \cup {at}] /\ m \in Mms /\ PInv /\ Works
      BY <1>1, <1>2, <1>4
    <3>5. hit \subseteq hit' /\ (\A x \in Mms \ mms' : end_brk'[x] = end_brk[x])
      BY <1>1, <1>4
    <3>6. hit' \cap {"left_behind", "brk_race"} = {} => {at} \cap mapped[m] = {}
      BY <3>2
    <3> HIDE DEF at, m
    <3> QED
      BY <3>1, <3>3, <3>4, <3>5, <3>6, FramesGrow
  <2>6. HeapsBacked'
    <3>1. ASSUME Sound', NEW u \in Alive', mm'[u] \in mms' PROVE HeapOf(u)'
      <4>1. u \in Alive /\ u \in Tasks /\ mm[u] \in mms /\ mm[u] \in Mms /\ HeapOf(u)
        BY <1>1, <1>2, <1>4, <3>1, SureShrinks, HeapsBackedIs DEF PInv, MInv, Alive
      <4>2. mapped[mm[u]] \subseteq mapped'[mm[u]]
        BY <2>1, <4>1
      <4>3. CASE u # t
        BY <1>1, <1>4, <2>1, <4>1, <4>2, <4>3, HeapOfKept
      <4>4. CASE u = t
        <5>1. Backed(t, end_brk[m])'
          BY <1>1, <1>4, <4>1, <4>2, <4>4 DEF HeapOf, Backed, Sure
        <5>2. Backed(t, at - 1)
          BY <1>1, <4>1, <4>4 DEF HeapOf, Growing
        <5>3. brk'[t].at - 1 = at /\ \A i \in 1..at : i \in 1..at - 1 \/ i = at
          BY <1>2, <2>1
        <5>4. Backed(t, brk[t].at - 1)'
          BY <1>1, <1>4, <2>1, <5>2, <5>3 DEF Backed, Sure
        <5> QED
          BY <1>1, <2>1, <4>4, <5>1, <5>4 DEF HeapOf
      <4> QED
        BY <4>3, <4>4
    <3>2. "brk_failed" \notin hit' =>
            (\A x \in Mms : end_brk'[x] <= MaxHeap) /\ (\A u \in Tasks : brk'[u].at <= Beyond')
      <4>1. brk'[t].at <= Beyond
        BY <1>2, <2>1
      <4> QED
        BY <1>1, <1>4, <2>1, <4>1, HeapsBackedIs DEF PInv, MInv, Beyond
    <3> QED
      BY <3>1, <3>2 DEF HeapsBacked, HeapOf
  <2>7. OwnMms' /\ MmsKept'
    BY <1>1, <1>4, <2>1, OwnersKept DEF PInv, MInv, Works
  <2>8. Code'
    <3>1. Holders' = Holders /\ t \in Holders /\ Holders \subseteq Tasks
      BY <1>1, <2>1 DEF Holders, Existing, Alive
    <3>2. CASE 0 \in mapped[m]
      BY <1>1, <1>2, <1>4, <2>1, <3>1, <3>2, CodeKept DEF Alive
    <3>3. CASE 0 \notin mapped[m]
      BY <1>1, <1>4, <3>1, <3>3 DEF PInv, MInv, Code
    <3> QED
      BY <3>2, <3>3
  <2>9. Places'
    <3> SUFFICES ASSUME Works', hit' \cap {"left_behind", "brk_race"} = {} PROVE
          /\ \A u \in Tasks : pc'[u] = "brk_set" => brk'[u].at \notin mapped'[mm'[u]]
          /\ \A u, v \in Tasks :
               u # v /\ pc'[u] = "brk_set" /\ pc'[v] = "brk_set" /\ mm'[u] = mm'[v] =>
                 brk'[u].at # brk'[v].at
      BY DEF Places
    <3>1. /\ \A u \in Tasks : pc[u] = "brk_set" => brk[u].at \notin mapped[mm[u]]
          /\ \A u, v \in Tasks :
               u # v /\ pc[u] = "brk_set" /\ pc[v] = "brk_set" /\ mm[u] = mm[v] => brk[u].at # brk[v].at
      BY <1>4 DEF PInv, MInv, Places
    <3>2. \A u \in Tasks : pc[u] = "brk_set" => mm[u] \in Mms
      <4>1. "left_behind" \notin hit
        BY <1>4
      <4> QED
        BY <1>2, <4>1, Running
    <3>3. \A u \in Tasks : pc'[u] = "brk_set" => u # t
      BY <2>1
    <3> QED
      BY <1>1, <2>1, <3>1, <3>2, <3>3
  <2>10. OwnFiles' /\ FilesKept'
    BY <1>1, <1>4, TablesKept DEF PInv, Works, Alive
  <2>11. FaultsByEvent'
    BY <1>1, NoFault
  <2> QED
    BY <2>2, <2>3, <2>4, <2>5, <2>6, <2>7, <2>8, <2>9, <2>10, <2>11 DEF PInv, MInv
<1> QED
  BY <1>3, <1>4 DEF BrkSet


\* Who sets the end of a heap has what is below it, and is noticed by who copies it.
LEMMA EndSet ==
  ASSUME PInv, Works, NEW t \in Alive, mm[t] \in mms, NEW end \in 0..Beyond,
         end_brk' = [end_brk EXCEPT ![mm[t]] = end],
         hit \subseteq hit', Lowered(t, end) \subseteq hit',
         "brk_failed" \notin hit' => end <= MaxHeap,
         Sound' => Backed(t, end),
         UNCHANGED <<state, mm, mms, mapped, child>>,
         \A u \in Tasks \ {t} : pc'[u] = pc[u] /\ brk'[u] = brk[u],
         pc[t] # "copy", pc'[t] # "copy",
         pc'[t] \in Growing => pc[t] \in Growing /\ brk'[t] = brk[t],
         brk'[t] = brk[t] \/ brk'[t] = NoBrk
  PROVE  HeapsBacked'
<1> DEFINE m == mm[t]
<1>1. /\ m \in Mms /\ end_brk \in [Mms -> 0..Beyond] /\ Beyond \in Nat /\ t \in Tasks /\ Alive' = Alive
      /\ mms \subseteq Mms
  BY ProcessAssumption DEF PInv, TypeOK, Alive, Beyond
<1>2. end_brk'[m] = end /\ \A x \in Mms \ {m} : end_brk'[x] = end_brk[x]
  BY <1>1
<1>3. ASSUME Sound', NEW u \in Alive', mm'[u] \in mms' PROVE HeapOf(u)'
  <2>1. u \in Alive /\ u \in Tasks /\ mm[u] \in mms /\ mm[u] \in Mms /\ HeapOf(u)
    BY <1>1, <1>3, SureShrinks, HeapsBackedIs DEF PInv, MInv, Alive
  <2>2. "left_behind" \notin hit /\ "end_in_copy" \notin hit'
    BY <1>3 DEF Sound
  <2>3. pc[u] = "copy" => mm[child[u]] \in Mms /\ mm[child[u]] # m
    <3>1. pc[t] # "init"
      BY <1>1, ProcessAssumption DEF PInv, Lives
    <3>3. state[t] = "ALIVE" /\ t \in Holders
      BY <2>2, <3>1, Running DEF Alive
    <3>4. ASSUME pc[u] = "copy" PROVE child[u] # t
      BY <2>1, <3>3, <3>4 DEF PInv, Calls
    <3> QED
      BY <1>1, <2>1, <2>2, <3>3, <3>4, Running
  <2>4. CASE mm[u] # m
    <3>1. u # t /\ end_brk'[mm[u]] = end_brk[mm[u]]
      BY <1>2, <2>1, <2>4
    <3> QED
      BY <1>2, <2>1, <2>3, <3>1, HeapOfKept
  <2>5. CASE mm[u] = m
    <3>1. Backed(u, end)'
      BY <1>3, <2>5, SureShrinks DEF Backed
    <3>2. Backed(u, end_brk[mm[u]])'
      BY <1>2, <2>5, <3>1 DEF Backed
    <3>3. pc'[u] \in Growing => pc[u] \in Growing /\ brk'[u] = brk[u]
      BY <2>1
    <3>4. pc'[u] \in Growing => Backed(u, brk[u].at - 1)'
      BY <2>1, <3>3, SureShrinks DEF HeapOf, Backed
    <3>5. ASSUME pc'[u] = "copy"
          PROVE  /\ end_brk'[mm'[child'[u]]] <= end_brk'[mm'[u]]
                 /\ "heap_cut" \notin hit' => end_brk'[mm'[child'[u]]] <= 1
      <4>1. u # t /\ pc[u] = "copy"
        BY <2>1, <3>5
      <4>2. u \in Sharers(t)
        BY <2>1, <2>5, <4>1 DEF Sharers
      <4>3. ~(end < end_brk[m])
        BY <2>2, <4>1, <4>2 DEF Lowered, When
      <4>4. /\ end_brk[mm[child[u]]] <= end_brk[m]
            /\ "heap_cut" \notin hit => end_brk[mm[child[u]]] <= 1
        BY <2>1, <2>5, <4>1 DEF HeapOf
      <4>5. end_brk'[mm[child[u]]] = end_brk[mm[child[u]]] /\ end_brk[mm[child[u]]] \in Nat
            /\ end_brk[m] \in Nat /\ end \in Nat
        BY <1>1, <1>2, <2>3, <4>1
      <4>6. end_brk'[mm[child[u]]] <= end
        BY <4>3, <4>4, <4>5
      <4> QED
        BY <1>2, <2>5, <4>4, <4>5, <4>6
    <3> QED
      BY <3>2, <3>4, <3>5 DEF HeapOf
  <2> QED
    BY <2>4, <2>5
<1>4. ASSUME "brk_failed" \notin hit'
      PROVE  (\A x \in Mms : end_brk'[x] <= MaxHeap) /\ (\A u \in Tasks : brk'[u].at <= Beyond')
  <2>1. NoBrk.at <= Beyond /\ Beyond' = Beyond
    BY <1>1 DEF NoBrk, Beyond
  <2>2. (\A x \in Mms : end_brk[x] <= MaxHeap) /\ (\A u \in Tasks : brk[u].at <= Beyond)
    BY <1>4, HeapsBackedIs DEF PInv, MInv
  <2> QED
    BY <1>1, <1>2, <1>4, <2>1, <2>2
<1> QED
  BY <1>3, <1>4 DEF HeapsBacked, HeapOf

LEMMA StoresEndStep ==
  ASSUME PInv, Works, NEW t \in Tasks, BrkEnd(t) \/ BrkStore(t)
  PROVE  PInv'
<1> DEFINE end == brk[t].at - 1
           more == Lowered(t, end)
<1>0. PICK p, b : /\ StoresEnd(t, p, b) /\ In(t, pc[t])
                  /\ \/ pc[t] = "brk_test" /\ p = "brk_store" /\ b = brk[t]
                     \/ pc[t] = "brk_store" /\ p = "user" /\ b = NoBrk
  BY DEF BrkEnd, BrkStore, In
<1>1. /\ t \in Alive /\ state[t] = "ALIVE" /\ mm[t] \in mms /\ pc[t] \in {"brk_test", "brk_store"}
      /\ end_brk' = [end_brk EXCEPT ![mm[t]] = end]
      /\ Hit(more) /\ pc' = [pc EXCEPT ![t] = p] /\ brk' = [brk EXCEPT ![t] = b]
      /\ UNCHANGED <<state, vfork, file_struct, files, opened, binaries, mm, mms, filp, child, fault>>
      /\ UNCHANGED <<mapped, frames>>
  BY <1>0 DEF StoresEnd, BrkPaths, tables, In, Alive
<1>2. /\ brk \in [Tasks -> [at : 0..Beyond + 1, to : 0..MaxHeap]] /\ pc \in [Tasks -> TaskPCs]
      /\ mm[t] \in Mms /\ mms \subseteq Mms /\ end_brk \in [Mms -> 0..Beyond]
      /\ MaxHeap \in Nat /\ Beyond = MaxHeap + 1 /\ brk[t].at \in 0..Beyond + 1
  BY <1>1, ProcessAssumption DEF PInv, TypeOK, Beyond
<1>3. end \in 0..Beyond
  BY <1>1, <1>2 DEF PInv, Calls
<1>4. hit' = hit \cup more /\ hit \subseteq hit' /\ hit' \subseteq Events
  BY <1>1, HitGrows DEF Lowered, When, Events, PInv
<1>5. /\ pc'[t] = p /\ brk'[t] = b /\ p \in {"brk_store", "user"}
      /\ \A u \in Tasks \ {t} : pc'[u] = pc[u] /\ brk'[u] = brk[u]
  BY <1>0, <1>1, <1>2
<1>6. TypeOK'
  <2>1. b \in [at : 0..Beyond + 1, to : 0..MaxHeap]
    BY <1>0, <1>2 DEF NoBrk
  <2>2. brk' \in [Tasks -> [at : 0..Beyond + 1, to : 0..MaxHeap]] /\ pc' \in [Tasks -> TaskPCs]
    BY <1>1, <1>2, <1>5, <2>1 DEF TaskPCs
  <2>3. end_brk' \in [Mms -> 0..Beyond]
    BY <1>1, <1>2, <1>3
  <2> QED
    BY <1>1, <1>4, <2>2, <2>3 DEF PInv, TypeOK, Beyond
<1>7. Lives'
  BY <1>1, <1>5 DEF PInv, Lives
<1>8. Calls'
  <2>1. p = "brk_store" => b.at >= 1
    BY <1>0, <1>1 DEF PInv, Calls
  <2> QED
    BY <1>1, <1>4, <1>5, <2>1 DEF PInv, Calls
<1>9. MappedFrames' = MappedFrames
  BY <1>1 DEF MappedFrames
<1>10. Heaps' /\ FramesKept'
  BY <1>1, <1>2, <1>4, <1>9 DEF PInv, MInv, Heaps, FramesKept
<1>11. HeapsBacked'
  <2>1. "brk_failed" \notin hit' => end <= MaxHeap
    BY <1>2, <1>4 DEF PInv, MInv, HeapsBacked
  <2>2. Sound' => Backed(t, end)
    <3>1. Sound' => Sound
      BY <1>4, SureShrinks
    <3>2. pc[t] \in Growing
      BY <1>1 DEF Growing
    <3> QED
      BY <1>1, <3>1, <3>2 DEF PInv, MInv, HeapsBacked
  <2>3. /\ pc[t] # "copy" /\ pc'[t] # "copy"
        /\ pc'[t] \in Growing => pc[t] \in Growing /\ brk'[t] = brk[t]
        /\ brk'[t] = brk[t] \/ brk'[t] = NoBrk
    BY <1>0, <1>1, <1>5 DEF Growing
  <2>4. Lowered(t, end) \subseteq hit'
    BY <1>4
  <2> HIDE DEF end
  <2> QED
    BY <1>1, <1>3, <1>4, <1>5, <2>1, <2>2, <2>3, <2>4, EndSet
<1>12. OwnMms' /\ MmsKept'
  BY <1>1, <1>4, <1>5, OwnersKept DEF PInv, MInv, Works
<1>13. Code'
  <2>1. Holders' = Holders /\ Holders \subseteq Tasks
    BY <1>1, <1>5 DEF Holders, Existing
  <2> QED
    BY <1>1, <1>4, <1>5, <2>1 DEF PInv, MInv, Code
<1>14. Places'
  BY <1>1, <1>4, <1>5, PlacesKept
<1>15. OwnFiles' /\ FilesKept'
  BY <1>1, <1>4, TablesKept DEF PInv, Works, Alive
<1>16. FaultsByEvent'
  BY <1>1, NoFault
<1> QED
  BY <1>6, <1>7, <1>8, <1>10, <1>11, <1>12, <1>13, <1>14, <1>15, <1>16 DEF PInv, MInv
-----------------------------------------------------------------------------
(* fork and vfork *)

\* What do_fork takes for the child has no owner.
LEMMA ChildIsNew ==
  ASSUME PInv, Tasks # Existing
  PROVE  LET c == First(Tasks \ Existing)
         IN c \in Tasks /\ state[c] = "NONE" /\ pc[c] = "user" /\ c \notin vfork
              /\ file_struct[c] = NoFiles
<1>1. Tasks \ Existing # {} /\ Tasks \ Existing \subseteq Nat
  BY ProcessAssumption DEF Existing
<1>2. First(Tasks \ Existing) \in Tasks \ Existing
  BY <1>1, FirstIs
<1> QED
  BY <1>2 DEF Existing, PInv, Lives

LEMMA MmIsNew ==
  ASSUME PInv, Mms # mms
  PROVE  LET m == First(Mms \ mms)
         IN m \in Mms \ mms /\ mapped[m] = {} /\ end_brk[m] = 0
<1>1. Mms \ mms # {} /\ Mms \ mms \subseteq Nat
  BY ProcessAssumption DEF PInv, TypeOK
<1>2. First(Mms \ mms) \in Mms \ mms
  BY <1>1, FirstIs
<1> QED
  BY <1>2 DEF PInv, Heaps

\* A task gets an mm_struct nobody has.
LEMMA NewOwner ==
  ASSUME PInv, Works, hit \subseteq hit',
         NEW x \in Tasks, NEW m \in Mms \ mms, mms' = mms \cup {m}, mm'[x] = m,
         \A y \in Mms \ {m} : mapped'[y] = mapped[y],
         \A u \in Tasks \ {x} :
           /\ state'[u] = state[u] /\ mm'[u] = mm[u] /\ (u \in vfork' <=> u \in vfork)
           /\ pc'[u] = pc[u] \/ {pc[u], pc'[u]} \subseteq {"user", "copy"},
         x \in Holders',
         pc'[x] = "exec_new" => mapped'[m] = {},
         pc'[x] # "exec_new" => 0 \in mapped'[m],
         state'[x] = "NEW" => mapped'[m] = {0},
         Tidy' => Tidy /\ Owns(x)' /\ (x \in Existing => ~Owns(x))
  PROVE  OwnMms' /\ Code' /\ MmsKept'
<1>1. /\ Holders' = (Holders \ {x}) \cup {x} /\ Holders \subseteq Tasks
      /\ Existing' = Existing \cup {x} /\ Existing \subseteq Tasks
  BY DEF Holders, Existing
<1>2. \A u \in Tasks \ {x} : (Alone(u)' <=> Alone(u)) /\ (Owns(u)' <=> Owns(u))
  BY DEF Alone, Owns
<1>3. ASSUME Works', "left_behind" \notin hit'
      PROVE  \A u \in Holders \ {x} : mm'[u] = mm[u] /\ mm[u] \in mms /\ mm'[u] # m
  <2>1. "left_behind" \notin hit
    BY <1>3
  <2> QED
    BY <1>1, <2>1 DEF PInv, MInv, OwnMms
<1>4. OwnMms'
  <2> SUFFICES ASSUME Works', "left_behind" \notin hit' PROVE
        /\ \A u \in Holders' : mm'[u] \in mms'
        /\ \A u, v \in Holders' :
             u # v /\ mm'[u] = mm'[v] =>
               (u \in vfork' \/ v \in vfork') /\ ~Alone(u)' /\ ~Alone(v)'
    BY DEF OwnMms
  <2>1. \A u, v \in Holders :
          u # v /\ mm[u] = mm[v] => (u \in vfork \/ v \in vfork) /\ ~Alone(u) /\ ~Alone(v)
    BY DEF PInv, MInv, OwnMms
  <2> HIDE DEF Alone
  <2>2. \A u \in Holders' : mm'[u] \in mms'
    BY <1>1, <1>3
  <2>3. ASSUME NEW u \in Holders', NEW v \in Holders', u # v, mm'[u] = mm'[v]
        PROVE  (u \in vfork' \/ v \in vfork') /\ ~Alone(u)' /\ ~Alone(v)'
    <3>1. u \in Holders \ {x} /\ v \in Holders \ {x}
      BY <1>1, <1>3, <2>3
    <3> QED
      BY <3>1, <1>1, <1>2, <1>3, <2>1, <2>3
  <2> QED
    BY <2>2, <2>3
<1>5. Code'
  <2> SUFFICES ASSUME Works', "left_behind" \notin hit', NEW u \in Holders'
               PROVE  /\ pc'[u] = "exec_new" => mapped'[mm'[u]] = {}
                      /\ pc'[u] # "exec_new" => 0 \in mapped'[mm'[u]]
                      /\ state'[u] = "NEW" => mapped'[mm'[u]] = {0}
    BY DEF Code
  <2>1. CASE u = x
    BY <2>1
  <2>2. CASE u # x
    <3>1. u \in Holders /\ mm'[u] = mm[u] /\ mm[u] \in Mms \ {m}
      BY <1>1, <1>3, <2>2 DEF PInv, TypeOK
    <3>2. /\ pc[u] = "exec_new" => mapped[mm[u]] = {}
          /\ pc[u] # "exec_new" => 0 \in mapped[mm[u]]
          /\ state[u] = "NEW" => mapped[mm[u]] = {0}
      BY <3>1 DEF PInv, MInv, Code
    <3>3. state'[u] = state[u] /\ (pc'[u] = "exec_new" <=> pc[u] = "exec_new")
      BY <1>1, <2>2, <3>1
    <3> QED
      BY <3>1, <3>2, <3>3
  <2> QED
    BY <2>1, <2>2
<1>6. MmsKept'
  <2> SUFFICES ASSUME Tidy', NEW y \in mms' PROVE \E u \in Existing' : Owns(u)' /\ y = mm'[u]
    BY DEF MmsKept
  <2>1. CASE y \in mms
    <3>1. PICK u \in Existing : Owns(u) /\ y = mm[u]
      BY <2>1 DEF PInv, MInv, MmsKept
    <3>2. u # x
      BY <3>1
    <3> HIDE DEF Owns
    <3> QED
      BY <3>1, <3>2, <1>1, <1>2
  <2>2. CASE y = m
    BY <2>2, <1>1
  <2> QED
    BY <2>1, <2>2
<1> QED
  BY <1>4, <1>5, <1>6

LEMMA VForkStep ==
  ASSUME PInv, Works, NEW t \in Tasks, VFork(t)
  PROVE  PInv'
<1>0. PICK c : c = First(Tasks \ Existing)
  OBVIOUS
<1>1. /\ state[t] = "ALIVE" /\ pc[t] = "user" /\ mm[t] \in mms
      /\ state' = [state EXCEPT ![c] = "ALIVE"] /\ vfork' = vfork \cup {c}
      /\ mm' = [mm EXCEPT ![c] = mm[t]]
      /\ file_struct' = [file_struct EXCEPT ![c] = file_struct[t]]
      /\ opened' = [opened EXCEPT ![c] = opened[t]]
      /\ UNCHANGED <<files, binaries, mms, mapped, end_brk, frames, pc, hit, fault>>
      /\ UNCHANGED <<filp, child, brk>>
  BY <1>0 DEF VFork, Ready, In, locals
<1>2. c \in Tasks /\ state[c] = "NONE" /\ c # t
  BY <1>0, <1>1, ChildIsNew DEF VFork
<1>3. /\ pc[c] = "user" /\ c \notin vfork
      /\ \A u \in Tasks : state[u] # "NONE" => u # c
  BY <1>2 DEF PInv, Lives
<1>4. /\ state \in [Tasks -> {"NONE", "NEW", "ALIVE", "ZOMBIE"}] /\ mm \in [Tasks -> Mms \cup {InitMm}]
      /\ file_struct \in [Tasks -> FileTables] /\ opened \in [Tasks -> SUBSET FDs]
      /\ mm[t] \in Mms
  BY <1>1 DEF PInv, TypeOK, FileTables
<1>5. /\ state'[c] = "ALIVE" /\ mm'[c] = mm[t] /\ file_struct'[c] = file_struct[t]
      /\ opened'[c] = opened[t]
      /\ \A u \in Tasks \ {c} : /\ state'[u] = state[u] /\ mm'[u] = mm[u]
                                /\ file_struct'[u] = file_struct[u] /\ opened'[u] = opened[u]
  BY <1>1, <1>2, <1>4
<1>6. TypeOK'
  BY <1>1, <1>2 DEF PInv, TypeOK
<1>7. Lives'
  BY <1>1, <1>2, <1>3, <1>5 DEF PInv, Lives
<1>8. Calls'
  <2>1. \A u \in Tasks : state[u] = "NEW" => state'[u] = "NEW"
    BY <1>2, <1>5
  <2> QED
    BY <1>1, <2>1, CallsKept DEF PInv
<1>9. Heaps' /\ FramesKept'
  <2>1. MappedFrames' = MappedFrames
    BY <1>1 DEF MappedFrames
  <2> QED
    BY <1>1, <2>1 DEF PInv, MInv, Heaps, FramesKept
<1>10. HeapsBacked'
  <2>1. ASSUME Sound', NEW u \in Alive', mm'[u] \in mms' PROVE HeapOf(u)'
    <3>1. Sound
      BY <1>1, <2>1 DEF Sound
    <3>2. CASE u = c
      <4>1. HeapOf(t)
        BY <1>1, <3>1, HeapsBackedIs DEF PInv, MInv, Alive
      <4> QED
        BY <1>1, <1>3, <1>5, <3>2, <4>1 DEF HeapOf, Backed, Growing, Sure
    <3>3. CASE u # c
      <4>1. u \in Tasks /\ HeapOf(u) /\ mm'[u] = mm[u]
        BY <1>1, <1>5, <2>1, <3>1, <3>3, HeapsBackedIs DEF PInv, MInv, Alive
      <4>2. pc[u] = "copy" => mm'[child[u]] = mm[child[u]]
        BY <1>3, <1>5, <4>1 DEF PInv, Calls
      <4> QED
        BY <1>1, <4>1, <4>2, HeapOfKept
    <3> QED
      BY <3>2, <3>3
  <2>2. "brk_failed" \notin hit' =>
          (\A y \in Mms : end_brk'[y] <= MaxHeap) /\ (\A u \in Tasks : brk'[u].at <= Beyond')
    BY <1>1, HeapsBackedIs DEF PInv, MInv, Beyond
  <2> QED
    BY <2>1, <2>2 DEF HeapsBacked, HeapOf
<1>11. /\ Holders' = Holders \cup {c} /\ t \in Holders /\ c \notin Holders
       /\ Holders \subseteq Tasks \ {c}
  BY <1>1, <1>2, <1>3, <1>5 DEF Holders, Existing
<1>12. OwnMms'
  <2>2. ~Alone(t) /\ ~Alone(c)' /\ \A u \in Holders : Alone(u)' <=> Alone(u)
    BY <1>1, <1>2, <1>3, <1>5, <1>11 DEF Alone
  <2>3. SUFFICES ASSUME Works', "left_behind" \notin hit' PROVE
          /\ \A u \in Holders' : mm'[u] \in mms'
          /\ \A u, v \in Holders' :
               u # v /\ mm'[u] = mm'[v] =>
                 (u \in vfork' \/ v \in vfork') /\ ~Alone(u)' /\ ~Alone(v)'
    BY DEF OwnMms
  <2>4. /\ \A u \in Holders : mm[u] \in mms
        /\ \A u, v \in Holders :
             u # v /\ mm[u] = mm[v] => (u \in vfork \/ v \in vfork) /\ ~Alone(u) /\ ~Alone(v)
    BY <1>1, <2>3 DEF PInv, MInv, OwnMms, Works
  <2>6. \A u \in Holders : mm'[u] = mm[u]
    BY <1>5, <1>11
  <2>7. \A u \in Holders : mm'[u] = mm'[c] => ~Alone(u)'
    <3> SUFFICES ASSUME NEW u \in Holders, mm'[u] = mm'[c] PROVE ~Alone(u)
      BY <2>2
    <3>1. mm[u] = mm[t]
      BY <1>5, <2>6
    <3> QED
      BY <3>1, <1>11, <2>2, <2>4
  <2> HIDE DEF Alone
  <2>8. \A u \in Holders' : mm'[u] \in mms'
    BY <1>1, <1>5, <1>11, <2>4, <2>6
  <2>9. ASSUME NEW u \in Holders', NEW v \in Holders', u # v, mm'[u] = mm'[v]
        PROVE  (u \in vfork' \/ v \in vfork') /\ ~Alone(u)' /\ ~Alone(v)'
    <3>1. CASE u = c
      BY <1>1, <1>11, <2>2, <2>7, <2>9, <3>1
    <3>2. CASE v = c
      BY <1>1, <1>11, <2>2, <2>7, <2>9, <3>2
    <3>3. CASE u # c /\ v # c
      <4>1. u \in Holders /\ v \in Holders /\ mm[u] = mm[v]
        BY <1>11, <2>6, <2>9, <3>3
      <4> QED
        BY <4>1, <1>1, <2>2, <2>4, <2>9
    <3> QED
      BY <3>1, <3>2, <3>3
  <2> QED
    BY <2>8, <2>9
<1>13. Code'
  <2> SUFFICES ASSUME Works', "left_behind" \notin hit', NEW u \in Holders'
               PROVE  /\ pc'[u] = "exec_new" => mapped'[mm'[u]] = {}
                      /\ pc'[u] # "exec_new" => 0 \in mapped'[mm'[u]]
                      /\ state'[u] = "NEW" => mapped'[mm'[u]] = {0}
    BY DEF Code
  <2>1. CASE u = c
    BY <1>1, <1>3, <1>5, <1>11, <2>1 DEF PInv, MInv, Code
  <2>2. CASE u # c
    BY <1>1, <1>5, <1>11, <2>2 DEF PInv, MInv, Code
  <2> QED
    BY <2>1, <2>2
<1>14. Places'
  BY <1>1, <1>3, <1>5, PlacesKept
<1>15. Alive' = Alive \cup {c} /\ Alive \subseteq Tasks \ {c} /\ t \in Alive
       /\ Alive' \ vfork' = Alive \ vfork
  BY <1>1, <1>2, <1>3, <1>5 DEF Alive
<1>16. OwnFiles'
  <2>1. Calm' => Calm
    BY <1>1 DEF Calm, Works
  <2> QED
    BY <1>1, <1>5, <1>15, <2>1 DEF PInv, OwnFiles
<1>17. (Tidy' => Tidy) /\ FilesKept'
  <2>1. Tidy' => Tidy
    BY <1>1 DEF Tidy, Works
  <2> QED
    BY <1>1, <1>5, <1>15, <2>1 DEF PInv, FilesKept
<1>18. MmsKept'
  <2>2. Existing \subseteq Tasks \ {c} /\ Existing \subseteq Existing'
    BY <1>2, <1>5 DEF Existing
  <2> QED
    BY <1>1, <1>5, <1>17, <2>2 DEF PInv, MInv, MmsKept, Owns
<1>19. FaultsByEvent'
  BY <1>1, NoFault
<1> QED
  BY <1>6, <1>7, <1>8, <1>9, <1>10, <1>12, <1>13, <1>14, <1>16, <1>17, <1>18, <1>19 DEF PInv, MInv

LEMMA ForkStep ==
  ASSUME PInv, Works, NEW t \in Tasks, Fork(t)
  PROVE  PInv'
<1>0. PICK c, m, end : c = First(Tasks \ Existing) /\ m = First(Mms \ mms) /\ end = end_brk[mm[t]]
  OBVIOUS
<1> DEFINE more == When(t \in vfork, "fork_in_vfork") \cup When(end \in 2..MaxHeap, "heap_cut")
<1>1. /\ state[t] = "ALIVE" /\ pc[t] = "user" /\ mm[t] \in mms /\ frames < NrFrames
      /\ state' = [state EXCEPT ![c] = "NEW"]
      /\ vfork' = vfork \cup (IF t \in vfork THEN {c} ELSE {})
      /\ mms' = mms \cup {m} /\ mm' = [mm EXCEPT ![c] = m]
      /\ mapped' = [mapped EXCEPT ![m] = {0}]
      /\ end_brk' = [end_brk EXCEPT ![m] = end]
      /\ frames' = frames + 1
      /\ child' = [child EXCEPT ![t] = c] /\ pc' = [pc EXCEPT ![t] = "copy"]
      /\ Hit(more)
      /\ UNCHANGED <<file_struct, files, opened, binaries, filp, brk, fault>>
  BY <1>0 DEF Fork, Ready, In, tables
<1>2. /\ c \in Tasks /\ state[c] = "NONE" /\ c # t
      /\ pc[c] = "user" /\ c \notin vfork
  BY <1>0, <1>1, ChildIsNew DEF Fork
<1>3. m \in Mms \ mms /\ mapped[m] = {} /\ end_brk[m] = 0
  BY <1>0, MmIsNew DEF Fork
<1>4. /\ state \in [Tasks -> {"NONE", "NEW", "ALIVE", "ZOMBIE"}] /\ mm \in [Tasks -> Mms \cup {InitMm}]
      /\ mms \subseteq Mms /\ mapped \in [Mms -> SUBSET (0..MaxHeap)]
      /\ end_brk \in [Mms -> 0..Beyond] /\ frames \in 0..NrFrames
      /\ MaxHeap \in Nat \ {0} /\ NrFrames \in Nat /\ Beyond = MaxHeap + 1
      /\ mm[t] \in Mms /\ end \in 0..Beyond
      /\ pc \in [Tasks -> TaskPCs] /\ child \in [Tasks -> Tasks \cup {NULL}]
  BY <1>0, <1>1, ProcessAssumption DEF PInv, TypeOK, Beyond
<1>5. hit' = hit \cup more /\ hit \subseteq hit' /\ hit' \subseteq Events
  BY <1>1, HitGrows DEF When, Events, PInv
<1>6. /\ "fork_in_vfork" \notin hit' => t \notin vfork
      /\ "heap_cut" \notin hit' => end \notin 2..MaxHeap
  BY <1>5 DEF When
<1> HIDE DEF more
<1>7. /\ state'[c] = "NEW" /\ mm'[c] = m
      /\ \A u \in Tasks \ {c} : /\ state'[u] = state[u] /\ mm'[u] = mm[u]
                                /\ u \in vfork' <=> u \in vfork
      /\ mapped'[m] = {0} /\ end_brk'[m] = end
      /\ \A x \in Mms \ {m} : mapped'[x] = mapped[x] /\ end_brk'[x] = end_brk[x]
      /\ pc'[t] = "copy" /\ child'[t] = c
      /\ \A u \in Tasks \ {t} : pc'[u] = pc[u] /\ child'[u] = child[u]
  BY <1>1, <1>2, <1>3, <1>4
<1>8. TypeOK'
  <2>1. /\ state' \in [Tasks -> {"NONE", "NEW", "ALIVE", "ZOMBIE"}] /\ mm' \in [Tasks -> Mms \cup {InitMm}]
        /\ vfork' \subseteq Tasks /\ mms' \subseteq Mms
        /\ pc' \in [Tasks -> TaskPCs] /\ child' \in [Tasks -> Tasks \cup {NULL}]
    BY <1>1, <1>2, <1>3, <1>4 DEF PInv, TypeOK, TaskPCs
  <2>2. mapped' \in [Mms -> SUBSET (0..MaxHeap)] /\ end_brk' \in [Mms -> 0..Beyond]
    BY <1>1, <1>3, <1>4
  <2>3. frames' \in 0..NrFrames
    BY <1>1, <1>4
  <2> QED
    BY <2>1, <2>2, <2>3, <1>1, <1>5 DEF PInv, TypeOK, Beyond
<1>9. Lives'
  BY <1>1, <1>2, <1>7 DEF PInv, Lives
<1>10. \A u \in Tasks : pc[u] = "copy" => u # t /\ child[u] \in Tasks /\ child[u] # c
  BY <1>1, <1>2 DEF PInv, Calls
<1>11. Calls'
  <2>1. \A u \in Tasks : pc'[u] = "copy" => child'[u] \in Tasks /\ state'[child'[u]] = "NEW"
    BY <1>2, <1>7, <1>10 DEF PInv, Calls
  <2>2. \A u, v \in Tasks :
          u # v /\ pc'[u] = "copy" /\ pc'[v] = "copy" => child'[u] # child'[v]
    BY <1>7, <1>10 DEF PInv, Calls
  <2>3. \A u \in Tasks : pc'[u] # "copy" => pc'[u] = pc[u] /\ brk'[u] = brk[u] /\ (u \in vfork => u \in vfork')
    BY <1>1, <1>7
  <2>4. \A u \in Tasks : pc'[u] = "copy" => pc'[u] \notin {"exec_new", "brk_test", "brk_store", "brk_set"}
    OBVIOUS
  <2>5. \A u \in Tasks :
          /\ pc'[u] = "exec_new" => u \in vfork' /\ "exec_preempted" \in hit'
          /\ pc'[u] \in {"brk_test", "brk_store"} => brk'[u].at >= 1
          /\ pc'[u] = "brk_set" => brk'[u].at \in 1..MaxHeap
    BY <1>5, <2>3, <2>4 DEF PInv, Calls
  <2> QED
    BY <2>1, <2>2, <2>5 DEF Calls
<1>12. Heaps' /\ FramesKept'
  <2>1. {0} \in SUBSET (0..MaxHeap) /\ Cardinality({0}) = 1
    BY <1>4, OneFrame
  <2>2. mapped' = [mapped EXCEPT ![m] = @ \cup {0}] /\ frames' = frames + Cardinality({0})
    BY <1>1, <1>3, <1>4, <2>1
  <2>3. \A x \in Mms \ mms' : end_brk'[x] = end_brk[x]
    BY <1>1, <1>7
  <2> QED
    BY <1>1, <1>3, <1>5, <2>1, <2>2, <2>3, FramesGrow
<1>13. ASSUME "left_behind" \notin hit
       PROVE  /\ \A u \in Alive : mm[u] \in Mms => mm[u] \in mms
              /\ \A u \in Tasks : pc[u] = "copy" => mm[child[u]] \in mms
  BY <1>13, Running
<1>14. HeapsBacked'
  <2>1. ASSUME Sound', NEW u \in Alive', mm'[u] \in mms' PROVE HeapOf(u)'
    <3>1. Sound /\ "left_behind" \notin hit /\ "brk_failed" \notin hit
      BY <1>5, <2>1, SureShrinks DEF Sound
    <3>2. u \in Alive /\ u \in Tasks /\ u # c /\ mm'[u] = mm[u]
      BY <1>2, <1>7 DEF Alive
    <3>3. mm[u] \in Mms /\ mm[u] \in mms /\ mm[u] # m
      BY <1>1, <1>3, <1>4, <1>13, <2>1, <3>1, <3>2
    <3>4. HeapOf(u)
      BY <3>1, <3>2, <3>3, HeapsBackedIs DEF PInv, MInv
    <3>5. mapped'[mm[u]] = mapped[mm[u]] /\ end_brk'[mm[u]] = end_brk[mm[u]]
      BY <1>7, <3>3
    <3>6. CASE u # t
      <4>1. pc[u] = "copy" =>
              mm'[child[u]] = mm[child[u]] /\ end_brk'[mm[child[u]]] = end_brk[mm[child[u]]]
        BY <1>3, <1>4, <1>7, <1>10, <1>13, <3>1, <3>2
      <4> QED
        BY <1>1, <1>5, <1>7, <3>2, <3>4, <3>5, <3>6, <4>1, HeapOfKept
    <3>7. CASE u = t
      <4>1. Backed(t, end_brk[mm[t]])'
        BY <1>5, <3>2, <3>4, <3>5, <3>7, SureShrinks DEF HeapOf, Backed
      <4>2. end <= MaxHeap
        BY <1>0, <1>4, <3>1, HeapsBackedIs DEF PInv, MInv
      <4>3. "heap_cut" \notin hit' => end <= 1
        BY <1>4, <1>6, <4>2
      <4>4. end_brk'[mm'[child'[t]]] = end /\ end_brk'[mm'[t]] = end /\ end <= end
        BY <1>0, <1>4, <1>7, <3>2, <3>5, <3>7
      <4> QED
        BY <1>7, <3>7, <4>1, <4>3, <4>4 DEF HeapOf, Growing
    <3> QED
      BY <3>6, <3>7
  <2>2. ASSUME "brk_failed" \notin hit'
        PROVE  (\A x \in Mms : end_brk'[x] <= MaxHeap) /\ (\A u \in Tasks : brk'[u].at <= Beyond')
    <3>1. (\A x \in Mms : end_brk[x] <= MaxHeap) /\ (\A u \in Tasks : brk[u].at <= Beyond)
      BY <1>5, <2>2, HeapsBackedIs DEF PInv, MInv
    <3> QED
      BY <1>0, <1>1, <1>4, <1>7, <3>1 DEF Beyond
  <2> QED
    BY <2>1, <2>2 DEF HeapsBacked, HeapOf
<1>15. OwnMms' /\ Code' /\ MmsKept'
  <2>1. c \in Holders' /\ pc'[c] # "exec_new" /\ 0 \in mapped'[m]
    BY <1>2, <1>7 DEF Holders, Existing
  <2>2. ASSUME Tidy' PROVE Tidy /\ Owns(c)' /\ c \notin Existing
    BY <1>1, <1>2, <1>5, <1>6, <2>2 DEF Tidy, Works, Owns, Existing
  <2> QED
    BY <1>1, <1>2, <1>3, <1>5, <1>7, <2>1, <2>2, NewOwner
<1>16. Places'
  <2>1. \A u \in Tasks : pc'[u] = "brk_set" => u # t /\ u # c
    BY <1>2, <1>7
  <2>2. \A u \in Tasks : mm[u] \in mms => mapped'[mm[u]] = mapped[mm[u]]
    BY <1>3, <1>4, <1>7
  <2> QED
    BY <1>1, <1>5, <1>7, <2>1, <2>2, PlacesKept
<1>17. OwnFiles' /\ FilesKept'
  <2>1. Alive' = Alive /\ (Alive \ vfork)' = Alive \ vfork
    BY <1>2, <1>7 DEF Alive
  <2> QED
    BY <1>1, <1>5, <2>1, TablesKept DEF PInv, Works
<1>18. FaultsByEvent'
  BY <1>1, NoFault
<1> QED
  BY <1>8, <1>9, <1>11, <1>12, <1>14, <1>15, <1>16, <1>17, <1>18 DEF PInv, MInv

\* The child's mm_struct is its own; and so are its files, but for a flag it was given.
LEMMA ChildOwns ==
  ASSUME PInv, Tidy, NEW t \in Tasks, pc[t] = "copy"
  PROVE  child[t] \notin vfork
<1> DEFINE c == child[t]
<1>1. Works /\ "left_behind" \notin hit
  BY DEF Tidy, Borrowing
<1>2. c \in Holders /\ Alone(c) /\ mm[c] \in mms /\ state[c] = "NEW" /\ pc[c] = "user"
  <2>1. c \in Tasks /\ state[c] = "NEW"
    BY DEF PInv, Calls
  <2> QED
    BY <1>1, <2>1, Running DEF PInv, Lives
<1>3. PICK u \in Existing : Owns(u) /\ mm[c] = mm[u]
  BY <1>2 DEF PInv, MInv, MmsKept
<1>4. u \in Holders
  BY <1>3 DEF Holders, Existing, Owns, PInv, Lives
<1>5. u = c
  BY <1>1, <1>2, <1>3, <1>4 DEF PInv, MInv, OwnMms
<1> QED
  BY <1>2, <1>3, <1>5 DEF Owns

LEMMA ForkHeapStep ==
  ASSUME PInv, Works, NEW t \in Tasks, ForkHeap(t)
  PROVE  PInv'
<1>0. PICK c, m, heap, s : c = child[t] /\ m = mm[c] /\ heap = HeapToCopy(t) /\ s = Copies(t)
  OBVIOUS
<1>1. /\ state[t] = "ALIVE" /\ pc[t] = "copy" /\ mm[t] \in mms /\ m \in mms
      /\ heap \subseteq mapped[mm[t]] /\ frames + Cardinality(heap) <= NrFrames
      /\ mapped' = [mapped EXCEPT ![m] = @ \cup heap]
      /\ frames' = frames + Cardinality(heap)
      /\ file_struct' = [file_struct EXCEPT ![c] = s]
      /\ files' = files \cup ({s[fd] : fd \in FDs} \ {NULL})
      /\ opened' = [opened EXCEPT ![c] = opened[t]]
      /\ state' = [state EXCEPT ![c] = "ALIVE"]
      /\ child' = [child EXCEPT ![t] = NULL] /\ pc' = [pc EXCEPT ![t] = "user"]
      /\ UNCHANGED <<vfork, binaries, mm, mms, end_brk, filp, brk, hit, fault>>
  BY <1>0 DEF ForkHeap, In
<1>2. /\ c \in Tasks /\ state[c] = "NEW" /\ c # t /\ pc[c] = "user"
      /\ file_struct[c] = NoFiles
  BY <1>0, <1>1 DEF PInv, Calls, Lives
<1>3. /\ state \in [Tasks -> {"NONE", "NEW", "ALIVE", "ZOMBIE"}] /\ mm \in [Tasks -> Mms \cup {InitMm}]
      /\ file_struct \in [Tasks -> FileTables] /\ opened \in [Tasks -> SUBSET FDs]
      /\ mms \subseteq Mms /\ mapped \in [Mms -> SUBSET (0..MaxHeap)]
      /\ end_brk \in [Mms -> 0..Beyond] /\ frames \in 0..NrFrames
      /\ MaxHeap \in Nat \ {0} /\ NrFrames \in Nat /\ Beyond = MaxHeap + 1
      /\ mm[t] \in Mms /\ m \in Mms
      /\ pc \in [Tasks -> TaskPCs] /\ child \in [Tasks -> Tasks \cup {NULL}]
  BY <1>1, ProcessAssumption DEF PInv, TypeOK, FileTables, Beyond
<1>4. /\ s \in FileTables /\ UsedOf(s) = UsedOf(file_struct[t])
      /\ TableOf(s) \subseteq Files \ files
      /\ files' = files \cup TableOf(s) /\ NoneTwice(s)
  BY <1>0, <1>1, <1>3, CopiesAre, UsedTable DEF ForkHeap
<1>5. heap \in SUBSET (0..MaxHeap) /\ heap \subseteq {1} /\ (end_brk[mm[t]] # 0 => heap = {1})
  BY <1>0, <1>3 DEF HeapToCopy
<1>6. /\ state'[c] = "ALIVE" /\ file_struct'[c] = s /\ opened'[c] = opened[t]
      /\ \A u \in Tasks \ {c} : /\ state'[u] = state[u]
                                /\ file_struct'[u] = file_struct[u] /\ opened'[u] = opened[u]
      /\ mapped'[m] = mapped[m] \cup heap
      /\ \A x \in Mms \ {m} : mapped'[x] = mapped[x]
      /\ pc'[t] = "user" /\ child'[t] = NULL
      /\ \A u \in Tasks \ {t} : pc'[u] = pc[u] /\ child'[u] = child[u]
  BY <1>1, <1>2, <1>3
<1>7. TypeOK'
  <2>1. /\ state' \in [Tasks -> {"NONE", "NEW", "ALIVE", "ZOMBIE"}]
        /\ pc' \in [Tasks -> TaskPCs] /\ child' \in [Tasks -> Tasks \cup {NULL}]
        /\ opened' \in [Tasks -> SUBSET FDs]
    BY <1>1, <1>2, <1>3 DEF TaskPCs
  <2>2. file_struct' \in [Tasks -> FileTables] /\ files' \subseteq Files
    BY <1>1, <1>2, <1>3, <1>4 DEF PInv, TypeOK
  <2>3. mapped' \in [Mms -> SUBSET (0..MaxHeap)]
    BY <1>1, <1>3, <1>5
  <2>4. frames' \in 0..NrFrames
    BY <1>1, <1>3, <1>5, PlacesFinite
  <2> QED
    BY <2>1, <2>2, <2>3, <2>4, <1>1 DEF PInv, TypeOK, FileTables, Beyond
<1>8. Lives'
  BY <1>1, <1>2, <1>4, <1>6 DEF PInv, Lives
<1>9. \A u \in Tasks \ {t} : pc[u] = "copy" => child[u] # c /\ child[u] \in Tasks
  BY <1>0, <1>1 DEF PInv, Calls
<1>10. Calls'
  <2>1. \A u \in Tasks : pc'[u] = "copy" =>
          /\ pc[u] = "copy" /\ child'[u] = child[u] /\ child[u] \in Tasks /\ state'[child[u]] = "NEW"
    BY <1>6, <1>9 DEF PInv, Calls
  <2>2. \A u \in Tasks : pc'[u] # "user" => pc'[u] = pc[u]
    BY <1>6
  <2>3. \A u \in Tasks :
          /\ pc'[u] = "exec_new" => u \in vfork' /\ "exec_preempted" \in hit'
          /\ pc'[u] \in {"brk_test", "brk_store"} => brk'[u].at >= 1
          /\ pc'[u] = "brk_set" => brk'[u].at \in 1..MaxHeap
    BY <1>1, <2>2 DEF PInv, Calls
  <2> QED
    BY <2>1, <2>3 DEF PInv, Calls
<1>11. c \in Holders /\ Holders' = Holders /\ Holders \subseteq Tasks
  BY <1>1, <1>2, <1>6 DEF Holders, Existing
<1>12. ASSUME "left_behind" \notin hit
       PROVE  /\ mapped[m] = {0}
              /\ \A u \in Holders \ {c} : mm[u] # m
              /\ \A u \in Alive : mm[u] \in Mms => u \in Holders
              /\ \A u \in Tasks : pc[u] = "brk_set" => u \in Holders /\ u # c
  <2>1. mapped[m] = {0}
    BY <1>0, <1>2, <1>11, <1>12 DEF PInv, MInv, Code
  <2>2. \A u \in Holders \ {c} : mm[u] # m
    BY <1>0, <1>1, <1>12, Running
  <2> QED
    BY <1>2, <1>12, <2>1, <2>2, Running
<1>13. Heaps' /\ FramesKept'
  <2>1. mms' = mms \cup {m} /\ hit \subseteq hit' /\ \A x \in Mms \ mms' : end_brk'[x] = end_brk[x]
    BY <1>1
  <2>2. hit' \cap {"left_behind", "brk_race"} = {} => heap \cap mapped[m] = {}
    BY <1>1, <1>5, <1>12
  <2> QED
    BY <1>1, <1>3, <1>5, <2>1, <2>2, FramesGrow
<1>14. HeapsBacked'
  <2>1. ASSUME Sound', NEW u \in Alive', mm'[u] \in mms' PROVE HeapOf(u)'
    <3>1. Sound /\ u \in Tasks /\ mm[u] \in Mms /\ hit \subseteq hit'
      BY <1>1, <1>3, <2>1 DEF Sound, Alive
    <3>2. mapped[mm[u]] \subseteq mapped'[mm[u]]
      BY <1>6, <3>1
    <3>3. CASE u # c
      <4>1. HeapOf(u)
        BY <1>1, <1>6, <2>1, <3>1, <3>3, HeapsBackedIs DEF PInv, MInv, Alive
      <4>2. pc'[u] \in Growing \cup {"copy"} => u # t
        BY <1>6 DEF Growing
      <4> QED
        BY <1>1, <1>6, <3>1, <3>2, <4>1, <4>2, HeapOfKept
    <3>4. CASE u = c
      <4>1. HeapOf(t)
        BY <1>1, <3>1, HeapsBackedIs DEF PInv, MInv, Alive
      <4>2. /\ end_brk[m] <= end_brk[mm[t]] /\ ("heap_cut" \notin hit => end_brk[m] <= 1)
            /\ end_brk[m] \in Nat /\ end_brk[mm[t]] \in Nat
        BY <1>0, <1>1, <1>3, <4>1 DEF HeapOf
      <4>3. (1..end_brk[m]) \cap Sure \subseteq heap
        <5>1. CASE end_brk[m] = 0
          BY <5>1
        <5>2. CASE end_brk[m] # 0
          BY <1>5, <4>2, <5>2 DEF Sure
        <5> QED
          BY <5>1, <5>2
      <4>4. Backed(c, end_brk[mm[c]])'
        BY <1>0, <1>1, <1>6, <4>3 DEF Backed, Sure
      <4> QED
        BY <1>2, <1>6, <3>4, <4>4 DEF HeapOf, Growing
    <3> QED
      BY <3>3, <3>4
  <2>2. "brk_failed" \notin hit' =>
          (\A x \in Mms : end_brk'[x] <= MaxHeap) /\ (\A u \in Tasks : brk'[u].at <= Beyond')
    BY <1>1, HeapsBackedIs DEF PInv, MInv, Beyond
  <2> QED
    BY <2>1, <2>2 DEF HeapsBacked, HeapOf
<1>15. OwnMms'
  <2>1. \A u \in Holders \ {c} : Alone(u)' <=> Alone(u)
    BY <1>1, <1>6, <1>11 DEF Alone
  <2>2. SUFFICES ASSUME Works', "left_behind" \notin hit' PROVE
          /\ \A u \in Holders' : mm'[u] \in mms'
          /\ \A u, v \in Holders' :
               u # v /\ mm'[u] = mm'[v] =>
                 (u \in vfork' \/ v \in vfork') /\ ~Alone(u)' /\ ~Alone(v)'
    BY DEF OwnMms
  <2>3. /\ \A u \in Holders : mm[u] \in mms
        /\ \A u, v \in Holders :
             u # v /\ mm[u] = mm[v] => (u \in vfork \/ v \in vfork) /\ ~Alone(u) /\ ~Alone(v)
    BY <1>1, <2>2 DEF PInv, MInv, OwnMms
  <2> HIDE DEF Alone
  <2>4. ASSUME NEW u \in Holders', NEW v \in Holders', u # v, mm'[u] = mm'[v]
        PROVE  (u \in vfork' \/ v \in vfork') /\ ~Alone(u)' /\ ~Alone(v)'
    <3>1. u # c /\ v # c
      BY <1>0, <1>1, <1>11, <1>12, <2>2, <2>4
    <3> QED
      BY <1>1, <1>11, <2>1, <2>3, <2>4, <3>1
  <2> QED
    BY <1>1, <1>11, <2>3, <2>4
<1>16. MmsKept'
  <2>1. Existing' = Existing /\ Existing \subseteq Tasks
    BY <1>2, <1>6 DEF Existing
  <2>2. (Tidy' => Tidy) /\ \A u \in Existing : Owns(u)' <=> Owns(u)
    BY <1>1, <1>6, <2>1 DEF Tidy, Works, Owns
  <2> QED
    BY <1>1, <2>1, <2>2 DEF PInv, MInv, MmsKept
<1>17. Code'
  <2>1. CASE 0 \in mapped[m]
    <3>1. /\ c \in Holders /\ pc'[c] # "exec_new" /\ state'[c] # "NEW" /\ 0 \in mapped'[mm[c]]
          /\ mapped[mm[c]] \subseteq mapped'[mm[c]]
          /\ \A x \in Mms : x # mm[c] => mapped'[x] = mapped[x]
      BY <1>0, <1>2, <1>6, <1>11, <2>1
    <3>2. \A u \in Holders \ {c} : state'[u] = state[u] /\ (pc'[u] = "exec_new" <=> pc[u] = "exec_new")
      BY <1>1, <1>6, <1>11
    <3> QED
      BY <1>1, <1>11, <3>1, <3>2, CodeKept
  <2>2. CASE 0 \notin mapped[m]
    BY <1>1, <1>12, <2>2 DEF Code
  <2> QED
    BY <2>1, <2>2
<1>18. Places'
  <2>1. \A u \in Tasks : pc'[u] = "brk_set" => pc[u] = "brk_set"
    BY <1>6
  <2>2. \A u \in Tasks : "left_behind" \notin hit' /\ pc'[u] = "brk_set" /\ mm[u] \in mms =>
          mapped'[mm[u]] = mapped[mm[u]]
    BY <1>1, <1>3, <1>6, <1>12, <2>1
  <2> QED
    BY <1>1, <2>1, <2>2, PlacesKept
<1>19. Alive' = Alive \cup {c} /\ Alive \subseteq Tasks \ {c} /\ t \in Alive
  BY <1>1, <1>2, <1>6 DEF Alive
<1>20. (Calm' => Calm) /\ (Tidy' => Tidy /\ c \notin vfork')
  BY <1>0, <1>1, ChildOwns DEF Calm, Tidy, Works
<1>21. OwnFiles'
  <2> SUFFICES ASSUME Calm' PROVE
        /\ \A u \in Alive' : TableOf(file_struct'[u]) \subseteq files' /\ NoneTwice(file_struct'[u])
        /\ \A u, v \in Alive' \ vfork' :
             u # v => TableOf(file_struct'[u]) \cap TableOf(file_struct'[v]) = {}
    BY DEF OwnFiles
  <2>2. /\ \A u \in Alive : TableOf(file_struct[u]) \subseteq files /\ NoneTwice(file_struct[u])
        /\ \A u, v \in Alive \ vfork :
             u # v => TableOf(file_struct[u]) \cap TableOf(file_struct[v]) = {}
    BY <1>20 DEF PInv, OwnFiles
  <2>3. \A u \in Alive' : TableOf(file_struct'[u]) \subseteq files' /\ NoneTwice(file_struct'[u])
    BY <1>4, <1>6, <1>19, <2>2
  <2>4. \A u \in Alive : TableOf(s) \cap TableOf(file_struct[u]) = {}
    BY <1>4, <2>2
  <2>5. ASSUME NEW u \in Alive' \ vfork', NEW v \in Alive' \ vfork', u # v
        PROVE  TableOf(file_struct'[u]) \cap TableOf(file_struct'[v]) = {}
    <3>1. CASE u = c
      BY <1>6, <1>19, <2>4, <2>5, <3>1
    <3>2. CASE v = c
      BY <1>6, <1>19, <2>4, <2>5, <3>2
    <3>3. CASE u # c /\ v # c
      BY <1>1, <1>6, <1>19, <2>2, <2>5, <3>3
    <3> QED
      BY <3>1, <3>2, <3>3
  <2> QED
    BY <2>3, <2>5
<1>22. FilesKept'
  <2> SUFFICES ASSUME Tidy', NEW g \in files' PROVE
        \E u \in Alive' \ vfork' : g \in TableOf(file_struct'[u])
    BY DEF FilesKept
  <2>1. CASE g \in files
    <3>1. PICK u \in Alive \ vfork : g \in TableOf(file_struct[u])
      BY <1>20, <2>1 DEF PInv, FilesKept
    <3> QED
      BY <1>1, <3>1, <1>6, <1>19
  <2>2. CASE g \in TableOf(s)
    BY <2>2, <1>6, <1>19, <1>20
  <2> QED
    BY <1>4, <2>1, <2>2
<1>23. FaultsByEvent'
  BY <1>1, NoFault
<1> QED
  BY <1>7, <1>8, <1>10, <1>13, <1>14, <1>15, <1>16, <1>17, <1>18, <1>21, <1>22, <1>23 DEF PInv, MInv
-----------------------------------------------------------------------------
(* do_execve *)

\* A vforked task has an mm_struct of its own, with its tables or before it has them.
LEMMA NewMmStep ==
  ASSUME PInv, Works, NEW t \in Tasks, state[t] = "ALIVE", pc[t] \in {"user", "init"}, t \in vfork,
         NEW m \in Mms \ mms, mapped[m] = {}, end_brk[m] = 0,
         NEW p, NEW G \in SUBSET (0..MaxHeap), hit \subseteq hit', hit' \subseteq Events,
         hit' \ hit \subseteq {"exec_preempted"},
         \/ p = "exec" /\ G = {0}
         \/ p = "exec_new" /\ G = {} /\ "exec_preempted" \in hit',
         pc' = [pc EXCEPT ![t] = p], mms' = mms \cup {m}, mm' = [mm EXCEPT ![t] = m],
         mapped' = [mapped EXCEPT ![m] = @ \cup G], frames' = frames + Cardinality(G),
         frames' \in 0..NrFrames,
         UNCHANGED <<state, vfork, file_struct, files, opened, binaries>>,
         UNCHANGED <<end_brk, filp, child, brk, fault>>
  PROVE  PInv'
<1>1. /\ mms \subseteq Mms /\ mm \in [Tasks -> Mms \cup {InitMm}]
      /\ mapped \in [Mms -> SUBSET (0..MaxHeap)] /\ pc \in [Tasks -> TaskPCs]
  BY DEF PInv, TypeOK
<1>2. /\ pc'[t] = p /\ \A u \in Tasks \ {t} : pc'[u] = pc[u]
      /\ mm'[t] = m /\ \A u \in Tasks \ {t} : mm'[u] = mm[u]
      /\ mapped'[m] = G /\ \A x \in Mms \ {m} : mapped'[x] = mapped[x]
  BY <1>1
<1>3. TypeOK'
  <2>1. mm' \in [Tasks -> Mms \cup {InitMm}] /\ mms' \subseteq Mms
    BY <1>1
  <2>2. mapped' \in [Mms -> SUBSET (0..MaxHeap)]
    BY <1>1
  <2>3. pc' \in [Tasks -> TaskPCs]
    BY <1>1 DEF TaskPCs
  <2> QED
    BY <2>1, <2>2, <2>3 DEF PInv, TypeOK
<1>4. Lives'
  BY <1>2 DEF PInv, Lives
<1>5. Calls'
  <2>1. \A u \in Tasks : pc'[u] \notin {"exec", "exec_new"} => pc'[u] = pc[u]
    BY <1>2
  <2>2. \A u \in Tasks : pc'[u] = "exec_new" => u \in vfork /\ "exec_preempted" \in hit'
    BY <1>2 DEF PInv, Calls
  <2> QED
    BY <2>1, <2>2 DEF PInv, Calls
<1>6. Heaps' /\ FramesKept'
  BY FramesGrow
<1>7. ASSUME "left_behind" \notin hit
      PROVE  \A u \in Alive : mm[u] \in Mms => mm[u] \in mms
  BY <1>7, Running
<1>8. HeapsBacked'
  <2>1. ASSUME Sound', NEW u \in Alive', mm'[u] \in mms' PROVE HeapOf(u)'
    <3>1. u \in Alive /\ u \in Tasks /\ Sound /\ "left_behind" \notin hit
      BY <2>1, SureShrinks DEF Alive, Sound
    <3>2. CASE u = t
      <4>1. end_brk'[mm'[t]] = 0
        BY <1>2
      <4> QED
        BY <1>2, <3>2, <4>1 DEF HeapOf, Backed, Growing
    <3>3. CASE u # t
      <4>1. mm[u] \in mms /\ mm[u] # m /\ mm'[u] = mm[u] /\ mm[u] \in Mms
        BY <1>1, <1>2, <1>7, <2>1, <3>1, <3>3
      <4>2. HeapOf(u)
        BY <3>1, <4>1, HeapsBackedIs DEF PInv, MInv
      <4>3. pc[u] = "copy" => mm'[child[u]] = mm[child[u]]
        BY <1>2, <3>1 DEF PInv, Calls
      <4> QED
        BY <1>2, <3>1, <3>3, <4>1, <4>2, <4>3, HeapOfKept
    <3> QED
      BY <3>2, <3>3
  <2>2. "brk_failed" \notin hit' =>
          (\A x \in Mms : end_brk'[x] <= MaxHeap) /\ (\A u \in Tasks : brk'[u].at <= Beyond')
    BY HeapsBackedIs DEF PInv, MInv, Beyond
  <2> QED
    BY <2>1, <2>2 DEF HeapsBacked, HeapOf
<1>9. OwnMms' /\ Code' /\ MmsKept'
  <2>1. t \in Holders'
    BY <1>2 DEF Holders, Existing
  <2>2. ASSUME Tidy' PROVE Tidy /\ Owns(t)' /\ ~Owns(t)
    BY <1>2, <2>2 DEF Tidy, Works, Owns
  <2>3. /\ pc'[t] = "exec_new" => mapped'[m] = {}
        /\ pc'[t] # "exec_new" => 0 \in mapped'[m]
        /\ state'[t] # "NEW"
    BY <1>2
  <2> QED
    BY <1>2, <2>1, <2>2, <2>3, NewOwner
<1>10. Places'
  <2>1. \A u \in Tasks : pc'[u] = "brk_set" => u # t
    BY <1>2
  <2>2. \A u \in Tasks : mm[u] \in mms => mapped'[mm[u]] = mapped[mm[u]]
    BY <1>1, <1>2
  <2> QED
    BY <1>2, <2>1, <2>2, PlacesKept
<1>11. OwnFiles' /\ FilesKept'
  BY TablesKept DEF PInv, Works, Alive
<1>12. FaultsByEvent'
  BY NoFault
<1> QED
  BY <1>3, <1>4, <1>5, <1>6, <1>8, <1>9, <1>10, <1>11, <1>12 DEF PInv, MInv

LEMMA ExecMapStep ==
  ASSUME PInv, Works, NEW t \in Tasks, ExecMap(t)
  PROVE  PInv'
<1>1. /\ state[t] = "ALIVE" /\ pc[t] \in {"user", "init"}
      /\ pc[t] = "init" => t \in vfork
      /\ pc' = [pc EXCEPT ![t] = "exec"]
      /\ UNCHANGED <<state, vfork, file_struct, files, opened, binaries, hit, fault>>
      /\ UNCHANGED <<filp, child, brk>>
  BY DEF ExecMap, Ready, In, tables, locals, PInv, Lives
<1>2. frames \in 0..NrFrames /\ NrFrames \in Nat /\ MaxHeap \in Nat /\ mapped \in [Mms -> SUBSET (0..MaxHeap)]
  BY ProcessAssumption DEF PInv, TypeOK
<1>3. CASE t \notin vfork /\ UNCHANGED spaces
  <2>1. UNCHANGED <<mm, mms, mapped, end_brk, frames>> /\ t \notin vfork /\ pc[t] = "user"
    BY <1>1, <1>3 DEF spaces
  <2>2. TypeOK'
    BY <1>1, <2>1 DEF PInv, TypeOK, TaskPCs
  <2>3. Lives'
    BY <1>1, <2>1 DEF PInv, TypeOK, Lives
  <2>4. Calls' /\ Heaps' /\ MInv'
    BY <1>1, <2>1, SpacesKept DEF PInv, TypeOK
  <2>5. OwnFiles' /\ FilesKept'
    BY <1>1, TablesKept DEF PInv, Works, Alive
  <2>6. FaultsByEvent'
    BY <1>1, NoFault
  <2> QED
    BY <2>2, <2>3, <2>4, <2>5, <2>6 DEF PInv
<1>4. CASE t \in vfork /\ Mms # mms
  <2>1. PICK m, p, G : m = First(Mms \ mms) /\ p = "exec" /\ G = {0}
    OBVIOUS
  <2>2. /\ mms' = mms \cup {m} /\ mm' = [mm EXCEPT ![t] = m] /\ mapped' = [mapped EXCEPT ![m] = {0}]
        /\ frames' = frames + 1 /\ frames < NrFrames /\ end_brk' = end_brk
    BY <1>4, <2>1 DEF ExecMap
  <2>3. m \in Mms \ mms /\ mapped[m] = {} /\ end_brk[m] = 0
    BY <1>4, <2>1, MmIsNew
  <2>4. G \in SUBSET (0..MaxHeap) /\ Cardinality(G) = 1
    BY <1>2, <2>1, OneFrame
  <2>5. /\ mapped' = [mapped EXCEPT ![m] = @ \cup G] /\ frames' = frames + Cardinality(G)
        /\ frames' \in 0..NrFrames /\ pc' = [pc EXCEPT ![t] = p]
    BY <1>1, <1>2, <2>1, <2>2, <2>3, <2>4
  <2>6. hit \subseteq hit' /\ hit' \subseteq Events /\ hit' \ hit \subseteq {"exec_preempted"}
    BY <1>1 DEF PInv, TypeOK
  <2>7. /\ (p = "exec" /\ G = {0}) \/ (p = "exec_new" /\ G = {} /\ "exec_preempted" \in hit')
        /\ UNCHANGED <<state, vfork, file_struct, files, opened, binaries>>
        /\ UNCHANGED <<end_brk, filp, child, brk, fault>>
        /\ mms' = mms \cup {m} /\ mm' = [mm EXCEPT ![t] = m]
    BY <1>1, <2>1, <2>2
  <2> QED
    BY <1>1, <1>4, <2>3, <2>4, <2>5, <2>6, <2>7, NewMmStep
<1> QED
  BY <1>3, <1>4 DEF ExecMap

LEMMA ExecPreemptedStep ==
  ASSUME PInv, Works, NEW t \in Tasks, ExecPreempted(t)
  PROVE  PInv'
<1>1. PICK m, p, G : m = First(Mms \ mms) /\ p = "exec_new" /\ G = {}
  OBVIOUS
<1>2. /\ state[t] = "ALIVE" /\ pc[t] \in {"user", "init"} /\ t \in vfork /\ Mms # mms
      /\ pc' = [pc EXCEPT ![t] = p] /\ mms' = mms \cup {m} /\ mm' = [mm EXCEPT ![t] = m]
      /\ Hit({"exec_preempted"})
      /\ UNCHANGED <<state, vfork, file_struct, files, opened, binaries>>
      /\ UNCHANGED <<mapped, end_brk, frames, filp, child, brk, fault>>
  BY <1>1 DEF ExecPreempted, Ready, In, tables, locals, PInv, Lives
<1>3. m \in Mms \ mms /\ mapped[m] = {} /\ end_brk[m] = 0
  BY <1>1, <1>2, MmIsNew
<1>4. frames \in 0..NrFrames /\ NrFrames \in Nat /\ mapped \in [Mms -> SUBSET (0..MaxHeap)]
  BY ProcessAssumption DEF PInv, TypeOK
<1>5. G \in SUBSET (0..MaxHeap) /\ Cardinality(G) = 0
  BY <1>1, FS_EmptySet
<1>6. /\ mapped' = [mapped EXCEPT ![m] = @ \cup G] /\ frames' = frames + Cardinality(G)
      /\ frames' \in 0..NrFrames
  <2>1. mapped[m] \cup G = mapped[m]
    BY <1>1
  <2>2. mapped' = [mapped EXCEPT ![m] = @ \cup G]
    BY <1>2, <1>3, <1>4, <2>1, Zenon
  <2>3. frames' = frames + Cardinality(G) /\ frames' \in 0..NrFrames
    BY <1>2, <1>4, <1>5
  <2> QED
    BY <2>2, <2>3
<1>7. /\ hit \subseteq hit' /\ hit' \subseteq Events /\ hit' \ hit \subseteq {"exec_preempted"}
      /\ "exec_preempted" \in hit'
  BY <1>2, HitGrows DEF PInv, Events
<1> QED
  BY <1>1, <1>2, <1>3, <1>5, <1>6, <1>7, NewMmStep

LEMMA ExecResumedStep ==
  ASSUME PInv, Works, NEW t \in Tasks, ExecResumed(t)
  PROVE  PInv'
<1>1. state[t] = "ALIVE" /\ pc[t] = "exec_new" /\ mm[t] \in mms
  BY DEF ExecResumed, In
<1>2. CASE Fail("bad_cr3", {})
  BY <1>1, <1>2, ExecResumedFails
<1>3. CASE /\ frames < NrFrames /\ pc' = [pc EXCEPT ![t] = "exec"]
           /\ mapped' = [mapped EXCEPT ![mm[t]] = @ \cup {0}] /\ frames' = frames + 1
           /\ UNCHANGED <<state, vfork, tables, mm, mms, end_brk, locals, hit, fault>>
  <2>0. PICK m : m = mm[t]
    OBVIOUS
  <2>1. /\ UNCHANGED <<state, vfork, file_struct, files, opened, binaries>>
        /\ UNCHANGED <<mm, mms, end_brk, filp, child, brk, hit, fault>>
        /\ mapped' = [mapped EXCEPT ![m] = @ \cup {0}]
    BY <1>3, <2>0 DEF tables, locals
  <2>2. /\ m \in Mms /\ m \in mms /\ mms \subseteq Mms /\ mapped \in [Mms -> SUBSET (0..MaxHeap)]
        /\ pc \in [Tasks -> TaskPCs] /\ frames \in 0..NrFrames /\ NrFrames \in Nat /\ MaxHeap \in Nat
    BY <1>1, <2>0, ProcessAssumption DEF PInv, TypeOK
  <2>3. /\ pc'[t] = "exec" /\ \A u \in Tasks \ {t} : pc'[u] = pc[u]
        /\ mapped'[m] = mapped[m] \cup {0} /\ \A x \in Mms \ {m} : mapped'[x] = mapped[x]
    BY <1>3, <2>1, <2>2
  <2>4. TypeOK'
    <3>1. pc' \in [Tasks -> TaskPCs] /\ frames' \in 0..NrFrames
      BY <1>3, <2>2 DEF TaskPCs
    <3>2. mapped' \in [Mms -> SUBSET (0..MaxHeap)]
      BY <2>1, <2>2
    <3> QED
      BY <2>1, <3>1, <3>2 DEF PInv, TypeOK
  <2>5. Lives'
    BY <1>1, <2>1, <2>3 DEF PInv, Lives
  <2>6. Calls'
    <3>1. \A u \in Tasks : pc'[u] \in Growing \cup {"copy", "exec_new"} => pc'[u] = pc[u]
      BY <2>3 DEF Growing
    <3> QED
      BY <2>1, <3>1, CallsKept DEF PInv
  <2>7. Holders' = Holders /\ t \in Holders /\ Holders \subseteq Tasks
    BY <1>1, <2>1, <2>3 DEF Holders, Existing
  <2>8. Heaps' /\ FramesKept'
    <3>1. {0} \in SUBSET (0..MaxHeap) /\ Cardinality({0}) = 1
      BY <2>2, OneFrame
    <3>2. hit' \cap {"left_behind", "brk_race"} = {} => {0} \cap mapped[m] = {}
      BY <1>1, <2>0, <2>1, <2>7 DEF PInv, MInv, Code
    <3>3. mms' = mms \cup {m} /\ frames' = frames + Cardinality({0}) /\ hit \subseteq hit'
          /\ \A x \in Mms \ mms' : end_brk'[x] = end_brk[x]
      BY <1>3, <2>1, <2>2, <3>1
    <3> QED
      BY <2>1, <2>2, <3>1, <3>2, <3>3, FramesGrow
  <2>9. HeapsBacked'
    <3>1. ASSUME Sound', NEW u \in Alive', mm'[u] \in mms' PROVE HeapOf(u)'
      <4>1. u \in Tasks /\ HeapOf(u) /\ mm[u] \in Mms /\ hit \subseteq hit'
        BY <2>1, <2>2, <3>1, SureShrinks, HeapsBackedIs DEF PInv, MInv, Alive
      <4>2. mapped[mm[u]] \subseteq mapped'[mm[u]]
        BY <2>3, <4>1
      <4>3. pc'[u] \in Growing \cup {"copy"} => u # t
        BY <2>3 DEF Growing
      <4> QED
        BY <2>1, <2>3, <4>1, <4>2, <4>3, HeapOfKept
    <3>2. "brk_failed" \notin hit' =>
            (\A x \in Mms : end_brk'[x] <= MaxHeap) /\ (\A u \in Tasks : brk'[u].at <= Beyond')
      BY <2>1, HeapsBackedIs DEF PInv, MInv, Beyond
    <3> QED
      BY <3>1, <3>2 DEF HeapsBacked, HeapOf
  <2>10. OwnMms' /\ MmsKept'
    BY <1>1, <2>1, <2>3, OwnersKept DEF PInv, MInv, Works
  <2>11. Code'
    <3>1. /\ pc'[t] # "exec_new" /\ state'[t] # "NEW" /\ 0 \in mapped'[mm[t]]
          /\ mapped[mm[t]] \subseteq mapped'[mm[t]]
          /\ \A x \in Mms : x # mm[t] => mapped'[x] = mapped[x]
      BY <1>1, <2>0, <2>1, <2>3
    <3>2. \A u \in Holders \ {t} : state'[u] = state[u] /\ (pc'[u] = "exec_new" <=> pc[u] = "exec_new")
      BY <2>1, <2>3, <2>7
    <3> QED
      BY <2>1, <2>7, <3>1, <3>2, CodeKept
  <2>12. Places'
    <3>1. \A u \in Tasks : pc'[u] = "brk_set" => pc[u] = "brk_set"
      BY <2>3
    <3>2. \A u \in Tasks : pc'[u] = "brk_set" /\ mm[u] \in mms /\ brk[u].at \in mapped'[mm[u]] =>
            brk[u].at \in mapped[mm[u]]
      <4>1. \A u \in Tasks : pc'[u] = "brk_set" => brk[u].at # 0
        BY <2>2, <3>1 DEF PInv, Calls
      <4> QED
        BY <2>2, <2>3, <4>1
    <3> QED
      BY <2>1, <3>1, <3>2, PlacesKept
  <2>13. OwnFiles' /\ FilesKept'
    BY <2>1, TablesKept DEF PInv, Works, Alive
  <2>14. FaultsByEvent'
    BY <2>1, NoFault
  <2> QED
    BY <2>4, <2>5, <2>6, <2>8, <2>9, <2>10, <2>11, <2>12, <2>13, <2>14 DEF PInv, MInv
<1> QED
  BY <1>2, <1>3 DEF ExecResumed

\* Who frees its struct files, with a flag or without, takes none of another's, unless
\* it shares them, and leaves none that only it had.
LEMMA FreedOwn ==
  ASSUME PInv, NEW t \in Tasks, state[t] = "ALIVE",
         t \notin vfork => ~Shared(t), Calm
  PROVE  \A u \in Alive \ {t} : TableOf(file_struct[u]) \subseteq files \ Freed(t)
<1>1. SUFFICES ASSUME NEW u \in Alive \ {t}, NEW f \in TableOf(file_struct[u])
               PROVE  f \in files /\ f \notin Freed(t)
  OBVIOUS
<1>2. f \in files
  BY <1>1 DEF PInv, OwnFiles
<1>3. CASE t \in vfork
  BY <1>2, <1>3 DEF Freed
<1>4. CASE t \notin vfork
  <2>1. Table(u) \cap Table(t) = {}
    BY <1>4 DEF Shared
  <2> QED
    BY <1>2, <2>1, UsedTable DEF Freed
<1> QED
  BY <1>3, <1>4

LEMMA ExecLoadStep ==
  ASSUME PInv, Works, NEW t \in Tasks, ExecLoad(t)
  PROVE  PInv'
<1> DEFINE m == mm[t]
           more == When(t \notin vfork /\ Shared(t), "exec_shared") \cup Lowered(t, 0)
<1>1. /\ state[t] = "ALIVE" /\ pc[t] = "exec" /\ m \in mms /\ binaries < MaxExecs
      /\ pc' = [pc EXCEPT ![t] = "user"] /\ files' = files \ Freed(t)
      /\ binaries' = binaries + 1
      /\ file_struct' = [file_struct EXCEPT ![t] = NoFiles]
      /\ opened' = [opened EXCEPT ![t] = {}]
      /\ end_brk' = [end_brk EXCEPT ![m] = 0]
      /\ vfork' = vfork \ {t}
      /\ Hit(more)
      /\ UNCHANGED <<state, mm, mms, mapped, frames, filp, child, brk, fault>>
  BY DEF ExecLoad, FlagCleared, In, locals
<1>2. hit' = hit \cup more /\ hit \subseteq hit' /\ hit' \subseteq Events
  BY <1>1, HitGrows DEF When, Lowered, Events, PInv
<1>3. /\ "exec_shared" \notin hit' => t \in vfork \/ ~Shared(t)
      /\ Lowered(t, 0) \subseteq hit'
  BY <1>2 DEF When
<1> HIDE DEF more
<1>4. /\ file_struct \in [Tasks -> FileTables] /\ opened \in [Tasks -> SUBSET FDs]
      /\ pc \in [Tasks -> TaskPCs]
      /\ end_brk \in [Mms -> 0..Beyond] /\ mms \subseteq Mms /\ m \in Mms
      /\ binaries \in 0..MaxExecs /\ MaxExecs \in Nat /\ MaxHeap \in Nat
  BY <1>1, ProcessAssumption DEF PInv, TypeOK, FileTables
<1>5. /\ pc'[t] = "user" /\ file_struct'[t] = NoFiles /\ opened'[t] = {}
      /\ \A u \in Tasks \ {t} : /\ pc'[u] = pc[u] /\ file_struct'[u] = file_struct[u]
                                /\ opened'[u] = opened[u] /\ (u \in vfork' <=> u \in vfork)
  BY <1>1, <1>4
<1>6. TypeOK'
  <2>1. file_struct' \in [Tasks -> FileTables]
    BY <1>1, <1>4, EmptyTable
  <2>2. binaries' \in 0..MaxExecs /\ end_brk' \in [Mms -> 0..Beyond]
    BY <1>1, <1>4 DEF Beyond
  <2>3. pc' \in [Tasks -> TaskPCs]
    BY <1>1, <1>4 DEF TaskPCs
  <2>4. opened' \in [Tasks -> SUBSET FDs]
    BY <1>1, <1>4
  <2> QED
    BY <1>1, <1>2, <2>1, <2>2, <2>3, <2>4 DEF PInv, TypeOK, FileTables, Beyond
<1>7. Lives'
  <2>1. /\ state' = state /\ mm' = mm /\ filp' = filp /\ Lives
    BY <1>1 DEF PInv
  <2>2. /\ state'[t] = "ALIVE" /\ opened'[t] = UsedOf(file_struct'[t])
        /\ pc'[t] \notin {"init", "read"}
    BY <1>1, <1>5, <2>1, EmptyTable
  <2> QED
    BY <1>5, <2>1, <2>2 DEF Lives
<1>8. Calls'
  <2>1. \A u \in Tasks : pc'[u] \in Growing \cup {"copy", "exec_new"} => u # t
    BY <1>5 DEF Growing
  <2> QED
    BY <1>1, <1>2, <1>5, <2>1, CallsKept DEF PInv
<1>9. Heaps' /\ FramesKept'
  <2>1. MappedFrames' = MappedFrames
    BY <1>1 DEF MappedFrames
  <2>2. \A x \in Mms \ mms : end_brk'[x] = end_brk[x]
    BY <1>1, <1>4
  <2> QED
    BY <1>1, <1>2, <2>1, <2>2 DEF PInv, MInv, Heaps, FramesKept
<1>10. HeapsBacked'
  <2>1. PICK end : end = 0
    OBVIOUS
  <2>2. /\ end \in 0..Beyond /\ end <= MaxHeap /\ Backed(t, end)
    BY <1>4, <2>1 DEF Beyond, Backed
  <2>3. /\ t \in Alive /\ end_brk' = [end_brk EXCEPT ![mm[t]] = end] /\ Lowered(t, end) \subseteq hit'
        /\ pc[t] # "copy" /\ pc'[t] # "copy" /\ pc'[t] \notin Growing
        /\ \A u \in Tasks \ {t} : pc'[u] = pc[u] /\ brk'[u] = brk[u]
    BY <1>1, <1>3, <1>5, <2>1 DEF Alive, Growing
  <2> QED
    BY <1>1, <1>2, <2>2, <2>3, EndSet
<1>11. Holders' = Holders /\ t \in Holders /\ Holders \subseteq Tasks
  BY <1>1, <1>5 DEF Holders, Existing
<1>12. OwnMms'
  <2>2. ~Alone(t)' /\ \A u \in Holders \ {t} : Alone(u)' <=> Alone(u)
    BY <1>1, <1>5, <1>11 DEF Alone
  <2>3. t \in vfork => Alone(t)
    BY <1>1 DEF Alone
  <2>4. SUFFICES ASSUME Works', "left_behind" \notin hit' PROVE
          /\ \A u \in Holders' : mm'[u] \in mms'
          /\ \A u, v \in Holders' :
               u # v /\ mm'[u] = mm'[v] =>
                 (u \in vfork' \/ v \in vfork') /\ ~Alone(u)' /\ ~Alone(v)'
    BY DEF OwnMms
  <2>5. /\ \A u \in Holders : mm[u] \in mms
        /\ \A u, v \in Holders :
             u # v /\ mm[u] = mm[v] => (u \in vfork \/ v \in vfork) /\ ~Alone(u) /\ ~Alone(v)
    BY <1>1, <1>2, <2>4 DEF PInv, MInv, OwnMms, Works
  <2> HIDE DEF Alone
  <2>6. ASSUME NEW u \in Holders, NEW v \in Holders, u # v, mm[u] = mm[v]
        PROVE  (u \in vfork' \/ v \in vfork') /\ ~Alone(u)' /\ ~Alone(v)'
    <3>1. (u \in vfork \/ v \in vfork) /\ ~Alone(u) /\ ~Alone(v)
      BY <2>5, <2>6
    <3>2. (u \in vfork /\ u # t) \/ (v \in vfork /\ v # t)
      BY <2>3, <3>1
    <3> QED
      BY <1>5, <1>11, <2>2, <3>1, <3>2
  <2> QED
    BY <1>1, <1>11, <2>5, <2>6
<1>13. Code'
  BY <1>1, <1>2, <1>5, <1>11 DEF PInv, MInv, Code
<1>14. Places'
  <2>1. \A u \in Tasks : pc'[u] = "brk_set" => u # t
    BY <1>5
  <2> QED
    BY <1>1, <1>2, <1>5, <2>1, PlacesKept
<1>15. Alive' = Alive /\ t \in Alive /\ Alive \subseteq Tasks
  BY <1>1 DEF Alive
<1>16. OwnFiles'
  <2> SUFFICES ASSUME Calm' PROVE
        /\ \A u \in Alive' : TableOf(file_struct'[u]) \subseteq files' /\ NoneTwice(file_struct'[u])
        /\ \A u, v \in Alive' \ vfork' :
             u # v => TableOf(file_struct'[u]) \cap TableOf(file_struct'[v]) = {}
    BY DEF OwnFiles
  <2>1. Calm /\ (t \notin vfork => ~Shared(t))
    BY <1>1, <1>2, <1>3 DEF Calm, Works, Borrowing
  <2>2. /\ \A u \in Alive : TableOf(file_struct[u]) \subseteq files /\ NoneTwice(file_struct[u])
        /\ \A u, v \in Alive \ vfork :
             u # v => TableOf(file_struct[u]) \cap TableOf(file_struct[v]) = {}
    BY <2>1 DEF PInv, OwnFiles
  <2>3. \A u \in Alive \ {t} : TableOf(file_struct[u]) \subseteq files'
    BY <1>1, <2>1, FreedOwn
  <2>4. TableOf(file_struct'[t]) = {} /\ NoneTwice(file_struct'[t])
    BY <1>5, EmptyTable DEF NoneTwice
  <2> QED
    BY <1>5, <1>15, <2>2, <2>3, <2>4
<1>17. FilesKept'
  <2> SUFFICES ASSUME Tidy', NEW g \in files' PROVE
        \E u \in Alive' \ vfork' : g \in TableOf(file_struct'[u])
    BY DEF FilesKept
  <2>1. PICK u \in Alive \ vfork : g \in TableOf(file_struct[u])
    BY <1>1, <1>2 DEF PInv, FilesKept, Tidy, Works
  <2>2. u # t
    BY <1>1, <2>1, UsedTable DEF Freed
  <2> QED
    BY <1>5, <1>15, <2>1, <2>2
<1>18. MmsKept'
  <2> SUFFICES ASSUME Tidy', NEW x \in mms' PROVE \E u \in Existing' : Owns(u)' /\ x = mm'[u]
    BY DEF MmsKept
  <2>1. PICK u \in Existing : Owns(u) /\ x = mm[u]
    BY <1>1, <1>2 DEF PInv, MInv, MmsKept, Tidy, Works
  <2>2. Existing' = Existing /\ Existing \subseteq Tasks
    BY <1>1 DEF Existing
  <2>3. Owns(u)'
    BY <1>1, <1>5, <2>1, <2>2 DEF Owns
  <2> QED
    BY <1>1, <2>1, <2>2, <2>3
<1>19. FaultsByEvent'
  BY <1>1, NoFault
<1> QED
  BY <1>6, <1>7, <1>8, <1>9, <1>10, <1>12, <1>13, <1>14, <1>16, <1>17, <1>18, <1>19 DEF PInv, MInv
-----------------------------------------------------------------------------
(* do_exit and sys_wait4 *)

LEMMA ExitStep ==
  ASSUME PInv, Works, NEW t \in Tasks, Exit(t)
  PROVE  PInv'
<1> DEFINE more == When(t \notin vfork /\ Shared(t), "left_behind")
<1>1. CASE ~FreedTwice(t)
  <2>1. /\ state[t] = "ALIVE" /\ pc[t] = "user"
        /\ state' = [state EXCEPT ![t] = "ZOMBIE"]
        /\ files' = files \ Freed(t)
        /\ file_struct' = [file_struct EXCEPT ![t] = NoFiles]
        /\ opened' = [opened EXCEPT ![t] = {}]
        /\ Hit(more)
        /\ UNCHANGED <<vfork, mm, mms, mapped, end_brk, frames, pc, filp, child, brk, binaries, fault>>
    BY <1>1 DEF Exit, Ready, In, spaces, locals
  <2>2. hit' = hit \cup more /\ hit \subseteq hit' /\ hit' \subseteq Events
    BY <2>1, HitGrows DEF When, Events, PInv
  <2>3. "left_behind" \notin hit' => t \in vfork \/ ~Shared(t)
    BY <2>2 DEF When
  <2> HIDE DEF more
  <2>4. /\ state \in [Tasks -> {"NONE", "NEW", "ALIVE", "ZOMBIE"}]
        /\ file_struct \in [Tasks -> FileTables] /\ opened \in [Tasks -> SUBSET FDs]
    BY DEF PInv, TypeOK, FileTables
  <2>5. /\ state'[t] = "ZOMBIE" /\ file_struct'[t] = NoFiles /\ opened'[t] = {}
        /\ \A u \in Tasks \ {t} : /\ state'[u] = state[u] /\ opened'[u] = opened[u]
                                  /\ file_struct'[u] = file_struct[u]
    BY <2>1, <2>4
  <2>6. TypeOK'
    <3>1. file_struct' \in [Tasks -> FileTables]
      BY <2>1, <2>4, EmptyTable
    <3> QED
      BY <2>1, <2>2, <3>1 DEF PInv, TypeOK, FileTables
  <2>7. Lives'
    <3>1. pc'[t] = "user" /\ UNCHANGED <<mm, filp>> /\ pc' = pc /\ Lives
      BY <2>1 DEF PInv
    <3>2. opened'[t] = UsedOf(file_struct'[t])
      BY <2>5, EmptyTable
    <3> QED
      BY <2>1, <2>5, <3>1, <3>2 DEF Lives
  <2>8. Calls'
    <3>1. \A u \in Tasks : state[u] = "NEW" => state'[u] = "NEW"
      BY <2>1, <2>5
    <3> QED
      BY <2>1, <2>2, <3>1, CallsKept DEF PInv
  <2>9. Heaps' /\ FramesKept'
    <3>1. MappedFrames' = MappedFrames
      BY <2>1 DEF MappedFrames
    <3> QED
      BY <2>1, <2>2, <3>1 DEF PInv, MInv, Heaps, FramesKept
  <2>10. Alive' = Alive \ {t} /\ t \in Alive /\ Alive \subseteq Tasks
    BY <2>1, <2>5 DEF Alive
  <2>11. HeapsBacked'
    <3>1. ASSUME Sound', NEW u \in Alive', mm'[u] \in mms' PROVE HeapOf(u)'
      <4>1. u \in Tasks /\ HeapOf(u)
        BY <2>1, <2>2, <2>10, <3>1, SureShrinks, HeapsBackedIs DEF PInv, MInv
      <4> QED
        BY <2>1, <2>2, <4>1, HeapOfKept
    <3>2. "brk_failed" \notin hit' =>
            (\A x \in Mms : end_brk'[x] <= MaxHeap) /\ (\A u \in Tasks : brk'[u].at <= Beyond')
      BY <2>1, <2>2, HeapsBackedIs DEF PInv, MInv, Beyond
    <3> QED
      BY <3>1, <3>2 DEF HeapsBacked, HeapOf
  <2>12. /\ t \in Holders /\ Holders \subseteq Tasks
         /\ Holders' = IF t \in vfork THEN Holders \ {t} ELSE Holders
    BY <2>1, <2>5 DEF Holders, Existing
  <2>13. OwnMms'
    <3>2. \A u \in Holders \ {t} : Alone(u)' <=> Alone(u)
      BY <2>1, <2>5, <2>12 DEF Alone
    <3>3. SUFFICES ASSUME Works', "left_behind" \notin hit' PROVE
            /\ \A u \in Holders' : mm'[u] \in mms'
            /\ \A u, v \in Holders' :
                 u # v /\ mm'[u] = mm'[v] =>
                   (u \in vfork' \/ v \in vfork') /\ ~Alone(u)' /\ ~Alone(v)'
      BY DEF OwnMms
    <3>4. /\ \A u \in Holders : mm[u] \in mms
          /\ \A u, v \in Holders :
               u # v /\ mm[u] = mm[v] => (u \in vfork \/ v \in vfork) /\ ~Alone(u) /\ ~Alone(v)
      BY <2>1, <2>2, <3>3 DEF PInv, MInv, OwnMms, Works
    <3>5. ASSUME NEW u \in Holders \ {t}, t \notin vfork PROVE mm[u] # mm[t]
      <4> SUFFICES ASSUME mm[u] = mm[t] PROVE FALSE
        OBVIOUS
      <4>1. ~Alone(u)
        BY <2>12, <3>4, <3>5
      <4>2. state[u] = "ALIVE"
        BY <2>4, <2>12, <3>5, <4>1 DEF Alone, Holders, Existing
      <4>3. u \in Sharers(t)
        BY <2>12, <3>5, <4>2 DEF Sharers, Alive
      <4> QED
        BY <4>3, <2>3, <3>3, <3>5 DEF Shared
    <3> HIDE DEF Alone
    <3>6. ASSUME NEW u \in Holders', NEW v \in Holders', u # v, mm'[u] = mm'[v]
          PROVE  (u \in vfork' \/ v \in vfork') /\ ~Alone(u)' /\ ~Alone(v)'
      <4>1. u # t /\ v # t
        BY <2>1, <2>12, <3>5, <3>6
      <4> QED
        BY <4>1, <2>1, <2>12, <3>2, <3>4, <3>6
    <3> QED
      BY <2>1, <2>12, <3>4, <3>6
  <2>14. Code'
    BY <2>1, <2>2, <2>5, <2>12 DEF PInv, MInv, Code
  <2>15. Places'
    BY <2>1, <2>2, PlacesKept
  <2>16. OwnFiles'
    <3> SUFFICES ASSUME Calm' PROVE
          /\ \A u \in Alive' : TableOf(file_struct'[u]) \subseteq files' /\ NoneTwice(file_struct'[u])
          /\ \A u, v \in Alive' \ vfork' :
               u # v => TableOf(file_struct'[u]) \cap TableOf(file_struct'[v]) = {}
      BY DEF OwnFiles
    <3>1. Calm /\ (t \notin vfork => ~Shared(t))
      BY <2>1, <2>2, <2>3 DEF Calm, Works, Borrowing
    <3>2. /\ \A u \in Alive : TableOf(file_struct[u]) \subseteq files /\ NoneTwice(file_struct[u])
          /\ \A u, v \in Alive \ vfork :
               u # v => TableOf(file_struct[u]) \cap TableOf(file_struct[v]) = {}
      BY <3>1 DEF PInv, OwnFiles
    <3>3. \A u \in Alive \ {t} : TableOf(file_struct[u]) \subseteq files'
      BY <2>1, <3>1, FreedOwn
    <3> QED
      BY <2>1, <2>5, <2>10, <3>2, <3>3
  <2>17. FilesKept'
    <3> SUFFICES ASSUME Tidy', NEW g \in files' PROVE
          \E u \in Alive' \ vfork' : g \in TableOf(file_struct'[u])
      BY DEF FilesKept
    <3>1. PICK u \in Alive \ vfork : g \in TableOf(file_struct[u])
      BY <2>1, <2>2 DEF PInv, FilesKept, Tidy, Works
    <3>2. u # t
      BY <2>1, <3>1, UsedTable DEF Freed
    <3> QED
      BY <2>1, <2>5, <2>10, <3>1, <3>2
  <2>18. MmsKept'
    <3>1. Existing' = Existing /\ (Tidy' => Tidy)
      BY <2>1, <2>2, <2>5 DEF Existing, Tidy, Works
    <3> QED
      BY <2>1, <3>1 DEF PInv, MInv, MmsKept, Owns
  <2>19. FaultsByEvent'
    BY <2>1, NoFault
  <2> QED
    BY <2>6, <2>7, <2>8, <2>9, <2>11, <2>13, <2>14, <2>15, <2>16, <2>17, <2>18, <2>19 DEF PInv, MInv
<1>2. CASE FreedTwice(t)
  <2>1. Fail("freed_file", {}) /\ fault' = "freed_file" /\ hit' = hit /\ state[t] = "ALIVE"
    BY <1>2 DEF Exit, Ready, In, Fail, Hit
  <2>2. hit' \cap Borrowing # {}
    BY <1>2, <2>1, FreedOnce DEF Calm
  <2>3. FaultsByEvent'
    BY <2>1, <2>2 DEF FaultsByEvent
  <2> QED
    BY <2>1, <2>3, FailStep DEF Faults
<1> QED
  BY <1>1, <1>2

LEMMA ReapStep ==
  ASSUME PInv, Works, NEW t \in Tasks, NEW c \in Tasks, Reap(t, c)
  PROVE  PInv'
<1>1. /\ state[c] = "ZOMBIE"
      /\ state' = [state EXCEPT ![c] = "NONE"] /\ vfork' = vfork \ {c}
      /\ mm' = [mm EXCEPT ![c] = InitMm]
      /\ UNCHANGED <<file_struct, files, opened, binaries, pc, filp, child, brk, fault>>
  BY DEF Reap, tables, locals
<1>2. pc[c] = "user" /\ file_struct[c] = NoFiles
  BY <1>1 DEF PInv, Lives
<1>3. /\ state \in [Tasks -> {"NONE", "NEW", "ALIVE", "ZOMBIE"}] /\ mm \in [Tasks -> Mms \cup {InitMm}]
      /\ mms \subseteq Mms /\ frames \in 0..NrFrames /\ NrFrames \in Nat
      /\ mapped \in [Mms -> SUBSET (0..MaxHeap)] /\ end_brk \in [Mms -> 0..Beyond]
  BY ProcessAssumption DEF PInv, TypeOK
<1>4. /\ state'[c] = "NONE" /\ mm'[c] = InitMm /\ c \notin vfork'
      /\ \A u \in Tasks \ {c} : /\ state'[u] = state[u] /\ mm'[u] = mm[u]
                                /\ (u \in vfork' <=> u \in vfork)
  BY <1>1, <1>3
<1>5. Lives'
  BY <1>1, <1>2, <1>4 DEF PInv, Lives
<1>6. Existing' = Existing \ {c} /\ Existing \subseteq Tasks
  BY <1>1, <1>4 DEF Existing
<1>7. Holders' = Holders \ {c} /\ Holders \subseteq Tasks
  BY <1>1, <1>4 DEF Holders, Existing
<1>8. \A u \in Holders' : Alone(u)' <=> Alone(u)
  BY <1>1, <1>4, <1>7 DEF Alone
<1>9. Alive' = Alive /\ (Alive \ vfork)' = Alive \ vfork /\ Alive \subseteq Tasks \ {c}
  BY <1>1, <1>4 DEF Alive
<1>10. \A u \in Tasks : state[u] = "NEW" => state'[u] = "NEW"
  BY <1>1, <1>4
<1>11. \A u \in Tasks : pc[u] \in Growing \cup {"copy", "exec_new"} => u # c /\ (u \in vfork => u \in vfork')
  BY <1>2, <1>4 DEF Growing
<1>12. \A u \in Tasks : pc[u] = "copy" => child[u] # c /\ child[u] \in Tasks /\ mm'[child[u]] = mm[child[u]]
  BY <1>1, <1>4 DEF PInv, Calls
<1>13. CASE c \in vfork /\ UNCHANGED <<mms, mapped, end_brk, frames, hit>>
  <2>1. TypeOK'
    BY <1>1, <1>13 DEF PInv, TypeOK
  <2>2. Calls'
    BY <1>1, <1>10, <1>11, <1>13, CallsKept DEF PInv
  <2>3. Heaps' /\ FramesKept'
    <3>1. MappedFrames' = MappedFrames
      BY <1>13 DEF MappedFrames
    <3> QED
      BY <1>1, <1>13, <3>1 DEF PInv, MInv, Heaps, FramesKept
  <2>4. HeapsBacked'
    <3>1. ASSUME Sound', NEW u \in Alive', mm'[u] \in mms' PROVE HeapOf(u)'
      <4>1. u \in Tasks /\ HeapOf(u) /\ mm'[u] = mm[u]
        BY <1>4, <1>9, <1>13, <3>1, SureShrinks, HeapsBackedIs DEF PInv, MInv
      <4> QED
        BY <1>1, <1>12, <1>13, <4>1, HeapOfKept
    <3>2. "brk_failed" \notin hit' =>
            (\A x \in Mms : end_brk'[x] <= MaxHeap) /\ (\A u \in Tasks : brk'[u].at <= Beyond')
      BY <1>1, <1>13, HeapsBackedIs DEF PInv, MInv, Beyond
    <3> QED
      BY <3>1, <3>2 DEF HeapsBacked, HeapOf
  <2>5. (Works' <=> Works) /\ \A u \in Holders' : mm'[u] = mm[u] /\ state'[u] = state[u] /\ (u \in vfork' <=> u \in vfork)
    BY <1>1, <1>4, <1>7 DEF Works
  <2>6. OwnMms'
    <3> HIDE DEF Alone
    <3> QED
      BY <2>5, <1>7, <1>8, <1>13 DEF PInv, MInv, OwnMms
  <2>7. Code'
    BY <1>1, <1>7, <1>13, <2>5 DEF PInv, MInv, Code
  <2>8. Places'
    BY <1>1, <1>4, <1>11, <1>13, PlacesKept DEF Growing
  <2>9. OwnFiles' /\ FilesKept'
    BY <1>1, <1>9, <1>13, TablesKept DEF PInv, Works
  <2>10. MmsKept'
    <3> SUFFICES ASSUME Tidy', NEW x \in mms' PROVE \E u \in Existing' : Owns(u)' /\ x = mm'[u]
      BY DEF MmsKept
    <3>1. PICK u \in Existing : Owns(u) /\ x = mm[u]
      BY <1>1, <1>13 DEF PInv, MInv, MmsKept, Tidy, Works
    <3>2. u # c
      BY <1>2, <1>13, <3>1 DEF Owns
    <3>3. Owns(u)'
      BY <1>1, <1>4, <1>6, <3>1, <3>2 DEF Owns
    <3> QED
      BY <1>4, <1>6, <3>1, <3>2, <3>3
  <2>11. FaultsByEvent'
    BY <1>1, NoFault
  <2> QED
    BY <1>5, <2>1, <2>2, <2>3, <2>4, <2>6, <2>7, <2>8, <2>9, <2>10, <2>11 DEF PInv, MInv
<1>14. CASE c \notin vfork
  <2>0. PICK m : m = mm[c]
    OBVIOUS
  <2> DEFINE more == When(mapped[m] # {0}, "brk_left")
  <2>1. /\ m \in mms /\ 0 \in mapped[m] /\ mms' = mms \ {m} /\ frames' = frames - 1
        /\ mapped' = [mapped EXCEPT ![m] = {}] /\ end_brk' = [end_brk EXCEPT ![m] = 0]
        /\ Hit(more)
    BY <1>14, <2>0 DEF Reap
  <2>2. hit' = hit \cup more /\ hit \subseteq hit' /\ hit' \subseteq Events
    BY <2>1, HitGrows DEF When, Events, PInv
  <2>3. "brk_left" \notin hit' => mapped[m] = {0}
    BY <2>2 DEF When
  <2> HIDE DEF more
  <2>4. /\ m \in Mms /\ mapped'[m] = {} /\ end_brk'[m] = 0
        /\ \A x \in Mms \ {m} : mapped'[x] = mapped[x] /\ end_brk'[x] = end_brk[x]
    BY <1>3, <2>1
  <2>5. /\ Cardinality(MappedFrames) = Cardinality(MappedFrames') + Cardinality(mapped[m])
        /\ Cardinality(MappedFrames') \in Nat
    <3>1. PICK M, N, mp, mq, G : /\ M = mms \ {m} /\ N = mms /\ mp = mapped' /\ mq = mapped
                                 /\ G = mapped[m]
      OBVIOUS
    <3>2. /\ M \in SUBSET Mms /\ m \in Mms \ M /\ N = M \cup {m} /\ G \in SUBSET (0..MaxHeap)
          /\ mq[m] = G /\ \A x \in Mms \ {m} : mq[x] = mp[x]
      BY <1>3, <2>1, <2>4, <3>1
    <3>3. Cardinality(FramesOf(N, mq)) = Cardinality(FramesOf(M, mp)) + Cardinality(G)
      BY <3>2, FramesOfNew
    <3>4. Cardinality(FramesOf(M, mp)) \in Nat
      BY <3>2, FramesFinite
    <3>5. MappedFrames = FramesOf(N, mq) /\ MappedFrames' = FramesOf(M, mp)
      BY <2>1, <3>1 DEF MappedFrames, FramesOf
    <3> QED
      BY <3>1, <3>3, <3>4, <3>5
  <2>6. Cardinality(mapped[m]) \in Nat \ {0} /\ (mapped[m] = {0} => Cardinality(mapped[m]) = 1)
    <3>1. IsFiniteSet(mapped[m]) /\ Cardinality(mapped[m]) \in Nat
      BY <1>3, <2>4, PlacesFinite
    <3>2. Cardinality(mapped[m]) # 0
      BY <2>1, <3>1, FS_EmptySet
    <3> QED
      BY <3>1, <3>2, FS_Singleton
  <2>7. Cardinality(MappedFrames) <= frames
    BY DEF PInv, Heaps
  <2>8. frames' \in 0..NrFrames /\ Cardinality(MappedFrames') <= frames'
    BY <1>3, <2>1, <2>5, <2>6, <2>7
  <2>9. TypeOK'
    <3>1. 0 \in 0..Beyond
      BY ProcessAssumption DEF Beyond
    <3>2. end_brk' \in [Mms -> 0..Beyond] /\ mapped' \in [Mms -> SUBSET (0..MaxHeap)]
      BY <1>3, <2>1, <3>1
    <3> QED
      BY <1>1, <2>1, <2>2, <2>8, <3>2 DEF PInv, TypeOK, Beyond
  <2>10. Calls'
    BY <1>1, <1>10, <1>11, <2>2, CallsKept DEF PInv
  <2>11. Heaps'
    <3>1. \A x \in Mms \ mms' : mapped'[x] = {} /\ end_brk'[x] = 0
      BY <2>1, <2>4 DEF PInv, Heaps
    <3> QED
      BY <2>8, <3>1 DEF Heaps
  <2>12. FramesKept'
    <3>1. SUFFICES ASSUME hit' \cap {"left_behind", "brk_race", "brk_left"} = {}
                   PROVE  frames' = Cardinality(MappedFrames')
      BY DEF FramesKept
    <3>2. frames = Cardinality(MappedFrames) /\ Cardinality(mapped[m]) = 1
      BY <2>2, <2>3, <2>6, <3>1 DEF PInv, MInv, FramesKept
    <3> QED
      BY <1>3, <2>1, <2>5, <3>2
  <2>13. c \in Holders /\ Alone(c)
    BY <1>1, <1>2, <1>14 DEF Holders, Existing, Alone
  <2>14. ASSUME "left_behind" \notin hit
         PROVE  \A u \in Holders \ {c} : mm[u] \in mms /\ mm[u] # m
    <3> HIDE DEF Alone
    <3> QED
      BY <2>0, <2>13, <2>14 DEF PInv, MInv, OwnMms
  <2>15. HeapsBacked'
    <3>1. ASSUME Sound', NEW u \in Alive', mm'[u] \in mms' PROVE HeapOf(u)'
      <4>1. Sound /\ u \in Alive /\ u \in Tasks /\ mm'[u] = mm[u] /\ mm[u] \in mms /\ mm[u] # m
        BY <1>4, <1>9, <2>1, <2>2, <3>1, SureShrinks
      <4>2. HeapOf(u) /\ mm[u] \in Mms /\ "left_behind" \notin hit
        BY <1>3, <4>1, HeapsBackedIs DEF PInv, MInv, Sound
      <4>3. pc[u] = "copy" => mm[child[u]] \in Mms /\ mm[child[u]] # m
        BY <1>3, <1>12, <2>14, <4>1, <4>2, Running
      <4> QED
        BY <1>1, <1>12, <2>2, <2>4, <4>1, <4>2, <4>3, HeapOfKept
    <3>2. ASSUME "brk_failed" \notin hit'
          PROVE  (\A x \in Mms : end_brk'[x] <= MaxHeap) /\ (\A u \in Tasks : brk'[u].at <= Beyond')
      <4>1. (\A x \in Mms : end_brk[x] <= MaxHeap) /\ (\A u \in Tasks : brk[u].at <= Beyond)
        BY <2>2, <3>2, HeapsBackedIs DEF PInv, MInv
      <4>2. 0 <= MaxHeap
        BY ProcessAssumption
      <4> QED
        BY <1>1, <2>4, <4>1, <4>2 DEF Beyond
    <3> QED
      BY <3>1, <3>2 DEF HeapsBacked, HeapOf
  <2>16. \A u \in Holders' : mm'[u] = mm[u] /\ state'[u] = state[u] /\ (u \in vfork' <=> u \in vfork)
    BY <1>4, <1>7
  <2>17. OwnMms'
    <3>1. SUFFICES ASSUME Works', "left_behind" \notin hit' PROVE
            /\ \A u \in Holders' : mm'[u] \in mms'
            /\ \A u, v \in Holders' :
                 u # v /\ mm'[u] = mm'[v] =>
                   (u \in vfork' \/ v \in vfork') /\ ~Alone(u)' /\ ~Alone(v)'
      BY DEF OwnMms
    <3>2. /\ "left_behind" \notin hit
          /\ \A u, v \in Holders :
               u # v /\ mm[u] = mm[v] => (u \in vfork \/ v \in vfork) /\ ~Alone(u) /\ ~Alone(v)
      BY <1>1, <2>2, <3>1 DEF PInv, MInv, OwnMms, Works
    <3> HIDE DEF Alone
    <3> QED
      BY <1>7, <1>8, <2>1, <2>14, <2>16, <3>2
  <2>18. Code'
    <3> SUFFICES ASSUME Works', "left_behind" \notin hit', NEW u \in Holders'
                 PROVE  /\ pc'[u] = "exec_new" => mapped'[mm'[u]] = {}
                        /\ pc'[u] # "exec_new" => 0 \in mapped'[mm'[u]]
                        /\ state'[u] = "NEW" => mapped'[mm'[u]] = {0}
      BY DEF Code
    <3>1. "left_behind" \notin hit /\ u \in Holders \ {c} /\ mm[u] \in mms /\ mm[u] # m
      BY <1>7, <2>2, <2>14
    <3>2. mapped'[mm'[u]] = mapped[mm[u]]
      BY <1>3, <2>4, <2>16, <3>1
    <3> QED
      BY <1>1, <2>16, <3>1, <3>2 DEF PInv, MInv, Code
  <2>19. Places'
    <3>1. \A u \in Tasks : mm[u] \in mms => mapped'[mm[u]] \subseteq mapped[mm[u]]
      BY <1>3, <2>4
    <3> QED
      BY <1>1, <1>4, <1>11, <2>2, <3>1, PlacesKept DEF Growing
  <2>20. OwnFiles' /\ FilesKept'
    BY <1>1, <1>9, <2>2, TablesKept DEF PInv, Works
  <2>21. MmsKept'
    <3> SUFFICES ASSUME Tidy', NEW x \in mms' PROVE \E u \in Existing' : Owns(u)' /\ x = mm'[u]
      BY DEF MmsKept
    <3>1. x \in mms /\ x # mm[c]
      BY <2>0, <2>1
    <3>2. PICK u \in Existing : Owns(u) /\ x = mm[u]
      BY <1>1, <2>2, <3>1 DEF PInv, MInv, MmsKept, Tidy, Works
    <3>3. u # c /\ Owns(u)'
      BY <1>1, <1>4, <1>6, <3>1, <3>2 DEF Owns
    <3> QED
      BY <1>4, <1>6, <3>2, <3>3
  <2>22. FaultsByEvent'
    BY <1>1, NoFault
  <2> QED
    BY <1>5, <2>9, <2>10, <2>11, <2>12, <2>15, <2>17, <2>18, <2>19, <2>20, <2>21, <2>22 DEF PInv, MInv
<1> QED
  BY <1>13, <1>14 DEF Reap
-----------------------------------------------------------------------------
(* The theorems *)

LEMMA PInvInit == Init => PInv
<1> SUFFICES ASSUME Init PROVE PInv
  OBVIOUS
<1>1. \A t \in Tasks : file_struct[t] = NoFiles
  BY DEF Init
<1>2. TypeOK
  <2>1. MaxHeap \in Nat /\ NrFrames \in Nat /\ MaxExecs \in Nat
    BY ProcessAssumption
  <2>2. file_struct \in [Tasks -> FileTables]
    BY EmptyTable DEF Init
  <2>3. 0 \in 0..Beyond /\ 0 \in 0..NrFrames /\ 0 \in 0..MaxExecs /\ 0 \in 0..MaxHeap /\ 0 \in 0..Beyond + 1
    BY <2>1 DEF Beyond
  <2>4. brk \in [Tasks -> [at : 0..Beyond + 1, to : 0..MaxHeap]]
    BY <2>3 DEF Init, NoBrk
  <2>5. pc \in [Tasks -> TaskPCs] /\ state \in [Tasks -> {"NONE", "NEW", "ALIVE", "ZOMBIE"}]
    BY DEF Init, TaskPCs
  <2> QED
    BY <2>2, <2>3, <2>4, <2>5, ProcessAssumption DEF Init, TypeOK, FileTables, Faults
<1>3. Lives
  BY <1>1, EmptyTable DEF Init, Lives
<1>4. Calls
  BY DEF Init, Calls
<1>5. MappedFrames = {} /\ frames = 0
  BY DEF Init, MappedFrames
<1>6. Heaps /\ FramesKept
  BY <1>5, FS_EmptySet DEF Init, Heaps, FramesKept
<1>7. HeapsBacked
  <2>1. 0 <= MaxHeap /\ 0 <= Beyond
    BY ProcessAssumption DEF Beyond
  <2> QED
    BY <2>1 DEF Init, HeapsBacked, NoBrk
<1>8. OwnMms /\ Code
  <2>1. Holders = {}
    BY DEF Init, Holders, Existing
  <2> QED
    BY <2>1 DEF OwnMms, Code
<1>9. Places
  BY DEF Init, Places
<1>10. OwnFiles
  <2>1. \A t \in Alive : TableOf(file_struct[t]) = {} /\ NoneTwice(file_struct[t])
    BY <1>1, EmptyTable DEF Alive, NoneTwice
  <2> QED
    BY <2>1 DEF OwnFiles
<1>11. FilesKept /\ MmsKept
  BY DEF Init, FilesKept, MmsKept
<1>12. FaultsByEvent
  BY DEF Init, FaultsByEvent
<1> QED
  BY <1>2, <1>3, <1>4, <1>6, <1>7, <1>8, <1>9, <1>10, <1>11, <1>12 DEF PInv, MInv

LEMMA PInvStutter == PInv /\ UNCHANGED vars => PInv'
<1> SUFFICES ASSUME PInv, UNCHANGED vars PROVE PInv'
  OBVIOUS
<1>1. /\ UNCHANGED <<state, vfork, file_struct, files, opened, binaries>>
      /\ UNCHANGED <<mm, mms, mapped, end_brk, frames, pc, filp, child, brk, hit, fault>>
  BY DEF vars, tables, spaces, locals
<1>2. TypeOK' /\ Lives' /\ Calls' /\ FaultsByEvent'
  BY <1>1 DEF PInv, TypeOK, Lives, Calls, FaultsByEvent, Beyond
<1>3. MappedFrames' = MappedFrames /\ Holders' = Holders /\ Alive' = Alive /\ Existing' = Existing
  BY <1>1 DEF MappedFrames, Holders, Alive, Existing
<1>4. Heaps' /\ FramesKept' /\ HeapsBacked' /\ Places'
  BY <1>1, <1>3 DEF PInv, MInv, Heaps, FramesKept, HeapsBacked, Places, Sound, Backed, Sure, Growing, Works, Beyond
<1>5. OwnMms' /\ Code' /\ MmsKept'
  BY <1>1, <1>3 DEF PInv, MInv, OwnMms, Code, MmsKept, Alone, Owns, Works, Tidy
<1>6. OwnFiles' /\ FilesKept'
  BY <1>1, <1>3, TablesKept DEF PInv, Works
<1> QED
  BY <1>2, <1>4, <1>5, <1>6 DEF PInv, MInv

LEMMA PInvNext == PInv /\ [Next]_vars => PInv'
<1>1. ASSUME PInv, Next PROVE PInv'
  <2>1. Works
    BY <1>1 DEF Next, Works
  <2>2. PICK t \in Tasks : FileCalls(t) \/ Forks(t) \/ Execs(t) \/ Brks(t) \/ Ends(t)
    BY <1>1 DEF Next
  <2>3. CASE FileCalls(t)
    BY <1>1, <2>1, <2>3, OpenStep, CloseStep, ReadStep, ReadDoneStep, BadLookStep DEF FileCalls
  <2>4. CASE Forks(t)
    BY <1>1, <2>1, <2>4, ForkStep, ForkHeapStep, ForkFailsStep, NoFrameStep, VForkStep DEF Forks
  <2>5. CASE Execs(t)
    BY <1>1, <2>1, <2>5, ExecMapStep, ExecPreemptedStep, ExecResumedStep, NoFrameStep,
       ExecLoadStep, ExecArgsStep, ExecFreedTwiceStep, ExecMissingStep DEF Execs
  <2>6. CASE Brks(t)
    BY <1>1, <2>1, <2>6, BrkStep, BrkStartStep, BrkTestStep, BrkSetStep, StoresEndStep DEF Brks
  <2>7. CASE Ends(t)
    BY <1>1, <2>1, <2>7, ExitStep, ReapStep, FreedMmStep DEF Ends
  <2> QED
    BY <2>2, <2>3, <2>4, <2>5, <2>6, <2>7
<1> QED
  BY <1>1, PInvStutter

LEMMA PInvAlways == Spec => []PInv
<1> QED
  BY PInvInit, PInvNext, PTL DEF Spec

\* Whatever tasks open, fork, exec, map and free, at whatever point another runs, what a
\* live task holds is allocated and its descriptors are those its program knows of, heaps
\* are mapped, and the kernel faults only out of the events that can bring it about.
THEOREM HoldingsAreSound == Spec => []HoldingsSound
<1>1. PInv => HoldingsSound
  <2> SUFFICES ASSUME PInv PROVE HoldingsSound
    OBVIOUS
  <2>1. ASSUME Works, hit \cap Borrowing = {}, NEW t \in Alive
        PROVE  /\ Table(t) \subseteq files /\ opened[t] = Used(t)
               /\ pc[t] # "init" => mm[t] \in mms
    <3>1. t \in Tasks /\ Calm /\ "left_behind" \notin hit
      BY <2>1 DEF Alive, Calm, Borrowing
    <3>2. Table(t) \subseteq files /\ opened[t] = Used(t)
      BY <2>1, <3>1, UsedTable DEF PInv, OwnFiles, Lives
    <3> QED
      BY <2>1, <3>1, <3>2, Running
  <2>2. NoDangling
    BY <2>1 DEF NoDangling
  <2>3. HeapMapped
    <3> SUFFICES ASSUME hit \cap {"heap_cut", "brk_failed", "end_in_copy", "left_behind"} = {},
                        NEW t \in Alive, mm[t] \in mms
                 PROVE  1..end_brk[mm[t]] \subseteq mapped[mm[t]]
      BY DEF HeapMapped
    <3>1. Backed(t, end_brk[mm[t]]) /\ Sure = 1..MaxHeap
      BY DEF PInv, MInv, HeapsBacked, Sound, Sure
    <3>2. end_brk[mm[t]] <= MaxHeap /\ end_brk[mm[t]] \in Nat /\ MaxHeap \in Nat
      BY ProcessAssumption DEF PInv, MInv, HeapsBacked, TypeOK, Beyond
    <3>3. (1..end_brk[mm[t]]) \cap (1..MaxHeap) = 1..end_brk[mm[t]]
      BY <3>2
    <3> QED
      BY <3>1, <3>3 DEF Backed
  <2> QED
    BY <2>2, <2>3 DEF HoldingsSound, PInv
<1> QED
  BY <1>1, PInvAlways, PTL

\* No struct file, no address space and no frame is without an owner, while no vforked
\* task opens or forks, no heap is reaped and no place of one is mapped twice: fork,
\* exec, brk, exit and wait4 balance.
THEOREM NothingIsLeft == Spec => []NothingLeaks
<1>1. PInv => NothingLeaks
  <2> SUFFICES ASSUME PInv, Tidy PROVE
        LET owners == {t \in Existing : t \notin vfork \/ pc[t] \in {"exec", "exec_new"}}
        IN /\ files = UNION {Table(t) : t \in Alive}
           /\ mms = {mm[t] : t \in owners}
           /\ \A t, u \in owners : t # u => mm[t] # mm[u]
           /\ hit \cap {"brk_left", "brk_race"} = {} => frames = Cardinality(MappedFrames)
    BY DEF NothingLeaks, Tidy
  <2> DEFINE owners == {t \in Existing : t \notin vfork \/ pc[t] \in {"exec", "exec_new"}}
  <2>1. Calm /\ Works /\ "left_behind" \notin hit
    BY DEF Tidy, Calm, Borrowing
  <2>2. files = UNION {Table(t) : t \in Alive}
    <3>1. \A t \in Alive : Table(t) \subseteq files
      BY <2>1, UsedTable DEF PInv, OwnFiles
    <3>2. \A f \in files : \E t \in Alive : f \in Table(t)
      BY UsedTable DEF PInv, FilesKept
    <3> QED
      BY <3>1, <3>2
  <2>3. owners \subseteq Holders
    <3> SUFFICES ASSUME NEW t \in owners PROVE t \in Holders
      OBVIOUS
    <3>1. pc[t] \in {"exec", "exec_new"} => state[t] = "ALIVE"
      BY DEF PInv, Lives, Existing
    <3>2. pc[t] # "init"
      BY DEF PInv, Lives, Existing
    <3> QED
      BY <3>1, <3>2 DEF Holders
  <2>4. mms = {mm[t] : t \in owners}
    <3>1. \A t \in owners : mm[t] \in mms
      BY <2>1, <2>3 DEF PInv, MInv, OwnMms
    <3>2. \A m \in mms : \E t \in owners : m = mm[t]
      BY DEF PInv, MInv, MmsKept, Owns
    <3> QED
      BY <3>1, <3>2
  <2>5. ASSUME NEW t \in owners, NEW u \in owners, t # u PROVE mm[t] # mm[u]
    <3> SUFFICES ASSUME mm[t] = mm[u] PROVE FALSE
      OBVIOUS
    <3>1. (t \in vfork \/ u \in vfork) /\ ~Alone(t) /\ ~Alone(u)
      BY <2>1, <2>3, <2>5 DEF PInv, MInv, OwnMms
    <3> QED
      BY <3>1, <2>5 DEF Alone
  <2>6. hit \cap {"brk_left", "brk_race"} = {} => frames = Cardinality(MappedFrames)
    BY <2>1 DEF PInv, MInv, FramesKept
  <2> QED
    BY <2>2, <2>4, <2>5, <2>6
<1> QED
  BY <1>1, PInvAlways, PTL

\* Two tasks that have a struct file or their memory in common come from a vfork.
THEOREM SharingIsByVfork == Spec => []SharedOnlyByVfork
<1>1. PInv => SharedOnlyByVfork
  <2> SUFFICES ASSUME PInv, Works, hit \cap Borrowing = {}, NEW t \in Alive, NEW u \in Alive,
                      t # u, mm[t] = mm[u] \/ Table(t) \cap Table(u) # {},
                      {t, u} \cap vfork = {}
               PROVE  FALSE
    BY DEF SharedOnlyByVfork
  <2>1. Calm /\ "left_behind" \notin hit /\ t \in Tasks /\ u \in Tasks
    BY DEF Calm, Borrowing, Alive
  <2>2. t \in Holders /\ u \in Holders
    BY <2>1 DEF PInv, Lives, Holders, Alive, Existing
  <2>3. mm[t] # mm[u]
    BY <2>1, <2>2 DEF PInv, MInv, OwnMms
  <2>4. TableOf(file_struct[t]) \cap TableOf(file_struct[u]) = {}
    BY <2>1 DEF PInv, OwnFiles
  <2> QED
    BY <2>3, <2>4, UsedTable
<1> QED
  BY <1>1, PInvAlways, PTL
-----------------------------------------------------------------------------
(* The inductive invariant *)

Thens == {"user", "struct", "map"}
Maybe == Addresses \cup {NoAddress}
AllocPCs == {"choose", "find", "mark", "link", "test", "set", "count", "got"}
SlabType == [using_count : Int, free_count : Int, color_map : SUBSET Indices,
             at : Maybe, map_at : Maybe]
LocType == [cache : Caches, then : Thens, address : Maybe, page : AllPages \cup {0},
            big : AllPages \cup {0}, at : Maybe, word : SUBSET (Pages \cup Indices),
            was : Seq(Int)]

\* A call has a page that is no slab yet, or no slab any more: of its own, and for the
\* big slab whose parts a nested call is to give or to free.
HasPage(t) == memory_pc[t] \in {"link", "clean", "release"}
HasBig(t) == loc[t].then = "map" \/ (loc[t].then = "struct" /\ memory_pc[t] \in AllocPCs)
Hold(t) == {p \in Pages : \/ HasPage(t) /\ p = loc[t].page
                          \/ HasBig(t) /\ p = loc[t].big}

\* What a call has in its variables where it is.
LocFits(t) ==
  LET l == loc[t] IN
  /\ HasBig(t) => l.big \in Pages
  /\ HasPage(t) \/ memory_pc[t] = "mark" => l.page \in Pages
  /\ memory_pc[t] \in {"mark", "release"} => l.word \subseteq Pages
  /\ memory_pc[t] \in {"set", "flip"} => l.word \subseteq Indices
  /\ memory_pc[t] \in {"set", "count", "flip"} => l.address \in Addresses /\ l.address[1] = l.page
  /\ memory_pc[t] \in {"mark", "release", "link", "unlink"} => Len(l.was) = 1
  /\ memory_pc[t] \in {"count", "uncount"} => Len(l.was) = 4
  /\ memory_pc[t] = "unlink" => l.page # PoolPage[l.cache]
  /\ memory_pc[t] \in AllocPCs /\ l.then # "user" => l.cache = "small"
  /\ memory_pc[t] \in {"clean", "release"} /\ l.cache = "big" => l.then = "user"
  /\ memory_pc[t] = "run" => l = Unused

Types ==
  /\ MemoryTypeOK
  /\ slab \in [AllPages -> SlabType]
  /\ loc \in [Callers -> LocType]
  /\ \A c \in Caches : /\ Slabs(c) \subseteq Pages \cup {PoolPage[c]}
                       /\ PoolPage[c] \in Slabs(c)
                       /\ slab[PoolPage[c]].at = NoAddress /\ slab[PoolPage[c]].map_at = NoAddress
  /\ \A t \in Callers : LocFits(t)

\* A task is within a window without running only after a preemption there.
Undisturbed == \A t \in Callers : memory_pc[t] \in Windows \ memory_hit => t = current

\* What a task has loaded in a window is still so.
Fresh(t) ==
  LET l == loc[t] IN
  /\ memory_pc[t] = "mark" => l.page \notin bits_map
  /\ memory_pc[t] \in {"mark", "release"} => l.word = bits_map /\ l.was = <<page_free_count>>
  /\ memory_pc[t] \in {"link", "unlink"} => l.was = <<total_free[l.cache]>>
  /\ memory_pc[t] \in {"test", "set", "count", "flip", "uncount", "unlink"} => Linked(l)
  /\ memory_pc[t] \in {"set", "flip"} => l.word = slab[l.page].color_map
  /\ memory_pc[t] = "set" => l.address[2] \notin l.word
  /\ memory_pc[t] \in {"count", "uncount"} => l.was = Counters(l)

Loaded == \A t \in Callers : memory_pc[t] \in Windows \ memory_hit => Fresh(t)

\* A page is in one list, once, or in the hands of one call.
PagesApart ==
  /\ \A c \in Caches : IsInjective(pool[c])
  /\ Slabs("small") \cap Slabs("big") = {}
  /\ InSlabs \cap Pages \subseteq bits_map
  /\ \A t \in Callers : /\ Hold(t) \subseteq bits_map \ InSlabs
                        /\ HasBig(t) /\ HasPage(t) => loc[t].page # loc[t].big
  /\ \A t, u \in Callers : t # u => Hold(t) \cap Hold(u) = {}

\* A slab that is still to be linked is empty.
NewAreEmpty ==
  \A t \in Callers : memory_pc[t] = "link" =>
    LET s == slab[loc[t].page]
    IN s.color_map = {} /\ s.using_count = 0 /\ s.free_count = Colors

\* Who can have an object: a task outside, the kernel for good, a call (to give or to
\* free it, or as the struct of the slab it works on), and a big slab, for its struct
\* and its map.
Owners == ({"held", "boot"} \X Addresses) \cup ({"call", "part"} \X Callers)
          \cup ({"at", "map"} \X Pages)
Linking == {loc[t].page : t \in {u \in Callers : memory_pc[u] = "link" /\ loc[u].cache = "big"}}
BigSlabs == Slabs("big") \cup Linking
HasPart(t) == loc[t].then = "map" \/ (loc[t].cache = "big" /\ memory_pc[t] \in {"clean", "release"})
OfCall(t) == IF memory_pc[t] \in {"count", "got", "kfree", "flip"} THEN loc[t].address ELSE NoAddress
OfPart(t) == IF HasPart(t) THEN loc[t].at ELSE NoAddress
Claims ==
  [o \in Owners |->
     CASE o[1] = "held" -> IF o[2] \in held THEN o[2] ELSE NoAddress
       [] o[1] = "boot" -> IF o[2] \in Permanent THEN o[2] ELSE NoAddress
       [] o[1] = "call" -> OfCall(o[2])
       [] o[1] = "part" -> OfPart(o[2])
       [] o[1] = "at"   -> IF o[2] \in BigSlabs THEN slab[o[2]].at ELSE NoAddress
       [] o[1] = "map"  -> IF o[2] \in BigSlabs THEN slab[o[2]].map_at ELSE NoAddress]

\* The objects whose bit is set.
ObjectsInUse == {a \in Addresses : a[1] \in InSlabs /\ a[2] \in slab[a[1]].color_map}

\* What anybody has is in use, nobody else has it, and what is in use somebody has.
Owned(has, used) ==
  /\ \A o \in Owners : has[o] = NoAddress \/ has[o] \in used
  /\ \A o, q \in Owners : has[o] = has[q] /\ has[o] # NoAddress => o = q
  /\ \A a \in used : \E o \in Owners : has[o] = a

\* The parts of big slabs lie in small ones, and nested calls are about them.
PartsSmall ==
  /\ \A t \in Callers :
       /\ HasPart(t) => loc[t].at \in Slabs("small") \X Indices
       /\ memory_pc[t] \in {"kfree", "flip"} => loc[t].address # NoAddress
       /\ loc[t].then # "user" =>
            loc[t].cache = "small" /\ OfCall(t) \in (Slabs("small") \X Indices) \cup {NoAddress}
  /\ \A p \in BigSlabs \ {PoolPage["big"]} :
       {slab[p].at, slab[p].map_at} \subseteq Slabs("small") \X Indices

\* How many objects more are in use, of slab p or of cache c, than the running task has
\* counted.
Uncounted(t) == IF memory_pc[t] = "count" THEN 1 ELSE IF memory_pc[t] = "uncount" THEN -1 ELSE 0
UncountedIn(p) == IF loc[current].page = p THEN Uncounted(current) ELSE 0
UncountedOf(c) == IF loc[current].cache = c THEN Uncounted(current) ELSE 0

SlabsCounted ==
  \A p \in InSlabs : /\ slab[p].using_count = Cardinality(slab[p].color_map) - UncountedIn(p)
                     /\ slab[p].free_count = Colors - slab[p].using_count

NoPageLost == bits_map \subseteq InSlabs \cup UNION {Hold(t) : t \in Callers}

\* A slab about to be taken out of its list is empty.
Emptied == \A t \in Callers : memory_pc[t] = "unlink" => slab[loc[t].page].color_map = {}

TotalsCounted ==
  /\ \A c \in Caches :
       /\ total_using[c] = Cardinality(Taken(c)) - UncountedOf(c)
       /\ total_free[c] = Cardinality(Objects(c) \ Taken(c)) + UncountedOf(c)
  /\ page_free_count = Cardinality(Pages \ bits_map)

\* In the slab that kmalloc has chosen an object is free.
ChosenHasRoom == \A t \in Callers : memory_pc[t] = "test" => slab[loc[t].page].color_map # Indices

\* kmalloc gives NULL after a message.
Told ==
  \A t \in Callers : memory_pc[t] = "got" /\ loc[t].address = NoAddress
                     => failed \cap {"no page", "no memory"} # {}

PagesKept == MemoryAlive /\ memory_hit \cap {"mark", "release"} = {}
BitsKept == memory_fault = "none" /\ memory_hit \cap LosesBits = {}
NoneHit == memory_fault = "none" /\ memory_hit = {}

BitsInv == Owned(Claims, ObjectsInUse) /\ PartsSmall /\ SlabsCounted /\ NoPageLost /\ Emptied

\* While no preemption has fallen in a window that matters, each part holds.
MemoryInv ==
  /\ Types /\ Undisturbed /\ Told /\ FaultsByWindow
  /\ MemoryAlive => Loaded
  /\ PagesKept => PagesApart /\ NewAreEmpty
  /\ BitsKept => BitsInv
  /\ NoneHit => TotalsCounted /\ ChosenHasRoom
-----------------------------------------------------------------------------
(* Types *)

\* What NULL, no page and no slab are not.
LEMMA Apart ==
  /\ \A c \in Caches : PoolPage[c] \in AllPages /\ PoolPage[c] \notin Pages
  /\ Pages \subseteq AllPages /\ AllPages \subseteq Nat
  /\ 0 \in Indices /\ Indices \subseteq Nat
  /\ NoAddress \notin Addresses
  /\ \A a \in Addresses : a[1] \in AllPages /\ a[2] \in Indices /\ a = <<a[1], a[2]>>
  /\ \A p \in AllPages, j \in Indices : <<p, j>> \in Addresses
<1>1. Colors \in Nat \ {0}
  BY MemoryAssumption
<1>2. 0 \in Indices /\ Indices \subseteq Nat
  BY <1>1 DEF Indices
<1>3. Pages \subseteq AllPages /\ AllPages \subseteq Nat
  BY MemoryAssumption DEF AllPages
<1>4. \A c \in Caches : PoolPage[c] \in AllPages /\ PoolPage[c] \notin Pages
  BY MemoryAssumption DEF AllPages
<1>5. NoAddress \notin Addresses
  BY MemoryAssumption
<1>6. \A a \in Addresses : a[1] \in AllPages /\ a[2] \in Indices /\ a = <<a[1], a[2]>>
  BY DEF Addresses
<1>7. \A p \in AllPages, j \in Indices : <<p, j>> \in Addresses
  BY DEF Addresses
<1> QED
  BY <1>2, <1>3, <1>4, <1>5, <1>6, <1>7

\* The values a variable starts from.
LEMMA FirstValues ==
  /\ Unused \in LocType
  /\ NewSlab \in SlabType /\ Booted \in SlabType
  /\ Unused.cache = "small" /\ Unused.then = "user" /\ Unused.address = NoAddress
  /\ Unused.page = 0 /\ Unused.big = 0 /\ Unused.at = NoAddress
<1>1. Unused \in LocType
  <2>1. <<>> \in Seq(Int)
    OBVIOUS
  <2> QED
    BY <2>1 DEF Unused, LocType, Caches, Thens, Maybe
<1>2. Colors \in Int /\ Colors - 1 \in Int
  BY MemoryAssumption
<1>3. NewSlab \in SlabType
  BY <1>2 DEF NewSlab, SlabType, Maybe
<1>4. Booted \in SlabType
  <2>1. {0} \in SUBSET Indices
    BY Apart
  <2> QED
    BY <1>2, <2>1 DEF Booted, SlabType, Maybe
<1> QED
  BY <1>1, <1>3, <1>4 DEF Unused

\* Where the other tasks are, their variables fit as before.
LEMMA OthersFit ==
  ASSUME Types, NEW t \in Callers, LocFits(t)',
         \A u \in Callers \ {t} : memory_pc'[u] = memory_pc[u] /\ loc'[u] = loc[u]
  PROVE  \A u \in Callers : LocFits(u)'
BY DEF Types, LocFits, HasBig, HasPage

\* Task t goes on, from one place to the next.
Moved(t, from, to) ==
  /\ MemoryAlive /\ t = current /\ current' = current /\ memory_hit' = memory_hit
  /\ memory_pc[t] = from /\ memory_pc'[t] = to
  /\ \A u \in Callers \ {t} : memory_pc'[u] = memory_pc[u] /\ loc'[u] = loc[u]

\* Task t has l, but for what it has loaded.
Has(t, l) ==
  /\ loc'[t].cache = l.cache /\ loc'[t].then = l.then /\ loc'[t].address = l.address
  /\ loc'[t].page = l.page /\ loc'[t].big = l.big /\ loc'[t].at = l.at
  /\ memory_pc'[t] \in Windows => loc'[t].word = l.word /\ loc'[t].was = l.was

\* A step by Goto.
LEMMA Goes ==
  ASSUME Types, NEW t \in Callers, NEW from, NEW to \in PCs, NEW l \in LocType,
         At(t, from), Goto(t, to, l), current' = current, memory_hit' = memory_hit
  PROVE  /\ memory_pc' \in [Callers -> PCs] /\ loc' \in [Callers -> LocType]
         /\ Moved(t, from, to) /\ Has(t, l)
<1>1. [l EXCEPT !.word = {}, !.was = <<>>] \in LocType
  <2>1. <<>> \in Seq(Int)
    OBVIOUS
  <2> QED
    BY <2>1 DEF LocType
<1>2. memory_pc \in [Callers -> PCs] /\ loc \in [Callers -> LocType]
  BY DEF Types, MemoryTypeOK
<1>3. Moved(t, from, to)
  BY <1>2 DEF Goto, Moved, At
<1>4. Has(t, l)
  BY <1>2 DEF Has, Goto, LocType
<1> QED
  BY <1>1, <1>2, <1>3, <1>4 DEF Goto

\* alloc_pages, its search: no page and a message, or a page whose bit is clear.
LEMMA FindPageStep ==
  ASSUME Types, NEW t \in Callers, FindPage(t)
  PROVE  /\ Types' /\ UNCHANGED <<pageVars, cacheVars, held, memory_fault>>
         /\ loc'[t].cache = loc[t].cache /\ loc'[t].then = loc[t].then
         /\ loc'[t].big = loc[t].big /\ loc'[t].at = loc[t].at
         /\ \/ Moved(t, "find", "got") /\ loc'[t].address = NoAddress /\ Says("no page")
            \/ /\ Moved(t, "find", "mark") /\ loc'[t].page \in Pages \ bits_map
               /\ loc'[t].word = bits_map /\ loc'[t].was = <<page_free_count>>
               /\ failed' = failed
<1> DEFINE l == loc[t]
           free == Pages \ bits_map
<1>0. /\ l \in LocType /\ LocFits(t) /\ bits_map \subseteq Pages /\ page_free_count \in Int
  BY DEF Types, MemoryTypeOK
<1>1. CASE free = {} \/ page_free_count < 1
  <2> DEFINE r == [l EXCEPT !.address = NoAddress]
  <2>1. r \in LocType /\ "got" \in PCs
    BY <1>0 DEF LocType, Maybe, PCs
  <2>2. /\ r.address = NoAddress /\ r.cache = l.cache /\ r.then = l.then /\ r.big = l.big /\ r.at = l.at
    BY <1>0 DEF LocType
  <2>3. At(t, "find") /\ Goto(t, "got", r) /\ current' = current /\ memory_hit' = memory_hit /\ Says("no page")
    BY <1>1 DEF FindPage
  <2> HIDE DEF r
  <2>4. memory_pc' \in [Callers -> PCs] /\ loc' \in [Callers -> LocType] /\ Moved(t, "find", "got") /\ Has(t, r)
    BY <2>1, <2>3, Goes
  <2>6. LocFits(t)'
    BY <1>0, <2>2, <2>4 DEF LocFits, HasBig, HasPage, AllocPCs, Moved, Has
  <2>7. \A u \in Callers : LocFits(u)'
    BY <2>4, <2>6, OthersFit DEF Moved
  <2>8. Types'
    BY <2>3, <2>4, <2>7 DEF Types, MemoryTypeOK, FindPage, Says, Messages, pageVars, cacheVars, Slabs
  <2> QED
    BY <2>2, <2>3, <2>4, <2>8 DEF FindPage, Has
<1>2. CASE ~(free = {} \/ page_free_count < 1)
  <2> DEFINE r == [l EXCEPT !.page = Min(free), !.word = bits_map, !.was = <<page_free_count>>]
  <2>2. Min(free) \in free
    BY <1>2, MinIs, Apart
  <2>3. r \in LocType /\ "mark" \in PCs /\ "mark" \in Windows
    <3>1. Min(free) \in AllPages \cup {0} /\ <<page_free_count>> \in Seq(Int)
      BY <1>0, <2>2, Apart
    <3> HIDE DEF l
    <3> QED
      BY <1>0, <3>1 DEF LocType, PCs, Windows
  <2>4. /\ r.page = Min(free) /\ r.word = bits_map /\ r.was = <<page_free_count>>
        /\ r.cache = l.cache /\ r.then = l.then /\ r.big = l.big /\ r.at = l.at
    BY <1>0 DEF LocType
  <2>1. At(t, "find") /\ Goto(t, "mark", r) /\ current' = current /\ memory_hit' = memory_hit /\ failed' = failed
    BY <1>2 DEF FindPage
  <2> HIDE DEF r
  <2>5. memory_pc' \in [Callers -> PCs] /\ loc' \in [Callers -> LocType] /\ Moved(t, "find", "mark") /\ Has(t, r)
    BY <2>1, <2>3, Goes
  <2>6. Len(r.was) = 1
    BY <2>4
  <2>7. LocFits(t)'
    BY <1>0, <2>2, <2>3, <2>4, <2>5, <2>6, ZenonT(40) DEF LocFits, HasBig, HasPage, AllocPCs, Moved, Has
  <2>8. \A u \in Callers : LocFits(u)'
    BY <2>5, <2>7, OthersFit DEF Moved
  <2>9. Types'
    BY <2>1, <2>5, <2>8 DEF Types, MemoryTypeOK, FindPage, pageVars, cacheVars, Slabs
  <2> QED
    BY <2>1, <2>2, <2>3, <2>4, <2>5, <2>9 DEF FindPage, Moved, Has
<1> QED
  BY <1>1, <1>2

\* free_pages loads the word of the map and the count.
LEMMA LoadBitsStep ==
  ASSUME Types, NEW t \in Callers, LoadBits(t)
  PROVE  /\ Types' /\ UNCHANGED <<pageVars, cacheVars, held, memory_fault, failed>>
         /\ Moved(t, "clean", "release")
         /\ loc'[t].cache = loc[t].cache /\ loc'[t].then = loc[t].then
         /\ loc'[t].page = loc[t].page /\ loc'[t].big = loc[t].big /\ loc'[t].at = loc[t].at
         /\ loc'[t].word = bits_map /\ loc'[t].was = <<page_free_count>>
<1> DEFINE l == loc[t]
           r == [l EXCEPT !.word = bits_map, !.was = <<page_free_count>>]
<1>0. l \in LocType /\ LocFits(t) /\ bits_map \subseteq Pages /\ page_free_count \in Int
  BY DEF Types, MemoryTypeOK
<1>1. r \in LocType /\ "release" \in PCs /\ "release" \in Windows
  <2>1. <<page_free_count>> \in Seq(Int)
    BY <1>0
  <2> HIDE DEF l
  <2> QED
    BY <1>0, <2>1 DEF LocType, PCs, Windows
<1>2. /\ r.word = bits_map /\ r.was = <<page_free_count>> /\ Len(r.was) = 1
      /\ r.cache = l.cache /\ r.then = l.then /\ r.page = l.page /\ r.big = l.big /\ r.at = l.at
  BY <1>0 DEF LocType
<1>3. At(t, "clean") /\ Goto(t, "release", r) /\ current' = current /\ memory_hit' = memory_hit
  BY DEF LoadBits
<1> HIDE DEF r
<1>4. memory_pc' \in [Callers -> PCs] /\ loc' \in [Callers -> LocType] /\ Moved(t, "clean", "release") /\ Has(t, r)
  BY <1>1, <1>3, Goes
<1>5. LocFits(t)'
  BY <1>0, <1>1, <1>2, <1>4 DEF LocFits, HasBig, HasPage, AllocPCs, Moved, Has
<1>6. \A u \in Callers : LocFits(u)'
  BY <1>4, <1>5, OthersFit DEF Moved
<1>7. Types'
  BY <1>3, <1>4, <1>6 DEF Types, MemoryTypeOK, LoadBits, pageVars, cacheVars, Slabs
<1> QED
  BY <1>1, <1>2, <1>4, <1>7 DEF LoadBits, Moved, Has

\* free_pages stores them; a big slab's struct is freed behind its page.
LEMMA FreePageStep ==
  ASSUME Types, NEW t \in Callers, FreePage(t)
  PROVE  /\ Types' /\ UNCHANGED <<cacheVars, held, memory_fault, failed>>
         /\ bits_map' = loc[t].word \ {loc[t].page} /\ page_free_count' = loc[t].was[1] + 1
         /\ loc'[t].big = loc[t].big /\ loc'[t].at = loc[t].at /\ loc'[t].cache = "small"
         /\ \/ /\ Moved(t, "release", "freed")
               /\ loc[t].cache = "small" /\ loc'[t].then = loc[t].then
            \/ /\ Moved(t, "release", "kfree") /\ loc[t].cache = "big" /\ loc[t].then = "user"
               /\ loc'[t].then = "struct" /\ loc'[t].address = loc[t].at
<1> DEFINE l == loc[t]
           r == IF l.cache = "small" THEN l
                ELSE [l EXCEPT !.cache = "small", !.then = "struct", !.address = l.at]
           to == IF l.cache = "small" THEN "freed" ELSE "kfree"
<1>0. l \in LocType /\ LocFits(t) /\ memory_pc[t] = "release"
  BY DEF Types, MemoryTypeOK, FreePage, At
<1>1. r \in LocType /\ to \in PCs
  BY <1>0 DEF LocType, PCs, Caches, Thens
<1>2. /\ r.big = l.big /\ r.at = l.at /\ r.cache = "small"
      /\ l.cache = "small" => r.then = l.then
      /\ l.cache # "small" => r.then = "struct" /\ r.address = l.at
  BY <1>0 DEF LocType
<1>3. At(t, "release") /\ Goto(t, to, r) /\ current' = current /\ memory_hit' = memory_hit
  BY DEF FreePage
<1> HIDE DEF r
<1>4. memory_pc' \in [Callers -> PCs] /\ loc' \in [Callers -> LocType] /\ Moved(t, "release", to) /\ Has(t, r)
  BY <1>1, <1>3, Goes
<1>5. l.cache \in Caches /\ (l.cache = "big" => l.then = "user")
  BY <1>0 DEF LocFits, LocType
<1>6. LocFits(t)'
  BY <1>0, <1>2, <1>4 DEF LocFits, HasBig, HasPage, AllocPCs, Moved, Has
<1>7. \A u \in Callers : LocFits(u)'
  BY <1>4, <1>6, OthersFit DEF Moved
<1>8. l.word \subseteq Pages /\ l.was[1] \in Int
  <2>1. l.was \in Seq(Int) /\ Len(l.was) = 1 /\ l.word \subseteq Pages
    BY <1>0 DEF LocFits, LocType
  <2> QED
    BY <2>1, ElementOfSeq
<1>9. bits_map' = l.word \ {l.page} /\ page_free_count' = l.was[1] + 1
  BY DEF FreePage
<1>10. Types'
  BY <1>3, <1>4, <1>7, <1>8, <1>9 DEF Types, MemoryTypeOK, FreePage, cacheVars, Slabs
<1> QED
  BY <1>2, <1>4, <1>5, <1>9, <1>10 DEF FreePage, Has, Caches

\* A task enters kmalloc.
LEMMA KmallocStep ==
  ASSUME Types, NEW t \in Callers, NEW c \in Caches, Kmalloc(t, c)
  PROVE  /\ Types' /\ UNCHANGED <<pageVars, cacheVars, held, memory_fault, failed>>
         /\ Moved(t, "run", "choose") /\ loc[t] = Unused
         /\ loc'[t].cache = c /\ loc'[t].then = "user" /\ loc'[t].at = NoAddress
<1> DEFINE r == [Unused EXCEPT !.cache = c]
<1>0. loc[t] = Unused
  BY DEF Types, Kmalloc, At, LocFits
<1>1. r \in LocType /\ "choose" \in PCs
  BY FirstValues DEF LocType, PCs
<1>2. r.cache = c /\ r.then = "user" /\ r.at = NoAddress
  BY FirstValues DEF LocType
<1>3. At(t, "run") /\ Goto(t, "choose", r) /\ current' = current /\ memory_hit' = memory_hit
  BY DEF Kmalloc
<1> HIDE DEF r
<1>4. memory_pc' \in [Callers -> PCs] /\ loc' \in [Callers -> LocType] /\ Moved(t, "run", "choose") /\ Has(t, r)
  BY <1>1, <1>3, Goes
<1>5. LocFits(t)'
  BY <1>2, <1>4 DEF LocFits, HasBig, HasPage, AllocPCs, Moved, Has
<1>6. \A u \in Callers : LocFits(u)'
  BY <1>4, <1>5, OthersFit DEF Moved
<1>7. Types'
  BY <1>3, <1>4, <1>6 DEF Types, MemoryTypeOK, Kmalloc, pageVars, cacheVars, Slabs
<1> QED
  BY <1>0, <1>2, <1>4, <1>7 DEF Kmalloc, Has

\* Where kmalloc looks is a slab of the cache.
LEMMA FirstFreeIs ==
  ASSUME Types, NEW c \in Caches
  PROVE  /\ FirstFree(c) \in Slabs(c) /\ FirstFree(c) \in AllPages
         /\ (\E p \in Slabs(c) : slab[p].free_count # 0) => slab[FirstFree(c)].free_count # 0
<1> DEFINE free == {i \in DOMAIN pool[c] : slab[pool[c][i]].free_count # 0}
<1>1. pool[c] \in Seq(AllPages)
  BY DEF Types, MemoryTypeOK
<1>2. DOMAIN pool[c] \subseteq Nat /\ \A i \in DOMAIN pool[c] : pool[c][i] \in Slabs(c) /\ pool[c][i] \in AllPages
  BY <1>1, LenProperties, ElementOfSeq DEF Slabs, ToSet
<1>3. CASE free = {}
  <2>1. FirstFree(c) = PoolPage[c]
    BY <1>3 DEF FirstFree
  <2>2. ~\E p \in Slabs(c) : slab[p].free_count # 0
    BY <1>3, SMTT(20) DEF Slabs, ToSet
  <2> QED
    BY <2>1, <2>2, Apart DEF Types
<1>4. CASE free # {}
  <2>1. Min(free) \in free
    BY <1>2, <1>4, MinIs, SMTT(15)
  <2>2. FirstFree(c) = pool[c][Min(free)]
    BY <1>4 DEF FirstFree
  <2> HIDE DEF free
  <2>3. Min(free) \in DOMAIN pool[c] /\ slab[pool[c][Min(free)]].free_count # 0
    BY <2>1 DEF free
  <2> QED
    BY <1>2, <2>2, <2>3
<1> QED
  BY <1>3, <1>4

\* kmalloc looks for a slab with a free object, or sees it must add one.
LEMMA ChooseStep ==
  ASSUME Types, NEW t \in Callers, Choose(t)
  PROVE  /\ Types' /\ UNCHANGED <<pageVars, cacheVars, held, memory_fault, failed>>
         /\ loc'[t].cache = loc[t].cache /\ loc'[t].then = loc[t].then
         /\ loc'[t].big = loc[t].big /\ loc'[t].at = loc[t].at
         /\ \/ Moved(t, "choose", "find") /\ total_free[loc[t].cache] = 0
            \/ /\ Moved(t, "choose", "test") /\ total_free[loc[t].cache] # 0
               /\ loc'[t].page = FirstFree(loc[t].cache)
<1> DEFINE l == loc[t]
           p == FirstFree(l.cache)
           r == IF total_free[l.cache] = 0 THEN l ELSE [l EXCEPT !.page = p]
           to == IF total_free[l.cache] = 0 THEN "find" ELSE "test"
<1>0. l \in LocType /\ LocFits(t) /\ memory_pc[t] = "choose" /\ p \in AllPages
  BY FirstFreeIs DEF Types, MemoryTypeOK, Choose, At, LocType
<1>1. r \in LocType /\ to \in PCs
  <2> HIDE DEF p
  <2> QED
    BY <1>0 DEF LocType, PCs, Windows
<1>2. /\ r.cache = l.cache /\ r.then = l.then /\ r.big = l.big /\ r.at = l.at
      /\ total_free[l.cache] # 0 => r.page = p
  BY <1>0 DEF LocType
<1>3. At(t, "choose") /\ Goto(t, to, r) /\ current' = current /\ memory_hit' = memory_hit
  BY DEF Choose
<1> HIDE DEF r
<1>4. memory_pc' \in [Callers -> PCs] /\ loc' \in [Callers -> LocType] /\ Moved(t, "choose", to) /\ Has(t, r)
  BY <1>1, <1>3, Goes
<1>5. LocFits(t)'
  BY <1>0, <1>2, <1>4 DEF LocFits, HasBig, HasPage, AllocPCs, Moved, Has
<1>6. \A u \in Callers : LocFits(u)'
  BY <1>4, <1>5, OthersFit DEF Moved
<1>7. Types'
  BY <1>3, <1>4, <1>6 DEF Types, MemoryTypeOK, Choose, pageVars, cacheVars, Slabs
<1> QED
  BY <1>2, <1>4, <1>7 DEF Choose, Has

\* alloc_pages stores the word and the count; a small slab is filled in.
LEMMA MarkPageStep ==
  ASSUME Types, NEW t \in Callers, MarkPage(t)
  PROVE  /\ Types' /\ UNCHANGED <<pool, total_free, total_using, held, failed>>
         /\ loc[t].page \in Pages
         /\ bits_map' = loc[t].word \cup {loc[t].page} /\ page_free_count' = loc[t].was[1] - 1
         /\ memory_fault' = IF loc[t].page \in InSlabs THEN "page_shared" ELSE "none"
         /\ loc'[t].cache = "small" /\ loc'[t].at = loc[t].at
         /\ \/ /\ Moved(t, "mark", "link") /\ loc[t].cache = "small"
               /\ loc'[t].then = loc[t].then /\ loc'[t].page = loc[t].page
               /\ loc'[t].big = loc[t].big /\ loc'[t].was = <<total_free["small"]>>
               /\ slab'[loc[t].page] = NewSlab
               /\ \A p \in AllPages \ {loc[t].page} : slab'[p] = slab[p]
            \/ /\ Moved(t, "mark", "choose") /\ loc[t].cache = "big" /\ loc[t].then = "user"
               /\ loc'[t].then = "struct" /\ loc'[t].big = loc[t].page /\ slab' = slab
<1> DEFINE l == loc[t]
           r == IF l.cache = "small" THEN [l EXCEPT !.was = <<total_free[l.cache]>>]
                ELSE [l EXCEPT !.cache = "small", !.then = "struct", !.big = l.page]
           to == IF l.cache = "small" THEN "link" ELSE "choose"
<1>0. l \in LocType /\ LocFits(t) /\ memory_pc[t] = "mark" /\ l.page \in Pages /\ l.cache \in Caches
  BY DEF Types, MemoryTypeOK, MarkPage, At, LocType, LocFits
<1>1. r \in LocType /\ to \in PCs
  <2>1. <<total_free[l.cache]>> \in Seq(Int)
    BY <1>0 DEF Types, MemoryTypeOK
  <2> HIDE DEF l
  <2> QED
    BY <1>0, <2>1 DEF LocType, PCs, Windows, Caches, Thens
<1>2. /\ r.cache = "small" /\ r.page = l.page /\ r.at = l.at
      /\ l.cache = "small" => r.then = l.then /\ r.big = l.big /\ r.was = <<total_free["small"]>> /\ Len(r.was) = 1
      /\ l.cache # "small" => r.then = "struct" /\ r.big = l.page
  BY <1>0 DEF LocType
<1>3. At(t, "mark") /\ Goto(t, to, r) /\ current' = current /\ memory_hit' = memory_hit
  BY DEF MarkPage, ToLink
<1> HIDE DEF r
<1>4. memory_pc' \in [Callers -> PCs] /\ loc' \in [Callers -> LocType] /\ Moved(t, "mark", to) /\ Has(t, r)
  BY <1>1, <1>3, Goes
<1>5. l.cache # "small" => l.cache = "big" /\ l.then = "user"
  BY <1>0 DEF LocFits, LocType, Caches, AllocPCs
<1>6. LocFits(t)'
  BY <1>0, <1>2, <1>4 DEF LocFits, HasBig, HasPage, AllocPCs, Moved, Has, Windows
<1>7. \A u \in Callers : LocFits(u)'
  BY <1>4, <1>6, OthersFit DEF Moved
<1>8. l.word \subseteq Pages /\ l.was[1] \in Int
  <2>1. l.was \in Seq(Int) /\ Len(l.was) = 1 /\ l.word \subseteq Pages
    BY <1>0 DEF LocFits, LocType
  <2> QED
    BY <2>1, ElementOfSeq
<1>9. /\ bits_map' = l.word \cup {l.page} /\ page_free_count' = l.was[1] - 1
      /\ memory_fault' = IF l.page \in InSlabs THEN "page_shared" ELSE "none"
      /\ UNCHANGED <<pool, total_free, total_using, held, failed>>
      /\ IF l.cache = "small" THEN slab' = [slab EXCEPT ![l.page] = NewSlab] ELSE slab' = slab
  BY DEF MarkPage
<1>10. /\ slab \in [AllPages -> SlabType] /\ slab' \in [AllPages -> SlabType]
       /\ \A p \in AllPages \ {l.page} : slab'[p] = slab[p]
       /\ l.cache = "small" => slab'[l.page] = NewSlab
  BY <1>0, <1>9, Apart, FirstValues DEF Types
<1>11. MemoryTypeOK'
  BY <1>0, <1>3, <1>4, <1>8, <1>9, <1>10 DEF Types, MemoryTypeOK, SlabType, Maybe
<1>12. Types'
  BY <1>0, <1>4, <1>7, <1>9, <1>10, <1>11, Apart DEF Types, Slabs
<1> QED
  BY <1>0, <1>2, <1>4, <1>5, <1>9, <1>10, <1>12 DEF Has, Moved, Windows

\* The new slab goes behind the others, and its objects are counted.
LEMMA LinkStep ==
  ASSUME Types, NEW t \in Callers, Link(t)
  PROVE  /\ Types' /\ UNCHANGED <<pageVars, slab, total_using, held, failed>>
         /\ Moved(t, "link", "test") /\ loc[t].page \in Pages
         /\ memory_fault' = IF loc[t].page \in InSlabs THEN "page_shared" ELSE "none"
         /\ loc'[t].cache = loc[t].cache /\ loc'[t].then = loc[t].then
         /\ loc'[t].page = loc[t].page /\ loc'[t].big = loc[t].big /\ loc'[t].at = loc[t].at
         /\ total_free' = [total_free EXCEPT ![loc[t].cache] = loc[t].was[1] + Colors]
         /\ \A c \in Caches :
              Slabs(c)' = IF c = loc[t].cache THEN Slabs(c) \cup {loc[t].page} ELSE Slabs(c)
         /\ (\A c \in Caches : IsInjective(pool[c])) /\ loc[t].page \notin InSlabs
              => \A c \in Caches : IsInjective(pool'[c])
<1> DEFINE l == loc[t]
<1>0. l \in LocType /\ LocFits(t) /\ memory_pc[t] = "link" /\ l.page \in Pages /\ l.cache \in Caches
  BY DEF Types, MemoryTypeOK, Link, At, LocType, LocFits, HasPage
<1>1. "test" \in PCs
  BY DEF PCs, Windows
<1>3. At(t, "link") /\ Goto(t, "test", l) /\ current' = current /\ memory_hit' = memory_hit
  BY DEF Link
<1>4. memory_pc' \in [Callers -> PCs] /\ loc' \in [Callers -> LocType] /\ Moved(t, "link", "test") /\ Has(t, l)
  BY <1>0, <1>1, <1>3, Goes
<1>6. LocFits(t)'
  BY <1>0, <1>4 DEF LocFits, HasBig, HasPage, AllocPCs, Moved, Has
<1>7. \A u \in Callers : LocFits(u)'
  BY <1>4, <1>6, OthersFit DEF Moved
<1>8. l.was[1] \in Int
  <2>1. l.was \in Seq(Int) /\ Len(l.was) = 1
    BY <1>0 DEF LocFits, LocType
  <2> QED
    BY <2>1, ElementOfSeq
<1>9. /\ total_free' = [total_free EXCEPT ![l.cache] = l.was[1] + Colors]
      /\ pool' = [pool EXCEPT ![l.cache] = Append(@, l.page)]
      /\ memory_fault' = IF l.page \in InSlabs THEN "page_shared" ELSE "none"
      /\ UNCHANGED <<pageVars, slab, total_using, held, failed>>
  BY DEF Link
<1>10. pool \in [Caches -> Seq(AllPages)] /\ total_free \in [Caches -> Int] /\ Colors \in Int
  BY MemoryAssumption DEF Types, MemoryTypeOK
<1>11. /\ Append(pool[l.cache], l.page) \in Seq(AllPages)
       /\ ToSet(Append(pool[l.cache], l.page)) = ToSet(pool[l.cache]) \cup {l.page}
       /\ IsInjective(pool[l.cache]) /\ l.page \notin ToSet(pool[l.cache])
            => IsInjective(Append(pool[l.cache], l.page))
  BY <1>0, <1>10, AppendEntries, Apart
<1>12. /\ pool' \in [Caches -> Seq(AllPages)] /\ total_free' \in [Caches -> Int]
       /\ pool'[l.cache] = Append(pool[l.cache], l.page)
       /\ \A c \in Caches : c # l.cache => pool'[c] = pool[c]
  BY <1>0, <1>8, <1>9, <1>10, <1>11
<1>16. ASSUME NEW c \in Caches
       PROVE  Slabs(c)' = IF c = l.cache THEN Slabs(c) \cup {l.page} ELSE Slabs(c)
  BY <1>11, <1>12 DEF Slabs
<1>13. (\A c \in Caches : IsInjective(pool[c])) /\ l.page \notin InSlabs
         => \A c \in Caches : IsInjective(pool'[c])
  BY <1>0, <1>9, <1>10, <1>11, <1>12 DEF InSlabs, Slabs
<1>14. MemoryTypeOK'
  BY <1>0, <1>3, <1>4, <1>9, <1>12 DEF Types, MemoryTypeOK, pageVars
<1>15. Types'
  <2>1. ASSUME NEW c \in Caches PROVE Slabs(c)' \subseteq Pages \cup {PoolPage[c]} /\ PoolPage[c] \in Slabs(c)'
    BY <1>0, <1>16 DEF Types
  <2> QED
    BY <1>4, <1>7, <1>9, <1>14, <2>1 DEF Types
<1> QED
  BY <1>0, <1>4, <1>9, <1>13, <1>15, <1>16 DEF Has, Moved

\* The kernel goes wrong, and nothing else changes.
Fails(t, from, how) ==
  /\ MemoryAlive /\ t = current /\ memory_pc[t] = from /\ memory_fault' = how
  /\ UNCHANGED <<pageVars, cacheVars, current, memory_pc, loc, held, failed, memory_hit>>

\* A step that goes wrong changes the fault only.
LEMMA FailureTypes ==
  ASSUME Types, NEW t, NEW from, NEW how, Fails(t, from, how),
         how \in {"null_deref", "use_after_free", "given_twice", "page_shared"}
  PROVE  Types'
<1>1. UNCHANGED <<bits_map, page_free_count, pool, slab, total_free, total_using, current, memory_pc, loc, held, failed, memory_hit>>
  BY DEF Fails, pageVars, cacheVars
<1>2. MemoryTypeOK'
  BY <1>1 DEF Types, MemoryTypeOK, Fails
<1>3. \A u \in Callers : LocFits(u)'
  BY <1>1 DEF Types, LocFits, HasBig, HasPage
<1> QED
  BY <1>1, <1>2, <1>3 DEF Types, Slabs

\* kmalloc looks for a color that is free.
LEMMA TestStep ==
  ASSUME Types, NEW t \in Callers, Test(t)
  PROVE  /\ Types'
         /\ \/ Fails(t, "test", "use_after_free") /\ ~Linked(loc[t])
            \/ /\ UNCHANGED <<pageVars, cacheVars, held, memory_fault>> /\ Linked(loc[t])
               /\ loc'[t].cache = loc[t].cache /\ loc'[t].then = loc[t].then
               /\ loc'[t].page = loc[t].page /\ loc'[t].big = loc[t].big /\ loc'[t].at = loc[t].at
               /\ \/ /\ Moved(t, "test", "got") /\ slab[loc[t].page].color_map = Indices
                     /\ loc'[t].address = NoAddress /\ Says("no memory")
                  \/ /\ Moved(t, "test", "set") /\ loc'[t].word = slab[loc[t].page].color_map
                     /\ loc'[t].address \in Addresses /\ loc'[t].address[1] = loc[t].page
                     /\ loc'[t].address[2] \in Indices \ loc'[t].word /\ failed' = failed
<1> DEFINE l == loc[t]
           used == slab[l.page].color_map
<1>0. l \in LocType /\ LocFits(t) /\ memory_pc[t] = "test" /\ l.cache \in Caches
  BY DEF Types, MemoryTypeOK, Test, At, LocType
<1>1. CASE ~Linked(l)
  <2>1. Fails(t, "test", "use_after_free")
    BY <1>1 DEF Test, Fails, At, Dangles
  <2> QED
    BY <1>1, <2>1, FailureTypes
<1>2. CASE Linked(l) /\ used = Indices
  <2> DEFINE r == [l EXCEPT !.address = NoAddress]
  <2>1. r \in LocType /\ "got" \in PCs
    BY <1>0 DEF LocType, Maybe, PCs
  <2>2. /\ r.address = NoAddress /\ r.cache = l.cache /\ r.then = l.then /\ r.page = l.page
        /\ r.big = l.big /\ r.at = l.at
    BY <1>0 DEF LocType
  <2>3. /\ At(t, "test") /\ Goto(t, "got", r) /\ current' = current /\ memory_hit' = memory_hit
        /\ Says("no memory") /\ UNCHANGED <<pageVars, cacheVars, held, memory_fault>>
    BY <1>2 DEF Test
  <2> HIDE DEF r
  <2>4. memory_pc' \in [Callers -> PCs] /\ loc' \in [Callers -> LocType] /\ Moved(t, "test", "got") /\ Has(t, r)
    BY <2>1, <2>3, Goes
  <2>6. LocFits(t)'
    BY <1>0, <2>2, <2>4 DEF LocFits, HasBig, HasPage, AllocPCs, Moved, Has
  <2>7. \A u \in Callers : LocFits(u)'
    BY <2>4, <2>6, OthersFit DEF Moved
  <2>8. Types'
    BY <2>3, <2>4, <2>7 DEF Types, MemoryTypeOK, Says, Messages, pageVars, cacheVars, Slabs
  <2> QED
    BY <1>2, <2>2, <2>3, <2>4, <2>8 DEF Has
<1>3. CASE Linked(l) /\ used # Indices
  <2> DEFINE j == Min(Indices \ used)
             r == [l EXCEPT !.word = used, !.address = <<l.page, j>>]
  <2>1. l.page \in AllPages
    BY <1>0, <1>3, Apart DEF Linked, Types
  <2>2. used \subseteq Indices
    BY <2>1 DEF Types, SlabType
  <2>3. j \in Indices \ used
    BY <1>3, <2>2, MinIs, Apart
  <2> HIDE DEF j
  <2>4. <<l.page, j>> \in Addresses
    BY <2>1, <2>3, Apart
  <2>5. r \in LocType /\ "set" \in PCs /\ "set" \in Windows
    <3> HIDE DEF l
    <3> QED
      BY <1>0, <2>2, <2>4 DEF LocType, PCs, Windows, Maybe
  <2>6. /\ r.address = <<l.page, j>> /\ r.cache = l.cache /\ r.then = l.then /\ r.page = l.page
        /\ r.big = l.big /\ r.at = l.at /\ r.word = used
    BY <1>0 DEF LocType
  <2>7. /\ At(t, "test") /\ Goto(t, "set", r) /\ current' = current /\ memory_hit' = memory_hit
        /\ UNCHANGED <<pageVars, cacheVars, held, memory_fault, failed>>
    BY <1>3 DEF Test, j
  <2> HIDE DEF r
  <2>8. memory_pc' \in [Callers -> PCs] /\ loc' \in [Callers -> LocType] /\ Moved(t, "test", "set") /\ Has(t, r)
    BY <2>5, <2>7, Goes
  <2>9. LocFits(t)'
    BY <1>0, <2>2, <2>4, <2>5, <2>6, <2>8 DEF LocFits, HasBig, HasPage, AllocPCs, Moved, Has
  <2>10. \A u \in Callers : LocFits(u)'
    BY <2>8, <2>9, OthersFit DEF Moved
  <2>11. Types'
    BY <2>7, <2>8, <2>10 DEF Types, MemoryTypeOK, pageVars, cacheVars, Slabs
  <2>12. /\ loc'[t].address = <<l.page, j>> /\ loc'[t].word = used
         /\ loc'[t].cache = l.cache /\ loc'[t].then = l.then /\ loc'[t].page = l.page
         /\ loc'[t].big = l.big /\ loc'[t].at = l.at
    BY <2>5, <2>6, <2>8 DEF Has, Moved
  <2>13. loc'[t].address[1] = l.page /\ loc'[t].address[2] \in Indices \ loc'[t].word
    BY <2>3, <2>12
  <2> QED
    BY <1>3, <2>4, <2>7, <2>8, <2>11, <2>12, <2>13
<1> QED
  BY <1>1, <1>2, <1>3

\* A bit of a color_map is set, or inverted.
LEMMA StoreMapStep ==
  ASSUME Types, NEW t \in Callers, NEW from, NEW to \in {"count", "uncount"}, NEW map \in SUBSET Indices,
         At(t, from), StoreMap(t, to, map),
         loc[t].address \in Addresses, loc[t].address[1] = loc[t].page,
         from \in AllocPCs <=> to = "count",
         UNCHANGED <<pageVars, pool, total_free, total_using, current, held, failed, memory_hit>>
  PROVE  /\ Types'
         /\ \/ Fails(t, from, "use_after_free") /\ ~Linked(loc[t])
            \/ /\ Moved(t, from, to) /\ memory_fault' = memory_fault /\ Linked(loc[t]) /\ loc[t].page \in AllPages
               /\ loc'[t].cache = loc[t].cache /\ loc'[t].then = loc[t].then
               /\ loc'[t].address = loc[t].address
               /\ loc'[t].page = loc[t].page /\ loc'[t].big = loc[t].big /\ loc'[t].at = loc[t].at
               /\ loc'[t].was = Counters(loc[t])
               /\ slab'[loc[t].page] = [slab[loc[t].page] EXCEPT !.color_map = map]
               /\ \A p \in AllPages \ {loc[t].page} : slab'[p] = slab[p]
<1> DEFINE l == loc[t]
           r == [l EXCEPT !.was = Counters(l)]
<1>0. l \in LocType /\ LocFits(t) /\ l.cache \in Caches
  BY DEF Types, MemoryTypeOK, LocType
<1>1. CASE ~Linked(l)
  <2>1. Fails(t, from, "use_after_free")
    BY <1>1 DEF StoreMap, Fails, At, Dangles, pageVars, cacheVars
  <2> QED
    BY <1>1, <2>1, FailureTypes
<1>2. CASE Linked(l)
  <2>1. l.page \in AllPages
    BY <1>0, <1>2, Apart DEF Linked, Types
  <2>2. slab[l.page] \in SlabType /\ slab \in [AllPages -> SlabType]
    BY <2>1 DEF Types
  <2>3. Counters(l) \in Seq(Int) /\ Len(Counters(l)) = 4
    <3>1. slab[l.page].using_count \in Int /\ slab[l.page].free_count \in Int
      BY <2>2 DEF SlabType
    <3>2. total_using[l.cache] \in Int /\ total_free[l.cache] \in Int
      BY <1>0 DEF Types, MemoryTypeOK
    <3> QED
      BY <3>1, <3>2 DEF Counters
  <2>4. r \in LocType /\ to \in PCs /\ to \in Windows
    <3> HIDE DEF l
    <3> QED
      BY <1>0, <2>3 DEF LocType, PCs, Windows
  <2>5. /\ r.address = l.address /\ r.cache = l.cache /\ r.then = l.then /\ r.page = l.page
        /\ r.big = l.big /\ r.at = l.at /\ r.was = Counters(l)
    BY <1>0 DEF LocType
  <2>6. /\ Goto(t, to, r) /\ memory_fault' = memory_fault
        /\ slab' = [slab EXCEPT ![l.page].color_map = map]
    BY <1>2 DEF StoreMap
  <2> HIDE DEF r
  <2>7. memory_pc' \in [Callers -> PCs] /\ loc' \in [Callers -> LocType] /\ Moved(t, from, to) /\ Has(t, r)
    BY <2>4, <2>6, Goes
  <2>8. LocFits(t)'
    BY <1>0, <2>3, <2>4, <2>5, <2>7 DEF LocFits, HasBig, HasPage, AllocPCs, Moved, Has
  <2>9. \A u \in Callers : LocFits(u)'
    BY <2>7, <2>8, OthersFit DEF Moved
  <2>10. /\ slab'[l.page] = [slab[l.page] EXCEPT !.color_map = map]
         /\ \A p \in AllPages \ {l.page} : slab'[p] = slab[p]
         /\ slab' \in [AllPages -> SlabType]
    BY <2>1, <2>2, <2>6 DEF SlabType
  <2>11. \A p \in AllPages : slab'[p].at = slab[p].at /\ slab'[p].map_at = slab[p].map_at
    BY <2>2, <2>10 DEF SlabType
  <2>12. MemoryTypeOK'
    BY <2>6, <2>7, <2>10 DEF Types, MemoryTypeOK, pageVars, SlabType, Maybe
  <2>13. Types'
    BY <2>7, <2>9, <2>10, <2>11, <2>12, Apart DEF Types, Slabs
  <2>14. /\ loc'[t].cache = l.cache /\ loc'[t].then = l.then /\ loc'[t].page = l.page
         /\ loc'[t].address = l.address /\ loc'[t].big = l.big /\ loc'[t].at = l.at
         /\ loc'[t].was = Counters(l)
    BY <2>4, <2>5, <2>7 DEF Has, Moved
  <2> QED
    BY <1>2, <2>1, <2>6, <2>7, <2>10, <2>13, <2>14
<1> QED
  BY <1>1, <1>2

\* kmalloc takes the color.
LEMMA SetStep ==
  ASSUME Types, NEW t \in Callers, Set(t)
  PROVE  /\ Types' /\ UNCHANGED <<pageVars, pool, total_free, total_using, held, failed>>
         /\ \/ Fails(t, "set", "use_after_free") /\ ~Linked(loc[t])
            \/ /\ Moved(t, "set", "count") /\ memory_fault' = memory_fault /\ Linked(loc[t]) /\ loc[t].page \in AllPages
               /\ loc'[t].cache = loc[t].cache /\ loc'[t].then = loc[t].then
               /\ loc'[t].address = loc[t].address
               /\ loc'[t].page = loc[t].page /\ loc'[t].big = loc[t].big /\ loc'[t].at = loc[t].at
               /\ loc'[t].was = Counters(loc[t])
               /\ slab'[loc[t].page] = [slab[loc[t].page] EXCEPT !.color_map = loc[t].word \cup {loc[t].address[2]}]
               /\ \A p \in AllPages \ {loc[t].page} : slab'[p] = slab[p]
<1> DEFINE map == loc[t].word \cup {loc[t].address[2]}
<1>1. /\ loc[t].address \in Addresses /\ loc[t].address[1] = loc[t].page
      /\ loc[t].word \subseteq Indices
  BY DEF Types, LocFits, Set, At
<1>2. map \in SUBSET Indices
  BY <1>1, Apart
<1>3. /\ At(t, "set") /\ StoreMap(t, "count", map)
      /\ UNCHANGED <<pageVars, pool, total_free, total_using, current, held, failed, memory_hit>>
  BY DEF Set
<1>4. "set" \in AllocPCs
  BY DEF AllocPCs
<1> HIDE DEF map
<1>5. /\ Types'
      /\ \/ Fails(t, "set", "use_after_free") /\ ~Linked(loc[t])
         \/ /\ Moved(t, "set", "count") /\ memory_fault' = memory_fault /\ Linked(loc[t]) /\ loc[t].page \in AllPages
            /\ loc'[t].cache = loc[t].cache /\ loc'[t].then = loc[t].then
            /\ loc'[t].address = loc[t].address
            /\ loc'[t].page = loc[t].page /\ loc'[t].big = loc[t].big /\ loc'[t].at = loc[t].at
            /\ loc'[t].was = Counters(loc[t])
            /\ slab'[loc[t].page] = [slab[loc[t].page] EXCEPT !.color_map = map]
            /\ \A p \in AllPages \ {loc[t].page} : slab'[p] = slab[p]
  BY <1>1, <1>2, <1>3, <1>4, StoreMapStep
<1> QED
  BY <1>3, <1>5 DEF map

\* kfree inverts the color's bit.
LEMMA FlipStep ==
  ASSUME Types, NEW t \in Callers, Flip(t)
  PROVE  /\ Types' /\ UNCHANGED <<pageVars, pool, total_free, total_using, held, failed>>
         /\ \/ Fails(t, "flip", "use_after_free") /\ ~Linked(loc[t])
            \/ /\ Moved(t, "flip", "uncount") /\ memory_fault' = memory_fault /\ Linked(loc[t]) /\ loc[t].page \in AllPages
               /\ loc'[t].cache = loc[t].cache /\ loc'[t].then = loc[t].then
               /\ loc'[t].page = loc[t].page /\ loc'[t].big = loc[t].big /\ loc'[t].at = loc[t].at
               /\ loc'[t].was = Counters(loc[t])
               /\ slab'[loc[t].page] =
                    [slab[loc[t].page] EXCEPT !.color_map = SymDiff(loc[t].word, {loc[t].address[2]})]
               /\ \A p \in AllPages \ {loc[t].page} : slab'[p] = slab[p]
<1> DEFINE map == SymDiff(loc[t].word, {loc[t].address[2]})
<1>1. /\ loc[t].address \in Addresses /\ loc[t].address[1] = loc[t].page
      /\ loc[t].word \subseteq Indices
  BY DEF Types, LocFits, Flip, At
<1>2. map \in SUBSET Indices
  BY <1>1, Apart DEF SymDiff
<1>3. /\ At(t, "flip") /\ StoreMap(t, "uncount", map)
      /\ UNCHANGED <<pageVars, pool, total_free, total_using, current, held, failed, memory_hit>>
  BY DEF Flip
<1>4. "flip" \notin AllocPCs
  BY DEF AllocPCs
<1> HIDE DEF map
<1>5. /\ Types'
      /\ \/ Fails(t, "flip", "use_after_free") /\ ~Linked(loc[t])
         \/ /\ Moved(t, "flip", "uncount") /\ memory_fault' = memory_fault /\ Linked(loc[t]) /\ loc[t].page \in AllPages
            /\ loc'[t].cache = loc[t].cache /\ loc'[t].then = loc[t].then
            /\ loc'[t].address = loc[t].address
            /\ loc'[t].page = loc[t].page /\ loc'[t].big = loc[t].big /\ loc'[t].at = loc[t].at
            /\ loc'[t].was = Counters(loc[t])
            /\ slab'[loc[t].page] = [slab[loc[t].page] EXCEPT !.color_map = map]
            /\ \A p \in AllPages \ {loc[t].page} : slab'[p] = slab[p]
  BY <1>1, <1>2, <1>3, <1>4, StoreMapStep
<1> QED
  BY <1>3, <1>5 DEF map

\* What StoreCounters writes.
LEMMA StoreCountersTypes ==
  ASSUME Types, NEW t \in Callers, NEW n \in Int, memory_pc[t] \in {"count", "uncount"},
         Linked(loc[t]), StoreCounters(loc[t], n)
  PROVE  /\ loc[t].page \in AllPages /\ slab' \in [AllPages -> SlabType]
         /\ slab'[loc[t].page].using_count = loc[t].was[1] + n
         /\ slab'[loc[t].page].free_count = loc[t].was[2] - n
         /\ \A p \in AllPages : /\ slab'[p].color_map = slab[p].color_map
                                /\ slab'[p].at = slab[p].at /\ slab'[p].map_at = slab[p].map_at
                                /\ p # loc[t].page => slab'[p] = slab[p]
         /\ total_using' \in [Caches -> Int] /\ total_free' \in [Caches -> Int]
         /\ \A i \in 1..4 : loc[t].was[i] \in Int
         /\ total_using'[loc[t].cache] = loc[t].was[3] + n
         /\ total_free'[loc[t].cache] = loc[t].was[4] - n
         /\ \A c \in Caches : c # loc[t].cache =>
              total_using'[c] = total_using[c] /\ total_free'[c] = total_free[c]
<1> DEFINE l == loc[t]
           mid == [slab EXCEPT ![l.page].using_count = l.was[1] + n]
<1>1. l \in LocType /\ l.cache \in Caches /\ l.was \in Seq(Int) /\ Len(l.was) = 4
  BY DEF Types, LocFits, LocType
<1>2. \A i \in 1..4 : l.was[i] \in Int
  BY <1>1, ElementOfSeq
<1>3. l.page \in AllPages
  BY <1>1, Apart DEF Linked, Types
<1>4. mid \in [AllPages -> SlabType] /\ slab \in [AllPages -> SlabType]
  BY <1>2, <1>3 DEF Types, SlabType
<1>5. slab' = [mid EXCEPT ![l.page].free_count = l.was[2] - n]
  BY <1>3, <1>4 DEF StoreCounters
<1>6. /\ mid[l.page].using_count = l.was[1] + n
      /\ \A p \in AllPages : /\ mid[p].color_map = slab[p].color_map
                             /\ mid[p].at = slab[p].at /\ mid[p].map_at = slab[p].map_at
                             /\ p # l.page => mid[p] = slab[p]
  BY <1>3, <1>4 DEF SlabType
<1> HIDE DEF mid
<1>7. /\ slab'[l.page].free_count = l.was[2] - n
      /\ slab'[l.page].using_count = mid[l.page].using_count
      /\ slab' \in [AllPages -> SlabType]
      /\ \A p \in AllPages : /\ slab'[p].color_map = mid[p].color_map
                             /\ slab'[p].at = mid[p].at /\ slab'[p].map_at = mid[p].map_at
                             /\ p # l.page => slab'[p] = mid[p]
  BY <1>2, <1>3, <1>4, <1>5 DEF SlabType
<1>8. /\ total_using' \in [Caches -> Int] /\ total_free' \in [Caches -> Int]
      /\ total_using'[l.cache] = l.was[3] + n /\ total_free'[l.cache] = l.was[4] - n
      /\ \A c \in Caches : c # l.cache =>
           total_using'[c] = total_using[c] /\ total_free'[c] = total_free[c]
  <2>1. total_using \in [Caches -> Int] /\ total_free \in [Caches -> Int]
    BY DEF Types, MemoryTypeOK
  <2>2. /\ total_using' = [total_using EXCEPT ![l.cache] = l.was[3] + n]
        /\ total_free' = [total_free EXCEPT ![l.cache] = l.was[4] - n]
    BY DEF StoreCounters
  <2>3. l.was[3] + n \in Int /\ l.was[4] - n \in Int
    BY <1>2
  <2> HIDE DEF l
  <2> QED
    BY <1>1, <2>1, <2>2, <2>3
<1> QED
  BY <1>2, <1>3, <1>6, <1>7, <1>8

\* kmalloc counts the object.
LEMMA CountStep ==
  ASSUME Types, NEW t \in Callers, Count(t)
  PROVE  /\ Types' /\ UNCHANGED <<pageVars, pool, held, failed>>
         /\ \/ Fails(t, "count", "use_after_free") /\ ~Linked(loc[t])
            \/ /\ Moved(t, "count", "got") /\ memory_fault' = memory_fault /\ Linked(loc[t]) /\ StoreCounters(loc[t], 1)
               /\ loc'[t].cache = loc[t].cache /\ loc'[t].then = loc[t].then
               /\ loc'[t].address = loc[t].address
               /\ loc'[t].page = loc[t].page /\ loc'[t].big = loc[t].big /\ loc'[t].at = loc[t].at
<1> DEFINE l == loc[t]
<1>0. l \in LocType /\ LocFits(t) /\ l.cache \in Caches /\ memory_pc[t] = "count"
  BY DEF Types, MemoryTypeOK, LocType, Count, At
<1>1. CASE ~Linked(l)
  <2>1. Fails(t, "count", "use_after_free")
    BY <1>1 DEF Count, Fails, At, Dangles, pageVars, cacheVars
  <2> QED
    BY <1>1, <2>1, FailureTypes DEF Count
<1>2. CASE Linked(l)
  <2>1. "got" \in PCs
    BY DEF PCs
  <2>2. /\ At(t, "count") /\ Goto(t, "got", l) /\ current' = current /\ memory_hit' = memory_hit
        /\ memory_fault' = memory_fault /\ StoreCounters(l, 1) /\ UNCHANGED <<pageVars, pool, held, failed>>
    BY <1>2 DEF Count
  <2>3. memory_pc' \in [Callers -> PCs] /\ loc' \in [Callers -> LocType] /\ Moved(t, "count", "got") /\ Has(t, l)
    BY <1>0, <2>1, <2>2, Goes
  <2>4. LocFits(t)'
    BY <1>0, <2>3 DEF LocFits, HasBig, HasPage, AllocPCs, Moved, Has
  <2>5. \A u \in Callers : LocFits(u)'
    BY <2>3, <2>4, OthersFit DEF Moved
  <2>6. /\ slab' \in [AllPages -> SlabType]
        /\ \A p \in AllPages : slab'[p].at = slab[p].at /\ slab'[p].map_at = slab[p].map_at
        /\ total_using' \in [Caches -> Int] /\ total_free' \in [Caches -> Int]
    <3>1. memory_pc[t] \in {"count", "uncount"}
      BY <1>0
    <3>2. Linked(loc[t]) /\ StoreCounters(loc[t], 1) /\ 1 \in Int
      BY <1>2, <2>2
    <3> QED
      BY <3>1, <3>2, StoreCountersTypes
  <2>7. MemoryTypeOK'
    BY <2>2, <2>3, <2>6 DEF Types, MemoryTypeOK, pageVars, SlabType, Maybe
  <2>8. Types'
    BY <2>2, <2>3, <2>5, <2>6, <2>7, Apart DEF Types, Slabs
  <2> QED
    BY <1>2, <2>2, <2>3, <2>8 DEF Has
<1> QED
  BY <1>1, <1>2

\* kfree counts it, and may go on to give the slab back.
LEMMA UncountStep ==
  ASSUME Types, NEW t \in Callers, Uncount(t)
  PROVE  /\ Types' /\ UNCHANGED <<pageVars, pool, held, failed>>
         /\ \/ Fails(t, "uncount", "use_after_free") /\ ~Linked(loc[t])
            \/ /\ memory_fault' = memory_fault /\ Linked(loc[t]) /\ StoreCounters(loc[t], -1)
               /\ loc'[t].cache = loc[t].cache /\ loc'[t].then = loc[t].then
               /\ loc'[t].page = loc[t].page /\ loc'[t].big = loc[t].big /\ loc'[t].at = loc[t].at
               /\ \/ Moved(t, "uncount", "freed")
                  \/ /\ Moved(t, "uncount", "unlink") /\ loc[t].was[1] = 1
                     /\ loc[t].page # PoolPage[loc[t].cache]
                     /\ loc'[t].was = <<loc[t].was[4] + 1>>
<1> DEFINE l == loc[t]
           back == Returnable(l.page, l.was[1] - 1, l.was[4] + 1, l.cache)
           r == IF back THEN [l EXCEPT !.was = <<l.was[4] + 1>>] ELSE l
           to == IF back THEN "unlink" ELSE "freed"
<1>0. l \in LocType /\ LocFits(t) /\ l.cache \in Caches /\ memory_pc[t] = "uncount"
  BY DEF Types, MemoryTypeOK, LocType, Uncount, At
<1>1. CASE ~Linked(l)
  <2>1. Fails(t, "uncount", "use_after_free")
    BY <1>1 DEF Uncount, Fails, At, Dangles, pageVars, cacheVars
  <2> QED
    BY <1>1, <2>1, FailureTypes DEF Uncount
<1>2. CASE Linked(l)
  <2>0. /\ slab' \in [AllPages -> SlabType]
        /\ \A p \in AllPages : slab'[p].at = slab[p].at /\ slab'[p].map_at = slab[p].map_at
        /\ total_using' \in [Caches -> Int] /\ total_free' \in [Caches -> Int]
        /\ \A i \in 1..4 : l.was[i] \in Int
    <3>1. memory_pc[t] \in {"count", "uncount"}
      BY <1>0
    <3>2. Linked(loc[t]) /\ StoreCounters(loc[t], -1) /\ -1 \in Int
      BY <1>2 DEF Uncount
    <3> QED
      BY <3>1, <3>2, StoreCountersTypes
  <2>1. to \in PCs /\ r \in LocType
    <3>1. <<l.was[4] + 1>> \in Seq(Int)
      BY <2>0
    <3> HIDE DEF l
    <3> QED
      BY <1>0, <3>1 DEF PCs, Windows, LocType
  <2>2. /\ At(t, "uncount") /\ Goto(t, to, r) /\ current' = current /\ memory_hit' = memory_hit
        /\ memory_fault' = memory_fault /\ StoreCounters(l, -1) /\ UNCHANGED <<pageVars, pool, held, failed>>
    BY <1>2 DEF Uncount
  <2>3. /\ r.cache = l.cache /\ r.then = l.then /\ r.page = l.page /\ r.big = l.big /\ r.at = l.at
        /\ back => r.was = <<l.was[4] + 1>> /\ Len(r.was) = 1
    BY <1>0 DEF LocType
  <2>4. back => l.was[1] = 1 /\ l.page # PoolPage[l.cache]
    BY <2>0 DEF Returnable
  <2> HIDE DEF r, back
  <2>5. memory_pc' \in [Callers -> PCs] /\ loc' \in [Callers -> LocType] /\ Moved(t, "uncount", to) /\ Has(t, r)
    BY <1>0, <2>1, <2>2, Goes
  <2>6. LocFits(t)'
    BY <1>0, <2>3, <2>4, <2>5 DEF LocFits, HasBig, HasPage, AllocPCs, Moved, Has, Windows
  <2>7. \A u \in Callers : LocFits(u)'
    BY <2>5, <2>6, OthersFit DEF Moved
  <2>8. MemoryTypeOK'
    BY <2>0, <2>2, <2>5 DEF Types, MemoryTypeOK, pageVars, SlabType, Maybe
  <2>9. Types'
    BY <2>0, <2>2, <2>5, <2>7, <2>8, Apart DEF Types, Slabs
  <2> QED
    BY <1>2, <2>2, <2>3, <2>4, <2>5, <2>9 DEF Has, Moved, Windows
<1> QED
  BY <1>1, <1>2

\* kmalloc returns to the task.
LEMMA GotStep ==
  ASSUME Types, NEW t \in Callers, Got(t)
  PROVE  /\ Types' /\ UNCHANGED <<pageVars, cacheVars, failed>> /\ loc[t].then = "user"
         /\ \/ Fails(t, "got", "given_twice") /\ loc[t].address \in held
            \/ /\ Moved(t, "got", "run") /\ memory_fault' = memory_fault /\ loc'[t] = Unused
               /\ loc[t].address \in Maybe \ held
               /\ held' = held \cup ({loc[t].address} \ {NoAddress})
<1> DEFINE l == loc[t]
<1>0. l \in LocType /\ l.address \in Maybe
  BY DEF Types, LocType
<1>1. CASE l.address \in held
  <2>1. Fails(t, "got", "given_twice")
    BY <1>1 DEF Got, Fails, At
  <2> QED
    BY <1>1, <2>1, FailureTypes DEF Got
<1>2. CASE l.address \notin held
  <2>1. "run" \in PCs /\ "run" \notin Windows
    BY DEF PCs, Windows
  <2>2. /\ At(t, "got") /\ Goto(t, "run", Unused) /\ current' = current /\ memory_hit' = memory_hit /\ memory_fault' = memory_fault
        /\ held' = held \cup ({l.address} \ {NoAddress}) /\ UNCHANGED <<pageVars, cacheVars, failed>>
    BY <1>2 DEF Got
  <2>3. memory_pc' \in [Callers -> PCs] /\ loc' \in [Callers -> LocType] /\ Moved(t, "got", "run")
    BY <2>1, <2>2, FirstValues, Goes
  <2>4. loc'[t] = Unused
    <3>1. loc'[t] = [Unused EXCEPT !.word = {}, !.was = <<>>]
      BY <2>1, <2>2 DEF Goto, Types
    <3> QED
      BY <3>1 DEF Unused
  <2>5. LocFits(t)'
    BY <2>3, <2>4, FirstValues DEF LocFits, HasBig, HasPage, AllocPCs, Moved
  <2>6. \A u \in Callers : LocFits(u)'
    BY <2>3, <2>5, OthersFit DEF Moved
  <2>7. held' \subseteq Addresses
    BY <1>0, <2>2 DEF Types, MemoryTypeOK, Maybe
  <2>8. Types'
    BY <2>2, <2>3, <2>6, <2>7 DEF Types, MemoryTypeOK, pageVars, cacheVars, Slabs
  <2> QED
    BY <1>0, <1>2, <2>2, <2>3, <2>4, <2>8 DEF Got
<1> QED
  BY <1>1, <1>2

\* kmalloc returns to kmalloc_create, with the struct Slab.
LEMMA GotStructStep ==
  ASSUME Types, NEW t \in Callers, GotStruct(t)
  PROVE  /\ Types' /\ UNCHANGED <<pageVars, cacheVars, held, failed>> /\ loc[t].then = "struct"
         /\ \/ Fails(t, "got", "null_deref") /\ loc[t].address = NoAddress
            \/ /\ Moved(t, "got", "choose") /\ memory_fault' = memory_fault /\ loc[t].address \in Addresses
               /\ loc'[t].then = "map" /\ loc'[t].cache = loc[t].cache
               /\ loc'[t].big = loc[t].big /\ loc'[t].at = loc[t].address
<1> DEFINE l == loc[t]
           r == [l EXCEPT !.then = "map", !.at = l.address]
<1>0. l \in LocType /\ LocFits(t) /\ l.address \in Maybe /\ l.then = "struct" /\ memory_pc[t] = "got"
  BY DEF Types, LocType, GotStruct, At
<1>1. CASE l.address = NoAddress
  <2>1. Fails(t, "got", "null_deref")
    BY <1>1 DEF GotStruct, Fails, At
  <2> QED
    BY <1>1, <2>1, FailureTypes DEF GotStruct
<1>2. CASE l.address # NoAddress
  <2>1. "choose" \in PCs /\ r \in LocType
    BY <1>0 DEF PCs, LocType, Thens
  <2>2. /\ At(t, "got") /\ Goto(t, "choose", r) /\ current' = current /\ memory_hit' = memory_hit /\ memory_fault' = memory_fault
        /\ UNCHANGED <<pageVars, cacheVars, held, failed>>
    BY <1>2 DEF GotStruct
  <2>3. r.then = "map" /\ r.cache = l.cache /\ r.big = l.big /\ r.at = l.address
    BY <1>0 DEF LocType
  <2> HIDE DEF r
  <2>4. memory_pc' \in [Callers -> PCs] /\ loc' \in [Callers -> LocType] /\ Moved(t, "got", "choose") /\ Has(t, r)
    BY <2>1, <2>2, Goes
  <2>5. LocFits(t)'
    BY <1>0, <2>3, <2>4 DEF LocFits, HasBig, HasPage, AllocPCs, Moved, Has
  <2>6. \A u \in Callers : LocFits(u)'
    BY <2>4, <2>5, OthersFit DEF Moved
  <2>7. Types'
    BY <2>2, <2>4, <2>6 DEF Types, MemoryTypeOK, pageVars, cacheVars, Slabs
  <2> QED
    BY <1>0, <1>2, <2>2, <2>3, <2>4, <2>7 DEF Has, Maybe
<1> QED
  BY <1>1, <1>2

\* kmalloc returns to kmalloc_create, with the color_map.
LEMMA GotMapStep ==
  ASSUME Types, NEW t \in Callers, GotMap(t)
  PROVE  /\ Types' /\ UNCHANGED <<pageVars, pool, total_free, total_using, held, failed>>
         /\ loc[t].then = "map" /\ loc[t].big \in Pages
         /\ \/ Fails(t, "got", "null_deref") /\ loc[t].address = NoAddress
            \/ /\ Moved(t, "got", "link") /\ memory_fault' = memory_fault /\ loc[t].address \in Addresses
               /\ loc'[t].then = "user" /\ loc'[t].cache = "big" /\ loc'[t].page = loc[t].big
               /\ loc'[t].at = NoAddress
               /\ loc'[t].was = <<total_free["big"]>>
               /\ slab'[loc[t].big].color_map = {} /\ slab'[loc[t].big].using_count = 0
               /\ slab'[loc[t].big].free_count = Colors
               /\ slab'[loc[t].big].at = loc[t].at /\ slab'[loc[t].big].map_at = loc[t].address
               /\ \A p \in AllPages \ {loc[t].big} : slab'[p] = slab[p]
<1> DEFINE l == loc[t]
           k == [Unused EXCEPT !.cache = "big", !.page = l.big]
           r == [k EXCEPT !.was = <<total_free[k.cache]>>]
           s == [NewSlab EXCEPT !.at = l.at, !.map_at = l.address]
<1>0. /\ l \in LocType /\ LocFits(t) /\ l.address \in Maybe /\ l.at \in Maybe
      /\ l.then = "map" /\ memory_pc[t] = "got" /\ l.big \in Pages
  BY DEF Types, LocType, GotMap, At, LocFits, HasBig
<1>1. CASE l.address = NoAddress
  <2>1. Fails(t, "got", "null_deref")
    BY <1>1 DEF GotMap, Fails, At, pageVars, cacheVars
  <2> QED
    BY <1>0, <1>1, <2>1, FailureTypes DEF GotMap
<1>2. CASE l.address # NoAddress
  <2>1. /\ k \in LocType /\ k.cache = "big" /\ k.page = l.big /\ k.then = "user" /\ k.at = NoAddress
    BY <1>0, FirstValues, Apart DEF LocType, Caches
  <2>2. Goto(t, "link", r) /\ slab' = [slab EXCEPT ![l.big] = s]
    BY <1>2 DEF GotMap, ToLink
  <2> HIDE DEF k
  <2>3. /\ r.cache = "big" /\ r.page = l.big /\ r.then = "user" /\ r.at = NoAddress
        /\ r.was = <<total_free["big"]>> /\ Len(r.was) = 1
    BY <2>1 DEF LocType
  <2>4. "link" \in PCs /\ "link" \in Windows /\ r \in LocType
    <3>1. <<total_free[k.cache]>> \in Seq(Int)
      BY <2>1 DEF Types, MemoryTypeOK, Caches
    <3> QED
      BY <2>1, <3>1 DEF PCs, Windows, LocType
  <2>5. /\ At(t, "got") /\ current' = current /\ memory_hit' = memory_hit /\ memory_fault' = memory_fault
        /\ UNCHANGED <<pageVars, pool, total_free, total_using, held, failed>>
    BY <1>2 DEF GotMap
  <2> HIDE DEF r
  <2>6. memory_pc' \in [Callers -> PCs] /\ loc' \in [Callers -> LocType] /\ Moved(t, "got", "link") /\ Has(t, r)
    BY <2>2, <2>4, <2>5, Goes
  <2>7. LocFits(t)'
    BY <1>0, <2>3, <2>4, <2>6 DEF LocFits, HasBig, HasPage, AllocPCs, Moved, Has
  <2>8. \A u \in Callers : LocFits(u)'
    BY <2>6, <2>7, OthersFit DEF Moved
  <2>9. /\ s \in SlabType /\ s.at = l.at /\ s.map_at = l.address
        /\ s.color_map = NewSlab.color_map /\ s.using_count = NewSlab.using_count
        /\ s.free_count = NewSlab.free_count
    BY <1>0, FirstValues DEF SlabType
  <2>10. NewSlab.color_map = {} /\ NewSlab.using_count = 0 /\ NewSlab.free_count = Colors
    BY DEF NewSlab
  <2> HIDE DEF s
  <2>11. /\ slab' \in [AllPages -> SlabType] /\ slab'[l.big] = s
         /\ \A p \in AllPages \ {l.big} : slab'[p] = slab[p]
    BY <1>0, <2>2, <2>9, Apart DEF Types
  <2>12. MemoryTypeOK'
    BY <2>5, <2>6, <2>11 DEF Types, MemoryTypeOK, pageVars, SlabType, Maybe
  <2>13. Types'
    BY <1>0, <2>5, <2>6, <2>8, <2>11, <2>12, Apart DEF Types, Slabs
  <2>14. /\ loc'[t].then = "user" /\ loc'[t].cache = "big" /\ loc'[t].page = l.big
         /\ loc'[t].at = NoAddress /\ loc'[t].was = <<total_free["big"]>>
    BY <2>3, <2>4, <2>6 DEF Has, Moved
  <2>15. l.address \in Addresses
    BY <1>0, <1>2 DEF Maybe
  <2> QED
    BY <1>0, <2>5, <2>6, <2>9, <2>10, <2>11, <2>13, <2>14, <2>15
<1> QED
  BY <1>1, <1>2

\* A task enters kfree.
LEMMA KfreeStep ==
  ASSUME Types, NEW t \in Callers, NEW a, Kfree(t, a)
  PROVE  /\ Types' /\ UNCHANGED <<pageVars, cacheVars, memory_fault, failed>>
         /\ Moved(t, "run", "kfree") /\ loc[t] = Unused /\ a \in held /\ held' = held \ {a}
         /\ loc'[t].address = a /\ loc'[t].then = "user" /\ loc'[t].cache = "small"
<1> DEFINE r == [Unused EXCEPT !.address = a]
<1>0. loc[t] = Unused /\ a \in held /\ a \in Addresses
  BY DEF Types, MemoryTypeOK, Kfree, At, LocFits
<1>1. r \in LocType /\ "kfree" \in PCs
  BY <1>0, FirstValues DEF LocType, PCs, Maybe
<1>2. r.address = a /\ r.then = "user" /\ r.cache = "small"
  BY FirstValues DEF LocType
<1>3. /\ At(t, "run") /\ Goto(t, "kfree", r) /\ current' = current /\ memory_hit' = memory_hit
      /\ held' = held \ {a} /\ UNCHANGED <<pageVars, cacheVars, memory_fault, failed>>
  BY DEF Kfree
<1> HIDE DEF r
<1>4. memory_pc' \in [Callers -> PCs] /\ loc' \in [Callers -> LocType] /\ Moved(t, "run", "kfree") /\ Has(t, r)
  BY <1>1, <1>3, Goes
<1>5. LocFits(t)'
  BY <1>2, <1>4 DEF LocFits, HasBig, HasPage, AllocPCs, Moved, Has
<1>6. \A u \in Callers : LocFits(u)'
  BY <1>4, <1>5, OthersFit DEF Moved
<1>7. Types'
  BY <1>3, <1>4, <1>6 DEF Types, MemoryTypeOK, pageVars, cacheVars, Slabs
<1> QED
  BY <1>0, <1>2, <1>3, <1>4, <1>7 DEF Has

\* kfree looks for the slab of the address.
LEMMA FindSlabStep ==
  ASSUME Types, NEW t \in Callers, FindSlab(t)
  PROVE  /\ Types' /\ UNCHANGED <<pageVars, cacheVars, held, memory_fault>>
         /\ loc'[t].then = loc[t].then /\ loc'[t].address = loc[t].address
         /\ loc'[t].big = loc[t].big /\ loc'[t].at = loc[t].at
         /\ \/ /\ Moved(t, "kfree", "freed") /\ loc'[t].cache = loc[t].cache /\ Says("cannot free")
               /\ loc[t].address = NoAddress \/ loc[t].address[1] \notin InSlabs
            \/ /\ Moved(t, "kfree", "flip") /\ failed' = failed
               /\ loc[t].address \in Addresses /\ loc'[t].page = loc[t].address[1]
               /\ loc'[t].cache \in Caches /\ loc[t].address[1] \in Slabs(loc'[t].cache)
               /\ loc[t].address[1] \in AllPages
               /\ loc'[t].word = slab[loc[t].address[1]].color_map
<1> DEFINE l == loc[t]
           p == l.address[1]
           cache == {c \in Caches : l.address # NoAddress /\ p \in Slabs(c)}
           c0 == CHOOSE c \in cache : TRUE
<1>0. l \in LocType /\ LocFits(t) /\ memory_pc[t] = "kfree" /\ l.address \in Maybe
  BY DEF Types, MemoryTypeOK, FindSlab, At, LocType
<1>1. CASE cache = {}
  <2>1. "freed" \in PCs
    BY DEF PCs
  <2>2. /\ At(t, "kfree") /\ Goto(t, "freed", l) /\ current' = current /\ memory_hit' = memory_hit
        /\ Says("cannot free") /\ UNCHANGED <<pageVars, cacheVars, held, memory_fault>>
    BY <1>1 DEF FindSlab
  <2>3. l.address = NoAddress \/ p \notin InSlabs
    BY <1>1 DEF InSlabs
  <2> HIDE DEF cache, c0
  <2>4. memory_pc' \in [Callers -> PCs] /\ loc' \in [Callers -> LocType] /\ Moved(t, "kfree", "freed") /\ Has(t, l)
    BY <1>0, <2>1, <2>2, Goes
  <2>5. LocFits(t)'
    BY <1>0, <2>4 DEF LocFits, HasBig, HasPage, AllocPCs, Moved, Has
  <2>6. \A u \in Callers : LocFits(u)'
    BY <2>4, <2>5, OthersFit DEF Moved
  <2>7. Types'
    BY <2>2, <2>4, <2>6 DEF Types, MemoryTypeOK, Says, Messages, pageVars, cacheVars, Slabs
  <2> QED
    BY <2>2, <2>3, <2>4, <2>7 DEF Has
<1>2. CASE cache # {}
  <2> DEFINE r == [l EXCEPT !.page = p, !.word = slab[p].color_map, !.cache = c0]
  <2>1. c0 \in cache
    BY <1>2
  <2>2. /\ At(t, "kfree") /\ Goto(t, "flip", r) /\ current' = current /\ memory_hit' = memory_hit
        /\ UNCHANGED <<pageVars, cacheVars, held, memory_fault, failed>>
    BY <1>2 DEF FindSlab
  <2>3. c0 \in Caches /\ l.address # NoAddress /\ p \in Slabs(c0) /\ l.address[1] = p
    BY <2>1
  <2> HIDE DEF cache, c0
  <2>4. l.address \in Addresses /\ p \in AllPages
    BY <1>0, <2>3, Apart DEF Maybe
  <2>5. slab[p].color_map \subseteq Indices
    BY <2>4 DEF Types, SlabType
  <2> HIDE DEF p
  <2>6. r \in LocType /\ "flip" \in PCs /\ "flip" \in Windows
    <3> HIDE DEF l
    <3> QED
      BY <1>0, <2>3, <2>4, <2>5 DEF LocType, PCs, Windows
  <2>7. /\ r.then = l.then /\ r.address = l.address /\ r.big = l.big /\ r.at = l.at
        /\ r.page = p /\ r.word = slab[p].color_map /\ r.cache = c0
    BY <1>0 DEF LocType
  <2> HIDE DEF r
  <2>8. memory_pc' \in [Callers -> PCs] /\ loc' \in [Callers -> LocType] /\ Moved(t, "kfree", "flip") /\ Has(t, r)
    BY <2>2, <2>6, Goes
  <2>9. LocFits(t)'
    BY <1>0, <2>3, <2>4, <2>5, <2>6, <2>7, <2>8 DEF LocFits, HasBig, HasPage, AllocPCs, Moved, Has
  <2>10. \A u \in Callers : LocFits(u)'
    BY <2>8, <2>9, OthersFit DEF Moved
  <2>11. Types'
    BY <2>2, <2>8, <2>10 DEF Types, MemoryTypeOK, pageVars, cacheVars, Slabs
  <2>12. /\ loc'[t].then = l.then /\ loc'[t].address = l.address /\ loc'[t].big = l.big
         /\ loc'[t].at = l.at /\ loc'[t].page = p /\ loc'[t].word = slab[p].color_map
         /\ loc'[t].cache = c0
    BY <2>6, <2>7, <2>8 DEF Has, Moved
  <2> QED
    BY <2>2, <2>3, <2>4, <2>8, <2>11, <2>12 DEF p
<1> QED
  BY <1>1, <1>2

\* kfree takes the slab out of its list.
LEMMA UnlinkStep ==
  ASSUME Types, NEW t \in Callers, Unlink(t)
  PROVE  /\ Types' /\ UNCHANGED <<pageVars, slab, total_using, held, failed>>
         /\ \/ Fails(t, "unlink", "use_after_free") /\ ~Linked(loc[t])
            \/ /\ memory_fault' = memory_fault /\ Linked(loc[t]) /\ loc[t].page \in Pages
               /\ total_free' = [total_free EXCEPT ![loc[t].cache] = loc[t].was[1] - Colors]
               /\ \A c \in Caches : c # loc[t].cache => pool'[c] = pool[c] /\ Slabs(c)' = Slabs(c)
               /\ IsInjective(pool[loc[t].cache]) =>
                    \A c \in Caches :
                      /\ Slabs(c)' = IF c = loc[t].cache THEN Slabs(c) \ {loc[t].page} ELSE Slabs(c)
                      /\ IsInjective(pool[c]) => IsInjective(pool'[c])
               /\ loc'[t].cache = "small"
               /\ \/ /\ Moved(t, "unlink", "clean") /\ loc[t].cache = "small"
                     /\ loc'[t].then = loc[t].then /\ loc'[t].page = loc[t].page
                     /\ loc'[t].big = loc[t].big /\ loc'[t].at = loc[t].at
                  \/ /\ Moved(t, "unlink", "kfree") /\ loc[t].cache = "big"
                     /\ loc'[t].then = "map" /\ loc'[t].big = loc[t].page
                     /\ loc'[t].address = slab[loc[t].page].map_at
                     /\ loc'[t].at = slab[loc[t].page].at
<1> DEFINE l == loc[t]
<1>0. l \in LocType /\ LocFits(t) /\ l.cache \in Caches /\ memory_pc[t] = "unlink" /\ l.page # PoolPage[l.cache]
  BY DEF Types, MemoryTypeOK, LocType, Unlink, At, LocFits
<1>1. CASE ~Linked(l)
  <2>1. Fails(t, "unlink", "use_after_free")
    BY <1>1 DEF Unlink, Fails, At, Dangles, pageVars, cacheVars
  <2> QED
    BY <1>1, <2>1, FailureTypes DEF Unlink
<1>2. CASE Linked(l)
  <2> DEFINE r == IF l.cache = "small" THEN l
                  ELSE [l EXCEPT !.cache = "small", !.then = "map", !.big = l.page,
                                 !.address = slab[l.page].map_at, !.at = slab[l.page].at]
             to == IF l.cache = "small" THEN "clean" ELSE "kfree"
             rest == RemoveFirst(pool[l.cache], l.page)
  <2>1. l.page \in Pages
    BY <1>0, <1>2 DEF Linked, Types
  <2>2. slab[l.page].at \in Maybe /\ slab[l.page].map_at \in Maybe
    BY <2>1, Apart DEF Types, SlabType
  <2>3. r \in LocType /\ to \in PCs
    <3>1. l.page \in AllPages \cup {0}
      BY <2>1, Apart
    <3> HIDE DEF l
    <3> QED
      BY <1>0, <2>2, <3>1 DEF LocType, PCs, Caches, Thens
  <2>4. /\ r.cache = "small"
        /\ l.cache = "small" => r.then = l.then /\ r.page = l.page /\ r.big = l.big /\ r.at = l.at
        /\ l.cache # "small" => /\ r.then = "map" /\ r.big = l.page
                                /\ r.address = slab[l.page].map_at /\ r.at = slab[l.page].at
    BY <1>0 DEF LocType
  <2>5. /\ At(t, "unlink") /\ Goto(t, to, r) /\ current' = current /\ memory_hit' = memory_hit /\ memory_fault' = memory_fault
        /\ UNCHANGED <<pageVars, slab, total_using, held, failed>>
        /\ pool' = [pool EXCEPT ![l.cache] = rest]
        /\ total_free' = [total_free EXCEPT ![l.cache] = l.was[1] - Colors]
    BY <1>2 DEF Unlink, Remaining
  <2> HIDE DEF r
  <2>6. memory_pc' \in [Callers -> PCs] /\ loc' \in [Callers -> LocType] /\ Moved(t, "unlink", to) /\ Has(t, r)
    BY <2>3, <2>5, Goes
  <2>7. LocFits(t)'
    BY <1>0, <2>1, <2>4, <2>6 DEF LocFits, HasBig, HasPage, AllocPCs, Moved, Has
  <2>8. \A u \in Callers : LocFits(u)'
    BY <2>6, <2>7, OthersFit DEF Moved
  <2>9. pool \in [Caches -> Seq(AllPages)] /\ total_free \in [Caches -> Int] /\ Colors \in Int
    BY MemoryAssumption DEF Types, MemoryTypeOK
  <2>10. pool[l.cache] \in Seq(AllPages)
    BY <1>0, <2>9
  <2>11. /\ rest \in Seq(AllPages)
         /\ ToSet(rest) \subseteq ToSet(pool[l.cache])
         /\ ToSet(pool[l.cache]) \ {l.page} \subseteq ToSet(rest)
    BY <2>10, RemovalLeaves
  <2>12. IsInjective(pool[l.cache]) => /\ ToSet(rest) = ToSet(pool[l.cache]) \ {l.page}
                                       /\ IsInjective(rest)
    BY <2>10, RemovalApart
  <2> HIDE DEF rest
  <2>13. l.was[1] \in Int
    <3>1. l.was \in Seq(Int) /\ Len(l.was) = 1
      BY <1>0 DEF LocFits, LocType
    <3> QED
      BY <3>1, ElementOfSeq
  <2>14. /\ pool' \in [Caches -> Seq(AllPages)] /\ total_free' \in [Caches -> Int]
         /\ pool'[l.cache] = rest /\ \A c \in Caches : c # l.cache => pool'[c] = pool[c]
    <3> HIDE DEF l
    <3> QED
      BY <1>0, <2>5, <2>9, <2>11, <2>13
  <2>15. \A c \in Caches : c # l.cache => pool'[c] = pool[c] /\ Slabs(c)' = Slabs(c)
    BY <2>14 DEF Slabs
  <2>16. ASSUME NEW c \in Caches
         PROVE  /\ Slabs(c)' \subseteq Slabs(c)
                /\ PoolPage[c] \in Slabs(c) => PoolPage[c] \in Slabs(c)'
    BY <1>0, <2>11, <2>14 DEF Slabs
  <2>17. IsInjective(pool[l.cache]) =>
           \A c \in Caches :
             /\ Slabs(c)' = IF c = l.cache THEN Slabs(c) \ {l.page} ELSE Slabs(c)
             /\ IsInjective(pool[c]) => IsInjective(pool'[c])
    BY <2>12, <2>14 DEF Slabs
  <2>18. MemoryTypeOK'
    BY <2>5, <2>6, <2>14 DEF Types, MemoryTypeOK, pageVars
  <2>19. Types'
    <3>1. ASSUME NEW c \in Caches PROVE Slabs(c)' \subseteq Pages \cup {PoolPage[c]} /\ PoolPage[c] \in Slabs(c)'
      BY <2>16 DEF Types
    <3> QED
      BY <2>5, <2>6, <2>8, <2>18, <3>1 DEF Types
  <2>20. l.cache # "small" => l.cache = "big"
    BY <1>0 DEF Caches
  <2> QED
    BY <1>2, <2>1, <2>4, <2>5, <2>6, <2>15, <2>17, <2>19, <2>20 DEF Has
<1> QED
  BY <1>1, <1>2

\* kfree returns, to the task or to an outer kfree.
LEMMA KfreeReturnsStep ==
  ASSUME Types, NEW t \in Callers, KfreeReturns(t)
  PROVE  /\ Types' /\ UNCHANGED <<pageVars, cacheVars, held, memory_fault, failed>>
         /\ \/ /\ Moved(t, "freed", "clean") /\ loc[t].then = "map"
               /\ loc'[t].then = "user" /\ loc'[t].cache = "big" /\ loc'[t].page = loc[t].big
               /\ loc'[t].at = loc[t].at
            \/ /\ Moved(t, "freed", "run") /\ loc[t].then # "map" /\ loc'[t] = Unused
<1> DEFINE l == loc[t]
<1>0. /\ l \in LocType /\ LocFits(t) /\ memory_pc[t] = "freed"
      /\ At(t, "freed") /\ UNCHANGED <<pageVars, cacheVars, current, held, memory_fault, failed, memory_hit>>
  BY DEF Types, LocType, KfreeReturns, At
<1>1. CASE l.then = "map"
  <2> DEFINE r == [l EXCEPT !.then = "user", !.cache = "big", !.page = l.big]
  <2>1. "clean" \in PCs /\ r \in LocType
    BY <1>0 DEF PCs, LocType, Thens, Caches
  <2>2. Goto(t, "clean", r)
    BY <1>1 DEF KfreeReturns
  <2>3. r.then = "user" /\ r.cache = "big" /\ r.page = l.big /\ r.at = l.at /\ l.big \in Pages
    BY <1>0, <1>1 DEF LocType, LocFits, HasBig
  <2> HIDE DEF r
  <2>4. memory_pc' \in [Callers -> PCs] /\ loc' \in [Callers -> LocType] /\ Moved(t, "freed", "clean") /\ Has(t, r)
    BY <1>0, <2>1, <2>2, Goes
  <2>5. LocFits(t)'
    BY <1>0, <2>3, <2>4 DEF LocFits, HasBig, HasPage, AllocPCs, Moved, Has
  <2>6. \A u \in Callers : LocFits(u)'
    BY <2>4, <2>5, OthersFit DEF Moved
  <2>7. Types'
    BY <1>0, <2>4, <2>6 DEF Types, MemoryTypeOK, pageVars, cacheVars, Slabs
  <2> QED
    BY <1>0, <1>1, <2>3, <2>4, <2>7 DEF Has
<1>2. CASE l.then # "map"
  <2>1. "run" \in PCs /\ "run" \notin Windows
    BY DEF PCs, Windows
  <2>2. Goto(t, "run", Unused)
    BY <1>2 DEF KfreeReturns
  <2>3. memory_pc' \in [Callers -> PCs] /\ loc' \in [Callers -> LocType] /\ Moved(t, "freed", "run")
    BY <1>0, <2>1, <2>2, FirstValues, Goes
  <2>4. loc'[t] = Unused
    <3>1. loc'[t] = [Unused EXCEPT !.word = {}, !.was = <<>>]
      BY <2>1, <2>2 DEF Goto, Types
    <3> QED
      BY <3>1 DEF Unused
  <2>5. LocFits(t)'
    BY <2>3, <2>4, FirstValues DEF LocFits, HasBig, HasPage, AllocPCs, Moved
  <2>6. \A u \in Callers : LocFits(u)'
    BY <2>3, <2>5, OthersFit DEF Moved
  <2>7. Types'
    BY <1>0, <2>3, <2>6 DEF Types, MemoryTypeOK, pageVars, cacheVars, Slabs
  <2> QED
    BY <1>0, <1>2, <2>3, <2>4, <2>7
<1> QED
  BY <1>1, <1>2

\* Another task goes on.
LEMMA PreemptStep ==
  ASSUME Types, NEW t \in Callers, Preempt(t)
  PROVE  /\ Types' /\ UNCHANGED <<pageVars, cacheVars, memory_pc, loc, held, memory_fault, failed>>
         /\ MemoryAlive /\ t # current /\ current' = t /\ current \in Callers
         /\ memory_hit' = memory_hit \cup ({memory_pc[current]} \cap Windows)
<1>1. /\ UNCHANGED <<pageVars, cacheVars, memory_pc, loc, held, memory_fault, failed>>
      /\ MemoryAlive /\ t # current /\ current' = t
      /\ memory_hit' = memory_hit \cup ({memory_pc[current]} \cap Windows)
  BY DEF Preempt
<1>2. current \in Callers
  BY DEF Types, MemoryTypeOK
<1>3. MemoryTypeOK'
  BY <1>1 DEF Types, MemoryTypeOK, pageVars, cacheVars
<1>4. \A u \in Callers : LocFits(u)'
  BY <1>1 DEF Types, LocFits, HasBig, HasPage
<1>5. Types'
  BY <1>1, <1>3, <1>4 DEF Types, Slabs, cacheVars
<1> QED
  BY <1>1, <1>2, <1>5
-----------------------------------------------------------------------------
(* What a task has loaded *)

\* A task alone in a window keeps Loaded when what it has loaded there is fresh.
LEMMA MovedLoaded ==
  ASSUME Undisturbed, NEW t \in Callers, NEW from, NEW to, Moved(t, from, to),
         to \in Windows \ memory_hit => Fresh(t)'
  PROVE  Undisturbed' /\ Loaded'
BY DEF Undisturbed, Loaded, Moved

\* A step that goes wrong ends the behaviour.
LEMMA FailedUndisturbed ==
  ASSUME Undisturbed, NEW t, NEW from, NEW how, Fails(t, from, how), how # "none"
  PROVE  Undisturbed' /\ ~MemoryAlive'
BY DEF Undisturbed, Fails, MemoryAlive

\* Each step leaves what its task has loaded as it is.
LEMMA AllocLoaded ==
  ASSUME Types, Undisturbed, NEW t \in Callers,
         \/ \E c \in Caches : Kmalloc(t, c)
         \/ Choose(t) \/ FindPage(t) \/ MarkPage(t) \/ Link(t) \/ Got(t) \/ GotStruct(t) \/ GotMap(t)
  PROVE  Undisturbed' /\ (MemoryAlive' => Loaded')
<1>1. ASSUME NEW c \in Caches, Kmalloc(t, c) PROVE Undisturbed' /\ Loaded'
  BY <1>1, KmallocStep, MovedLoaded DEF Windows
<1>2. ASSUME Choose(t) PROVE Undisturbed' /\ Loaded'
  <2>1. CASE Moved(t, "choose", "find")
    BY <2>1, MovedLoaded DEF Windows
  <2>2. CASE Moved(t, "choose", "test") /\ loc'[t].page = FirstFree(loc[t].cache)
    <3>1. FirstFree(loc[t].cache) \in Slabs(loc[t].cache)
      BY FirstFreeIs DEF Types, LocType
    <3>2. loc'[t].cache = loc[t].cache /\ pool' = pool
      BY <1>2, ChooseStep DEF cacheVars
    <3>3. Fresh(t)'
      BY <2>2, <3>1, <3>2 DEF Fresh, Moved, Linked, Slabs
    <3> QED
      BY <2>2, <3>3, MovedLoaded
  <2> QED
    BY <1>2, <2>1, <2>2, ChooseStep
<1>3. ASSUME FindPage(t) PROVE Undisturbed' /\ Loaded'
  <2>1. CASE Moved(t, "find", "got")
    BY <2>1, MovedLoaded DEF Windows
  <2>2. CASE /\ Moved(t, "find", "mark") /\ loc'[t].page \in Pages \ bits_map
             /\ loc'[t].word = bits_map /\ loc'[t].was = <<page_free_count>>
    <3>1. bits_map' = bits_map /\ page_free_count' = page_free_count
      BY <1>3, FindPageStep DEF pageVars
    <3>2. Fresh(t)'
      BY <2>2, <3>1 DEF Fresh, Moved
    <3> QED
      BY <2>2, <3>2, MovedLoaded
  <2> QED
    BY <1>3, <2>1, <2>2, FindPageStep
<1>4. ASSUME MarkPage(t) PROVE Undisturbed' /\ Loaded'
  <2>1. CASE Moved(t, "mark", "choose")
    BY <2>1, MovedLoaded DEF Windows
  <2>2. CASE Moved(t, "mark", "link") /\ loc'[t].was = <<total_free["small"]>>
    <3>1. Fresh(t)'
      BY <1>4, <2>2, MarkPageStep DEF Fresh, Moved
    <3> QED
      BY <2>2, <3>1, MovedLoaded
  <2> QED
    BY <1>4, <2>1, <2>2, MarkPageStep
<1>5. ASSUME Link(t) PROVE Undisturbed' /\ Loaded'
  <2>1. loc[t].cache \in Caches
    BY DEF Types, LocType
  <2>2. /\ Moved(t, "link", "test") /\ loc'[t].cache = loc[t].cache /\ loc'[t].page = loc[t].page
        /\ \A c \in Caches :
             Slabs(c)' = IF c = loc[t].cache THEN Slabs(c) \cup {loc[t].page} ELSE Slabs(c)
    BY <1>5, LinkStep
  <2>3. Linked(loc[t])'
    BY <2>1, <2>2 DEF Linked, Slabs
  <2>4. Fresh(t)'
    BY <2>2, <2>3 DEF Fresh, Moved
  <2> QED
    BY <2>2, <2>4, MovedLoaded
<1>6. ASSUME Got(t) PROVE Undisturbed' /\ (MemoryAlive' => Loaded')
  BY <1>6, GotStep, FailedUndisturbed, MovedLoaded DEF Windows
<1>7. ASSUME GotStruct(t) PROVE Undisturbed' /\ (MemoryAlive' => Loaded')
  BY <1>7, GotStructStep, FailedUndisturbed, MovedLoaded DEF Windows
<1>8. ASSUME GotMap(t) PROVE Undisturbed' /\ (MemoryAlive' => Loaded')
  <2>1. CASE Fails(t, "got", "null_deref")
    BY <2>1, FailedUndisturbed
  <2>2. CASE Moved(t, "got", "link") /\ loc'[t].cache = "big" /\ loc'[t].was = <<total_free["big"]>>
    <3>1. Fresh(t)'
      BY <1>8, <2>2, GotMapStep DEF Fresh, Moved
    <3> QED
      BY <2>2, <3>1, MovedLoaded
  <2> QED
    BY <1>8, <2>1, <2>2, GotMapStep
<1> QED
  BY <1>1, <1>2, <1>3, <1>4, <1>5, <1>6, <1>7, <1>8

\* The steps on an object keep Loaded.
LEMMA ObjectLoaded ==
  ASSUME Types, Undisturbed, NEW t \in Callers,
         Test(t) \/ Set(t) \/ Count(t) \/ Flip(t) \/ Uncount(t)
  PROVE  Undisturbed' /\ (MemoryAlive' => Loaded')
<1>1. ASSUME Test(t) PROVE Undisturbed' /\ (MemoryAlive' => Loaded')
  <2>1. CASE Fails(t, "test", "use_after_free")
    BY <2>1, FailedUndisturbed
  <2>2. CASE Moved(t, "test", "got")
    BY <2>2, MovedLoaded DEF Windows
  <2>3. CASE Moved(t, "test", "set") /\ ~Fails(t, "test", "use_after_free")
    <3>1. /\ Linked(loc[t]) /\ UNCHANGED cacheVars
          /\ loc'[t].cache = loc[t].cache /\ loc'[t].page = loc[t].page
          /\ loc'[t].word = slab[loc[t].page].color_map
          /\ loc'[t].address[1] = loc[t].page /\ loc'[t].address[2] \in Indices \ loc'[t].word
      BY <1>1, <2>3, TestStep DEF Moved
    <3>2. Fresh(t)'
      BY <2>3, <3>1 DEF Fresh, Moved, Linked, Slabs, cacheVars
    <3> QED
      BY <2>3, <3>2, MovedLoaded
  <2> QED
    BY <1>1, <2>1, <2>2, <2>3, TestStep
<1>2. ASSUME Set(t) PROVE Undisturbed' /\ (MemoryAlive' => Loaded')
  <2>1. CASE Fails(t, "set", "use_after_free")
    BY <2>1, FailedUndisturbed
  <2>2. CASE Moved(t, "set", "count") /\ ~Fails(t, "set", "use_after_free")
    <3>1. /\ Linked(loc[t]) /\ UNCHANGED <<pool, total_free, total_using>> /\ loc[t].page \in AllPages
          /\ loc'[t].cache = loc[t].cache /\ loc'[t].page = loc[t].page
          /\ loc'[t].address = loc[t].address /\ loc'[t].was = Counters(loc[t])
          /\ slab'[loc[t].page] = [slab[loc[t].page] EXCEPT !.color_map = loc[t].word \cup {loc[t].address[2]}]
      BY <1>2, <2>2, SetStep
    <3>2. /\ slab'[loc[t].page].using_count = slab[loc[t].page].using_count
          /\ slab'[loc[t].page].free_count = slab[loc[t].page].free_count
      BY <3>1 DEF Types, SlabType
    <3>3. Counters(loc[t])' = Counters(loc[t])
      BY <3>1, <3>2 DEF Counters
    <3>4. Fresh(t)'
      BY <2>2, <3>1, <3>3 DEF Fresh, Moved, Linked, Slabs
    <3> QED
      BY <2>2, <3>4, MovedLoaded
  <2> QED
    BY <1>2, <2>1, <2>2, SetStep
<1>3. ASSUME Count(t) PROVE Undisturbed' /\ (MemoryAlive' => Loaded')
  BY <1>3, CountStep, FailedUndisturbed, MovedLoaded DEF Windows
<1>4. ASSUME Flip(t) PROVE Undisturbed' /\ (MemoryAlive' => Loaded')
  <2>1. CASE Fails(t, "flip", "use_after_free")
    BY <2>1, FailedUndisturbed
  <2>2. CASE Moved(t, "flip", "uncount") /\ ~Fails(t, "flip", "use_after_free")
    <3> DEFINE map == SymDiff(loc[t].word, {loc[t].address[2]})
    <3>1. /\ Linked(loc[t]) /\ UNCHANGED <<pool, total_free, total_using>> /\ loc[t].page \in AllPages
          /\ loc'[t].cache = loc[t].cache /\ loc'[t].page = loc[t].page
          /\ loc'[t].was = Counters(loc[t])
          /\ slab'[loc[t].page] = [slab[loc[t].page] EXCEPT !.color_map = map]
      BY <1>4, <2>2, FlipStep
    <3> HIDE DEF map
    <3>2. /\ slab'[loc[t].page].using_count = slab[loc[t].page].using_count
          /\ slab'[loc[t].page].free_count = slab[loc[t].page].free_count
      BY <3>1 DEF Types, SlabType
    <3>3. Counters(loc[t])' = Counters(loc[t])
      BY <3>1, <3>2 DEF Counters
    <3>4. Fresh(t)'
      BY <2>2, <3>1, <3>3 DEF Fresh, Moved, Linked, Slabs
    <3> QED
      BY <2>2, <3>4, MovedLoaded
  <2> QED
    BY <1>4, <2>1, <2>2, FlipStep
<1>5. ASSUME Uncount(t) PROVE Undisturbed' /\ (MemoryAlive' => Loaded')
  <2>1. CASE Fails(t, "uncount", "use_after_free")
    BY <2>1, FailedUndisturbed
  <2>2. CASE Moved(t, "uncount", "freed")
    BY <2>2, MovedLoaded DEF Windows
  <2>3. CASE Moved(t, "uncount", "unlink") /\ ~Fails(t, "uncount", "use_after_free")
    <3>1. /\ Linked(loc[t]) /\ pool' = pool /\ StoreCounters(loc[t], -1)
          /\ loc'[t].cache = loc[t].cache /\ loc'[t].page = loc[t].page
          /\ loc'[t].was = <<loc[t].was[4] + 1>>
      BY <1>5, <2>3, UncountStep DEF Moved
    <3>2. total_free'[loc[t].cache] = loc[t].was[4] + 1
      <4>1. total_free'[loc[t].cache] = loc[t].was[4] - (-1) /\ loc[t].was[4] \in Int
        <5>1. memory_pc[t] \in {"count", "uncount"}
          BY <2>3 DEF Moved
        <5>2. Linked(loc[t]) /\ StoreCounters(loc[t], -1) /\ -1 \in Int
          BY <3>1
        <5> QED
          BY <5>1, <5>2, StoreCountersTypes
      <4> QED
        BY <4>1
    <3>4. Fresh(t)'
      BY <2>3, <3>1, <3>2 DEF Fresh, Moved, Linked, Slabs
    <3> QED
      BY <2>3, <3>4, MovedLoaded
  <2> QED
    BY <1>5, <2>1, <2>2, <2>3, UncountStep
<1> QED
  BY <1>1, <1>2, <1>3, <1>4, <1>5

\* The steps of kfree and free_pages keep it.
LEMMA FreeLoaded ==
  ASSUME Types, Undisturbed, NEW t \in Callers,
         (\E a \in held : Kfree(t, a)) \/ FindSlab(t) \/ Unlink(t) \/ LoadBits(t) \/ FreePage(t) \/ KfreeReturns(t)
  PROVE  Undisturbed' /\ (MemoryAlive' => Loaded')
<1>1. ASSUME NEW a \in held, Kfree(t, a) PROVE Undisturbed' /\ Loaded'
  BY <1>1, KfreeStep, MovedLoaded DEF Windows
<1>2. ASSUME FindSlab(t) PROVE Undisturbed' /\ Loaded'
  <2>1. CASE Moved(t, "kfree", "freed")
    BY <2>1, MovedLoaded DEF Windows
  <2>2. CASE Moved(t, "kfree", "flip")
    <3>1. /\ UNCHANGED cacheVars /\ loc'[t].page = loc[t].address[1]
          /\ loc[t].address[1] \in Slabs(loc'[t].cache)
          /\ loc'[t].word = slab[loc[t].address[1]].color_map
      BY <1>2, <2>2, FindSlabStep DEF Moved
    <3>2. Fresh(t)'
      BY <2>2, <3>1 DEF Fresh, Moved, Linked, Slabs, cacheVars
    <3> QED
      BY <2>2, <3>2, MovedLoaded
  <2> QED
    BY <1>2, <2>1, <2>2, FindSlabStep
<1>3. ASSUME Unlink(t) PROVE Undisturbed' /\ (MemoryAlive' => Loaded')
  BY <1>3, UnlinkStep, FailedUndisturbed, MovedLoaded DEF Windows
<1>4. ASSUME LoadBits(t) PROVE Undisturbed' /\ Loaded'
  <2>1. Fresh(t)'
    BY <1>4, LoadBitsStep DEF Fresh, Moved, pageVars
  <2> QED
    BY <1>4, <2>1, LoadBitsStep, MovedLoaded
<1>5. ASSUME FreePage(t) PROVE Undisturbed' /\ Loaded'
  BY <1>5, FreePageStep, MovedLoaded DEF Windows
<1>6. ASSUME KfreeReturns(t) PROVE Undisturbed' /\ Loaded'
  BY <1>6, KfreeReturnsStep, MovedLoaded DEF Windows
<1> QED
  BY <1>1, <1>2, <1>3, <1>4, <1>5, <1>6

\* A preemption hits the window, and Loaded says nothing of it any more.
LEMMA PreemptLoaded ==
  ASSUME Types, Undisturbed, NEW t \in Callers, Preempt(t)
  PROVE  Undisturbed' /\ Loaded'
BY PreemptStep DEF Undisturbed, Loaded
-----------------------------------------------------------------------------
(* Whose pages are *)

\* The other tasks hold what they held.
LEMMA OthersHold ==
  ASSUME NEW t \in Callers, NEW from, NEW to, Moved(t, from, to)
  PROVE  \A u \in Callers \ {t} : /\ Hold(u)' = Hold(u)
                                  /\ HasBig(u)' = HasBig(u) /\ HasPage(u)' = HasPage(u)
BY DEF Hold, HasBig, HasPage, Moved

\* Slabs to be linked that others work on stay empty.
LEMMA OthersEmpty ==
  ASSUME Types, PagesApart, NewAreEmpty, NEW t \in Callers, NEW from, NEW to, Moved(t, from, to),
         \A u \in Callers \ {t} : \A p \in Hold(u) : slab'[p] = slab[p],
         to = "link" => /\ slab'[loc'[t].page].color_map = {}
                        /\ slab'[loc'[t].page].using_count = 0
                        /\ slab'[loc'[t].page].free_count = Colors
  PROVE  NewAreEmpty'
<1> SUFFICES ASSUME NEW u \in Callers, memory_pc'[u] = "link"
             PROVE  /\ slab'[loc'[u].page].color_map = {}
                    /\ slab'[loc'[u].page].using_count = 0
                    /\ slab'[loc'[u].page].free_count = Colors
  BY DEF NewAreEmpty
<1>1. CASE u = t
  BY <1>1 DEF Moved
<1>2. CASE u # t
  <2>1. memory_pc[u] = "link" /\ loc'[u] = loc[u]
    BY <1>2 DEF Moved
  <2>2. loc[u].page \in Hold(u)
    BY <2>1 DEF Types, LocFits, Hold, HasPage
  <2> QED
    BY <1>2, <2>1, <2>2 DEF NewAreEmpty
<1> QED
  BY <1>1, <1>2

\* A step that touches no page.
LEMMA PagesSame ==
  ASSUME Types, PagesApart, NewAreEmpty, NEW t \in Callers, NEW from, NEW to, Moved(t, from, to),
         bits_map' = bits_map, pool' = pool, to # "link",
         Hold(t)' = Hold(t), HasBig(t)' /\ HasPage(t)' => HasBig(t) /\ HasPage(t),
         HasPage(t)' => loc'[t].page = loc[t].page /\ loc'[t].big = loc[t].big,
         \A p \in Pages \ InSlabs : slab'[p] = slab[p]
  PROVE  PagesApart' /\ NewAreEmpty' /\ (NoPageLost => NoPageLost')
<1>1. \A u \in Callers : Hold(u)' = Hold(u)
  BY OthersHold
<1>2. \A u \in Callers : HasBig(u)' /\ HasPage(u)' => loc'[u].page # loc'[u].big
  BY OthersHold DEF PagesApart, Moved
<1>3. PagesApart'
  BY <1>1, <1>2 DEF PagesApart, Slabs, InSlabs
<1>4. \A u \in Callers : \A p \in Hold(u) : p \in Pages \ InSlabs
  BY DEF PagesApart, Hold
<1>5. NewAreEmpty'
  BY <1>4, OthersEmpty
<1>6. NoPageLost => NoPageLost'
  BY <1>1 DEF NoPageLost, Slabs, InSlabs
<1> QED
  BY <1>3, <1>5, <1>6

\* Steps that change no page and no list.
LEMMA QuietPages ==
  ASSUME Types, PagesApart, NewAreEmpty, NEW t \in Callers, MemoryAlive',
         \/ \E c \in Caches : Kmalloc(t, c)
         \/ \E a \in held : Kfree(t, a)
         \/ Choose(t) \/ FindPage(t) \/ Test(t) \/ Got(t) \/ GotStruct(t) \/ FindSlab(t)
         \/ LoadBits(t) \/ KfreeReturns(t)
  PROVE  PagesApart' /\ NewAreEmpty' /\ (NoPageLost => NoPageLost')
<1> DEFINE Goal == PagesApart' /\ NewAreEmpty' /\ (NoPageLost => NoPageLost')
<1> USE DEF Hold, HasBig, HasPage, AllocPCs, cacheVars, pageVars
<1>0. \A from, how : Fails(t, from, how) => how = "none"
  BY DEF Fails, MemoryAlive
<1>1. ASSUME NEW c \in Caches, Kmalloc(t, c) PROVE Goal
  <2>1. /\ Moved(t, "run", "choose") /\ bits_map' = bits_map /\ pool' = pool /\ slab' = slab
        /\ Hold(t)' = Hold(t) /\ ~HasPage(t)'
    BY <1>1, KmallocStep, FirstValues DEF Moved
  <2> QED
    BY <2>1, PagesSame
<1>2. ASSUME NEW a \in held, Kfree(t, a) PROVE Goal
  <2>1. /\ Moved(t, "run", "kfree") /\ bits_map' = bits_map /\ pool' = pool /\ slab' = slab
        /\ Hold(t)' = Hold(t) /\ ~HasPage(t)'
    BY <1>2, KfreeStep, FirstValues DEF Moved
  <2> QED
    BY <2>1, PagesSame
<1>3. ASSUME Choose(t), NEW to \in {"find", "test"}, Moved(t, "choose", to) PROVE Goal
  <2>1. /\ bits_map' = bits_map /\ pool' = pool /\ slab' = slab
        /\ Hold(t)' = Hold(t) /\ ~HasPage(t)'
    BY <1>3, ChooseStep DEF Moved
  <2> QED
    BY <1>3, <2>1, PagesSame
<1>4. ASSUME FindPage(t), NEW to \in {"got", "mark"}, Moved(t, "find", to) PROVE Goal
  <2>1. /\ bits_map' = bits_map /\ pool' = pool /\ slab' = slab
        /\ Hold(t)' = Hold(t) /\ ~HasPage(t)'
    BY <1>4, FindPageStep DEF Moved
  <2> QED
    BY <1>4, <2>1, PagesSame
<1>5. ASSUME Test(t), NEW to \in {"got", "set"}, Moved(t, "test", to) PROVE Goal
  <2>1. /\ bits_map' = bits_map /\ pool' = pool /\ slab' = slab
        /\ loc'[t].then = loc[t].then /\ loc'[t].big = loc[t].big
    BY <1>0, <1>5, TestStep
  <2>2. Hold(t)' = Hold(t) /\ ~HasPage(t)'
    BY <1>5, <2>1 DEF Moved
  <2> QED
    BY <1>5, <2>1, <2>2, PagesSame
<1>6. ASSUME Got(t) PROVE Goal
  <2>1. /\ Moved(t, "got", "run") /\ bits_map' = bits_map /\ pool' = pool /\ slab' = slab
        /\ loc[t].then = "user" /\ loc'[t] = Unused
    BY <1>0, <1>6, GotStep
  <2>2. Hold(t)' = Hold(t) /\ ~HasPage(t)'
    BY <2>1, FirstValues DEF Moved
  <2> QED
    BY <2>1, <2>2, PagesSame
<1>7. ASSUME GotStruct(t) PROVE Goal
  <2>1. /\ Moved(t, "got", "choose") /\ bits_map' = bits_map /\ pool' = pool /\ slab' = slab
        /\ loc[t].then = "struct" /\ loc'[t].then = "map" /\ loc'[t].big = loc[t].big
    BY <1>0, <1>7, GotStructStep
  <2>2. Hold(t)' = Hold(t) /\ ~HasPage(t)'
    BY <2>1 DEF Moved
  <2> QED
    BY <2>1, <2>2, PagesSame
<1>8. ASSUME FindSlab(t), NEW to \in {"freed", "flip"}, Moved(t, "kfree", to) PROVE Goal
  <2>1. /\ bits_map' = bits_map /\ pool' = pool /\ slab' = slab
        /\ loc'[t].then = loc[t].then /\ loc'[t].big = loc[t].big
    BY <1>8, FindSlabStep
  <2>2. Hold(t)' = Hold(t) /\ ~HasPage(t)'
    BY <1>8, <2>1 DEF Moved
  <2> QED
    BY <1>8, <2>1, <2>2, PagesSame
<1>9. ASSUME LoadBits(t) PROVE Goal
  <2>1. /\ Moved(t, "clean", "release") /\ bits_map' = bits_map /\ pool' = pool /\ slab' = slab
        /\ loc'[t].then = loc[t].then /\ loc'[t].page = loc[t].page /\ loc'[t].big = loc[t].big
    BY <1>9, LoadBitsStep
  <2>2. Hold(t)' = Hold(t) /\ (HasBig(t)' => HasBig(t)) /\ HasPage(t)
    BY <2>1 DEF Moved
  <2> QED
    BY <2>1, <2>2, PagesSame
<1>10. ASSUME KfreeReturns(t) PROVE Goal
  <2>1. CASE /\ Moved(t, "freed", "clean") /\ loc[t].then = "map"
             /\ loc'[t].then = "user" /\ loc'[t].page = loc[t].big
    <3>1. bits_map' = bits_map /\ pool' = pool /\ slab' = slab
      BY <1>10, KfreeReturnsStep
    <3>2. Hold(t)' = Hold(t) /\ ~HasBig(t)'
      BY <2>1 DEF Moved
    <3> HIDE DEF Hold, HasBig, HasPage
    <3>3. \A u \in Callers : Hold(u)' = Hold(u)
      BY <2>1, <3>2, OthersHold
    <3>4. \A u \in Callers : HasBig(u)' /\ HasPage(u)' => loc'[u].page # loc'[u].big
      BY <2>1, <3>2, OthersHold DEF PagesApart, Moved
    <3>5. PagesApart'
      BY <3>1, <3>3, <3>4 DEF PagesApart, Slabs, InSlabs
    <3>6. NewAreEmpty'
      BY <2>1, <3>1, OthersEmpty
    <3>7. NoPageLost => NoPageLost'
      BY <3>1, <3>3 DEF NoPageLost, Slabs, InSlabs
    <3> QED
      BY <3>5, <3>6, <3>7
  <2>2. CASE Moved(t, "freed", "run") /\ loc[t].then # "map" /\ loc'[t] = Unused
    <3>1. bits_map' = bits_map /\ pool' = pool /\ slab' = slab
      BY <1>10, KfreeReturnsStep
    <3>2. Hold(t)' = Hold(t) /\ ~HasPage(t)'
      BY <2>2, FirstValues DEF Moved
    <3> QED
      BY <2>2, <3>1, <3>2, PagesSame
  <2> QED
    BY <1>10, <2>1, <2>2, KfreeReturnsStep
<1> HIDE DEF Goal
<1> QED
  BY <1>0, <1>1, <1>2, <1>3, <1>4, <1>5, <1>6, <1>7, <1>8, <1>9, <1>10, ChooseStep, FindPageStep,
     TestStep, FindSlabStep DEF Goal

\* Steps on an object of a slab.
LEMMA ObjectPages ==
  ASSUME Types, PagesApart, NewAreEmpty, NEW t \in Callers, MemoryAlive',
         Set(t) \/ Count(t) \/ Flip(t) \/ Uncount(t)
  PROVE  PagesApart' /\ NewAreEmpty' /\ (NoPageLost => NoPageLost')
<1> DEFINE Goal == PagesApart' /\ NewAreEmpty' /\ (NoPageLost => NoPageLost')
<1>0. \A from, how : Fails(t, from, how) => how = "none"
  BY DEF Fails, MemoryAlive
<1>a. Linked(loc[t]) => loc[t].page \in InSlabs
  BY DEF Linked, InSlabs, Types, LocType
<1>b. InSlabs \subseteq AllPages
  BY Apart DEF Types, InSlabs
<1>1. ASSUME Set(t) PROVE Goal
  <2>1. /\ Moved(t, "set", "count") /\ bits_map' = bits_map /\ pool' = pool /\ Linked(loc[t])
        /\ loc'[t].then = loc[t].then /\ loc'[t].big = loc[t].big
        /\ \A p \in AllPages \ {loc[t].page} : slab'[p] = slab[p]
    BY <1>0, <1>1, SetStep DEF pageVars
  <2>2. Hold(t)' = Hold(t) /\ ~HasPage(t)'
    BY <2>1 DEF Moved, Hold, HasBig, HasPage, AllocPCs
  <2> QED
    BY <1>a, <2>1, <2>2, PagesSame, Apart
<1>2. ASSUME Flip(t) PROVE Goal
  <2>1. /\ Moved(t, "flip", "uncount") /\ bits_map' = bits_map /\ pool' = pool /\ Linked(loc[t])
        /\ loc'[t].then = loc[t].then /\ loc'[t].big = loc[t].big
        /\ \A p \in AllPages \ {loc[t].page} : slab'[p] = slab[p]
    BY <1>0, <1>2, FlipStep DEF pageVars
  <2>2. Hold(t)' = Hold(t) /\ ~HasPage(t)'
    BY <2>1 DEF Moved, Hold, HasBig, HasPage, AllocPCs
  <2> QED
    BY <1>a, <2>1, <2>2, PagesSame, Apart
<1>3. ASSUME Count(t) PROVE Goal
  <2>1. /\ Moved(t, "count", "got") /\ bits_map' = bits_map /\ pool' = pool /\ Linked(loc[t])
        /\ loc'[t].then = loc[t].then /\ loc'[t].big = loc[t].big /\ StoreCounters(loc[t], 1)
    BY <1>0, <1>3, CountStep DEF pageVars
  <2>2. Hold(t)' = Hold(t) /\ ~HasPage(t)'
    BY <2>1 DEF Moved, Hold, HasBig, HasPage, AllocPCs
  <2>3. memory_pc[t] \in {"count", "uncount"} /\ 1 \in Int
    BY <2>1 DEF Moved
  <2>4. \A p \in AllPages : p # loc[t].page => slab'[p] = slab[p]
    BY <2>1, <2>3, StoreCountersTypes
  <2>5. \A p \in Pages \ InSlabs : slab'[p] = slab[p]
    BY <1>a, <2>1, <2>4, Apart
  <2> QED
    BY <2>1, <2>2, <2>5, PagesSame
<1>4. ASSUME Uncount(t), NEW to \in {"freed", "unlink"}, Moved(t, "uncount", to) PROVE Goal
  <2>1. /\ bits_map' = bits_map /\ pool' = pool /\ Linked(loc[t])
        /\ loc'[t].then = loc[t].then /\ loc'[t].big = loc[t].big /\ StoreCounters(loc[t], -1)
    BY <1>0, <1>4, UncountStep DEF pageVars
  <2>2. Hold(t)' = Hold(t) /\ ~HasPage(t)'
    BY <1>4, <2>1 DEF Moved, Hold, HasBig, HasPage, AllocPCs
  <2>a. memory_pc[t] \in {"count", "uncount"} /\ -1 \in Int
    BY <1>4 DEF Moved
  <2>3. \A p \in AllPages : p # loc[t].page => slab'[p] = slab[p]
    BY <2>1, <2>a, StoreCountersTypes
  <2>4. \A p \in Pages \ InSlabs : slab'[p] = slab[p]
    BY <1>a, <2>1, <2>3, Apart
  <2> QED
    BY <1>4, <2>1, <2>2, <2>4, PagesSame
<1> HIDE DEF Goal
<1> QED
  BY <1>0, <1>1, <1>2, <1>3, <1>4, UncountStep DEF Goal

\* A task takes a page that is free, and it is its own.
LEMMA MarkPagePages ==
  ASSUME Types, PagesApart, NewAreEmpty, NEW t \in Callers, MarkPage(t), MemoryAlive', Fresh(t)
  PROVE  /\ PagesApart' /\ NewAreEmpty'
         /\ loc[t].page \in Pages \ bits_map /\ bits_map' = bits_map \cup {loc[t].page}
         /\ Hold(t)' = Hold(t) \cup {loc[t].page}
<1> DEFINE p == loc[t].page
<1>1. /\ p \in Pages \ bits_map /\ bits_map' = bits_map \cup {p} /\ pool' = pool
      /\ \A q \in AllPages \ {p} : slab'[q] = slab[q]
      /\ memory_pc[t] = "mark" /\ memory_pc'[t] \in {"link", "choose"}
  BY MarkPageStep DEF Fresh, MarkPage, At, Moved
<1>2. PICK to \in {"link", "choose"} : Moved(t, "mark", to)
  BY MarkPageStep
<1>3. Hold(t)' = Hold(t) \cup {p}
  <2>1. CASE Moved(t, "mark", "link") /\ loc'[t].then = loc[t].then /\ loc'[t].page = p /\ loc'[t].big = loc[t].big
    BY <1>1, <2>1 DEF Moved, Hold, HasBig, HasPage, AllocPCs
  <2>2. CASE Moved(t, "mark", "choose") /\ loc[t].then = "user" /\ loc'[t].then = "struct" /\ loc'[t].big = p
    BY <1>1, <2>2 DEF Moved, Hold, HasBig, HasPage, AllocPCs
  <2> QED
    BY <2>1, <2>2, MarkPageStep
<1>4. HasBig(t)' /\ HasPage(t)' => loc'[t].page # loc'[t].big
  <2>1. CASE Moved(t, "mark", "link") /\ loc'[t].then = loc[t].then /\ loc'[t].page = p /\ loc'[t].big = loc[t].big
    <3> SUFFICES ASSUME HasBig(t)' PROVE loc[t].big # p
      BY <2>1
    <3>1. HasBig(t)
      BY <2>1 DEF HasBig, Moved, AllocPCs
    <3>2. loc[t].big \in Hold(t)
      BY <3>1 DEF Types, LocFits, Hold
    <3> QED
      BY <1>1, <3>2 DEF PagesApart
  <2>2. CASE Moved(t, "mark", "choose")
    BY <2>2 DEF Moved, HasPage
  <2> QED
    BY <2>1, <2>2, MarkPageStep
<1>5. \A u \in Callers \ {t} : Hold(u)' = Hold(u) /\ HasBig(u)' = HasBig(u) /\ HasPage(u)' = HasPage(u) /\ loc'[u] = loc[u]
  BY <1>2, OthersHold DEF Moved
<1>6. p \notin InSlabs
  BY <1>1 DEF PagesApart
<1>7. PagesApart'
  <2>0. (\A c \in Caches : Slabs(c)' = Slabs(c)) /\ InSlabs' = InSlabs
    BY <1>1 DEF Slabs, InSlabs
  <2>1. /\ \A c \in Caches : IsInjective(pool'[c])
        /\ Slabs("small")' \cap Slabs("big")' = {}
        /\ InSlabs' \cap Pages \subseteq bits_map'
    BY <1>1, <2>0 DEF PagesApart, Caches
  <2>2. ASSUME NEW u \in Callers
        PROVE  /\ Hold(u)' \subseteq bits_map' \ InSlabs'
               /\ HasBig(u)' /\ HasPage(u)' => loc'[u].page # loc'[u].big
    BY <1>1, <1>3, <1>4, <1>5, <1>6, <2>0 DEF PagesApart
  <2>3. ASSUME NEW u \in Callers, NEW v \in Callers, u # v PROVE Hold(u)' \cap Hold(v)' = {}
    <3>1. Hold(u) \cap Hold(v) = {} /\ p \notin Hold(u) /\ p \notin Hold(v)
      BY <1>1, <2>3 DEF PagesApart
    <3>2. Hold(u)' \subseteq Hold(u) \cup (IF u = t THEN {p} ELSE {})
      BY <1>3, <1>5
    <3>3. Hold(v)' \subseteq Hold(v) \cup (IF v = t THEN {p} ELSE {})
      BY <1>3, <1>5
    <3> QED
      BY <2>3, <3>1, <3>2, <3>3
  <2> QED
    BY <2>1, <2>2, <2>3 DEF PagesApart
<1>8. \A u \in Callers \ {t} : \A q \in Hold(u) : slab'[q] = slab[q]
  BY <1>1, Apart DEF PagesApart, Hold
<1>9. CASE Moved(t, "mark", "link") /\ loc'[t].page = p /\ slab'[p] = NewSlab
  <2>1. NewSlab.color_map = {} /\ NewSlab.using_count = 0 /\ NewSlab.free_count = Colors
    BY DEF NewSlab
  <2>2. NewAreEmpty'
    BY <1>8, <1>9, <2>1, OthersEmpty
  <2> QED
    BY <1>1, <1>3, <1>7, <2>2
<1>10. CASE Moved(t, "mark", "choose")
  <2>1. NewAreEmpty'
    BY <1>8, <1>10, OthersEmpty
  <2> QED
    BY <1>1, <1>3, <1>7, <2>1
<1> QED
  BY <1>9, <1>10, MarkPageStep

\* The slab goes from the task to the list of its cache.
LEMMA LinkPages ==
  ASSUME Types, PagesApart, NewAreEmpty, NEW t \in Callers, Link(t)
  PROVE  /\ PagesApart' /\ NewAreEmpty'
         /\ loc[t].page \in Hold(t) /\ Hold(t)' = Hold(t) \ {loc[t].page}
         /\ InSlabs' = InSlabs \cup {loc[t].page}
<1> DEFINE p == loc[t].page
           c0 == loc[t].cache
<1>1. /\ Moved(t, "link", "test") /\ p \in Pages /\ UNCHANGED <<pageVars, slab>>
      /\ loc'[t].then = loc[t].then /\ loc'[t].page = p /\ loc'[t].big = loc[t].big
      /\ \A c \in Caches : Slabs(c)' = IF c = c0 THEN Slabs(c) \cup {p} ELSE Slabs(c)
      /\ (\A c \in Caches : IsInjective(pool[c])) /\ p \notin InSlabs
              => \A c \in Caches : IsInjective(pool'[c])
  BY LinkStep
<1>2. c0 \in Caches
  BY DEF Types, LocType
<1>3. p \in Hold(t) /\ p \in bits_map \ InSlabs /\ (HasBig(t) => p # loc[t].big)
  BY <1>1 DEF Moved, Hold, HasPage, PagesApart
<1>4. Hold(t)' = Hold(t) \ {p} /\ ~HasPage(t)'
  BY <1>1, <1>3 DEF Moved, Hold, HasPage, HasBig, AllocPCs
<1>5. InSlabs' = InSlabs \cup {p}
  BY <1>1, <1>2 DEF InSlabs
<1>6. \A u \in Callers \ {t} : Hold(u)' = Hold(u) /\ HasBig(u)' = HasBig(u) /\ HasPage(u)' = HasPage(u) /\ loc'[u] = loc[u]
  BY <1>1, OthersHold DEF Moved
<1>7. PagesApart'
  <2>1. \A c \in Caches : IsInjective(pool'[c])
    BY <1>1, <1>3 DEF PagesApart
  <2>2. Slabs("small")' \cap Slabs("big")' = {}
    BY <1>1, <1>3 DEF PagesApart, InSlabs, Caches
  <2>3. InSlabs' \cap Pages \subseteq bits_map'
    BY <1>1, <1>3, <1>5 DEF PagesApart, pageVars
  <2>4. ASSUME NEW u \in Callers
        PROVE  /\ Hold(u)' \subseteq bits_map' \ InSlabs'
               /\ HasBig(u)' /\ HasPage(u)' => loc'[u].page # loc'[u].big
    BY <1>1, <1>3, <1>4, <1>5, <1>6 DEF PagesApart, pageVars
  <2>5. ASSUME NEW u \in Callers, NEW v \in Callers, u # v PROVE Hold(u)' \cap Hold(v)' = {}
    BY <1>4, <1>6, <2>5 DEF PagesApart
  <2> QED
    BY <2>1, <2>2, <2>3, <2>4, <2>5 DEF PagesApart
<1>8. NewAreEmpty'
  BY <1>1, OthersEmpty
<1> QED
  BY <1>3, <1>4, <1>5, <1>7, <1>8

\* The struct of a big slab is filled in, the page stays the task's own.
LEMMA GotMapPages ==
  ASSUME Types, PagesApart, NewAreEmpty, NEW t \in Callers, GotMap(t), MemoryAlive'
  PROVE  /\ PagesApart' /\ NewAreEmpty'
         /\ loc[t].big \in Hold(t) /\ Hold(t)' = Hold(t)
<1> DEFINE p == loc[t].big
<1>1. /\ Moved(t, "got", "link") /\ p \in Pages /\ UNCHANGED <<pageVars, pool>>
      /\ loc[t].then = "map" /\ loc'[t].then = "user" /\ loc'[t].page = p
      /\ slab'[p].color_map = {} /\ slab'[p].using_count = 0 /\ slab'[p].free_count = Colors
      /\ \A q \in AllPages \ {p} : slab'[q] = slab[q]
  BY GotMapStep DEF Fails, MemoryAlive
<1>2. p \in Hold(t) /\ Hold(t)' = Hold(t) /\ ~HasBig(t)'
  BY <1>1 DEF Moved, Hold, HasPage, HasBig
<1>3. \A u \in Callers : Hold(u)' = Hold(u)
  BY <1>1, <1>2, OthersHold
<1>4. \A u \in Callers : HasBig(u)' /\ HasPage(u)' => loc'[u].page # loc'[u].big
  BY <1>1, <1>2, OthersHold DEF PagesApart, Moved
<1>5. PagesApart'
  BY <1>1, <1>3, <1>4 DEF PagesApart, Slabs, InSlabs, pageVars
<1>6. \A u \in Callers \ {t} : \A q \in Hold(u) : slab'[q] = slab[q]
  <2> SUFFICES ASSUME NEW u \in Callers \ {t}, NEW q \in Hold(u) PROVE slab'[q] = slab[q]
    OBVIOUS
  <2>1. q # p /\ q \in Pages
    BY <1>2 DEF PagesApart, Hold
  <2> QED
    BY <1>1, <2>1, Apart
<1>7. NewAreEmpty'
  BY <1>1, <1>6, OthersEmpty
<1> QED
  BY <1>2, <1>5, <1>7

\* The slab goes from the list of its cache to the task.
LEMMA UnlinkPages ==
  ASSUME Types, PagesApart, NewAreEmpty, NEW t \in Callers, Unlink(t), MemoryAlive'
  PROVE  /\ PagesApart' /\ NewAreEmpty'
         /\ loc[t].page \in InSlabs /\ InSlabs' = InSlabs \ {loc[t].page}
         /\ Hold(t)' \subseteq Hold(t) \cup {loc[t].page}
         /\ (loc[t].then # "user" => loc[t].cache = "small") => Hold(t)' = Hold(t) \cup {loc[t].page}
<1> DEFINE p == loc[t].page
           c0 == loc[t].cache
<1>1. /\ UNCHANGED <<pageVars, slab>> /\ Linked(loc[t]) /\ p \in Pages
      /\ \A c \in Caches :
           /\ Slabs(c)' = IF c = c0 THEN Slabs(c) \ {p} ELSE Slabs(c)
           /\ IsInjective(pool'[c])
  <2>1. c0 \in Caches
    BY DEF Types, LocType
  <2> QED
    BY <2>1, UnlinkStep DEF Fails, MemoryAlive, PagesApart
<1>2. c0 \in Caches /\ p \in Slabs(c0) /\ p \in InSlabs /\ LocFits(t)
  BY <1>1 DEF Types, LocType, Linked, InSlabs
<1>3. \A c \in Caches : c # c0 => p \notin Slabs(c)
  BY <1>2 DEF PagesApart, Caches
<1>4. InSlabs' = InSlabs \ {p}
  BY <1>1, <1>2, <1>3 DEF InSlabs
<1>5. /\ Hold(t)' \subseteq Hold(t) \cup {p}
      /\ (loc[t].then # "user" => c0 = "small") => Hold(t)' = Hold(t) \cup {p}
      /\ HasBig(t)' /\ HasPage(t)' => loc'[t].page # loc'[t].big
      /\ \E to \in {"clean", "kfree"} : Moved(t, "unlink", to)
  <2>1. CASE /\ Moved(t, "unlink", "clean") /\ loc'[t].then = loc[t].then /\ loc'[t].page = p
             /\ loc'[t].big = loc[t].big
    <3>1. HasBig(t)' => HasBig(t)
      BY <2>1 DEF HasBig, Moved, AllocPCs
    <3>2. HasBig(t) => loc[t].big \in Hold(t)
      BY <1>2 DEF LocFits, Hold
    <3>3. HasBig(t)' => p # loc[t].big
      BY <1>2, <3>1, <3>2 DEF PagesApart
    <3>4. Hold(t)' = Hold(t) \cup {p}
      BY <1>1, <2>1 DEF Moved, Hold, HasPage, HasBig, AllocPCs
    <3> QED
      BY <2>1, <3>3, <3>4
  <2>2. CASE Moved(t, "unlink", "kfree") /\ loc[t].cache = "big" /\ loc'[t].then = "map" /\ loc'[t].big = p
    <3>1. ~HasPage(t)' /\ ~HasPage(t) /\ HasBig(t)'
      BY <2>2 DEF HasPage, HasBig, Moved
    <3>2. loc[t].then = "user" => ~HasBig(t)
      BY DEF HasBig
    <3>3. Hold(t)' = {p}
      BY <1>1, <2>2, <3>1 DEF Hold
    <3>4. loc[t].then = "user" => Hold(t) = {}
      BY <3>1, <3>2 DEF Hold
    <3> QED
      BY <2>2, <3>1, <3>3, <3>4
  <2> QED
    BY <2>1, <2>2, UnlinkStep DEF Fails, MemoryAlive
<1>6. \A u \in Callers \ {t} : Hold(u)' = Hold(u) /\ HasBig(u)' = HasBig(u) /\ HasPage(u)' = HasPage(u) /\ loc'[u] = loc[u]
  BY <1>5, OthersHold DEF Moved
<1>7. PagesApart'
  <2>0. p \in bits_map /\ \A u \in Callers : p \notin Hold(u)
    BY <1>1, <1>2 DEF PagesApart
  <2>1. Slabs("small")' \cap Slabs("big")' = {}
    BY <1>1 DEF PagesApart, Caches
  <2>2. InSlabs' \cap Pages \subseteq bits_map'
    BY <1>1, <1>4 DEF PagesApart, pageVars
  <2>3. ASSUME NEW u \in Callers
        PROVE  /\ Hold(u)' \subseteq bits_map' \ InSlabs'
               /\ HasBig(u)' /\ HasPage(u)' => loc'[u].page # loc'[u].big
    BY <1>1, <1>4, <1>5, <1>6, <2>0 DEF PagesApart, pageVars
  <2>4. ASSUME NEW u \in Callers, NEW v \in Callers, u # v PROVE Hold(u)' \cap Hold(v)' = {}
    <3>1. Hold(u) \cap Hold(v) = {} /\ p \notin Hold(u) /\ p \notin Hold(v)
      BY <2>0, <2>4 DEF PagesApart
    <3>2. Hold(u)' \subseteq Hold(u) \cup (IF u = t THEN {p} ELSE {})
      BY <1>5, <1>6
    <3>3. Hold(v)' \subseteq Hold(v) \cup (IF v = t THEN {p} ELSE {})
      BY <1>5, <1>6
    <3> QED
      BY <2>4, <3>1, <3>2, <3>3
  <2> QED
    BY <1>1, <2>1, <2>2, <2>3, <2>4 DEF PagesApart
<1>8. NewAreEmpty'
  BY <1>1, <1>5, OthersEmpty
<1> QED
  BY <1>2, <1>4, <1>5, <1>7, <1>8

\* The page goes back to the others that are free.
LEMMA FreePagePages ==
  ASSUME Types, PagesApart, NewAreEmpty, NEW t \in Callers, FreePage(t), Fresh(t)
  PROVE  /\ PagesApart' /\ NewAreEmpty'
         /\ loc[t].page \in Hold(t) /\ bits_map' = bits_map \ {loc[t].page}
         /\ Hold(t)' = Hold(t) \ {loc[t].page}
<1> DEFINE p == loc[t].page
<1>1. /\ bits_map' = bits_map \ {p} /\ pool' = pool /\ slab' = slab
      /\ memory_pc[t] = "release" /\ p \in Pages
  <2>1. memory_pc[t] = "release" /\ LocFits(t)
    BY DEF FreePage, At, Types
  <2>2. p \in Pages
    BY <2>1 DEF LocFits, HasPage
  <2> QED
    BY <2>1, <2>2, FreePageStep DEF Fresh, cacheVars
<1>2. PICK to \in {"freed", "kfree"} : Moved(t, "release", to)
  BY FreePageStep
<1>3. p \in Hold(t) /\ (HasBig(t) => p # loc[t].big)
  BY <1>1 DEF Hold, HasPage, PagesApart
<1>4. Hold(t)' = Hold(t) \ {p} /\ ~HasPage(t)'
  <2>1. CASE Moved(t, "release", "freed") /\ loc'[t].then = loc[t].then /\ loc'[t].big = loc[t].big
    BY <1>1, <1>3, <2>1 DEF Moved, Hold, HasPage, HasBig, AllocPCs
  <2>2. CASE Moved(t, "release", "kfree") /\ loc[t].then = "user" /\ loc'[t].then = "struct"
    BY <1>1, <1>3, <2>2 DEF Moved, Hold, HasPage, HasBig, AllocPCs
  <2> QED
    BY <2>1, <2>2, FreePageStep
<1>5. \A u \in Callers \ {t} : Hold(u)' = Hold(u) /\ HasBig(u)' = HasBig(u) /\ HasPage(u)' = HasPage(u) /\ loc'[u] = loc[u]
  BY <1>2, OthersHold DEF Moved
<1>6. PagesApart'
  <2>0. (\A c \in Caches : Slabs(c)' = Slabs(c)) /\ InSlabs' = InSlabs
    BY <1>1 DEF Slabs, InSlabs
  <2>1. p \notin InSlabs /\ \A u \in Callers \ {t} : p \notin Hold(u)
    BY <1>3 DEF PagesApart
  <2>2. /\ \A c \in Caches : IsInjective(pool'[c])
        /\ Slabs("small")' \cap Slabs("big")' = {}
        /\ InSlabs' \cap Pages \subseteq bits_map'
    BY <1>1, <2>0, <2>1 DEF PagesApart, Caches
  <2>3. ASSUME NEW u \in Callers
        PROVE  /\ Hold(u)' \subseteq bits_map' \ InSlabs'
               /\ HasBig(u)' /\ HasPage(u)' => loc'[u].page # loc'[u].big
    BY <1>1, <1>4, <1>5, <2>0, <2>1 DEF PagesApart
  <2>4. ASSUME NEW u \in Callers, NEW v \in Callers, u # v PROVE Hold(u)' \cap Hold(v)' = {}
    BY <1>4, <1>5, <2>4 DEF PagesApart
  <2> QED
    BY <2>2, <2>3, <2>4 DEF PagesApart
<1>7. NewAreEmpty'
  BY <1>1, <1>2, OthersEmpty
<1> QED
  BY <1>1, <1>3, <1>4, <1>6, <1>7

\* Another task goes on: the pages are where they were.
LEMMA PreemptPages ==
  ASSUME PagesApart, NewAreEmpty, NEW t, UNCHANGED <<pageVars, cacheVars, memory_pc, loc>>
  PROVE  PagesApart' /\ NewAreEmpty'
BY DEF PagesApart, NewAreEmpty, pageVars, cacheVars, Slabs, InSlabs, Hold, HasPage, HasBig
-----------------------------------------------------------------------------
(* Whose objects are *)

\* Nothing changes.
LEMMA OwnedSame ==
  ASSUME NEW has, NEW used, NEW next, Owned(has, used), \A o \in Owners : next[o] = has[o]
  PROVE  Owned(next, used)
BY DEF Owned

\* An object goes from one to another.
LEMMA OwnedMove ==
  ASSUME NEW has, NEW used, NEW next, Owned(has, used),
         NEW o \in Owners, NEW q \in Owners, o # q, has[q] = NoAddress,
         next[o] = NoAddress, next[q] = has[o],
         \A r \in Owners : r # o /\ r # q => next[r] = has[r]
  PROVE  Owned(next, used)
<1>1. ASSUME NEW r \in Owners PROVE next[r] = NoAddress \/ next[r] \in used
  BY DEF Owned
<1>2. ASSUME NEW r \in Owners, NEW s \in Owners, next[r] = next[s], next[r] # NoAddress PROVE r = s
  <2>1. r # o /\ s # o
    BY <1>2
  <2>2. CASE r = q /\ s # q
    <3>1. has[s] = has[o] /\ has[s] # NoAddress
      BY <1>2, <2>1, <2>2
    <3> QED
      BY <2>1, <3>1 DEF Owned
  <2>3. CASE r # q /\ s = q
    <3>1. has[r] = has[o] /\ has[r] # NoAddress
      BY <1>2, <2>1, <2>3
    <3> QED
      BY <2>1, <3>1 DEF Owned
  <2>4. CASE r # q /\ s # q
    BY <1>2, <2>1, <2>4 DEF Owned
  <2> QED
    BY <2>2, <2>3, <2>4
<1>3. ASSUME NEW a \in used PROVE \E r \in Owners : next[r] = a
  <2>1. PICK r \in Owners : has[r] = a
    BY DEF Owned
  <2>2. CASE r = o
    BY <2>1, <2>2
  <2>3. CASE r = q
    <3>1. a = NoAddress
      BY <2>1, <2>3
    <3> QED
      BY <3>1
  <2>4. CASE r # o /\ r # q
    BY <2>1, <2>4
  <2> QED
    BY <2>2, <2>3, <2>4
<1> QED
  BY <1>1, <1>2, <1>3 DEF Owned

\* An object that was free is taken.
LEMMA OwnedTake ==
  ASSUME NEW has, NEW used, NEW next, Owned(has, used), NEW q \in Owners, has[q] = NoAddress,
         next[q] \notin used, NoAddress \notin used,
         \A r \in Owners : r # q => next[r] = has[r]
  PROVE  Owned(next, used \cup {next[q]})
<1>1. ASSUME NEW r \in Owners, NEW s \in Owners, next[r] = next[s], next[r] # NoAddress PROVE r = s
  <2>1. \A o \in Owners : o # q => next[o] = NoAddress \/ next[o] \in used
    BY DEF Owned
  <2>2. CASE r # q /\ s # q
    BY <1>1, <2>2 DEF Owned
  <2> QED
    BY <1>1, <2>1, <2>2
<1>2. ASSUME NEW r \in Owners PROVE next[r] = NoAddress \/ next[r] \in used \cup {next[q]}
  BY DEF Owned
<1>3. ASSUME NEW a \in used \cup {next[q]} PROVE \E r \in Owners : next[r] = a
  <2>1. CASE a = next[q]
    BY <2>1
  <2>2. CASE a \in used
    <3>1. PICK r \in Owners : has[r] = a
      BY <2>2 DEF Owned
    <3>2. r # q
      BY <2>2, <3>1
    <3> QED
      BY <3>1, <3>2
  <2> QED
    BY <2>1, <2>2
<1> QED
  BY <1>1, <1>2, <1>3 DEF Owned

\* An object is freed.
LEMMA OwnedGive ==
  ASSUME NEW has, NEW used, NEW next, Owned(has, used), NEW o \in Owners, has[o] # NoAddress,
         next[o] = NoAddress, \A r \in Owners : r # o => next[r] = has[r]
  PROVE  Owned(next, used \ {has[o]})
<1>1. ASSUME NEW r \in Owners PROVE next[r] = NoAddress \/ next[r] \in used \ {has[o]}
  BY DEF Owned
<1>2. ASSUME NEW r \in Owners, NEW s \in Owners, next[r] = next[s], next[r] # NoAddress PROVE r = s
  BY <1>2 DEF Owned
<1>3. ASSUME NEW a \in used \ {has[o]} PROVE \E r \in Owners : next[r] = a
  <2>1. PICK r \in Owners : has[r] = a
    BY DEF Owned
  <2> QED
    BY <2>1
<1> QED
  BY <1>1, <1>2, <1>3 DEF Owned

\* What each owner has, before a step and after it.
LEMMA ClaimsAre ==
  /\ \A a \in Addresses :
       /\ {<<"held", a>>, <<"boot", a>>} \subseteq Owners
       /\ Claims[<<"held", a>>] = IF a \in held THEN a ELSE NoAddress
       /\ Claims'[<<"held", a>>] = IF a \in held' THEN a ELSE NoAddress
       /\ Claims[<<"boot", a>>] = IF a \in Permanent THEN a ELSE NoAddress
       /\ Claims'[<<"boot", a>>] = IF a \in Permanent THEN a ELSE NoAddress
  /\ \A u \in Callers :
       /\ {<<"call", u>>, <<"part", u>>} \subseteq Owners
       /\ Claims[<<"call", u>>] = OfCall(u) /\ Claims'[<<"call", u>>] = OfCall(u)'
       /\ Claims[<<"part", u>>] = OfPart(u) /\ Claims'[<<"part", u>>] = OfPart(u)'
  /\ \A p \in Pages :
       /\ {<<"at", p>>, <<"map", p>>} \subseteq Owners
       /\ Claims[<<"at", p>>] = IF p \in BigSlabs THEN slab[p].at ELSE NoAddress
       /\ Claims'[<<"at", p>>] = IF p \in BigSlabs' THEN slab'[p].at ELSE NoAddress
       /\ Claims[<<"map", p>>] = IF p \in BigSlabs THEN slab[p].map_at ELSE NoAddress
       /\ Claims'[<<"map", p>>] = IF p \in BigSlabs' THEN slab'[p].map_at ELSE NoAddress
<1>1. ASSUME NEW a \in Addresses
      PROVE  /\ {<<"held", a>>, <<"boot", a>>} \subseteq Owners
             /\ Claims[<<"held", a>>] = IF a \in held THEN a ELSE NoAddress
             /\ Claims'[<<"held", a>>] = IF a \in held' THEN a ELSE NoAddress
             /\ Claims[<<"boot", a>>] = IF a \in Permanent THEN a ELSE NoAddress
             /\ Claims'[<<"boot", a>>] = IF a \in Permanent THEN a ELSE NoAddress
  <2>1. {<<"held", a>>, <<"boot", a>>} \subseteq Owners
    BY DEF Owners
  <2> QED
    BY <2>1 DEF Claims
<1>2. ASSUME NEW u \in Callers
      PROVE  /\ {<<"call", u>>, <<"part", u>>} \subseteq Owners
             /\ Claims[<<"call", u>>] = OfCall(u) /\ Claims'[<<"call", u>>] = OfCall(u)'
             /\ Claims[<<"part", u>>] = OfPart(u) /\ Claims'[<<"part", u>>] = OfPart(u)'
  <2>1. {<<"call", u>>, <<"part", u>>} \subseteq Owners
    BY DEF Owners
  <2> QED
    BY <2>1 DEF Claims
<1>3. ASSUME NEW p \in Pages
      PROVE  /\ {<<"at", p>>, <<"map", p>>} \subseteq Owners
             /\ Claims[<<"at", p>>] = IF p \in BigSlabs THEN slab[p].at ELSE NoAddress
             /\ Claims'[<<"at", p>>] = IF p \in BigSlabs' THEN slab'[p].at ELSE NoAddress
             /\ Claims[<<"map", p>>] = IF p \in BigSlabs THEN slab[p].map_at ELSE NoAddress
             /\ Claims'[<<"map", p>>] = IF p \in BigSlabs' THEN slab'[p].map_at ELSE NoAddress
  <2>1. {<<"at", p>>, <<"map", p>>} \subseteq Owners
    BY DEF Owners
  <2> QED
    BY <2>1 DEF Claims
<1> QED
  BY <1>1, <1>2, <1>3

\* Who is not named has what he had.
LEMMA ClaimsKept ==
  ASSUME NEW S,
         \A a \in Addresses : <<"held", a>> \in S \/ (a \in held' <=> a \in held),
         \A u \in Callers : /\ <<"call", u>> \in S \/ OfCall(u)' = OfCall(u)
                            /\ <<"part", u>> \in S \/ OfPart(u)' = OfPart(u),
         \A p \in Pages :
           /\ <<"at", p>> \in S \/ ((p \in BigSlabs' <=> p \in BigSlabs) /\ (p \in BigSlabs => slab'[p].at = slab[p].at))
           /\ <<"map", p>> \in S \/ ((p \in BigSlabs' <=> p \in BigSlabs) /\ (p \in BigSlabs => slab'[p].map_at = slab[p].map_at))
  PROVE  \A o \in Owners : o \notin S => Claims'[o] = Claims[o]
<1> SUFFICES ASSUME NEW o \in Owners, o \notin S PROVE Claims'[o] = Claims[o]
  OBVIOUS
<1>1. ASSUME NEW a \in Addresses, o = <<"held", a>> PROVE Claims'[o] = Claims[o]
  <2>1. a \in held' <=> a \in held
    BY <1>1
  <2> QED
    BY <1>1, <2>1, ClaimsAre
<1>2. ASSUME NEW a \in Addresses, o = <<"boot", a>> PROVE Claims'[o] = Claims[o]
  BY <1>2, ClaimsAre
<1>3. ASSUME NEW u \in Callers, o = <<"call", u>> PROVE Claims'[o] = Claims[o]
  <2>1. OfCall(u)' = OfCall(u)
    BY <1>3
  <2>2. Claims[<<"call", u>>] = OfCall(u) /\ Claims'[<<"call", u>>] = OfCall(u)'
    BY ClaimsAre
  <2> QED
    BY <1>3, <2>1, <2>2
<1>4. ASSUME NEW u \in Callers, o = <<"part", u>> PROVE Claims'[o] = Claims[o]
  <2>1. OfPart(u)' = OfPart(u)
    BY <1>4
  <2>2. Claims[<<"part", u>>] = OfPart(u) /\ Claims'[<<"part", u>>] = OfPart(u)'
    BY ClaimsAre
  <2> QED
    BY <1>4, <2>1, <2>2
<1>5. ASSUME NEW p \in Pages, o = <<"at", p>> PROVE Claims'[o] = Claims[o]
  <2>1. (p \in BigSlabs' <=> p \in BigSlabs) /\ (p \in BigSlabs => slab'[p].at = slab[p].at)
    BY <1>5
  <2> QED
    BY <1>5, <2>1, ClaimsAre
<1>6. ASSUME NEW p \in Pages, o = <<"map", p>> PROVE Claims'[o] = Claims[o]
  <2>1. (p \in BigSlabs' <=> p \in BigSlabs) /\ (p \in BigSlabs => slab'[p].map_at = slab[p].map_at)
    BY <1>6
  <2> QED
    BY <1>6, <2>1, ClaimsAre
<1> QED
  BY <1>1, <1>2, <1>3, <1>4, <1>5, <1>6 DEF Owners
\* The same objects are in use.
LEMMA UsedSame ==
  ASSUME InSlabs' = InSlabs, \A p \in InSlabs : slab'[p].color_map = slab[p].color_map
  PROVE  ObjectsInUse' = ObjectsInUse
BY DEF ObjectsInUse

\* No big slab is added or taken out.
LEMMA BigKept ==
  ASSUME NEW t \in Callers, NEW from, NEW to, Moved(t, from, to), pool' = pool,
         from = "link" => loc[t].cache # "big", to = "link" => loc'[t].cache # "big"
  PROVE  BigSlabs' = BigSlabs
<1>1. \A u \in Callers : (memory_pc'[u] = "link" /\ loc'[u].cache = "big") <=> (memory_pc[u] = "link" /\ loc[u].cache = "big")
  BY DEF Moved
<1>2. \A u \in Callers : memory_pc[u] = "link" /\ loc[u].cache = "big" => loc'[u].page = loc[u].page
  BY DEF Moved
<1>3. Linking' = Linking
  BY <1>1, <1>2 DEF Linking
<1> QED
  BY <1>3 DEF BigSlabs, Slabs

\* The other calls have what they had.
LEMMA OthersOwn ==
  ASSUME NEW t \in Callers, NEW from, NEW to, Moved(t, from, to)
  PROVE  \A u \in Callers \ {t} : OfCall(u)' = OfCall(u) /\ OfPart(u)' = OfPart(u) /\ HasPart(u)' = HasPart(u)
BY DEF OfCall, OfPart, HasPart, Moved

\* What calls and big slabs have is in use.
LEMMA OwnedInUse ==
  ASSUME Owned(Claims, ObjectsInUse)
  PROVE  /\ \A u \in Callers : {OfCall(u), OfPart(u)} \subseteq ObjectsInUse \cup {NoAddress}
         /\ \A p \in BigSlabs \cap Pages : {slab[p].at, slab[p].map_at} \subseteq ObjectsInUse \cup {NoAddress}
<1>1. ASSUME NEW u \in Callers PROVE {OfCall(u), OfPart(u)} \subseteq ObjectsInUse \cup {NoAddress}
  <2>1. /\ <<"call", u>> \in Owners /\ <<"part", u>> \in Owners
        /\ Claims[<<"call", u>>] = OfCall(u) /\ Claims[<<"part", u>>] = OfPart(u)
    BY ClaimsAre
  <2> QED
    BY <2>1 DEF Owned
<1>2. ASSUME NEW p \in BigSlabs \cap Pages PROVE {slab[p].at, slab[p].map_at} \subseteq ObjectsInUse \cup {NoAddress}
  <2>1. /\ <<"at", p>> \in Owners /\ <<"map", p>> \in Owners
        /\ Claims[<<"at", p>>] = slab[p].at /\ Claims[<<"map", p>>] = slab[p].map_at
    BY ClaimsAre
  <2> QED
    BY <2>1 DEF Owned
<1> QED
  BY <1>1, <1>2

\* The parts of big slabs stay in small ones.
LEMMA PartsKept ==
  ASSUME Types, Owned(Claims, ObjectsInUse), PartsSmall, NEW t \in Callers, NEW from, NEW to, Moved(t, from, to),
         \A a \in ObjectsInUse : a[1] \in Slabs("small") => a[1] \in Slabs("small")',
         HasPart(t)' => loc'[t].at \in Slabs("small")' \X Indices,
         to \in {"kfree", "flip"} => loc'[t].address # NoAddress,
         loc'[t].then # "user" =>
           loc'[t].cache = "small" /\ OfCall(t)' \in (Slabs("small")' \X Indices) \cup {NoAddress},
         \A p \in BigSlabs' \ {PoolPage["big"]} :
           \/ p \in BigSlabs /\ slab'[p].at = slab[p].at /\ slab'[p].map_at = slab[p].map_at
           \/ {slab'[p].at, slab'[p].map_at} \subseteq Slabs("small")' \X Indices
  PROVE  PartsSmall'
<1>0. \A a : a \in Slabs("small") \X Indices /\ a \in ObjectsInUse \cup {NoAddress} => a \in Slabs("small")' \X Indices
  <2>1. Slabs("small") \subseteq AllPages /\ Slabs("small") \X Indices \subseteq Addresses
    BY Apart DEF Types, Addresses, Caches
  <2> QED
    BY <2>1, Apart
<1>1. ASSUME NEW u \in Callers
      PROVE  /\ HasPart(u)' => loc'[u].at \in Slabs("small")' \X Indices
             /\ memory_pc'[u] \in {"kfree", "flip"} => loc'[u].address # NoAddress
             /\ loc'[u].then # "user" =>
                  loc'[u].cache = "small" /\ OfCall(u)' \in (Slabs("small")' \X Indices) \cup {NoAddress}
  <2>1. CASE u = t
    BY <2>1 DEF Moved
  <2>2. CASE u # t
    <3>1. OfCall(u)' = OfCall(u) /\ OfPart(u)' = OfPart(u) /\ HasPart(u)' = HasPart(u) /\ loc'[u] = loc[u] /\ memory_pc'[u] = memory_pc[u]
      BY <2>2, OthersOwn DEF Moved
    <3>2. OfCall(u) \in ObjectsInUse \cup {NoAddress} /\ OfPart(u) \in ObjectsInUse \cup {NoAddress}
      BY OwnedInUse
    <3>3. HasPart(u) => loc[u].at = OfPart(u)
      BY DEF OfPart
    <3>4. HasPart(u) => loc[u].at \in Slabs("small")' \X Indices
      BY <1>0, <3>2, <3>3 DEF PartsSmall
    <3>5. memory_pc[u] \in {"kfree", "flip"} => loc[u].address # NoAddress
      BY DEF PartsSmall
    <3>6. loc[u].then # "user" =>
            loc[u].cache = "small" /\ OfCall(u) \in (Slabs("small")' \X Indices) \cup {NoAddress}
      BY <1>0, <3>2 DEF PartsSmall
    <3> QED
      BY <3>1, <3>4, <3>5, <3>6
  <2> QED
    BY <2>1, <2>2
<1>2. ASSUME NEW p \in BigSlabs' \ {PoolPage["big"]}
      PROVE  {slab'[p].at, slab'[p].map_at} \subseteq Slabs("small")' \X Indices
  <2>1. CASE p \in BigSlabs /\ slab'[p].at = slab[p].at /\ slab'[p].map_at = slab[p].map_at
    <3>1. p \in Pages
      BY <1>2, <2>1 DEF BigSlabs, Linking, Types, LocFits, HasPage, Caches
    <3>2. {slab[p].at, slab[p].map_at} \subseteq ObjectsInUse \cup {NoAddress}
      BY <2>1, <3>1, OwnedInUse
    <3>3. {slab[p].at, slab[p].map_at} \subseteq Slabs("small") \X Indices
      BY <1>2, <2>1 DEF PartsSmall
    <3> QED
      BY <1>0, <2>1, <3>2, <3>3
  <2> QED
    BY <1>2, <2>1
<1> QED
  BY <1>1, <1>2 DEF PartsSmall

\* A step by which nothing changes hands.
LEMMA QuietOwned ==
  ASSUME Types, Owned(Claims, ObjectsInUse), PartsSmall, NEW t \in Callers, NEW from, NEW to, Moved(t, from, to),
         held' = held, pool' = pool, BigSlabs' = BigSlabs,
         \A p \in InSlabs : slab'[p].color_map = slab[p].color_map,
         \A p \in BigSlabs : slab'[p].at = slab[p].at /\ slab'[p].map_at = slab[p].map_at,
         OfCall(t)' = OfCall(t), OfPart(t)' = OfPart(t), HasPart(t)' => HasPart(t),
         to \in {"kfree", "flip"} => from = "kfree" /\ loc'[t].address = loc[t].address,
         loc'[t].then # "user" =>
           loc'[t].cache = "small" /\ (loc[t].then # "user" \/ OfCall(t) = NoAddress)
  PROVE  Owned(Claims', ObjectsInUse') /\ PartsSmall'
<1>1. (\A c \in Caches : Slabs(c)' = Slabs(c)) /\ InSlabs' = InSlabs
  BY DEF Slabs, InSlabs
<1>2. ObjectsInUse' = ObjectsInUse
  BY <1>1, UsedSame
<1>3. \A u \in Callers : OfCall(u)' = OfCall(u) /\ OfPart(u)' = OfPart(u)
  BY OthersOwn
<1>4. \A o \in Owners : Claims'[o] = Claims[o]
  <2> DEFINE S == {}
  <2>1. \A a \in Addresses : <<"held", a>> \in S \/ (a \in held' <=> a \in held)
    OBVIOUS
  <2>2. \A u \in Callers : /\ <<"call", u>> \in S \/ OfCall(u)' = OfCall(u)
                           /\ <<"part", u>> \in S \/ OfPart(u)' = OfPart(u)
    BY <1>3
  <2>3. \A p \in Pages :
           /\ <<"at", p>> \in S \/ ((p \in BigSlabs' <=> p \in BigSlabs) /\ (p \in BigSlabs => slab'[p].at = slab[p].at))
           /\ <<"map", p>> \in S \/ ((p \in BigSlabs' <=> p \in BigSlabs) /\ (p \in BigSlabs => slab'[p].map_at = slab[p].map_at))
    OBVIOUS
  <2> HIDE DEF S
  <2>4. \A o \in Owners : o \notin S => Claims'[o] = Claims[o]
    BY <2>1, <2>2, <2>3, ClaimsKept
  <2> QED
    BY <2>4 DEF S
<1>5. Owned(Claims', ObjectsInUse')
  BY <1>2, <1>4, OwnedSame
<1>6. HasPart(t)' => loc'[t].at \in Slabs("small")' \X Indices
  <2>1. HasPart(t)' => OfPart(t)' = loc'[t].at
    BY DEF OfPart
  <2>2. HasPart(t) => OfPart(t) = loc[t].at
    BY DEF OfPart
  <2> QED
    BY <1>1, <2>1, <2>2 DEF PartsSmall, Caches
<1>7. to \in {"kfree", "flip"} => loc'[t].address # NoAddress
  BY DEF PartsSmall, Moved
<1>8. loc'[t].then # "user" =>
           loc'[t].cache = "small" /\ OfCall(t)' \in (Slabs("small")' \X Indices) \cup {NoAddress}
  BY <1>1 DEF PartsSmall, Caches
<1>9. Slabs("small")' = Slabs("small")
  BY <1>1 DEF Caches
<1>10. PartsSmall'
  BY <1>6, <1>7, <1>8, <1>9, PartsKept
<1> QED
  BY <1>5, <1>10
\* A page in nobody's hands is no slab.
LEMMA BigInUse ==
  ASSUME Types, PagesApart, NEW p \in BigSlabs \cap Pages
  PROVE  p \in bits_map /\ p \in InSlabs \cup UNION {Hold(u) : u \in Callers}
<1>1. CASE p \in Slabs("big")
  BY <1>1 DEF PagesApart, InSlabs, Caches
<1>2. CASE p \in Linking
  <2>1. PICK u \in Callers : memory_pc[u] = "link" /\ p = loc[u].page
    BY <1>2 DEF Linking
  <2>2. p \in Hold(u)
    BY <2>1 DEF Hold, HasPage
  <2> QED
    BY <2>2 DEF PagesApart
<1> QED
  BY <1>1, <1>2 DEF BigSlabs

\* Looking for room and marking a page changes no owner.
LEMMA LookingOwned ==
  ASSUME Types, PagesApart, Owned(Claims, ObjectsInUse), PartsSmall, NEW t \in Callers, MemoryAlive',
         \/ \E c \in Caches : Kmalloc(t, c)
         \/ Choose(t) \/ FindPage(t) \/ LoadBits(t) \/ KfreeReturns(t) \/ Test(t)
  PROVE  Owned(Claims', ObjectsInUse') /\ PartsSmall'
<1> DEFINE Goal == Owned(Claims', ObjectsInUse') /\ PartsSmall'
<1>0. \A from, how : Fails(t, from, how) => how = "none"
  BY DEF Fails, MemoryAlive
<1> USE DEF OfCall, OfPart, HasPart
<1>1. ASSUME NEW c \in Caches, Kmalloc(t, c) PROVE Goal
  <2>1. /\ Moved(t, "run", "choose") /\ held' = held /\ pool' = pool /\ slab' = slab
        /\ loc'[t].then = "user" /\ loc[t].then = "user"
    BY <1>1, KmallocStep, FirstValues DEF cacheVars
  <2>2. BigSlabs' = BigSlabs
    BY <2>1, BigKept
  <2>3. OfCall(t)' = OfCall(t) /\ OfPart(t)' = OfPart(t) /\ ~HasPart(t)'
    BY <2>1 DEF Moved
  <2> QED
    BY <2>1, <2>2, <2>3, QuietOwned
<1>2. ASSUME Choose(t), NEW to \in {"find", "test"}, Moved(t, "choose", to) PROVE Goal
  <2>1. /\ held' = held /\ pool' = pool /\ slab' = slab /\ loc'[t].cache = loc[t].cache
        /\ loc'[t].then = loc[t].then /\ loc'[t].at = loc[t].at
    BY <1>2, ChooseStep DEF cacheVars
  <2>2. BigSlabs' = BigSlabs
    BY <1>2, <2>1, BigKept
  <2>3. OfCall(t)' = OfCall(t) /\ OfPart(t)' = OfPart(t) /\ (HasPart(t)' => HasPart(t))
    BY <1>2, <2>1 DEF Moved
  <2>4. loc'[t].then # "user" => loc'[t].cache = "small"
    BY <2>1 DEF PartsSmall
  <2> QED
    BY <1>2, <2>1, <2>2, <2>3, <2>4, QuietOwned
<1>3. ASSUME FindPage(t), NEW to \in {"got", "mark"}, Moved(t, "find", to), to = "got" => loc'[t].address = NoAddress PROVE Goal
  <2>1. /\ held' = held /\ pool' = pool /\ slab' = slab /\ loc'[t].cache = loc[t].cache
        /\ loc'[t].then = loc[t].then /\ loc'[t].at = loc[t].at
    BY <1>3, FindPageStep DEF cacheVars
  <2>2. BigSlabs' = BigSlabs
    BY <1>3, <2>1, BigKept
  <2>3. OfCall(t)' = OfCall(t) /\ OfPart(t)' = OfPart(t) /\ (HasPart(t)' => HasPart(t))
    BY <1>3, <2>1 DEF Moved
  <2>4. loc'[t].then # "user" => loc'[t].cache = "small"
    BY <2>1 DEF PartsSmall
  <2> QED
    BY <1>3, <2>1, <2>2, <2>3, <2>4, QuietOwned
<1>4. ASSUME LoadBits(t) PROVE Goal
  <2>1. /\ Moved(t, "clean", "release") /\ held' = held /\ pool' = pool /\ slab' = slab
        /\ loc'[t].cache = loc[t].cache /\ loc'[t].then = loc[t].then /\ loc'[t].at = loc[t].at
    BY <1>4, LoadBitsStep DEF cacheVars
  <2>2. BigSlabs' = BigSlabs
    BY <2>1, BigKept
  <2>3. OfCall(t)' = OfCall(t) /\ OfPart(t)' = OfPart(t) /\ (HasPart(t)' => HasPart(t))
    BY <2>1 DEF Moved
  <2>4. loc'[t].then # "user" => loc'[t].cache = "small"
    BY <2>1 DEF PartsSmall
  <2> QED
    BY <2>1, <2>2, <2>3, <2>4, QuietOwned
<1>5. ASSUME KfreeReturns(t), NEW to \in {"clean", "run"}, Moved(t, "freed", to),
             loc'[t].then = "user",
             to = "clean" => loc[t].then = "map" /\ loc'[t].cache = "big" /\ loc'[t].at = loc[t].at,
             to = "run" => loc[t].then # "map"
      PROVE Goal
  <2>1. /\ held' = held /\ pool' = pool /\ slab' = slab
    BY <1>5, KfreeReturnsStep DEF cacheVars
  <2>2. BigSlabs' = BigSlabs
    BY <1>5, <2>1, BigKept
  <2>3. OfCall(t)' = OfCall(t) /\ OfPart(t)' = OfPart(t) /\ (HasPart(t)' => HasPart(t))
    BY <1>5 DEF Moved
  <2> QED
    BY <1>5, <2>1, <2>2, <2>3, QuietOwned
<1>6. ASSUME Test(t), NEW to \in {"got", "set"}, Moved(t, "test", to), to = "got" => loc'[t].address = NoAddress PROVE Goal
  <2>1. /\ held' = held /\ pool' = pool /\ slab' = slab /\ loc'[t].cache = loc[t].cache
        /\ loc'[t].then = loc[t].then /\ loc'[t].at = loc[t].at
    BY <1>0, <1>6, TestStep DEF cacheVars
  <2>2. BigSlabs' = BigSlabs
    BY <1>6, <2>1, BigKept
  <2>3. OfCall(t)' = OfCall(t) /\ OfPart(t)' = OfPart(t) /\ (HasPart(t)' => HasPart(t))
    BY <1>6, <2>1 DEF Moved
  <2>4. loc'[t].then # "user" => loc'[t].cache = "small"
    BY <2>1 DEF PartsSmall
  <2> QED
    BY <1>6, <2>1, <2>2, <2>3, <2>4, QuietOwned
<1> HIDE DEF Goal
<1>7. ASSUME Choose(t) PROVE Goal
  BY <1>2, <1>7, ChooseStep
<1>8. ASSUME FindPage(t) PROVE Goal
  BY <1>3, <1>8, FindPageStep
<1>9. ASSUME KfreeReturns(t) PROVE Goal
  BY <1>5, <1>9, KfreeReturnsStep, FirstValues
<1>10. ASSUME Test(t) PROVE Goal
  BY <1>0, <1>6, <1>10, TestStep
<1> QED
  BY <1>1, <1>4, <1>7, <1>8, <1>9, <1>10 DEF Goal

\* Counting changes no owner.
LEMMA CountingOwned ==
  ASSUME Types, PagesApart, Owned(Claims, ObjectsInUse), PartsSmall, NEW t \in Callers, MemoryAlive',
         Count(t) \/ Uncount(t)
  PROVE  Owned(Claims', ObjectsInUse') /\ PartsSmall'
<1> DEFINE Goal == Owned(Claims', ObjectsInUse') /\ PartsSmall'
<1>0. \A from, how : Fails(t, from, how) => how = "none"
  BY DEF Fails, MemoryAlive
<1>a. InSlabs \subseteq AllPages /\ BigSlabs \subseteq AllPages
  BY Apart DEF Types, InSlabs, BigSlabs, Linking, LocFits, HasPage, Caches
<1>1. ASSUME Count(t) PROVE Goal
  <2>1. /\ Moved(t, "count", "got") /\ held' = held /\ pool' = pool
        /\ loc'[t].cache = loc[t].cache /\ loc'[t].then = loc[t].then
        /\ loc'[t].address = loc[t].address /\ loc'[t].at = loc[t].at
        /\ Linked(loc[t]) /\ StoreCounters(loc[t], 1)
    BY <1>0, <1>1, CountStep
  <2>2. memory_pc[t] \in {"count", "uncount"} /\ 1 \in Int
    BY <2>1 DEF Moved
  <2>3. \A p \in AllPages : /\ slab'[p].color_map = slab[p].color_map
                            /\ slab'[p].at = slab[p].at /\ slab'[p].map_at = slab[p].map_at
    BY <2>1, <2>2, StoreCountersTypes
  <2>4. BigSlabs' = BigSlabs
    BY <2>1, BigKept
  <2>5. OfCall(t)' = OfCall(t) /\ OfPart(t)' = OfPart(t) /\ (HasPart(t)' => HasPart(t))
    BY <2>1 DEF Moved, OfCall, OfPart, HasPart
  <2>6. loc'[t].then # "user" => loc'[t].cache = "small"
    BY <2>1 DEF PartsSmall
  <2> QED
    BY <1>a, <2>1, <2>3, <2>4, <2>5, <2>6, QuietOwned
<1>2. ASSUME Uncount(t), NEW to \in {"freed", "unlink"}, Moved(t, "uncount", to) PROVE Goal
  <2>1. /\ held' = held /\ pool' = pool
        /\ loc'[t].cache = loc[t].cache /\ loc'[t].then = loc[t].then /\ loc'[t].at = loc[t].at
        /\ Linked(loc[t]) /\ StoreCounters(loc[t], -1)
    BY <1>0, <1>2, UncountStep
  <2>2. memory_pc[t] \in {"count", "uncount"} /\ -1 \in Int
    BY <1>2 DEF Moved
  <2>3. \A p \in AllPages : /\ slab'[p].color_map = slab[p].color_map
                            /\ slab'[p].at = slab[p].at /\ slab'[p].map_at = slab[p].map_at
    BY <2>1, <2>2, StoreCountersTypes
  <2>4. BigSlabs' = BigSlabs
    BY <1>2, <2>1, BigKept
  <2>5. OfCall(t)' = OfCall(t) /\ OfPart(t)' = OfPart(t) /\ (HasPart(t)' => HasPart(t))
    BY <1>2, <2>1 DEF Moved, OfCall, OfPart, HasPart
  <2>6. loc'[t].then # "user" => loc'[t].cache = "small"
    BY <2>1 DEF PartsSmall
  <2> QED
    BY <1>2, <1>a, <2>1, <2>3, <2>4, <2>5, <2>6, QuietOwned
<1> HIDE DEF Goal
<1>3. ASSUME Uncount(t) PROVE Goal
  BY <1>0, <1>2, <1>3, UncountStep
<1> QED
  BY <1>1, <1>3 DEF Goal

\* Nor does marking a page: a new slab has no object in use.
LEMMA MarkPageOwned ==
  ASSUME Types, PagesApart, Owned(Claims, ObjectsInUse), PartsSmall, NEW t \in Callers, MarkPage(t), Fresh(t)
  PROVE  Owned(Claims', ObjectsInUse') /\ PartsSmall'
<1> DEFINE p == loc[t].page
<1>1. /\ p \in Pages /\ p \notin bits_map /\ held' = held /\ pool' = pool
      /\ \A q \in AllPages \ {p} : slab'[q] = slab[q]
      /\ loc'[t].cache = "small" /\ loc'[t].at = loc[t].at
  BY MarkPageStep DEF Fresh, MarkPage, At
<1>2. PICK to \in {"link", "choose"} :
        /\ Moved(t, "mark", to)
        /\ to = "link" => loc'[t].then = loc[t].then
        /\ to = "choose" => loc[t].then = "user" /\ loc'[t].then = "struct"
  BY MarkPageStep
<1>3. p \notin InSlabs /\ p \notin BigSlabs
  BY <1>1, BigInUse DEF PagesApart
<1>4. BigSlabs' = BigSlabs
  BY <1>1, <1>2, BigKept
<1>5. InSlabs \subseteq AllPages /\ BigSlabs \subseteq AllPages
  BY Apart DEF Types, InSlabs, BigSlabs, Linking, LocFits, HasPage, Caches
<1>6. OfCall(t)' = OfCall(t) /\ OfPart(t)' = OfPart(t) /\ (HasPart(t)' => HasPart(t)) /\ OfCall(t) = NoAddress
  <2>1. CASE to = "link"
    BY <1>1, <1>2, <2>1 DEF Moved, OfCall, OfPart, HasPart
  <2>2. CASE to = "choose"
    BY <1>1, <1>2, <2>2 DEF Moved, OfCall, OfPart, HasPart
  <2> QED
    BY <2>1, <2>2
<1>7. /\ \A r \in InSlabs : slab'[r].color_map = slab[r].color_map
      /\ \A r \in BigSlabs : slab'[r].at = slab[r].at /\ slab'[r].map_at = slab[r].map_at
  BY <1>1, <1>3, <1>5
<1>8. /\ Moved(t, "mark", to) /\ held' = held /\ pool' = pool
      /\ to \in {"kfree", "flip"} => "mark" = "kfree" /\ loc'[t].address = loc[t].address
      /\ loc'[t].then # "user" => loc'[t].cache = "small" /\ (loc[t].then # "user" \/ OfCall(t) = NoAddress)
  BY <1>1, <1>2, <1>6
<1> QED
  BY <1>4, <1>6, <1>7, <1>8, QuietOwned, SMTT(20)
\* What a call takes, gives or moves leaves the others' alone.
LEMMA TaskClaims ==
  ASSUME NEW t \in Callers, NEW from, NEW to, Moved(t, from, to), NEW S,
         {<<"call", t>>, <<"part", t>>} \subseteq S,
         \A a \in Addresses : <<"held", a>> \in S \/ (a \in held' <=> a \in held),
         BigSlabs' = BigSlabs,
         \A p \in BigSlabs : slab'[p].at = slab[p].at /\ slab'[p].map_at = slab[p].map_at
  PROVE  \A o \in Owners : o \notin S => Claims'[o] = Claims[o]
<1>1. \A u \in Callers : /\ <<"call", u>> \in S \/ OfCall(u)' = OfCall(u)
                         /\ <<"part", u>> \in S \/ OfPart(u)' = OfPart(u)
  <2> SUFFICES ASSUME NEW u \in Callers, u # t PROVE OfCall(u)' = OfCall(u) /\ OfPart(u)' = OfPart(u)
    OBVIOUS
  <2> QED
    BY OthersOwn
<1>2. \A p \in Pages :
        /\ <<"at", p>> \in S \/ ((p \in BigSlabs' <=> p \in BigSlabs) /\ (p \in BigSlabs => slab'[p].at = slab[p].at))
        /\ <<"map", p>> \in S \/ ((p \in BigSlabs' <=> p \in BigSlabs) /\ (p \in BigSlabs => slab'[p].map_at = slab[p].map_at))
  OBVIOUS
<1> QED
  BY <1>1, <1>2, ClaimsKept

\* The object whose bit kmalloc sets is the call's.
LEMMA SetOwned ==
  ASSUME Types, PagesApart, Owned(Claims, ObjectsInUse), PartsSmall, NEW t \in Callers, MemoryAlive', Set(t), Fresh(t)
  PROVE  Owned(Claims', ObjectsInUse') /\ PartsSmall'
<1> DEFINE p == loc[t].page
           a == loc[t].address
           j == loc[t].address[2]
           q == <<"call", t>>
<1>0. \A from, how : Fails(t, from, how) => how = "none"
  BY DEF Fails, MemoryAlive
<1>1. /\ Moved(t, "set", "count") /\ held' = held /\ pool' = pool /\ Linked(loc[t]) /\ p \in AllPages
      /\ loc'[t].cache = loc[t].cache /\ loc'[t].then = loc[t].then
      /\ loc'[t].address = a /\ loc'[t].at = loc[t].at
      /\ slab'[p] = [slab[p] EXCEPT !.color_map = loc[t].word \cup {j}]
      /\ \A r \in AllPages \ {p} : slab'[r] = slab[r]
  BY <1>0, SetStep
<1>2. /\ memory_pc[t] = "set" /\ loc[t].word = slab[p].color_map /\ j \notin loc[t].word
      /\ a \in Addresses /\ a[1] = p /\ loc[t].cache \in Caches /\ p \in Slabs(loc[t].cache)
  BY <1>1 DEF Moved, Fresh, Types, LocFits, LocType, Linked
<1>3. slab[p] \in SlabType
  BY <1>1 DEF Types
<1>4. /\ slab'[p].color_map = slab[p].color_map \cup {j}
      /\ slab'[p].at = slab[p].at /\ slab'[p].map_at = slab[p].map_at
  BY <1>1, <1>2, <1>3 DEF SlabType
<1>5. InSlabs' = InSlabs /\ p \in InSlabs /\ InSlabs \subseteq AllPages /\ BigSlabs \subseteq AllPages
  <2>1. InSlabs \subseteq AllPages /\ BigSlabs \subseteq AllPages
    BY Apart DEF Types, InSlabs, BigSlabs, Linking, LocFits, HasPage, Caches
  <2> QED
    BY <1>1, <1>2, <2>1 DEF InSlabs, Slabs
<1>6. BigSlabs' = BigSlabs
  BY <1>1, BigKept
<1>7. a = <<p, j>> /\ a \notin ObjectsInUse /\ NoAddress \notin ObjectsInUse
  BY <1>2, Apart DEF ObjectsInUse
<1>8. ObjectsInUse' = ObjectsInUse \cup {a}
  <2> SUFFICES ASSUME NEW x \in Addresses
               PROVE  (x[1] \in InSlabs' /\ x[2] \in slab'[x[1]].color_map)
                        <=> (x = a \/ (x[1] \in InSlabs /\ x[2] \in slab[x[1]].color_map))
    BY <1>2 DEF ObjectsInUse
  <2>1. x = <<x[1], x[2]>> /\ x[1] \in AllPages
    BY Apart
  <2>2. CASE x[1] = p
    BY <1>2, <1>4, <1>5, <1>7, <2>1, <2>2
  <2>3. CASE x[1] # p
    BY <1>1, <1>2, <1>5, <2>1, <2>3
  <2> QED
    BY <2>2, <2>3
<1>9. OfCall(t) = NoAddress /\ OfCall(t)' = a /\ OfPart(t)' = OfPart(t)
  BY <1>1, <1>2 DEF Moved, OfCall, OfPart, HasPart
<1>10. q \in Owners /\ Claims[q] = NoAddress /\ Claims'[q] = a /\ Claims'[<<"part", t>>] = Claims[<<"part", t>>]
  BY <1>9, ClaimsAre
<1>11. \A o \in Owners : o # q => Claims'[o] = Claims[o]
  <2>1. \A r \in BigSlabs : slab'[r].at = slab[r].at /\ slab'[r].map_at = slab[r].map_at
    BY <1>1, <1>4, <1>5
  <2> DEFINE S == {<<"call", t>>, <<"part", t>>}
  <2>2. \A o \in Owners : o \notin S => Claims'[o] = Claims[o]
    <3>1. {<<"call", t>>, <<"part", t>>} \subseteq S
      OBVIOUS
    <3> HIDE DEF S
    <3> QED
      BY <1>1, <1>6, <2>1, <3>1, TaskClaims
  <2> QED
    BY <1>10, <2>2
<1>12. Owned(Claims', ObjectsInUse')
  <2> DEFINE next == Claims'
             has == Claims
  <2>1. next[q] = a /\ has[q] = NoAddress /\ Owned(has, ObjectsInUse) /\ \A o \in Owners : o # q => next[o] = has[o]
    BY <1>10, <1>11
  <2> HIDE DEF next, has, a, q
  <2>2. Owned(next, ObjectsInUse \cup {next[q]})
    BY <1>7, <1>10, <2>1, OwnedTake
  <2> QED
    BY <1>8, <2>1, <2>2 DEF next
<1>13. (\A c \in Caches : Slabs(c)' = Slabs(c))
  BY <1>1 DEF Slabs
<1>14. loc'[t].then # "user" =>
           loc'[t].cache = "small" /\ OfCall(t)' \in (Slabs("small")' \X Indices) \cup {NoAddress}
  BY <1>1, <1>2, <1>7, <1>9, <1>13, Apart DEF PartsSmall
<1>15. HasPart(t)' => loc'[t].at \in Slabs("small")' \X Indices
  BY <1>1, <1>13 DEF HasPart, PartsSmall, Moved, Caches
<1>16. \A r \in BigSlabs' : r \in BigSlabs /\ slab'[r].at = slab[r].at /\ slab'[r].map_at = slab[r].map_at
  BY <1>1, <1>4, <1>5, <1>6
<1>17. PartsSmall'
  BY <1>1, <1>13, <1>14, <1>15, <1>16, PartsKept DEF Caches
<1> QED
  BY <1>12, <1>17

\* The bit that kfree inverts was set, and its object was the call's.
LEMMA FlipOwned ==
  ASSUME Types, PagesApart, Owned(Claims, ObjectsInUse), PartsSmall, NEW t \in Callers, MemoryAlive', Flip(t), Fresh(t)
  PROVE  /\ Owned(Claims', ObjectsInUse') /\ PartsSmall'
         /\ loc[t].address[2] \in slab[loc[t].page].color_map
         /\ slab'[loc[t].page].color_map = slab[loc[t].page].color_map \ {loc[t].address[2]}
<1> DEFINE p == loc[t].page
           a == loc[t].address
           j == loc[t].address[2]
           q == <<"call", t>>
           map == SymDiff(loc[t].word, {j})
<1>0. \A from, how : Fails(t, from, how) => how = "none"
  BY DEF Fails, MemoryAlive
<1>1. /\ Moved(t, "flip", "uncount") /\ held' = held /\ pool' = pool /\ Linked(loc[t]) /\ p \in AllPages
      /\ loc'[t].cache = loc[t].cache /\ loc'[t].then = loc[t].then /\ loc'[t].at = loc[t].at
      /\ slab'[p] = [slab[p] EXCEPT !.color_map = map]
      /\ \A r \in AllPages \ {p} : slab'[r] = slab[r]
  BY <1>0, FlipStep
<1>2. /\ memory_pc[t] = "flip" /\ loc[t].word = slab[p].color_map
      /\ a \in Addresses /\ a[1] = p /\ loc[t].cache \in Caches /\ p \in Slabs(loc[t].cache)
  BY <1>1 DEF Moved, Fresh, Types, LocFits, LocType, Linked
<1>3. OfCall(t) = a /\ OfCall(t)' = NoAddress /\ OfPart(t)' = OfPart(t)
  BY <1>1, <1>2 DEF Moved, OfCall, OfPart, HasPart
<1>4. a = <<p, j>> /\ a # NoAddress /\ a \in ObjectsInUse
  BY <1>2, <1>3, OwnedInUse, Apart
<1>5. j \in slab[p].color_map /\ map = slab[p].color_map \ {j}
  <2>1. j \in slab[p].color_map
    BY <1>2, <1>4 DEF ObjectsInUse
  <2> QED
    BY <1>2, <2>1 DEF SymDiff
<1> HIDE DEF map
<1>6. slab[p] \in SlabType
  BY <1>1 DEF Types
<1>7. /\ slab'[p].color_map = slab[p].color_map \ {j}
      /\ slab'[p].at = slab[p].at /\ slab'[p].map_at = slab[p].map_at
  BY <1>1, <1>5, <1>6 DEF SlabType
<1>8. InSlabs' = InSlabs /\ p \in InSlabs /\ InSlabs \subseteq AllPages /\ BigSlabs \subseteq AllPages
  <2>1. InSlabs \subseteq AllPages /\ BigSlabs \subseteq AllPages
    BY Apart DEF Types, InSlabs, BigSlabs, Linking, LocFits, HasPage, Caches
  <2> QED
    BY <1>1, <1>2, <2>1 DEF InSlabs, Slabs
<1>9. BigSlabs' = BigSlabs
  BY <1>1, BigKept
<1>10. ObjectsInUse' = ObjectsInUse \ {a}
  <2> SUFFICES ASSUME NEW x \in Addresses
               PROVE  (x[1] \in InSlabs' /\ x[2] \in slab'[x[1]].color_map)
                        <=> (x # a /\ x[1] \in InSlabs /\ x[2] \in slab[x[1]].color_map)
    BY <1>2 DEF ObjectsInUse
  <2>1. x = <<x[1], x[2]>> /\ x[1] \in AllPages
    BY Apart
  <2>2. CASE x[1] = p
    BY <1>2, <1>4, <1>7, <1>8, <2>1, <2>2
  <2>3. CASE x[1] # p
    BY <1>1, <1>2, <1>8, <2>1, <2>3
  <2> QED
    BY <2>2, <2>3
<1>11. q \in Owners /\ Claims[q] = a /\ Claims'[q] = NoAddress /\ Claims'[<<"part", t>>] = Claims[<<"part", t>>]
  BY <1>3, ClaimsAre
<1>12. \A o \in Owners : o # q => Claims'[o] = Claims[o]
  <2>1. \A r \in BigSlabs : slab'[r].at = slab[r].at /\ slab'[r].map_at = slab[r].map_at
    BY <1>1, <1>7, <1>8
  <2> DEFINE S == {<<"call", t>>, <<"part", t>>}
  <2>2. \A o \in Owners : o \notin S => Claims'[o] = Claims[o]
    <3>1. {<<"call", t>>, <<"part", t>>} \subseteq S
      OBVIOUS
    <3> HIDE DEF S
    <3> QED
      BY <1>1, <1>9, <2>1, <3>1, TaskClaims
  <2> QED
    BY <1>11, <2>2
<1>13. Owned(Claims', ObjectsInUse')
  <2> DEFINE next == Claims'
             has == Claims
  <2>1. next[q] = NoAddress /\ has[q] = a /\ Owned(has, ObjectsInUse) /\ \A o \in Owners : o # q => next[o] = has[o]
    BY <1>11, <1>12
  <2> HIDE DEF next, has, a, q
  <2>2. Owned(next, ObjectsInUse \ {has[q]})
    BY <1>4, <1>11, <2>1, OwnedGive
  <2> QED
    BY <1>10, <2>1, <2>2 DEF next
<1>14. (\A c \in Caches : Slabs(c)' = Slabs(c))
  BY <1>1 DEF Slabs
<1>15. loc'[t].then # "user" =>
           loc'[t].cache = "small" /\ OfCall(t)' \in (Slabs("small")' \X Indices) \cup {NoAddress}
  BY <1>1, <1>3 DEF PartsSmall
<1>16. HasPart(t)' => loc'[t].at \in Slabs("small")' \X Indices
  BY <1>1, <1>14 DEF HasPart, PartsSmall, Moved, Caches
<1>17. \A r \in BigSlabs' : r \in BigSlabs /\ slab'[r].at = slab[r].at /\ slab'[r].map_at = slab[r].map_at
  BY <1>1, <1>7, <1>8, <1>9
<1>18. PartsSmall'
  BY <1>1, <1>14, <1>15, <1>16, <1>17, PartsKept DEF Caches
<1> QED
  BY <1>5, <1>7, <1>13, <1>18
\* What a call has nobody outside holds.
LEMMA CallApart ==
  ASSUME Types, Owned(Claims, ObjectsInUse), NEW t \in Callers, OfCall(t) # NoAddress
  PROVE  OfCall(t) \notin held /\ OfCall(t) \in ObjectsInUse
<1> SUFFICES ASSUME OfCall(t) \in held PROVE FALSE
  BY OwnedInUse
<1>1. OfCall(t) \in Addresses
  BY DEF Types, MemoryTypeOK
<1>2. /\ <<"held", OfCall(t)>> \in Owners /\ <<"call", t>> \in Owners
      /\ Claims[<<"held", OfCall(t)>>] = OfCall(t) /\ Claims[<<"call", t>>] = OfCall(t)
  BY <1>1, ClaimsAre
<1>3. <<"held", OfCall(t)>> # <<"call", t>>
  OBVIOUS
<1> QED
  BY <1>2, <1>3 DEF Owned

\* A call gives what it has to the task, or takes what the task held.
LEMMA HandOver ==
  ASSUME Types, Owned(Claims, ObjectsInUse), NEW t \in Callers, NEW from, NEW to, Moved(t, from, to), NEW a \in Addresses,
         cacheVars' = cacheVars, BigSlabs' = BigSlabs, OfPart(t)' = OfPart(t),
         \/ a \notin held /\ held' = held \cup {a} /\ OfCall(t) = a /\ OfCall(t)' = NoAddress
         \/ a \in held /\ held' = held \ {a} /\ OfCall(t) = NoAddress /\ OfCall(t)' = a
  PROVE  Owned(Claims', ObjectsInUse')
<1> DEFINE q == <<"call", t>>
           h == <<"held", a>>
           S == {<<"call", t>>, <<"part", t>>, <<"held", a>>}
           has == Claims
           next == Claims'
<1>1. a # NoAddress /\ slab' = slab /\ pool' = pool
  BY Apart DEF cacheVars
<1>2. ObjectsInUse' = ObjectsInUse
  BY <1>1 DEF ObjectsInUse, InSlabs, Slabs
<1>3. /\ q \in Owners /\ h \in Owners /\ h # q
      /\ has[q] = OfCall(t) /\ next[q] = OfCall(t)'
      /\ has[h] = (IF a \in held THEN a ELSE NoAddress) /\ next[h] = (IF a \in held' THEN a ELSE NoAddress)
      /\ next[<<"part", t>>] = has[<<"part", t>>]
  BY ClaimsAre, ZenonT(40)
<1>4. \A o \in Owners : o \notin S => next[o] = has[o]
  <2>1. \A b \in Addresses : <<"held", b>> \in S \/ (b \in held' <=> b \in held)
    OBVIOUS
  <2>2. {<<"call", t>>, <<"part", t>>} \subseteq S
    OBVIOUS
  <2> HIDE DEF S
  <2> QED
    BY <1>1, <2>1, <2>2, TaskClaims
<1>5. \A o \in Owners : o # q /\ o # h => next[o] = has[o]
  BY <1>3, <1>4
<1>6. Owned(has, ObjectsInUse)
  OBVIOUS
<1> HIDE DEF has, next, q, h
<1>7. Owned(next, ObjectsInUse)
  <2>1. CASE a \notin held /\ held' = held \cup {a} /\ OfCall(t) = a /\ OfCall(t)' = NoAddress
    <3>1. has[h] = NoAddress /\ next[q] = NoAddress /\ next[h] = has[q]
      BY <1>3, <2>1
    <3> QED
      BY <1>3, <1>5, <1>6, <3>1, OwnedMove
  <2>2. CASE a \in held /\ held' = held \ {a} /\ OfCall(t) = NoAddress /\ OfCall(t)' = a
    <3>1. has[q] = NoAddress /\ next[h] = NoAddress /\ next[q] = has[h]
      BY <1>3, <2>2
    <3> QED
      BY <1>3, <1>5, <1>6, <3>1, OwnedMove
  <2> QED
    BY <2>1, <2>2
<1> QED
  BY <1>2, <1>7 DEF next

\* kmalloc hands its object to the task.
LEMMA GotOwned ==
  ASSUME Types, Owned(Claims, ObjectsInUse), PartsSmall, NEW t \in Callers, MemoryAlive', Got(t)
  PROVE  Owned(Claims', ObjectsInUse') /\ PartsSmall'
<1> DEFINE a == loc[t].address
<1>1. /\ Moved(t, "got", "run") /\ cacheVars' = cacheVars /\ loc[t].then = "user" /\ loc'[t] = Unused
      /\ a \in Maybe \ held /\ held' = held \cup ({a} \ {NoAddress})
  BY GotStep DEF Fails, MemoryAlive
<1>2. slab' = slab /\ pool' = pool /\ loc'[t].then = "user"
  BY <1>1, FirstValues DEF cacheVars
<1>3. BigSlabs' = BigSlabs
  BY <1>1, <1>2, BigKept
<1>4. OfCall(t) = a /\ OfCall(t)' = NoAddress /\ OfPart(t)' = OfPart(t) /\ ~HasPart(t)'
  BY <1>1, <1>2 DEF Moved, OfCall, OfPart, HasPart
<1>5. CASE a = NoAddress
  <2>1. held' = held
    BY <1>1, <1>5
  <2> QED
    BY <1>1, <1>2, <1>3, <1>4, <1>5, <2>1, QuietOwned
<1>6. CASE a # NoAddress
  <2>1. a \in Addresses /\ a \notin held /\ held' = held \cup {a}
    BY <1>1, <1>6 DEF Maybe
  <2>2. Owned(Claims', ObjectsInUse')
    BY <1>1, <1>3, <1>4, <2>1, HandOver
  <2>3. Slabs("small")' = Slabs("small")
    BY <1>2 DEF Slabs
  <2>4. PartsSmall'
    BY <1>1, <1>2, <1>3, <1>4, <2>3, PartsKept
  <2> QED
    BY <2>2, <2>4
<1> QED
  BY <1>5, <1>6

\* The task hands it to kfree.
LEMMA KfreeOwned ==
  ASSUME Types, Owned(Claims, ObjectsInUse), PartsSmall, NEW t \in Callers, NEW a, Kfree(t, a)
  PROVE  Owned(Claims', ObjectsInUse') /\ PartsSmall'
<1>1. /\ Moved(t, "run", "kfree") /\ cacheVars' = cacheVars /\ loc[t] = Unused
      /\ a \in held /\ held' = held \ {a} /\ a \in Addresses
      /\ loc'[t].address = a /\ loc'[t].then = "user"  /\ loc'[t].cache = "small"
  BY KfreeStep DEF Types, MemoryTypeOK
<1>2. slab' = slab /\ pool' = pool /\ loc[t].then = "user" /\ a # NoAddress
  BY <1>1, FirstValues, Apart DEF cacheVars
<1>3. BigSlabs' = BigSlabs
  BY <1>1, <1>2, BigKept
<1>4. OfCall(t) = NoAddress /\ OfCall(t)' = a /\ OfPart(t)' = OfPart(t) /\ ~HasPart(t)'
  BY <1>1, <1>2 DEF Moved, OfCall, OfPart, HasPart
<1>5. Owned(Claims', ObjectsInUse')
  BY <1>1, <1>3, <1>4, HandOver
<1>6. Slabs("small")' = Slabs("small")
  BY <1>2 DEF Slabs
<1>7. PartsSmall'
  BY <1>1, <1>2, <1>3, <1>4, <1>6, PartsKept
<1> QED
  BY <1>5, <1>7

\* A call gives or takes the struct of the slab it works on.
LEMMA PartOver ==
  ASSUME Types, Owned(Claims, ObjectsInUse), NEW t \in Callers, NEW from, NEW to, Moved(t, from, to),
         cacheVars' = cacheVars, held' = held, BigSlabs' = BigSlabs,
         \/ OfPart(t) = NoAddress /\ OfPart(t)' = OfCall(t) /\ OfCall(t)' = NoAddress
         \/ OfCall(t) = NoAddress /\ OfCall(t)' = OfPart(t) /\ OfPart(t)' = NoAddress
  PROVE  Owned(Claims', ObjectsInUse')
<1> DEFINE q == <<"call", t>>
           h == <<"part", t>>
           S == {<<"call", t>>, <<"part", t>>}
           has == Claims
           next == Claims'
<1>1. slab' = slab /\ pool' = pool
  BY DEF cacheVars
<1>2. ObjectsInUse' = ObjectsInUse
  BY <1>1 DEF ObjectsInUse, InSlabs, Slabs
<1>3. /\ q \in Owners /\ h \in Owners /\ h # q
      /\ has[q] = OfCall(t) /\ next[q] = OfCall(t)' /\ has[h] = OfPart(t) /\ next[h] = OfPart(t)'
  BY ClaimsAre
<1>4. \A o \in Owners : o \notin S => next[o] = has[o]
  <2>1. {<<"call", t>>, <<"part", t>>} \subseteq S
    OBVIOUS
  <2> HIDE DEF S
  <2> QED
    BY <1>1, <2>1, TaskClaims
<1>5. \A o \in Owners : o # q /\ o # h => next[o] = has[o]
  BY <1>4
<1>6. Owned(has, ObjectsInUse)
  OBVIOUS
<1> HIDE DEF has, next, q, h
<1>7. Owned(next, ObjectsInUse)
  BY <1>3, <1>5, <1>6, OwnedMove
<1> QED
  BY <1>2, <1>7 DEF next

\* The struct of the slab to come is the call's part.
LEMMA GotStructOwned ==
  ASSUME Types, Owned(Claims, ObjectsInUse), PartsSmall, NEW t \in Callers, MemoryAlive', GotStruct(t)
  PROVE  Owned(Claims', ObjectsInUse') /\ PartsSmall'
<1>1. /\ Moved(t, "got", "choose") /\ cacheVars' = cacheVars /\ held' = held
      /\ loc[t].then = "struct" /\ loc[t].address \in Addresses
      /\ loc'[t].then = "map" /\ loc'[t].cache = loc[t].cache /\ loc'[t].at = loc[t].address
  BY GotStructStep DEF Fails, MemoryAlive
<1>2. slab' = slab /\ pool' = pool /\ loc[t].address # NoAddress /\ loc[t].cache = "small"
  BY <1>1, Apart DEF cacheVars, PartsSmall
<1>3. BigSlabs' = BigSlabs
  BY <1>1, <1>2, BigKept
<1>4. /\ OfCall(t) = loc[t].address /\ OfCall(t)' = NoAddress
      /\ OfPart(t) = NoAddress /\ OfPart(t)' = loc[t].address
  BY <1>1, <1>2 DEF Moved, OfCall, OfPart, HasPart
<1>5. Owned(Claims', ObjectsInUse')
  BY <1>1, <1>3, <1>4, PartOver
<1>6. Slabs("small")' = Slabs("small")
  BY <1>2 DEF Slabs
<1>7. loc'[t].at \in Slabs("small")' \X Indices
  BY <1>1, <1>2, <1>4, <1>6 DEF PartsSmall
<1>8. PartsSmall'
  BY <1>1, <1>2, <1>3, <1>4, <1>6, <1>7, PartsKept
<1> QED
  BY <1>5, <1>8

\* When its page is given back the call's part becomes what it frees.
LEMMA FreePageOwned ==
  ASSUME Types, Owned(Claims, ObjectsInUse), PartsSmall, NEW t \in Callers, FreePage(t)
  PROVE  Owned(Claims', ObjectsInUse') /\ PartsSmall'
<1>1. /\ cacheVars' = cacheVars /\ held' = held
      /\ loc'[t].at = loc[t].at /\ loc'[t].cache = "small"
  BY FreePageStep
<1>2. slab' = slab /\ pool' = pool
  BY <1>1 DEF cacheVars
<1>3. CASE Moved(t, "release", "freed") /\ loc[t].cache = "small" /\ loc'[t].then = loc[t].then
  <2>1. BigSlabs' = BigSlabs
    BY <1>2, <1>3, BigKept
  <2>2. OfCall(t)' = OfCall(t) /\ OfPart(t)' = OfPart(t) /\ (HasPart(t)' => HasPart(t))
    BY <1>1, <1>3 DEF Moved, OfCall, OfPart, HasPart
  <2> QED
    BY <1>1, <1>2, <1>3, <2>1, <2>2, QuietOwned
<1>4. CASE /\ Moved(t, "release", "kfree") /\ loc[t].cache = "big" /\ loc[t].then = "user"
           /\ loc'[t].then = "struct" /\ loc'[t].address = loc[t].at
  <2>1. BigSlabs' = BigSlabs
    BY <1>2, <1>4, BigKept
  <2>2. HasPart(t) /\ ~HasPart(t)'
    BY <1>1, <1>4 DEF Moved, HasPart
  <2>3. OfCall(t) = NoAddress /\ OfCall(t)' = loc[t].at /\ OfPart(t) = loc[t].at /\ OfPart(t)' = NoAddress
    BY <1>1, <1>4, <2>2 DEF Moved, OfCall, OfPart
  <2>4. Owned(Claims', ObjectsInUse')
    BY <1>1, <1>4, <2>1, <2>3, PartOver
  <2>5. Slabs("small")' = Slabs("small")
    BY <1>2 DEF Slabs
  <2>6. loc[t].at \in Slabs("small") \X Indices /\ loc[t].at # NoAddress
    <3>1. Slabs("small") \X Indices \subseteq Addresses
      BY Apart DEF Types, Addresses, Caches
    <3> QED
      BY <2>2, <3>1, Apart DEF PartsSmall
  <2>7. PartsSmall'
    BY <1>1, <1>2, <1>4, <2>1, <2>2, <2>3, <2>5, <2>6, PartsKept
  <2> QED
    BY <2>4, <2>7
<1> QED
  BY <1>1, <1>3, <1>4, FreePageStep

\* kfree finds every address.
LEMMA FindSlabOwned ==
  ASSUME Types, PagesApart, Owned(Claims, ObjectsInUse), PartsSmall, NEW t \in Callers, FindSlab(t)
  PROVE  Owned(Claims', ObjectsInUse') /\ PartsSmall' /\ failed' = failed
<1>1. /\ UNCHANGED <<cacheVars, held>> /\ loc'[t].then = loc[t].then /\ loc'[t].address = loc[t].address
      /\ loc'[t].at = loc[t].at /\ memory_pc[t] = "kfree"
  BY FindSlabStep DEF FindSlab, At
<1>2. OfCall(t) = loc[t].address /\ loc[t].address # NoAddress
  BY <1>1 DEF OfCall, PartsSmall
<1>3. loc[t].address[1] \in InSlabs
  BY <1>2, CallApart DEF ObjectsInUse
<1>4. /\ Moved(t, "kfree", "flip") /\ failed' = failed
      /\ loc'[t].cache \in Caches /\ loc[t].address[1] \in Slabs(loc'[t].cache)
  BY <1>2, <1>3, FindSlabStep
<1>5. slab' = slab /\ pool' = pool
  BY <1>1 DEF cacheVars
<1>6. BigSlabs' = BigSlabs
  BY <1>4, <1>5, BigKept
<1>7. OfCall(t)' = OfCall(t) /\ OfPart(t)' = OfPart(t) /\ (HasPart(t)' => HasPart(t))
  BY <1>1, <1>4 DEF Moved, OfCall, OfPart, HasPart
<1>8. loc'[t].then # "user" => loc'[t].cache = "small"
  <2> SUFFICES ASSUME loc[t].then # "user" PROVE loc'[t].cache = "small"
    BY <1>1
  <2>1. OfCall(t) \in Slabs("small") \X Indices
    BY <1>2 DEF PartsSmall
  <2>2. loc[t].address[1] \in Slabs("small")
    BY <1>2, <2>1
  <2> QED
    BY <1>4, <2>2 DEF PagesApart, Caches
<1> QED
  BY <1>1, <1>4, <1>5, <1>6, <1>7, <1>8, QuietOwned, SMTT(20)
\* Two objects go from two owners to two others.
LEMMA OwnedMoveTwo ==
  ASSUME NEW has, NEW used, NEW next, Owned(has, used),
         NEW o \in Owners, NEW q \in Owners, NEW r \in Owners, NEW s \in Owners,
         o # q, o # r, o # s, q # r, q # s, r # s,
         has[q] = NoAddress, next[o] = NoAddress, next[q] = has[o],
         has[s] = NoAddress, next[r] = NoAddress, next[s] = has[r],
         \A x \in Owners : x \notin {o, q, r, s} => next[x] = has[x]
  PROVE  Owned(next, used)
<1> DEFINE mid == [x \in Owners |-> IF x \in {r, s} THEN has[x] ELSE next[x]]
<1>1. /\ mid[o] = NoAddress /\ mid[q] = has[o] /\ mid[r] = has[r] /\ mid[s] = NoAddress
      /\ \A x \in Owners : x # o /\ x # q => mid[x] = has[x]
      /\ \A x \in Owners : x # r /\ x # s => next[x] = mid[x]
  OBVIOUS
<1> HIDE DEF mid
<1>2. Owned(mid, used)
  BY <1>1, OwnedMove
<1>3. next[r] = NoAddress /\ next[s] = mid[r]
  BY <1>1
<1> QED
  BY <1>1, <1>2, <1>3, OwnedMove

\* The slab gets both its parts.
LEMMA GotMapOwned ==
  ASSUME Types, PagesApart, Owned(Claims, ObjectsInUse), PartsSmall, NEW t \in Callers, MemoryAlive', GotMap(t)
  PROVE  Owned(Claims', ObjectsInUse') /\ PartsSmall'
<1> DEFINE p == loc[t].big
           o == <<"call", t>>
           q == <<"map", p>>
           r == <<"part", t>>
           s == <<"at", p>>
           S == {o, q, r, s}
           has == Claims
           next == Claims'
<1>1. /\ Moved(t, "got", "link") /\ p \in Pages /\ held' = held /\ pool' = pool
      /\ loc[t].then = "map" /\ loc[t].address \in Addresses
      /\ loc'[t].then = "user" /\ loc'[t].cache = "big" /\ loc'[t].page = p
      /\ slab'[p].at = loc[t].at /\ slab'[p].map_at = loc[t].address
      /\ \A x \in AllPages \ {p} : slab'[x] = slab[x]
  BY GotMapStep DEF Fails, MemoryAlive
<1>2. p \in Hold(t) /\ p \notin InSlabs
  BY <1>1 DEF Hold, HasBig, PagesApart
<1>3. p \notin BigSlabs
  <2>1. p \notin Slabs("big")
    BY <1>2 DEF InSlabs, Caches
  <2>2. ASSUME p \in Linking PROVE FALSE
    <3>1. PICK u \in Callers : memory_pc[u] = "link" /\ p = loc[u].page
      BY <2>2 DEF Linking
    <3>2. p \in Hold(u) /\ u # t
      BY <1>1, <3>1 DEF Hold, HasPage, Moved
    <3> QED
      BY <1>2, <3>2 DEF PagesApart
  <2> QED
    BY <2>1, <2>2 DEF BigSlabs
<1>4. BigSlabs' = BigSlabs \cup {p}
  <2>1. \A u \in Callers : (memory_pc'[u] = "link" /\ loc'[u].cache = "big") <=> (u = t \/ (memory_pc[u] = "link" /\ loc[u].cache = "big"))
    BY <1>1 DEF Moved
  <2>2. \A u \in Callers : memory_pc[u] = "link" => loc'[u].page = loc[u].page
    BY <1>1 DEF Moved
  <2>3. Linking' = Linking \cup {p}
    BY <1>1, <2>1, <2>2 DEF Linking
  <2>4. Slabs("big")' = Slabs("big")
    BY <1>1 DEF Slabs
  <2> QED
    BY <2>3, <2>4 DEF BigSlabs
<1>5. /\ OfCall(t) = loc[t].address /\ OfCall(t)' = NoAddress
      /\ OfPart(t) = loc[t].at /\ OfPart(t)' = NoAddress /\ HasPart(t) /\ ~HasPart(t)'
  BY <1>1 DEF Moved, OfCall, OfPart, HasPart
<1>6. /\ {o, q, r, s} \subseteq Owners
      /\ has[o] = loc[t].address /\ next[o] = NoAddress /\ has[r] = loc[t].at /\ next[r] = NoAddress
      /\ has[q] = NoAddress /\ next[q] = loc[t].address /\ has[s] = NoAddress /\ next[s] = loc[t].at
  <2>1. /\ {o, r} \subseteq Owners
        /\ has[o] = loc[t].address /\ next[o] = NoAddress /\ has[r] = loc[t].at /\ next[r] = NoAddress
    BY <1>5, ClaimsAre
  <2>2. /\ {q, s} \subseteq Owners
        /\ has[q] = NoAddress /\ next[q] = loc[t].address /\ has[s] = NoAddress /\ next[s] = loc[t].at
    BY <1>1, <1>3, <1>4, ClaimsAre
  <2> QED
    BY <2>1, <2>2
<1>7. BigSlabs \subseteq AllPages /\ InSlabs \subseteq AllPages
  BY Apart DEF Types, InSlabs, BigSlabs, Linking, LocFits, HasPage, Caches
<1>8. \A x \in Owners : x \notin S => next[x] = has[x]
  <2>1. \A a \in Addresses : <<"held", a>> \in S \/ (a \in held' <=> a \in held)
    BY <1>1
  <2>2. \A u \in Callers : /\ <<"call", u>> \in S \/ OfCall(u)' = OfCall(u)
                           /\ <<"part", u>> \in S \/ OfPart(u)' = OfPart(u)
    <3> SUFFICES ASSUME NEW u \in Callers, u # t PROVE OfCall(u)' = OfCall(u) /\ OfPart(u)' = OfPart(u)
      OBVIOUS
    <3> QED
      BY <1>1, OthersOwn
  <2>3. \A x \in Pages :
          /\ <<"at", x>> \in S \/ ((x \in BigSlabs' <=> x \in BigSlabs) /\ (x \in BigSlabs => slab'[x].at = slab[x].at))
          /\ <<"map", x>> \in S \/ ((x \in BigSlabs' <=> x \in BigSlabs) /\ (x \in BigSlabs => slab'[x].map_at = slab[x].map_at))
    <3> SUFFICES ASSUME NEW x \in Pages, x # p
                 PROVE (x \in BigSlabs' <=> x \in BigSlabs) /\ (x \in BigSlabs => slab'[x] = slab[x])
      OBVIOUS
    <3> QED
      BY <1>1, <1>4, <1>7
  <2> HIDE DEF S
  <2> QED
    BY <2>1, <2>2, <2>3, ClaimsKept
<1>9. ObjectsInUse' = ObjectsInUse
  <2>1. InSlabs' = InSlabs
    BY <1>1 DEF InSlabs, Slabs
  <2> QED
    BY <1>1, <1>2, <1>7, <2>1, UsedSame
<1>10. Owned(next, ObjectsInUse)
  <2>1. o # q /\ o # r /\ o # s /\ q # r /\ q # s /\ r # s
    OBVIOUS
  <2>2. Owned(has, ObjectsInUse)
    OBVIOUS
  <2>3. next[q] = has[o] /\ next[s] = has[r]
    BY <1>6
  <2>4. \A x \in Owners : x \notin {o, q, r, s} => next[x] = has[x]
    BY <1>8
  <2> HIDE DEF has, next, o, q, r, s
  <2> QED
    BY <1>6, <2>1, <2>2, <2>3, <2>4, OwnedMoveTwo
<1>11. Slabs("small")' = Slabs("small")
  BY <1>1 DEF Slabs
<1>12. ASSUME NEW x \in BigSlabs' \ {PoolPage["big"]}
       PROVE \/ x \in BigSlabs /\ slab'[x].at = slab[x].at /\ slab'[x].map_at = slab[x].map_at
             \/ {slab'[x].at, slab'[x].map_at} \subseteq Slabs("small")' \X Indices
  <2>1. CASE x = p
    <3>1. loc[t].at \in Slabs("small") \X Indices
      BY <1>5 DEF PartsSmall
    <3>2. loc[t].address \in Slabs("small") \X Indices
      BY <1>1, <1>5, Apart DEF PartsSmall
    <3> QED
      BY <1>1, <1>11, <2>1, <3>1, <3>2
  <2>2. CASE x # p
    BY <1>1, <1>4, <1>7, <2>2
  <2> QED
    BY <2>1, <2>2
<1>13. PartsSmall'
  BY <1>1, <1>5, <1>11, <1>12, PartsKept
<1> QED
  BY <1>9, <1>10, <1>13 DEF next

\* It keeps them in its list.
LEMMA LinkOwned ==
  ASSUME Types, PagesApart, NewAreEmpty, Owned(Claims, ObjectsInUse), PartsSmall, NEW t \in Callers, Link(t)
  PROVE  Owned(Claims', ObjectsInUse') /\ PartsSmall' /\ BigSlabs' = BigSlabs
<1> DEFINE p == loc[t].page
           S == {<<"call", t>>, <<"part", t>>}
           has == Claims
           next == Claims'
<1>1. /\ Moved(t, "link", "test") /\ p \in Pages /\ UNCHANGED <<slab, held>>
      /\ loc'[t].cache = loc[t].cache /\ loc'[t].then = loc[t].then /\ loc'[t].page = p /\ loc'[t].at = loc[t].at
      /\ \A c \in Caches : Slabs(c)' = IF c = loc[t].cache THEN Slabs(c) \cup {p} ELSE Slabs(c)
  BY LinkStep
<1>2. loc[t].cache \in Caches /\ memory_pc[t] = "link"
  BY <1>1 DEF Types, LocType, Moved
<1>3. BigSlabs' = BigSlabs
  <2>1. CASE loc[t].cache = "big"
    <3>1. Slabs("big")' = Slabs("big") \cup {p}
      BY <1>1, <2>1 DEF Caches
    <3>2. p \in Linking
      BY <1>2, <2>1 DEF Linking
    <3>3. Linking' \subseteq Linking
      BY <1>1 DEF Linking, Moved
    <3>4. Linking \subseteq Linking' \cup {p}
      BY <1>1 DEF Linking, Moved
    <3> QED
      BY <3>1, <3>2, <3>3, <3>4 DEF BigSlabs
  <2>2. CASE loc[t].cache = "small"
    <3>1. Slabs("big")' = Slabs("big")
      BY <1>1, <2>2 DEF Caches
    <3>2. Linking' \subseteq Linking
      BY <1>1 DEF Linking, Moved
    <3>3. Linking \subseteq Linking'
      BY <1>1, <2>2 DEF Linking, Moved
    <3> QED
      BY <3>1, <3>2, <3>3 DEF BigSlabs
  <2> QED
    BY <1>2, <2>1, <2>2 DEF Caches
<1>4. slab' = slab /\ held' = held
  BY <1>1
<1>5. OfCall(t)' = OfCall(t) /\ OfPart(t)' = OfPart(t) /\ HasPart(t)' = HasPart(t) /\ OfCall(t) = NoAddress
  BY <1>1 DEF Moved, OfCall, OfPart, HasPart
<1>6. \A o \in Owners : next[o] = has[o]
  <2>1. {<<"call", t>>, <<"part", t>>} \subseteq S
    OBVIOUS
  <2>2. next[<<"call", t>>] = has[<<"call", t>>] /\ next[<<"part", t>>] = has[<<"part", t>>]
    BY <1>5, ClaimsAre
  <2>3. \A o \in Owners : o \notin S => next[o] = has[o]
    <3> HIDE DEF S
    <3> QED
      BY <1>1, <1>3, <1>4, <2>1, TaskClaims
  <2> QED
    BY <2>2, <2>3
<1>7. slab[p].color_map = {} /\ InSlabs' = InSlabs \cup {p}
  BY <1>1, <1>2 DEF NewAreEmpty, InSlabs
<1>8. ObjectsInUse' = ObjectsInUse
  BY <1>4, <1>7 DEF ObjectsInUse
<1>9. Owned(Claims', ObjectsInUse')
  BY <1>6, <1>8, OwnedSame DEF has, next
<1>10. Slabs("small") \subseteq Slabs("small")'
  BY <1>1 DEF Caches
<1>11. HasPart(t)' => loc'[t].at \in Slabs("small")' \X Indices
  BY <1>1, <1>5, <1>10 DEF PartsSmall
<1>12. loc'[t].then # "user" => loc'[t].cache = "small"
  BY <1>1 DEF PartsSmall
<1>13. PartsSmall'
  BY <1>1, <1>3, <1>4, <1>5, <1>10, <1>11, <1>12, PartsKept
<1> QED
  BY <1>3, <1>9, <1>13

\* A slab without objects leaves its parts to the call.
LEMMA UnlinkOwned ==
  ASSUME Types, PagesApart, Owned(Claims, ObjectsInUse), PartsSmall, NEW t \in Callers, MemoryAlive', Unlink(t),
         slab[loc[t].page].color_map = {}
  PROVE  Owned(Claims', ObjectsInUse') /\ PartsSmall'
<1> DEFINE p == loc[t].page
           o == <<"map", p>>
           q == <<"call", t>>
           r == <<"at", p>>
           s == <<"part", t>>
           S == {o, q, r, s}
           has == Claims
           next == Claims'
<1>1. /\ UNCHANGED <<slab, held>> /\ p \in Pages /\ p \in Slabs(loc[t].cache) /\ loc[t].cache \in Caches
      /\ \A c \in Caches : Slabs(c)' = IF c = loc[t].cache THEN Slabs(c) \ {p} ELSE Slabs(c)
      /\ loc'[t].cache = "small" /\ memory_pc[t] = "unlink"
  <2>1. loc[t].cache \in Caches /\ memory_pc[t] = "unlink"
    BY DEF Types, LocType, Unlink, At
  <2> QED
    BY <2>1, UnlinkStep DEF Fails, MemoryAlive, PagesApart, Linked
<1>2. slab' = slab /\ held' = held /\ p \in InSlabs
  BY <1>1 DEF InSlabs
<1>3. InSlabs' = InSlabs \ {p}
  <2>1. \A c \in Caches : c # loc[t].cache => p \notin Slabs(c)
    BY <1>1 DEF PagesApart, Caches
  <2> QED
    BY <1>1, <2>1 DEF InSlabs
<1>4. ObjectsInUse' = ObjectsInUse
  BY <1>2, <1>3 DEF ObjectsInUse
<1>5. \A a \in ObjectsInUse : a[1] \in Slabs("small") => a[1] \in Slabs("small")'
  <2>1. \A a \in ObjectsInUse : a[1] # p
    BY DEF ObjectsInUse
  <2> QED
    BY <1>1, <2>1 DEF Caches
<1>6. CASE Moved(t, "unlink", "clean") /\ loc[t].cache = "small" /\ loc'[t].then = loc[t].then /\ loc'[t].at = loc[t].at
  <2>1. BigSlabs' = BigSlabs
    <3>1. Slabs("big")' = Slabs("big")
      BY <1>1, <1>6 DEF Caches
    <3>2. Linking' = Linking
      BY <1>6 DEF Linking, Moved
    <3> QED
      BY <3>1, <3>2 DEF BigSlabs
  <2>2. OfCall(t)' = OfCall(t) /\ OfPart(t)' = OfPart(t) /\ OfCall(t)' = NoAddress /\ (HasPart(t)' => HasPart(t))
    BY <1>1, <1>6 DEF Moved, OfCall, OfPart, HasPart
  <2>3. \A x \in Owners : next[x] = has[x]
    <3> DEFINE T == {<<"call", t>>, <<"part", t>>}
    <3>1. {<<"call", t>>, <<"part", t>>} \subseteq T
      OBVIOUS
    <3>2. next[<<"call", t>>] = has[<<"call", t>>] /\ next[<<"part", t>>] = has[<<"part", t>>]
      BY <2>2, ClaimsAre
    <3>3. \A x \in Owners : x \notin T => next[x] = has[x]
      <4> HIDE DEF T
      <4> QED
        BY <1>2, <1>6, <2>1, <3>1, TaskClaims
    <3> QED
      BY <3>2, <3>3
  <2>4. Owned(Claims', ObjectsInUse')
    BY <1>4, <2>3, OwnedSame DEF has, next
  <2>5. HasPart(t)' => loc'[t].at \in Slabs("small")' \X Indices
    <3> SUFFICES ASSUME HasPart(t)' PROVE loc[t].at \in Slabs("small")' \X Indices
      BY <1>6
    <3>1. HasPart(t) /\ OfPart(t) = loc[t].at /\ loc[t].at \in Slabs("small") \X Indices
      BY <2>2 DEF OfPart, PartsSmall
    <3>2. OfPart(t) \in ObjectsInUse \/ loc[t].at = NoAddress
      BY <3>1, OwnedInUse
    <3>3. loc[t].at # NoAddress
      <4>1. Slabs("small") \X Indices \subseteq Addresses
        BY Apart DEF Types, Addresses, Caches
      <4> QED
        BY <3>1, <4>1, Apart
    <3> QED
      BY <1>5, <3>1, <3>2, <3>3
  <2>6. PartsSmall'
    BY <1>1, <1>2, <1>5, <1>6, <2>1, <2>2, <2>5, PartsKept
  <2> QED
    BY <2>4, <2>6
<1>7. CASE /\ Moved(t, "unlink", "kfree") /\ loc[t].cache = "big" /\ loc'[t].then = "map"
           /\ loc'[t].address = slab[p].map_at /\ loc'[t].at = slab[p].at
  <2>1. p \in BigSlabs /\ BigSlabs' = BigSlabs \ {p}
    <3>1. Slabs("big")' = Slabs("big") \ {p} /\ p \in Slabs("big")
      BY <1>1, <1>7 DEF Caches
    <3>2. Linking' = Linking
      BY <1>7 DEF Linking, Moved
    <3>3. ASSUME p \in Linking PROVE FALSE
      <4>1. PICK u \in Callers : memory_pc[u] = "link" /\ p = loc[u].page
        BY <3>3 DEF Linking
      <4>2. p \in Hold(u)
        BY <1>1, <4>1 DEF Hold, HasPage
      <4> QED
        BY <1>2, <4>2 DEF PagesApart
    <3> QED
      BY <3>1, <3>2, <3>3 DEF BigSlabs
  <2>2. loc[t].then = "user"
    BY <1>7 DEF PartsSmall
  <2>3. /\ OfCall(t) = NoAddress /\ OfCall(t)' = slab[p].map_at
        /\ OfPart(t) = NoAddress /\ OfPart(t)' = slab[p].at /\ HasPart(t)'
    BY <1>1, <1>7, <2>2 DEF Moved, OfCall, OfPart, HasPart
  <2>4. /\ {o, q, r, s} \subseteq Owners
        /\ has[o] = slab[p].map_at /\ next[o] = NoAddress /\ has[r] = slab[p].at /\ next[r] = NoAddress
        /\ has[q] = NoAddress /\ next[q] = slab[p].map_at /\ has[s] = NoAddress /\ next[s] = slab[p].at
    <3>1. /\ {q, s} \subseteq Owners
          /\ has[q] = NoAddress /\ next[q] = slab[p].map_at /\ has[s] = NoAddress /\ next[s] = slab[p].at
      BY <2>3, ClaimsAre
    <3>2. /\ {o, r} \subseteq Owners
          /\ has[o] = slab[p].map_at /\ next[o] = NoAddress /\ has[r] = slab[p].at /\ next[r] = NoAddress
      BY <1>1, <2>1, ClaimsAre
    <3> QED
      BY <3>1, <3>2
  <2>5. \A x \in Owners : x \notin S => next[x] = has[x]
    <3>1. \A a \in Addresses : <<"held", a>> \in S \/ (a \in held' <=> a \in held)
      BY <1>1
    <3>2. \A u \in Callers : /\ <<"call", u>> \in S \/ OfCall(u)' = OfCall(u)
                             /\ <<"part", u>> \in S \/ OfPart(u)' = OfPart(u)
      <4> SUFFICES ASSUME NEW u \in Callers, u # t PROVE OfCall(u)' = OfCall(u) /\ OfPart(u)' = OfPart(u)
        OBVIOUS
      <4> QED
        BY <1>7, OthersOwn
    <3>3. \A x \in Pages :
            /\ <<"at", x>> \in S \/ ((x \in BigSlabs' <=> x \in BigSlabs) /\ (x \in BigSlabs => slab'[x].at = slab[x].at))
            /\ <<"map", x>> \in S \/ ((x \in BigSlabs' <=> x \in BigSlabs) /\ (x \in BigSlabs => slab'[x].map_at = slab[x].map_at))
      <4> SUFFICES ASSUME NEW x \in Pages, x # p PROVE (x \in BigSlabs' <=> x \in BigSlabs)
        BY <1>2
      <4> QED
        BY <2>1
    <3> HIDE DEF S
    <3> QED
      BY <3>1, <3>2, <3>3, ClaimsKept
  <2>6. Owned(next, ObjectsInUse)
    <3>1. o # q /\ o # r /\ o # s /\ q # r /\ q # s /\ r # s
      OBVIOUS
    <3>2. Owned(has, ObjectsInUse)
      OBVIOUS
    <3>3. next[q] = has[o] /\ next[s] = has[r]
      BY <2>4
    <3>4. \A x \in Owners : x \notin {o, q, r, s} => next[x] = has[x]
      BY <2>5
    <3> HIDE DEF has, next, o, q, r, s
    <3> QED
      BY <2>4, <3>1, <3>2, <3>3, <3>4, OwnedMoveTwo
  <2>7. Slabs("small")' = Slabs("small")
    BY <1>1, <1>7 DEF Caches
  <2>8. slab[p].at \in Slabs("small") \X Indices /\ slab[p].map_at \in Slabs("small") \X Indices
    <3>1. p # PoolPage["big"]
      BY <1>1, Apart DEF Caches
    <3> QED
      BY <2>1, <3>1 DEF PartsSmall
  <2>9. slab[p].map_at # NoAddress
    <3>1. Slabs("small") \X Indices \subseteq Addresses
      BY Apart DEF Types, Addresses, Caches
    <3> QED
      BY <2>8, <3>1, Apart
  <2>10. PartsSmall'
    BY <1>1, <1>2, <1>7, <2>1, <2>3, <2>7, <2>8, <2>9, PartsKept
  <2> QED
    BY <1>4, <2>6, <2>10 DEF next
<1> QED
  BY <1>6, <1>7, UnlinkStep DEF Fails, MemoryAlive
-----------------------------------------------------------------------------
(* No page is lost *)

\* No page is lost where one is marked,
LEMMA MarkPageKeeps ==
  ASSUME Types, PagesApart, NewAreEmpty, NoPageLost, NEW t \in Callers, MarkPage(t), MemoryAlive', Fresh(t)
  PROVE  NoPageLost'
<1>1. /\ bits_map' = bits_map \cup {loc[t].page} /\ Hold(t)' = Hold(t) \cup {loc[t].page}
      /\ pool' = pool
  BY MarkPagePages, MarkPageStep
<1>2. InSlabs' = InSlabs
  BY <1>1 DEF InSlabs, Slabs
<1>3. PICK from, to : Moved(t, from, to)
  BY MarkPageStep
<1>4. \A u \in Callers : Hold(u) \subseteq Hold(u)'
  BY <1>1, <1>3, OthersHold
<1> QED
  BY <1>1, <1>2, <1>4 DEF NoPageLost

\* where its slab is linked,
LEMMA LinkKeeps ==
  ASSUME Types, PagesApart, NewAreEmpty, NoPageLost, NEW t \in Callers, Link(t)
  PROVE  NoPageLost'
<1>1. /\ InSlabs' = InSlabs \cup {loc[t].page} /\ Hold(t)' = Hold(t) \ {loc[t].page}
      /\ bits_map' = bits_map /\ Moved(t, "link", "test")
  BY LinkPages, LinkStep DEF pageVars
<1>2. \A u \in Callers : Hold(u) \subseteq Hold(u)' \cup {loc[t].page}
  BY <1>1, OthersHold
<1> QED
  BY <1>1, <1>2 DEF NoPageLost

\* where a big slab gets its parts,
LEMMA GotMapKeeps ==
  ASSUME Types, PagesApart, NewAreEmpty, NoPageLost, NEW t \in Callers, GotMap(t), MemoryAlive'
  PROVE  NoPageLost'
<1>1. Hold(t)' = Hold(t) /\ bits_map' = bits_map /\ pool' = pool /\ Moved(t, "got", "link")
  BY GotMapPages, GotMapStep DEF pageVars, Fails, MemoryAlive
<1>2. InSlabs' = InSlabs
  BY <1>1 DEF InSlabs, Slabs
<1>3. \A u \in Callers : Hold(u)' = Hold(u)
  BY <1>1, OthersHold
<1> QED
  BY <1>1, <1>2, <1>3 DEF NoPageLost

\* where a slab is taken out of its list,
LEMMA UnlinkKeeps ==
  ASSUME Types, PagesApart, NewAreEmpty, PartsSmall, NoPageLost, NEW t \in Callers, Unlink(t), MemoryAlive'
  PROVE  NoPageLost'
<1>1. loc[t].then # "user" => loc[t].cache = "small"
  BY DEF PartsSmall
<1>2. /\ InSlabs' = InSlabs \ {loc[t].page} /\ Hold(t)' = Hold(t) \cup {loc[t].page}
      /\ bits_map' = bits_map
  BY <1>1, UnlinkPages, UnlinkStep DEF pageVars
<1>3. PICK from, to : Moved(t, from, to)
  BY UnlinkStep DEF Fails, MemoryAlive
<1>4. \A u \in Callers : Hold(u) \subseteq Hold(u)'
  BY <1>2, <1>3, OthersHold
<1> QED
  BY <1>2, <1>4 DEF NoPageLost

\* or where a page is given back.
LEMMA FreePageKeeps ==
  ASSUME Types, PagesApart, NewAreEmpty, NoPageLost, NEW t \in Callers, FreePage(t), Fresh(t)
  PROVE  NoPageLost'
<1>1. /\ bits_map' = bits_map \ {loc[t].page} /\ Hold(t)' = Hold(t) \ {loc[t].page}
      /\ pool' = pool
  BY FreePagePages, FreePageStep DEF cacheVars
<1>2. InSlabs' = InSlabs
  BY <1>1 DEF InSlabs, Slabs
<1>3. PICK from, to : Moved(t, from, to)
  BY FreePageStep
<1>4. \A u \in Callers : Hold(u) \subseteq Hold(u)' \cup {loc[t].page}
  BY <1>1, <1>3, OthersHold
<1> QED
  BY <1>1, <1>2, <1>4 DEF NoPageLost
-----------------------------------------------------------------------------
(* How many objects are in use *)

\* Colors are finitely many.
LEMMA MapSizes ==
  /\ IsFiniteSet(Indices) /\ Cardinality(Indices) = Colors
  /\ \A map \in SUBSET Indices : IsFiniteSet(map) /\ Cardinality(map) \in Nat
<1>1. IsFiniteSet(Indices) /\ Cardinality(Indices) = Colors
  <2>1. Colors \in Nat /\ Colors # 0 /\ 0 \in Int /\ Colors - 1 \in Int
    BY MemoryAssumption
  <2>2. IsFiniteSet(0..(Colors - 1)) /\ Cardinality(0..(Colors - 1)) = (IF 0 > Colors - 1 THEN 0 ELSE Colors - 1 - 0 + 1)
    BY <2>1, FS_Interval
  <2> QED
    BY <2>1, <2>2 DEF Indices
<1>2. ASSUME NEW map \in SUBSET Indices
      PROVE  IsFiniteSet(map) /\ Cardinality(map) \in Nat
  <2>1. IsFiniteSet(map)
    BY <1>1, FS_Subset
  <2> QED
    BY <2>1, FS_CardinalityType
<1> QED
  BY <1>1, <1>2

\* A step that counts nothing leaves what is counted right.
LEMMA CountedKept ==
  ASSUME Types, SlabsCounted, NEW t \in Callers, NEW from, NEW to, Moved(t, from, to),
         from \notin {"count", "uncount"}, to \notin {"count", "uncount"},
         \A p \in InSlabs' :
           \/ p \in InSlabs /\ slab'[p] = slab[p]
           \/ slab'[p].color_map = {} /\ slab'[p].using_count = 0 /\ slab'[p].free_count = Colors
  PROVE  SlabsCounted'
<1>1. current = t /\ current' = t /\ Uncounted(t) = 0 /\ Uncounted(t)' = 0
  BY DEF Moved, Uncounted
<1>2. ASSUME NEW p \in InSlabs'
      PROVE  /\ slab'[p].using_count = Cardinality(slab'[p].color_map) - UncountedIn(p)'
             /\ slab'[p].free_count = Colors - slab'[p].using_count
  <2>1. UncountedIn(p) = 0 /\ UncountedIn(p)' = 0
    BY <1>1 DEF UncountedIn
  <2>2. CASE p \in InSlabs /\ slab'[p] = slab[p]
    BY <2>1, <2>2 DEF SlabsCounted
  <2>3. CASE slab'[p].color_map = {} /\ slab'[p].using_count = 0 /\ slab'[p].free_count = Colors
    <3>1. Cardinality({}) = 0 /\ Colors \in Int
      BY FS_EmptySet, MemoryAssumption
    <3> QED
      BY <2>1, <2>3, <3>1
  <2> QED
    BY <1>2, <2>2, <2>3
<1> QED
  BY <1>2 DEF SlabsCounted

\* One object more, or less, is in use than counted.
LEMMA CountedLate ==
  ASSUME Types, SlabsCounted, NEW t \in Callers, NEW from, NEW to, Moved(t, from, to),
         from \notin {"count", "uncount"}, NEW p \in InSlabs, p \in AllPages, NEW j,
         InSlabs' = InSlabs, loc'[t].page = p,
         slab'[p].using_count = slab[p].using_count, slab'[p].free_count = slab[p].free_count,
         \A q \in InSlabs : q # p => slab'[q] = slab[q],
         \/ to = "count" /\ j \notin slab[p].color_map /\ slab'[p].color_map = slab[p].color_map \cup {j}
         \/ to = "uncount" /\ j \in slab[p].color_map /\ slab'[p].color_map = slab[p].color_map \ {j}
  PROVE  SlabsCounted'
<1> DEFINE map == slab[p].color_map
           d == Uncounted(t)'
<1>1. current = t /\ current' = t /\ Uncounted(t) = 0 /\ d = (IF to = "count" THEN 1 ELSE -1)
  BY DEF Moved, Uncounted
<1>2. IsFiniteSet(map) /\ Cardinality(map) \in Nat
  <2>1. map \in SUBSET Indices
    BY DEF Types, SlabType
  <2> QED
    BY <2>1, MapSizes
<1>3. Cardinality(slab'[p].color_map) = Cardinality(map) + d
  <2>1. CASE to = "count"
    <3>1. Cardinality(map \cup {j}) = Cardinality(map) + 1
      BY <1>2, <2>1, FS_AddElement
    <3> QED
      BY <1>1, <2>1, <3>1
  <2>2. CASE to = "uncount"
    <3>1. Cardinality(map \ {j}) = Cardinality(map) - 1
      BY <1>2, <2>2, FS_RemoveElement
    <3> QED
      BY <1>1, <1>2, <2>2, <3>1
  <2> QED
    BY <2>1, <2>2
<1>4. ASSUME NEW q \in InSlabs'
      PROVE  /\ slab'[q].using_count = Cardinality(slab'[q].color_map) - UncountedIn(q)'
             /\ slab'[q].free_count = Colors - slab'[q].using_count
  <2>1. UncountedIn(q) = 0 /\ UncountedIn(q)' = IF q = p THEN d ELSE 0
    BY <1>1 DEF UncountedIn
  <2>2. /\ slab[q].using_count = Cardinality(slab[q].color_map) - UncountedIn(q)
        /\ slab[q].free_count = Colors - slab[q].using_count
    BY DEF SlabsCounted
  <2>3. CASE q # p
    BY <2>1, <2>2, <2>3
  <2>4. CASE q = p
    <3>1. d \in Int
      BY <1>1
    <3> HIDE DEF map, d
    <3>2. slab[p].using_count = Cardinality(map) - 0
      BY <2>1, <2>2, <2>4 DEF map
    <3>3. slab'[p].using_count = Cardinality(slab'[p].color_map) - d
      BY <1>2, <1>3, <3>1, <3>2
    <3> QED
      BY <2>1, <2>2, <2>4, <3>3
  <2> QED
    BY <2>3, <2>4
<1> QED
  BY <1>4 DEF SlabsCounted

\* What was not counted yet is counted.
LEMMA CountedNow ==
  ASSUME Types, SlabsCounted, NEW t \in Callers, NEW from \in {"count", "uncount"}, NEW to, Moved(t, from, to),
         to \notin {"count", "uncount"}, InSlabs' = InSlabs, Linked(loc[t]), Fresh(t),
         StoreCounters(loc[t], IF from = "count" THEN 1 ELSE -1)
  PROVE  /\ SlabsCounted'
         /\ slab'[loc[t].page].using_count = loc[t].was[1] + (IF from = "count" THEN 1 ELSE -1)
<1> DEFINE p == loc[t].page
           n == IF from = "count" THEN 1 ELSE -1
<1>1. current = t /\ current' = t /\ Uncounted(t) = n /\ Uncounted(t)' = 0 /\ memory_pc[t] \in {"count", "uncount"} /\ n \in Int
  BY DEF Moved, Uncounted
<1> HIDE DEF n
<1>2. StoreCounters(loc[t], n)
  BY DEF n
<1>3. loc[t].was[1] = slab[p].using_count /\ loc[t].was[2] = slab[p].free_count
  BY <1>1 DEF Fresh, Counters
<1>4. /\ slab'[p].using_count = slab[p].using_count + n /\ slab'[p].free_count = slab[p].free_count - n
      /\ slab'[p].using_count = loc[t].was[1] + n
      /\ \A q \in AllPages : slab'[q].color_map = slab[q].color_map /\ (q # p => slab'[q] = slab[q])
  BY <1>1, <1>2, <1>3, StoreCountersTypes
<1>5. ASSUME NEW q \in InSlabs'
      PROVE  /\ slab'[q].using_count = Cardinality(slab'[q].color_map) - UncountedIn(q)'
             /\ slab'[q].free_count = Colors - slab'[q].using_count
  <2>0. q \in AllPages
    BY <1>5, Apart DEF Types, InSlabs
  <2>1. UncountedIn(q)' = 0 /\ UncountedIn(q) = IF q = p THEN n ELSE 0
    BY <1>1 DEF UncountedIn
  <2>2. /\ slab[q].using_count = Cardinality(slab[q].color_map) - UncountedIn(q)
        /\ slab[q].free_count = Colors - slab[q].using_count
    BY <1>5 DEF SlabsCounted
  <2>3. slab'[q].color_map = slab[q].color_map /\ Cardinality(slab[q].color_map) \in Nat
    <3>1. slab[q].color_map \in SUBSET Indices
      BY <2>0 DEF Types, SlabType
    <3> QED
      BY <1>4, <2>0, <3>1, MapSizes
  <2>4. CASE q # p
    BY <1>4, <2>0, <2>1, <2>2, <2>3, <2>4
  <2>5. CASE q = p
    <3> DEFINE k == Cardinality(slab[p].color_map)
    <3>1. slab[p].using_count = k - n /\ slab[p].free_count = Colors - slab[p].using_count /\ k \in Nat
      BY <2>1, <2>2, <2>3, <2>5
    <3>2. slab'[p].using_count = k - n + n /\ slab'[p].free_count = Colors - (k - n) - n
      BY <1>4, <3>1
    <3> HIDE DEF k
    <3>3. slab'[p].using_count = k - 0 /\ slab'[p].free_count = Colors - slab'[p].using_count
      BY <1>1, <3>1, <3>2, MemoryAssumption
    <3> QED
      BY <2>1, <2>3, <2>5, <3>3 DEF k
  <2> QED
    BY <2>4, <2>5
<1> QED
  BY <1>4, <1>5 DEF SlabsCounted, n
-----------------------------------------------------------------------------
(* All that holds while no bit is lost *)

\* What the running task has loaded for a step that matters is still so.
LEMMA FreshNow ==
  ASSUME Loaded, BitsKept, NEW t \in Callers, memory_pc[t] \in LosesBits
  PROVE  Fresh(t)
BY DEF Loaded, BitsKept, LosesBits, LosesCounts, Windows

\* Nobody else is about to take out a slab.
LEMMA EmptiedKept ==
  ASSUME Undisturbed', BitsKept', NEW t \in Callers, NEW from, NEW to, Moved(t, from, to), to # "unlink"
  PROVE  Emptied'
<1> SUFFICES ASSUME NEW u \in Callers, memory_pc'[u] = "unlink" PROVE FALSE
  BY DEF Emptied
<1>1. "unlink" \in Windows \ memory_hit'
  BY DEF BitsKept, LosesBits, Windows
<1>2. u = current'
  BY <1>1 DEF Undisturbed
<1> QED
  BY <1>2 DEF Moved

\* Where a task is before and behind a step that changes no page, slab or counter.
QuietPCs ==
  {"run", "choose", "find", "test", "got", "kfree", "clean", "freed", "mark", "set", "flip", "release"}

\* What a call does between its changes to pages and slabs.
LEMMA QuietMoves ==
  ASSUME Types, NEW t \in Callers, MemoryAlive',
         \/ \E c \in Caches : Kmalloc(t, c)
         \/ \E a \in held : Kfree(t, a)
         \/ Choose(t) \/ FindPage(t) \/ Test(t) \/ Got(t) \/ GotStruct(t) \/ FindSlab(t)
         \/ LoadBits(t) \/ KfreeReturns(t)
  PROVE  /\ \E from \in QuietPCs, to \in QuietPCs : Moved(t, from, to) /\ (to = "test" => Choose(t))
         /\ pageVars' = pageVars /\ cacheVars' = cacheVars
<1> DEFINE Quiet(from, to) == Moved(t, from, to) /\ pageVars' = pageVars /\ cacheVars' = cacheVars
<1>1. ASSUME NEW c \in Caches, Kmalloc(t, c) PROVE Quiet("run", "choose")
  BY <1>1, KmallocStep
<1>2. ASSUME NEW a \in held, Kfree(t, a) PROVE Quiet("run", "kfree")
  BY <1>2, KfreeStep
<1>3. ASSUME Choose(t) PROVE Quiet("choose", "find") \/ Quiet("choose", "test")
  BY <1>3, ChooseStep
<1>4. ASSUME FindPage(t) PROVE Quiet("find", "got") \/ Quiet("find", "mark")
  BY <1>4, FindPageStep
<1>5. ASSUME Test(t) PROVE Quiet("test", "got") \/ Quiet("test", "set")
  BY <1>5, TestStep DEF Fails, MemoryAlive
<1>6. ASSUME Got(t) PROVE Quiet("got", "run")
  BY <1>6, GotStep DEF Fails, MemoryAlive
<1>7. ASSUME GotStruct(t) PROVE Quiet("got", "choose")
  BY <1>7, GotStructStep DEF Fails, MemoryAlive
<1>8. ASSUME FindSlab(t) PROVE Quiet("kfree", "freed") \/ Quiet("kfree", "flip")
  BY <1>8, FindSlabStep
<1>9. ASSUME LoadBits(t) PROVE Quiet("clean", "release")
  BY <1>9, LoadBitsStep
<1>10. ASSUME KfreeReturns(t) PROVE Quiet("freed", "clean") \/ Quiet("freed", "run")
  BY <1>10, KfreeReturnsStep
<1> QED
  BY <1>1, <1>2, <1>3, <1>4, <1>5, <1>6, <1>7, <1>8, <1>9, <1>10 DEF QuietPCs

\* Steps that change no page, slab or counter keep BitsInv.
LEMMA QuietBits ==
  ASSUME Types, PagesApart, NewAreEmpty, BitsInv, Undisturbed', BitsKept', NEW t \in Callers,
         \/ \E c \in Caches : Kmalloc(t, c)
         \/ \E a \in held : Kfree(t, a)
         \/ Choose(t) \/ FindPage(t) \/ Test(t) \/ Got(t) \/ GotStruct(t) \/ FindSlab(t)
         \/ LoadBits(t) \/ KfreeReturns(t)
  PROVE  BitsInv'
<1>0. MemoryAlive'
  BY DEF BitsKept, MemoryAlive, LosesBits
<1>1. Owned(Claims, ObjectsInUse) /\ PartsSmall /\ SlabsCounted /\ NoPageLost /\ Emptied
  BY DEF BitsInv
<1>2. Owned(Claims', ObjectsInUse') /\ PartsSmall'
  <2>1. ASSUME \/ \E c \in Caches : Kmalloc(t, c)
               \/ Choose(t) \/ FindPage(t) \/ LoadBits(t) \/ KfreeReturns(t) \/ Test(t)
        PROVE  Owned(Claims', ObjectsInUse') /\ PartsSmall'
    BY <1>0, <1>1, <2>1, LookingOwned
  <2>2. ASSUME NEW a \in held, Kfree(t, a) PROVE Owned(Claims', ObjectsInUse') /\ PartsSmall'
    BY <1>1, <2>2, KfreeOwned
  <2>3. ASSUME Got(t) PROVE Owned(Claims', ObjectsInUse') /\ PartsSmall'
    BY <1>0, <1>1, <2>3, GotOwned
  <2>4. ASSUME GotStruct(t) PROVE Owned(Claims', ObjectsInUse') /\ PartsSmall'
    BY <1>0, <1>1, <2>4, GotStructOwned
  <2>5. ASSUME FindSlab(t) PROVE Owned(Claims', ObjectsInUse') /\ PartsSmall'
    BY <1>1, <2>5, FindSlabOwned
  <2> QED
    BY <2>1, <2>2, <2>3, <2>4, <2>5
<1>3. NoPageLost'
  BY <1>0, <1>1, QuietPages
<1>4. slab' = slab /\ pool' = pool
  BY <1>0, QuietMoves DEF cacheVars
<1>5. PICK from \in QuietPCs, to \in QuietPCs : Moved(t, from, to)
  BY <1>0, QuietMoves
<1>6. SlabsCounted'
  <2>1. InSlabs' = InSlabs
    BY <1>4 DEF InSlabs, Slabs
  <2>2. from \notin {"count", "uncount"} /\ to \notin {"count", "uncount"}
    BY DEF QuietPCs
  <2> QED
    BY <1>1, <1>4, <1>5, <2>1, <2>2, CountedKept
<1>7. Emptied'
  BY <1>5, EmptiedKept DEF QuietPCs
<1> QED
  BY <1>2, <1>3, <1>6, <1>7 DEF BitsInv

\* So do those that take or give back a page or a slab,
LEMMA PageBits ==
  ASSUME Types, Loaded, PagesApart, NewAreEmpty, BitsInv, BitsKept, Undisturbed', BitsKept', NEW t \in Callers,
         MarkPage(t) \/ Link(t) \/ GotMap(t) \/ Unlink(t) \/ FreePage(t)
  PROVE  BitsInv'
<1>0. MemoryAlive'
  BY DEF BitsKept, MemoryAlive, LosesBits
<1>1. Owned(Claims, ObjectsInUse) /\ PartsSmall /\ SlabsCounted /\ NoPageLost /\ Emptied
  BY DEF BitsInv
<1>a. InSlabs \subseteq AllPages
  BY Apart DEF Types, InSlabs, Caches
<1>2. ASSUME MarkPage(t) PROVE BitsInv'
  <2>1. memory_pc[t] = "mark"
    BY <1>2 DEF MarkPage, At
  <2>2. Fresh(t)
    BY <2>1, FreshNow DEF LosesBits
  <2>3. Owned(Claims', ObjectsInUse') /\ PartsSmall' /\ NoPageLost'
    BY <1>0, <1>1, <1>2, <2>2, MarkPageOwned, MarkPageKeeps
  <2>4. PICK to \in {"link", "choose"} : Moved(t, "mark", to)
    BY <1>2, MarkPageStep
  <2>5. SlabsCounted'
    <3>1. /\ loc[t].page \notin InSlabs /\ pool' = pool
          /\ \A p \in AllPages \ {loc[t].page} : slab'[p] = slab[p]
      BY <1>2, <2>1, <2>2, MarkPageStep DEF Fresh, PagesApart
    <3>2. InSlabs' = InSlabs
      BY <3>1 DEF InSlabs, Slabs
    <3>3. \A p \in InSlabs' : p \in InSlabs /\ slab'[p] = slab[p]
      BY <1>a, <3>1, <3>2
    <3> QED
      BY <1>1, <2>4, <3>3, CountedKept
  <2>6. Emptied'
    BY <2>4, EmptiedKept
  <2> QED
    BY <2>3, <2>5, <2>6 DEF BitsInv
<1>3. ASSUME Link(t) PROVE BitsInv'
  <2>1. Owned(Claims', ObjectsInUse') /\ PartsSmall' /\ NoPageLost'
    BY <1>1, <1>3, LinkOwned, LinkKeeps
  <2>2. Moved(t, "link", "test") /\ slab' = slab
    BY <1>3, LinkStep
  <2>3. SlabsCounted'
    <3>1. InSlabs' = InSlabs \cup {loc[t].page}
      BY <1>3, LinkPages
    <3>2. /\ slab[loc[t].page].color_map = {} /\ slab[loc[t].page].using_count = 0
          /\ slab[loc[t].page].free_count = Colors
      BY <2>2 DEF NewAreEmpty, Moved
    <3> QED
      BY <1>1, <2>2, <3>1, <3>2, CountedKept
  <2>4. Emptied'
    BY <2>2, EmptiedKept
  <2> QED
    BY <2>1, <2>3, <2>4 DEF BitsInv
<1>4. ASSUME GotMap(t) PROVE BitsInv'
  <2>1. Owned(Claims', ObjectsInUse') /\ PartsSmall' /\ NoPageLost'
    BY <1>0, <1>1, <1>4, GotMapOwned, GotMapKeeps
  <2>2. /\ Moved(t, "got", "link") /\ pool' = pool
        /\ \A p \in AllPages \ {loc[t].big} : slab'[p] = slab[p]
    BY <1>0, <1>4, GotMapStep DEF Fails, MemoryAlive
  <2>3. SlabsCounted'
    <3>1. loc[t].big \notin InSlabs
      BY <1>0, <1>4, GotMapPages DEF PagesApart
    <3>2. InSlabs' = InSlabs
      BY <2>2 DEF InSlabs, Slabs
    <3>3. \A p \in InSlabs' : p \in InSlabs /\ slab'[p] = slab[p]
      BY <1>a, <2>2, <3>1, <3>2
    <3> QED
      BY <1>1, <2>2, <3>3, CountedKept
  <2>4. Emptied'
    BY <2>2, EmptiedKept
  <2> QED
    BY <2>1, <2>3, <2>4 DEF BitsInv
<1>5. ASSUME Unlink(t) PROVE BitsInv'
  <2>1. slab[loc[t].page].color_map = {}
    BY <1>1, <1>5 DEF Emptied, Unlink, At
  <2>2. Owned(Claims', ObjectsInUse') /\ PartsSmall' /\ NoPageLost'
    BY <1>0, <1>1, <1>5, <2>1, UnlinkOwned, UnlinkKeeps
  <2>3. slab' = slab /\ InSlabs' = InSlabs \ {loc[t].page}
    BY <1>0, <1>5, UnlinkStep, UnlinkPages
  <2>4. PICK to \in {"clean", "kfree"} : Moved(t, "unlink", to)
    BY <1>0, <1>5, UnlinkStep DEF Fails, MemoryAlive
  <2>5. SlabsCounted'
    BY <1>1, <2>3, <2>4, CountedKept
  <2>6. Emptied'
    BY <2>4, EmptiedKept
  <2> QED
    BY <2>2, <2>5, <2>6 DEF BitsInv
<1>6. ASSUME FreePage(t) PROVE BitsInv'
  <2>1. Fresh(t)
    BY <1>6, FreshNow DEF LosesBits, FreePage, At
  <2>2. Owned(Claims', ObjectsInUse') /\ PartsSmall' /\ NoPageLost'
    BY <1>1, <1>6, <2>1, FreePageOwned, FreePageKeeps
  <2>3. slab' = slab /\ pool' = pool
    BY <1>6, FreePageStep DEF cacheVars
  <2>4. PICK to \in {"freed", "kfree"} : Moved(t, "release", to)
    BY <1>6, FreePageStep
  <2>5. SlabsCounted'
    <3>1. InSlabs' = InSlabs
      BY <2>3 DEF InSlabs, Slabs
    <3> QED
      BY <1>1, <2>3, <2>4, <3>1, CountedKept
  <2>6. Emptied'
    BY <2>4, EmptiedKept
  <2> QED
    BY <2>2, <2>5, <2>6 DEF BitsInv
<1> QED
  BY <1>2, <1>3, <1>4, <1>5, <1>6

\* those on an object,
LEMMA ObjectBits ==
  ASSUME Types, Loaded, PagesApart, NewAreEmpty, BitsInv, BitsKept, Undisturbed', BitsKept', NEW t \in Callers,
         Set(t) \/ Count(t) \/ Flip(t) \/ Uncount(t)
  PROVE  BitsInv'
<1>0. MemoryAlive' /\ \A from, how : Fails(t, from, how) => how = "none"
  BY DEF BitsKept, MemoryAlive, LosesBits, Fails
<1>1. Owned(Claims, ObjectsInUse) /\ PartsSmall /\ SlabsCounted /\ NoPageLost /\ Emptied
  BY DEF BitsInv
<1>2. NoPageLost'
  BY <1>0, <1>1, ObjectPages
<1>3. Fresh(t)
  BY FreshNow DEF LosesBits, LosesCounts, Set, Count, Flip, Uncount, At
<1>a. Linked(loc[t]) => loc[t].page \in InSlabs
  BY DEF Linked, InSlabs, Types, LocType
<1>b. InSlabs \subseteq AllPages
  BY Apart DEF Types, InSlabs, Caches
<1>4. ASSUME Set(t) PROVE BitsInv'
  <2>1. Owned(Claims', ObjectsInUse') /\ PartsSmall'
    BY <1>0, <1>1, <1>3, <1>4, SetOwned
  <2> DEFINE p == loc[t].page
             j == loc[t].address[2]
  <2>2. /\ Moved(t, "set", "count") /\ pool' = pool /\ Linked(loc[t]) /\ p \in AllPages /\ loc'[t].page = p
        /\ slab'[p] = [slab[p] EXCEPT !.color_map = loc[t].word \cup {j}]
        /\ \A r \in AllPages \ {p} : slab'[r] = slab[r]
    BY <1>0, <1>4, SetStep
  <2>3. memory_pc[t] = "set" /\ loc[t].word = slab[p].color_map /\ j \notin loc[t].word
    BY <1>3, <2>2 DEF Moved, Fresh
  <2>4. slab[p] \in SlabType
    BY <2>2 DEF Types
  <2>5. /\ slab'[p].color_map = slab[p].color_map \cup {j} /\ j \notin slab[p].color_map
        /\ slab'[p].using_count = slab[p].using_count /\ slab'[p].free_count = slab[p].free_count
    BY <2>2, <2>3, <2>4 DEF SlabType
  <2>6. SlabsCounted'
    <3>1. InSlabs' = InSlabs /\ p \in InSlabs
      BY <1>a, <2>2 DEF InSlabs, Slabs
    <3>2. \A q \in InSlabs : q # p => slab'[q] = slab[q]
      BY <1>b, <2>2
    <3>3. /\ Moved(t, "set", "count") /\ p \in AllPages /\ loc'[t].page = p
          /\ slab'[p].using_count = slab[p].using_count /\ slab'[p].free_count = slab[p].free_count
          /\ "set" \notin {"count", "uncount"} /\ "count" = "count"
          /\ j \notin slab[p].color_map /\ slab'[p].color_map = slab[p].color_map \cup {j}
      BY <2>2, <2>5
    <3> HIDE DEF p, j
    <3> QED
      BY <1>1, <3>1, <3>2, <3>3, CountedLate
  <2>7. Emptied'
    BY <2>2, EmptiedKept
  <2> QED
    BY <1>2, <2>1, <2>6, <2>7 DEF BitsInv
<1>5. ASSUME Flip(t) PROVE BitsInv'
  <2> DEFINE p == loc[t].page
             j == loc[t].address[2]
             map == SymDiff(loc[t].word, {j})
  <2>1. /\ Owned(Claims', ObjectsInUse') /\ PartsSmall'
        /\ j \in slab[p].color_map /\ slab'[p].color_map = slab[p].color_map \ {j}
    BY <1>0, <1>1, <1>3, <1>5, FlipOwned
  <2>2. /\ Moved(t, "flip", "uncount") /\ pool' = pool /\ Linked(loc[t]) /\ p \in AllPages /\ loc'[t].page = p
        /\ slab'[p] = [slab[p] EXCEPT !.color_map = map]
        /\ \A r \in AllPages \ {p} : slab'[r] = slab[r]
    BY <1>0, <1>5, FlipStep
  <2> HIDE DEF map
  <2>3. slab[p] \in SlabType
    BY <2>2 DEF Types
  <2>4. slab'[p].using_count = slab[p].using_count /\ slab'[p].free_count = slab[p].free_count
    BY <2>2, <2>3 DEF SlabType
  <2>5. SlabsCounted'
    <3>1. InSlabs' = InSlabs /\ p \in InSlabs
      BY <1>a, <2>2 DEF InSlabs, Slabs
    <3>2. \A q \in InSlabs : q # p => slab'[q] = slab[q]
      BY <1>b, <2>2
    <3>3. /\ Moved(t, "flip", "uncount") /\ p \in AllPages /\ loc'[t].page = p
          /\ slab'[p].using_count = slab[p].using_count /\ slab'[p].free_count = slab[p].free_count
          /\ "flip" \notin {"count", "uncount"}
          /\ j \in slab[p].color_map /\ slab'[p].color_map = slab[p].color_map \ {j}
      BY <2>1, <2>2, <2>4
    <3> HIDE DEF p, j
    <3> QED
      BY <1>1, <3>1, <3>2, <3>3, CountedLate
  <2>6. Emptied'
    BY <2>2, EmptiedKept
  <2> QED
    BY <1>2, <2>1, <2>5, <2>6 DEF BitsInv
<1>6. ASSUME Count(t) PROVE BitsInv'
  <2>1. Owned(Claims', ObjectsInUse') /\ PartsSmall'
    BY <1>0, <1>1, <1>6, CountingOwned
  <2>2. Moved(t, "count", "got") /\ pool' = pool /\ Linked(loc[t]) /\ StoreCounters(loc[t], 1)
    BY <1>0, <1>6, CountStep
  <2>3. SlabsCounted'
    <3>1. InSlabs' = InSlabs
      BY <2>2 DEF InSlabs, Slabs
    <3>2. StoreCounters(loc[t], IF "count" = "count" THEN 1 ELSE -1)
      BY <2>2
    <3> QED
      BY <1>1, <1>3, <2>2, <3>1, <3>2, CountedNow
  <2>4. Emptied'
    BY <2>2, EmptiedKept
  <2> QED
    BY <1>2, <2>1, <2>3, <2>4 DEF BitsInv
<1>7. ASSUME Uncount(t) PROVE BitsInv'
  <2>1. Owned(Claims', ObjectsInUse') /\ PartsSmall'
    BY <1>0, <1>1, <1>7, CountingOwned
  <2>2. /\ pool' = pool /\ Linked(loc[t]) /\ StoreCounters(loc[t], -1) /\ loc'[t].page = loc[t].page
        /\ \/ Moved(t, "uncount", "freed")
           \/ Moved(t, "uncount", "unlink") /\ loc[t].was[1] = 1
    BY <1>0, <1>7, UncountStep
  <2>3. PICK to \in {"freed", "unlink"} : Moved(t, "uncount", to) /\ (to = "unlink" => loc[t].was[1] = 1)
    BY <2>2
  <2>4. InSlabs' = InSlabs
    BY <2>2 DEF InSlabs, Slabs
  <2>5. SlabsCounted' /\ slab'[loc[t].page].using_count = loc[t].was[1] + (-1)
    <3>1. StoreCounters(loc[t], IF "uncount" = "count" THEN 1 ELSE -1)
      BY <2>2
    <3> QED
      BY <1>1, <1>3, <2>2, <2>3, <2>4, <3>1, CountedNow
  <2>6. Emptied'
    <3>1. CASE to = "freed"
      BY <2>3, <3>1, EmptiedKept
    <3>2. CASE to = "unlink"
      <4>0. PICK p : p = loc[t].page
        OBVIOUS
      <4>1. slab'[p].using_count = 0
        BY <2>3, <2>5, <3>2, <4>0
      <4>2. UncountedIn(p)' = 0 /\ p \in InSlabs' /\ p \in AllPages
        BY <1>a, <1>b, <2>2, <2>3, <2>4, <3>2, <4>0 DEF UncountedIn, Uncounted, Moved
      <4>3. slab[p].color_map \in SUBSET Indices /\ slab'[p].color_map = slab[p].color_map
        <5>1. memory_pc[t] \in {"count", "uncount"} /\ -1 \in Int
          BY <2>3 DEF Moved
        <5> QED
          BY <2>2, <4>2, <5>1, StoreCountersTypes DEF Types, SlabType
      <4>4. IsFiniteSet(slab'[p].color_map) /\ Cardinality(slab'[p].color_map) \in Nat
        BY <4>3, MapSizes
      <4>5. Cardinality(slab'[p].color_map) = 0
        <5>1. slab'[p].using_count = Cardinality(slab'[p].color_map) - UncountedIn(p)'
          BY <2>5, <4>2 DEF SlabsCounted
        <5> QED
          BY <4>1, <4>2, <4>4, <5>1
      <4>6. slab'[p].color_map = {}
        BY <4>4, <4>5, FS_EmptySet
      <4>7. ASSUME NEW u \in Callers, memory_pc'[u] = "unlink" PROVE slab'[loc'[u].page].color_map = {}
        <5>1. "unlink" \in Windows \ memory_hit'
          BY DEF BitsKept, LosesBits, Windows
        <5>2. u = t
          BY <2>3, <4>7, <5>1 DEF Undisturbed, Moved
        <5> QED
          BY <2>2, <4>0, <4>6, <5>2
      <4> QED
        BY <4>7 DEF Emptied
    <3> QED
      BY <3>1, <3>2
  <2> QED
    BY <1>2, <2>1, <2>5, <2>6 DEF BitsInv
<1> QED
  BY <1>4, <1>5, <1>6, <1>7

\* Where pages, slabs and calls stay as they are.
LEMMA BitsSame ==
  ASSUME Types, BitsInv, UNCHANGED <<pageVars, cacheVars, memory_pc, loc, held>>,
         \A p : UncountedIn(p)' = UncountedIn(p)
  PROVE  BitsInv'
<1>1. (\A c \in Caches : Slabs(c)' = Slabs(c)) /\ InSlabs' = InSlabs /\ slab' = slab /\ bits_map' = bits_map
  BY DEF Slabs, InSlabs, cacheVars, pageVars
<1>2. Slabs("small")' = Slabs("small") /\ BigSlabs' = BigSlabs
  BY <1>1 DEF BigSlabs, Linking, Caches
<1>3. \A u \in Callers : OfCall(u)' = OfCall(u) /\ OfPart(u)' = OfPart(u) /\ HasPart(u)' = HasPart(u) /\ Hold(u)' = Hold(u)
  BY DEF OfCall, OfPart, HasPart, Hold, HasBig, HasPage
<1>4. Owned(Claims', ObjectsInUse')
  <2>1. \A o \in Owners : Claims'[o] = Claims[o]
    <3> DEFINE S == {}
    <3>1. \A a \in Addresses : <<"held", a>> \in S \/ (a \in held' <=> a \in held)
      OBVIOUS
    <3>2. \A u \in Callers : /\ <<"call", u>> \in S \/ OfCall(u)' = OfCall(u)
                             /\ <<"part", u>> \in S \/ OfPart(u)' = OfPart(u)
      BY <1>3
    <3>3. \A x \in Pages :
            /\ <<"at", x>> \in S \/ ((x \in BigSlabs' <=> x \in BigSlabs) /\ (x \in BigSlabs => slab'[x].at = slab[x].at))
            /\ <<"map", x>> \in S \/ ((x \in BigSlabs' <=> x \in BigSlabs) /\ (x \in BigSlabs => slab'[x].map_at = slab[x].map_at))
      BY <1>1, <1>2
    <3> HIDE DEF S
    <3>4. \A o \in Owners : o \notin S => Claims'[o] = Claims[o]
      BY <3>1, <3>2, <3>3, ClaimsKept
    <3> QED
      BY <3>4 DEF S
  <2>2. ObjectsInUse' = ObjectsInUse
    BY <1>1, UsedSame
  <2> QED
    BY <2>1, <2>2, OwnedSame DEF BitsInv
<1>5. PartsSmall'
  BY <1>1, <1>2, <1>3 DEF BitsInv, PartsSmall
<1>6. SlabsCounted'
  BY <1>1 DEF BitsInv, SlabsCounted
<1>7. NoPageLost'
  BY <1>1, <1>3 DEF BitsInv, NoPageLost
<1>8. Emptied'
  BY <1>1 DEF BitsInv, Emptied
<1> QED
  BY <1>4, <1>5, <1>6, <1>7, <1>8 DEF BitsInv

\* and another task's going on.
LEMMA PreemptBits ==
  ASSUME Types, Undisturbed, BitsInv, NEW t \in Callers, Preempt(t), BitsKept'
  PROVE  BitsInv'
<1>1. /\ UNCHANGED <<pageVars, cacheVars, memory_pc, loc, held>> /\ t # current /\ current' = t /\ current \in Callers
      /\ memory_hit' = memory_hit \cup ({memory_pc[current]} \cap Windows)
  BY PreemptStep
<1>2. memory_hit' \cap LosesBits = {}
  BY DEF BitsKept
<1>3. memory_pc[current] \notin LosesBits
  BY <1>1, <1>2 DEF LosesBits, LosesCounts, Windows
<1>4. \A u \in Callers : memory_pc[u] \notin LosesBits
  <2> SUFFICES ASSUME NEW u \in Callers, memory_pc[u] \in LosesBits PROVE FALSE
    OBVIOUS
  <2>1. memory_pc[u] \in Windows \ memory_hit
    BY <1>1, <1>2 DEF LosesBits, LosesCounts, Windows
  <2> QED
    BY <1>3, <2>1 DEF Undisturbed
<1>5. Uncounted(current) = 0 /\ Uncounted(current)' = 0
  BY <1>1, <1>4 DEF Uncounted, LosesBits, LosesCounts
<1>6. \A p : UncountedIn(p)' = UncountedIn(p)
  BY <1>5 DEF UncountedIn
<1> QED
  BY <1>1, <1>6, BitsSame
-----------------------------------------------------------------------------
(* How much is free *)

\* What is finite here.
LEMMA FiniteObjects ==
  ASSUME Types, NEW c \in Caches
  PROVE  /\ IsFiniteSet(Slabs(c)) /\ IsFiniteSet(Objects(c)) /\ IsFiniteSet(Taken(c))
         /\ IsFiniteSet(Objects(c) \ Taken(c)) /\ Taken(c) \subseteq Objects(c)
         /\ Cardinality(Taken(c)) \in Nat /\ Cardinality(Objects(c) \ Taken(c)) \in Nat
<1>1. IsFiniteSet(Pages \cup {PoolPage[c]})
  BY MemoryAssumption, FS_AddElement
<1>2. IsFiniteSet(Slabs(c))
  BY <1>1, FS_Subset DEF Types
<1>3. IsFiniteSet(Objects(c))
  BY <1>2, MapSizes, FS_Product DEF Objects
<1>4. Taken(c) \subseteq Objects(c)
  BY DEF Taken
<1>5. IsFiniteSet(Taken(c))
  BY <1>3, <1>4, FS_Subset
<1>6. IsFiniteSet(Objects(c) \ Taken(c))
  BY <1>3, FS_Difference
<1> QED
  BY <1>2, <1>3, <1>4, <1>5, <1>6, FS_CardinalityType

\* The room a task has chosen stays.
LEMMA RoomKept ==
  ASSUME Undisturbed', NoneHit', NEW t \in Callers, NEW from, NEW to, Moved(t, from, to),
         to = "test" => slab'[loc'[t].page].color_map # Indices
  PROVE  ChosenHasRoom'
<1> SUFFICES ASSUME NEW u \in Callers, memory_pc'[u] = "test" PROVE slab'[loc'[u].page].color_map # Indices
  BY DEF ChosenHasRoom
<1>1. "test" \in Windows \ memory_hit'
  BY DEF NoneHit, Windows
<1>2. u = current'
  BY <1>1 DEF Undisturbed
<1> QED
  BY <1>2 DEF Moved

\* The same objects and the same of them in use.
LEMMA ObjectsSame ==
  ASSUME NEW c \in Caches, Slabs(c)' = Slabs(c), \A p \in Slabs(c) : slab'[p].color_map = slab[p].color_map
  PROVE  Objects(c)' = Objects(c) /\ Taken(c)' = Taken(c)
<1>1. Objects(c)' = Objects(c)
  BY DEF Objects
<1>2. \A o \in Objects(c) : o[1] \in Slabs(c)
  BY DEF Objects
<1>3. Taken(c)' = Taken(c)
  BY <1>1, <1>2 DEF Taken
<1> QED
  BY <1>1, <1>3

\* A step that counts nothing and takes nothing.
LEMMA TotalsSame ==
  ASSUME Types, TotalsCounted, NEW t \in Callers, NEW from, NEW to, Moved(t, from, to),
         from \notin {"count", "uncount"}, to \notin {"count", "uncount"},
         total_free' = total_free, total_using' = total_using,
         \A c \in Caches : Slabs(c)' = Slabs(c),
         \A p \in InSlabs : slab'[p].color_map = slab[p].color_map,
         page_free_count' = Cardinality(Pages \ bits_map')
  PROVE  TotalsCounted'
<1>1. current = t /\ current' = t /\ Uncounted(t) = 0 /\ Uncounted(t)' = 0
  BY DEF Moved, Uncounted
<1>2. ASSUME NEW c \in Caches
      PROVE  /\ total_using'[c] = Cardinality(Taken(c)') - UncountedOf(c)'
             /\ total_free'[c] = Cardinality(Objects(c)' \ Taken(c)') + UncountedOf(c)'
  <2>1. Objects(c)' = Objects(c) /\ Taken(c)' = Taken(c)
    BY ObjectsSame DEF InSlabs
  <2>2. UncountedOf(c) = 0 /\ UncountedOf(c)' = 0
    BY <1>1 DEF UncountedOf
  <2>3. /\ total_using[c] = Cardinality(Taken(c)) - UncountedOf(c)
        /\ total_free[c] = Cardinality(Objects(c) \ Taken(c)) + UncountedOf(c)
    BY DEF TotalsCounted
  <2> QED
    BY <2>1, <2>2, <2>3
<1> QED
  BY <1>2 DEF TotalsCounted

\* One object more, or less, is in use than counted.
LEMMA TotalsLate ==
  ASSUME Types, PagesApart, TotalsCounted, NEW t \in Callers, NEW from, NEW to, Moved(t, from, to),
         from \notin {"count", "uncount"}, NEW k \in Caches, NEW p \in Slabs(k), NEW j \in Indices,
         pool' = pool, total_free' = total_free, total_using' = total_using,
         page_free_count' = page_free_count, bits_map' = bits_map, loc'[t].cache = k,
         \A q \in InSlabs : q # p => slab'[q] = slab[q],
         \/ to = "count" /\ j \notin slab[p].color_map /\ slab'[p].color_map = slab[p].color_map \cup {j}
         \/ to = "uncount" /\ j \in slab[p].color_map /\ slab'[p].color_map = slab[p].color_map \ {j}
  PROVE  TotalsCounted'
<1> DEFINE a == <<p, j>>
<1>1. current = t /\ current' = t /\ Uncounted(t) = 0 /\ Uncounted(t)' = (IF to = "count" THEN 1 ELSE -1)
  BY DEF Moved, Uncounted
<1>2. \A c \in Caches : Slabs(c)' = Slabs(c)
  BY DEF Slabs
<1>3. ASSUME NEW c \in Caches
      PROVE  /\ total_using'[c] = Cardinality(Taken(c)') - UncountedOf(c)'
             /\ total_free'[c] = Cardinality(Objects(c)' \ Taken(c)') + UncountedOf(c)'
  <2>1. UncountedOf(c) = 0 /\ UncountedOf(c)' = IF c = k THEN (IF to = "count" THEN 1 ELSE -1) ELSE 0
    BY <1>1 DEF UncountedOf
  <2>2. /\ total_using[c] = Cardinality(Taken(c)) - UncountedOf(c)
        /\ total_free[c] = Cardinality(Objects(c) \ Taken(c)) + UncountedOf(c)
    BY DEF TotalsCounted
  <2>3. CASE c # k
    <3>1. p \notin Slabs(c)
      BY <2>3 DEF PagesApart, Caches
    <3>2. \A q \in Slabs(c) : slab'[q].color_map = slab[q].color_map
      BY <3>1 DEF InSlabs
    <3>3. Objects(c)' = Objects(c) /\ Taken(c)' = Taken(c)
      BY <1>2, <3>2, ObjectsSame
    <3> QED
      BY <2>1, <2>2, <2>3, <3>3
  <2>4. CASE c = k
    <3> DEFINE T == Taken(c)
               O == Objects(c)
    <3>1. Objects(c)' = O
      BY <1>2 DEF Objects
    <3>2. a \in O
      BY <2>4 DEF Objects
    <3>3. \A o \in O : o[1] \in InSlabs /\ o = <<o[1], o[2]>>
      BY DEF Objects, InSlabs
    <3>4. /\ IsFiniteSet(T) /\ IsFiniteSet(O \ T) /\ Cardinality(T) \in Nat /\ Cardinality(O \ T) \in Nat
      BY FiniteObjects
    <3>5. CASE to = "count"
      <4>1. j \notin slab[p].color_map /\ slab'[p].color_map = slab[p].color_map \cup {j}
        BY <3>5
      <4>2. Taken(c)' = T \cup {a} /\ a \notin T
        BY <3>1, <3>2, <3>3, <4>1 DEF Taken
      <4>3. O \ (T \cup {a}) = (O \ T) \ {a} /\ a \in O \ T
        BY <3>2, <4>2
      <4> HIDE DEF T, O, a
      <4>4. Cardinality(T \cup {a}) = Cardinality(T) + 1
        BY <3>4, <4>2, FS_AddElement
      <4>5. Cardinality((O \ T) \ {a}) = Cardinality(O \ T) - 1
        BY <3>4, <4>3, FS_RemoveElement
      <4>6. total_using[c] = Cardinality(T) - 0 /\ total_free[c] = Cardinality(O \ T) + 0
        BY <2>1, <2>2 DEF T, O
      <4>7. UncountedOf(c)' = 1
        BY <2>1, <2>4, <3>5
      <4>8. Cardinality(Taken(c)') = Cardinality(T) + 1
        BY <4>2, <4>4
      <4>9. Cardinality(Objects(c)' \ Taken(c)') = Cardinality(O \ T) - 1
        BY <3>1, <4>2, <4>3, <4>5
      <4>10. total_using'[c] = total_using[c] /\ total_free'[c] = total_free[c]
        OBVIOUS
      <4> QED
        BY <3>4, <4>6, <4>7, <4>8, <4>9, <4>10
    <3>6. CASE to = "uncount"
      <4>1. j \in slab[p].color_map /\ slab'[p].color_map = slab[p].color_map \ {j}
        BY <3>6
      <4>2. Taken(c)' = T \ {a} /\ a \in T
        BY <3>1, <3>2, <3>3, <4>1 DEF Taken
      <4>3. O \ (T \ {a}) = (O \ T) \cup {a} /\ a \notin O \ T
        BY <3>2, <4>2
      <4> HIDE DEF T, O, a
      <4>4. Cardinality(T \ {a}) = Cardinality(T) - 1
        BY <3>4, <4>2, FS_RemoveElement
      <4>5. Cardinality((O \ T) \cup {a}) = Cardinality(O \ T) + 1
        BY <3>4, <4>3, FS_AddElement
      <4>6. total_using[c] = Cardinality(T) - 0 /\ total_free[c] = Cardinality(O \ T) + 0
        BY <2>1, <2>2 DEF T, O
      <4>7. UncountedOf(c)' = -1
        BY <2>1, <2>4, <3>6
      <4>8. Cardinality(Taken(c)') = Cardinality(T) - 1
        BY <4>2, <4>4
      <4>9. Cardinality(Objects(c)' \ Taken(c)') = Cardinality(O \ T) + 1
        BY <3>1, <4>2, <4>3, <4>5
      <4>10. total_using'[c] = total_using[c] /\ total_free'[c] = total_free[c]
        OBVIOUS
      <4> QED
        BY <3>4, <4>6, <4>7, <4>8, <4>9, <4>10
    <3> QED
      BY <3>5, <3>6
  <2> QED
    BY <2>3, <2>4
<1> QED
  BY <1>3 DEF TotalsCounted

\* What was not counted yet is counted.
LEMMA TotalsNow ==
  ASSUME Types, TotalsCounted, NEW t \in Callers, NEW from \in {"count", "uncount"}, NEW to, Moved(t, from, to),
         to \notin {"count", "uncount"}, pool' = pool, Linked(loc[t]), Fresh(t),
         page_free_count' = page_free_count, bits_map' = bits_map,
         StoreCounters(loc[t], IF from = "count" THEN 1 ELSE -1)
  PROVE  TotalsCounted'
<1> DEFINE n == IF from = "count" THEN 1 ELSE -1
<1>1. current = t /\ current' = t /\ Uncounted(t) = n /\ Uncounted(t)' = 0 /\ memory_pc[t] \in {"count", "uncount"} /\ n \in Int
  BY DEF Moved, Uncounted
<1> HIDE DEF n
<1>2. StoreCounters(loc[t], n)
  BY DEF n
<1>3. loc[t].was[3] = total_using[loc[t].cache] /\ loc[t].was[4] = total_free[loc[t].cache]
  BY <1>1 DEF Fresh, Counters
<1>4. /\ \A q \in AllPages : slab'[q].color_map = slab[q].color_map
      /\ total_using'[loc[t].cache] = total_using[loc[t].cache] + n
      /\ total_free'[loc[t].cache] = total_free[loc[t].cache] - n
      /\ \A c \in Caches : c # loc[t].cache =>
              total_using'[c] = total_using[c] /\ total_free'[c] = total_free[c]
  BY <1>1, <1>2, <1>3, StoreCountersTypes
<1>5. ASSUME NEW c \in Caches
      PROVE  /\ total_using'[c] = Cardinality(Taken(c)') - UncountedOf(c)'
             /\ total_free'[c] = Cardinality(Objects(c)' \ Taken(c)') + UncountedOf(c)'
  <2>1. Objects(c)' = Objects(c) /\ Taken(c)' = Taken(c)
    <3>1. Slabs(c)' = Slabs(c)
      BY DEF Slabs
    <3>2. \A p \in Slabs(c) : slab'[p].color_map = slab[p].color_map
      BY <1>4, Apart DEF Types
    <3> QED
      BY <3>1, <3>2, ObjectsSame
  <2>2. UncountedOf(c)' = 0 /\ UncountedOf(c) = IF c = loc[t].cache THEN n ELSE 0
    BY <1>1 DEF UncountedOf
  <2>3. /\ total_using[c] = Cardinality(Taken(c)) - UncountedOf(c)
        /\ total_free[c] = Cardinality(Objects(c) \ Taken(c)) + UncountedOf(c)
    BY DEF TotalsCounted
  <2>4. Cardinality(Taken(c)) \in Nat /\ Cardinality(Objects(c) \ Taken(c)) \in Nat
    BY FiniteObjects
  <2> QED
    BY <1>1, <1>4, <2>1, <2>2, <2>3, <2>4
<1> QED
  BY <1>5 DEF TotalsCounted

\* The objects of the slabs S that are not in T.
Room(S, T) == Cardinality((S \X Indices) \ T)

\* A slab with nothing in use has Colors free objects.
LEMMA SlabSize ==
  ASSUME NEW S, NEW p, NEW T, IsFiniteSet(S), p \notin S, T \subseteq S \X Indices
  PROVE  Room(S \cup {p}, T) = Room(S, T) + Colors
<1> DEFINE A == (S \X Indices) \ T
           B == {p} \X Indices
<1>1. ((S \cup {p}) \X Indices) \ T = A \cup B /\ A \cap B = {}
  OBVIOUS
<1>2. IsFiniteSet(A)
  BY MapSizes, FS_Product, FS_Difference
<1>3. Colors \in Nat
  BY MemoryAssumption
<1>4. IsFiniteSet(B) /\ Cardinality(B) = Colors
  <2>1. IsFiniteSet({p}) /\ Cardinality({p}) = 1
    BY FS_Singleton
  <2>2. IsFiniteSet(B) /\ Cardinality(B) = Cardinality({p}) * Cardinality(Indices)
    BY <2>1, MapSizes, FS_Product
  <2>3. Cardinality(B) = 1 * Colors
    BY <2>1, <2>2, MapSizes
  <2> HIDE DEF B
  <2> QED
    BY <1>3, <2>2, <2>3
<1> HIDE DEF A, B
<1>5. Cardinality(A \cup B) = Cardinality(A) + Cardinality(B) - Cardinality(A \cap B)
  BY <1>2, <1>4, FS_Union
<1>6. Cardinality(A) \in Nat /\ Cardinality({}) = 0
  BY <1>2, FS_CardinalityType, FS_EmptySet
<1>7. Cardinality(A \cap B) = 0
  <2>1. A \cap B = {}
    BY <1>1
  <2> QED
    BY <1>6, <2>1
<1>8. Cardinality(A \cup B) = Cardinality(A) + Colors
  BY <1>3, <1>4, <1>5, <1>6, <1>7
<1> QED
  <2>1. ((S \cup {p}) \X Indices) \ T = A \cup B
    BY <1>1
  <2> QED
    BY <1>8, <2>1 DEF A, Room
\* The new slab's objects are free ones.
LEMMA LinkTotals ==
  ASSUME Types, PagesApart, NewAreEmpty, TotalsCounted, NEW t \in Callers, Link(t), Fresh(t)
  PROVE  TotalsCounted'
<1> DEFINE p == loc[t].page
           k == loc[t].cache
<1>1. /\ Moved(t, "link", "test") /\ p \in Pages /\ UNCHANGED <<pageVars, slab, total_using>>
      /\ total_free' = [total_free EXCEPT ![k] = loc[t].was[1] + Colors]
      /\ \A c \in Caches : Slabs(c)' = IF c = k THEN Slabs(c) \cup {p} ELSE Slabs(c)
  BY LinkStep
<1>2. /\ current = t /\ current' = t /\ Uncounted(t) = 0 /\ Uncounted(t)' = 0 /\ k \in Caches
      /\ memory_pc[t] = "link" /\ loc[t].was = <<total_free[k]>>
  BY <1>1 DEF Moved, Uncounted, Types, LocType, Fresh
<1>3. p \notin InSlabs /\ slab[p].color_map = {}
  <2>1. p \in Hold(t)
    BY <1>1, <1>2 DEF Hold, HasPage
  <2> QED
    BY <1>2, <2>1 DEF PagesApart, NewAreEmpty
<1>4. total_free \in [Caches -> Int] /\ total_free'[k] = total_free[k] + Colors
      /\ \A c \in Caches : c # k => total_free'[c] = total_free[c]
  <2>1. total_free \in [Caches -> Int]
    BY DEF Types, MemoryTypeOK
  <2> QED
    BY <1>1, <1>2, <2>1
<1>5. ASSUME NEW c \in Caches
      PROVE  /\ total_using'[c] = Cardinality(Taken(c)') - UncountedOf(c)'
             /\ total_free'[c] = Cardinality(Objects(c)' \ Taken(c)') + UncountedOf(c)'
  <2>1. UncountedOf(c) = 0 /\ UncountedOf(c)' = 0
    BY <1>2 DEF UncountedOf
  <2>2. /\ total_using[c] = Cardinality(Taken(c)) - UncountedOf(c)
        /\ total_free[c] = Cardinality(Objects(c) \ Taken(c)) + UncountedOf(c)
    BY DEF TotalsCounted
  <2>3. total_using'[c] = total_using[c] /\ slab' = slab
    BY <1>1
  <2>4. CASE c # k
    <3>1. Objects(c)' = Objects(c) /\ Taken(c)' = Taken(c)
      BY <1>1, <2>3, <2>4, ObjectsSame
    <3> QED
      BY <1>4, <2>1, <2>2, <2>3, <2>4, <3>1
  <2>5. CASE c = k
    <3>1. Slabs(c)' = Slabs(c) \cup {p} /\ p \notin Slabs(c)
      BY <1>1, <1>3, <2>5 DEF InSlabs
    <3>2. Objects(c)' = (Slabs(c) \cup {p}) \X Indices /\ Objects(c) = Slabs(c) \X Indices
      BY <3>1 DEF Objects
    <3>3. Taken(c)' = Taken(c)
      <4>1. \A o \in {p} \X Indices : o[2] \notin slab[o[1]].color_map
        BY <1>3
      <4>2. Objects(c)' = Objects(c) \cup ({p} \X Indices)
        BY <3>2
      <4> QED
        BY <2>3, <4>1, <4>2 DEF Taken
    <3>4. IsFiniteSet(Slabs(c)) /\ Taken(c) \in SUBSET (Slabs(c) \X Indices) /\ Cardinality(Objects(c) \ Taken(c)) \in Nat
      BY <3>2, FiniteObjects
    <3>5. Room(Slabs(c) \cup {p}, Taken(c)) = Room(Slabs(c), Taken(c)) + Colors
      BY <3>1, <3>4, SlabSize
    <3>6. Cardinality(Objects(c)' \ Taken(c)') = Cardinality(Objects(c) \ Taken(c)) + Colors
      BY <3>2, <3>3, <3>5 DEF Room
    <3>7. total_free'[c] = total_free[c] + Colors /\ Colors \in Nat
      BY <1>4, <2>5, MemoryAssumption
    <3> QED
      BY <2>1, <2>2, <2>3, <3>3, <3>4, <3>6, <3>7
  <2> QED
    BY <2>4, <2>5
<1>6. page_free_count' = Cardinality(Pages \ bits_map')
  BY <1>1 DEF TotalsCounted, pageVars
<1> QED
  BY <1>5, <1>6 DEF TotalsCounted

\* A slab that leaves its list takes as many with it.
LEMMA UnlinkTotals ==
  ASSUME Types, PagesApart, TotalsCounted, NEW t \in Callers, MemoryAlive', Unlink(t), Fresh(t),
         slab[loc[t].page].color_map = {}
  PROVE  TotalsCounted'
<1> DEFINE p == loc[t].page
           k == loc[t].cache
<1>0. k \in Caches /\ memory_pc[t] = "unlink"
  BY DEF Types, LocType, Unlink, At
<1>1. /\ UNCHANGED <<pageVars, slab, total_using>> /\ p \in Slabs(k)
      /\ total_free' = [total_free EXCEPT ![k] = loc[t].was[1] - Colors]
      /\ \A c \in Caches : Slabs(c)' = IF c = k THEN Slabs(c) \ {p} ELSE Slabs(c)
  BY <1>0, UnlinkStep DEF Fails, MemoryAlive, PagesApart, Linked
<1>a. PICK to \in {"clean", "kfree"} : Moved(t, "unlink", to)
  BY UnlinkStep DEF Fails, MemoryAlive
<1>2. /\ current = t /\ current' = t /\ Uncounted(t) = 0 /\ Uncounted(t)' = 0
      /\ loc[t].was = <<total_free[k]>>
  BY <1>0, <1>a DEF Moved, Uncounted, Fresh
<1>4. total_free \in [Caches -> Int] /\ total_free'[k] = total_free[k] - Colors
      /\ \A c \in Caches : c # k => total_free'[c] = total_free[c]
  <2>1. total_free \in [Caches -> Int]
    BY DEF Types, MemoryTypeOK
  <2> QED
    BY <1>0, <1>1, <1>2, <2>1
<1>5. ASSUME NEW c \in Caches
      PROVE  /\ total_using'[c] = Cardinality(Taken(c)') - UncountedOf(c)'
             /\ total_free'[c] = Cardinality(Objects(c)' \ Taken(c)') + UncountedOf(c)'
  <2>1. UncountedOf(c) = 0 /\ UncountedOf(c)' = 0
    BY <1>2 DEF UncountedOf
  <2>2. /\ total_using[c] = Cardinality(Taken(c)) - UncountedOf(c)
        /\ total_free[c] = Cardinality(Objects(c) \ Taken(c)) + UncountedOf(c)
    BY DEF TotalsCounted
  <2>3. total_using'[c] = total_using[c] /\ slab' = slab
    BY <1>1
  <2>4. CASE c # k
    <3>1. Objects(c)' = Objects(c) /\ Taken(c)' = Taken(c)
      BY <1>1, <2>3, <2>4, ObjectsSame
    <3> QED
      BY <1>4, <2>1, <2>2, <2>3, <2>4, <3>1
  <2>5. CASE c = k
    <3> DEFINE S == Slabs(c) \ {p}
    <3>1. Slabs(c)' = S /\ p \notin S /\ Slabs(c) = S \cup {p}
      BY <1>1, <2>5
    <3>2. Objects(c)' = S \X Indices /\ Objects(c) = (S \cup {p}) \X Indices
      BY <3>1 DEF Objects
    <3>3. Taken(c)' = Taken(c)
      <4>1. \A o \in {p} \X Indices : o[2] \notin slab[o[1]].color_map
        OBVIOUS
      <4>2. Objects(c) = Objects(c)' \cup ({p} \X Indices)
        BY <3>2
      <4> QED
        BY <2>3, <4>1, <4>2 DEF Taken
    <3>4. Cardinality(Objects(c) \ Taken(c)) \in Nat /\ IsFiniteSet(Slabs(c))
      BY FiniteObjects
    <3>5. IsFiniteSet(S)
      BY <3>4, FS_RemoveElement
    <3>6. Taken(c) \in SUBSET (S \X Indices)
      BY <3>2, <3>3 DEF Taken
    <3> HIDE DEF S
    <3>7. Room(S \cup {p}, Taken(c)) = Room(S, Taken(c)) + Colors
      BY <3>1, <3>5, <3>6, SlabSize
    <3>8. Cardinality(Objects(c) \ Taken(c)) = Cardinality(Objects(c)' \ Taken(c)') + Colors
      BY <3>2, <3>3, <3>7 DEF Room
    <3>9. Cardinality((S \X Indices) \ Taken(c)) \in Nat
      BY <3>5, MapSizes, FS_Product, FS_Difference, FS_CardinalityType
    <3>10. Cardinality(Objects(c)' \ Taken(c)') \in Nat
      BY <3>2, <3>3, <3>9
    <3>11. total_free'[c] = total_free[c] - Colors /\ Colors \in Nat
      BY <1>4, <2>5, MemoryAssumption
    <3> QED
      BY <2>1, <2>2, <2>3, <3>3, <3>4, <3>8, <3>10, <3>11
  <2> QED
    BY <2>4, <2>5
<1>6. page_free_count' = Cardinality(Pages \ bits_map')
  BY <1>1 DEF TotalsCounted, pageVars
<1> QED
  BY <1>5, <1>6 DEF TotalsCounted

\* The pages are counted with their bits.
LEMMA MarkPageTotals ==
  ASSUME Types, PagesApart, NewAreEmpty, TotalsCounted, NEW t \in Callers, MemoryAlive', MarkPage(t), Fresh(t)
  PROVE  TotalsCounted'
<1> DEFINE p == loc[t].page
<1>1. /\ p \in Pages \ bits_map /\ bits_map' = bits_map \cup {p}
      /\ pool' = pool /\ total_free' = total_free /\ total_using' = total_using
      /\ \A q \in AllPages \ {p} : slab'[q] = slab[q]
      /\ page_free_count' = page_free_count - 1
  <2>1. loc[t].was = <<page_free_count>>
    BY DEF MarkPage, At, Fresh
  <2> QED
    BY <2>1, MarkPagePages, MarkPageStep
<1>2. PICK to \in {"link", "choose"} : Moved(t, "mark", to)
  BY MarkPageStep
<1>3. p \notin InSlabs /\ InSlabs \subseteq AllPages
  BY <1>1, Apart DEF PagesApart, Types, InSlabs, Caches
<1>4. page_free_count' = Cardinality(Pages \ bits_map')
  <2> DEFINE F == Pages \ bits_map
  <2>1. IsFiniteSet(F) /\ page_free_count = Cardinality(F) /\ Pages \ bits_map' = F \ {p} /\ p \in F
    BY <1>1, MemoryAssumption, FS_Difference DEF TotalsCounted
  <2> HIDE DEF F
  <2>2. Cardinality(F \ {p}) = Cardinality(F) - 1
    BY <2>1, FS_RemoveElement
  <2> QED
    BY <1>1, <2>1, <2>2
<1>5. \A c \in Caches : Slabs(c)' = Slabs(c)
  BY <1>1 DEF Slabs
<1>6. \A q \in InSlabs : slab'[q].color_map = slab[q].color_map
  BY <1>1, <1>3
<1> QED
  BY <1>1, <1>2, <1>4, <1>5, <1>6, TotalsSame

\* A page given back is counted.
LEMMA FreePageTotals ==
  ASSUME Types, PagesApart, NewAreEmpty, TotalsCounted, NEW t \in Callers, FreePage(t), Fresh(t)
  PROVE  TotalsCounted'
<1> DEFINE p == loc[t].page
<1>1. /\ p \in Pages /\ p \in bits_map /\ bits_map' = bits_map \ {p}
      /\ pool' = pool /\ total_free' = total_free /\ total_using' = total_using /\ slab' = slab
      /\ page_free_count' = page_free_count + 1
  <2>1. loc[t].was = <<page_free_count>>
    BY DEF FreePage, At, Fresh
  <2>2. p \in Hold(t)
    BY FreePagePages
  <2>3. p \in Pages /\ p \in bits_map
    BY <2>2 DEF Hold, PagesApart
  <2> QED
    BY <2>1, <2>3, FreePagePages, FreePageStep DEF cacheVars
<1>2. PICK to \in {"freed", "kfree"} : Moved(t, "release", to)
  BY FreePageStep
<1>3. page_free_count' = Cardinality(Pages \ bits_map')
  <2> DEFINE F == Pages \ bits_map
  <2>1. IsFiniteSet(F) /\ page_free_count = Cardinality(F) /\ Pages \ bits_map' = F \cup {p} /\ p \notin F
    BY <1>1, MemoryAssumption, FS_Difference DEF TotalsCounted
  <2> HIDE DEF F
  <2>2. Cardinality(F \cup {p}) = Cardinality(F) + 1
    BY <2>1, FS_AddElement
  <2> QED
    BY <1>1, <2>1, <2>2
<1>4. \A c \in Caches : Slabs(c)' = Slabs(c)
  BY <1>1 DEF Slabs
<1> QED
  BY <1>1, <1>2, <1>3, <1>4, TotalsSame

\* Where objects are free the slab that is chosen has one.
LEMMA ChosenIs ==
  ASSUME Types, SlabsCounted, TotalsCounted, NEW c \in Caches, total_free[c] # 0, Uncounted(current) = 0
  PROVE  slab[FirstFree(c)].color_map # Indices
<1>0. Slabs(c) \subseteq InSlabs /\ Slabs(c) \subseteq AllPages
  BY Apart DEF InSlabs, Types
<1>1. Objects(c) \ Taken(c) # {}
  <2>1. total_free[c] = Cardinality(Objects(c) \ Taken(c)) + 0
    BY DEF TotalsCounted, UncountedOf
  <2>2. Cardinality(Objects(c) \ Taken(c)) # 0
    BY <2>1
  <2> QED
    BY <2>2, FS_EmptySet
<1>2. PICK p \in Slabs(c), j \in Indices : j \notin slab[p].color_map
  <2>1. PICK o \in Objects(c) : o \notin Taken(c)
    BY <1>1
  <2> QED
    BY <2>1 DEF Objects, Taken
<1>3. ASSUME NEW q \in Slabs(c)
      PROVE  slab[q].free_count = 0 <=> slab[q].color_map = Indices
  <2> DEFINE map == slab[q].color_map
  <2>1. map \in SUBSET Indices
    BY <1>0 DEF Types, SlabType
  <2>2. Cardinality(map) \in Nat /\ IsFiniteSet(Indices) /\ Cardinality(Indices) = Colors
    BY <2>1, MapSizes
  <2>3. Cardinality(map) = Colors => map = Indices
    BY <2>1, <2>2, FS_Subset
  <2>4. UncountedIn(q) = 0
    BY DEF UncountedIn
  <2>5. slab[q].using_count = Cardinality(map) - 0 /\ slab[q].free_count = Colors - slab[q].using_count
    BY <1>0, <2>4 DEF SlabsCounted
  <2> HIDE DEF map
  <2>6. slab[q].free_count = 0 <=> Cardinality(map) = Colors
    BY <2>2, <2>5, MemoryAssumption
  <2>7. slab[q].free_count = 0 <=> map = Indices
    BY <2>2, <2>3, <2>6
  <2> QED
    BY <2>7 DEF map
<1>4. slab[p].free_count # 0
  BY <1>2, <1>3
<1>5. FirstFree(c) \in Slabs(c) /\ slab[FirstFree(c)].free_count # 0
  BY <1>4, FirstFreeIs
<1> QED
  BY <1>3, <1>5
-----------------------------------------------------------------------------
(* All that holds while nobody has been preempted in a window *)

\* Nothing loaded by the running task has changed since.
LEMMA FreshWindow ==
  ASSUME Loaded, NoneHit, NEW t \in Callers, memory_pc[t] \in Windows
  PROVE  Fresh(t)
BY DEF Loaded, NoneHit

\* Steps that change no page, slab or counter, and the last step of kmalloc_create
\* before the slab is linked.
LEMMA QuietRoom ==
  ASSUME Types, PagesApart, NewAreEmpty, SlabsCounted, TotalsCounted, Undisturbed', NoneHit', NEW t \in Callers,
         \/ \E c \in Caches : Kmalloc(t, c)
         \/ \E a \in held : Kfree(t, a)
         \/ Choose(t) \/ FindPage(t) \/ Test(t) \/ Got(t) \/ GotStruct(t) \/ FindSlab(t)
         \/ LoadBits(t) \/ KfreeReturns(t)
  PROVE  TotalsCounted' /\ ChosenHasRoom'
<1>0. MemoryAlive'
  BY DEF NoneHit, MemoryAlive
<1>1. pageVars' = pageVars /\ cacheVars' = cacheVars
  BY <1>0, QuietMoves
<1>2. PICK from \in QuietPCs, to \in QuietPCs : Moved(t, from, to) /\ (to = "test" => Choose(t))
  BY <1>0, QuietMoves
<1>3. /\ from \notin {"count", "uncount"} /\ to \notin {"count", "uncount"}
      /\ total_free' = total_free /\ total_using' = total_using
      /\ \A c \in Caches : Slabs(c)' = Slabs(c)
      /\ \A p \in InSlabs : slab'[p].color_map = slab[p].color_map
      /\ page_free_count' = Cardinality(Pages \ bits_map')
  BY <1>1, <1>2 DEF QuietPCs, pageVars, cacheVars, Slabs, TotalsCounted
<1>4. TotalsCounted'
  BY <1>2, <1>3, TotalsSame
<1>5. ASSUME to = "test" PROVE slab'[loc'[t].page].color_map # Indices
  <2>1. PICK c : c = loc[t].cache
    OBVIOUS
  <2>2. c \in Caches /\ slab' = slab
    BY <1>1, <2>1 DEF Types, LocType, cacheVars
  <2>3. total_free[c] # 0 /\ loc'[t].page = FirstFree(c) /\ memory_pc[t] = "choose" /\ current = t
    BY <1>2, <1>5, <2>1, ChooseStep DEF Moved
  <2>4. Uncounted(current) = 0
    BY <2>3 DEF Uncounted
  <2>5. slab[FirstFree(c)].color_map # Indices
    BY <2>2, <2>3, <2>4, ChosenIs
  <2> QED
    BY <2>2, <2>3, <2>5
<1> QED
  BY <1>2, <1>4, <1>5, RoomKept

\* Steps that take or give back a page or a slab.
LEMMA PageRoom ==
  ASSUME Types, Loaded, PagesApart, NewAreEmpty, Emptied, TotalsCounted, NoneHit, Undisturbed', NoneHit', NEW t \in Callers,
         MarkPage(t) \/ Link(t) \/ GotMap(t) \/ Unlink(t) \/ FreePage(t)
  PROVE  TotalsCounted' /\ ChosenHasRoom'
<1>0. MemoryAlive'
  BY DEF NoneHit, MemoryAlive
<1>1. ASSUME MarkPage(t) PROVE TotalsCounted' /\ ChosenHasRoom'
  <2>1. Fresh(t)
    BY <1>1, FreshWindow DEF MarkPage, At, Windows
  <2>2. TotalsCounted'
    BY <1>0, <1>1, <2>1, MarkPageTotals
  <2>3. PICK to \in {"link", "choose"} : Moved(t, "mark", to)
    BY <1>1, MarkPageStep
  <2> QED
    BY <2>2, <2>3, RoomKept
<1>2. ASSUME Link(t) PROVE TotalsCounted' /\ ChosenHasRoom'
  <2>1. Fresh(t)
    BY <1>2, FreshWindow DEF Link, At, Windows
  <2>2. TotalsCounted'
    BY <1>2, <2>1, LinkTotals
  <2>3. Moved(t, "link", "test") /\ slab' = slab /\ loc'[t].page = loc[t].page /\ memory_pc[t] = "link"
    BY <1>2, LinkStep DEF Moved
  <2>4. slab[loc[t].page].color_map = {}
    BY <2>3 DEF NewAreEmpty
  <2>5. slab'[loc'[t].page].color_map # Indices
    BY <2>3, <2>4, Apart
  <2> QED
    BY <2>2, <2>3, <2>5, RoomKept
<1>3. ASSUME GotMap(t) PROVE TotalsCounted' /\ ChosenHasRoom'
  <2>1. /\ Moved(t, "got", "link") /\ pool' = pool /\ UNCHANGED <<pageVars, total_free, total_using>>
        /\ \A p \in AllPages \ {loc[t].big} : slab'[p] = slab[p]
    BY <1>0, <1>3, GotMapStep DEF Fails, MemoryAlive
  <2>2. loc[t].big \notin InSlabs
    BY <1>0, <1>3, GotMapPages DEF PagesApart
  <2>3. /\ \A c \in Caches : Slabs(c)' = Slabs(c)
        /\ page_free_count' = Cardinality(Pages \ bits_map')
    BY <2>1 DEF Slabs, pageVars, TotalsCounted
  <2>4. \A p \in InSlabs : slab'[p].color_map = slab[p].color_map
    BY <2>1, <2>2, Apart DEF Types, InSlabs, Caches
  <2>5. TotalsCounted'
    BY <2>1, <2>3, <2>4, TotalsSame
  <2> QED
    BY <2>1, <2>5, RoomKept
<1>4. ASSUME Unlink(t) PROVE TotalsCounted' /\ ChosenHasRoom'
  <2>1. Fresh(t) /\ slab[loc[t].page].color_map = {}
    BY <1>4, FreshWindow DEF Unlink, At, Windows, Emptied
  <2>2. TotalsCounted'
    BY <1>0, <1>4, <2>1, UnlinkTotals
  <2>3. PICK to \in {"clean", "kfree"} : Moved(t, "unlink", to)
    BY <1>0, <1>4, UnlinkStep DEF Fails, MemoryAlive
  <2> QED
    BY <2>2, <2>3, RoomKept
<1>5. ASSUME FreePage(t) PROVE TotalsCounted' /\ ChosenHasRoom'
  <2>1. Fresh(t)
    BY <1>5, FreshWindow DEF FreePage, At, Windows
  <2>2. TotalsCounted'
    BY <1>5, <2>1, FreePageTotals
  <2>3. PICK to \in {"freed", "kfree"} : Moved(t, "release", to)
    BY <1>5, FreePageStep
  <2> QED
    BY <2>2, <2>3, RoomKept
<1> QED
  BY <1>1, <1>2, <1>3, <1>4, <1>5

\* Steps that take, free and count an object.
LEMMA ObjectRoom ==
  ASSUME Types, Loaded, PagesApart, BitsInv, TotalsCounted, NoneHit, Undisturbed', NoneHit', NEW t \in Callers,
         Set(t) \/ Count(t) \/ Flip(t) \/ Uncount(t)
  PROVE  TotalsCounted' /\ ChosenHasRoom'
<1>0. MemoryAlive' /\ \A from, how : Fails(t, from, how) => how = "none"
  BY DEF NoneHit, MemoryAlive, Fails
<1>1. Fresh(t)
  BY FreshWindow DEF Windows, Set, Count, Flip, Uncount, At
<1>2. InSlabs \subseteq AllPages
  BY Apart DEF Types, InSlabs, Caches
<1>3. ASSUME Set(t) PROVE TotalsCounted' /\ ChosenHasRoom'
  <2> DEFINE p == loc[t].page
             j == loc[t].address[2]
             k == loc[t].cache
  <2>1. /\ Moved(t, "set", "count") /\ pool' = pool /\ total_free' = total_free /\ total_using' = total_using
        /\ page_free_count' = page_free_count /\ bits_map' = bits_map
        /\ Linked(loc[t]) /\ p \in AllPages /\ loc'[t].cache = k
        /\ slab'[p] = [slab[p] EXCEPT !.color_map = loc[t].word \cup {j}]
        /\ \A r \in AllPages \ {p} : slab'[r] = slab[r]
    BY <1>0, <1>3, SetStep DEF pageVars
  <2>2. memory_pc[t] = "set" /\ loc[t].word = slab[p].color_map /\ j \notin loc[t].word
    BY <1>1, <2>1 DEF Moved, Fresh
  <2>3. slab[p] \in SlabType /\ loc[t] \in LocType
    BY <2>1 DEF Types
  <2>4. slab'[p].color_map = slab[p].color_map \cup {j} /\ j \notin slab[p].color_map
    BY <2>1, <2>2, <2>3 DEF SlabType
  <2>5. loc[t].address \in Addresses
    BY <2>2 DEF Types, LocFits
  <2>6. j \in Indices /\ k \in Caches /\ p \in Slabs(k)
    BY <2>1, <2>3, <2>5, Apart DEF LocType, Linked
  <2>7. \A q \in InSlabs : q # p => slab'[q] = slab[q]
    BY <1>2, <2>1
  <2> HIDE DEF p, j, k
  <2>8. /\ Moved(t, "set", "count") /\ pool' = pool /\ total_free' = total_free /\ total_using' = total_using
        /\ page_free_count' = page_free_count /\ bits_map' = bits_map /\ loc'[t].cache = k
    BY <2>1
  <2>9. TotalsCounted'
    BY <2>4, <2>6, <2>7, <2>8, TotalsLate
  <2> QED
    BY <2>8, <2>9, RoomKept
<1>4. ASSUME Flip(t) PROVE TotalsCounted' /\ ChosenHasRoom'
  <2> DEFINE p == loc[t].page
             j == loc[t].address[2]
             k == loc'[t].cache
  <2>1. j \in slab[p].color_map /\ slab'[p].color_map = slab[p].color_map \ {j}
    BY <1>0, <1>1, <1>4, FlipOwned DEF BitsInv
  <2>2. /\ Moved(t, "flip", "uncount") /\ pool' = pool /\ total_free' = total_free /\ total_using' = total_using
        /\ page_free_count' = page_free_count /\ bits_map' = bits_map
        /\ Linked(loc[t]) /\ p \in AllPages /\ k = loc[t].cache
        /\ \A r \in AllPages \ {p} : slab'[r] = slab[r]
    BY <1>0, <1>4, FlipStep DEF pageVars
  <2>3. slab[p] \in SlabType /\ loc[t] \in LocType
    BY <2>2 DEF Types
  <2>4. j \in Indices /\ k \in Caches /\ p \in Slabs(k)
    BY <2>1, <2>2, <2>3 DEF LocType, Linked, SlabType
  <2>5. \A q \in InSlabs : q # p => slab'[q] = slab[q]
    BY <1>2, <2>2
  <2>6. loc'[t].cache = k
    OBVIOUS
  <2> HIDE DEF p, j, k
  <2>7. TotalsCounted'
    BY <2>1, <2>2, <2>4, <2>5, <2>6, TotalsLate
  <2> QED
    BY <2>2, <2>7, RoomKept
<1>5. ASSUME Count(t) PROVE TotalsCounted' /\ ChosenHasRoom'
  <2>1. /\ Moved(t, "count", "got") /\ pool' = pool /\ Linked(loc[t]) /\ StoreCounters(loc[t], 1)
        /\ page_free_count' = page_free_count /\ bits_map' = bits_map
    BY <1>0, <1>5, CountStep DEF pageVars
  <2>2. StoreCounters(loc[t], IF "count" = "count" THEN 1 ELSE -1)
    BY <2>1
  <2>3. TotalsCounted'
    BY <1>1, <2>1, <2>2, TotalsNow
  <2> QED
    BY <2>1, <2>3, RoomKept
<1>6. ASSUME Uncount(t) PROVE TotalsCounted' /\ ChosenHasRoom'
  <2>1. /\ pool' = pool /\ Linked(loc[t]) /\ StoreCounters(loc[t], -1)
        /\ page_free_count' = page_free_count /\ bits_map' = bits_map
    BY <1>0, <1>6, UncountStep DEF pageVars
  <2>2. PICK to \in {"freed", "unlink"} : Moved(t, "uncount", to)
    BY <1>0, <1>6, UncountStep
  <2>3. StoreCounters(loc[t], IF "uncount" = "count" THEN 1 ELSE -1)
    BY <2>1
  <2>4. TotalsCounted'
    BY <1>1, <2>1, <2>2, <2>3, TotalsNow
  <2> QED
    BY <2>2, <2>4, RoomKept
<1> QED
  BY <1>3, <1>4, <1>5, <1>6

\* Where pages, slabs and counters stay as they are.
LEMMA TotalsStay ==
  ASSUME TotalsCounted, UNCHANGED <<pageVars, cacheVars>>, \A c : UncountedOf(c)' = UncountedOf(c)
  PROVE  TotalsCounted'
<1>1. ASSUME NEW c \in Caches
      PROVE  Objects(c)' = Objects(c) /\ Taken(c)' = Taken(c)
  <2>1. Slabs(c)' = Slabs(c) /\ slab' = slab
    BY DEF Slabs, cacheVars
  <2> QED
    BY <2>1, ObjectsSame
<1>2. UNCHANGED <<total_free, total_using, page_free_count, bits_map>>
  BY DEF pageVars, cacheVars
<1> QED
  BY <1>1, <1>2 DEF TotalsCounted

\* Another task goes on, between calls.
LEMMA PreemptRoom ==
  ASSUME Types, Undisturbed, TotalsCounted, ChosenHasRoom, NEW t \in Callers, Preempt(t), NoneHit'
  PROVE  TotalsCounted' /\ ChosenHasRoom'
<1>1. /\ UNCHANGED <<pageVars, cacheVars, memory_pc, loc>> /\ t # current /\ current' = t /\ current \in Callers
      /\ memory_hit' = memory_hit \cup ({memory_pc[current]} \cap Windows) /\ memory_hit' = {}
  BY PreemptStep DEF NoneHit
<1>2. \A u \in Callers : memory_pc[u] \notin Windows
  BY <1>1 DEF Undisturbed
<1>3. Uncounted(current) = 0 /\ Uncounted(current)' = 0
  BY <1>1, <1>2 DEF Uncounted, Windows
<1>4. \A c : UncountedOf(c)' = UncountedOf(c)
  BY <1>3 DEF UncountedOf
<1>5. TotalsCounted'
  BY <1>1, <1>4, TotalsStay
<1>6. ChosenHasRoom'
  BY <1>1, <1>2 DEF ChosenHasRoom, Windows
<1> QED
  BY <1>5, <1>6
-----------------------------------------------------------------------------
(* What goes wrong, and after what *)

\* No message is taken back, and who gets NULL has had one printed.
LEMMA ToldKept ==
  ASSUME Told, failed \subseteq failed', NEW t \in Callers, NEW from, NEW to, Moved(t, from, to),
         to = "got" /\ loc'[t].address = NoAddress => failed' \cap {"no page", "no memory"} # {}
  PROVE  Told'
<1> SUFFICES ASSUME NEW u \in Callers, memory_pc'[u] = "got", loc'[u].address = NoAddress
             PROVE  failed' \cap {"no page", "no memory"} # {}
  BY DEF Told
<1>1. CASE u = t
  BY <1>1 DEF Moved
<1>2. CASE u # t
  BY <1>2 DEF Moved, Told
<1> QED
  BY <1>1, <1>2

\* A step that goes wrong in no way.
LEMMA NothingWrong ==
  ASSUME FaultsByWindow, memory_fault' = "none", failed' \subseteq failed \cup {"no page"}, memory_hit \subseteq memory_hit'
  PROVE  FaultsByWindow'
BY DEF FaultsByWindow

\* What each part of the invariant gives while its preemptions have not happened.
LEMMA Holds ==
  ASSUME MemoryInv, MemoryAlive
  PROVE  /\ Types /\ Undisturbed /\ Told /\ FaultsByWindow /\ Loaded /\ memory_fault = "none"
         /\ memory_hit \cap {"mark", "release"} = {} => PagesApart /\ NewAreEmpty
         /\ memory_hit \cap LosesBits = {} => BitsInv /\ PagesApart /\ NewAreEmpty
         /\ memory_hit = {} => TotalsCounted /\ ChosenHasRoom
BY DEF MemoryInv, MemoryAlive, PagesKept, BitsKept, NoneHit, LosesBits

\* These steps say nothing and break nothing.
LEMMA SilentFaults ==
  ASSUME MemoryInv, NEW t \in Callers,
         \/ \E c \in Caches : Kmalloc(t, c)
         \/ \E a \in held : Kfree(t, a)
         \/ Choose(t) \/ LoadBits(t) \/ KfreeReturns(t) \/ FreePage(t)
  PROVE  Told' /\ FaultsByWindow'
<1>1. Types /\ Told /\ FaultsByWindow
  BY DEF MemoryInv
<1> DEFINE Silent(from, to) == Moved(t, from, to) /\ memory_fault' = memory_fault /\ failed' = failed
<1>2. ASSUME NEW c \in Caches, Kmalloc(t, c) PROVE Silent("run", "choose")
  BY <1>1, <1>2, KmallocStep
<1>3. ASSUME NEW a \in held, Kfree(t, a) PROVE Silent("run", "kfree")
  BY <1>1, <1>3, KfreeStep
<1>4. ASSUME Choose(t) PROVE Silent("choose", "find") \/ Silent("choose", "test")
  BY <1>1, <1>4, ChooseStep
<1>5. ASSUME LoadBits(t) PROVE Silent("clean", "release")
  BY <1>1, <1>5, LoadBitsStep
<1>6. ASSUME KfreeReturns(t) PROVE Silent("freed", "clean") \/ Silent("freed", "run")
  BY <1>1, <1>6, KfreeReturnsStep
<1>7. ASSUME FreePage(t) PROVE Silent("release", "freed") \/ Silent("release", "kfree")
  BY <1>1, <1>7, FreePageStep
<1>8. \E from, to : Silent(from, to) /\ to # "got"
  BY <1>2, <1>3, <1>4, <1>5, <1>6, <1>7
<1>9. PICK from, to : Silent(from, to) /\ to # "got"
  BY <1>8
<1>10. Told'
  BY <1>1, <1>9, ToldKept
<1>11. FaultsByWindow'
  BY <1>1, <1>9, NothingWrong DEF Moved, MemoryAlive
<1> QED
  BY <1>10, <1>11

\* alloc_pages may find no page; the page it gives is no slab's, unless a preemption
\* has made two tasks mark it or has undone the marking of another.
LEMMA PageFaults ==
  ASSUME MemoryInv, NEW t \in Callers, FindPage(t) \/ MarkPage(t) \/ Link(t)
  PROVE  Told' /\ FaultsByWindow'
<1>1. MemoryAlive
  BY DEF FindPage, MarkPage, Link, At
<1>2. Types /\ Told /\ FaultsByWindow /\ memory_fault = "none" /\ Loaded
  BY <1>1, Holds
<1>3. ASSUME FindPage(t) PROVE Told' /\ FaultsByWindow'
  <2>1. PICK to : /\ Moved(t, "find", to) /\ memory_fault' = "none"
                  /\ \/ to = "got" /\ failed' = failed \cup {"no page"}
                     \/ to = "mark" /\ failed' = failed
    BY <1>2, <1>3, FindPageStep DEF Says
  <2>2. Told'
    BY <1>2, <2>1, ToldKept
  <2> QED
    BY <1>2, <2>1, <2>2, NothingWrong DEF Moved
<1>4. ASSUME MarkPage(t) \/ Link(t) PROVE Told' /\ FaultsByWindow'
  <2>1. PICK from \in {"mark", "link"}, to \in {"link", "choose", "test"} :
          /\ Moved(t, from, to) /\ failed' = failed /\ loc[t].page \in Pages
          /\ memory_fault' = IF loc[t].page \in InSlabs THEN "page_shared" ELSE "none"
    <3>1. CASE MarkPage(t)
      BY <1>2, <3>1, MarkPageStep
    <3>2. CASE Link(t)
      BY <1>2, <3>2, LinkStep
    <3> QED
      BY <1>4, <3>1, <3>2
  <2>2. Told'
    BY <1>2, <2>1, ToldKept
  <2>3. ASSUME memory_hit \cap {"mark", "release"} = {} PROVE loc[t].page \notin InSlabs
    <3>1. PagesApart
      BY <1>1, <2>3, Holds
    <3>2. CASE from = "mark"
      <4>1. memory_pc[t] \in Windows \ memory_hit /\ memory_pc[t] = "mark"
        BY <2>1, <2>3, <3>2 DEF Moved, Windows
      <4>2. loc[t].page \notin bits_map
        BY <1>2, <4>1 DEF Loaded, Fresh
      <4> QED
        BY <2>1, <3>1, <4>2 DEF PagesApart
    <3>3. CASE from = "link"
      <4>1. loc[t].page \in Hold(t)
        BY <2>1, <3>3 DEF Moved, Hold, HasPage
      <4> QED
        BY <3>1, <4>1 DEF PagesApart
    <3> QED
      BY <3>2, <3>3
  <2>4. FaultsByWindow'
    <3>1. memory_hit' = memory_hit
      BY <2>1 DEF Moved
    <3> QED
      BY <1>2, <2>1, <2>3, <3>1 DEF FaultsByWindow
  <2> QED
    BY <2>2, <2>4
<1> QED
  BY <1>3, <1>4

\* The slab that a step works on is still in its list, unless the task has been
\* preempted before this very step.
LEMMA StillLinked ==
  ASSUME MemoryInv, NEW t \in Callers, NEW from \in {"test", "set", "count", "flip", "uncount", "unlink"},
         NEW how, Fails(t, from, how), ~Linked(loc[t])
  PROVE  from \in memory_hit
<1>1. MemoryAlive /\ memory_pc[t] = from
  BY DEF Fails
<1>2. Loaded
  BY <1>1, Holds
<1> QED
  BY <1>1, <1>2 DEF Loaded, Fresh, Windows

\* The steps on an object, and the end of a slab.
LEMMA ObjectFaults ==
  ASSUME MemoryInv, NEW t \in Callers,
         Test(t) \/ Set(t) \/ Count(t) \/ Flip(t) \/ Uncount(t) \/ Unlink(t)
  PROVE  Told' /\ FaultsByWindow'
<1>1. MemoryAlive
  BY DEF Test, Set, Count, Flip, Uncount, Unlink, At
<1>2. Types /\ Told /\ FaultsByWindow /\ memory_fault = "none" /\ Loaded
  BY <1>1, Holds
<1>3. ASSUME NEW from \in {"test", "set", "count", "flip", "uncount", "unlink"},
             Fails(t, from, "use_after_free"), ~Linked(loc[t])
      PROVE  Told' /\ FaultsByWindow'
  <2>1. from \in memory_hit /\ memory_hit' = memory_hit /\ failed' = failed /\ memory_pc' = memory_pc /\ loc' = loc /\ memory_fault' = "use_after_free"
    BY <1>3, StillLinked DEF Fails
  <2>2. memory_hit \cap (LosesBits \cup {"test"}) # {}
    BY <2>1 DEF LosesBits, LosesCounts
  <2> QED
    BY <1>2, <2>1, <2>2 DEF Told, FaultsByWindow
<1>4. ASSUME NEW from, NEW to, Moved(t, from, to), memory_fault' = memory_fault, failed' = failed,
             to = "got" => loc'[t].address # NoAddress
      PROVE  Told' /\ FaultsByWindow'
  <2>1. Told'
    BY <1>2, <1>4, ToldKept
  <2> QED
    BY <1>2, <1>4, <2>1, NothingWrong DEF Moved
<1>5. ASSUME Test(t) PROVE Told' /\ FaultsByWindow'
  <2>1. CASE Fails(t, "test", "use_after_free") /\ ~Linked(loc[t])
    BY <1>3, <2>1
  <2>2. CASE Moved(t, "test", "set") /\ memory_fault' = memory_fault /\ failed' = failed
    BY <1>4, <2>2
  <2>3. CASE /\ Moved(t, "test", "got") /\ memory_fault' = memory_fault /\ slab[loc[t].page].color_map = Indices
             /\ Says("no memory")
    <3>1. failed' = failed \cup {"no memory"} /\ memory_hit' = memory_hit /\ memory_pc[t] = "test"
      BY <2>3 DEF Says, Moved
    <3>2. memory_hit # {}
      BY <1>1, <2>3, <3>1, Holds DEF ChosenHasRoom
    <3>3. Told'
      BY <1>2, <2>3, <3>1, ToldKept
    <3>4. FaultsByWindow'
      BY <1>2, <2>3, <3>1, <3>2 DEF FaultsByWindow
    <3> QED
      BY <3>3, <3>4
  <2> QED
    BY <1>2, <1>5, <2>1, <2>2, <2>3, TestStep
<1>6. ASSUME Set(t) PROVE Told' /\ FaultsByWindow'
  <2>1. CASE Fails(t, "set", "use_after_free") /\ ~Linked(loc[t])
    BY <1>3, <2>1
  <2>2. CASE Moved(t, "set", "count") /\ memory_fault' = memory_fault /\ failed' = failed
    BY <1>4, <2>2
  <2> QED
    BY <1>2, <1>6, <2>1, <2>2, SetStep
<1>7. ASSUME Count(t) PROVE Told' /\ FaultsByWindow'
  <2>1. CASE Fails(t, "count", "use_after_free") /\ ~Linked(loc[t])
    BY <1>3, <2>1
  <2>2. CASE Moved(t, "count", "got") /\ memory_fault' = memory_fault /\ failed' = failed /\ loc'[t].address = loc[t].address
    <3>1. loc[t].address \in Addresses
      BY <1>2, <2>2 DEF Types, LocFits, Moved
    <3>2. loc'[t].address # NoAddress
      BY <2>2, <3>1, Apart
    <3> QED
      BY <1>4, <2>2, <3>2
  <2> QED
    BY <1>2, <1>7, <2>1, <2>2, CountStep
<1>8. ASSUME Flip(t) PROVE Told' /\ FaultsByWindow'
  <2>1. CASE Fails(t, "flip", "use_after_free") /\ ~Linked(loc[t])
    BY <1>3, <2>1
  <2>2. CASE Moved(t, "flip", "uncount") /\ memory_fault' = memory_fault /\ failed' = failed
    BY <1>4, <2>2
  <2> QED
    BY <1>2, <1>8, <2>1, <2>2, FlipStep
<1>9. ASSUME Uncount(t) PROVE Told' /\ FaultsByWindow'
  <2>1. CASE Fails(t, "uncount", "use_after_free") /\ ~Linked(loc[t])
    BY <1>3, <2>1
  <2>2. ASSUME NEW to \in {"freed", "unlink"}, Moved(t, "uncount", to), memory_fault' = memory_fault, failed' = failed
        PROVE  Told' /\ FaultsByWindow'
    BY <1>4, <2>2
  <2> QED
    BY <1>2, <1>9, <2>1, <2>2, UncountStep
<1>10. ASSUME Unlink(t) PROVE Told' /\ FaultsByWindow'
  <2>1. CASE Fails(t, "unlink", "use_after_free") /\ ~Linked(loc[t])
    BY <1>3, <2>1
  <2>2. ASSUME NEW to \in {"clean", "kfree"}, Moved(t, "unlink", to), memory_fault' = memory_fault, failed' = failed
        PROVE  Told' /\ FaultsByWindow'
    BY <1>4, <2>2
  <2> QED
    BY <1>2, <1>10, <2>1, <2>2, UnlinkStep
<1> QED
  BY <1>5, <1>6, <1>7, <1>8, <1>9, <1>10

\* What kmalloc gives back, and the search of kfree.
LEMMA ReturnFaults ==
  ASSUME MemoryInv, NEW t \in Callers, Got(t) \/ GotStruct(t) \/ GotMap(t) \/ FindSlab(t)
  PROVE  Told' /\ FaultsByWindow'
<1>1. MemoryAlive
  BY DEF Got, GotStruct, GotMap, FindSlab, At
<1>2. Types /\ Told /\ FaultsByWindow /\ memory_fault = "none"
  BY <1>1, Holds
<1>3. ASSUME NEW from, NEW to, Moved(t, from, to), memory_fault' = memory_fault, failed' = failed, to # "got"
      PROVE  Told' /\ FaultsByWindow'
  <2>1. Told'
    BY <1>2, <1>3, ToldKept
  <2> QED
    BY <1>2, <1>3, <2>1, NothingWrong DEF Moved
<1>4. ASSUME Got(t) PROVE Told' /\ FaultsByWindow'
  <2>1. CASE Fails(t, "got", "given_twice") /\ loc[t].address \in held
    <3>1. /\ memory_pc[t] = "got" /\ memory_hit' = memory_hit /\ failed' = failed /\ memory_pc' = memory_pc /\ loc' = loc /\ memory_fault' = "given_twice"
      BY <2>1 DEF Fails
    <3>2. memory_hit \cap LosesBits # {}
      <4>1. SUFFICES ASSUME memory_hit \cap LosesBits = {} PROVE FALSE
        OBVIOUS
      <4>2. Owned(Claims, ObjectsInUse)
        BY <1>1, <4>1, Holds DEF BitsInv
      <4>3. OfCall(t) = loc[t].address /\ OfCall(t) # NoAddress
        BY <1>2, <2>1, <3>1, Apart DEF OfCall, Types, MemoryTypeOK
      <4> QED
        BY <1>2, <2>1, <4>2, <4>3, CallApart
    <3> QED
      BY <1>2, <3>1, <3>2 DEF Told, FaultsByWindow
  <2>2. CASE Moved(t, "got", "run") /\ memory_fault' = memory_fault /\ failed' = failed
    BY <1>3, <2>2
  <2> QED
    BY <1>2, <1>4, <2>1, <2>2, GotStep
<1>5. ASSUME Fails(t, "got", "null_deref"), loc[t].address = NoAddress
      PROVE  Told' /\ FaultsByWindow'
  <2>1. /\ memory_pc[t] = "got" /\ memory_hit' = memory_hit /\ failed' = failed /\ memory_pc' = memory_pc /\ loc' = loc /\ memory_fault' = "null_deref"
    BY <1>5 DEF Fails
  <2>2. "no page" \in failed \/ "no memory" \in failed
    BY <1>2, <1>5, <2>1 DEF Told
  <2> QED
    BY <1>2, <2>1, <2>2 DEF Told, FaultsByWindow
<1>6. ASSUME GotStruct(t) PROVE Told' /\ FaultsByWindow'
  <2>1. CASE Moved(t, "got", "choose") /\ memory_fault' = memory_fault /\ failed' = failed
    BY <1>3, <2>1
  <2> QED
    BY <1>2, <1>5, <1>6, <2>1, GotStructStep
<1>7. ASSUME GotMap(t) PROVE Told' /\ FaultsByWindow'
  <2>1. CASE Moved(t, "got", "link") /\ memory_fault' = memory_fault /\ failed' = failed
    BY <1>3, <2>1
  <2> QED
    BY <1>2, <1>5, <1>7, <2>1, GotMapStep
<1>8. ASSUME FindSlab(t) PROVE Told' /\ FaultsByWindow'
  <2>1. CASE Moved(t, "kfree", "flip") /\ memory_fault' = memory_fault /\ failed' = failed
    BY <1>3, <2>1
  <2>2. CASE Moved(t, "kfree", "freed") /\ memory_fault' = memory_fault /\ Says("cannot free")
    <3>1. failed' = failed \cup {"cannot free"} /\ memory_hit' = memory_hit
      BY <2>2 DEF Says, Moved
    <3>2. ASSUME memory_hit \cap LosesBits = {} PROVE failed' = failed
      <4>1. PagesApart /\ Owned(Claims, ObjectsInUse) /\ PartsSmall
        BY <1>1, <3>2, Holds DEF BitsInv
      <4> QED
        BY <1>2, <1>8, <4>1, FindSlabOwned
    <3>3. Told'
      BY <1>2, <2>2, <3>1, ToldKept
    <3>4. FaultsByWindow'
      BY <1>2, <2>2, <3>1, <3>2 DEF FaultsByWindow
    <3> QED
      BY <3>3, <3>4
  <2> QED
    BY <1>2, <1>8, <2>1, <2>2, FindSlabStep
<1> QED
  BY <1>4, <1>6, <1>7, <1>8
-----------------------------------------------------------------------------
(* The invariant *)

\* A call of kmalloc or kfree, or a step of one, keeps all of it.
LEMMA TaskKeeps ==
  ASSUME MemoryInv, NEW t \in Callers, Call(t) \/ Step(t)
  PROVE  MemoryInv'
<1> DEFINE Quiet == \/ \E c \in Caches : Kmalloc(t, c)
                    \/ \E a \in held : Kfree(t, a)
                    \/ Choose(t) \/ FindPage(t) \/ Test(t) \/ Got(t) \/ GotStruct(t) \/ FindSlab(t)
                    \/ LoadBits(t) \/ KfreeReturns(t)
           Paged == MarkPage(t) \/ Link(t) \/ GotMap(t) \/ Unlink(t) \/ FreePage(t)
           Object == Set(t) \/ Count(t) \/ Flip(t) \/ Uncount(t)
<1>1. Quiet \/ Paged \/ Object
  BY DEF Call, Step
<1>2. MemoryAlive /\ memory_hit' = memory_hit
  <2>1. CASE Quiet
    BY <2>1 DEF Kmalloc, Kfree, Choose, FindPage, Test, Got, GotStruct, FindSlab, LoadBits, KfreeReturns, At
  <2>2. CASE Paged
    BY <2>2 DEF MarkPage, Link, GotMap, Unlink, FreePage, At
  <2>3. CASE Object
    BY <2>3 DEF Set, Count, Flip, Uncount, At
  <2> QED
    BY <1>1, <2>1, <2>2, <2>3
<1>3. /\ Types /\ Undisturbed /\ Loaded /\ memory_fault = "none"
      /\ memory_hit \cap {"mark", "release"} = {} => PagesApart /\ NewAreEmpty
      /\ memory_hit \cap LosesBits = {} => BitsInv /\ PagesApart /\ NewAreEmpty
      /\ memory_hit = {} => TotalsCounted /\ ChosenHasRoom
  BY <1>2, Holds
<1>4. Types'
  <2>1. CASE Quiet
    BY <1>3, <2>1, KmallocStep, KfreeStep, ChooseStep, FindPageStep, TestStep, GotStep, GotStructStep,
       FindSlabStep, LoadBitsStep, KfreeReturnsStep
  <2>2. CASE Paged
    BY <1>3, <2>2, MarkPageStep, LinkStep, GotMapStep, UnlinkStep, FreePageStep
  <2>3. CASE Object
    BY <1>3, <2>3, SetStep, CountStep, FlipStep, UncountStep
  <2> QED
    BY <1>1, <2>1, <2>2, <2>3
<1>5. Undisturbed' /\ (MemoryAlive' => Loaded')
  <2>1. CASE Quiet
    BY <1>3, <2>1, AllocLoaded, ObjectLoaded, FreeLoaded
  <2>2. CASE Paged
    BY <1>3, <2>2, AllocLoaded, FreeLoaded
  <2>3. CASE Object
    BY <1>3, <2>3, ObjectLoaded
  <2> QED
    BY <1>1, <2>1, <2>2, <2>3
<1>6. Told' /\ FaultsByWindow'
  <2>1. CASE Quiet
    BY <2>1, SilentFaults, PageFaults, ObjectFaults, ReturnFaults
  <2>2. CASE Paged
    BY <2>2, SilentFaults, PageFaults, ObjectFaults, ReturnFaults
  <2>3. CASE Object
    BY <2>3, ObjectFaults
  <2> QED
    BY <1>1, <2>1, <2>2, <2>3
<1>7. ASSUME PagesKept' PROVE PagesApart' /\ NewAreEmpty'
  <2>1. MemoryAlive' /\ PagesApart /\ NewAreEmpty /\ memory_hit \cap {"mark", "release"} = {}
    BY <1>2, <1>3, <1>7 DEF PagesKept
  <2>2. CASE Quiet
    BY <1>3, <2>1, <2>2, QuietPages
  <2>3. CASE Paged
    <3>1. CASE MarkPage(t)
      <4>1. Fresh(t)
        BY <1>3, <2>1, <3>1 DEF Loaded, MarkPage, At, Windows
      <4> QED
        BY <1>3, <2>1, <3>1, <4>1, MarkPagePages
    <3>2. CASE Link(t)
      BY <1>3, <2>1, <3>2, LinkPages
    <3>3. CASE GotMap(t)
      BY <1>3, <2>1, <3>3, GotMapPages
    <3>4. CASE Unlink(t)
      BY <1>3, <2>1, <3>4, UnlinkPages
    <3>5. CASE FreePage(t)
      <4>1. Fresh(t)
        BY <1>3, <2>1, <3>5 DEF Loaded, FreePage, At, Windows
      <4> QED
        BY <1>3, <2>1, <3>5, <4>1, FreePagePages
    <3> QED
      BY <2>3, <3>1, <3>2, <3>3, <3>4, <3>5
  <2>4. CASE Object
    BY <1>3, <2>1, <2>4, ObjectPages
  <2> QED
    BY <1>1, <2>2, <2>3, <2>4
<1>8. ASSUME BitsKept' PROVE BitsInv'
  <2>1. BitsKept /\ BitsInv /\ PagesApart /\ NewAreEmpty
    BY <1>2, <1>3, <1>8 DEF BitsKept
  <2>2. CASE Quiet
    BY <1>3, <1>5, <1>8, <2>1, <2>2, QuietBits
  <2>3. CASE Paged
    BY <1>3, <1>5, <1>8, <2>1, <2>3, PageBits
  <2>4. CASE Object
    BY <1>3, <1>5, <1>8, <2>1, <2>4, ObjectBits
  <2> QED
    BY <1>1, <2>2, <2>3, <2>4
<1>9. ASSUME NoneHit' PROVE TotalsCounted' /\ ChosenHasRoom'
  <2>1. NoneHit /\ BitsInv /\ PagesApart /\ NewAreEmpty /\ TotalsCounted
    BY <1>2, <1>3, <1>9 DEF NoneHit
  <2>2. SlabsCounted /\ Emptied
    BY <2>1 DEF BitsInv
  <2>3. CASE Quiet
    BY <1>3, <1>5, <1>9, <2>1, <2>2, <2>3, QuietRoom
  <2>4. CASE Paged
    BY <1>3, <1>5, <1>9, <2>1, <2>2, <2>4, PageRoom
  <2>5. CASE Object
    BY <1>3, <1>5, <1>9, <2>1, <2>5, ObjectRoom
  <2> QED
    BY <1>1, <2>3, <2>4, <2>5
<1> HIDE DEF Quiet, Paged, Object
<1> QED
  BY <1>4, <1>5, <1>6, <1>7, <1>8, <1>9 DEF MemoryInv

\* So does another task's going on.
LEMMA PreemptKeeps ==
  ASSUME MemoryInv, NEW t \in Callers, Preempt(t)
  PROVE  MemoryInv'
<1>1. MemoryAlive
  BY DEF Preempt
<1>2. /\ Types /\ Undisturbed /\ Told /\ FaultsByWindow /\ Loaded /\ memory_fault = "none"
      /\ memory_hit \cap {"mark", "release"} = {} => PagesApart /\ NewAreEmpty
      /\ memory_hit \cap LosesBits = {} => BitsInv /\ PagesApart /\ NewAreEmpty
      /\ memory_hit = {} => TotalsCounted /\ ChosenHasRoom
  BY <1>1, Holds
<1>3. /\ Types' /\ UNCHANGED <<pageVars, cacheVars, memory_pc, loc, held, memory_fault, failed>>
      /\ memory_hit \subseteq memory_hit'
  BY <1>2, PreemptStep
<1>4. Undisturbed' /\ Loaded'
  BY <1>2, PreemptLoaded
<1>5. Told' /\ FaultsByWindow'
  BY <1>2, <1>3, NothingWrong DEF Told
<1>6. ASSUME PagesKept' PROVE PagesApart' /\ NewAreEmpty'
  <2>1. PagesApart /\ NewAreEmpty
    BY <1>2, <1>3, <1>6 DEF PagesKept
  <2> QED
    BY <1>3, <2>1, PreemptPages
<1>7. ASSUME BitsKept' PROVE BitsInv'
  <2>1. BitsInv
    BY <1>2, <1>3, <1>7 DEF BitsKept
  <2> QED
    BY <1>2, <1>7, <2>1, PreemptBits
<1>8. ASSUME NoneHit' PROVE TotalsCounted' /\ ChosenHasRoom'
  <2>1. TotalsCounted /\ ChosenHasRoom
    BY <1>2, <1>3, <1>8 DEF NoneHit
  <2> QED
    BY <1>2, <1>8, <2>1, PreemptRoom
<1> QED
  BY <1>3, <1>4, <1>5, <1>6, <1>7, <1>8 DEF MemoryInv

\* Every step keeps it.
LEMMA MemoryGoesOn ==
  ASSUME MemoryInv, [MemoryNext]_memoryVars
  PROVE  MemoryInv'
<1>1. CASE UNCHANGED memoryVars
  <2>1. UNCHANGED <<bits_map, page_free_count, pool, slab, total_free, total_using, current, memory_pc, loc,
                    held, memory_fault, failed, memory_hit>>
    BY <1>1 DEF memoryVars, pageVars, cacheVars
  <2>2. Types' /\ Undisturbed' /\ Told' /\ FaultsByWindow'
    <3>1. \A c \in Caches : Slabs(c)' = Slabs(c)
      BY <2>1 DEF Slabs
    <3>2. \A t \in Callers : LocFits(t)' = LocFits(t)
      BY <2>1 DEF LocFits, HasBig, HasPage
    <3>3. MemoryTypeOK'
      BY <2>1 DEF MemoryInv, Types, MemoryTypeOK
    <3>4. Types'
      BY <2>1, <3>1, <3>2, <3>3 DEF MemoryInv, Types
    <3> QED
      BY <2>1, <3>4 DEF MemoryInv, Undisturbed, Told, FaultsByWindow
  <2>3. MemoryAlive' = MemoryAlive /\ PagesKept' = PagesKept /\ BitsKept' = BitsKept /\ NoneHit' = NoneHit
    BY <2>1 DEF MemoryAlive, PagesKept, BitsKept, NoneHit
  <2>4. Loaded => Loaded'
    BY <2>1 DEF Loaded, Fresh, Linked, Slabs, Counters
  <2>5. PagesApart /\ NewAreEmpty => PagesApart' /\ NewAreEmpty'
    BY <2>1, PreemptPages DEF pageVars, cacheVars
  <2>6. /\ \A p : UncountedIn(p)' = UncountedIn(p)
        /\ \A c : UncountedOf(c)' = UncountedOf(c)
    BY <2>1 DEF UncountedIn, UncountedOf, Uncounted
  <2>7. BitsInv => BitsInv'
    BY <2>1, <2>6, BitsSame DEF MemoryInv, pageVars, cacheVars
  <2>8. TotalsCounted /\ ChosenHasRoom => TotalsCounted' /\ ChosenHasRoom'
    BY <2>1, <2>6, TotalsStay DEF ChosenHasRoom, pageVars, cacheVars
  <2> QED
    BY <2>2, <2>3, <2>4, <2>5, <2>7, <2>8 DEF MemoryInv
<1>2. CASE \E t \in Callers : Call(t) \/ Step(t) \/ Preempt(t)
  BY <1>2, TaskKeeps, PreemptKeeps
<1> QED
  BY <1>1, <1>2 DEF MemoryNext, Stopped
\* Before there are tasks, of each cache_pool the first object is taken and counted.
LEMMA FirstSlabs ==
  ASSUME MemoryInit
  PROVE  /\ \A c \in Caches : Slabs(c) = {PoolPage[c]} /\ slab[PoolPage[c]] = Booted
         /\ slab \in [AllPages -> SlabType]
         /\ \A p \in InSlabs : p \notin Pages /\ slab[p] = Booted
<1>1. \A c \in Caches : pool[c] = <<PoolPage[c]>>
  BY DEF MemoryInit
<1>2. \A c \in Caches : Slabs(c) = {PoolPage[c]}
  BY <1>1 DEF Slabs, ToSet
<1>3. \A c \in Caches : slab[PoolPage[c]] = Booted
  BY Apart DEF MemoryInit
<1>4. slab \in [AllPages -> SlabType]
  BY FirstValues DEF MemoryInit
<1>5. \A p \in InSlabs : p \notin Pages /\ slab[p] = Booted
  BY <1>2, <1>3, Apart DEF InSlabs
<1> QED
  BY <1>2, <1>3, <1>4, <1>5

\* Of a cache_pool one object is taken.
LEMMA FirstTotals ==
  ASSUME MemoryInit, NEW c \in Caches
  PROVE  Cardinality(Taken(c)) = 1 /\ Cardinality(Objects(c) \ Taken(c)) = Colors - 1
<1> DEFINE a == <<PoolPage[c], 0>>
<1>1. Objects(c) = {PoolPage[c]} \X Indices /\ \A o \in Objects(c) : slab[o[1]].color_map = {0}
  BY FirstSlabs DEF Objects, Booted
<1>2. a \in Objects(c)
  BY <1>1, Apart
<1>3. Taken(c) = {a}
  BY <1>1, <1>2 DEF Taken
<1>4. IsFiniteSet(Objects(c)) /\ Cardinality(Objects(c)) = Colors
  <2>1. IsFiniteSet({PoolPage[c]}) /\ Cardinality({PoolPage[c]}) = 1
    BY FS_Singleton
  <2>2. PICK S : S = {PoolPage[c]}
    OBVIOUS
  <2>3. IsFiniteSet(S \X Indices) /\ Cardinality(S \X Indices) = Cardinality(S) * Cardinality(Indices)
    BY <2>1, <2>2, MapSizes, FS_Product
  <2>4. Cardinality(S \X Indices) = 1 * Colors
    BY <2>1, <2>2, <2>3, MapSizes
  <2> QED
    BY <1>1, <2>2, <2>3, <2>4, MemoryAssumption
<1> HIDE DEF a
<1>5. Cardinality(Objects(c) \ {a}) = Cardinality(Objects(c)) - 1
  BY <1>2, <1>4, FS_RemoveElement
<1>6. Cardinality({a}) = 1
  BY FS_Singleton
<1> QED
  BY <1>3, <1>4, <1>5, <1>6

\* The invariant holds at first.
LEMMA MemoryStarts ==
  MemoryInit => MemoryInv
<1> SUFFICES ASSUME MemoryInit PROVE MemoryInv
  OBVIOUS
<1>1. /\ bits_map = {} /\ page_free_count = Cardinality(Pages) /\ current \in Callers
      /\ \A t \in Callers : memory_pc[t] = "run" /\ loc[t] = Unused
      /\ memory_pc \in [Callers -> PCs] /\ loc \in [Callers -> LocType]
      /\ held = {} /\ memory_fault = "none" /\ failed = {} /\ memory_hit = {}
      /\ pool = [c \in Caches |-> <<PoolPage[c]>>]
      /\ total_free = [c \in Caches |-> Colors - 1] /\ total_using = [c \in Caches |-> 1]
  BY FirstValues DEF MemoryInit, PCs
<1>2. \A t \in Callers : ~HasBig(t) /\ ~HasPage(t) /\ ~HasPart(t) /\ Hold(t) = {} /\ Uncounted(t) = 0
                       /\ OfCall(t) = NoAddress /\ OfPart(t) = NoAddress
  BY <1>1, FirstValues DEF HasBig, HasPage, HasPart, Hold, Uncounted, OfCall, OfPart, AllocPCs
<1>3. Booted.at = NoAddress /\ Booted.map_at = NoAddress /\ Booted.color_map = {0}
      /\ Booted.using_count = 1 /\ Booted.free_count = Colors - 1
  BY DEF Booted
<1>4. Types
  <2>1. MemoryTypeOK
    <3>1. pool \in [Caches -> Seq(AllPages)]
      <4>1. \A c \in Caches : <<PoolPage[c]>> \in Seq(AllPages)
        BY Apart
      <4> QED
        BY <1>1, <4>1
    <3>2. {total_free, total_using} \subseteq [Caches -> Int] /\ page_free_count \in Int
      <4>1. Colors - 1 \in Int /\ Cardinality(Pages) \in Nat
        BY MemoryAssumption, FS_CardinalityType
      <4> QED
        BY <1>1, <4>1
    <3>3. \A p \in AllPages : /\ slab[p].color_map \subseteq Indices
                              /\ slab[p].using_count \in Int /\ slab[p].free_count \in Int
                              /\ {slab[p].at, slab[p].map_at} \subseteq Addresses \cup {NoAddress}
      BY FirstSlabs DEF SlabType, Maybe
    <3> QED
      BY <1>1, <3>1, <3>2, <3>3 DEF MemoryTypeOK
  <2>2. \A t \in Callers : LocFits(t)
    BY <1>1, <1>2 DEF LocFits, AllocPCs
  <2>3. \A c \in Caches : /\ Slabs(c) \subseteq Pages \cup {PoolPage[c]}
                          /\ PoolPage[c] \in Slabs(c)
                          /\ slab[PoolPage[c]].at = NoAddress /\ slab[PoolPage[c]].map_at = NoAddress
    BY <1>3, FirstSlabs
  <2> QED
    BY <1>1, <2>1, <2>2, <2>3, FirstSlabs DEF Types
<1>5. Undisturbed /\ Told /\ FaultsByWindow /\ Loaded /\ ChosenHasRoom
  BY <1>1 DEF Undisturbed, Told, FaultsByWindow, Loaded, ChosenHasRoom, Windows
<1>6. PagesApart /\ NewAreEmpty
  <2>1. \A c \in Caches : IsInjective(pool[c])
    BY <1>1 DEF IsInjective
  <2>2. Slabs("small") \cap Slabs("big") = {}
    BY FirstSlabs, MemoryAssumption DEF Caches
  <2>3. InSlabs \cap Pages = {}
    BY FirstSlabs
  <2> QED
    BY <1>1, <1>2, <2>1, <2>2, <2>3 DEF PagesApart, NewAreEmpty
<1>7. BitsInv
  <2>1. BigSlabs = {PoolPage["big"]} /\ PoolPage["big"] \notin Pages
    BY <1>1, FirstSlabs, Apart DEF BigSlabs, Linking, Caches
  <2>2. ObjectsInUse = Permanent
    <3>1. InSlabs = {PoolPage[c] : c \in Caches}
      BY FirstSlabs DEF InSlabs
    <3>2. ObjectsInUse = {a \in Addresses : a[1] \in InSlabs /\ a[2] = 0}
      BY <1>3, FirstSlabs DEF ObjectsInUse
    <3>3. \A c \in Caches : <<PoolPage[c], 0>> \in Addresses
      BY Apart
    <3>4. ASSUME NEW a \in Addresses, a[1] \in InSlabs, a[2] = 0 PROVE a \in Permanent
      BY <3>1, <3>4, Apart DEF Permanent
    <3> QED
      BY <3>1, <3>2, <3>3, <3>4 DEF Permanent
  <2>3. \A o \in Owners : Claims[o] = IF o[1] = "boot" /\ o[2] \in Permanent THEN o[2] ELSE NoAddress
    BY <1>1, <1>2, <2>1 DEF Claims, Owners
  <2>4. Permanent \subseteq Addresses /\ \A a \in Permanent : <<"boot", a>> \in Owners
    BY Apart DEF Permanent, Owners
  <2>5. Owned(Claims, ObjectsInUse)
    <3>1. \A o \in Owners : Claims[o] = NoAddress \/ Claims[o] \in ObjectsInUse
      BY <2>2, <2>3
    <3>2. \A o, q \in Owners : Claims[o] = Claims[q] /\ Claims[o] # NoAddress => o = q
      BY <2>3 DEF Owners
    <3>3. \A a \in ObjectsInUse : \E o \in Owners : Claims[o] = a
      BY <2>2, <2>3, <2>4
    <3> QED
      BY <3>1, <3>2, <3>3 DEF Owned
  <2>6. PartsSmall
    BY <1>1, <1>2, <2>1, FirstValues DEF PartsSmall
  <2>7. SlabsCounted
    <3>1. Cardinality({0}) = 1
      BY FS_Singleton
    <3>2. \A p : UncountedIn(p) = 0
      BY <1>1, <1>2 DEF UncountedIn
    <3> QED
      <4>1. ASSUME NEW p \in InSlabs
            PROVE  /\ slab[p].using_count = Cardinality(slab[p].color_map) - UncountedIn(p)
                   /\ slab[p].free_count = Colors - slab[p].using_count
        <5>1. slab[p].using_count = 1 /\ slab[p].free_count = Colors - 1 /\ slab[p].color_map = {0}
          BY <1>3, FirstSlabs DEF Booted
        <5> QED
          BY <3>1, <3>2, <5>1
      <4> QED
        BY <4>1 DEF SlabsCounted
  <2>8. NoPageLost /\ Emptied
    BY <1>1 DEF NoPageLost, Emptied
  <2> QED
    BY <2>5, <2>6, <2>7, <2>8 DEF BitsInv
<1>8. TotalsCounted
  <2>1. \A c : UncountedOf(c) = 0
    BY <1>1, <1>2 DEF UncountedOf
  <2>2. Pages \ bits_map = Pages
    BY <1>1
  <2>3. \A c \in Caches : total_using[c] = 1 - 0 /\ total_free[c] = Colors - 1 + 0
    BY <1>1, MemoryAssumption
  <2> QED
    BY <1>1, <2>1, <2>2, <2>3, FirstTotals DEF TotalsCounted
<1> QED
  BY <1>4, <1>5, <1>6, <1>7, <1>8 DEF MemoryInv

\* The invariant, always.
LEMMA MemoryAlways ==
  MemorySpec => []MemoryInv
<1>1. MemoryInit => MemoryInv
  BY MemoryStarts
<1>2. MemoryInv /\ [MemoryNext]_memoryVars => MemoryInv'
  BY MemoryGoesOn
<1> QED
  BY <1>1, <1>2, PTL DEF MemorySpec

\* Between calls nothing is counted late.
LEMMA AccountsFollow ==
  MemoryInv => AccountsMatch
<1> SUFFICES ASSUME MemoryInv PROVE AccountsMatch
  OBVIOUS
<1>1. MemoryTypeOK
  BY DEF MemoryInv, Types
<1>2. ASSUME MemoryAlive, Settled, memory_hit = {}
      PROVE  /\ \A p \in InSlabs : /\ slab[p].using_count = Cardinality(slab[p].color_map)
                                   /\ slab[p].free_count = Colors - slab[p].using_count
             /\ \A c \in Caches : /\ total_using[c] = Cardinality(Taken(c))
                                  /\ total_free[c] = Cardinality(Objects(c) \ Taken(c))
             /\ page_free_count = Cardinality(Pages \ bits_map)
  <2>1. Types /\ BitsInv /\ TotalsCounted
    BY <1>2, Holds
  <2>2. memory_pc[current] \notin {"count", "uncount"}
    BY <1>1, <1>2 DEF Settled, Windows, MemoryTypeOK
  <2>3. (\A p : UncountedIn(p) = 0) /\ \A c : UncountedOf(c) = 0
    BY <2>2 DEF UncountedIn, UncountedOf, Uncounted
  <2>4. InSlabs \subseteq AllPages
    BY <2>1, Apart DEF Types, InSlabs, Caches
  <2>5. ASSUME NEW p \in InSlabs
        PROVE  /\ slab[p].using_count = Cardinality(slab[p].color_map)
               /\ slab[p].free_count = Colors - slab[p].using_count
    <3>1. slab[p].color_map \in SUBSET Indices
      BY <2>1, <2>4 DEF Types, SlabType
    <3>2. Cardinality(slab[p].color_map) \in Nat
      BY <3>1, MapSizes
    <3>3. /\ slab[p].using_count = Cardinality(slab[p].color_map) - 0
          /\ slab[p].free_count = Colors - slab[p].using_count
      BY <2>1, <2>3 DEF BitsInv, SlabsCounted
    <3> QED
      BY <3>2, <3>3
  <2>6. ASSUME NEW c \in Caches
        PROVE  /\ total_using[c] = Cardinality(Taken(c))
               /\ total_free[c] = Cardinality(Objects(c) \ Taken(c))
    <3>1. Cardinality(Taken(c)) \in Nat /\ Cardinality(Objects(c) \ Taken(c)) \in Nat
      BY <2>1, FiniteObjects
    <3>2. /\ total_using[c] = Cardinality(Taken(c)) - 0
          /\ total_free[c] = Cardinality(Objects(c) \ Taken(c)) + 0
      BY <2>1, <2>3 DEF TotalsCounted
    <3> QED
      BY <3>1, <3>2
  <2> QED
    BY <2>1, <2>5, <2>6 DEF TotalsCounted
<1> QED
  BY <1>1, <1>2 DEF AccountsMatch, CountersMatch

\* The counters say what the maps say, for every set of pages and tasks, every color_count
\* and any number of windows hit: kmalloc and kfree decide by numbers that are right
\* whenever the task that runs is in none of the windows and none has been hit.
THEOREM AccountsAreRight == MemorySpec => []AccountsMatch
<1>1. MemoryInv => AccountsMatch
  BY AccountsFollow
<1> QED
  BY <1>1, MemoryAlways, PTL

\* What somebody has nobody else has, and no object or page is lost.
LEMMA OwnersFollow ==
  MemoryInv => ObjectsOwned
<1> SUFFICES ASSUME MemoryInv, MemoryAlive, memory_hit \cap LosesBits = {}
             PROVE  /\ \A a \in held : /\ a[1] \in InSlabs /\ a[2] \in slab[a[1]].color_map
                                       /\ a \notin Parts \cup Permanent
                    /\ InSlabs \cap Pages \subseteq bits_map
                    /\ bits_map \subseteq InSlabs \cup PagesInHand
                    /\ \A p \in InSlabs : \A j \in slab[p].color_map :
                         <<p, j>> \in held \cup Parts \cup Permanent \cup InHand
  BY DEF ObjectsOwned
<1>1. Types /\ PagesApart /\ Owned(Claims, ObjectsInUse) /\ NoPageLost
  BY Holds DEF BitsInv
<1>2. held \subseteq Addresses /\ Permanent \subseteq Addresses
  BY <1>1, Apart DEF Types, MemoryTypeOK, Permanent
<1>3. Parts = UNION {{slab[p].at, slab[p].map_at} : p \in BigSlabs}
  BY DEF Parts, BigSlabs, Linking
<1>4. \A p \in BigSlabs : p \in Pages \/ (slab[p].at = NoAddress /\ slab[p].map_at = NoAddress)
  <2>1. \A p \in Linking : p \in Pages
    BY <1>1 DEF Linking, Types, LocFits, HasPage
  <2>2. \A p \in Slabs("big") : p \in Pages \/ p = PoolPage["big"]
    BY <1>1 DEF Types, Caches
  <2>3. slab[PoolPage["big"]].at = NoAddress /\ slab[PoolPage["big"]].map_at = NoAddress
    BY <1>1 DEF Types, Caches
  <2> QED
    BY <2>1, <2>2, <2>3 DEF BigSlabs
<1>5. ASSUME NEW a \in held
      PROVE  /\ a[1] \in InSlabs /\ a[2] \in slab[a[1]].color_map
             /\ a \notin Parts \cup Permanent
  <2>1. <<"held", a>> \in Owners /\ Claims[<<"held", a>>] = a /\ a # NoAddress
    BY <1>2, ClaimsAre, Apart
  <2>2. a \in ObjectsInUse
    BY <1>1, <2>1 DEF Owned
  <2>3. a \notin Permanent
    <3>1. SUFFICES ASSUME a \in Permanent PROVE FALSE
      OBVIOUS
    <3>2. <<"boot", a>> \in Owners /\ Claims[<<"boot", a>>] = a
      BY <1>2, <3>1, ClaimsAre
    <3>3. <<"boot", a>> = <<"held", a>>
      BY <1>1, <2>1, <3>2 DEF Owned
    <3> QED
      BY <3>3
  <2>4. a \notin Parts
    <3>1. SUFFICES ASSUME NEW p \in BigSlabs, a = slab[p].at \/ a = slab[p].map_at PROVE FALSE
      BY <1>3
    <3>2. p \in Pages
      BY <1>4, <2>1, <3>1
    <3>3. /\ <<"at", p>> \in Owners /\ Claims[<<"at", p>>] = slab[p].at
          /\ <<"map", p>> \in Owners /\ Claims[<<"map", p>>] = slab[p].map_at
      BY <3>1, <3>2, ClaimsAre
    <3>4. <<"at", p>> = <<"held", a>> \/ <<"map", p>> = <<"held", a>>
      BY <1>1, <2>1, <3>1, <3>3 DEF Owned
    <3> QED
      BY <3>4
  <2> QED
    BY <2>2, <2>3, <2>4 DEF ObjectsInUse
<1>6. InSlabs \cap Pages \subseteq bits_map
  BY <1>1 DEF PagesApart
<1>7. bits_map \subseteq InSlabs \cup PagesInHand
  <2>1. \A t \in Callers : Hold(t) \subseteq PagesInHand
    BY DEF Hold, PagesInHand
  <2> QED
    BY <1>1, <2>1 DEF NoPageLost
<1>8. ASSUME NEW p \in InSlabs, NEW j \in slab[p].color_map
      PROVE  <<p, j>> \in held \cup Parts \cup Permanent \cup InHand
  <2>1. p \in AllPages
    BY <1>1, Apart DEF Types, InSlabs, Caches
  <2>2. j \in Indices
    BY <1>1, <2>1 DEF Types, SlabType
  <2>3. PICK a : a = <<p, j>>
    OBVIOUS
  <2>a. SUFFICES a \in held \cup Parts \cup Permanent \cup InHand
    BY <2>3
  <2>4. a \in ObjectsInUse /\ a # NoAddress
    BY <2>1, <2>2, <2>3, Apart DEF ObjectsInUse
  <2>5. PICK o \in Owners : Claims[o] = a
    BY <1>1, <2>4 DEF Owned
  <2>6. CASE \E b \in Addresses : o = <<"held", b>>
    <3>1. PICK b \in Addresses : o = <<"held", b>>
      BY <2>6
    <3>2. Claims[<<"held", b>>] = IF b \in held THEN b ELSE NoAddress
      BY ClaimsAre
    <3> QED
      BY <2>4, <2>5, <3>1, <3>2
  <2>7. CASE \E b \in Addresses : o = <<"boot", b>>
    <3>1. PICK b \in Addresses : o = <<"boot", b>>
      BY <2>7
    <3>2. Claims[<<"boot", b>>] = IF b \in Permanent THEN b ELSE NoAddress
      BY ClaimsAre
    <3> QED
      BY <2>4, <2>5, <3>1, <3>2
  <2>8. CASE \E t \in Callers : o = <<"call", t>>
    <3>1. PICK t \in Callers : o = <<"call", t>>
      BY <2>8
    <3>2. OfCall(t) = a
      BY <2>5, <3>1, ClaimsAre
    <3> QED
      BY <2>4, <3>2 DEF OfCall, InHand
  <2>9. CASE \E t \in Callers : o = <<"part", t>>
    <3>1. PICK t \in Callers : o = <<"part", t>>
      BY <2>9
    <3>2. OfPart(t) = a
      BY <2>5, <3>1, ClaimsAre
    <3> QED
      BY <2>4, <3>2 DEF OfPart, InHand
  <2>10. CASE \E q \in Pages : o = <<"at", q>> \/ o = <<"map", q>>
    <3>1. PICK q \in Pages : o = <<"at", q>> \/ o = <<"map", q>>
      BY <2>10
    <3>2. /\ Claims[<<"at", q>>] = IF q \in BigSlabs THEN slab[q].at ELSE NoAddress
          /\ Claims[<<"map", q>>] = IF q \in BigSlabs THEN slab[q].map_at ELSE NoAddress
      BY ClaimsAre
    <3>3. q \in BigSlabs /\ (slab[q].at = a \/ slab[q].map_at = a)
      BY <2>4, <2>5, <3>1, <3>2
    <3> QED
      BY <1>3, <3>3
  <2> QED
    BY <2>6, <2>7, <2>8, <2>9, <2>10 DEF Owners
<1> QED
  BY <1>5, <1>6, <1>7, <1>8

\* Every object in use has one owner, and its place, and nothing leaks, for every set of
\* pages and tasks and any number of preemptions outside the windows named.
THEOREM ObjectsAreOwned == MemorySpec => []ObjectsOwned
<1>1. MemoryInv => ObjectsOwned
  BY OwnersFollow
<1> QED
  BY <1>1, MemoryAlways, PTL

\* The allocator goes wrong only after a preemption in one of the windows named for the
\* fault, or for want of a page.
THEOREM FaultsAreByWindow == MemorySpec => []FaultsByWindow
<1>1. MemoryInv => FaultsByWindow
  BY DEF MemoryInv
<1> QED
  BY <1>1, MemoryAlways, PTL
=============================================================================
