--------------------------- MODULE ProcessorProofs ---------------------------
(***************************************************************************)
(* Proofs about what the processors share and what interrupts them: the    *)
(* spinlock of the console (Spinlock), the start of the application        *)
(* processors (SmpStart), and the list of timers (Timer).                  *)
(***************************************************************************)
EXTENDS Spinlock, SmpStart, Timer, ListLemmas, FiniteSetTheorems
-----------------------------------------------------------------------------
(* The lock, for any number of processors. *)

\* Every action preserves the types, so the lock word in particular stays at
\* most 1: no path of spinlock.h stores anything larger.
THEOREM LockTypeCorrect == LockSpec => []LockTypeOK
<1>1. LockInit => LockTypeOK
  <2> SUFFICES ASSUME LockInit PROVE LockTypeOK
    OBVIOUS
  <2>1. irq_on \in [Processors -> BOOLEAN] /\ flags \in [Contexts -> BOOLEAN]
    BY Zenon DEF LockInit
  <2>2. lock_pc \in [Contexts -> LockPCs] /\ lock_preempt_count \in [Processors -> Int]
    BY DEF LockInit, LockPCs
  <2>3. lock \in Int /\ lock <= 1 /\ handling \subseteq Processors
    BY DEF LockInit
  <2>4. misread \in BOOLEAN
    BY Zenon DEF LockInit
  <2> QED
    BY <2>1, <2>2, <2>3, <2>4, Zenon DEF LockTypeOK
<1>2. LockTypeOK /\ [LockNext]_lock_vars => LockTypeOK'
  <2> SUFFICES ASSUME LockTypeOK, [LockNext]_lock_vars PROVE LockTypeOK'
    OBVIOUS
  <2> USE DEF LockTypeOK, LockPCs, LockGoto, At, Cpu, Contexts
  <2>1. ASSUME NEW c \in Contexts, IrqSave(c) PROVE LockTypeOK'
    BY <2>1 DEF IrqSave
  <2>2. ASSUME NEW c \in Contexts, Decrement(c) PROVE LockTypeOK'
    BY <2>2 DEF Decrement
  <2>3. ASSUME NEW c \in Contexts, Spin(c) PROVE LockTypeOK'
    BY <2>3 DEF Spin
  <2>4. ASSUME NEW c \in Contexts, SpinUnlock(c) PROVE LockTypeOK'
    BY <2>4 DEF SpinUnlock
  <2>5. ASSUME NEW c \in Contexts, IrqRestore(c) PROVE LockTypeOK'
    BY <2>5 DEF IrqRestore
  <2>6. ASSUME NEW c \in Contexts, TryLock(c) PROVE LockTypeOK'
    BY <2>6 DEF TryLock
  <2>7. ASSUME NEW c \in Contexts, TryFail(c) PROVE LockTypeOK'
    BY <2>7 DEF TryFail
  <2>8. ASSUME NEW p \in Processors, Interrupt(p) PROVE LockTypeOK'
    BY <2>8 DEF Interrupt
  <2>9. ASSUME NEW p \in Processors, InterruptReturn(p) PROVE LockTypeOK'
    BY <2>9 DEF InterruptReturn
  <2>10. CASE UNCHANGED lock_vars
    BY <2>10 DEF lock_vars
  <2> QED
    BY <2>1, <2>2, <2>3, <2>4, <2>5, <2>6, <2>7, <2>8, <2>9, <2>10 DEF LockNext, Steps
<1> QED
  BY <1>1, <1>2, PTL DEF LockSpec

-----------------------------------------------------------------------------
\* Mutual exclusion is not inductive by itself: it needs what the word says.
\* A free lock is exactly 1, a held one is 0 or, with contenders, below.
Exclusion ==
  ~misread => \/ lock = 1 /\ Holders = {}
              \/ lock <= 0 /\ \E h \in Contexts : Holders = {h}

\* An action that neither enters nor leaves the critical section and does not
\* touch the word or the history leaves Exclusion alone.
LEMMA ExclusionFrame ==
  ASSUME Exclusion, UNCHANGED <<lock, misread>>, Holders' = Holders
  PROVE  Exclusion'
  BY DEF Exclusion

\* A step of one context changes who is in the critical section by that context
\* only.
LEMMA HoldersAfterGoto ==
  ASSUME LockTypeOK, NEW c \in Contexts, NEW here, NEW next, LockGoto(c, here, next)
  PROVE  /\ lock_pc[c] = here
         /\ Holders' = IF next = "held" THEN Holders \cup {c} ELSE Holders \ {c}
  BY DEF LockTypeOK, LockGoto, At, Holders

LEMMA ExclusionStep == LockTypeOK /\ Exclusion /\ [LockNext]_lock_vars => Exclusion'
<1> SUFFICES ASSUME LockTypeOK, Exclusion, [LockNext]_lock_vars PROVE Exclusion'
  OBVIOUS
<1>1. ASSUME NEW c \in Contexts, IrqSave(c) PROVE Exclusion'
  BY <1>1, HoldersAfterGoto, ExclusionFrame DEF IrqSave, Holders
<1>2. ASSUME NEW c \in Contexts, Decrement(c) PROVE Exclusion'
  <2>1. lock' = lock - 1 /\ misread' = misread /\ lock \in Int
    BY <1>2 DEF Decrement, LockTypeOK
  <2>2. CASE lock - 1 >= 0
    <3>1. Holders' = Holders \cup {c}
      BY <1>2, <2>2, HoldersAfterGoto DEF Decrement
    <3> QED
      BY <2>1, <2>2, <3>1 DEF Exclusion
  <2>3. CASE ~(lock - 1 >= 0)
    <3>1. Holders' = Holders \ {c} /\ c \notin Holders
      BY <1>2, <2>3, HoldersAfterGoto DEF Decrement, Holders
    <3> QED
      BY <2>1, <2>3, <3>1 DEF Exclusion
  <2> QED
    BY <2>2, <2>3
<1>3. ASSUME NEW c \in Contexts, Spin(c) PROVE Exclusion'
  BY <1>3, HoldersAfterGoto, ExclusionFrame DEF Spin, Holders
<1>4. ASSUME NEW c \in Contexts, SpinUnlock(c) PROVE Exclusion'
  <2>1. c \in Holders /\ Holders' = Holders \ {c}
    BY <1>4, HoldersAfterGoto DEF SpinUnlock, Holders
  <2> QED
    BY <1>4, <2>1 DEF SpinUnlock, Exclusion
<1>5. ASSUME NEW c \in Contexts, IrqRestore(c) PROVE Exclusion'
  BY <1>5, HoldersAfterGoto, ExclusionFrame DEF IrqRestore, Holders
<1>6. ASSUME NEW c \in Contexts, TryLock(c) PROVE Exclusion'
  <2>1. lock' = 0 /\ lock \in Int /\ misread' = (misread \/ lock < 0)
    BY <1>6 DEF TryLock, LockTypeOK
  <2>2. CASE lock # 0
    <3>1. Holders' = Holders \cup {c}
      BY <1>6, <2>2, HoldersAfterGoto DEF TryLock
    <3>2. ASSUME ~misread' PROVE lock = 1 /\ Holders = {}
      <4>1. ~misread /\ ~(lock < 0)
        BY <2>1, <3>2 DEF LockTypeOK
      <4> QED
        BY <2>1, <2>2, <4>1 DEF Exclusion
    <3> QED
      BY <2>1, <3>1, <3>2 DEF Exclusion
  <2>3. CASE lock = 0
    <3>1. Holders' = Holders \ {c} /\ c \notin Holders
      BY <1>6, <2>3, HoldersAfterGoto DEF TryLock, Holders
    <3> QED
      BY <2>1, <2>3, <3>1 DEF Exclusion
  <2> QED
    BY <2>2, <2>3
<1>7. ASSUME NEW c \in Contexts, TryFail(c) PROVE Exclusion'
  BY <1>7, HoldersAfterGoto, ExclusionFrame DEF TryFail, Holders
<1>8. ASSUME NEW p \in Processors, Interrupt(p) PROVE Exclusion'
  BY <1>8, ExclusionFrame DEF Interrupt, Holders
<1>9. ASSUME NEW p \in Processors, InterruptReturn(p) PROVE Exclusion'
  BY <1>9, ExclusionFrame DEF InterruptReturn, Holders
<1>10. CASE UNCHANGED lock_vars
  BY <1>10, ExclusionFrame DEF lock_vars, Holders
<1> QED
  BY <1>1, <1>2, <1>3, <1>4, <1>5, <1>6, <1>7, <1>8, <1>9, <1>10 DEF LockNext, Steps

\* spin_lock and spin_unlock exclude each other on any number of CPUs and from
\* any mix of task and interrupt contexts; only a spin_trylock that meets a
\* negative word breaks it.
THEOREM SpinlockExcludes == LockSpec => []MutualExclusion
<1>1. LockInit => Exclusion
  BY DEF LockInit, Exclusion, Holders
<1>2. Exclusion => MutualExclusion
  BY DEF Exclusion, MutualExclusion
<1> QED
  BY <1>1, <1>2, ExclusionStep, LockTypeCorrect, PTL DEF LockSpec

-----------------------------------------------------------------------------
\* NoSelfDeadlock rests on local_irq_save coming first: a CPU that takes device
\* interrupts has them disabled all the way its task context is on the lock path.
IrqMasked ==
  /\ handling \subseteq IrqCPUs
  /\ \A p \in IrqCPUs : lock_pc[<<p, "task">>] # "out" => ~irq_on[p]
  /\ NoSelfDeadlock

LEMMA IrqMaskedStep == LockTypeOK /\ IrqMasked /\ [LockNext]_lock_vars => IrqMasked'
<1> SUFFICES ASSUME LockTypeOK, IrqMasked, [LockNext]_lock_vars PROVE IrqMasked'
  OBVIOUS
<1> USE CPUAssumption DEF IrqMasked, NoSelfDeadlock, LockTypeOK, Contexts, Cpu,
                          LockGoto, At, Executes
<1>1. ASSUME NEW c \in Contexts, IrqSave(c) PROVE IrqMasked'
  BY <1>1 DEF IrqSave
<1>2. ASSUME NEW c \in Contexts, Decrement(c) PROVE IrqMasked'
  BY <1>2 DEF Decrement
<1>3. ASSUME NEW c \in Contexts, Spin(c) PROVE IrqMasked'
  BY <1>3 DEF Spin
<1>4. ASSUME NEW c \in Contexts, SpinUnlock(c) PROVE IrqMasked'
  BY <1>4 DEF SpinUnlock
<1>5. ASSUME NEW c \in Contexts, IrqRestore(c) PROVE IrqMasked'
  BY <1>5 DEF IrqRestore
<1>6. ASSUME NEW c \in Contexts, TryLock(c) PROVE IrqMasked'
  BY <1>6 DEF TryLock
<1>7. ASSUME NEW c \in Contexts, TryFail(c) PROVE IrqMasked'
  BY <1>7 DEF TryFail
<1>8. ASSUME NEW p \in Processors, Interrupt(p) PROVE IrqMasked'
  BY <1>8 DEF Interrupt
<1>9. ASSUME NEW p \in Processors, InterruptReturn(p) PROVE IrqMasked'
  BY <1>9 DEF InterruptReturn
<1>10. CASE UNCHANGED lock_vars
  BY <1>10 DEF lock_vars
<1> QED
  BY <1>1, <1>2, <1>3, <1>4, <1>5, <1>6, <1>7, <1>8, <1>9, <1>10 DEF LockNext, Steps

\* No handler ever spins on the lock its own CPU holds below it.
THEOREM NoHandlerDeadlock == LockSpec => []NoSelfDeadlock
<1>1. LockInit => IrqMasked
  BY CPUAssumption DEF LockInit, IrqMasked, NoSelfDeadlock, Contexts
<1>2. IrqMasked => NoSelfDeadlock
  BY DEF IrqMasked
<1> QED
  BY <1>1, <1>2, IrqMaskedStep, LockTypeCorrect, PTL DEF LockSpec

-----------------------------------------------------------------------------
\* There are finitely many contexts, and so finitely many spinners.
LEMMA ContextsFinite ==
  /\ IsFiniteSet(Contexts)
  /\ \A T \in SUBSET Contexts : IsFiniteSet(T) /\ Cardinality(T) \in Nat
<1>1. IsFiniteSet({"task", "irq"})
  <2>1. {"task", "irq"} = ({} \cup {"task"}) \cup {"irq"}
    OBVIOUS
  <2> QED
    <3>1. IsFiniteSet({} \cup {"task"})
      BY FS_AddElement, FS_EmptySet
    <3> QED
      BY <2>1, <3>1, FS_AddElement
<1>2. IsFiniteSet(Contexts)
  BY <1>1, CPUAssumption, FS_Product DEF Contexts
<1> QED
  BY <1>2, FS_Subset, FS_CardinalityType

\* A step of one context changes who spins by that context only.
LEMMA SpinnersAfterGoto ==
  ASSUME LockTypeOK, NEW c \in Contexts, NEW here, NEW next, LockGoto(c, here, next)
  PROVE  /\ lock_pc[c] = here
         /\ Spinners' = IF next = "spin" THEN Spinners \cup {c} ELSE Spinners \ {c}
  BY DEF LockTypeOK, LockGoto, At, Spinners

\* A step that leaves the word alone and no spinner behind.
LEMMA WordFrame ==
  ASSUME LockTypeOK, WordBounded, UNCHANGED <<lock>>, Spinners' = Spinners
  PROVE  WordBounded'
  BY DEF WordBounded

LEMMA WordBoundedStep == LockTypeOK /\ WordBounded /\ [LockNext]_lock_vars => WordBounded'
<1> SUFFICES ASSUME LockTypeOK, WordBounded, [LockNext]_lock_vars PROVE WordBounded'
  OBVIOUS
<1>0. /\ IsFiniteSet(Spinners) /\ Cardinality(Spinners) \in Nat
      /\ IsFiniteSet(Spinners') /\ Cardinality(Spinners') \in Nat
  BY ContextsFinite DEF Spinners
<1>1. ASSUME NEW c \in Contexts, IrqSave(c) PROVE WordBounded'
  BY <1>1, SpinnersAfterGoto, WordFrame DEF IrqSave, Spinners
<1>2. ASSUME NEW c \in Contexts, Decrement(c) PROVE WordBounded'
  <2>1. lock' = lock - 1 /\ lock \in Int
    BY <1>2 DEF Decrement, LockTypeOK
  <2>2. CASE lock - 1 >= 0
    BY <1>0, <2>1, <2>2 DEF WordBounded
  <2>3. CASE ~(lock - 1 >= 0)
    <3>1. Spinners' = Spinners \cup {c} /\ c \notin Spinners
      BY <1>2, <2>3, SpinnersAfterGoto DEF Decrement, Spinners
    <3>2. Cardinality(Spinners') = Cardinality(Spinners) + 1
      BY <1>0, <3>1, FS_AddElement
    <3> QED
      BY <1>0, <2>1, <3>2 DEF WordBounded
  <2> QED
    BY <2>2, <2>3
<1>3. ASSUME NEW c \in Contexts, Spin(c) PROVE WordBounded'
  BY <1>0, <1>3 DEF Spin, WordBounded, LockTypeOK
<1>4. ASSUME NEW c \in Contexts, SpinUnlock(c) PROVE WordBounded'
  BY <1>0, <1>4 DEF SpinUnlock, WordBounded
<1>5. ASSUME NEW c \in Contexts, IrqRestore(c) PROVE WordBounded'
  BY <1>5, SpinnersAfterGoto, WordFrame DEF IrqRestore, Spinners
<1>6. ASSUME NEW c \in Contexts, TryLock(c) PROVE WordBounded'
  BY <1>0, <1>6 DEF TryLock, WordBounded
<1>7. ASSUME NEW c \in Contexts, TryFail(c) PROVE WordBounded'
  BY <1>7, SpinnersAfterGoto, WordFrame DEF TryFail, Spinners
<1>8. ASSUME NEW p \in Processors, Interrupt(p) PROVE WordBounded'
  BY <1>8, WordFrame DEF Interrupt, Spinners
<1>9. ASSUME NEW p \in Processors, InterruptReturn(p) PROVE WordBounded'
  BY <1>9, WordFrame DEF InterruptReturn, Spinners
<1>10. CASE UNCHANGED lock_vars
  BY <1>10, WordFrame DEF lock_vars, Spinners
<1> QED
  BY <1>1, <1>2, <1>3, <1>4, <1>5, <1>6, <1>7, <1>8, <1>9, <1>10 DEF LockNext, Steps

\* The lock word never sinks below minus the number of contexts that spin on it, so
\* no number of retries runs it down: on any machine of less than 2^62 CPUs it keeps
\* its sign.
THEOREM WordNeverRunsDown == LockSpec => []WordSound
<1>1. LockInit => WordBounded
  <2>1. Cardinality(Spinners) \in Nat
    BY ContextsFinite DEF Spinners
  <2> QED
    BY <2>1 DEF LockInit, WordBounded
<1>2. LockTypeOK /\ WordBounded => WordSound
  BY DEF WordSound
<1> QED
  BY <1>1, <1>2, WordBoundedStep, LockTypeCorrect, PTL DEF LockSpec
-----------------------------------------------------------------------------
(***************************************************************************)
(* StartSound for every number of processors and of forks.  SMP_lock has   *)
(* no owner in the code: that all a new processor does between _start and  *)
(* spin_unlock is its own comes from _stack_start naming the one that has  *)
(* been started last (Loop), and that the forks come after all of it but   *)
(* the last processor's from global_i (Loop, Turns).                       *)
(***************************************************************************)

\* Where a new processor is while SMP_lock is its own, or while it died.
Holding == {"boot", "cr3", "pid", "pid2", "link", "link2", "tr", "unlock", "dead"}
Early == {"off", "boot", "cr3", "pid", "pid2"}

Started(c) == c < global_i \/ (c = global_i /\ bsp = "count")

\* Types, those of got, seen and preempt_count included.
Types ==
  /\ TypeOK
  /\ tasks \in Seq(Tasks \ {0})
  /\ got \in [Tasks \ {0} -> Int]
  /\ seen \in [Tasks \ {0} -> Seq(Tasks \ {0})]
  /\ preempt_count \in [CPUs -> Int]

\* The loop of Start_Kernel, and SMP_lock: it and _stack_start are the new processor's.
Loop ==
  /\ bsp \in {"ipi", "count"} => global_i < NrCpus
  /\ bsp \in {"fork", "idle"} => global_i = NrCpus
  /\ _stack_start = IF bsp \in {"ipi", "count"} THEN global_i ELSE global_i - 1
  /\ bsp = "ipi" => locked
  /\ \A c \in APs :
       /\ pc[c] = "off" <=> ~Started(c)
       /\ pc[c] \in Holding => c = _stack_start /\ locked /\ bsp # "ipi"

\* A processor's own stack, TSS and idle task, from where it has them.
Own ==
  /\ tr[0] = 0
  /\ \A c \in APs : rsp[c] = IF pc[c] \in {"off", "boot"} THEN None ELSE c
  /\ OwnState

\* task_init forks one task after the other, after the last processor is started.
Turns ==
  \A t \in Forks :
    /\ pc[t] \in {"off", "pid", "pid2", "link", "link2", "idle"}
    /\ pc[t] # "off" => bsp \in {"fork", "idle"} /\ \A u \in Forks : u < t => pc[u] = "idle"

\* Pids: before the last processor has stored its own, all are different and below
\* global_pid, and only its own load of global_pid can be stale; later, all that are
\* given are at least its own.
Pids ==
  /\ global_pid \in Nat \ {0}
  /\ \A t \in Tasks \ {0} :
       /\ pc[t] \in Early => pid[t] = None
       /\ pc[t] \in {"link", "link2", "tr", "unlock", "sti", "idle"} => pid[t] \in Nat
       /\ pc[t] = "pid2" => got[t] \in Nat
  /\ \A c \in CPUs \ {LastAP} :
       /\ pc[LastAP] = "pid2" => pid[c] < got[LastAP]
       /\ pid[LastAP] # None => pid[c] < pid[LastAP]
  /\ pid[LastAP] = None =>
       /\ \A t \in Tasks : pid[t] < global_pid
       /\ \A t \in Tasks \ {0} : pc[t] = "pid2" =>
            got[t] <= global_pid /\ (t # LastAP => got[t] = global_pid)
  /\ pid[LastAP] # None =>
       /\ pid[LastAP] < global_pid
       /\ \A t \in Forks : pc[t] = "pid2" => pid[LastAP] <= got[t]
PidsApart ==
  \A t, u \in Tasks : t # u /\ pid[t] = pid[u] /\ pid[t] # None =>
    {t, u} \cap Forks # {} /\ pid[LastAP] # None /\ pid[LastAP] <= pid[t]

\* The processors but the last one stay in the list of tasks.
Lists ==
  \A c \in APs \ {LastAP} : Created(c) =>
    /\ c \in ToSet(tasks)
    /\ \A t \in Tasks \ {0} : pc[t] = "link2" => c \in ToSet(seen[t])

SInv == Types /\ Loop /\ Own /\ Turns /\ Pids /\ PidsApart /\ Lists
-----------------------------------------------------------------------------
\* Tasks are numbers, the processors before the forks, the last processor among them.
LEMMA TasksNumbered ==
  /\ Tasks \subseteq Nat /\ 0 \in CPUs /\ CPUs \subseteq Tasks /\ APs \subseteq CPUs \ {0}
  /\ Forks \subseteq Tasks \ CPUs /\ LastAP \in APs /\ Tasks = CPUs \cup Forks
  /\ \A c \in APs : c <= LastAP /\ 1 <= c /\ c - 1 \in CPUs /\ c < NrCpus
  /\ \A t \in Tasks \ {0} : t \in APs \/ t \in Forks
  /\ None \notin Tasks /\ None \notin Nat
BY SmpStartAssumption DEF Tasks, CPUs, APs, Forks, LastAP, None

\* While a processor before the last one holds SMP_lock, the last one is off and so are
\* all forks, and no other processor holds it.
LEMMA LockIsOne ==
  ASSUME SInv, NEW c \in APs, pc[c] \in Holding
  PROVE  /\ \A d \in APs \ {c} : pc[d] \notin Holding
         /\ \A d \in APs : d > c => pc[d] = "off"
         /\ c # LastAP => pc[LastAP] = "off" /\ \A t \in Forks : pc[t] = "off"
PROOF
<1> USE DEF SInv
<1>1. c = _stack_start /\ bsp # "ipi" /\ c \in Nat
  BY TasksNumbered DEF Loop
<1>2. \A d \in APs \ {c} : pc[d] \notin Holding
  BY <1>1 DEF Loop
<1>3. \A d \in APs : d > c => ~Started(d)
  <2>1. /\ _stack_start = IF bsp = "count" THEN global_i ELSE global_i - 1
        /\ global_i \in Nat
    BY <1>1, TasksNumbered DEF Loop, Types, TypeOK
  <2>2. \A d \in APs : d \in Nat
    BY TasksNumbered
  <2> QED
    BY <1>1, <2>1, <2>2 DEF Started
<1>4. c # LastAP => bsp \notin {"fork", "idle"}
  BY <1>1, SmpStartAssumption DEF Loop, Types, TypeOK, LastAP
<1>5. c # LastAP => LastAP > c
  BY TasksNumbered
<1> QED
  BY <1>2, <1>3, <1>4, <1>5, TasksNumbered DEF Loop, Turns

\* Of two that are being created, one is the last processor and one a fork.
Creating == {"pid", "pid2", "link", "link2"}
LEMMA CreatedInTurn ==
  ASSUME SInv, NEW t \in Tasks \ {0}, NEW u \in Tasks \ {0}, t # u,
         pc[t] \in Creating, pc[u] \in Creating
  PROVE  (t = LastAP /\ u \in Forks) \/ (u = LastAP /\ t \in Forks)
PROOF
<1>1. Creating \subseteq Holding /\ "idle" \notin Creating /\ "off" \notin Creating
  BY DEF Creating, Holding
<1>2. t \in APs => u \notin APs
  BY <1>1, LockIsOne
<1>3. t \in Forks => u \notin Forks
  BY <1>1, TasksNumbered DEF SInv, Turns
<1>4. t \in APs /\ u \in Forks => t = LastAP
  BY <1>1, LockIsOne
<1>5. u \in APs /\ t \in Forks => u = LastAP
  BY <1>1, LockIsOne
<1> QED
  BY <1>2, <1>3, <1>4, <1>5, TasksNumbered

-----------------------------------------------------------------------------
(* What the steps have in common *)

Places == {"off", "boot", "cr3", "pid", "pid2", "link", "link2",
           "tr", "unlock", "sti", "idle", "dead"}
Assigned == {"link", "link2", "tr", "unlock", "sti", "idle"}
Listed == {"tr", "unlock", "sti", "idle"}

\* Goto moves the one task only.
LEMMA GotoMoves ==
  ASSUME Types, NEW t \in Tasks \ {0}, NEW where \in Places, Goto(t, where)
  PROVE  /\ pc' \in [Tasks \ {0} -> Places]
         /\ pc'[t] = where
         /\ \A u \in Tasks \ {0} : u # t => pc'[u] = pc[u]
BY DEF Types, TypeOK, Goto, Places

\* A step that leaves pids and list alone, and lets a task go neither into the creation
\* of a task nor out of it, keeps what is known of pids and list.
LEMMA ForkVarsStay ==
  ASSUME SInv, UNCHANGED forkVars, NEW t \in Tasks \ {0}, NEW where \in Places,
         Goto(t, where), where \notin {"pid2", "link2"},
         where \in Early => pc[t] \in Early,
         where \in Assigned => pc[t] \in Assigned,
         where \in Listed => pc[t] \in Listed
  PROVE  Pids' /\ PidsApart' /\ Lists'
PROOF
<1>1. /\ pc'[t] = where
      /\ \A u \in Tasks \ {0} : u # t => pc'[u] = pc[u]
  BY GotoMoves DEF SInv
<1>2. UNCHANGED <<global_pid, tasks, got, seen, pid>>
  BY DEF forkVars
<1>3. LastAP \in Tasks \ {0} /\ Forks \subseteq Tasks \ {0} /\ APs \subseteq Tasks \ {0}
  BY TasksNumbered
<1>4. Pids'
  <2>1. /\ global_pid' \in Nat \ {0}
        /\ \A u \in Tasks \ {0} :
             /\ pc'[u] \in Early => pid'[u] = None
             /\ pc'[u] \in Assigned => pid'[u] \in Nat
             /\ pc'[u] = "pid2" => got'[u] \in Nat
    BY <1>1, <1>2 DEF SInv, Pids, Early, Assigned
  <2>2. \A u \in CPUs \ {LastAP} :
          /\ pc'[LastAP] = "pid2" => pid'[u] < got'[LastAP]
          /\ pid'[LastAP] # None => pid'[u] < pid'[LastAP]
    BY <1>1, <1>2, <1>3 DEF SInv, Pids
  <2>3. pid'[LastAP] = None =>
          /\ \A u \in Tasks : pid'[u] < global_pid'
          /\ \A u \in Tasks \ {0} : pc'[u] = "pid2" =>
               got'[u] <= global_pid' /\ (u # LastAP => got'[u] = global_pid')
    BY <1>1, <1>2 DEF SInv, Pids
  <2>4. pid'[LastAP] # None =>
          /\ pid'[LastAP] < global_pid'
          /\ \A u \in Forks : pc'[u] = "pid2" => pid'[LastAP] <= got'[u]
    BY <1>1, <1>2, <1>3 DEF SInv, Pids
  <2> QED
    BY <2>1, <2>2, <2>3, <2>4 DEF Pids, Assigned
<1>5. PidsApart'
  BY <1>2 DEF SInv, PidsApart
<1>6. Lists'
  BY <1>1, <1>2, <1>3 DEF SInv, Lists, Created, Listed
<1> QED
  BY <1>4, <1>5, <1>6

\* Creating a task changes nothing of the processors.
LEMMA CpusStay ==
  ASSUME SInv, NEW t \in Tasks \ {0}, pc[t] \in Creating, NEW where \in Assigned \cup {"pid2"},
         where \in {"tr", "unlock", "sti"} => where = "tr" /\ t \notin Forks,
         where = "idle" => t \in Forks,
         Goto(t, where), UNCHANGED <<bspVars, locked, _stack_start, cpuVars, preempt_count>>
  PROVE  Loop' /\ Own' /\ Turns'
PROOF
<1>1. /\ pc'[t] = where
      /\ \A u \in Tasks \ {0} : u # t => pc'[u] = pc[u]
  BY GotoMoves DEF SInv, Assigned, Places
<1>2. UNCHANGED <<bsp, global_i, locked, _stack_start, rsp, rsp0, init_task, tr, preempt_count>>
  BY DEF bspVars, cpuVars
<1>3. Forks \cap APs = {} /\ Forks \subseteq Tasks \ {0} /\ APs \subseteq Tasks \ {0}
  BY TasksNumbered
<1>4. Loop'
  <2>1. \A c \in APs : Started(c)' <=> Started(c)
    BY <1>2 DEF Started
  <2>2. \A c \in APs : pc'[c] = "off" <=> ~Started(c)'
    BY <1>1, <1>3, <2>1 DEF SInv, Loop, Creating, Assigned
  <2>3. \A c \in APs : pc'[c] \in Holding => c = _stack_start' /\ locked' /\ bsp' # "ipi"
    BY <1>1, <1>2, <1>3 DEF SInv, Loop, Creating, Assigned, Holding
  <2> QED
    BY <1>2, <2>2, <2>3 DEF SInv, Loop
<1>5. Own'
  BY <1>1, <1>2, <1>3 DEF SInv, Own, OwnState, Creating, Assigned
<1>6. Turns'
  <2>1. ASSUME NEW u \in Forks
        PROVE  pc'[u] \in {"off", "pid", "pid2", "link", "link2", "idle"}
    BY <1>1, <1>3 DEF SInv, Turns, Assigned
  <2>2. ASSUME NEW u \in Forks, pc'[u] # "off" PROVE bsp' \in {"fork", "idle"}
    BY <1>1, <1>2, <1>3, <2>2 DEF SInv, Turns, Creating
  <2>3. ASSUME NEW u \in Forks, pc'[u] # "off", NEW v \in Forks, v < u PROVE pc'[v] = "idle"
    <3>1. pc[u] # "off"
      BY <1>1, <1>3, <2>3 DEF Creating
    <3>2. pc[v] = "idle"
      BY <3>1, <2>3 DEF SInv, Turns
    <3> QED
      BY <3>2, <1>1, <1>3 DEF Creating
  <2> QED
    BY <2>1, <2>2, <2>3 DEF Turns
<1> QED
  BY <1>4, <1>5, <1>6

\* Neither do a processor's steps change what is known of forks, nor the loop's.
LEMMA TurnsStay ==
  ASSUME SInv, NEW c \in APs, NEW where \in Places, Goto(c, where),
         bsp \in {"fork", "idle"} => bsp' \in {"fork", "idle"}
  PROVE  Turns'
PROOF
<1>1. \A u \in Tasks \ {0} : u # c => pc'[u] = pc[u]
  BY GotoMoves, TasksNumbered DEF SInv
<1>2. \A u \in Forks : pc'[u] = pc[u]
  BY <1>1, TasksNumbered
<1> QED
  BY <1>2 DEF SInv, Turns

\* A processor that keeps SMP_lock, or gives it back, is where the loop has it.
LEMMA LoopStays ==
  ASSUME SInv, NEW c \in APs, pc[c] \in Holding, NEW where \in Places \ {"off"}, Goto(c, where),
         UNCHANGED <<bspVars, _stack_start>>,
         locked' # locked => where \notin Holding
  PROVE  Loop'
PROOF
<1>1. /\ pc'[c] = where
      /\ \A u \in Tasks \ {0} : u # c => pc'[u] = pc[u]
  BY GotoMoves, TasksNumbered DEF SInv
<1>2. UNCHANGED <<bsp, global_i, _stack_start>>
  BY DEF bspVars
<1>3. \A d \in APs : Started(d)' <=> Started(d)
  BY <1>2 DEF Started
<1>4. \A d \in APs : pc'[d] = "off" <=> ~Started(d)'
  BY <1>1, <1>3, TasksNumbered DEF SInv, Loop, Holding
<1>5. c = _stack_start /\ locked /\ bsp # "ipi"
  BY DEF SInv, Loop
<1>6. \A d \in APs \ {c} : pc'[d] \notin Holding
  BY <1>1, LockIsOne, TasksNumbered
<1>7. \A d \in APs : pc'[d] \in Holding => d = _stack_start' /\ locked' /\ bsp' # "ipi"
  BY <1>1, <1>2, <1>5, <1>6
<1> QED
  BY <1>2, <1>4, <1>5, <1>7 DEF SInv, Loop

-----------------------------------------------------------------------------
(* The processor that boots *)

LEMMA PrepareStep == ASSUME SInv, Prepare PROVE SInv'
PROOF
<1> USE DEF Prepare
<1>1. Types'
  <2>1. global_i \in CPUs
    BY SmpStartAssumption DEF SInv, Types, TypeOK, CPUs, APs
  <2>2. preempt_count' \in [CPUs -> Int]
    BY TasksNumbered DEF SInv, Types
  <2> QED
    BY <2>1, <2>2 DEF SInv, Types, TypeOK, cpuVars, forkVars
<1>2. Loop'
  <2>1. \A c \in APs : Started(c)' <=> Started(c)
    BY DEF Started
  <2>2. \A c \in APs : pc[c] \notin Holding
    BY DEF SInv, Loop, Acquire
  <2> QED
    BY <2>1, <2>2 DEF SInv, Loop
<1>3. Own'
  BY TasksNumbered DEF SInv, Own, OwnState, cpuVars, Types
<1>4. Turns'
  BY DEF SInv, Turns
<1>5. Pids' /\ PidsApart' /\ Lists'
  BY DEF SInv, Pids, PidsApart, Lists, Created, forkVars
<1> QED
  BY <1>1, <1>2, <1>3, <1>4, <1>5 DEF SInv

LEMMA StartupIPIStep == ASSUME SInv, StartupIPI PROVE SInv'
PROOF
<1>1. global_i \in APs /\ bsp = "ipi" /\ bsp' = "count" /\ locked
  BY SmpStartAssumption DEF SInv, Types, TypeOK, Loop, APs, StartupIPI
<1>2. Goto(global_i, "boot") /\ "boot" \in Places /\ global_i \in Tasks \ {0}
  BY <1>1, TasksNumbered DEF StartupIPI, Places
<1>3. pc' \in [Tasks \ {0} -> Places] /\ pc'[global_i] = "boot"
      /\ \A u \in Tasks \ {0} : u # global_i => pc'[u] = pc[u]
  BY <1>2, GotoMoves DEF SInv
<1>4. UNCHANGED <<global_i, identity, locked, _stack_start, rsp, rsp0, init_task, tr,
                  global_pid, tasks, got, seen, pid, preempt_count>>
  BY DEF StartupIPI, cpuVars, forkVars
<1>5. pc[global_i] = "off"
  BY <1>1, SmpStartAssumption DEF SInv, Loop, Started, APs
<1>6. Types'
  BY <1>1, <1>3, <1>4 DEF SInv, Types, TypeOK, Places
<1>7. Loop'
  <2>1. \A c \in APs : Started(c)' <=> Started(c) \/ c = global_i
    BY <1>1, <1>4, TasksNumbered DEF Started
  <2>2. \A c \in APs : pc[c] \notin Holding
    BY <1>1 DEF SInv, Loop
  <2>3. \A c \in APs : pc'[c] = "off" <=> ~Started(c)'
    BY <2>1, <1>3, TasksNumbered DEF SInv, Loop
  <2>4. \A c \in APs : pc'[c] \in Holding => c = global_i
    BY <2>2, <1>3, TasksNumbered
  <2> QED
    BY <2>3, <2>4, <1>1, <1>4 DEF SInv, Loop
<1>8. Own'
  BY <1>1, <1>3, <1>4, <1>5, TasksNumbered DEF SInv, Own, OwnState
<1>9. Turns'
  BY <1>1, <1>2, TurnsStay
<1>10. Pids' /\ PidsApart' /\ Lists'
  BY <1>2, <1>5, ForkVarsStay DEF StartupIPI, Early, Assigned, Listed
<1> QED
  BY <1>6, <1>7, <1>8, <1>9, <1>10 DEF SInv

LEMMA CountStep == ASSUME SInv, Count PROVE SInv'
PROOF
<1> USE DEF Count
<1>1. global_i \in Nat /\ global_i < NrCpus /\ bsp = "count" /\ bsp' = "start"
      /\ global_i' = global_i + 1
  BY DEF SInv, Types, TypeOK, Loop
<1>2. Types'
  <2>1. global_i' \in 1..NrCpus
    BY <1>1, SmpStartAssumption
  <2> QED
    BY <2>1, <1>1 DEF SInv, Types, TypeOK, cpuVars, forkVars
<1>3. Loop'
  <2>1. \A c \in APs : Started(c)' <=> Started(c)
    BY <1>1, TasksNumbered DEF Started
  <2>2. _stack_start' = global_i' - 1
    BY <1>1 DEF SInv, Loop
  <2>3. \A c \in APs : pc'[c] = "off" <=> ~Started(c)'
    BY <2>1 DEF SInv, Loop
  <2>4. \A c \in APs : pc'[c] \in Holding => c = _stack_start' /\ locked'
    BY DEF SInv, Loop
  <2> QED
    BY <1>1, <2>2, <2>3, <2>4 DEF Loop
<1>4. Own'
  BY DEF SInv, Own, OwnState, cpuVars
<1>5. Turns'
  BY DEF SInv, Turns
<1>6. Pids' /\ PidsApart' /\ Lists'
  BY DEF SInv, Pids, PidsApart, Lists, Created, forkVars
<1> QED
  BY <1>2, <1>3, <1>4, <1>5, <1>6 DEF SInv

\* TaskInit and Idle.
LEMMA EndStep == ASSUME SInv, TaskInit \/ Idle PROVE SInv'
PROOF
<1> USE DEF TaskInit, Idle
<1>1. Types'
  <2>1. preempt_count' \in [CPUs -> Int]
    BY TasksNumbered DEF SInv, Types
  <2>2. bsp' \in {"fork", "idle"} /\ identity' \in BOOLEAN
    BY DEF SInv, Types, TypeOK
  <2>3. UNCHANGED <<global_i, locked, _stack_start, pc, cpuVars, forkVars>>
    BY DEF TaskInit, Idle
  <2> QED
    BY <2>1, <2>2, <2>3 DEF SInv, Types, TypeOK, cpuVars, forkVars
<1>2. Loop'
  BY DEF SInv, Loop, Started
<1>3. Own'
  <2>1. UNCHANGED <<pc, rsp, rsp0, init_task, tr>>
    BY DEF cpuVars
  <2>2. \A c \in APs : preempt_count'[c] = preempt_count[c]
    BY TasksNumbered DEF SInv, Types
  <2>3. bsp' = "idle" => preempt_count'[0] = 0
    BY TasksNumbered DEF SInv, Own, OwnState, Types
  <2> QED
    BY <2>1, <2>2, <2>3 DEF SInv, Own, OwnState
<1>4. Turns'
  BY DEF SInv, Turns
<1>5. Pids' /\ PidsApart' /\ Lists'
  BY DEF SInv, Pids, PidsApart, Lists, Created, forkVars
<1> QED
  BY <1>1, <1>2, <1>3, <1>4, <1>5 DEF SInv

LEMMA ForkStep == ASSUME SInv, NEW t \in Forks, Fork(t) PROVE SInv'
PROOF
<1>1. Goto(t, "pid") /\ "pid" \in Places /\ t \in Tasks \ {0} /\ t \notin APs
  BY TasksNumbered DEF Fork, Places
<1>2. pc' \in [Tasks \ {0} -> Places] /\ pc'[t] = "pid"
      /\ \A u \in Tasks \ {0} : u # t => pc'[u] = pc[u]
  BY <1>1, GotoMoves DEF SInv
<1>3. UNCHANGED <<bsp, global_i, identity, locked, _stack_start, rsp, rsp0, init_task, tr,
                  global_pid, tasks, got, seen, pid, preempt_count>>
  BY DEF Fork, bspVars, cpuVars, forkVars
<1>4. \A c \in APs : pc'[c] = pc[c]
  BY <1>1, <1>2, TasksNumbered
<1>5. Types'
  BY <1>2, <1>3 DEF SInv, Types, TypeOK, Places
<1>6. Loop'
  BY <1>3, <1>4 DEF SInv, Loop, Started
<1>7. Own'
  BY <1>3, <1>4 DEF SInv, Own, OwnState
<1>8. Turns'
  <2>1. bsp' = "fork" /\ pc[t] = "off" /\ \A u \in Forks : u < t => pc[u] = "idle"
    BY <1>3 DEF Fork
  <2>2. \A u \in Forks : u # t => pc'[u] = pc[u]
    BY <1>2, TasksNumbered
  <2>3. t \notin {u \in Forks : u < t}
    BY TasksNumbered
  <2> QED
    BY <1>2, <2>1, <2>2, <2>3, TasksNumbered DEF SInv, Turns
<1>9. Pids' /\ PidsApart' /\ Lists'
  BY <1>1, ForkVarsStay DEF Fork, Early, Assigned, Listed
<1> QED
  BY <1>5, <1>6, <1>7, <1>8, <1>9 DEF SInv

-----------------------------------------------------------------------------
(* What do_fork and Start_SMP both do *)

LEMMA LoadPidStep == ASSUME SInv, NEW t \in Tasks \ {0}, LoadPid(t) PROVE SInv'
PROOF
<1>1. pc[t] = "pid" /\ Goto(t, "pid2") /\ got' = [got EXCEPT ![t] = global_pid]
  BY DEF LoadPid
<1>2. pc' \in [Tasks \ {0} -> Places] /\ pc'[t] = "pid2"
      /\ \A u \in Tasks \ {0} : u # t => pc'[u] = pc[u]
  BY <1>1, GotoMoves DEF SInv, Places
<1>3. UNCHANGED <<bsp, global_i, identity, locked, _stack_start, rsp, rsp0, init_task, tr,
                  global_pid, tasks, seen, pid, preempt_count>>
  BY DEF LoadPid, bspVars, cpuVars
<1>4. global_pid \in Nat \ {0} /\ got' \in [Tasks \ {0} -> Int] /\ got'[t] = global_pid
      /\ \A u \in Tasks \ {0} : u # t => got'[u] = got[u]
  BY <1>1 DEF SInv, Types, Pids
<1>5. Types'
  BY <1>2, <1>3, <1>4 DEF SInv, Types, TypeOK, Places
<1>6. Loop' /\ Own' /\ Turns'
  BY <1>1, <1>3, CpusStay DEF LoadPid, Creating, Assigned
<1>7. Pids'
  <2>1. \A u \in Tasks \ {0} :
          /\ pc'[u] \in Early => pid'[u] = None
          /\ pc'[u] \in Assigned => pid'[u] \in Nat
          /\ pc'[u] = "pid2" => got'[u] \in Nat
    BY <1>1, <1>2, <1>3, <1>4 DEF SInv, Pids, Early, Assigned
  <2>2. \A c \in CPUs \ {LastAP} :
          /\ pc'[LastAP] = "pid2" => pid'[c] < got'[LastAP]
          /\ pid'[LastAP] # None => pid'[c] < pid'[LastAP]
    <3>1. CASE t = LastAP
      <4>1. pid[LastAP] = None
        BY <3>1, <1>1 DEF SInv, Pids, Early
      <4> QED
        BY <3>1, <4>1, <1>3, <1>4, TasksNumbered DEF SInv, Pids
    <3>2. CASE t # LastAP
      BY <3>2, <1>2, <1>3, <1>4, TasksNumbered DEF SInv, Pids
    <3> QED
      BY <3>1, <3>2
  <2>3. pid'[LastAP] = None =>
          /\ \A u \in Tasks : pid'[u] < global_pid'
          /\ \A u \in Tasks \ {0} : pc'[u] = "pid2" =>
               got'[u] <= global_pid' /\ (u # LastAP => got'[u] = global_pid')
    BY <1>2, <1>3, <1>4 DEF SInv, Pids
  <2>4. pid'[LastAP] # None =>
          /\ pid'[LastAP] < global_pid'
          /\ \A u \in Forks : pc'[u] = "pid2" => pid'[LastAP] <= got'[u]
    <3>1. pid[LastAP] \in Int /\ LastAP \in Tasks \ {0} /\ Forks \subseteq Tasks \ {0}
      BY TasksNumbered DEF SInv, Types, TypeOK
    <3>2. pid[LastAP] # None => pid[LastAP] < global_pid
      BY DEF SInv, Pids
    <3>3. pid[LastAP] # None => \A u \in Forks : u # t /\ pc'[u] = "pid2" => pid[LastAP] <= got'[u]
      BY <1>2, <1>4, <3>1 DEF SInv, Pids
    <3>4. pid[LastAP] # None => pid[LastAP] <= got'[t]
      BY <3>1, <3>2, <1>4
    <3> QED
      BY <1>3, <3>2, <3>3, <3>4
  <2> QED
    BY <2>1, <2>2, <2>3, <2>4, <1>3, <1>4 DEF Pids, Assigned
<1>8. PidsApart'
  BY <1>3 DEF SInv, PidsApart
<1>9. Lists'
  BY <1>2, <1>3, <1>1, TasksNumbered DEF SInv, Lists, Created
<1> QED
  BY <1>5, <1>6, <1>7, <1>8, <1>9 DEF SInv

LEMMA StorePidStep == ASSUME SInv, NEW t \in Tasks \ {0}, StorePid(t) PROVE SInv'
PROOF
<1>1. pc[t] = "pid2" /\ Goto(t, "link") /\ pid' = [pid EXCEPT ![t] = got[t]]
      /\ global_pid' = got[t] + 1
  BY DEF StorePid
<1>2. pc' \in [Tasks \ {0} -> Places] /\ pc'[t] = "link"
      /\ \A u \in Tasks \ {0} : u # t => pc'[u] = pc[u]
  BY <1>1, GotoMoves DEF SInv, Places
<1>3. UNCHANGED <<bsp, global_i, identity, locked, _stack_start, rsp, rsp0, init_task, tr,
                  tasks, got, seen, preempt_count>>
  BY DEF StorePid, bspVars, cpuVars
<1>4. got[t] \in Nat /\ pid[t] = None
  BY <1>1 DEF SInv, Pids, Early
<1>5. pid' \in [Tasks -> Int] /\ pid'[t] = got[t]
      /\ \A u \in Tasks : u # t => pid'[u] = pid[u]
  BY <1>1, <1>4 DEF SInv, Types, TypeOK
<1>6. Types'
  BY <1>2, <1>3, <1>5 DEF SInv, Types, TypeOK, Places
<1>7. Loop' /\ Own' /\ Turns'
  BY <1>1, <1>3, CpusStay DEF StorePid, Creating, Assigned
<1>8. \A u \in Tasks \ {0} : u # t /\ pc[u] = "pid2" =>
        (t = LastAP /\ u \in Forks) \/ (u = LastAP /\ t \in Forks)
  BY <1>1, CreatedInTurn DEF Creating
\* A processor before the last one runs before the last one has got a pid.
<1>9. t \in APs \ {LastAP} => pid[LastAP] = None /\ pc[LastAP] = "off"
  BY <1>1, LockIsOne, TasksNumbered DEF SInv, Pids, Early, Holding
<1>10. Pids' /\ PidsApart'
  <2>1. global_pid' \in Nat \ {0}
        /\ \A u \in Tasks \ {0} :
             /\ pc'[u] \in Early => pid'[u] = None
             /\ pc'[u] \in Assigned => pid'[u] \in Nat
             /\ pc'[u] = "pid2" => got'[u] \in Nat
    BY <1>1, <1>2, <1>3, <1>4, <1>5 DEF SInv, Pids, Early, Assigned
  <2>2. CASE t = LastAP
    <3>1. pid[LastAP] = None /\ got[LastAP] <= global_pid /\ pid'[LastAP] = got[LastAP]
          /\ \A c \in CPUs \ {LastAP} : pid'[c] = pid[c] /\ pid[c] < got[LastAP]
      BY <1>1, <1>4, <1>5, <2>2, TasksNumbered DEF SInv, Pids
    <3>2. pid'[LastAP] # None /\ pc'[LastAP] # "pid2"
      BY <3>1, <1>2, <1>4, <2>2, TasksNumbered
    <3>3. \A u \in Forks : pc'[u] = "pid2" => pid'[LastAP] <= got'[u]
      <4>1. ASSUME NEW u \in Forks, pc'[u] = "pid2" PROVE got[u] = global_pid
        BY <4>1, <3>1, <1>2, <2>2, TasksNumbered DEF SInv, Pids
      <4> QED
        BY <4>1, <3>1, <1>3
    <3>4. Pids'
      <4>1. pid'[LastAP] < global_pid'
        BY <3>1, <1>1, <1>4, <2>2
      <4> QED
        BY <2>1, <3>1, <3>2, <3>3, <4>1 DEF Pids, Assigned
    <3>5. PidsApart'
      <4>1. \A u, v \in Tasks : u # v /\ pid[u] = pid[v] => pid[u] = None
        BY <3>1 DEF SInv, PidsApart
      <4>2. \A u \in Tasks \ {LastAP} : pid'[u] = pid'[LastAP] => u \in Forks
        <5>1. ASSUME NEW u \in Tasks \ {LastAP}, u \notin Forks PROVE pid'[u] < pid'[LastAP]
          BY <5>1, <3>1, TasksNumbered
        <5>2. \A u \in Tasks : pid'[u] \in Int
          BY <1>5
        <5> QED
          BY <5>1, <5>2, TasksNumbered
      <4>3. \A u, v \in Tasks : u # v /\ pid'[u] = pid'[v] /\ pid'[u] # None =>
              LastAP \in {u, v} /\ {u, v} \cap Forks # {} /\ pid'[u] = pid'[LastAP]
        BY <4>1, <4>2, <1>5, <2>2
      <4>4. pid'[LastAP] \in Int
        BY <1>5, <2>2
      <4> QED
        BY <4>3, <4>4, <3>2 DEF PidsApart
    <3> QED
      BY <3>4, <3>5
  <2>3. CASE t # LastAP /\ pid[LastAP] = None
    <3>1. pid'[LastAP] = None /\ got[t] = global_pid /\ global_pid' = global_pid + 1
          /\ \A u \in Tasks : pid[u] < global_pid
      BY <1>1, <1>5, <2>3, TasksNumbered DEF SInv, Pids
    <3>2. \A u \in Tasks \ {0} : pc'[u] = "pid2" => u = LastAP /\ t \in Forks
      BY <1>2, <1>8, <2>3
    <3>3. pc'[LastAP] = "pid2" => \A c \in CPUs \ {LastAP} : pid'[c] < got'[LastAP]
      <4>1. ASSUME pc'[LastAP] = "pid2" PROVE t \in Forks /\ pc[LastAP] = "pid2"
        BY <4>1, <3>2, <1>2, <2>3, TasksNumbered
      <4> QED
        BY <4>1, <1>3, <1>5, TasksNumbered DEF SInv, Pids
    <3>4. \A u \in Tasks : pid'[u] < global_pid'
      <4>1. \A u \in Tasks : pid[u] \in Int
        BY DEF SInv, Types, TypeOK
      <4> QED
        BY <4>1, <3>1, <1>5, <1>4
    <3>5. pc'[LastAP] = "pid2" => got'[LastAP] <= global_pid'
      <4>1. pc'[LastAP] = "pid2" => got[LastAP] <= global_pid
        BY <2>3, <1>2, TasksNumbered DEF SInv, Pids
      <4>2. got[LastAP] \in Int /\ global_pid \in Int
        BY TasksNumbered DEF SInv, Types, Pids
      <4> QED
        BY <4>1, <4>2, <3>1, <1>3
    <3>6. Pids'
      BY <2>1, <3>1, <3>2, <3>3, <3>4, <3>5 DEF Pids, Assigned
    <3>7. PidsApart'
      <4>1. \A u, v \in Tasks : u # v /\ pid[u] = pid[v] => pid[u] = None
        BY <2>3 DEF SInv, PidsApart
      <4>2. \A u \in Tasks \ {t} : pid'[u] # pid'[t]
        BY <3>1, <1>5, <1>4
      <4> QED
        BY <4>1, <4>2, <1>5 DEF PidsApart
    <3> QED
      BY <3>6, <3>7
  <2>4. CASE t # LastAP /\ pid[LastAP] # None
    <3>1. t \in Forks
      BY <2>4, <1>9, TasksNumbered
    <3>2. pid'[LastAP] = pid[LastAP] /\ pid[LastAP] <= got[t]
          /\ \A c \in CPUs : pid'[c] = pid[c]
      BY <3>1, <2>4, <1>1, <1>5, TasksNumbered DEF SInv, Pids
    <3>3. \A u \in Forks : pc'[u] # "pid2"
      BY <1>2, <1>8, <3>1, <2>4, TasksNumbered
    <3>4. Pids'
      <4>1. pc[LastAP] # "pid2"
        BY <2>4, TasksNumbered DEF SInv, Pids, Early
      <4>2. pc'[LastAP] # "pid2"
        BY <4>1, <2>4, <1>2, TasksNumbered
      <4>3. pid'[LastAP] < global_pid'
        BY <3>2, <1>1, <1>4, <1>5, TasksNumbered
      <4>4. \A c \in CPUs \ {LastAP} : pid'[c] < pid'[LastAP]
        BY <3>2, <2>4 DEF SInv, Pids
      <4> QED
        BY <2>1, <2>4, <3>2, <3>3, <4>2, <4>3, <4>4 DEF Pids, Assigned
    <3>5. PidsApart'
      <4>1. ASSUME NEW u \in Tasks, NEW v \in Tasks, u # v, pid'[u] = pid'[v], pid'[u] # None
            PROVE  {u, v} \cap Forks # {} /\ pid'[LastAP] <= pid'[u]
        <5>1. CASE t \in {u, v}
          BY <5>1, <4>1, <3>1, <3>2, <1>5
        <5>2. CASE t \notin {u, v}
          BY <5>2, <4>1, <3>2, <1>5 DEF SInv, PidsApart
        <5> QED
          BY <5>1, <5>2
      <4> QED
        BY <4>1, <3>2, <2>4 DEF PidsApart
    <3> QED
      BY <3>4, <3>5
  <2> QED
    BY <2>2, <2>3, <2>4
<1>11. Lists'
  BY <1>2, <1>3, <1>1, TasksNumbered DEF SInv, Lists, Created
<1> QED
  BY <1>6, <1>7, <1>10, <1>11 DEF SInv

LEMMA LoadHeadStep == ASSUME SInv, NEW t \in Tasks \ {0}, LoadHead(t) PROVE SInv'
PROOF
<1>1. pc[t] = "link" /\ Goto(t, "link2") /\ seen' = [seen EXCEPT ![t] = tasks]
  BY DEF LoadHead
<1>2. pc' \in [Tasks \ {0} -> Places] /\ pc'[t] = "link2"
      /\ \A u \in Tasks \ {0} : u # t => pc'[u] = pc[u]
  BY <1>1, GotoMoves DEF SInv, Places
<1>3. UNCHANGED <<bsp, global_i, identity, locked, _stack_start, rsp, rsp0, init_task, tr,
                  global_pid, tasks, got, pid, preempt_count>>
  BY DEF LoadHead, bspVars, cpuVars
<1>4. seen' \in [Tasks \ {0} -> Seq(Tasks \ {0})] /\ seen'[t] = tasks
      /\ \A u \in Tasks \ {0} : u # t => seen'[u] = seen[u]
  BY <1>1 DEF SInv, Types
<1>5. Types'
  BY <1>2, <1>3, <1>4 DEF SInv, Types, TypeOK, Places
<1>6. Loop' /\ Own' /\ Turns'
  BY <1>1, <1>3, CpusStay DEF LoadHead, Creating, Assigned
<1>7. Pids' /\ PidsApart'
  <2>1. \A u \in Tasks \ {0} :
          /\ pc'[u] \in Early => pc[u] \in Early
          /\ pc'[u] \in Assigned => pc[u] \in Assigned
          /\ pc'[u] = "pid2" => pc[u] = "pid2"
    BY <1>1, <1>2 DEF Early, Assigned
  <2>2. LastAP \in Tasks \ {0} /\ Forks \subseteq Tasks \ {0}
    BY TasksNumbered
  <2> QED
    BY <2>1, <2>2, <1>3 DEF SInv, Pids, PidsApart, Assigned
<1>8. Lists'
  <2>1. ASSUME NEW c \in APs \ {LastAP}, Created(c)'
        PROVE  c \in ToSet(tasks) /\ \A u \in Tasks \ {0} : pc[u] = "link2" => c \in ToSet(seen[u])
    <3>1. Created(c)
      BY <2>1, <1>2, TasksNumbered DEF Created
    <3> QED
      BY <3>1 DEF SInv, Lists
  <2> QED
    BY <2>1, <1>2, <1>3, <1>4 DEF Lists
<1> QED
  BY <1>5, <1>6, <1>7, <1>8 DEF SInv

LEMMA StoreHeadStep == ASSUME SInv, NEW t \in Tasks \ {0}, StoreHead(t) PROVE SInv'
PROOF
<1> DEFINE where == IF t \in Forks THEN "idle" ELSE "tr"
<1>1. pc[t] = "link2" /\ Goto(t, where) /\ tasks' = <<t>> \o seen[t]
  BY DEF StoreHead
<1>2. pc' \in [Tasks \ {0} -> Places] /\ pc'[t] = where
      /\ \A u \in Tasks \ {0} : u # t => pc'[u] = pc[u]
  BY <1>1, GotoMoves DEF SInv, Places
<1>3. UNCHANGED <<bsp, global_i, identity, locked, _stack_start, rsp, rsp0, init_task, tr,
                  global_pid, seen, got, pid, preempt_count>>
  BY DEF StoreHead, bspVars, cpuVars
<1>4. tasks' \in Seq(Tasks \ {0}) /\ ToSet(tasks') = {t} \cup ToSet(seen[t])
  <2>1. seen[t] \in Seq(Tasks \ {0})
    BY DEF SInv, Types
  <2>2. /\ <<t>> \o seen[t] \in Seq(Tasks \ {0})
        /\ ToSet(<<t>> \o seen[t]) = {t} \cup ToSet(seen[t])
    BY <2>1, PrependEntries
  <2> QED
    BY <1>1, <2>2
<1>5. Types'
  <2>1. ToSet(tasks') \subseteq Tasks \ {0}
    BY <1>4 DEF ToSet
  <2> QED
    BY <1>2, <1>3, <1>4, <2>1 DEF SInv, Types, TypeOK, Places
<1>6. Loop' /\ Own' /\ Turns'
  BY <1>1, <1>3, CpusStay DEF StoreHead, Creating, Assigned
<1>7. Pids' /\ PidsApart'
  <2>1. \A u \in Tasks \ {0} :
          /\ pc'[u] \in Early => pc[u] \in Early
          /\ pc'[u] \in Assigned => pc[u] \in Assigned
          /\ pc'[u] = "pid2" => pc[u] = "pid2"
    BY <1>1, <1>2 DEF Early, Assigned
  <2>2. LastAP \in Tasks \ {0} /\ Forks \subseteq Tasks \ {0}
    BY TasksNumbered
  <2> QED
    BY <2>1, <2>2, <1>3 DEF SInv, Pids, PidsApart, Assigned
<1>8. Lists'
  <2>1. ASSUME NEW c \in APs \ {LastAP}, Created(c)', c # t
        PROVE  c \in ToSet(seen[t]) /\ \A u \in Tasks \ {0} : pc[u] = "link2" => c \in ToSet(seen[u])
    <3>1. Created(c)
      BY <2>1, <1>2, TasksNumbered DEF Created
    <3> QED
      BY <3>1, <1>1 DEF SInv, Lists
\* A processor before the last one has been alone with the list.
  <2>2. ASSUME t \in APs \ {LastAP}, NEW u \in Tasks \ {0}, u # t PROVE pc[u] # "link2"
    BY <2>2, <1>1, CreatedInTurn, TasksNumbered DEF Creating
  <2>3. \A u \in Tasks \ {0} : pc'[u] = "link2" => pc[u] = "link2" /\ u # t
    BY <1>2
  <2> QED
    BY <2>1, <2>2, <2>3, <1>3, <1>4 DEF Lists
<1> QED
  BY <1>5, <1>6, <1>7, <1>8 DEF SInv

\* Create, whoever does it.
LEMMA CreateStep == ASSUME SInv, NEW t \in Tasks \ {0}, Create(t) PROVE SInv'
BY LoadPidStep, StorePidStep, LoadHeadStep, StoreHeadStep DEF Create
-----------------------------------------------------------------------------
(* A processor that is started *)

LEMMA BootStep == ASSUME SInv, NEW c \in APs, Boot(c) PROVE SInv'
PROOF
<1>1. pc[c] = "boot" /\ Goto(c, "cr3") /\ rsp' = [rsp EXCEPT ![c] = _stack_start]
  BY DEF Boot
<1>2. pc' \in [Tasks \ {0} -> Places] /\ pc'[c] = "cr3"
      /\ \A u \in Tasks \ {0} : u # c => pc'[u] = pc[u]
  BY <1>1, GotoMoves, TasksNumbered DEF SInv, Places
<1>3. UNCHANGED <<bsp, global_i, identity, locked, _stack_start, rsp0, init_task, tr,
                  global_pid, tasks, got, seen, pid, preempt_count>>
  BY DEF Boot, bspVars, forkVars
<1>4. _stack_start = c
  BY <1>1 DEF SInv, Loop, Holding
<1>5. rsp' \in [CPUs -> CPUs \cup {None}] /\ rsp'[c] = c /\ \A d \in CPUs : d # c => rsp'[d] = rsp[d]
  BY <1>1, <1>4, TasksNumbered DEF SInv, Types, TypeOK
<1>6. Types'
  BY <1>2, <1>3, <1>5 DEF SInv, Types, TypeOK, Places
<1>7. Loop'
  BY <1>1, <1>3, LoopStays DEF Boot, Holding, Places
<1>8. Own'
  BY <1>1, <1>2, <1>3, <1>5, TasksNumbered DEF SInv, Own, OwnState
<1>9. Turns'
  BY <1>1, <1>3, TurnsStay DEF Places
<1>10. Pids' /\ PidsApart' /\ Lists'
  BY <1>1, ForkVarsStay, TasksNumbered DEF Boot, Early, Assigned, Listed, Places
<1> QED
  BY <1>6, <1>7, <1>8, <1>9, <1>10 DEF SInv

LEMMA LoadCr3Step == ASSUME SInv, NEW c \in APs, LoadCr3(c) PROVE SInv'
PROOF
<1>1. pc[c] = "cr3" /\ _stack_start = c /\ rsp[c] = c /\ c \in CPUs
  BY TasksNumbered DEF LoadCr3, SInv, Loop, Own, Holding
<1>2. rsp \in [CPUs -> CPUs \cup {None}]
  BY DEF SInv, Types, TypeOK
<1>3. PICK where \in {"pid", "dead"} : Goto(c, where)
  BY DEF LoadCr3
<1>4. rsp' = rsp
  BY <1>1, <1>2 DEF LoadCr3
<1>5. pc' \in [Tasks \ {0} -> Places] /\ pc'[c] = where
      /\ \A u \in Tasks \ {0} : u # c => pc'[u] = pc[u]
  BY <1>3, GotoMoves, TasksNumbered DEF SInv, Places
<1>6. UNCHANGED <<bsp, global_i, identity, locked, _stack_start, rsp0, init_task, tr,
                  global_pid, tasks, got, seen, pid, preempt_count>>
  BY DEF LoadCr3, bspVars, forkVars
<1>7. Types'
  BY <1>4, <1>5, <1>6 DEF SInv, Types, TypeOK, Places
<1>8. Loop'
  BY <1>1, <1>3, <1>6, LoopStays DEF LoadCr3, Holding, Places
<1>9. Own'
  BY <1>1, <1>4, <1>5, <1>6, TasksNumbered DEF SInv, Own, OwnState
<1>10. Turns'
  BY <1>3, <1>6, TurnsStay DEF Places
<1>11. Pids' /\ PidsApart' /\ Lists'
  BY <1>1, <1>3, ForkVarsStay, TasksNumbered DEF LoadCr3, Early, Assigned, Listed, Places
<1> QED
  BY <1>7, <1>8, <1>9, <1>10, <1>11 DEF SInv

\* The TSS of global_i - 1 is free only after global_i has been counted up; then it is
\* the processor's own.
LEMMA LoadTRStep == ASSUME SInv, NEW c \in APs, LoadTR(c) PROVE SInv'
PROOF
<1>1. pc[c] = "tr" /\ _stack_start = c /\ bsp # "ipi" /\ rsp[c] = c /\ c \in CPUs
  BY TasksNumbered DEF LoadTR, SInv, Loop, Own, Holding
<1>2. PICK where \in {"unlock", "dead"} :
        /\ Goto(c, where)
        /\ where = "unlock" => TssOf(c) \notin {tr[d] : d \in CPUs} /\ tr' = [tr EXCEPT ![c] = TssOf(c)]
        /\ where = "dead" => tr' = tr
  BY DEF LoadTR
<1>3. pc' \in [Tasks \ {0} -> Places] /\ pc'[c] = where
      /\ \A u \in Tasks \ {0} : u # c => pc'[u] = pc[u]
  BY <1>2, GotoMoves, TasksNumbered DEF SInv, Places
<1>4. UNCHANGED <<bsp, global_i, identity, locked, _stack_start, rsp,
                  global_pid, tasks, got, seen, pid, preempt_count>>
  BY DEF LoadTR, bspVars, forkVars
<1>5. rsp0' = [rsp0 EXCEPT ![c] = c] /\ init_task' = [init_task EXCEPT ![c] = c]
  BY <1>1 DEF LoadTR
<1>6. where = "unlock" => TssOf(c) = c
  <2>1. CASE bsp = "count"
    <3>1. global_i = c /\ TssOf(c) = c - 1
      BY <1>1, <2>1 DEF SInv, Loop, TssOf
    <3>2. c - 1 \in CPUs /\ tr[c - 1] = c - 1
      <4>1. CASE c - 1 = 0
        BY <4>1, TasksNumbered DEF SInv, Own
      <4>2. CASE c - 1 # 0
        <5>1. c - 1 \in APs /\ Started(c - 1)
          BY <4>2, <3>1, TasksNumbered DEF Started, APs, CPUs
        <5>2. pc[c - 1] \notin Holding /\ pc[c - 1] # "off"
          BY <5>1, <1>1, LockIsOne, TasksNumbered DEF SInv, Loop, Holding
        <5>3. pc[c - 1] \in {"sti", "idle"}
          BY <5>1, <5>2, TasksNumbered DEF SInv, Types, TypeOK, Holding
        <5> QED
          BY <5>1, <5>3, TasksNumbered DEF SInv, Own, OwnState
      <4> QED
        BY <4>1, <4>2, TasksNumbered
    <3> QED
      BY <1>2, <3>1, <3>2
  <2>2. CASE bsp # "count"
    BY <1>1, <2>2 DEF SInv, Loop, TssOf
  <2> QED
    BY <2>1, <2>2
<1>7. tr' \in [CPUs -> CPUs \cup {None}] /\ (where = "unlock" => tr'[c] = c)
      /\ \A d \in CPUs : d # c => tr'[d] = tr[d]
  <2>1. tr \in [CPUs -> CPUs \cup {None}]
    BY DEF SInv, Types, TypeOK
  <2> QED
    BY <1>1, <1>2, <1>6, <2>1
<1>8. Types'
  <2>1. {rsp0', init_task'} \subseteq [CPUs -> CPUs \cup {None}]
    BY <1>1, <1>5 DEF SInv, Types, TypeOK
  <2> QED
    BY <2>1, <1>3, <1>4, <1>7 DEF SInv, Types, TypeOK, Places
<1>9. Loop'
  BY <1>1, <1>2, <1>4, LoopStays DEF LoadTR, Holding, Places
<1>10. Own'
  <2>1. \A d \in APs : rsp[d] = IF pc'[d] \in {"off", "boot"} THEN None ELSE d
    BY <1>1, <1>3, TasksNumbered DEF SInv, Own
  <2>2. tr'[0] = 0
    BY <1>7, TasksNumbered DEF SInv, Own
  <2>3. ASSUME NEW d \in APs, pc'[d] \in {"unlock", "sti", "idle"}
        PROVE  rsp'[d] = d /\ rsp0'[d] = d /\ init_task'[d] = d /\ tr'[d] = d
    <3>1. CASE d = c
      BY <3>1, <2>3, <1>1, <1>3, <1>4, <1>5, <1>7 DEF SInv, Types, TypeOK
    <3>2. CASE d # c
      BY <3>2, <2>3, <1>3, <1>4, <1>5, <1>7, TasksNumbered DEF SInv, Types, TypeOK, Own, OwnState
    <3> QED
      BY <3>1, <3>2
  <2>4. \A d \in APs : pc'[d] = "idle" => preempt_count'[d] = 0
    BY <1>3, <1>4, TasksNumbered DEF SInv, Own, OwnState
  <2> QED
    BY <2>1, <2>2, <2>3, <2>4, <1>4, TasksNumbered DEF SInv, Own, OwnState
<1>11. Turns'
  BY <1>2, <1>4, TurnsStay DEF Places
<1>12. Pids' /\ PidsApart' /\ Lists'
  BY <1>1, <1>2, ForkVarsStay, TasksNumbered DEF LoadTR, Early, Assigned, Listed, Places
<1> QED
  BY <1>8, <1>9, <1>10, <1>11, <1>12 DEF SInv

LEMMA UnlockStep == ASSUME SInv, NEW c \in APs, Unlock(c) PROVE SInv'
PROOF
<1>1. pc[c] = "unlock" /\ Goto(c, "sti") /\ rsp[c] = c /\ c \in CPUs /\ locked' = FALSE
      /\ preempt_count' = [preempt_count EXCEPT ![rsp[c]] = @ - 1]
  BY TasksNumbered DEF Unlock, SInv, Own, Leave
<1>2. pc' \in [Tasks \ {0} -> Places] /\ pc'[c] = "sti"
      /\ \A u \in Tasks \ {0} : u # c => pc'[u] = pc[u]
  BY <1>1, GotoMoves, TasksNumbered DEF SInv, Places
<1>3. UNCHANGED <<bsp, global_i, identity, _stack_start, rsp, rsp0, init_task, tr,
                  global_pid, tasks, got, seen, pid>>
  BY DEF Unlock, bspVars, cpuVars, forkVars
<1>4. preempt_count' \in [CPUs -> Int] /\ \A d \in CPUs : d # c => preempt_count'[d] = preempt_count[d]
  BY <1>1 DEF SInv, Types
<1>5. Types'
  BY <1>1, <1>2, <1>3, <1>4 DEF SInv, Types, TypeOK, Places
<1>6. Loop'
  BY <1>1, <1>3, LoopStays DEF Unlock, Holding, Places
<1>7. Own'
  <2>1. 0 \in CPUs /\ 0 # c /\ APs \subseteq CPUs \cap (Tasks \ {0})
    BY TasksNumbered
  <2> QED
    BY <2>1, <1>1, <1>2, <1>3, <1>4 DEF SInv, Own, OwnState
<1>8. Turns'
  BY <1>1, <1>3, TurnsStay DEF Places
<1>9. Pids' /\ PidsApart' /\ Lists'
  BY <1>1, ForkVarsStay, TasksNumbered DEF Unlock, Early, Assigned, Listed, Places
<1> QED
  BY <1>5, <1>6, <1>7, <1>8, <1>9 DEF SInv

LEMMA StiStep == ASSUME SInv, NEW c \in APs, Sti(c) PROVE SInv'
PROOF
<1>1. pc[c] = "sti" /\ Goto(c, "idle") /\ rsp[c] = c /\ c \in CPUs
      /\ preempt_count' = [preempt_count EXCEPT ![rsp[c]] = 0]
  BY TasksNumbered DEF Sti, SInv, Own
<1>2. pc' \in [Tasks \ {0} -> Places] /\ pc'[c] = "idle"
      /\ \A u \in Tasks \ {0} : u # c => pc'[u] = pc[u]
  BY <1>1, GotoMoves, TasksNumbered DEF SInv, Places
<1>3. UNCHANGED <<bsp, global_i, identity, locked, _stack_start, rsp, rsp0, init_task, tr,
                  global_pid, tasks, got, seen, pid>>
  BY DEF Sti, bspVars, cpuVars, forkVars
<1>4. preempt_count' \in [CPUs -> Int] /\ preempt_count'[c] = 0
      /\ \A d \in CPUs : d # c => preempt_count'[d] = preempt_count[d]
  BY <1>1 DEF SInv, Types
<1>5. Types'
  BY <1>1, <1>2, <1>3, <1>4 DEF SInv, Types, TypeOK, Places
<1>6. Loop'
  <2>1. \A d \in APs : Started(d)' <=> Started(d)
    BY <1>3 DEF Started
  <2>2. \A d \in APs : pc'[d] = "off" <=> pc[d] = "off"
    BY <1>1, <1>2, TasksNumbered
  <2>3. \A d \in APs : pc'[d] \in Holding => pc[d] \in Holding
    BY <1>1, <1>2, TasksNumbered DEF Holding
  <2> QED
    BY <2>1, <2>2, <2>3, <1>3 DEF SInv, Loop
<1>7. Own'
  <2>1. 0 \in CPUs /\ 0 # c /\ APs \subseteq CPUs \cap (Tasks \ {0})
    BY TasksNumbered
  <2> QED
    BY <2>1, <1>1, <1>2, <1>3, <1>4 DEF SInv, Own, OwnState
<1>8. Turns'
  BY <1>1, <1>3, TurnsStay DEF Places
<1>9. Pids' /\ PidsApart' /\ Lists'
  BY <1>1, ForkVarsStay, TasksNumbered DEF Sti, Early, Assigned, Listed, Places
<1> QED
  BY <1>5, <1>6, <1>7, <1>8, <1>9 DEF SInv
-----------------------------------------------------------------------------
(* The theorem *)

LEMMA SInvInit == Init => SInv
PROOF
<1> SUFFICES ASSUME Init PROVE SInv
  OBVIOUS
<1> USE SmpStartAssumption, TasksNumbered
<1>1. Types
  <2>1. << >> \in Seq(Tasks \ {0}) /\ ToSet(<< >>) = {}
    BY EmptySeq DEF ToSet
  <2>2. rsp \in [CPUs -> CPUs \cup {None}] /\ pid \in [Tasks -> Int]
    BY DEF Init, None
  <2>3. _stack_start \in CPUs /\ global_i \in 1..NrCpus
    BY DEF Init
  <2> QED
    BY <2>1, <2>2, <2>3 DEF Init, Types, TypeOK, None
<1>2. Loop
  BY DEF Init, Loop, Started, Holding
<1>3. Own
  BY DEF Init, Own, OwnState
<1>4. Turns
  BY DEF Init, Turns
<1>5. Pids
  BY DEF Init, Pids, None, Early
<1>6. PidsApart
  BY DEF Init, PidsApart, None
<1>7. Lists
  BY DEF Init, Lists, Created
<1> QED
  BY <1>1, <1>2, <1>3, <1>4, <1>5, <1>6, <1>7 DEF SInv

LEMMA SInvNext == SInv /\ [Next]_vars => SInv'
PROOF
<1> SUFFICES ASSUME SInv, [Next]_vars PROVE SInv'
  OBVIOUS
<1>1. CASE BSP
  BY <1>1, PrepareStep, StartupIPIStep, CountStep, EndStep, ForkStep, CreateStep, TasksNumbered
     DEF BSP
<1>2. ASSUME NEW c \in APs, AP(c) PROVE SInv'
  BY <1>2, CreateStep, BootStep, LoadCr3Step, LoadTRStep, UnlockStep, StiStep, TasksNumbered
     DEF AP
<1>3. CASE UNCHANGED vars
  BY <1>3 DEF vars, bspVars, cpuVars, forkVars, SInv, Types, TypeOK, Loop, Started, Own,
     OwnState, Turns, Pids, PidsApart, Lists, Created
<1> QED
  BY <1>1, <1>2, <1>3 DEF Next

\* The invariant says what StartSound does: of the pids, PidsApart and that a task which
\* is created has one; of the dead, Loop and Own.
LEMMA SInvSays == SInv => StartSound
PROOF
<1> SUFFICES ASSUME SInv PROVE StartSound
  OBVIOUS
<1>1. OnlyLastRaces
  <2>1. ASSUME NEW t \in Tasks \ {0}, Created(t), NEW u \in Tasks \ {t}, pid[u] = pid[t]
        PROVE  {t, u} \cap Forks # {} /\ pid[LastAP] # None /\ pid[LastAP] <= pid[t]
    <3>1. pid[t] \in Nat
      BY <2>1 DEF SInv, Pids, Created
    <3>2. pid[t] # None
      BY <3>1, TasksNumbered
    <3> QED
      BY <2>1, <3>2 DEF SInv, PidsApart
  <2>2. ASSUME NEW t \in Tasks \ {0}, Created(t)
        PROVE  t \in ToSet(tasks) \/ t \in {LastAP} \cup Forks
    BY <2>2, TasksNumbered DEF SInv, Lists
  <2> QED
    BY <2>1, <2>2 DEF OnlyLastRaces
<1>2. DeadKeepsLock
  <2>1. ASSUME NEW c \in Dead PROVE locked /\ rsp[c] = c /\ \A d \in APs : d > c => pc[d] = "off"
    <3>1. c \in APs /\ pc[c] = "dead"
      BY DEF Dead
    <3>2. pc[c] \in Holding
      BY <3>1 DEF Holding
    <3> QED
      BY <3>1, <3>2, LockIsOne DEF SInv, Loop, Own
  <2> QED
    BY <2>1 DEF DeadKeepsLock
<1> QED
  BY <1>1, <1>2 DEF SInv, StartSound, Types, Own

\* The start of the other processors (main.c:150-184, head.S, SMP.c:79-159), for every
\* number of them and of forks beside the last: each is on its own stack with its own TSS
\* and idle task; a pid is given twice, and an entry of the list of tasks lost, only by
\* what the last processor and the forks do to each other; who dies keeps the lock.
THEOREM StartIsSound == Spec => []StartSound
BY SInvInit, SInvNext, SInvSays, PTL DEF Spec
-----------------------------------------------------------------------------
(***************************************************************************)
(* The list of timers, for any number of timers, of runs of do_softirq     *)
(* under way and of ticks.  What holds the list together while no window   *)
(* was hit: a run has the timer it has read still on the list, and an      *)
(* add_timer the one it is to link behind.                                 *)
(***************************************************************************)

\* A timer is on the list once, or being linked, or its function has run; of one that was
\* started, with a time other than 0, one of them holds.
Once ==
  ~fault =>
    /\ IsInjective(timer_list)
    /\ \A t \in Timers : fired[t] \in {0, 1}
    /\ \A t \in ToSet(timer_list) : fired[t] = 0 /\ t # adding
    /\ adding # NoTimer => fired[adding] = 0
    /\ \A t \in Timers : expire_jiffies[t] # 0 =>
         t \in ToSet(timer_list) \/ t = adding \/ fired[t] = 1

\* What a run has read into its tmp is still on the list, or is the list head.
Firing ==
  /\ \A r \in Runs : timer_pc[r] = "fire" => tmp[r] \in Timers
  /\ ~fault /\ "tmp" \notin hit =>
       \A r \in Runs : Holds(r) => tmp[r] \in ToSet(timer_list) \cup {NoTimer}

\* The place an add_timer has found is still one.
Placed ==
  ~fault /\ "link" \notin hit /\ adding # NoTimer => behind \in ToSet(timer_list) \cup {NoTimer}

TInv == TimerTypeOK /\ Once /\ Firing /\ Placed /\ FaultsByWindow

-----------------------------------------------------------------------------
(* The list, searched and linked *)

\* The search of add_timer stops at a timer of the list, or at its head.
LEMMA PlaceFound ==
  ASSUME NEW list \in Seq(Timers), NEW time
  PROVE  NotBefore(list, time) \in ToSet(list) \cup {NoTimer}
PROOF
<1> DEFINE later == {i \in DOMAIN list : expire_jiffies[list[i]] >= time}
<1>1. CASE later = {}
  BY <1>1 DEF NotBefore
<1>2. CASE later # {}
  <2>1. DOMAIN list = 1..Len(list) /\ Len(list) \in Nat
    BY LenProperties
  <2>2. later \subseteq Nat /\ later \subseteq DOMAIN list
    BY <2>1
  <2> HIDE DEF later
  <2>3. PICK i \in later : \A j \in later : ~(<<j, i>> \in OpToRel(<, Nat))
    BY <1>2, <2>2, NatLessThanWellFounded, WFMin, Zenon
  <2>4. \A j \in later : i <= j
    <3> SUFFICES ASSUME NEW j \in later, j < i PROVE FALSE
      BY <2>2
    <3> QED
      BY <2>2, <2>3 DEF OpToRel
  <2>5. Min(later) \in later
    BY <2>4 DEF Min
  <2>6. NotBefore(list, time) = list[Min(later)]
    BY <1>2 DEF NotBefore, later
  <2>7. list[Min(later)] \in ToSet(list)
    BY <2>2, <2>5 DEF ToSet
  <2> QED
    BY <2>6, <2>7
<1> QED
  BY <1>1, <1>2

\* Wherever a timer is linked, the list has it then, once, and all it had before.
LEMMA LinkedOnce ==
  ASSUME NEW list \in Seq(Timers), IsInjective(list), NEW t \in Timers, t \notin ToSet(list),
         NEW place \in ToSet(list) \cup {NoTimer}
  PROVE  /\ Linked(list, t, place) \in Seq(Timers)
         /\ ToSet(Linked(list, t, place)) = ToSet(list) \cup {t}
         /\ IsInjective(Linked(list, t, place))
PROOF
<1>1. CASE place = NoTimer
  BY <1>1, PrependEntries, PrependApart DEF Linked
<1>2. CASE place # NoTimer
  <2> DEFINE i == CHOOSE i \in 2..Len(list) + 1 : list[i - 1] = place
  <2>1. i \in 2..Len(list) + 1
    <3>1. PICK j \in 1..Len(list) : list[j] = place
      BY <1>2, LenProperties DEF ToSet
    <3>2. j + 1 \in 2..Len(list) + 1 /\ (j + 1) - 1 = j
      BY LenProperties
    <3> QED
      BY <3>1, <3>2
  <2>2. i \in 1..Len(list) + 1
    BY <2>1, LenProperties
  <2>3. Linked(list, t, place) = InsertAt(list, i, t)
    BY <1>2 DEF Linked
  <2> HIDE DEF i
  <2> QED
    BY <2>2, <2>3, InsertAtEntries, EntriesOfInsertion, InsertionApart
<1> QED
  BY <1>1, <1>2
-----------------------------------------------------------------------------
(* The steps *)

\* A step that leaves the list and what is to be linked as they are.
LEMMA ListKept ==
  ASSUME TInv, UNCHANGED <<expire_jiffies, timer_list, addVars, fired, fault, hit>>,
         jiffies' \in 0..MaxJiffies, timer_sirq' \in BOOLEAN,
         timer_pc' \in [Runs -> PCs], tmp' \in [Runs -> Timers \cup {NoTimer}], Firing'
  PROVE  TInv'
PROOF
<1>1. TimerTypeOK' /\ Once' /\ Placed' /\ FaultsByWindow'
  BY DEF TInv, TimerTypeOK, Once, Placed, FaultsByWindow, addVars
<1> QED
  BY <1>1 DEF TInv

\* A run that starts, which has read nothing yet.
LEMMA RetFromIntrTypes ==
  ASSUME TimerTypeOK, NEW bit \in BOOLEAN, RetFromIntr(bit)
  PROVE  /\ timer_pc' \in [Runs -> PCs]
         /\ \A r \in Runs : timer_pc'[r] = timer_pc[r] \/ timer_pc'[r] = "test"
BY DEF TimerTypeOK, RetFromIntr, PCs

LEMMA FiringKept ==
  ASSUME Firing, UNCHANGED <<timer_list, tmp, fault, hit>>,
         \A r \in Runs : timer_pc'[r] = timer_pc[r] \/ timer_pc'[r] = "test"
  PROVE  Firing'
BY DEF Firing, Holds

LEMMA TickStep == ASSUME TInv, Tick PROVE TInv'
PROOF
<1>1. TimerTypeOK /\ Firing
  BY DEF TInv
<1>2. jiffies' \in 0..MaxJiffies
  <2>1. jiffies \in 0..MaxJiffies /\ MaxJiffies \in Nat
    BY <1>1, TimerAssumption DEF TimerTypeOK
  <2>2. jiffies' = IF jiffies < MaxJiffies THEN jiffies + 1 ELSE jiffies
    BY DEF Tick
  <2> QED
    BY <2>1, <2>2
<1>3. timer_sirq' \in BOOLEAN
  <2>1. Due(timer_list, jiffies') \in BOOLEAN
    BY DEF Due
  <2> QED
    BY <1>1, <2>1, Zenon DEF Tick, TimerTypeOK
<1>4. /\ timer_pc' \in [Runs -> PCs]
      /\ \A r \in Runs : timer_pc'[r] = timer_pc[r] \/ timer_pc'[r] = "test"
  BY <1>1, <1>3, RetFromIntrTypes DEF Tick
<1>5. UNCHANGED <<expire_jiffies, timer_list, tmp, addVars, fired, fault, hit>>
  BY DEF Tick
<1>6. Firing'
  BY <1>1, <1>4, <1>5, FiringKept
<1> QED
  BY <1>1, <1>2, <1>3, <1>4, <1>5, <1>6, ListKept DEF TimerTypeOK

LEMMA OtherIntrStep == ASSUME TInv, OtherIntr PROVE TInv'
PROOF
<1>1. TimerTypeOK /\ Firing
  BY DEF TInv
<1>2. /\ timer_pc' \in [Runs -> PCs]
      /\ \A r \in Runs : timer_pc'[r] = timer_pc[r] \/ timer_pc'[r] = "test"
  BY <1>1, RetFromIntrTypes DEF OtherIntr, TimerTypeOK
<1>3. UNCHANGED <<jiffies, expire_jiffies, timer_list, timer_sirq, tmp, addVars, fired, fault,
                  hit>>
  BY DEF OtherIntr
<1>4. Firing'
  BY <1>1, <1>2, <1>3, FiringKept
<1> QED
  BY <1>1, <1>2, <1>3, <1>4, ListKept DEF TimerTypeOK

\* A step of a run.
LEMMA Gone ==
  ASSUME TimerTypeOK, NEW r \in Runs, NEW here, NEW there \in PCs, TimerGoto(r, here, there)
  PROVE  /\ timer_pc[r] = here /\ timer_pc' \in [Runs -> PCs] /\ timer_pc'[r] = there
         /\ \A q \in Runs : q # r => timer_pc'[q] = timer_pc[q]
BY DEF TimerGoto, TimerTypeOK

\* A run reads the first timer, whether or not another has read it.
LEMMA FirstStep == ASSUME TInv, NEW r \in Runs, First(r) PROVE TInv'
PROOF
<1> DEFINE t == IF timer_list = <<>> THEN NoTimer ELSE Head(timer_list)
<1>1. TimerTypeOK /\ Firing
  BY DEF TInv
<1>2. /\ UNCHANGED <<jiffies, expire_jiffies, timer_list, timer_sirq, addVars, fired, fault, hit>>
      /\ tmp' = [tmp EXCEPT ![r] = t]
  BY DEF First
<1>3. /\ timer_pc' \in [Runs -> PCs] /\ timer_pc'[r] = "empty"
      /\ \A q \in Runs : q # r => timer_pc'[q] = timer_pc[q]
  <2>1. TimerGoto(r, "first", "empty") /\ "empty" \in PCs
    BY DEF First, PCs
  <2> QED
    BY <1>1, <2>1, Gone
<1>4. t \in ToSet(timer_list) \cup {NoTimer} /\ t \in Timers \cup {NoTimer}
  BY <1>1, FirstEntry DEF TimerTypeOK
<1>5. /\ tmp' \in [Runs -> Timers \cup {NoTimer}] /\ tmp'[r] = t
      /\ \A q \in Runs : q # r => tmp'[q] = tmp[q]
  BY <1>1, <1>2, <1>4 DEF TimerTypeOK
<1>6. Firing'
  BY <1>1, <1>2, <1>3, <1>4, <1>5 DEF Firing, Holds
<1> QED
  BY <1>1, <1>2, <1>3, <1>5, <1>6, ListKept DEF TimerTypeOK

\* The other steps that leave the list alone.
LEMMA RunStep == ASSUME TInv, NEW r \in Runs, Test(r) \/ Empty(r) \/ Look(r) \/ Clear(r) PROVE TInv'
PROOF
<1>1. TimerTypeOK /\ Firing
  BY DEF TInv
<1>2. /\ UNCHANGED <<jiffies, expire_jiffies, timer_list, addVars, fired, fault, hit>>
      /\ timer_sirq' \in BOOLEAN
  BY <1>1 DEF Test, Empty, Look, Clear, TimerTypeOK
<1>3. \E here, there \in PCs :
        /\ TimerGoto(r, here, there)
        /\ there \in {"look", "fire"} => here \in {"empty", "look"} /\ UNCHANGED tmp
        /\ there = "fire" => tmp[r] # NoTimer
        /\ there # "empty"
        /\ \/ UNCHANGED tmp
           \/ tmp' = [tmp EXCEPT ![r] = NoTimer]
  BY DEF Test, Empty, Look, Clear, Expired, PCs
<1>4. PICK here \in PCs, there \in PCs :
        /\ TimerGoto(r, here, there)
        /\ there \in {"look", "fire"} => here \in {"empty", "look"} /\ UNCHANGED tmp
        /\ there = "fire" => tmp[r] # NoTimer
        /\ there # "empty"
        /\ \/ UNCHANGED tmp
           \/ tmp' = [tmp EXCEPT ![r] = NoTimer]
  BY <1>3
<1>5. /\ timer_pc[r] = here /\ timer_pc' \in [Runs -> PCs] /\ timer_pc'[r] = there
      /\ \A q \in Runs : q # r => timer_pc'[q] = timer_pc[q]
  BY <1>1, <1>4, Gone
<1>6. /\ tmp' \in [Runs -> Timers \cup {NoTimer}]
      /\ \A q \in Runs : q # r => tmp'[q] = tmp[q]
  BY <1>1, <1>4 DEF TimerTypeOK
<1>7. there = "fire" => tmp'[r] \in Timers
  BY <1>1, <1>4, <1>6 DEF TimerTypeOK
<1>8. Holds(r)' => Holds(r) /\ tmp'[r] = tmp[r]
  BY <1>4, <1>5 DEF Holds
<1>9. \A q \in Runs : q # r /\ Holds(q)' => Holds(q) /\ tmp'[q] = tmp[q]
  BY <1>5, <1>6 DEF Holds
<1>10. Firing'
  BY <1>1, <1>2, <1>5, <1>6, <1>7, <1>8, <1>9 DEF Firing
<1> QED
  BY <1>1, <1>2, <1>5, <1>6, <1>10, ListKept DEF TimerTypeOK

\* The function of a timer runs: the timer was found on the list, and has been removed
\* by nobody since, or a window was hit.
LEMMA FireStep == ASSUME TInv, ~fault, NEW r \in Runs, Fire(r) PROVE TInv'
PROOF
<1> DEFINE t == tmp[r]
<1>1. TimerTypeOK /\ Firing /\ Once /\ Placed /\ FaultsByWindow
  BY DEF TInv
<1>2. /\ UNCHANGED <<jiffies, expire_jiffies, timer_sirq, adding, behind>>
      /\ timer_list' = RemoveFirst(timer_list, t)
      /\ fault' = (t \notin ToSet(timer_list))
      /\ fired' = [fired EXCEPT ![t] = @ + 1]
      /\ tmp' = [tmp EXCEPT ![r] = NoTimer]
  BY DEF Fire, Deleted, addVars
<1>3. /\ timer_pc[r] = "fire" /\ timer_pc' \in [Runs -> PCs] /\ timer_pc'[r] = "first"
      /\ \A q \in Runs : q # r => timer_pc'[q] = timer_pc[q]
  <2>1. TimerGoto(r, "fire", "first") /\ "first" \in PCs
    BY DEF Fire, PCs
  <2> QED
    BY <1>1, <2>1, Gone
<1>12. /\ hit \subseteq hit' /\ hit' \subseteq Windows
       /\ \A q \in Runs : q # r /\ Holds(q) => "tmp" \in hit'
       /\ adding # NoTimer => "link" \in hit'
  <2>1. hit' = hit \cup Open(Runs \ {r}) \cup Linking
    BY DEF Fire
  <2> QED
    BY <1>1, <2>1 DEF Open, Linking, Windows, TimerTypeOK
<1>4. t \in Timers
  BY <1>1, <1>3 DEF Firing
<1>5. /\ timer_list' \in Seq(Timers) /\ ToSet(timer_list') = ToSet(timer_list) \ {t}
      /\ IsInjective(timer_list')
  BY <1>1, <1>2, RemovalApart, ZenonT(40) DEF TimerTypeOK, Once
<1>6. /\ fired' \in [Timers -> Nat] /\ fired'[t] = fired[t] + 1
      /\ \A u \in Timers : u # t => fired'[u] = fired[u]
  BY <1>1, <1>2, <1>4 DEF TimerTypeOK
<1>7. TimerTypeOK'
  <2>1. tmp' \in [Runs -> Timers \cup {NoTimer}]
    BY <1>1, <1>2 DEF TimerTypeOK
  <2>2. fault' \in BOOLEAN
    BY <1>2
  <2> QED
    BY <1>1, <1>2, <1>3, <1>5, <1>6, <1>12, <2>1, <2>2 DEF TimerTypeOK
<1>8. Firing'
  <2>1. \A q \in Runs : Holds(q)' => q # r /\ Holds(q) /\ "tmp" \in hit' /\ tmp'[q] = tmp[q]
    BY <1>1, <1>2, <1>3, <1>12 DEF TimerTypeOK, Holds
  <2>2. \A q \in Runs : timer_pc'[q] = "fire" => timer_pc[q] = "fire" /\ tmp'[q] = tmp[q]
    BY <1>1, <1>2, <1>3 DEF TimerTypeOK
  <2> QED
    BY <1>1, <2>1, <2>2 DEF Firing
<1>9. Placed'
  BY <1>2, <1>12 DEF Placed
<1>10. FaultsByWindow'
  <2>1. t \notin ToSet(timer_list) => "tmp" \in hit
    BY <1>1, <1>3, <1>4, TimerAssumption DEF Firing, Holds, FaultsByWindow
  <2> QED
    BY <1>2, <1>12, <2>1 DEF FaultsByWindow
<1>11. Once'
  <2> SUFFICES ASSUME t \in ToSet(timer_list) PROVE Once'
    BY <1>2 DEF Once
  <2>1. /\ fired[t] = 0 /\ t # adding /\ ToSet(timer_list') \subseteq Timers
    BY <1>1, <1>5, ElementOfSeq, LenProperties DEF Once, ToSet
  <2>2. fired'[t] = 1
    BY <1>6, <2>1
  <2>3. \A u \in Timers : fired'[u] \in {0, 1}
    BY <1>1, <1>6, <2>2 DEF Once
  <2>4. \A u \in ToSet(timer_list') : fired'[u] = 0 /\ u # adding
    BY <1>1, <1>5, <1>6, <2>1 DEF Once
  <2>5. adding # NoTimer => fired'[adding] = 0
    BY <1>1, <1>6, <2>1 DEF Once, TimerTypeOK
  <2>6. \A u \in Timers : expire_jiffies[u] # 0 =>
          u \in ToSet(timer_list') \/ u = adding \/ fired'[u] = 1
    BY <1>1, <1>5, <1>6, <2>2 DEF Once
  <2> QED
    BY <1>2, <1>5, <2>3, <2>4, <2>5, <2>6 DEF Once
<1> QED
  BY <1>7, <1>8, <1>9, <1>10, <1>11 DEF TInv

LEMMA InitTimerStep ==
  ASSUME TInv, ~fault, NEW t \in Timers, NEW delay \in 0..MaxJiffies, InitTimer(t, delay)
  PROVE  TInv'
PROOF
<1>1. TimerTypeOK /\ Firing /\ Once /\ Placed /\ FaultsByWindow
  BY DEF TInv
<1>2. /\ adding = NoTimer /\ t \notin ToSet(timer_list) /\ fired[t] = 0
      /\ expire_jiffies' = [expire_jiffies EXCEPT ![t] = jiffies + delay]
      /\ adding' = t /\ behind' = NotBefore(timer_list, jiffies + delay)
      /\ UNCHANGED <<jiffies, timer_list, timer_sirq, timer_pc, tmp, fired, fault,
                     hit>>
  BY DEF InitTimer
<1>4. behind' \in ToSet(timer_list) \cup {NoTimer} /\ ToSet(timer_list) \subseteq Timers
  BY <1>1, <1>2, PlaceFound, ElementOfSeq, LenProperties DEF TimerTypeOK, ToSet
<1>5. jiffies + delay \in 0..MaxJiffies
  <2>1. jiffies \in 0..MaxJiffies /\ jiffies + delay <= MaxJiffies /\ MaxJiffies \in Nat
    BY <1>1, TimerAssumption DEF InitTimer, TimerTypeOK
  <2> QED
    BY <2>1
<1>6. /\ expire_jiffies' \in [Timers -> 0..MaxJiffies]
      /\ \A u \in Timers : u # t => expire_jiffies'[u] = expire_jiffies[u]
  BY <1>1, <1>2, <1>5 DEF TimerTypeOK
<1>7. TimerTypeOK'
  BY <1>1, <1>2, <1>4, <1>6 DEF TimerTypeOK
<1>8. Once'
  <2>1. /\ IsInjective(timer_list) /\ \A u \in Timers : fired[u] \in {0, 1}
        /\ \A u \in ToSet(timer_list) : fired[u] = 0 /\ u # t
    BY <1>1, <1>2 DEF Once
  <2>2. \A u \in Timers : expire_jiffies'[u] # 0 =>
          u \in ToSet(timer_list) \/ u = t \/ fired[u] = 1
    BY <1>1, <1>2, <1>6, TimerAssumption DEF Once
  <2> QED
    BY <1>2, <2>1, <2>2 DEF Once
<1>9. Firing' /\ Placed' /\ FaultsByWindow'
  BY <1>1, <1>2, <1>4 DEF Firing, Holds, Placed, FaultsByWindow
<1> QED
  BY <1>7, <1>8, <1>9 DEF TInv

LEMMA AddLinkStep == ASSUME TInv, ~fault, AddLink PROVE TInv'
PROOF
<1>1. TimerTypeOK /\ Firing /\ Once /\ Placed /\ FaultsByWindow
  BY DEF TInv
<1>2. /\ adding # NoTimer /\ adding' = NoTimer /\ behind' = NoTimer
      /\ UNCHANGED <<jiffies, expire_jiffies, timer_sirq, timer_pc, tmp, fired, hit>>
  BY DEF AddLink
<1>4. CASE /\ behind \in ToSet(timer_list) \cup {NoTimer}
           /\ timer_list' = Linked(timer_list, adding, behind)
           /\ UNCHANGED fault
  <2>1. adding \in Timers /\ adding \notin ToSet(timer_list) /\ fired[adding] = 0
    BY <1>1, <1>2 DEF Once, TimerTypeOK
  <2>2. /\ timer_list' \in Seq(Timers) /\ ToSet(timer_list') = ToSet(timer_list) \cup {adding}
        /\ IsInjective(timer_list')
    BY <1>1, <1>4, <2>1, LinkedOnce DEF Once, TimerTypeOK
  <2>3. TimerTypeOK'
    BY <1>1, <1>2, <1>4, <2>2 DEF TimerTypeOK
  <2>4. \A u \in ToSet(timer_list') : fired[u] = 0 /\ u # NoTimer
    <3>1. \A u \in ToSet(timer_list) : u \in Timers /\ fired[u] = 0
      BY <1>1, ElementOfSeq, LenProperties DEF Once, TimerTypeOK, ToSet
    <3> QED
      BY <2>1, <2>2, <3>1, TimerAssumption
  <2>5. Once'
    BY <1>1, <1>2, <1>4, <2>2, <2>4 DEF Once
  <2>6. Firing' /\ Placed' /\ FaultsByWindow'
    BY <1>1, <1>2, <1>4, <2>2 DEF Firing, Holds, Placed, FaultsByWindow
  <2> QED
    BY <2>3, <2>5, <2>6 DEF TInv
<1>5. CASE /\ behind \notin ToSet(timer_list) \cup {NoTimer}
           /\ fault' = TRUE /\ UNCHANGED timer_list
  <2>1. "link" \in hit
    BY <1>1, <1>2, <1>5 DEF Placed
  <2>2. TimerTypeOK'
    BY <1>1, <1>2, <1>5 DEF TimerTypeOK
  <2>3. Once' /\ Placed' /\ FaultsByWindow'
    BY <1>2, <1>5, <2>1 DEF Once, Placed, FaultsByWindow
  <2>4. Firing'
    BY <1>1, <1>2, <1>5 DEF Firing, Holds
  <2> QED
    BY <2>2, <2>3, <2>4 DEF TInv
<1> QED
  BY <1>4, <1>5 DEF AddLink
-----------------------------------------------------------------------------
(* The theorem *)

LEMMA TInvInit == TimerInit => TInv
PROOF
<1> SUFFICES ASSUME TimerInit PROVE TInv
  OBVIOUS
<1>1. /\ timer_list \in Seq(Timers) /\ ToSet(timer_list) = {TestTimer} /\ IsInjective(timer_list)
      /\ TestTimer # NoTimer /\ TestTimer \in Timers
  BY TimerAssumption DEF TimerInit, ToSet, IsInjective
<1>2. expire_jiffies \in [Timers -> 0..MaxJiffies] /\ jiffies \in 0..MaxJiffies
  <2>1. PICK d \in 1..MaxJiffies :
          expire_jiffies = [t \in Timers |-> IF t = TestTimer THEN d ELSE 0]
    BY DEF TimerInit
  <2>2. d \in 0..MaxJiffies /\ 0 \in 0..MaxJiffies
    BY TimerAssumption
  <2> QED
    BY <2>1, <2>2 DEF TimerInit
<1>3. TimerTypeOK
  BY <1>1, <1>2 DEF TimerInit, TimerTypeOK, PCs
<1>4. Once
  <2>1. \A t \in Timers : expire_jiffies[t] # 0 => t = TestTimer
    BY DEF TimerInit
  <2> QED
    BY <1>1, <2>1 DEF TimerInit, Once
<1>5. Firing /\ Placed /\ FaultsByWindow
  BY DEF TimerInit, Firing, Holds, Placed, FaultsByWindow
<1> QED
  BY <1>3, <1>4, <1>5 DEF TInv

LEMMA TInvNext == TInv /\ [TimerNext]_timer_vars => TInv'
PROOF
<1> SUFFICES ASSUME TInv, [TimerNext]_timer_vars PROVE TInv'
  OBVIOUS
<1>1. CASE UNCHANGED timer_vars
  BY <1>1 DEF timer_vars, addVars, TInv, TimerTypeOK, Once, Firing, Holds, Placed, FaultsByWindow
<1>2. CASE Running
  BY <1>2, TickStep, OtherIntrStep, FirstStep, RunStep, FireStep, InitTimerStep, AddLinkStep
     DEF Running, AddTimer, DoSoftirq
<1> QED
  BY <1>1, <1>2 DEF TimerNext, Stopped

\* How often a list without repetitions has an entry.
LEMMA ListedOnce ==
  ASSUME NEW s \in Seq(Timers), IsInjective(s), NEW t
  PROVE  Cardinality({i \in DOMAIN s : s[i] = t}) = IF t \in ToSet(s) THEN 1 ELSE 0
PROOF
<1> DEFINE here == {i \in DOMAIN s : s[i] = t}
<1>1. CASE t \in ToSet(s)
  <2>1. PICK i \in DOMAIN s : s[i] = t
    BY <1>1 DEF ToSet
  <2>2. here = {i}
    BY <2>1 DEF IsInjective
  <2> HIDE DEF here
  <2>3. Cardinality(here) = 1
    BY <2>2, FS_Singleton
  <2> QED
    BY <1>1, <2>3 DEF here
<1>2. CASE t \notin ToSet(s)
  <2>1. here = {}
    BY <1>2 DEF ToSet
  <2> QED
    BY <1>2, <2>1, FS_EmptySet
<1> QED
  BY <1>1, <1>2

\* However runs of do_softirq nest and interleave with each other, ticks and add_timer, a
\* timer is listed once and its function runs once, and none is removed or linked behind
\* that is not there, unless a timer is removed in one of two windows (timer.c:33, 74).
THEOREM TimersAreSound == TimerSpec => []ListSound
PROOF
<1>1. TInv => ListSound
  <2> SUFFICES ASSUME TInv, ~fault, NEW t \in Timers
               PROVE  LET listed == Cardinality({i \in DOMAIN timer_list : timer_list[i] = t})
                          sum == fired[t] + listed + (IF adding = t THEN 1 ELSE 0)
                      IN sum <= 1 /\ (expire_jiffies[t] # 0 => sum = 1)
    BY DEF TInv, ListSound, OnceEach
  <2>1. /\ timer_list \in Seq(Timers) /\ IsInjective(timer_list) /\ t # NoTimer
        /\ fired[t] \in {0, 1}
        /\ t \in ToSet(timer_list) => fired[t] = 0 /\ t # adding
        /\ t = adding => fired[t] = 0
        /\ expire_jiffies[t] # 0 => t \in ToSet(timer_list) \/ t = adding \/ fired[t] = 1
    BY TimerAssumption DEF TInv, TimerTypeOK, Once
  <2>2. Cardinality({i \in DOMAIN timer_list : timer_list[i] = t})
          = IF t \in ToSet(timer_list) THEN 1 ELSE 0
    BY <2>1, ListedOnce
  <2> QED
    BY <2>1, <2>2
<1>2. TimerSpec => []TInv
  BY TInvInit, TInvNext, PTL DEF TimerSpec
<1> QED
  BY <1>1, <1>2, PTL
=============================================================================
