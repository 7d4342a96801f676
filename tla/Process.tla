------------------------------ MODULE Process ------------------------------
(***************************************************************************)
(* What a task owns: its table of struct files and its mm_struct with the  *)
(* page tables and frames behind it.  do_fork copies them or, for vfork,   *)
(* shares them; do_execve, do_exit and sys_wait4 give them back (task.c,   *)
(* sys.c); PF_VFORK says whose they are.  Tasks preempt one another in the *)
(* kernel as well: where a call reads what another task with the same mm   *)
(* may change, or uses later what it has read, it has a step of its own.   *)
(* Lifecycle has the steps of fork, exit and wait4 that only concern pids, *)
(* lists and wakeups.                                                      *)
(***************************************************************************)
EXTENDS Integers, FiniteSets, FiniteSetsExt

CONSTANTS
  Tasks, Files, Mms,  \* what kmalloc has for task_structs, struct files and mm_structs
  InitTask,           \* the task of init()
  NULL,
  InitMm,             \* init_mm
  TASK_FILE_MAX,      \* 10 in the code
  NrFrames,           \* frames of 2M for user memory
  MaxHeap,            \* the most frames a heap is asked to have
  MaxExecs, MaxHits   \* bounds on the execs and on the kinds of event in a behaviour,
                      \* for model checking

ASSUME ProcessAssumption ==
  /\ Tasks \cup Files \cup Mms \subseteq Nat \ {0}
  /\ IsFiniteSet(Files) /\ IsFiniteSet(Mms)
  /\ InitTask \in Tasks /\ NULL \notin Nat /\ InitMm \notin Nat
  /\ TASK_FILE_MAX \in Nat \ {0} /\ NrFrames \in Nat \ {0}
  /\ MaxHeap \in Nat \ {0} /\ {MaxExecs, MaxHits} \subseteq Nat

VARIABLES
  state,        \* of a task_struct; "NONE" is not allocated, "NEW" do_fork is making
  vfork,        \* the tasks with PF_VFORK
  file_struct,  \* task_struct.file_struct
  mm,           \* task_struct.mm
  files,        \* the struct files of them that are allocated
  binaries,     \* how many more do_execve has allocated, and left behind
  mms,          \* the mm_structs that are, each with its tables
  mapped,       \* of an mm: what has a frame, 0 for the code and the stack, 1 and on
                \* for the heap from start_brk
  end_brk,      \* of an mm: frames from start_brk to end_brk; Beyond after a failure
  frames,       \* the number of frames that are allocated
  pc,           \* where a task is: "init", "user" or a point of a call
  filp,         \* the local of sys_read and sys_write
  child,        \* the local tsk of do_fork, while it copies
  brk,          \* the locals of sys_brk and do_brk: the frame it is at, the last one
  opened,       \* history: the descriptors a task's program has open, as it knows
  hit,          \* history: the events below
  fault         \* history: what the kernel has run into

tables == <<file_struct, files, opened, binaries>>
spaces == <<mm, mms, mapped, end_brk, frames>>
locals == <<filp, child, brk>>
vars == <<state, vfork, tables, spaces, pc, locals, hit, fault>>

FDs == 0..TASK_FILE_MAX - 1
Beyond == MaxHeap + 1  \* sys_brk has stored -ENOMEM into end_brk
NoBrk == [at |-> 0, to |-> 0]

TaskPCs == {"init", "user", "read", "copy", "exec_new", "exec",
        "brk", "brk_test", "brk_set", "brk_store"}

\* What the code does not expect, by what it comes from.
Events ==
  {"close_shared",   \* a file was closed that another task has from a vfork
   "exec_shared",    \* a task whose table or memory a vforked one shares did an exec
   "left_behind",    \* such a task exited
   "open_in_vfork",  \* a vforked task opened a file
   "fork_in_vfork",  \* a vforked task forked
   "exec_failed",    \* a vforked task's exec did not find the file
   "bad_fd",         \* a program used a descriptor that it has not open
   "heap_cut",       \* a task with more than one frame of heap forked
   "brk_failed",     \* there was no frame for the heap
   "brk_left",       \* a task with a heap was reaped
   "exec_preempted", \* a vforked task lost the processor while its new mm had no tables
   "args_lost",      \* a vforked task's exec had arguments
   "brk_race",       \* two tasks found the same place in one heap empty
   "end_in_copy"}    \* end_brk fell while a task with that mm was copying it
Faults == {"none", "null_file", "past_table", "freed_file", "freed_mm", "no_program",
           "unmapped_heap", "no_frame", "bad_cr3", "bad_args"}
-----------------------------------------------------------------------------
Existing == {t \in Tasks : state[t] # "NONE"}
Alive == {t \in Tasks : state[t] = "ALIVE"}
Used(t) == {fd \in FDs : file_struct[t][fd] # NULL}
Table(t) == {file_struct[t][fd] : fd \in Used(t)}

\* The other live tasks with t's mm.
Sharers(t) == {u \in Alive \ {t} : mm[u] = mm[t]}

\* What other live tasks would lose with t's.
Shared(t) ==
  Sharers(t) # {} \/ \E u \in Alive \ {t} : Table(u) \cap Table(t) # {}

\* kmalloc gives what is free from the lowest address on.
Nth(S, k) == CHOOSE x \in S : Cardinality({y \in S : y < x}) = k - 1
First(S) == Nth(S, 1)

In(t, point) == state[t] = "ALIVE" /\ pc[t] = point /\ mm[t] \in mms
Ready(t) == In(t, "user")
Hit(more) == hit' = hit \cup more /\ (hit' # hit => Cardinality(hit) < MaxHits)
When(c, event) == IF c THEN {event} ELSE {}

\* The kernel stops: nothing is known of what comes after.
Fail(what, event) ==
  /\ fault' = what /\ Hit(event)
  /\ UNCHANGED <<state, vfork, tables, spaces, pc, locals>>
-----------------------------------------------------------------------------
(* Files.  Operators named for what they do wrong, here and below, are variants    *)
(* of the next one that a slip would give.                                         *)

\* sys_open, when the path is found, and a descriptor free; else nothing changes.
Open(t) ==
  LET free == FDs \ Used(t)
      f == First(Files \ files)
      fd == Min(free)
  IN /\ Ready(t) /\ free # {} /\ Files \ files # {}
     /\ files' = files \cup {f}
     /\ file_struct' = [file_struct EXCEPT ![t][fd] = f]
     /\ opened' = [opened EXCEPT ![t] = @ \cup {fd}]
     /\ Hit(When(t \in vfork, "open_in_vfork"))
     /\ UNCHANGED <<state, vfork, spaces, pc, locals, binaries, fault>>

\* What file_struct[fd] is good for.  sys_getdents lets fd = TASK_FILE_MAX through
\* (sys.c:389); nobody tests for NULL.
Look(t, fd) ==
  CASE fd = TASK_FILE_MAX -> "past_table"
    [] fd \in FDs \ Used(t) -> "null_file"
    [] fd \in Used(t) ->
         IF file_struct[t][fd] \in files THEN "none" ELSE "freed_file"

BadLook(t, fd) ==
  /\ Ready(t) /\ Look(t, fd) # "none"
  /\ Fail(Look(t, fd), When(fd \notin opened[t], "bad_fd"))

\* sys_close
Close(t, fd) ==
  LET f == file_struct[t][fd]
  IN /\ Ready(t) /\ Look(t, fd) = "none"
     /\ files' = files \ {f}
     /\ file_struct' = [file_struct EXCEPT ![t][fd] = NULL]
     /\ opened' = [opened EXCEPT ![t] = @ \ {fd}]
     /\ Hit(When(\E u \in Alive \ {t} : f \in Table(u), "close_shared"))
     /\ UNCHANGED <<state, vfork, spaces, pc, locals, binaries, fault>>

\* sys_read, sys_write, sys_lseek and sys_getdents, until the driver sleeps.  If no
\* other task has the file nothing can come of it.
Read(t, fd) ==
  /\ Ready(t) /\ Look(t, fd) = "none"
  /\ \E u \in Alive \ {t} : file_struct[t][fd] \in Table(u)
  /\ pc' = [pc EXCEPT ![t] = "read"]
  /\ filp' = [filp EXCEPT ![t] = file_struct[t][fd]]
  /\ UNCHANGED <<state, vfork, tables, spaces, child, brk, hit, fault>>

\* The driver moves filp->position.
ReadDone(t) ==
  /\ In(t, "read")
  /\ \/ /\ filp[t] \in files
        /\ pc' = [pc EXCEPT ![t] = "user"] /\ filp' = [filp EXCEPT ![t] = NULL]
        /\ UNCHANGED <<state, vfork, tables, spaces, child, brk, hit, fault>>
     \/ filp[t] \notin files /\ Fail("freed_file", {})
-----------------------------------------------------------------------------
(* fork and vfork *)

CopiesShared(t) == [fd \in FDs |-> file_struct[t][fd]]

\* copy_files: a struct file for each, in the order of the descriptors.
Copies(t) ==
  [fd \in FDs |->
     IF fd \notin Used(t) THEN NULL
     ELSE Nth(Files \ files, Cardinality(Used(t) \cap 0..fd))]

\* do_fork without CLONE_VM and CLONE_FS, until copy_mm has copied the mm_struct and
\* the frame of the code: PF_VFORK is copied with the task_struct.  A heap of more than
\* one frame will be cut (task.c:344-353).
Fork(t) ==
  LET c == First(Tasks \ Existing)
      m == First(Mms \ mms)
  IN /\ Ready(t) /\ Tasks # Existing /\ Mms # mms /\ frames < NrFrames
     /\ state' = [state EXCEPT ![c] = "NEW"]
     /\ vfork' = vfork \cup (IF t \in vfork THEN {c} ELSE {})
     /\ mms' = mms \cup {m} /\ mm' = [mm EXCEPT ![c] = m]
     /\ mapped' = [mapped EXCEPT ![m] = {0}]
     /\ end_brk' = [end_brk EXCEPT ![m] = end_brk[mm[t]]]
     /\ frames' = frames + 1
     /\ child' = [child EXCEPT ![t] = c] /\ pc' = [pc EXCEPT ![t] = "copy"]
     /\ Hit(When(t \in vfork, "fork_in_vfork") \cup When(end_brk[mm[t]] \in 2..MaxHeap, "heap_cut"))
     /\ UNCHANGED <<tables, filp, brk, fault>>

\* current->mm->end_brk is read again: what copy_mm copies of the heap now.
HeapToCopy(t) == IF end_brk[mm[t]] = 0 THEN {} ELSE {1}

\* The rest of copy_mm and of do_fork, to wakeup_process.
ForkHeap(t) ==
  LET c == child[t]
      heap == HeapToCopy(t)
  IN /\ In(t, "copy") /\ mm[c] \in mms /\ heap \subseteq mapped[mm[t]]
     /\ frames + Cardinality(heap) <= NrFrames
     /\ Cardinality(Files \ files) >= Cardinality(Used(t))
     /\ mapped' = [mapped EXCEPT ![mm[c]] = @ \cup heap]
     /\ frames' = frames + Cardinality(heap)
     /\ file_struct' = [file_struct EXCEPT ![c] = Copies(t)]
     /\ files' = files \cup ({Copies(t)[fd] : fd \in FDs} \ {NULL})
     /\ opened' = [opened EXCEPT ![c] = opened[t]]
     /\ state' = [state EXCEPT ![c] = "ALIVE"]
     /\ child' = [child EXCEPT ![t] = NULL] /\ pc' = [pc EXCEPT ![t] = "user"]
     /\ UNCHANGED <<vfork, binaries, mm, mms, end_brk, filp, brk, hit, fault>>

\* The heap that end_brk tells of is not there to be copied.
ForkFails(t) ==
  /\ In(t, "copy") /\ ~(HeapToCopy(t) \subseteq mapped[mm[t]])
  /\ Fail("unmapped_heap", {})

\* No frame is left: alloc_pages gives NULL, which copy_mm does not test for.
ForkNoFrame(t) ==
  /\ Ready(t) \/ (In(t, "copy") /\ HeapToCopy(t) # {})
  /\ frames = NrFrames
  /\ Fail("no_frame", {})

\* do_fork with both flags: pointers are copied, and the parent runs on.
VFork(t) ==
  LET c == First(Tasks \ Existing)
  IN /\ Ready(t) /\ Tasks # Existing
     /\ state' = [state EXCEPT ![c] = "ALIVE"]
     /\ vfork' = vfork \cup {c}
     /\ mm' = [mm EXCEPT ![c] = mm[t]]
     /\ file_struct' = [file_struct EXCEPT ![c] = file_struct[t]]
     /\ opened' = [opened EXCEPT ![c] = opened[t]]
     /\ UNCHANGED <<files, binaries, mms, mapped, end_brk, frames, pc, locals, hit, fault>>
-----------------------------------------------------------------------------
(* exit_files *)

FreedAlways(t) == Table(t)

\* What exit_files frees.
Freed(t) == IF t \in vfork THEN {} ELSE Table(t)

\* kfree of a struct file that is free already.
FreedTwice(t) ==
  t \notin vfork /\ (~(Freed(t) \subseteq files) \/ Cardinality(Freed(t)) < Cardinality(Used(t)))
NoFiles == [fd \in FDs |-> NULL]
-----------------------------------------------------------------------------
(* do_execve *)

\* A vforked task gets an mm of its own, with a frame for the code, and cr3 is loaded
\* from it; then open_exec_file sleeps.
ExecMap(t) ==
  LET m == First(Mms \ mms)
  IN /\ Ready(t) \/ pc[t] = "init"
     /\ pc' = [pc EXCEPT ![t] = "exec"]
     /\ \/ t \notin vfork /\ UNCHANGED spaces
        \/ /\ t \in vfork /\ Mms # mms /\ frames < NrFrames
           /\ mms' = mms \cup {m} /\ mm' = [mm EXCEPT ![t] = m]
           /\ mapped' = [mapped EXCEPT ![m] = {0}]
           /\ frames' = frames + 1
           /\ UNCHANGED end_brk
     /\ UNCHANGED <<state, vfork, tables, locals, hit, fault>>

\* It is preempted after current->mm is set and before the page of tables is in it and
\* has its kernel half (task.c:101-107).
ExecPreempted(t) ==
  LET m == First(Mms \ mms)
  IN /\ Ready(t) \/ pc[t] = "init"
     /\ t \in vfork /\ Mms # mms
     /\ pc' = [pc EXCEPT ![t] = "exec_new"]
     /\ mms' = mms \cup {m} /\ mm' = [mm EXCEPT ![t] = m]
     /\ Hit({"exec_preempted"})
     /\ UNCHANGED <<state, vfork, tables, mapped, end_brk, frames, locals, fault>>

\* switch_mm loads cr3 from what pgd is then: zero, a page of anything, or, if the memory
\* was an mm's or a pgd's before, tables the kernel can go on with.
ExecResumed(t) ==
  /\ In(t, "exec_new")
  /\ \/ /\ frames < NrFrames
        /\ pc' = [pc EXCEPT ![t] = "exec"]
        /\ mapped' = [mapped EXCEPT ![mm[t]] = @ \cup {0}]
        /\ frames' = frames + 1
        /\ UNCHANGED <<state, vfork, tables, mm, mms, end_brk, locals, hit, fault>>
     \/ Fail("bad_cr3", {})

ExecNoFrame(t) ==
  /\ Ready(t) \/ pc[t] \in {"init", "exec_new"}
  /\ t \in vfork /\ frames = NrFrames
  /\ Fail("no_frame", {})

FlagKept(t) == vfork
\* current->flags &= ~PF_VFORK
FlagCleared(t) == vfork \ {t}

\* t stores a lower end of its heap while another task copies that mm.
Lowered(t, end) == When(end < end_brk[mm[t]] /\ (\E u \in Sharers(t) : pc[u] = "copy"), "end_in_copy")

\* The file is there: the rest of do_execve, whose own struct file is never freed.
\* The frames of an old heap stay mapped.
ExecLoad(t) ==
  /\ In(t, "exec")
  /\ binaries < MaxExecs /\ ~FreedTwice(t)
  /\ pc' = [pc EXCEPT ![t] = "user"]
  /\ files' = files \ Freed(t)
  /\ binaries' = binaries + 1
  /\ file_struct' = [file_struct EXCEPT ![t] = NoFiles]
  /\ opened' = [opened EXCEPT ![t] = {}]
  /\ end_brk' = [end_brk EXCEPT ![mm[t]] = 0]
  /\ vfork' = FlagCleared(t)
  /\ Hit(When(t \notin vfork /\ Shared(t), "exec_shared") \cup Lowered(t, 0))
  /\ UNCHANGED <<state, mm, mms, mapped, frames, locals, fault>>

\* argv is read when cr3 is the new mm's (task.c:133, 166-169): a vforked task finds there
\* what the frame held before, or nothing.  What it makes of the first is ExecLoad.  Only
\* the exec of init() has no argv.
ExecArgs(t) ==
  /\ In(t, "exec") /\ t \in vfork /\ binaries > 0
  /\ Fail("bad_args", {"args_lost"})

ExecFreedTwice(t) ==
  /\ state[t] = "ALIVE" /\ pc[t] = "exec" /\ FreedTwice(t)
  /\ Fail("freed_file", {})

\* The file is not there: a vforked task has left the memory its program was in.
ExecMissing(t) ==
  /\ In(t, "exec")
  /\ \/ /\ t \notin vfork
        /\ pc' = [pc EXCEPT ![t] = "user"]
        /\ UNCHANGED <<state, vfork, tables, spaces, locals, hit, fault>>
     \/ t \in vfork /\ Fail("no_program", {"exec_failed"})
-----------------------------------------------------------------------------
(* sys_brk and do_brk.  current->mm->end_brk is read for the test (sys.c:318), for each   *)
(* argument of do_brk (321), and stored twice (memory.c:1150, sys.c:323).                *)

BrkPaths == <<state, vfork, tables, mm, mms, filp, child, fault>>

\* sys_brk to n frames; a lower end is refused.
Brk(t, n) ==
  /\ Ready(t) /\ n >= end_brk[mm[t]]
  /\ pc' = [pc EXCEPT ![t] = "brk"]
  /\ brk' = [brk EXCEPT ![t] = [at |-> 0, to |-> n]]
  /\ UNCHANGED <<BrkPaths, mapped, end_brk, frames, hit>>

\* The loop begins above the end that is read as addr.  Where it ends depends on the other
\* read: anywhere, if another task may move the end between the two.
BrkStart(t) ==
  /\ In(t, "brk")
  /\ \E to \in IF Sharers(t) # {} THEN 0..MaxHeap ELSE {brk[t].to} :
       brk' = [brk EXCEPT ![t] = [at |-> end_brk[mm[t]] + 1, to |-> to]]
  /\ pc' = [pc EXCEPT ![t] = "brk_test"]
  /\ UNCHANGED <<BrkPaths, mapped, end_brk, frames, hit>>

\* The next frame of the loop: past what is mapped, or on to alloc_pages.
BrkTest(t) ==
  LET at == brk[t].at
      here == {u \in Sharers(t) : pc[u] = "brk_set" /\ brk[u].at = at}
  IN /\ In(t, "brk_test") /\ at <= brk[t].to
     /\ \/ /\ at \in mapped[mm[t]]
           /\ brk' = [brk EXCEPT ![t].at = at + 1]
           /\ UNCHANGED <<pc, hit>>
        \/ /\ at \notin mapped[mm[t]]
           /\ pc' = [pc EXCEPT ![t] = "brk_set"]
           /\ Hit(When(here # {}, "brk_race"))
           /\ UNCHANGED brk
     /\ UNCHANGED <<BrkPaths, mapped, end_brk, frames>>

\* set_pdt writes over whatever is there.  Without a frame sys_brk gets -ENOMEM, and
\* takes it for the new end.
BrkSet(t) ==
  /\ In(t, "brk_set")
  /\ \/ /\ frames < NrFrames
        /\ frames' = frames + 1 /\ mapped' = [mapped EXCEPT ![mm[t]] = @ \cup {brk[t].at}]
        /\ pc' = [pc EXCEPT ![t] = "brk_test"]
        /\ brk' = [brk EXCEPT ![t].at = @ + 1]
        /\ UNCHANGED hit
     \/ /\ frames = NrFrames
        /\ pc' = [pc EXCEPT ![t] = "brk_store"]
        /\ brk' = [brk EXCEPT ![t].at = Beyond + 1]
        /\ Hit({"brk_failed"})
        /\ UNCHANGED <<mapped, frames>>
  /\ UNCHANGED <<BrkPaths, end_brk>>

\* The end of do_brk, or of sys_brk.
StoresEnd(t, next, locals_left) ==
  LET end == brk[t].at - 1
  IN /\ end_brk' = [end_brk EXCEPT ![mm[t]] = end]
     /\ Hit(Lowered(t, end))
     /\ pc' = [pc EXCEPT ![t] = next]
     /\ brk' = [brk EXCEPT ![t] = locals_left]
     /\ UNCHANGED <<BrkPaths, mapped, frames>>

BrkEnd(t) ==
  /\ In(t, "brk_test") /\ brk[t].at > brk[t].to
  /\ StoresEnd(t, "brk_store", brk[t])
BrkStore(t) ==
  /\ In(t, "brk_store")
  /\ StoresEnd(t, "user", NoBrk)
-----------------------------------------------------------------------------
(* do_exit and sys_wait4 *)

Exit(t) ==
  /\ Ready(t)
  /\ \/ /\ ~FreedTwice(t)
        /\ state' = [state EXCEPT ![t] = "ZOMBIE"]
        /\ files' = files \ Freed(t)
        /\ file_struct' = [file_struct EXCEPT ![t] = NoFiles]
        /\ opened' = [opened EXCEPT ![t] = {}]
        /\ Hit(When(t \notin vfork /\ Shared(t), "left_behind"))
        /\ UNCHANGED <<vfork, spaces, pc, locals, binaries, fault>>
     \/ FreedTwice(t) /\ Fail("freed_file", {})

\* sys_wait4 of any zombie, with exit_mm: of the frames it frees that of the code only.
Reap(t, c) ==
  LET m == mm[c]
  IN /\ Ready(t) /\ state[c] = "ZOMBIE"
     /\ state' = [state EXCEPT ![c] = "NONE"]
     /\ vfork' = vfork \ {c}
     /\ mm' = [mm EXCEPT ![c] = InitMm]
     /\ \/ c \in vfork /\ UNCHANGED <<mms, mapped, end_brk, frames, hit>>
        \/ /\ c \notin vfork /\ m \in mms /\ 0 \in mapped[m]
           /\ mms' = mms \ {m} /\ frames' = frames - 1
           /\ mapped' = [mapped EXCEPT ![m] = {}] /\ end_brk' = [end_brk EXCEPT ![m] = 0]
           /\ Hit(When(mapped[m] # {0}, "brk_left"))
     /\ UNCHANGED <<tables, pc, locals, fault>>

\* The mm_structs t runs in and copies to.
MmsInUse(t) == {mm[u] : u \in {t} \cup (IF pc[t] = "copy" THEN {child[t]} ELSE {})}

\* A task runs whose page tables are free, or are filled while they are; or exit_mm frees
\* them again, or for another task before it has put anything there.
FreedMm(t) ==
  /\ \/ t \in Alive /\ pc[t] # "init" /\ ~(MmsInUse(t) \subseteq mms)
     \/ /\ state[t] = "ZOMBIE" /\ t \notin vfork
        /\ mm[t] \in mms => 0 \notin mapped[mm[t]]
        /\ \E u \in Tasks : Ready(u)
  /\ Fail("freed_mm", {})
-----------------------------------------------------------------------------
\* The thread that kernel_thread has made of init(): vforked from idle.
Init ==
  /\ state = [t \in Tasks |-> IF t = InitTask THEN "ALIVE" ELSE "NONE"]
  /\ vfork = {InitTask}
  /\ file_struct = [t \in Tasks |-> NoFiles]
  /\ mm = [t \in Tasks |-> InitMm]
  /\ files = {} /\ mms = {} /\ frames = 0
  /\ mapped = [m \in Mms |-> {}] /\ end_brk = [m \in Mms |-> 0]
  /\ pc = [t \in Tasks |-> IF t = InitTask THEN "init" ELSE "user"]
  /\ filp = [t \in Tasks |-> NULL] /\ child = [t \in Tasks |-> NULL]
  /\ brk = [t \in Tasks |-> NoBrk]
  /\ opened = [t \in Tasks |-> {}]
  /\ binaries = 0 /\ hit = {} /\ fault = "none"

FileCalls(t) ==
  \/ Open(t) \/ ReadDone(t)
  \/ \E fd \in FDs : Close(t, fd) \/ Read(t, fd)
  \/ \E fd \in 0..TASK_FILE_MAX : BadLook(t, fd)
Forks(t) == Fork(t) \/ ForkHeap(t) \/ ForkFails(t) \/ ForkNoFrame(t) \/ VFork(t)
Execs(t) ==
  \/ ExecMap(t) \/ ExecPreempted(t) \/ ExecResumed(t) \/ ExecNoFrame(t)
  \/ ExecLoad(t) \/ ExecArgs(t) \/ ExecFreedTwice(t) \/ ExecMissing(t)
Brks(t) ==
  \/ \E n \in 0..MaxHeap : Brk(t, n)
  \/ BrkStart(t) \/ BrkTest(t) \/ BrkSet(t) \/ BrkEnd(t) \/ BrkStore(t)
Ends(t) == Exit(t) \/ (\E c \in Tasks : Reap(t, c)) \/ FreedMm(t)

Next ==
  /\ fault = "none"
  /\ \E t \in Tasks : FileCalls(t) \/ Forks(t) \/ Execs(t) \/ Brks(t) \/ Ends(t)

Spec == Init /\ [][Next]_vars
-----------------------------------------------------------------------------
(* Properties *)

\* Every variable keeps the type its C declaration and its use give it.
TypeOK ==
  /\ state \in [Tasks -> {"NONE", "NEW", "ALIVE", "ZOMBIE"}]
  /\ vfork \subseteq Tasks
  /\ file_struct \in [Tasks -> [FDs -> Files \cup {NULL}]]
  /\ mm \in [Tasks -> Mms \cup {InitMm}]
  /\ binaries \in 0..MaxExecs /\ files \subseteq Files /\ mms \subseteq Mms
  /\ mapped \in [Mms -> SUBSET (0..MaxHeap)] /\ end_brk \in [Mms -> 0..Beyond]
  /\ frames \in 0..NrFrames
  /\ pc \in [Tasks -> TaskPCs]
  /\ filp \in [Tasks -> Files \cup {NULL}] /\ child \in [Tasks -> Tasks \cup {NULL}]
  /\ brk \in [Tasks -> [at : 0..Beyond + 1, to : 0..MaxHeap]]
  /\ opened \in [Tasks -> SUBSET FDs]
  /\ hit \subseteq Events /\ fault \in Faults

Works == fault = "none"

\* Every frame that some page table maps.
MappedFrames == {h \in mms \X (0..MaxHeap) : h[2] \in mapped[h[1]]}

\* What one task does to what another has only borrowed, or lent.
Borrowing == {"close_shared", "exec_shared", "left_behind"}

\* Every descriptor and every address space of a live task is allocated, and the
\* descriptors are those its program has open, through all copies and inheritances
\* of fork, vfork and exec, unless a task has closed, replaced or left behind what
\* it shares by a vfork.
NoDangling ==
  Works /\ hit \cap Borrowing = {} => \A t \in Alive :
    /\ Table(t) \subseteq files
    /\ pc[t] # "init" => mm[t] \in mms
    /\ opened[t] = Used(t)

\* All memory of a live task below end_brk is mapped, so neither its program nor copy_mm
\* faults on it, unless a heap of more than one frame was forked (task.c:344-353), do_brk's
\* error was taken for an address (sys.c:321-323), the end was set back between two
\* reads of copy_mm, or the task's mm was freed and may be another's by now.
HeapMapped ==
  hit \cap {"heap_cut", "brk_failed", "end_in_copy", "left_behind"} = {} =>
    \A t \in Alive : mm[t] \in mms => 1..end_brk[mm[t]] \subseteq mapped[mm[t]]

\* The kernel dereferences NULL for a program only that uses a descriptor it has not
\* opened or has closed (sys.c:155), it uses or frees a freed struct file or address
\* space only after a vforked task and its parent came in each other's way, copies a heap
\* that is not there only after do_brk has failed or the mm was changed or freed under it,
\* and loads cr3 from an mm without tables only if a vforked exec was preempted.
FaultsByEvent ==
  /\ fault \in {"null_file", "past_table"} => "bad_fd" \in hit
  /\ fault = "freed_file" => hit \cap Borrowing # {}
  /\ fault = "freed_mm" => "left_behind" \in hit
  /\ fault = "unmapped_heap" => hit \cap {"brk_failed", "end_in_copy", "left_behind"} # {}
  /\ fault = "bad_cr3" => "exec_preempted" \in hit
  /\ fault = "bad_args" => "args_lost" \in hit

\* What tasks hold is there.
HoldingsSound == TypeOK /\ NoDangling /\ HeapMapped /\ FaultsByEvent

\* Nothing is allocated that nobody has: a struct file is in a live task's table or
\* is one of those every exec leaves behind (task.c:135), an address space belongs to
\* one task that will free it, a frame is mapped by one.  Left without an owner are only
\* what a vforked task has opened or its children were given (PF_VFORK is inherited,
\* task.c:266 and 434, and exit_files and exit_mm then free nothing), the heap of every
\* task that is reaped (task.c:369-379), and a frame that do_brk maps over another
\* because two tasks with one mm have found the place empty (memory.c:1141-1146).
NothingLeaks ==
  LET owners == {t \in Existing : t \notin vfork \/ pc[t] \in {"exec", "exec_new"}}
  IN Works /\ hit \cap (Borrowing \cup {"open_in_vfork", "fork_in_vfork"}) = {} =>
       /\ files = UNION {Table(t) : t \in Alive}
       /\ mms = {mm[t] : t \in owners}
       /\ \A t, u \in owners : t # u => mm[t] # mm[u]
       /\ hit \cap {"brk_left", "brk_race"} = {} => frames = Cardinality(MappedFrames)

\* Two tasks that have an open file or their memory in common come from a vfork: one
\* of them has the flag.  After fork and after exec nothing that a task does with its
\* files or its memory reaches another's, unless freed memory has been given out again.
SharedOnlyByVfork ==
  Works /\ hit \cap Borrowing = {} => \A t, u \in Alive :
    t # u /\ (mm[t] = mm[u] \/ Table(t) \cap Table(u) # {}) => {t, u} \cap vfork # {}
=============================================================================
