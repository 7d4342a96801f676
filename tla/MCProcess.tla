----------------------------- MODULE MCProcess -----------------------------
(* Process with bounds on what a behaviour combines and on where tasks interleave. *)
EXTENDS Process

Growing == {t \in Tasks : pc[t] \in {"brk", "brk_test", "brk_set", "brk_store"}}
InMm == Growing \cup {t \in Tasks : pc[t] = "copy"}

NoHeap == Growing = {} /\ \A m \in Mms : mapped[m] \subseteq {0}

\* No call uses both the table of files and the heap: a behaviour has one of them, and
\* with a heap two execs.
FilesOrHeaps == (files = {} /\ binaries <= 2) \/ NoHeap
NoDescriptors == fault' \in {"null_file", "past_table"} => NoHeap

\* Two tasks are in the middle of a brk or a fork only when there is no third that runs.
TwoInMm == Cardinality(InMm) <= 1 \/ Cardinality(Alive) = 2

\* A heap of two frames is made by a task that is alone with its mm: races are for the
\* first frame.
OneFrameRaced == \A t \in Growing : Sharers(t) # {} => brk[t].to <= 1

\* A behaviour has events of one kind, or an exec while a vforked task forks.
OneKind ==
  Cardinality(hit') <= 1 \/ hit' \subseteq {"fork_in_vfork", "exec_shared", "end_in_copy"}

\* After an event tasks use what they have, exec, exit and are reaped: no new open file,
\* no brk begun and, but after a brk that failed, no new task.
NothingNew ==
  hit # {} => /\ files' \subseteq files /\ Growing' \subseteq Growing
              /\ Existing' \subseteq Existing \/ hit = {"brk_failed"}

\* A task that is growing or copying an mm that no other task has is not disturbed: what
\* others do meanwhile could as well come before or after.
Undisturbed ==
  \A t \in InMm :
    Sharers(t) = {} => pc'[t] # pc[t] \/ brk'[t] # brk[t] \/ fault' # "none"
=============================================================================
