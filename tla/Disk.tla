-------------------------------- MODULE Disk --------------------------------
(***************************************************************************)
(* The disk driver's request queue (disk.c): a task submits a request,     *)
(* issues it itself when the drive is free, and sleeps; disk_handler counts*)
(* the sectors of the request under way, wakes its owner and issues the    *)
(* next one.  A submitting task runs with interrupts enabled, so its path  *)
(* is cut where an interrupt makes a difference; disk_handler with the way *)
(* back from it is one action.  The drive itself is external: it raises    *)
(* one interrupt for each sector of its command.                           *)
(***************************************************************************)
EXTENDS Dispatch, SequencesExt

CONSTANTS
  Nodes,      \* the block_buffer_nodes kmalloc may return
  NoNode,     \* NULL
  NoTask,     \* the owner of a node that is not allocated
  MaxSectors, \* the most sectors of a request
  MaxCount,   \* bound on the counts at a submit, for model checking
  MaxHits     \* bound on the windows interrupts land in, for model checking

ASSUME DiskAssumption ==
  /\ NoNode \notin Nodes
  /\ NoTask \notin AllTasks
  /\ MaxSectors \in Nat \ {0}
  /\ MaxCount \in Nat /\ MaxHits \in Nat

VARIABLES
  pc,                   \* where each task is in IDE_transfer
  node,                 \* the node each task is about to issue, in cmd_out
  owner,                \* node->wait_queue.tsk, NoTask of a free node
  count,                \* node->count, the sectors still to come
  requests,             \* disk_request.wait_queue_list, in order
  in_using,             \* disk_request.in_using
  block_request_count,  \* disk_request.block_request_count
  loaded,               \* the count a task has read to add to or take from
  device,               \* the node whose command the drive executes
  sectors,              \* how many sectors of it the drive still has to do
  irq,                  \* the drive has a sector ready and its interrupt is up
  hit                   \* history: the windows an interrupt has landed in

requestVars == <<requests, in_using, block_request_count>>
driveVars   == <<device, sectors, irq>>
localVars   == <<node, loaded>>
vars == <<dispatchVars, pc, localVars, owner, count, requestVars, driveVars, hit>>

(* The points of IDE_transfer between which the driver's state is half updated. *)
Counting   == {"count_load", "count_store"}      \* add_request: linked
Uncounting == {"uncount_load", "uncount_store"}  \* cmd_out: claimed
Deciding   == {"take", "claim"}                  \* in_using was found NULL
Leaving    == {"test", "sleep", "switch"}        \* not asleep yet
Windows == Counting \cup Uncounting \cup Deciding \cup Leaving \cup {"issue"}
PCs == Windows \cup {"run"}
-----------------------------------------------------------------------------
(* The drive *)

\* A sector is ready (read) or taken (write): BUSY falls, the interrupt rises.
SectorDone ==
  /\ device # NoNode /\ ~irq
  /\ irq' = TRUE
  /\ UNCHANGED <<dispatchVars, pc, localVars, owner, count, requestVars, device,
                 sectors, hit>>

\* The drive accepts a command, which restarts it whatever it was doing.
Command(n) == device' = n /\ sectors' = count[n] /\ irq' = FALSE

\* The interrupt handler reads the status and the data of a sector.
SectorRead ==
  /\ irq' = FALSE
  /\ sectors' = sectors - 1
  /\ device' = IF sectors = 1 THEN NoNode ELSE device
-----------------------------------------------------------------------------
(* IDE_transfer in the running task.  Operators named for what they do wrong,   *)
(* here and below, are variants of the next one that a slip would give.         *)

Goto(here, next) == pc[current] = here /\ pc' = [pc EXCEPT ![current] = next]

\* make_request and the list_add of add_request.
Submit(n, blocks) ==
  /\ current # Idle
  /\ owner[n] = NoTask
  /\ {block_request_count} \cup {loaded[t] : t \in Tasks} \subseteq -MaxCount..MaxCount
  /\ Goto("run", "count_load")
  /\ owner' = [owner EXCEPT ![n] = current]
  /\ count' = [count EXCEPT ![n] = blocks]
  /\ requests' = Append(requests, n)
  /\ UNCHANGED <<dispatchVars, localVars, in_using, block_request_count,
                 driveVars, hit>>

\* block_request_count++ and -- are a load and a store each.
LoadCount ==
  /\ Goto("count_load", "count_store") \/ Goto("uncount_load", "uncount_store")
  /\ loaded' = [loaded EXCEPT ![current] = block_request_count]
  /\ UNCHANGED <<dispatchVars, node, owner, count, requestVars, driveVars, hit>>

StoreCount ==
  /\ \/ /\ Goto("count_store", "test")
        /\ block_request_count' = loaded[current] + 1
     \/ /\ Goto("uncount_store", "issue")
        /\ block_request_count' = loaded[current] - 1
  /\ loaded' = [loaded EXCEPT ![current] = 0]
  /\ UNCHANGED <<dispatchVars, node, owner, count, requests, in_using, driveVars,
                 hit>>

TestIgnoringInUsing ==
  /\ Goto("test", "take")
  /\ UNCHANGED <<dispatchVars, localVars, owner, count, requestVars, driveVars, hit>>

\* submit: if(disk_request.in_using == NULL) cmd_out();
Test ==
  /\ Goto("test", IF in_using = NoNode THEN "take" ELSE "sleep")
  /\ UNCHANGED <<dispatchVars, localVars, owner, count, requestVars, driveVars, hit>>

\* cmd_out reads the first entry; that of an empty list is no request.
Take ==
  /\ Goto("take", "claim")
  /\ \/ /\ requests = <<>>
        /\ fault' = "no_request"
        /\ UNCHANGED node
     \/ /\ requests # <<>>
        /\ node' = [node EXCEPT ![current] = Head(requests)]
        /\ UNCHANGED fault
  /\ UNCHANGED <<current, state, queued, loaded, owner, count, requestVars,
                 driveVars, hit>>

\* in_using = node, and the list_del: an entry another cmd_out took is unlinked
\* twice, and may have been freed.
Claim ==
  /\ Goto("claim", "uncount_load")
  /\ in_using' = node[current]
  /\ requests' = RemoveFirst(requests, node[current])
  /\ fault' = IF node[current] \in ToSet(requests) THEN "none" ELSE "no_request"
  /\ UNCHANGED <<current, state, queued, localVars, owner, count,
                 block_request_count, driveVars, hit>>

\* The command, when the drive is not BUSY; with an interrupt still to be taken,
\* it goes over the command that caused it.
Issue ==
  /\ device = NoNode \/ irq
  /\ Goto("issue", "sleep")
  /\ Command(node[current])
  /\ fault' = IF device = NoNode THEN "none" ELSE "wrong_request"
  /\ node' = [node EXCEPT ![current] = NoNode]
  /\ UNCHANGED <<current, state, queued, loaded, owner, count, requestVars, hit>>

SleepSetStateForgotten ==
  /\ Goto("sleep", "switch")
  /\ UNCHANGED <<dispatchVars, localVars, owner, count, requestVars, driveVars, hit>>

\* wait_for_finish
SleepSetState ==
  /\ Goto("sleep", "switch")
  /\ state' = [state EXCEPT ![current] = "UNINTERRUPTIBLE"]
  /\ UNCHANGED <<current, queued, fault, localVars, owner, count, requestVars,
                 driveVars, hit>>

SleepSwitch ==
  /\ Goto("switch", "run")
  /\ Reschedule(state, queued)
  /\ UNCHANGED <<localVars, owner, count, requestVars, driveVars, hit>>
-----------------------------------------------------------------------------
(* Interrupts *)

\* An interrupt is taken: remember the window it landed in.
Interrupted ==
  /\ hit' = hit \cup ({pc[current]} \cap Windows)
  /\ Cardinality(hit') <= MaxHits

\* A tick, or any other interrupt that is none of the drive's.
Tick ==
  /\ RetFromIntr(state, queued)
  /\ Interrupted
  /\ UNCHANGED <<pc, localVars, owner, count, requestVars, driveVars>>

NextCommandUncounted ==
  /\ \/ block_request_count = 0 /\ in_using' = NoNode /\ SectorRead /\ UNCHANGED requests
     \/ /\ block_request_count # 0 /\ requests # <<>>
        /\ in_using' = Head(requests)
        /\ requests' = Tail(requests)
        /\ Command(Head(requests))
  /\ UNCHANGED block_request_count

\* The end of end_request: in_using = NULL; if(block_request_count) cmd_out().
NextCommand ==
  \/ /\ block_request_count = 0
     /\ in_using' = NoNode
     /\ SectorRead
     /\ UNCHANGED <<requests, block_request_count>>
  \/ /\ block_request_count # 0
     /\ requests # <<>>
     /\ in_using' = Head(requests)
     /\ requests' = Tail(requests)
     /\ block_request_count' = block_request_count - 1
     /\ Command(Head(requests))

EndAfterFirst == TRUE
\* read_handler and write_handler: node->count--; if(node->count) return.
LastSector == count[in_using] = 1

\* disk_handler, when it finds the request the drive has worked for.
HandleSector ==
  /\ count' = [count EXCEPT ![in_using] = @ - 1]
  /\ \/ /\ ~LastSector
        /\ SectorRead
        /\ RetFromIntr(state, queued)
        /\ UNCHANGED <<owner, requestVars>>
     \/ /\ LastSector
        /\ owner' = [owner EXCEPT ![in_using] = NoTask]
        /\ NextCommand
        /\ WakeAndReturn(owner[in_using])

\* disk_handler, when the driver's idea of the drive is wrong: it dereferences
\* NULL, it takes the data of another request, or cmd_out finds no request.
HandleAstray ==
  /\ \/ in_using = NoNode /\ fault' = "null_deref"
     \/ in_using \notin {NoNode, device} /\ fault' = "wrong_request"
     \/ /\ in_using = device /\ LastSector
        /\ block_request_count # 0 /\ requests = <<>>
        /\ fault' = "no_request"
  /\ UNCHANGED <<current, state, queued, owner, count, requestVars, driveVars>>

Disk_handler ==
  /\ irq
  /\ (in_using = device /\ HandleSector) \/ HandleAstray
  /\ Interrupted
  /\ UNCHANGED <<pc, localVars>>
-----------------------------------------------------------------------------
Init ==
  /\ current = Idle
  /\ state = [t \in AllTasks |-> "RUNNING"]
  /\ queued = Tasks
  /\ fault = "none"
  /\ pc = [t \in AllTasks |-> "run"]
  /\ node = [t \in AllTasks |-> NoNode]
  /\ owner = [n \in Nodes |-> NoTask]
  /\ count = [n \in Nodes |-> 0]
  /\ requests = <<>>
  /\ in_using = NoNode
  /\ block_request_count = 0
  /\ loaded = [t \in AllTasks |-> 0]
  /\ device = NoNode
  /\ sectors = 0
  /\ irq = FALSE
  /\ hit = {}

Transfer ==
  \/ \E n \in Nodes, blocks \in 1..MaxSectors : Submit(n, blocks)
  \/ LoadCount \/ StoreCount \/ Test \/ Take \/ Claim \/ Issue
  \/ SleepSetState \/ SleepSwitch

\* The kernel takes no step after a fault: what it goes on to do is not modelled.
Running == fault = "none" /\ (Transfer \/ Tick \/ Disk_handler \/ SectorDone)
Stopped == fault # "none" /\ UNCHANGED vars
Next == Running \/ Stopped

Spec == Init /\ [][Next]_vars

\* The step of the task in a transfer it has begun.
Proceed(t) ==
  /\ fault = "none" /\ current = t
  /\ LoadCount \/ StoreCount \/ Test \/ Take \/ Claim \/ Issue \/ SleepSetState
     \/ SleepSwitch

\* The drive does what it is told and its interrupt is taken once they are
\* enabled; a slice is longer than a step, and the run queue's order by vrun_time
\* gives every queued task its turn.
Fairness ==
  /\ WF_vars(fault = "none" /\ SectorDone)
  /\ WF_vars(fault = "none" /\ Disk_handler)
  /\ \A t \in Tasks :
       /\ SF_vars(Proceed(t))
       /\ SF_vars(fault = "none" /\ Tick /\ current' = t)

FairSpec == Spec /\ Fairness
-----------------------------------------------------------------------------
(* Properties *)

\* Every variable keeps the type its C declaration and its use give it.
TypeOK ==
  /\ current \in AllTasks
  /\ state \in [AllTasks -> {"RUNNING", "UNINTERRUPTIBLE"}]
  /\ queued \subseteq Tasks
  /\ fault \in {"none", "list_corrupted", "null_deref", "wrong_request", "no_request"}
  /\ pc \in [AllTasks -> PCs]
  /\ node \in [AllTasks -> Nodes \cup {NoNode}]
  /\ owner \in [Nodes -> Tasks \cup {NoTask}]
  /\ count \in [Nodes -> 0..MaxSectors]
  /\ requests \in Seq(Nodes)
  /\ in_using \in Nodes \cup {NoNode}
  /\ block_request_count \in Int
  /\ loaded \in [AllTasks -> Int]
  /\ device \in Nodes \cup {NoNode}
  /\ sectors \in 0..MaxSectors
  /\ irq \in BOOLEAN
  /\ hit \subseteq Windows

Alive == fault = "none"
At(points) == {t \in Tasks : pc[t] \in points}

\* Where an interrupt may lose an update of block_request_count.
Stores == {"count_store", "uncount_store"}

\* Where an interrupt finds a request that is, or is about to be, in the drive
\* although its owner is not asleep yet.
Hasty == Counting \cup Leaving

\* block_request_count, by which end_request decides whether there is another
\* request, is the length of the list, give or take the tasks that are between
\* changing the list and the count, unless an interrupt has landed inside an
\* increment or decrement (disk.c:50, 58).
CountMatches ==
  Alive /\ hit \cap Stores = {} =>
    block_request_count = Len(requests) - Cardinality(At(Counting))
                                        + Cardinality(At(Uncounting))

\* The request list and its count agree, whoever changes them.
QueueSound == TypeOK /\ CountMatches

\* The driver never dereferences NULL, gives a task another's data, takes a
\* request from an empty list or wakes a task that is awake, unless an interrupt
\* has landed in a window that allows it: for the first two between the test of
\* in_using and its assignment (disk.c:217, 56), for the third there or where the
\* request may be finished before in_using is tested, for the last before
\* the owner sleeps.  An interrupt in cmd_out after in_using is set does no harm.
FaultsByWindow ==
  /\ fault \in {"null_deref", "wrong_request"} => hit \cap Deciding # {}
  /\ fault = "no_request" =>
       hit \cap (Deciding \cup Counting \cup {"test", "uncount_store"}) # {}
  /\ fault = "list_corrupted" => hit \cap (Deciding \cup Hasty) # {}

\* cmd_out has no lock, and in_using does its work: at most one task is in it,
\* and none while the drive has a request.
SingleIssuer ==
  LET issuers == At(Deciding \cup Uncounting \cup {"issue"})
  IN Alive /\ hit \cap Deciding = {} =>
       /\ Cardinality(issuers) <= 1
       /\ device # NoNode => issuers = {}

\* IDE_transfer returns only when the last sector has come: no request of the
\* task that runs is still allocated, so its buffer is complete.
ReturnsDone ==
  Alive /\ hit \cap (Deciding \cup Hasty) = {} /\ pc[current] = "run" =>
    \A n \in Nodes : owner[n] # current

\* Every transfer returns, unless an interrupt has landed in a harmful window.
TransferReturns ==
  \A t \in Tasks :
    pc[t] # "run" ~> \/ current = t /\ pc[t] = "run"
                    \/ hit \cap (Deciding \cup Hasty \cup Stores) # {}
=============================================================================
