------------------------------- MODULE Timer -------------------------------
(***************************************************************************)
(* Kernel timers (timer.c) and the soft interrupt that runs them           *)
(* (softirq.c).  The HPET tick advances jiffies and raises TIMER_SIRQ when *)
(* the first timer of the list is due; the way back from an interrupt runs *)
(* do_softirq, with interrupts enabled again.  A run of do_softirq may     *)
(* therefore be interrupted, the task it is in be switched away from, and  *)
(* a later interrupt start another: the runs under way interleave freely.  *)
(***************************************************************************)
EXTENDS Integers, FiniteSets, SequencesExt

CONSTANTS
  Timers,      \* the timer_lists that may be added
  TestTimer,   \* the one timer_init adds
  NoTimer,     \* no timer: as a place in the list, its head
  Runs,        \* the runs of do_softirq that may be under way at a time
  MaxJiffies   \* bound on jiffies, which stays there, for model checking

ASSUME TimerAssumption ==
  /\ TestTimer \in Timers
  /\ NoTimer \notin Timers
  /\ MaxJiffies \in Nat

VARIABLES
  jiffies,
  expire_jiffies,  \* timer->expire_jiffies
  timer_list,      \* from list_next of timer_list_head on
  timer_sirq,      \* the bit TIMER_SIRQ of softirq_status
  timer_pc,        \* where each run of do_softirq is, "idle" before and after
  tmp,             \* tmp of its do_timer
  adding,          \* the timer an add_timer under way is to link
  behind,          \* the tmp it is to be linked behind
  fired,           \* history: how often the function of each timer has run
  fault,           \* a timer was unlinked that was not on the list
  hit              \* history: the windows another run has unlinked a timer in

addVars == <<adding, behind>>
timer_vars == <<jiffies, expire_jiffies, timer_list, timer_sirq, timer_pc, tmp, addVars,
                fired, fault, hit>>

PCs == {"idle", "test", "first", "empty", "look", "fire", "clear"}
Windows == {"tmp",   \* do_timer: the first timer read into tmp, not yet unlinked
            "link"}  \* add_timer: at its tmp, the timer not yet linked

\* The runs that go by what they have read into tmp.
Holds(r) == timer_pc[r] \in {"empty", "look", "fire"}

\* The windows of the runs rs that are open now, and that of an add_timer.
Open(rs) == IF \E r \in rs : Holds(r) THEN {"tmp"} ELSE {}
Linking == IF adding # NoTimer THEN {"link"} ELSE {}
-----------------------------------------------------------------------------
(* Operators named for what they do wrong, here and below, are variants of the  *)
(* next one that a slip would give.                                             *)

ExpiredExactly(t, now) == t # NoTimer /\ expire_jiffies[t] = now

\* The list head's own expire_jiffies is -1UL.
Expired(t, now) == t # NoTimer /\ expire_jiffies[t] <= now

\* The first timer is due.
Due(list, now) == list # <<>> /\ Expired(Head(list), now)

\* ret_from_intr starts a run of do_softirq when a bit is set.
RetFromIntr(bit) ==
  IF bit
  THEN \E r \in Runs : timer_pc[r] = "idle" /\ timer_pc' = [timer_pc EXCEPT ![r] = "test"]
  ELSE UNCHANGED timer_pc

\* HPET_handler
Tick ==
  /\ jiffies' = IF jiffies < MaxJiffies THEN jiffies + 1 ELSE jiffies
  /\ timer_sirq' = (timer_sirq \/ Due(timer_list, jiffies'))
  /\ RetFromIntr(timer_sirq')
  /\ UNCHANGED <<expire_jiffies, timer_list, tmp, addVars, fired, fault, hit>>

\* Any other interrupt, exception or system call goes back the same way.
OtherIntr ==
  /\ timer_sirq /\ RetFromIntr(timer_sirq)
  /\ UNCHANGED <<jiffies, expire_jiffies, timer_list, timer_sirq, tmp, addVars,
                 fired, fault, hit>>

TimerGoto(r, here, there) ==
  /\ timer_pc[r] = here
  /\ timer_pc' = [timer_pc EXCEPT ![r] = there]

\* do_softirq: one pass over the bits, of which only bit 0 is ever set.
Test(r) ==
  /\ TimerGoto(r, "test", IF timer_sirq THEN "first" ELSE "idle")
  /\ UNCHANGED <<jiffies, expire_jiffies, timer_list, timer_sirq, tmp,
                 addVars, fired, fault, hit>>

\* do_timer reads what is behind the list head, the head itself when nothing is.
First(r) ==
  /\ TimerGoto(r, "first", "empty")
  /\ tmp' = [tmp EXCEPT ![r] = IF timer_list = <<>> THEN NoTimer ELSE Head(timer_list)]
  /\ UNCHANGED <<jiffies, expire_jiffies, timer_list, timer_sirq, addVars,
                 fired, fault, hit>>

\* The two tests of its while, each made when it is reached.
Empty(r) ==
  /\ TimerGoto(r, "empty", IF timer_list = <<>> THEN "clear" ELSE "look")
  /\ UNCHANGED <<jiffies, expire_jiffies, timer_list, timer_sirq, tmp,
                 addVars, fired, fault, hit>>

Look(r) ==
  /\ TimerGoto(r, "look", IF Expired(tmp[r], jiffies) THEN "fire" ELSE "clear")
  /\ UNCHANGED <<jiffies, expire_jiffies, timer_list, timer_sirq, tmp,
                 addVars, fired, fault, hit>>

NotDeleted(list, t) == list

\* del_timer
Deleted(list, t) == RemoveFirst(list, t)

\* del_timer(tmp) and the call of its function.
Fire(r) ==
  /\ TimerGoto(r, "fire", "first")
  /\ timer_list' = Deleted(timer_list, tmp[r])
  /\ fault' = (tmp[r] \notin ToSet(timer_list))
  /\ fired' = [fired EXCEPT ![tmp[r]] = @ + 1]
  /\ tmp' = [tmp EXCEPT ![r] = NoTimer]
  /\ hit' = hit \cup Open(Runs \ {r}) \cup Linking
  /\ UNCHANGED <<jiffies, expire_jiffies, timer_sirq, addVars>>

\* softirq_status &= ~(1 << i): a tick that has raised the bit again since
\* do_timer looked is forgotten.
Clear(r) ==
  /\ TimerGoto(r, "clear", "idle")
  /\ timer_sirq' = FALSE
  /\ tmp' = [tmp EXCEPT ![r] = NoTimer]
  /\ UNCHANGED <<jiffies, expire_jiffies, timer_list, addVars, fired, fault, hit>>
-----------------------------------------------------------------------------
(* A task starts a timer, with interrupts enabled. *)

\* The place where the while loop of add_timer stops: the first timer that does
\* not expire before t, or the list head.
NotBefore(list, exp) ==
  LET later == {i \in DOMAIN list : expire_jiffies[list[i]] >= exp}
  IN IF later = {} THEN NoTimer ELSE list[Min(later)]

\* init_timer, and the loop of add_timer.  Its reads are one step here: a removal in
\* among them finds the window open as one after them does.
InitTimer(t, delay) ==
  /\ adding = NoTimer
  /\ t \notin ToSet(timer_list) /\ fired[t] = 0
  /\ jiffies + delay <= MaxJiffies
  /\ expire_jiffies' = [expire_jiffies EXCEPT ![t] = jiffies + delay]
  /\ adding' = t
  /\ behind' = NotBefore(timer_list, jiffies + delay)
  /\ UNCHANGED <<jiffies, timer_list, timer_sirq, timer_pc, tmp, fired, fault, hit>>

\* list_add_to_behind(&tmp->list, &timer->list)
Linked(list, t, place) ==
  IF place = NoTimer THEN <<t>> \o list
  ELSE InsertAt(list, CHOOSE i \in 2..Len(list) + 1 : list[i - 1] = place, t)

AddLink ==
  /\ adding # NoTimer
  /\ \/ /\ behind \in ToSet(timer_list) \cup {NoTimer}
        /\ timer_list' = Linked(timer_list, adding, behind)
        /\ UNCHANGED fault
     \/ /\ behind \notin ToSet(timer_list) \cup {NoTimer}
        /\ fault' = TRUE
        /\ UNCHANGED timer_list
  /\ adding' = NoTimer /\ behind' = NoTimer
  /\ UNCHANGED <<jiffies, expire_jiffies, timer_sirq, timer_pc, tmp, fired, hit>>
-----------------------------------------------------------------------------
\* timer_init; its delay of 5 ticks is as good as any other.
TimerInit ==
  /\ jiffies = 0
  /\ expire_jiffies \in {[t \in Timers |-> IF t = TestTimer THEN d ELSE 0] : d \in 1..MaxJiffies}
  /\ timer_list = <<TestTimer>>
  /\ timer_sirq = FALSE
  /\ timer_pc = [r \in Runs |-> "idle"]
  /\ tmp = [r \in Runs |-> NoTimer]
  /\ adding = NoTimer /\ behind = NoTimer
  /\ fired = [t \in Timers |-> 0]
  /\ fault = FALSE
  /\ hit = {}

DoSoftirq(r) == Test(r) \/ First(r) \/ Empty(r) \/ Look(r) \/ Fire(r) \/ Clear(r)
AddTimer == AddLink \/ \E t \in Timers, delay \in 0..MaxJiffies : InitTimer(t, delay)

\* The list is no list any more after a fault.
Running == ~fault /\ (Tick \/ OtherIntr \/ AddTimer \/ \E r \in Runs : DoSoftirq(r))
Stopped == fault /\ UNCHANGED timer_vars
TimerNext == Running \/ Stopped

TimerSpec == TimerInit /\ [][TimerNext]_timer_vars

\* Interrupts come, and every task that is in do_softirq or add_timer gets its turn.
FairSpec ==
  /\ TimerSpec
  /\ WF_timer_vars(~fault /\ Tick)
  /\ WF_timer_vars(~fault /\ AddLink)
  /\ \A r \in Runs : WF_timer_vars(~fault /\ DoSoftirq(r))
-----------------------------------------------------------------------------
(* Properties *)

\* Every variable keeps the type its C declaration and its use give it.
TimerTypeOK ==
  /\ jiffies \in 0..MaxJiffies
  /\ expire_jiffies \in [Timers -> 0..MaxJiffies]
  /\ timer_list \in Seq(Timers)
  /\ timer_sirq \in BOOLEAN
  /\ timer_pc \in [Runs -> PCs]
  /\ tmp \in [Runs -> Timers \cup {NoTimer}]
  /\ {adding, behind} \subseteq Timers \cup {NoTimer}
  /\ fired \in [Timers -> Nat]
  /\ fault \in BOOLEAN
  /\ hit \subseteq Windows

\* A timer that was started is about to be linked, or listed once, or its function
\* has run, once: none is lost and none runs twice, whatever interleaves.
OnceEach ==
  ~fault => \A t \in Timers :
    LET listed == Cardinality({i \in DOMAIN timer_list : timer_list[i] = t})
    IN fired[t] + listed + (IF adding = t THEN 1 ELSE 0) <= 1
       /\ (expire_jiffies[t] # 0 => fired[t] + listed + (IF adding = t THEN 1 ELSE 0) = 1)

\* No timer is unlinked twice or linked behind one that has gone, however runs of
\* do_softirq nest and interleave, unless a run has unlinked a timer while another was
\* between its read of the first timer and the removal of it (timer.c:74-77, 79), or an
\* add_timer between its read of that and the link (timer.c:33-47).
FaultsByWindow == fault => hit # {}

\* The list of timers is in order, however runs of do_softirq interleave.
ListSound == TimerTypeOK /\ OnceEach /\ FaultsByWindow

\* Every timer runs in the end, although add_timer does not keep the list in order
\* and clearing the bit may forget a tick: the next tick finds the timer still due.
TimerFires ==
  \A t \in Timers : t \in ToSet(timer_list) ~> fired[t] > 0 \/ fault
=============================================================================
