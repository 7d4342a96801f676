------------------------------ MODULE Keyboard ------------------------------
(***************************************************************************)
(* The keyboard driver (keyboard.c): the interrupt handler fills the       *)
(* buffer and wakes one reader; tasks read it and reset it through the     *)
(* file operations, with interrupts enabled, so that the handler and other *)
(* tasks come between any two of their steps.  What is between the steps   *)
(* of sleep_on is in Schedule; here it is one.                             *)
(***************************************************************************)
EXTENDS InputBuffer, FiniteSets

CONSTANTS
  Tasks,    \* those with the device open
  MaxRead,  \* the most a read asks for
  MaxKeys,  \* bound on the bytes the keyboard sends, for model checking
  MaxHits   \* bound on the kinds of windows and events met in a behaviour

ASSUME KeyboardAssumption == MaxRead \in Nat \ {0} /\ {MaxKeys, MaxHits} \subseteq Nat

VARIABLES
  p_kb,
  wait_queue,  \* keyboard_wait_queue, the first to be woken first
  pc,
  asked,       \* the count a task reads for
  counter,     \* its local of that name
  tail,        \* its local of that name
  loaded,      \* the p_kb->count read by "p_kb->count -= counter"
  keys,        \* history: the bytes sent so far
  last,        \* history: the number of the last byte read or thrown away
  garbled,     \* history: a read has not returned the bytes that came next
  fault,       \* history: copy_to_user was given a negative length
  hit          \* history: the windows and the events below that were met

locals == <<asked, counter, tail, loaded>>
vars == <<p_kb, wait_queue, pc, locals, keys, last, garbled, fault, hit>>

PCs == {"idle", "sleep", "asleep", "count", "copy", "load", "store", "reset"}

\* Where a byte that comes in between does harm: the buffer seen empty, the task
\* not yet asleep; the count read and not yet written; a reset half done.
KeyWindows == {"sleep", "store", "reset"}
Events == {"wrap",     \* a read has gone over the end of buf
           "overrun",  \* a byte came when buf was full
           "shared"}   \* a task came between the steps of another's read or reset

At(here) == {t \in Tasks : pc[t] \in here}
Goto(t, here, there) == pc[t] = here /\ pc' = [pc EXCEPT ![t] = there]
Hit(more) == hit' = hit \cup more /\ (hit' # hit => Cardinality(hit) < MaxHits)

\* t changes the buffer, or reads it to.
Touch(t) ==
  IF At({"copy", "load", "store", "reset"}) \ {t} = {} THEN {} ELSE {"shared"}
-----------------------------------------------------------------------------
(* Operators named for what they do wrong are variants of the next one that a    *)
(* slip would give.                                                              *)

WokenNone(queue) == [pc |-> pc, queue |-> queue]
Woken(queue) ==
  IF queue = <<>> THEN [pc |-> pc, queue |-> queue]
  ELSE [pc |-> [pc EXCEPT ![Head(queue)] = "count"], queue |-> Tail(queue)]

\* keyboard_handler
Keyboard_handler ==
  /\ keys < MaxKeys
  /\ keys' = keys + 1
  /\ p_kb' = Stored(p_kb, keys')
  /\ pc' = Woken(wait_queue).pc
  /\ wait_queue' = Woken(wait_queue).queue
  /\ Hit({pc[t] : t \in At(KeyWindows)}
         \cup IF keys - last >= KB_BUF_SIZE THEN {"overrun"} ELSE {})
  /\ UNCHANGED <<locals, last, garbled, fault>>

\* keyboard_read, and its test of the count.
Read(t, n) ==
  /\ Goto(t, "idle", IF p_kb.count = 0 THEN "sleep" ELSE "count")
  /\ asked' = [asked EXCEPT ![t] = n]
  /\ UNCHANGED <<p_kb, wait_queue, counter, tail, loaded, keys, last, garbled,
                 fault, hit>>

\* sleep_on
Sleep(t) ==
  /\ Goto(t, "sleep", "asleep")
  /\ wait_queue' = Append(wait_queue, t)
  /\ UNCHANGED <<p_kb, locals, keys, last, garbled, fault, hit>>

CounterUnbounded(count, n) == n

\* The comparison is unsigned: a count below zero is larger than any n.
Counter(count, n) == IF count < 0 \/ count >= n THEN n ELSE count

\* counter and tail are set.
Count(t) ==
  /\ Goto(t, "count", "copy")
  /\ counter' = [counter EXCEPT ![t] = Counter(p_kb.count, asked[t])]
  /\ tail' = [tail EXCEPT ![t] = p_kb.p_tail]
  /\ Hit(Touch(t))
  /\ UNCHANGED <<p_kb, wait_queue, asked, loaded, keys, last, garbled, fault>>

CopiedTailKept(n, from, behind) ==
  [bytes |-> Bytes(p_kb, from, n), p_tail |-> p_kb.p_tail]

\* What the user's buffer holds then, and the new p_tail.  The second piece of a read
\* that goes over the end is taken from p_head on and not from the start of buf, and it
\* goes to the start of the user's buffer again, over the first piece; the end of that
\* is not written, and reads as 0 here.
Copied(n, from, behind) ==
  IF n <= behind
  THEN [bytes |-> Bytes(p_kb, from, n), p_tail |-> p_kb.p_tail + n]
  ELSE LET first == Bytes(p_kb, from, behind)
           second == Bytes(p_kb, p_kb.p_head, n - behind)
           over == second \o SubSeq(first, n - behind + 1, behind)
       IN [bytes |-> [i \in 1..n |-> IF i <= Len(over) THEN over[i] ELSE 0],
           p_tail |-> p_kb.p_head + (n - behind)]

\* The copy to the user's memory and the new p_tail.
Copy(t) ==
  LET n == counter[t]
      behind == KB_BUF_SIZE - tail[t]  \* what is left of buf behind the tail
      copied == Copied(n, tail[t], behind)
  IN \/ /\ n <= behind \/ behind >= 0
        /\ Goto(t, "copy", "load")
        /\ p_kb' = [p_kb EXCEPT !.p_tail = copied.p_tail]
        /\ garbled' = (garbled \/ ~InOrder(copied.bytes, last))
        /\ last' = IF last + n < keys THEN last + n ELSE keys
        /\ Hit(Touch(t) \cup IF n <= behind THEN {} ELSE {"wrap"})
        /\ UNCHANGED <<wait_queue, locals, keys, fault>>
     \/ /\ ~(n <= behind \/ behind >= 0)
        /\ pc[t] = "copy"
        /\ fault' = TRUE
        /\ UNCHANGED <<p_kb, wait_queue, pc, locals, keys, last, garbled, hit>>

\* p_kb->count -= counter
LoadCount(t) ==
  /\ Goto(t, "load", "store")
  /\ loaded' = [loaded EXCEPT ![t] = p_kb.count]
  /\ Hit(Touch(t))
  /\ UNCHANGED <<p_kb, wait_queue, asked, counter, tail, keys, last, garbled, fault>>

StoreCount(t) ==
  /\ Goto(t, "store", "idle")
  /\ p_kb' = [p_kb EXCEPT !.count = loaded[t] - counter[t]]
  /\ Hit(Touch(t))
  /\ asked' = [asked EXCEPT ![t] = 0] /\ counter' = [counter EXCEPT ![t] = 0]
  /\ tail' = [tail EXCEPT ![t] = 0] /\ loaded' = [loaded EXCEPT ![t] = 0]
  /\ UNCHANGED <<wait_queue, keys, last, garbled, fault>>
-----------------------------------------------------------------------------
\* keyboard_open, keyboard_close and KEY_CMD_RESET_BUFFER: both pointers first.
ResetPointers(t) ==
  /\ Goto(t, "idle", "reset")
  /\ p_kb' = [p_kb EXCEPT !.p_head = 0, !.p_tail = 0]
  /\ last' = keys
  /\ Hit(Touch(t))
  /\ UNCHANGED <<wait_queue, locals, keys, garbled, fault>>

\* Then the count and the bytes.
ResetCount(t) ==
  /\ Goto(t, "reset", "idle")
  /\ p_kb' = [p_kb EXCEPT !.count = 0, !.buf = Blank]
  /\ Hit(Touch(t))
  /\ UNCHANGED <<wait_queue, locals, keys, last, garbled, fault>>
-----------------------------------------------------------------------------
\* keyboard_init
Init ==
  /\ p_kb = Reset
  /\ wait_queue = <<>>
  /\ pc = [t \in Tasks |-> "idle"]
  /\ asked = [t \in Tasks |-> 0] /\ counter = asked /\ tail = asked /\ loaded = asked
  /\ keys = 0 /\ last = 0
  /\ garbled = FALSE /\ fault = FALSE /\ hit = {}

\* A count that has gone wrong below zero never stops a read; the model does.
StartRead(t) == p_kb.count >= -MaxRead /\ \E n \in 1..MaxRead : Read(t, n)
Proceed(t) ==
  \/ Sleep(t) \/ Count(t) \/ Copy(t) \/ LoadCount(t) \/ StoreCount(t) \/ ResetCount(t)

\* Nothing is known of what a copy of a negative length leaves.
Running ==
  ~fault /\ (Keyboard_handler \/ \E t \in Tasks : StartRead(t) \/ ResetPointers(t) \/ Proceed(t))
Stopped == fault /\ UNCHANGED vars
Next == Running \/ Stopped

Spec == Init /\ [][Next]_vars

\* The shell reads for ever, and every task gets its turn.
FairSpec ==
  Spec /\ \A t \in Tasks : WF_vars(~fault /\ Proceed(t)) /\ SF_vars(~fault /\ StartRead(t))
-----------------------------------------------------------------------------
(* Properties *)

\* Every variable keeps the type its C declaration and its use give it.
TypeOK ==
  /\ p_kb \in Buffers(0..MaxKeys)
  /\ wait_queue \in Seq(Tasks)
  /\ pc \in [Tasks -> PCs]
  /\ {asked, counter} \subseteq [Tasks -> 0..MaxRead]
  /\ tail \in [Tasks -> Nat] /\ loaded \in [Tasks -> Int]
  /\ keys \in 0..MaxKeys /\ last \in Nat
  /\ {garbled, fault} \subseteq BOOLEAN
  /\ hit \subseteq KeyWindows \cup Events

\* The bytes a task has copied out that the count still holds.
Uncounted == IF At({"load", "store"}) = {} THEN 0
             ELSE counter[CHOOSE t \in At({"load", "store"}) : TRUE]

\* p_kb->count is the number of bytes sent and not yet read, unless one came between
\* the load and the store of "count -= counter" (keyboard.c:130), during a reset, or
\* two tasks read at once: no other order of interrupt and readers upsets it.
CountMatches ==
  hit \cap {"store", "reset", "shared"} = {} /\ At({"reset"}) = {} =>
    p_kb.count = keys - last + Uncounted

\* Buffer and count agree, through every interrupt, read and reset.
BufferSound == TypeOK /\ CountMatches

\* Reads return the bytes in the order they were sent, each once, until a read goes
\* over the end of buf (keyboard.c:127 goes on at p_head, and over the first piece), the
\* buffer overruns, or a reset or a second reader comes in between.  No copy of a
\* negative length is ever asked for, except by what a read over the end has made of
\* p_tail, which it may set behind the end of buf (keyboard.c:128), or two readers that
\* both moved it on.
ReadsInOrder ==
  /\ garbled => hit \cap {"wrap", "overrun", "shared", "reset"} # {}
  /\ fault => hit \cap {"wrap", "shared"} # {}

\* Every byte sent is read or thrown away in the end, unless a window was hit.
KeysRead == \A k \in 1..MaxKeys : keys >= k ~> last >= k \/ hit # {}
=============================================================================
