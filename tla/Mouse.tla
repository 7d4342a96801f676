------------------------------- MODULE Mouse -------------------------------
(***************************************************************************)
(* The mouse driver (mouse.c).  Its one reader is the idle loop of the     *)
(* boot processor, which takes a byte at a time and puts three of them     *)
(* together; the interrupt handler comes between any two of its steps.     *)
(* The mouse sends an acknowledgement first, byte 1, and then movements of *)
(* three bytes each.                                                       *)
(***************************************************************************)
EXTENDS InputBuffer

CONSTANT MaxBytes  \* bound on the bytes the mouse sends, for model checking

ASSUME MouseAssumption == MaxBytes \in Nat

VARIABLES
  p_mouse,
  mouse_count,
  mouse,         \* the bytes of the packet, by their numbers
  mouse_pc,
  ret,           \* the local of get_mousecode
  mouse_loaded,  \* the p_mouse->count read by "p_mouse->count--"
  sent,          \* history: the bytes sent so far
  read,          \* history: the bytes read so far
  events         \* history: "overrun", a byte came when buf was full; "count", one
                 \* came between the load and the store of count--

mouse_vars ==
  <<p_mouse, mouse_count, mouse, mouse_pc, ret, mouse_loaded, sent, read, events>>

Fields == {"Byte0", "Byte1", "Byte2"}
MousePCs == {"poll", "load", "store", "tail", "analyse"}
-----------------------------------------------------------------------------
\* mouse_handler
Mouse_handler ==
  /\ sent < MaxBytes
  /\ sent' = sent + 1
  /\ p_mouse' = Stored(p_mouse, sent')
  /\ events' = events \cup (IF sent - read >= KB_BUF_SIZE THEN {"overrun"} ELSE {})
                      \cup (IF mouse_pc = "store" THEN {"count"} ELSE {})
  /\ UNCHANGED <<mouse_count, mouse, mouse_pc, ret, mouse_loaded, read>>

\* Where get_mousecode reads: at the start of buf again behind its end.
TailWrapped(b) == IF b.p_tail = KB_BUF_SIZE THEN 0 ELSE b.p_tail

\* The idle loop has seen a count; get_mousecode takes the byte.
Poll ==
  /\ mouse_pc = "poll" /\ p_mouse.count # 0
  /\ mouse_pc' = "load"
  /\ p_mouse' = [p_mouse EXCEPT !.p_tail = TailWrapped(p_mouse)]
  /\ ret' = Bytes(p_mouse, p_mouse'.p_tail, 1)[1]
  /\ read' = read + 1
  /\ UNCHANGED <<mouse_count, mouse, mouse_loaded, sent, events>>

MouseLoadCount ==
  /\ mouse_pc = "load" /\ mouse_pc' = "store"
  /\ mouse_loaded' = p_mouse.count
  /\ UNCHANGED <<p_mouse, mouse_count, mouse, ret, sent, read, events>>

TakenTwice(count) == count - 2
Taken(count) == count - 1

MouseStoreCount ==
  /\ mouse_pc = "store" /\ mouse_pc' = "tail"
  /\ p_mouse' = [p_mouse EXCEPT !.count = Taken(mouse_loaded)]
  /\ UNCHANGED <<mouse_count, mouse, ret, mouse_loaded, sent, read, events>>

MoveTail ==
  /\ mouse_pc = "tail" /\ mouse_pc' = "analyse"
  /\ p_mouse' = [p_mouse EXCEPT !.p_tail = @ + 1]
  /\ UNCHANGED <<mouse_count, mouse, ret, mouse_loaded, sent, read, events>>

NextCountFromZero(n) == IF n = 3 THEN 0 ELSE n + 1

\* The count after a byte: 0 only before the acknowledgement.
NextCount(n) == IF n = 3 THEN 1 ELSE n + 1

\* analysis_mousecode
Analyse ==
  /\ mouse_pc = "analyse" /\ mouse_pc' = "poll"
  /\ mouse_count' = NextCount(mouse_count)
  /\ mouse' = CASE mouse_count = 0 -> mouse
                [] mouse_count = 1 -> [mouse EXCEPT !.Byte0 = ret]
                [] mouse_count = 2 -> [mouse EXCEPT !.Byte1 = ret]
                [] mouse_count = 3 -> [mouse EXCEPT !.Byte2 = ret]
  /\ UNCHANGED <<p_mouse, ret, mouse_loaded, sent, read, events>>
-----------------------------------------------------------------------------
\* mouse_init
MouseInit ==
  /\ p_mouse = Reset
  /\ mouse_count = 0
  /\ mouse = [f \in Fields |-> 0]
  /\ mouse_pc = "poll" /\ ret = 0 /\ mouse_loaded = 0
  /\ sent = 0 /\ read = 0 /\ events = {}

IdleLoop == Poll \/ MouseLoadCount \/ MouseStoreCount \/ MoveTail \/ Analyse
\* The mouse may fall silent: the idle loop goes on looking.
Silent == sent = MaxBytes /\ mouse_pc = "poll" /\ p_mouse.count = 0 /\ UNCHANGED mouse_vars
MouseNext == Mouse_handler \/ IdleLoop \/ Silent

MouseSpec == MouseInit /\ [][MouseNext]_mouse_vars
-----------------------------------------------------------------------------
(* Properties *)

\* Every variable keeps the type its C declaration and its use give it.
MouseTypeOK ==
  /\ p_mouse \in Buffers(0..MaxBytes) /\ p_mouse.p_tail \in 0..KB_BUF_SIZE
  /\ mouse_count \in 0..3
  /\ mouse \in [Fields -> 0..MaxBytes]
  /\ mouse_pc \in MousePCs
  /\ ret \in 0..MaxBytes /\ mouse_loaded \in Int
  /\ sent \in 0..MaxBytes /\ read \in Nat
  /\ events \subseteq {"overrun", "count"}

\* A movement that is complete is made of the three bytes of one packet, in their
\* order, unless the buffer has overrun: a byte that the race on the count makes the
\* loop overlook leaves the packets whole.
PacketsWhole ==
  [][mouse_count = 3 /\ mouse_pc = "analyse" /\ "overrun" \notin events =>
       /\ mouse'.Byte0 % 3 = 2
       /\ mouse'.Byte1 = mouse'.Byte0 + 1 /\ mouse'.Byte2 = mouse'.Byte0 + 2]_mouse

\* The count says what is there, and falls behind only through a byte that came
\* between the load and the store of count-- (mouse.c:60).  It never says more: no
\* byte is read before it was sent, whatever falls between load and store.
MouseCountMatches ==
  /\ read <= sent
  /\ "count" \notin events =>
       sent = read + p_mouse.count - (IF mouse_pc \in {"load", "store"} THEN 1 ELSE 0)

\* Buffer and count agree, through every interrupt and turn of the idle loop.
MouseBufferSound == MouseTypeOK /\ MouseCountMatches
=============================================================================
