---------------------------- MODULE InputProofs ----------------------------
(***************************************************************************)
(* What the two drivers keep of the bytes they are sent, for any size of   *)
(* the buffer, any number of bytes and, of the keyboard, any number of     *)
(* readers.  The bytes not yet read follow each other round the buffer     *)
(* from the tail to the head (Held); the rest says which interrupt or      *)
(* reader may come between which steps without putting that, or the count, *)
(* out of order.                                                           *)
(***************************************************************************)
EXTENDS Keyboard, Mouse, ListLemmas

-----------------------------------------------------------------------------
(* The buffer *)

\* The cell that an offset of less than twice the size falls on.
Wrap(i) == IF i >= KB_BUF_SIZE THEN i - KB_BUF_SIZE ELSE i

\* The n bytes numbered from + 1 on are in buf, from the offset at on, up to the head.
Held(head, buf, at, from, n) ==
  /\ n \in 0..KB_BUF_SIZE
  /\ head \in {at + n, at + n - KB_BUF_SIZE}
  /\ \A k \in 1..n : buf[Wrap(at + k - 1)] = from + k

\* Where Stored puts a byte.
HeadCell(b) == IF b.p_head = KB_BUF_SIZE THEN 0 ELSE b.p_head

\* What Stored does to the fields of a buffer.
LEMMA StoredIs ==
  ASSUME NEW S, NEW b \in Buffers(S), NEW x \in S
  PROVE  /\ Stored(b, x) \in Buffers(S)
         /\ HeadCell(b) \in 0..KB_BUF_SIZE - 1
         /\ Stored(b, x).p_head = HeadCell(b) + 1
         /\ Stored(b, x).p_tail = b.p_tail
         /\ Stored(b, x).count = b.count + 1
         /\ Stored(b, x).buf[HeadCell(b)] = x
         /\ \A i \in 0..KB_BUF_SIZE - 1 : i # HeadCell(b) => Stored(b, x).buf[i] = b.buf[i]
<1> DEFINE h == HeadCell(b)
<1>1. /\ b.p_head \in 0..KB_BUF_SIZE /\ b.p_tail \in Nat /\ b.count \in Int
      /\ b.buf \in [0..KB_BUF_SIZE - 1 -> S]
  BY DEF Buffers
<1>2. h \in 0..KB_BUF_SIZE - 1
  BY <1>1, SizeAssumption DEF HeadCell
<1>3. Stored(b, x) = [b EXCEPT !.buf[h] = x, !.count = @ + 1, !.p_head = h + 1]
  BY DEF Stored, HeadCell
<1> HIDE DEF h
<1>4. Stored(b, x) = [b EXCEPT !.buf = [b.buf EXCEPT ![h] = x], !.count = b.count + 1, !.p_head = h + 1]
  BY <1>3 DEF Buffers
<1>5. /\ [b.buf EXCEPT ![h] = x] \in [0..KB_BUF_SIZE - 1 -> S]
      /\ b.count + 1 \in Int /\ h + 1 \in 0..KB_BUF_SIZE
  BY <1>1, <1>2, SizeAssumption
<1>6. Stored(b, x) \in Buffers(S)
  BY <1>1, <1>4, <1>5 DEF Buffers
<1>7. Stored(b, x).buf = [b.buf EXCEPT ![h] = x] /\ Stored(b, x).p_head = h + 1
      /\ Stored(b, x).p_tail = b.p_tail /\ Stored(b, x).count = b.count + 1
  BY <1>4 DEF Buffers
<1> QED
  BY <1>1, <1>2, <1>6, <1>7 DEF h

\* Another byte joins those that are held, unless the buffer is full of them.
LEMMA StoredHeld ==
  ASSUME NEW S, NEW b \in Buffers(S), NEW at \in 0..KB_BUF_SIZE, NEW from \in Nat, NEW n \in Nat,
         Held(b.p_head, b.buf, at, from, n), n # KB_BUF_SIZE, from + n + 1 \in S
  PROVE  LET c == Stored(b, from + n + 1)
         IN  Held(c.p_head, c.buf, at, from, n + 1)
<1> DEFINE x == from + n + 1
           h == HeadCell(b)
           c == Stored(b, x)
<1>1. /\ b.p_head \in 0..KB_BUF_SIZE /\ b.buf \in [0..KB_BUF_SIZE - 1 -> S]
      /\ KB_BUF_SIZE \in Nat /\ n < KB_BUF_SIZE
  BY SizeAssumption DEF Buffers, Held
<1>2. /\ h \in 0..KB_BUF_SIZE - 1 /\ c.p_head = h + 1 /\ c.buf[h] = x
      /\ \A i \in 0..KB_BUF_SIZE - 1 : i # h => c.buf[i] = b.buf[i]
  BY StoredIs
<1> HIDE DEF c, h, x
<1>3. b.p_head = at + n \/ b.p_head = at + n - KB_BUF_SIZE
  BY DEF Held
<1>4. h = Wrap(at + n)
  BY <1>1, <1>3 DEF h, HeadCell, Wrap
<1>5. h + 1 \in {at + (n + 1), at + (n + 1) - KB_BUF_SIZE}
  BY <1>1, <1>3 DEF h, HeadCell
<1>6. ASSUME NEW k \in 1..n + 1 PROVE c.buf[Wrap(at + k - 1)] = from + k
  <2>1. CASE k = n + 1
    <3>1. Wrap(at + k - 1) = h
      BY <1>4, <2>1
    <3>2. c.buf[h] = x
      BY <1>1, <1>2
    <3> QED
      BY <2>1, <3>1, <3>2 DEF x
  <2>2. CASE k # n + 1
    <3>1. k \in 1..n /\ b.buf[Wrap(at + k - 1)] = from + k
      BY <2>2 DEF Held
    <3> DEFINE i == at + k - 1
               j == at + n
    <3>0. n < KB_BUF_SIZE /\ KB_BUF_SIZE \in Nat /\ k \in Nat /\ 1 <= k /\ k <= n /\ at <= KB_BUF_SIZE
      BY <1>1, <3>1
    <3>2. /\ i \in Nat /\ j \in Nat /\ i < j /\ j - i <= n /\ j < KB_BUF_SIZE + KB_BUF_SIZE
      BY <3>0
    <3> HIDE DEF i, j
    <3>3. Wrap(i) # Wrap(j) /\ Wrap(i) \in 0..KB_BUF_SIZE - 1
      BY <1>1, <3>2 DEF Wrap
    <3> QED
      BY <1>1, <1>2, <1>4, <3>1, <3>3 DEF i, j
  <2> QED
    BY <2>1, <2>2
<1> QED
  BY <1>1, <1>2, <1>5, <1>6 DEF Held, c, x

\* Bytes taken at the tail leave the rest held.
LEMMA TakenHeld ==
  ASSUME NEW head, NEW buf, NEW at \in 0..KB_BUF_SIZE, NEW from \in Nat, NEW n,
         Held(head, buf, at, from, n),
         NEW at2 \in 0..KB_BUF_SIZE, NEW from2 \in Nat, NEW n2 \in Nat,
         at <= at2, at2 - at = from2 - from, from2 + n2 = from + n
  PROVE  Held(head, buf, at2, from2, n2)
<1> DEFINE m == at2 - at
<1>1. /\ KB_BUF_SIZE \in Nat /\ n \in 0..KB_BUF_SIZE
      /\ (head = at + n \/ head = at + n - KB_BUF_SIZE)
      /\ \A k \in 1..n : buf[Wrap(at + k - 1)] = from + k
  BY SizeAssumption DEF Held
<1>2. m \in Nat /\ at2 = at + m /\ from2 = from + m /\ n2 = n - m
  BY <1>1
<1> HIDE DEF m
<1>3. ASSUME NEW k \in 1..n2 PROVE buf[Wrap(at2 + k - 1)] = from2 + k
  <2>1. m + k \in 1..n /\ at + (m + k) - 1 = at2 + k - 1 /\ from + (m + k) = from2 + k
    BY <1>1, <1>2
  <2> QED
    BY <1>1, <2>1
<1>4. head \in {at2 + n2, at2 + n2 - KB_BUF_SIZE} /\ n2 \in 0..KB_BUF_SIZE
  BY <1>1, <1>2
<1> QED
  BY <1>3, <1>4 DEF Held

\* The tail may go back from the end of the buffer to its start.
LEMMA WrappedHeld ==
  ASSUME NEW head \in 0..KB_BUF_SIZE, NEW buf, NEW from \in Nat, NEW n \in Nat \ {0},
         Held(head, buf, KB_BUF_SIZE, from, n)
  PROVE  Held(head, buf, 0, from, n)
<1>1. /\ KB_BUF_SIZE \in Nat \ {0} /\ n \in 1..KB_BUF_SIZE
      /\ (head = KB_BUF_SIZE + n \/ head = KB_BUF_SIZE + n - KB_BUF_SIZE)
      /\ \A k \in 1..n : buf[Wrap(KB_BUF_SIZE + k - 1)] = from + k
  BY SizeAssumption DEF Held
<1>2. head = 0 + n
  BY <1>1
<1>3. ASSUME NEW k \in 1..n PROVE buf[Wrap(0 + k - 1)] = from + k
  <2>1. Wrap(KB_BUF_SIZE + k - 1) = k - 1 /\ Wrap(0 + k - 1) = k - 1
    BY <1>1 DEF Wrap
  <2> QED
    BY <1>1, <2>1
<1> QED
  BY <1>1, <1>2, <1>3 DEF Held
-----------------------------------------------------------------------------
(* The mouse *)

\* The reads whose count-- is not yet done.
Untaken == IF mouse_pc \in {"load", "store"} THEN 1 ELSE 0

\* The reads whose byte is not yet in a packet.
Unanalysed == IF mouse_pc = "poll" THEN 0 ELSE 1

\* The offset of the byte to be read next, once p_tail has been moved on.
NextByte == p_mouse.p_tail + IF mouse_pc \in {"load", "store", "tail"} THEN 1 ELSE 0

\* The count never says more than there is, nor that a byte is missing that was read.
CountFits ==
  /\ p_mouse.count \in Untaken..sent - read + Untaken
  /\ mouse_pc = "store" => mouse_loaded \in 1..p_mouse.count
  /\ "count" \notin events => /\ p_mouse.count = sent - read + Untaken
                              /\ mouse_pc = "store" => mouse_loaded = p_mouse.count

\* What was sent and not read is in the buffer, until it overruns.
SentHeld ==
  /\ NextByte \in 0..KB_BUF_SIZE
  /\ "overrun" \notin events => Held(p_mouse.p_head, p_mouse.buf, NextByte, read, sent - read)

\* The packet holds the bytes read last, and its first one is the second of three.
PacketFits ==
  /\ read - Unanalysed \in Nat
  /\ mouse_count = 0 <=> read - Unanalysed = 0
  /\ mouse_count # 0 => (read - Unanalysed - mouse_count) % 3 = 0
  /\ "overrun" \notin events =>
       /\ mouse_pc # "poll" => ret = read
       /\ mouse_count = 2 => mouse.Byte0 = read - Unanalysed
       /\ mouse_count = 3 => /\ mouse.Byte1 = read - Unanalysed
                             /\ mouse.Byte0 = read - Unanalysed - 1

MouseInv == MouseTypeOK /\ CountFits /\ SentHeld /\ PacketFits

\* The byte that get_mousecode takes is the next one.
LEMMA PollTakes ==
  ASSUME MouseTypeOK, CountFits, SentHeld, Poll
  PROVE  /\ p_mouse'.p_head = p_mouse.p_head /\ p_mouse'.buf = p_mouse.buf
         /\ p_mouse'.count = p_mouse.count /\ p_mouse' \in Buffers(0..MaxBytes)
         /\ p_mouse'.p_tail \in 0..KB_BUF_SIZE - 1 /\ sent - read \in Nat \ {0}
         /\ ret' = p_mouse.buf[p_mouse'.p_tail] /\ ret' \in 0..MaxBytes
         /\ "overrun" \notin events =>
              Held(p_mouse.p_head, p_mouse.buf, p_mouse'.p_tail + 1, read + 1, sent - (read + 1)) /\ ret' = read + 1
<1> USE SizeAssumption, MouseAssumption
<1> DEFINE at == TailWrapped(p_mouse)
<1>1. /\ p_mouse.p_head \in 0..KB_BUF_SIZE /\ p_mouse.p_tail \in 0..KB_BUF_SIZE
      /\ p_mouse.count \in Int /\ p_mouse.buf \in [0..KB_BUF_SIZE - 1 -> 0..MaxBytes]
      /\ p_mouse \in Buffers(0..MaxBytes) /\ sent \in Nat /\ read \in Nat
  BY DEF MouseTypeOK, Buffers
<1>2. at \in 0..KB_BUF_SIZE - 1
  BY <1>1 DEF TailWrapped
<1> HIDE DEF at
<1>3. p_mouse' = [p_mouse EXCEPT !.p_tail = at] /\ mouse_pc = "poll"
  BY DEF Poll, at
<1>4. /\ p_mouse'.p_head = p_mouse.p_head /\ p_mouse'.buf = p_mouse.buf
      /\ p_mouse'.count = p_mouse.count /\ p_mouse'.p_tail = at
      /\ p_mouse' \in Buffers(0..MaxBytes)
  BY <1>1, <1>2, <1>3 DEF Buffers
<1>5. sent - read \in Nat \ {0}
  BY <1>1, <1>3 DEF Poll, CountFits, Untaken
<1>6. ret' = p_mouse.buf[at]
  <2>1. ret' = Bytes(p_mouse, at, 1)[1]
    BY <1>4 DEF Poll
  <2>2. at + 1 - 1 = at /\ at \in DOMAIN p_mouse.buf /\ 1 \in 1..1
    BY <1>1, <1>2
  <2> QED
    BY <2>1, <2>2 DEF Bytes
<1>7. ret' \in 0..MaxBytes
  BY <1>1, <1>2, <1>6
<1>8. ASSUME "overrun" \notin events
      PROVE  Held(p_mouse.p_head, p_mouse.buf, at + 1, read + 1, sent - (read + 1)) /\ ret' = read + 1
  <2> DEFINE n == sent - read
  <2>1. Held(p_mouse.p_head, p_mouse.buf, p_mouse.p_tail, read, n)
    BY <1>1, <1>3, <1>8 DEF SentHeld, NextByte
  <2> HIDE DEF n
  <2>2. Held(p_mouse.p_head, p_mouse.buf, at, read, n)
    <3>1. CASE p_mouse.p_tail = KB_BUF_SIZE
      BY <1>1, <1>5, <2>1, <3>1, WrappedHeld DEF n, at, TailWrapped
    <3>2. CASE p_mouse.p_tail # KB_BUF_SIZE
      BY <2>1, <3>2 DEF at, TailWrapped
    <3> QED
      BY <3>1, <3>2
  <2>3. n \in Nat /\ 1 \in 1..n /\ at \in 0..KB_BUF_SIZE /\ at + 1 <= KB_BUF_SIZE /\ n - 1 \in Nat
        /\ n - 1 = sent - (read + 1) /\ at + 1 - 1 = at
    BY <1>1, <1>2, <1>5 DEF n
  <2>4. Held(p_mouse.p_head, p_mouse.buf, at + 1, read + 1, n - 1)
    <3>1. /\ at + 1 \in 0..KB_BUF_SIZE /\ read + 1 \in Nat /\ n - 1 \in Nat
          /\ at <= at + 1 /\ (at + 1) - at = (read + 1) - read /\ (read + 1) + (n - 1) = read + n
      BY <1>1, <1>2, <2>3
    <3> QED
      BY <1>1, <2>2, <2>3, <3>1, TakenHeld
  <2>5. p_mouse.buf[at] = read + 1
    <3>1. Wrap(at + 1 - 1) = at
      BY <1>2, <2>3 DEF Wrap
    <3>2. p_mouse.buf[Wrap(at + 1 - 1)] = read + 1
      BY <2>2, <2>3 DEF Held
    <3> QED
      BY <3>1, <3>2
  <2> QED
    BY <1>6, <2>3, <2>4, <2>5
<1> QED
  BY <1>2, <1>4, <1>5, <1>6, <1>7, <1>8

\* Every byte and every turn of the idle loop keep the types.
LEMMA MouseTypesStep ==
  ASSUME MouseInv, MouseNext
  PROVE  MouseTypeOK'
<1> USE SizeAssumption, MouseAssumption DEF MousePCs, Fields
<1>0. MouseTypeOK /\ CountFits /\ SentHeld /\ NextByte \in 0..KB_BUF_SIZE
      /\ p_mouse \in Buffers(0..MaxBytes)
  BY DEF MouseInv, MouseTypeOK, SentHeld
<1>1. CASE Mouse_handler
  <2>1. sent' \in 0..MaxBytes /\ p_mouse' = Stored(p_mouse, sent')
    BY <1>0, <1>1 DEF Mouse_handler, MouseTypeOK
  <2>2. Stored(p_mouse, sent') \in Buffers(0..MaxBytes) /\ Stored(p_mouse, sent').p_tail = p_mouse.p_tail
    BY <1>0, <2>1, StoredIs
  <2>3. UNCHANGED <<mouse_count, mouse, mouse_pc, ret, mouse_loaded, read>> /\ events' \subseteq {"overrun", "count"}
    BY <1>0, <1>1 DEF Mouse_handler, MouseTypeOK
  <2> QED
    BY <1>0, <2>1, <2>2, <2>3 DEF MouseTypeOK
<1>2. CASE Poll
  <2>1. /\ p_mouse' \in Buffers(0..MaxBytes) /\ p_mouse'.p_tail \in 0..KB_BUF_SIZE /\ ret' \in 0..MaxBytes
    BY <1>0, <1>2, PollTakes
  <2> QED
    BY <1>0, <1>2, <2>1 DEF MouseTypeOK, Poll
<1>3. CASE MouseLoadCount
  BY <1>0, <1>3 DEF MouseTypeOK, MouseLoadCount, Buffers
<1>4. CASE MouseStoreCount
  <2>0. Taken(mouse_loaded) \in Int
    BY <1>0 DEF MouseTypeOK, Taken
  <2>1. p_mouse' \in Buffers(0..MaxBytes) /\ p_mouse'.p_tail = p_mouse.p_tail
    BY <1>0, <1>4, <2>0 DEF MouseStoreCount, Buffers
  <2> QED
    BY <1>0, <1>4, <2>1 DEF MouseTypeOK, MouseStoreCount
<1>5. CASE MoveTail
  <2>1. p_mouse.p_tail + 1 \in 0..KB_BUF_SIZE
    BY <1>0, <1>5 DEF MoveTail, NextByte
  <2>2. p_mouse' \in Buffers(0..MaxBytes) /\ p_mouse'.p_tail = p_mouse.p_tail + 1
    BY <1>0, <1>5, <2>1 DEF MoveTail, Buffers
  <2> QED
    BY <1>0, <1>5, <2>1, <2>2 DEF MouseTypeOK, MoveTail
<1>6. CASE Analyse
  <2>1. mouse_count' \in 0..3
    BY <1>0, <1>6 DEF Analyse, NextCount, MouseTypeOK
  <2>2. mouse' \in [Fields -> 0..MaxBytes]
    <3>1. ret \in 0..MaxBytes /\ mouse \in [Fields -> 0..MaxBytes]
      BY <1>0 DEF MouseTypeOK
    <3>2. mouse_count = 0 \/ mouse_count = 1 \/ mouse_count = 2 \/ mouse_count = 3
      BY <1>0 DEF MouseTypeOK
    <3>3. CASE mouse_count = 0 \/ mouse_count = 1
      BY <1>6, <3>1, <3>3 DEF Analyse
    <3>4. CASE mouse_count = 2
      BY <1>6, <3>1, <3>4 DEF Analyse
    <3>5. CASE mouse_count = 3
      BY <1>6, <3>1, <3>5 DEF Analyse
    <3> QED
      BY <3>2, <3>3, <3>4, <3>5
  <2> QED
    BY <1>0, <1>6, <2>1, <2>2 DEF MouseTypeOK, Analyse
<1>7. CASE Silent
  BY <1>0, <1>7 DEF MouseTypeOK, Silent, mouse_vars
<1> QED
  BY <1>1, <1>2, <1>3, <1>4, <1>5, <1>6, <1>7 DEF MouseNext, IdleLoop

\* Every byte and every turn of the idle loop keep the count as CountFits says.
LEMMA CountStep ==
  ASSUME MouseInv, MouseNext
  PROVE  CountFits'
<1> USE SizeAssumption, MouseAssumption DEF CountFits, Untaken
<1>0. /\ p_mouse \in Buffers(0..MaxBytes) /\ p_mouse.count \in Int /\ sent \in Nat /\ read \in Nat
      /\ mouse_loaded \in Int /\ CountFits /\ MouseTypeOK /\ SentHeld
  BY DEF MouseInv, MouseTypeOK, Buffers
<1>1. CASE Mouse_handler
  <2>1. sent' = sent + 1 /\ sent' \in 0..MaxBytes /\ p_mouse' = Stored(p_mouse, sent')
    BY <1>0, <1>1 DEF Mouse_handler, MouseTypeOK
  <2>2. Stored(p_mouse, sent').count = p_mouse.count + 1
    BY <1>0, <2>1, StoredIs
  <2>3. p_mouse'.count = p_mouse.count + 1
    BY <2>1, <2>2
  <2>4. UNCHANGED <<mouse_pc, mouse_loaded, read>>
        /\ ("count" \notin events' => "count" \notin events /\ mouse_pc # "store")
    BY <1>1 DEF Mouse_handler
  <2> QED
    BY <1>0, <2>1, <2>3, <2>4
<1>2. CASE Poll
  <2>1. p_mouse'.count = p_mouse.count
    BY <1>0, <1>2, PollTakes
  <2> QED
    BY <1>0, <1>2, <2>1 DEF Poll
<1>3. CASE MouseLoadCount
  BY <1>0, <1>3 DEF MouseLoadCount
<1>4. CASE MouseStoreCount
  <2>1. p_mouse'.count = mouse_loaded - 1
    BY <1>0, <1>4 DEF MouseStoreCount, Taken, Buffers
  <2> QED
    BY <1>0, <1>4, <2>1 DEF MouseStoreCount
<1>5. CASE MoveTail
  <2>1. p_mouse'.count = p_mouse.count
    BY <1>0, <1>5 DEF MoveTail, Buffers
  <2> QED
    BY <1>0, <1>5, <2>1 DEF MoveTail
<1>6. CASE Analyse
  BY <1>0, <1>6 DEF Analyse
<1>7. CASE Silent
  BY <1>0, <1>7 DEF Silent, mouse_vars
<1> QED
  BY <1>1, <1>2, <1>3, <1>4, <1>5, <1>6, <1>7 DEF MouseNext, IdleLoop

\* Every byte and every turn of the idle loop keep in the buffer what is not read.
LEMMA SentHeldStep ==
  ASSUME MouseInv, MouseNext
  PROVE  SentHeld'
<1> USE SizeAssumption, MouseAssumption
<1>0. /\ p_mouse \in Buffers(0..MaxBytes) /\ p_mouse.p_tail \in 0..KB_BUF_SIZE /\ p_mouse.p_head \in Int
      /\ sent \in Nat /\ read \in Nat /\ sent - read \in Nat
      /\ CountFits /\ MouseTypeOK /\ SentHeld /\ NextByte \in 0..KB_BUF_SIZE
      /\ ("overrun" \notin events => Held(p_mouse.p_head, p_mouse.buf, NextByte, read, sent - read))
  BY DEF MouseInv, MouseTypeOK, Buffers, CountFits, Untaken, SentHeld
<1>1. CASE Mouse_handler
  <2>1. sent' = sent + 1 /\ sent' \in 0..MaxBytes /\ p_mouse' = Stored(p_mouse, sent')
    BY <1>0, <1>1 DEF Mouse_handler, MouseTypeOK
  <2>2. p_mouse'.p_tail = p_mouse.p_tail
    BY <1>0, <2>1, StoredIs
  <2>3. NextByte' = NextByte /\ read' = read
    BY <1>1, <2>2 DEF Mouse_handler, NextByte
  <2>4. ASSUME "overrun" \notin events'
        PROVE  Held(p_mouse'.p_head, p_mouse'.buf, NextByte, read, sent' - read)
    <3>1. "overrun" \notin events /\ sent - read # KB_BUF_SIZE
      BY <1>0, <1>1, <2>4 DEF Mouse_handler
    <3>2. read + (sent - read) + 1 = sent' /\ (sent - read) + 1 = sent' - read
      BY <1>0, <2>1
    <3> DEFINE n == sent - read
               at == NextByte
    <3>3. /\ n \in Nat /\ n # KB_BUF_SIZE /\ at \in 0..KB_BUF_SIZE /\ read + n + 1 \in 0..MaxBytes
          /\ Held(p_mouse.p_head, p_mouse.buf, at, read, n)
      BY <1>0, <2>1, <3>1, <3>2
    <3> HIDE DEF n, at
    <3>4. Held(Stored(p_mouse, read + n + 1).p_head, Stored(p_mouse, read + n + 1).buf, at, read, n + 1)
      BY <1>0, <3>3, StoredHeld
    <3> QED
      BY <2>1, <3>2, <3>4 DEF n, at
  <2> QED
    BY <1>0, <2>3, <2>4 DEF SentHeld
<1>2. CASE Poll
  <2>1. /\ p_mouse'.p_head = p_mouse.p_head /\ p_mouse'.buf = p_mouse.buf
        /\ p_mouse'.p_tail \in 0..KB_BUF_SIZE - 1
        /\ ("overrun" \notin events =>
              Held(p_mouse.p_head, p_mouse.buf, p_mouse'.p_tail + 1, read + 1, sent - (read + 1)))
    BY <1>0, <1>2, PollTakes
  <2>2. NextByte' = p_mouse'.p_tail + 1 /\ read' = read + 1 /\ UNCHANGED <<sent, events>>
    BY <1>2 DEF Poll, NextByte
  <2> QED
    BY <1>0, <2>1, <2>2 DEF SentHeld
<1>3. CASE UNCHANGED <<sent, read, events>> /\ p_mouse'.p_head = p_mouse.p_head
           /\ p_mouse'.buf = p_mouse.buf /\ NextByte' = NextByte
  BY <1>0, <1>3 DEF SentHeld
<1>4. CASE MouseLoadCount \/ MouseStoreCount \/ Analyse \/ Silent
  <2>1. /\ UNCHANGED <<sent, read, events>> /\ p_mouse'.p_head = p_mouse.p_head
        /\ p_mouse'.buf = p_mouse.buf /\ p_mouse'.p_tail = p_mouse.p_tail
    BY <1>0, <1>4 DEF MouseLoadCount, MouseStoreCount, Analyse, Silent, mouse_vars, Buffers
  <2>2. NextByte' = NextByte
    BY <1>4, <2>1 DEF MouseLoadCount, MouseStoreCount, Analyse, Silent, mouse_vars, NextByte
  <2> QED
    BY <1>3, <2>1, <2>2
<1>5. CASE MoveTail
  <2>1. /\ UNCHANGED <<sent, read, events>> /\ p_mouse'.p_head = p_mouse.p_head
        /\ p_mouse'.buf = p_mouse.buf /\ p_mouse'.p_tail = p_mouse.p_tail + 1
    BY <1>0, <1>5 DEF MoveTail, Buffers
  <2>2. NextByte' = NextByte
    BY <1>0, <1>5, <2>1 DEF MoveTail, NextByte
  <2> QED
    BY <1>3, <2>1, <2>2
<1> QED
  BY <1>1, <1>2, <1>4, <1>5 DEF MouseNext, IdleLoop

\* Every byte and every turn of the idle loop keep the packet what PacketFits says.
LEMMA PacketStep ==
  ASSUME MouseInv, MouseNext
  PROVE  PacketFits'
<1> USE DEF PacketFits, Unanalysed
<1>0. /\ sent \in Nat /\ read \in Nat /\ mouse_count \in 0..3 /\ mouse \in [Fields -> 0..MaxBytes]
      /\ ret \in Nat /\ MouseTypeOK /\ CountFits /\ SentHeld /\ PacketFits
  BY MouseAssumption DEF MouseInv, MouseTypeOK
<1>1. CASE Mouse_handler
  BY <1>0, <1>1 DEF Mouse_handler
<1>2. CASE Poll
  <2>1. /\ mouse_pc = "poll" /\ mouse_pc' = "load" /\ read' = read + 1
        /\ UNCHANGED <<mouse_count, mouse, events>>
    BY <1>2 DEF Poll
  <2>2. "overrun" \notin events => ret' = read + 1
    BY <1>0, <1>2, PollTakes
  <2>3. read' - 1 = read - 0
    BY <1>0, <2>1
  <2> QED
    BY <1>0, <2>1, <2>2, <2>3
<1>3. CASE MouseLoadCount \/ MouseStoreCount \/ MoveTail
  <2>1. /\ UNCHANGED <<mouse_count, mouse, ret, read, events>>
        /\ mouse_pc # "poll" /\ mouse_pc' # "poll"
    BY <1>3 DEF MouseLoadCount, MouseStoreCount, MoveTail
  <2> QED
    BY <1>0, <2>1
<1>4. CASE Analyse
  <2>1. /\ mouse_pc = "analyse" /\ mouse_pc' = "poll" /\ mouse_count' = NextCount(mouse_count)
        /\ UNCHANGED <<ret, read, events>>
    BY <1>4 DEF Analyse
  <2> DEFINE done == read - 1
  <2>2. /\ done \in Nat /\ (mouse_count = 0 <=> done = 0)
        /\ (mouse_count # 0 => (done - mouse_count) % 3 = 0)
        /\ ("overrun" \notin events => /\ ret = read
                                       /\ mouse_count = 2 => mouse.Byte0 = done
                                       /\ mouse_count = 3 => mouse.Byte1 = done /\ mouse.Byte0 = done - 1)
    BY <1>0, <2>1
  <2>3. read = done + 1 /\ read - 0 = done + 1
    BY <1>0
  <2> HIDE DEF done
  <2>4. mouse_count \in {0, 1, 2, 3}
    BY <1>0
  <2>5. /\ mouse_count' \in 1..3
        /\ (done + 1 - mouse_count') % 3 = 0
    BY <2>1, <2>2, <2>4 DEF NextCount
  <2>6. mouse_count' = 2 => mouse_count = 1 /\ mouse'.Byte0 = ret
    BY <1>0, <1>4, <2>1, <2>4 DEF Analyse, NextCount, Fields
  <2>7. mouse_count' = 3 => mouse_count = 2 /\ mouse'.Byte1 = ret /\ mouse'.Byte0 = mouse.Byte0
    BY <1>0, <1>4, <2>1, <2>4 DEF Analyse, NextCount, Fields
  <2>8. Unanalysed' = 0 /\ read' - 0 = done + 1 /\ done + 1 # 0 /\ done + 1 \in Nat
        /\ read' - 0 - 1 = done
    BY <2>1, <2>2, <2>3
  <2>9. mouse_count' # 0
    BY <2>5
  <2>10. /\ read' - Unanalysed' \in Nat
         /\ mouse_count' = 0 <=> read' - Unanalysed' = 0
         /\ mouse_count' # 0 => (read' - Unanalysed' - mouse_count') % 3 = 0
    BY <2>5, <2>8, <2>9
  <2>11. ASSUME "overrun" \notin events'
         PROVE  /\ mouse_count' = 2 => mouse'.Byte0 = read' - Unanalysed'
                /\ mouse_count' = 3 => /\ mouse'.Byte1 = read' - Unanalysed'
                                      /\ mouse'.Byte0 = read' - Unanalysed' - 1
    <3>1. ret = done + 1 /\ (mouse_count = 2 => mouse.Byte0 = done)
      BY <2>1, <2>2, <2>3, <2>11
    <3> QED
      BY <2>6, <2>7, <2>8, <3>1
  <2> QED
    BY <2>1, <2>10, <2>11
<1>5. CASE Silent
  BY <1>0, <1>5 DEF Silent, mouse_vars
<1> QED
  BY <1>1, <1>2, <1>3, <1>4, <1>5 DEF MouseNext, IdleLoop

\* MouseInv is an inductive invariant of Mouse.
LEMMA MouseInvAlways == MouseSpec => []MouseInv
<1>1. MouseInit => MouseInv
  <2> SUFFICES ASSUME MouseInit PROVE MouseInv
    OBVIOUS
  <2> USE SizeAssumption, MouseAssumption DEF MouseInit
  <2>1. /\ p_mouse.p_head = 0 /\ p_mouse.p_tail = 0 /\ p_mouse.count = 0
        /\ p_mouse \in Buffers(0..MaxBytes)
    BY DEF Reset, Blank, Buffers
  <2>2. MouseTypeOK
    BY <2>1 DEF MouseTypeOK, MousePCs, Fields
  <2>3. CountFits /\ PacketFits
    BY <2>1 DEF CountFits, Untaken, PacketFits, Unanalysed
  <2>4. NextByte = 0
    BY <2>1 DEF NextByte
  <2>5. SentHeld
    BY <2>1, <2>4 DEF SentHeld, Held
  <2> QED
    BY <2>2, <2>3, <2>5 DEF MouseInv
<1>2. MouseInv /\ [MouseNext]_mouse_vars => MouseInv'
  <2>1. MouseInv /\ MouseNext => MouseInv'
    BY MouseTypesStep, CountStep, SentHeldStep, PacketStep DEF MouseInv
  <2>2. MouseInv /\ UNCHANGED mouse_vars => MouseInv'
    BY DEF MouseInv, mouse_vars, MouseTypeOK, CountFits, Untaken, SentHeld, NextByte, PacketFits, Unanalysed
  <2> QED
    BY <2>1, <2>2
<1> QED
  BY <1>1, <1>2, PTL DEF MouseSpec

\* The mouse's count never says more than there is, and is right but for the bytes that
\* fell between load and store, for every size of the buffer and every order of
\* interrupts and turns.
THEOREM MouseBufferIsSound == MouseSpec => []MouseBufferSound
<1>1. MouseInv => MouseBufferSound
  BY DEF MouseInv, MouseBufferSound, MouseCountMatches, MouseTypeOK, CountFits, Untaken, Buffers
<1> QED
  BY <1>1, MouseInvAlways, PTL

\* A movement is made of the three bytes of one packet, for every size of the buffer,
\* whatever falls between the load and the store of the count.
THEOREM PacketsAreWhole == MouseSpec => PacketsWhole
<1>1. MouseInv /\ [MouseNext]_mouse_vars =>
        [mouse_count = 3 /\ mouse_pc = "analyse" /\ "overrun" \notin events =>
           /\ mouse'.Byte0 % 3 = 2
           /\ mouse'.Byte1 = mouse'.Byte0 + 1 /\ mouse'.Byte2 = mouse'.Byte0 + 2]_mouse
  <2> SUFFICES ASSUME MouseInv, [MouseNext]_mouse_vars, mouse' # mouse,
                      mouse_count = 3, mouse_pc = "analyse", "overrun" \notin events
               PROVE  /\ mouse'.Byte0 % 3 = 2
                      /\ mouse'.Byte1 = mouse'.Byte0 + 1 /\ mouse'.Byte2 = mouse'.Byte0 + 2
    OBVIOUS
  <2>1. Analyse
    BY DEF MouseNext, IdleLoop, Mouse_handler, Poll, MouseLoadCount, MouseStoreCount, MoveTail, Silent, mouse_vars
  <2>2. mouse \in [Fields -> 0..MaxBytes] /\ read \in Nat
    BY DEF MouseInv, MouseTypeOK
  <2>3. mouse' = [mouse EXCEPT !.Byte2 = ret]
    BY <2>1 DEF Analyse
  <2>4. mouse'.Byte0 = mouse.Byte0 /\ mouse'.Byte1 = mouse.Byte1 /\ mouse'.Byte2 = ret
    BY <2>2, <2>3 DEF Fields
  <2>5. /\ read - 1 \in Nat /\ (read - 1 - 3) % 3 = 0
        /\ ret = read /\ mouse.Byte1 = read - 1 /\ mouse.Byte0 = read - 1 - 1
    BY DEF MouseInv, PacketFits, Unanalysed
  <2>6. (read - 1 - 1) % 3 = 2
    BY <2>2, <2>5
  <2> QED
    BY <2>2, <2>4, <2>5, <2>6
<1> QED
  BY <1>1, MouseInvAlways, PTL DEF MouseSpec, PacketsWhole
-----------------------------------------------------------------------------
(* The keyboard *)

\* Where a task has begun to take bytes, or to throw them away.
Busy == {"copy", "load", "store", "reset"}

\* The tasks queued sleep, each once.
Queued ==
  /\ \A i \in DOMAIN wait_queue : pc[wait_queue[i]] = "asleep"
  /\ \A i, j \in DOMAIN wait_queue : wait_queue[i] = wait_queue[j] => i = j

\* One task at a time, unless another came between its steps.
Alone == "shared" \notin hit => \A t, u \in At(Busy) : t = u

\* No more is read than was sent.
Behind == last <= keys

\* The count never says more than there is, nor less than a reader relies on.
Counted ==
  hit \cap {"reset", "shared"} = {} =>
    /\ At({"reset"}) = {} =>
         /\ p_kb.count \in Uncounted..keys - last + Uncounted
         /\ "store" \notin hit => p_kb.count = keys - last + Uncounted
    /\ At({"reset"}) # {} => last = keys
    /\ \A t \in Tasks :
         /\ pc[t] = "copy" => counter[t] <= p_kb.count
         /\ pc[t] = "store" => /\ loaded[t] \in counter[t]..p_kb.count
                               /\ "store" \notin hit => loaded[t] = p_kb.count

\* A reader's tail is the buffer's, and it stays inside it until a read wraps.
TailsFit ==
  "shared" \notin hit =>
    /\ \A t \in Tasks : pc[t] = "copy" => tail[t] = p_kb.p_tail
    /\ "wrap" \notin hit => p_kb.p_tail <= KB_BUF_SIZE

\* What was sent and not read is in the buffer.
KeysHeld ==
  hit \cap {"wrap", "overrun", "shared", "reset"} = {} =>
    Held(p_kb.p_head, p_kb.buf, p_kb.p_tail, last, keys - last)

KeyboardInv ==
  TypeOK /\ Queued /\ Alone /\ Behind /\ Counted /\ TailsFit /\ KeysHeld /\ ReadsInOrder

\* Uncounted of any pc and counter.
UncountedIn(p, c) ==
  LET taken == {t \in Tasks : p[t] \in {"load", "store"}}
  IN IF taken = {} THEN 0 ELSE c[CHOOSE t \in taken : TRUE]

\* None is uncounted when no task has still to write the count.
LEMMA UncountedNone ==
  ASSUME NEW p, NEW c, \A u \in Tasks : p[u] \notin {"load", "store"}
  PROVE  UncountedIn(p, c) = 0
BY DEF UncountedIn

\* What one task alone has taken is what is uncounted.
LEMMA UncountedOf ==
  ASSUME NEW p, NEW c, NEW t \in Tasks, p[t] \in {"load", "store"},
         \A u \in Tasks : u # t => p[u] \notin {"load", "store"}
  PROVE  UncountedIn(p, c) = c[t]
<1>1. {u \in Tasks : p[u] \in {"load", "store"}} = {t}
  OBVIOUS
<1>2. (CHOOSE u \in {t} : TRUE) = t
  OBVIOUS
<1> QED
  BY <1>1, <1>2 DEF UncountedIn

\* The handler moves only a task that sleeps, and takes it off the queue.
LEMMA WokenIs ==
  ASSUME TypeOK, Queued, Keyboard_handler
  PROVE  /\ pc' \in [Tasks -> PCs] /\ wait_queue' \in Seq(Tasks)
         /\ \A t \in Tasks : pc'[t] = pc[t] \/ (pc[t] = "asleep" /\ pc'[t] = "count")
         /\ Queued'
<1>0. pc \in [Tasks -> PCs] /\ wait_queue \in Seq(Tasks) /\ Queued
      /\ pc' = Woken(wait_queue).pc /\ wait_queue' = Woken(wait_queue).queue
  BY DEF TypeOK, Keyboard_handler
<1>1. CASE wait_queue = <<>>
  <2>1. pc' = pc /\ wait_queue' = wait_queue
    BY <1>0, <1>1 DEF Woken
  <2> QED
    BY <1>0, <2>1 DEF Queued
<1>2. CASE wait_queue # <<>>
  <2> DEFINE h == Head(wait_queue)
  <2>1. pc' = [pc EXCEPT ![h] = "count"] /\ wait_queue' = Tail(wait_queue)
    BY <1>0, <1>2 DEF Woken
  <2>2. /\ h = wait_queue[1] /\ 1 \in DOMAIN wait_queue /\ h \in Tasks
        /\ Tail(wait_queue) \in Seq(Tasks)
        /\ DOMAIN Tail(wait_queue) = 1..Len(wait_queue) - 1
        /\ DOMAIN wait_queue = 1..Len(wait_queue) /\ Len(wait_queue) \in Nat \ {0}
        /\ \A i \in 1..Len(wait_queue) - 1 : Tail(wait_queue)[i] = wait_queue[i + 1]
    BY <1>0, <1>2
  <2>3. pc[h] = "asleep"
    BY <1>0, <2>2 DEF Queued
  <2> HIDE DEF h
  <2>4. /\ pc' \in [Tasks -> PCs] /\ pc'[h] = "count"
        /\ \A t \in Tasks : t # h => pc'[t] = pc[t]
    BY <1>0, <2>1, <2>2 DEF PCs
  <2>5. ASSUME NEW i \in DOMAIN wait_queue'
        PROVE  /\ i + 1 \in DOMAIN wait_queue /\ wait_queue'[i] = wait_queue[i + 1]
               /\ wait_queue[i + 1] \in Tasks
    BY <1>0, <2>1, <2>2, <2>5
  <2>6. ASSUME NEW i \in DOMAIN wait_queue' PROVE pc'[wait_queue'[i]] = "asleep"
    <3>1. wait_queue[i + 1] # h
      BY <1>0, <2>1, <2>2, <2>5, <2>6 DEF Queued
    <3> QED
      BY <1>0, <2>4, <2>5, <3>1 DEF Queued
  <2>7. ASSUME NEW i \in DOMAIN wait_queue', NEW j \in DOMAIN wait_queue',
               wait_queue'[i] = wait_queue'[j]
        PROVE  i = j
    <3>1. i + 1 = j + 1
      BY <1>0, <2>5, <2>7 DEF Queued
    <3> QED
      BY <2>1, <2>2, <3>1
  <2>8. Queued'
    BY <2>6, <2>7 DEF Queued
  <2> QED
    BY <2>1, <2>2, <2>3, <2>4, <2>8
<1> QED
  BY <1>1, <1>2

\* Interrupts, reads and resets keep the types.
LEMMA KeyboardTypesStep ==
  ASSUME KeyboardInv, Running
  PROVE  TypeOK'
<1> USE SizeAssumption, KeyboardAssumption
<1>0. TypeOK /\ Queued /\ p_kb \in Buffers(0..MaxKeys) /\ p_kb.p_head \in 0..KB_BUF_SIZE
      /\ p_kb.p_tail \in Nat /\ p_kb.count \in Int /\ last \in Nat /\ keys \in 0..MaxKeys
  BY DEF KeyboardInv, TypeOK, Buffers
<1>1. CASE Keyboard_handler
  <2>1. keys' \in 0..MaxKeys /\ p_kb' = Stored(p_kb, keys')
    BY <1>0, <1>1 DEF Keyboard_handler
  <2>2. p_kb' \in Buffers(0..MaxKeys)
    BY <1>0, <2>1, StoredIs
  <2>3. hit' \subseteq KeyWindows \cup Events
    BY <1>0, <1>1 DEF Keyboard_handler, Hit, At, TypeOK, Events
  <2> QED
    BY <1>0, <1>1, <2>1, <2>2, <2>3, WokenIs DEF Keyboard_handler, TypeOK, locals
<1> SUFFICES ASSUME NEW t \in Tasks, StartRead(t) \/ ResetPointers(t) \/ Proceed(t)
             PROVE  TypeOK'
  BY <1>1 DEF Running
<1>2. CASE StartRead(t)
  <2>1. PICK n \in 1..MaxRead : Read(t, n)
    BY <1>2 DEF StartRead
  <2>2. pc' \in [Tasks -> PCs] /\ asked' \in [Tasks -> 0..MaxRead]
    BY <1>0, <2>1 DEF Read, Goto, TypeOK, PCs
  <2> QED
    BY <1>0, <2>1, <2>2 DEF Read, TypeOK
<1>3. CASE ResetPointers(t)
  <2>0. /\ p_kb' = [[p_kb EXCEPT !.p_head = 0] EXCEPT !.p_tail = 0]
        /\ [p_kb EXCEPT !.p_head = 0] \in Buffers(0..MaxKeys)
    BY <1>0, <1>3 DEF ResetPointers, Buffers
  <2>1. p_kb' \in Buffers(0..MaxKeys)
    BY <2>0 DEF Buffers
  <2>2. pc' \in [Tasks -> PCs] /\ hit' \subseteq KeyWindows \cup Events
    BY <1>0, <1>3 DEF ResetPointers, Goto, Hit, Touch, Events, TypeOK, PCs
  <2>3. /\ UNCHANGED <<wait_queue, asked, counter, tail, loaded, keys, garbled, fault>>
        /\ last' = keys
    BY <1>3 DEF ResetPointers, locals
  <2>4. last' \in Nat
    BY <1>0, <2>3
  <2> QED
    BY <1>0, <2>1, <2>2, <2>3, <2>4 DEF TypeOK
<1>4. CASE Sleep(t)
  <2>1. pc' \in [Tasks -> PCs] /\ wait_queue' \in Seq(Tasks)
    BY <1>0, <1>4 DEF Sleep, Goto, TypeOK, PCs
  <2> QED
    BY <1>0, <1>4, <2>1 DEF Sleep, TypeOK, locals
<1>5. CASE Count(t)
  <2>1. Counter(p_kb.count, asked[t]) \in 0..MaxRead
    BY <1>0 DEF Counter, TypeOK
  <2>2. /\ pc' \in [Tasks -> PCs] /\ hit' \subseteq KeyWindows \cup Events
        /\ tail' \in [Tasks -> Nat]
    BY <1>0, <1>5 DEF Count, Goto, Hit, Touch, Events, TypeOK, PCs
  <2>3. counter' \in [Tasks -> 0..MaxRead]
    BY <1>0, <1>5, <2>1 DEF Count, TypeOK
  <2> QED
    BY <1>0, <1>5, <2>2, <2>3 DEF Count, TypeOK
<1>6. CASE Copy(t)
  <2> DEFINE n == counter[t]
             behind == KB_BUF_SIZE - tail[t]
             j == Copied(n, tail[t], behind).p_tail
  <2>1. n \in Nat /\ behind \in Int
    BY <1>0 DEF TypeOK
  <2>2. CASE ~(n <= behind \/ behind >= 0)
    <3>1. fault' = TRUE
          /\ UNCHANGED <<p_kb, wait_queue, pc, locals, keys, last, garbled, hit>>
      BY <1>6, <2>2 DEF Copy
    <3> QED
      BY <1>0, <3>1 DEF TypeOK, locals
  <2>3. CASE n <= behind \/ behind >= 0
    <3>1. /\ Goto(t, "copy", "load") /\ p_kb' = [p_kb EXCEPT !.p_tail = j]
          /\ garbled' = (garbled \/ ~InOrder(Copied(n, tail[t], behind).bytes, last))
          /\ last' = IF last + n < keys THEN last + n ELSE keys
          /\ Hit(Touch(t) \cup IF n <= behind THEN {} ELSE {"wrap"})
          /\ UNCHANGED <<wait_queue, locals, keys, fault>>
      BY <1>6, <2>3 DEF Copy
    <3>2. j \in Nat
      <4>1. CASE n <= behind
        BY <1>0, <2>1, <4>1 DEF Copied
      <4>2. CASE ~(n <= behind)
        <5>1. n - behind \in Nat
          BY <2>1, <4>2
        <5> HIDE DEF n, behind
        <5> QED
          BY <1>0, <4>2, <5>1 DEF Copied
      <4> QED
        BY <4>1, <4>2
    <3> HIDE DEF n, behind, j
    <3>3. p_kb' \in Buffers(0..MaxKeys)
      BY <1>0, <3>1, <3>2 DEF Buffers
    <3>6. last' \in Nat
      BY <1>0, <2>1, <3>1
    <3>4. pc' \in [Tasks -> PCs] /\ hit' \subseteq KeyWindows \cup Events
      BY <1>0, <3>1 DEF Goto, Hit, Touch, Events, TypeOK, PCs
    <3>5. garbled' \in BOOLEAN
      BY <1>0, <3>1 DEF TypeOK
    <3> QED
      BY <1>0, <3>1, <3>3, <3>4, <3>5, <3>6 DEF TypeOK, locals
  <2> QED
    BY <2>2, <2>3
<1>7. CASE LoadCount(t)
  <2>1. /\ pc' \in [Tasks -> PCs] /\ hit' \subseteq KeyWindows \cup Events
        /\ loaded' \in [Tasks -> Int]
    BY <1>0, <1>7 DEF LoadCount, Goto, Hit, Touch, Events, TypeOK, PCs
  <2> QED
    BY <1>0, <1>7, <2>1 DEF LoadCount, TypeOK
<1>8. CASE StoreCount(t)
  <2>1. loaded[t] - counter[t] \in Int
    BY <1>0 DEF TypeOK
  <2>2. p_kb' \in Buffers(0..MaxKeys)
    BY <1>0, <1>8, <2>1 DEF StoreCount, Buffers
  <2>3. pc' \in [Tasks -> PCs] /\ hit' \subseteq KeyWindows \cup Events
    BY <1>0, <1>8 DEF StoreCount, Goto, Hit, Touch, Events, TypeOK, PCs
  <2>4. /\ asked' = [asked EXCEPT ![t] = 0] /\ counter' = [counter EXCEPT ![t] = 0]
        /\ tail' = [tail EXCEPT ![t] = 0] /\ loaded' = [loaded EXCEPT ![t] = 0]
        /\ UNCHANGED <<wait_queue, keys, last, garbled, fault>>
    BY <1>8 DEF StoreCount
  <2>5. /\ asked \in [Tasks -> 0..MaxRead] /\ counter \in [Tasks -> 0..MaxRead]
        /\ tail \in [Tasks -> Nat] /\ loaded \in [Tasks -> Int]
    BY <1>0 DEF TypeOK
  <2>6. asked' \in [Tasks -> 0..MaxRead] /\ counter' \in [Tasks -> 0..MaxRead]
    BY <2>4, <2>5
  <2>7. tail' \in [Tasks -> Nat] /\ loaded' \in [Tasks -> Int]
    BY <2>4, <2>5
  <2> QED
    BY <1>0, <2>2, <2>3, <2>4, <2>6, <2>7 DEF TypeOK
<1>9. CASE ResetCount(t)
  <2>0. /\ p_kb' = [[p_kb EXCEPT !.count = 0] EXCEPT !.buf = Blank]
        /\ [p_kb EXCEPT !.count = 0] \in Buffers(0..MaxKeys)
        /\ Blank \in [0..KB_BUF_SIZE - 1 -> 0..MaxKeys]
    BY <1>0, <1>9 DEF ResetCount, Buffers, Blank
  <2>1. p_kb' \in Buffers(0..MaxKeys)
    BY <2>0 DEF Buffers
  <2>2. pc' \in [Tasks -> PCs] /\ hit' \subseteq KeyWindows \cup Events
    BY <1>0, <1>9 DEF ResetCount, Goto, Hit, Touch, Events, TypeOK, PCs
  <2> QED
    BY <1>0, <1>9, <2>1, <2>2 DEF ResetCount, TypeOK, locals
<1> QED
  BY <1>2, <1>3, <1>4, <1>5, <1>6, <1>7, <1>8, <1>9 DEF Proceed

\* What a step of one task does to every pc.
LEMMA GotoIs ==
  ASSUME TypeOK, NEW t \in Tasks, NEW here, NEW there, Goto(t, here, there)
  PROVE  pc[t] = here /\ pc'[t] = there /\ \A u \in Tasks : u # t => pc'[u] = pc[u]
BY DEF Goto, TypeOK

\* A task that was not disturbed has the buffer to itself.
LEMMA TouchIs ==
  ASSUME NEW t \in Tasks, NEW more, Touch(t) \subseteq more, Hit(more), "shared" \notin hit'
  PROVE  \A u \in Tasks : u # t => pc[u] \notin Busy
BY DEF Touch, Hit, At, Busy

\* The steps of a task that change neither the buffer nor what was met.
Quiet ==
  /\ \A u \in Tasks : pc'[u] = pc[u] \/ (pc[u] \notin Busy /\ pc'[u] \notin Busy)
  /\ UNCHANGED <<p_kb, counter, tail, loaded, keys, last, garbled, hit>>

\* Which those are.
LEMMA QuietSteps ==
  ASSUME TypeOK, NEW t \in Tasks,
         \/ StartRead(t) \/ Sleep(t)
         \/ Copy(t) /\ ~(counter[t] <= KB_BUF_SIZE - tail[t] \/ KB_BUF_SIZE - tail[t] >= 0)
  PROVE  Quiet
<1>1. CASE StartRead(t)
  <2>1. PICK n \in 1..MaxRead : Read(t, n)
    BY <1>1 DEF StartRead
  <2>2. PICK there \in {"sleep", "count"} : Goto(t, "idle", there)
    BY <2>1 DEF Read
  <2> QED
    BY <2>1, <2>2, GotoIs DEF Read, Quiet, Busy
<1>2. CASE Sleep(t)
  <2>1. Goto(t, "sleep", "asleep")
    BY <1>2 DEF Sleep
  <2> QED
    BY <1>2, <2>1, GotoIs DEF Sleep, Quiet, Busy, locals
<1>3. CASE Copy(t) /\ ~(counter[t] <= KB_BUF_SIZE - tail[t] \/ KB_BUF_SIZE - tail[t] >= 0)
  BY <1>3 DEF Copy, Quiet, locals
<1> QED
  BY <1>1, <1>2, <1>3

\* The copy that is made: what it does but for the bytes.
LEMMA CopyIs ==
  ASSUME TypeOK, NEW t \in Tasks, Copy(t),
         counter[t] <= KB_BUF_SIZE - tail[t] \/ KB_BUF_SIZE - tail[t] >= 0
  PROVE  /\ Goto(t, "copy", "load")
         /\ p_kb'.p_head = p_kb.p_head /\ p_kb'.count = p_kb.count /\ p_kb'.buf = p_kb.buf
         /\ last' = IF last + counter[t] < keys THEN last + counter[t] ELSE keys
         /\ UNCHANGED <<wait_queue, locals, keys, fault>>
         /\ hit \cup Touch(t) \subseteq hit'
         /\ "shared" \notin hit' => \A u \in Tasks : u # t => pc[u] \notin Busy
         /\ "wrap" \notin hit' =>
              /\ counter[t] <= KB_BUF_SIZE - tail[t]
              /\ p_kb'.p_tail = p_kb.p_tail + counter[t]
              /\ garbled' = (garbled \/ ~InOrder(Bytes(p_kb, tail[t], counter[t]), last))
<1> DEFINE n == counter[t]
           behind == KB_BUF_SIZE - tail[t]
           copied == Copied(n, tail[t], behind)
           more == Touch(t) \cup IF n <= behind THEN {} ELSE {"wrap"}
<1>1. /\ Goto(t, "copy", "load") /\ p_kb' = [p_kb EXCEPT !.p_tail = copied.p_tail]
      /\ garbled' = (garbled \/ ~InOrder(copied.bytes, last))
      /\ last' = IF last + n < keys THEN last + n ELSE keys
      /\ Hit(more) /\ UNCHANGED <<wait_queue, locals, keys, fault>>
  BY DEF Copy
<1>2. hit' = hit \cup more
  BY <1>1 DEF Hit
<1>3. "shared" \notin hit' => \A u \in Tasks : u # t => pc[u] \notin Busy
  <2>1. Touch(t) \subseteq more
    OBVIOUS
  <2> HIDE DEF more
  <2> QED
    BY <1>1, <2>1, TouchIs
<1>4. "wrap" \notin hit' =>
        n <= behind /\ copied.p_tail = p_kb.p_tail + n /\ copied.bytes = Bytes(p_kb, tail[t], n)
  <2>1. "wrap" \notin hit' => n <= behind
    BY <1>2
  <2> HIDE DEF n, behind, more
  <2> QED
    BY <2>1 DEF Copied
<1> HIDE DEF copied
<1>5. /\ p_kb'.p_head = p_kb.p_head /\ p_kb'.count = p_kb.count /\ p_kb'.buf = p_kb.buf
      /\ p_kb'.p_tail = copied.p_tail
  BY <1>1 DEF TypeOK, Buffers
<1> QED
  BY <1>1, <1>2, <1>3, <1>4, <1>5

\* Nothing met is forgotten.
LEMMA HitGrows ==
  ASSUME TypeOK, Running
  PROVE  hit \subseteq hit'
<1>1. CASE Keyboard_handler
  BY <1>1 DEF Keyboard_handler, Hit
<1>2. ASSUME NEW t \in Tasks, StartRead(t) \/ ResetPointers(t) \/ Proceed(t)
      PROVE  hit \subseteq hit'
  <2>1. CASE StartRead(t) \/ Sleep(t)
    BY <2>1, QuietSteps DEF Quiet
  <2>2. CASE Count(t)
    BY <2>2 DEF Count, Hit
  <2>3. CASE Copy(t)
    BY <2>3, CopyIs, QuietSteps DEF Quiet
  <2>4. CASE LoadCount(t)
    BY <2>4 DEF LoadCount, Hit
  <2>5. CASE StoreCount(t)
    BY <2>5 DEF StoreCount, Hit
  <2>6. CASE ResetPointers(t)
    BY <2>6 DEF ResetPointers, Hit
  <2>7. CASE ResetCount(t)
    BY <2>7 DEF ResetCount, Hit
  <2> QED
    BY <1>2, <2>1, <2>2, <2>3, <2>4, <2>5, <2>6, <2>7 DEF Proceed
<1> QED
  BY <1>1, <1>2 DEF Running

\* The queue holds those asleep, each once, after every step.
LEMMA QueuedStep ==
  ASSUME KeyboardInv, Running
  PROVE  Queued'
<1>0. TypeOK /\ Queued /\ wait_queue \in Seq(Tasks)
  BY DEF KeyboardInv, TypeOK
<1>1. CASE Keyboard_handler
  BY <1>0, <1>1, WokenIs
<1>2. ASSUME NEW t \in Tasks, StartRead(t) \/ ResetPointers(t) \/ Proceed(t)
      PROVE  Queued'
  <2>1. CASE Sleep(t)
    <3>1. /\ Goto(t, "sleep", "asleep") /\ wait_queue' = Append(wait_queue, t)
      BY <2>1 DEF Sleep
    <3>2. pc[t] = "sleep" /\ pc'[t] = "asleep" /\ \A u \in Tasks : u # t => pc'[u] = pc[u]
      BY <1>0, <3>1, GotoIs
    <3> DEFINE n == Len(wait_queue)
    <3>3. /\ n \in Nat /\ DOMAIN wait_queue = 1..n /\ DOMAIN wait_queue' = 1..n + 1
          /\ wait_queue'[n + 1] = t
          /\ \A i \in 1..n : wait_queue'[i] = wait_queue[i] /\ wait_queue[i] \in Tasks
      BY <1>0, <3>1
    <3> HIDE DEF n
    <3>4. \A i \in 1..n : wait_queue[i] # t /\ pc[wait_queue[i]] = "asleep"
      BY <1>0, <3>2, <3>3 DEF Queued
    <3>5. ASSUME NEW i \in 1..n + 1 PROVE pc'[wait_queue'[i]] = "asleep"
      <4>1. CASE i = n + 1
        BY <3>2, <3>3, <4>1
      <4>2. CASE i # n + 1
        <5>1. i \in 1..n
          BY <3>3, <4>2
        <5> QED
          BY <3>2, <3>3, <3>4, <5>1
      <4> QED
        BY <4>1, <4>2
    <3>6. ASSUME NEW i \in 1..n + 1, NEW j \in 1..n + 1, wait_queue'[i] = wait_queue'[j]
          PROVE  i = j
      <4>1. i \in 1..n \/ i = n + 1
        BY <3>3
      <4>2. j \in 1..n \/ j = n + 1
        BY <3>3
      <4>3. CASE i \in 1..n /\ j \in 1..n
        <5>1. wait_queue[i] = wait_queue[j] /\ i \in DOMAIN wait_queue /\ j \in DOMAIN wait_queue
          BY <3>3, <3>6, <4>3
        <5> QED
          BY <1>0, <5>1 DEF Queued
      <4> QED
        BY <3>3, <3>4, <3>6, <4>1, <4>2, <4>3
    <3> QED
      BY <3>3, <3>5, <3>6 DEF Queued
  <2>2. CASE ~Sleep(t)
    <3>1. wait_queue' = wait_queue
      BY <1>2, <2>2 DEF StartRead, Read, ResetPointers, Proceed, Count, Copy, LoadCount, StoreCount,
                        ResetCount
    <3>2. \A u \in Tasks : pc[u] = "asleep" => pc'[u] = "asleep"
      <4>1. CASE UNCHANGED pc
        BY <4>1
      <4>2. CASE ~UNCHANGED pc
        <5>1. PICK here \in {"idle", "count", "copy", "load", "store", "reset"}, there \in PCs :
                Goto(t, here, there)
          BY <1>2, <2>2, <4>2
             DEF StartRead, Read, ResetPointers, Proceed, Count, Copy, LoadCount, StoreCount, ResetCount,
                 PCs
        <5> QED
          BY <1>0, <5>1, GotoIs
      <4> QED
        BY <4>1, <4>2
    <3>3. \A i \in DOMAIN wait_queue : wait_queue[i] \in Tasks
      BY <1>0
    <3> QED
      BY <1>0, <3>1, <3>2, <3>3 DEF Queued
  <2> QED
    BY <2>1, <2>2
<1> QED
  BY <1>1, <1>2 DEF Running

\* What a byte that comes does: to no task that is busy, and what it meets is noted.
LEMMA HandlerIs ==
  ASSUME TypeOK, Queued, Keyboard_handler
  PROVE  /\ \A u \in Tasks : pc'[u] = pc[u] \/ (pc[u] \notin Busy /\ pc'[u] \notin Busy)
         /\ keys' = keys + 1 /\ keys' \in 0..MaxKeys /\ p_kb' = Stored(p_kb, keys')
         /\ p_kb'.count = p_kb.count + 1 /\ p_kb'.p_tail = p_kb.p_tail
         /\ UNCHANGED <<counter, tail, loaded, last, garbled, fault>>
         /\ "reset" \notin hit' => \A u \in Tasks : pc[u] # "reset"
         /\ "store" \notin hit' => \A u \in Tasks : pc[u] # "store"
         /\ "overrun" \notin hit' => keys - last < KB_BUF_SIZE
<1>0. p_kb \in Buffers(0..MaxKeys) /\ keys \in 0..MaxKeys /\ last \in Nat /\ KB_BUF_SIZE \in Nat
      /\ p_kb.count \in Int
  BY SizeAssumption DEF TypeOK, Buffers
<1>1. /\ keys' = keys + 1 /\ keys' \in 0..MaxKeys /\ p_kb' = Stored(p_kb, keys')
      /\ UNCHANGED <<counter, tail, loaded, last, garbled, fault>>
  BY <1>0, KeyboardAssumption DEF Keyboard_handler, locals
<1>2. p_kb'.count = p_kb.count + 1 /\ p_kb'.p_tail = p_kb.p_tail
  <2>1. p_kb \in Buffers(0..MaxKeys) /\ keys' \in 0..MaxKeys
    BY <1>0, <1>1
  <2>2. p_kb'.count = p_kb.count + 1
    BY <1>1, <2>1 DEF Stored, Buffers
  <2>3. p_kb'.p_tail = p_kb.p_tail
    BY <1>1, <2>1 DEF Stored, Buffers
  <2> QED
    BY <2>2, <2>3
<1>3. \A u \in Tasks : pc'[u] = pc[u] \/ (pc[u] \notin Busy /\ pc'[u] \notin Busy)
  BY WokenIs DEF Busy
<1>4. /\ \A u \in At(KeyWindows) : pc[u] \in hit'
      /\ keys - last >= KB_BUF_SIZE => "overrun" \in hit'
  BY DEF Keyboard_handler, Hit
<1>5. \A u \in Tasks : pc[u] \in {"store", "reset"} => pc[u] \in hit'
  BY <1>4 DEF At, KeyWindows
<1> QED
  BY <1>0, <1>1, <1>2, <1>3, <1>4, <1>5

\* What the other steps that touch the buffer do to pc.
LEMMA TouchSteps ==
  ASSUME TypeOK, NEW t \in Tasks, NEW here, NEW there,
         \/ Count(t) /\ here = "count" /\ there = "copy"
         \/ LoadCount(t) /\ here = "load" /\ there = "store"
         \/ StoreCount(t) /\ here = "store" /\ there = "idle"
         \/ ResetPointers(t) /\ here = "idle" /\ there = "reset"
         \/ ResetCount(t) /\ here = "reset" /\ there = "idle"
  PROVE  /\ pc[t] = here /\ pc'[t] = there /\ \A u \in Tasks : u # t => pc'[u] = pc[u]
         /\ "shared" \notin hit' => \A u \in Tasks : u # t => pc[u] \notin Busy
<1>1. Goto(t, here, there) /\ Hit(Touch(t))
  BY DEF Count, LoadCount, StoreCount, ResetPointers, ResetCount
<1>2. Touch(t) \subseteq Touch(t)
  OBVIOUS
<1>3. "shared" \notin hit' => \A u \in Tasks : u # t => pc[u] \notin Busy
  BY <1>1, <1>2, TouchIs
<1> QED
  BY <1>1, <1>3, GotoIs

\* One task at a time.
LEMMA AloneStep ==
  ASSUME KeyboardInv, Running
  PROVE  Alone'
<1>0. TypeOK /\ Queued /\ Alone /\ hit \subseteq hit'
  BY HitGrows DEF KeyboardInv
<1> SUFFICES ASSUME "shared" \notin hit', NEW u \in Tasks, NEW v \in Tasks,
                    pc'[u] \in Busy, pc'[v] \in Busy
             PROVE  u = v
  BY DEF Alone, At
<1>1. pc[u] \in Busy /\ pc[v] \in Busy => u = v
  BY <1>0 DEF Alone, At
<1>2. CASE Keyboard_handler
  BY <1>0, <1>1, <1>2, HandlerIs
<1>3. ASSUME NEW t \in Tasks, StartRead(t) \/ ResetPointers(t) \/ Proceed(t)
      PROVE  u = v
  <2>1. CASE Quiet
    BY <1>1, <2>1 DEF Quiet
  <2>2. CASE /\ \A w \in Tasks : w # t => pc'[w] = pc[w] /\ pc[w] \notin Busy
    BY <2>2
  <2>3. CASE Copy(t)
    <3>1. CASE counter[t] <= KB_BUF_SIZE - tail[t] \/ KB_BUF_SIZE - tail[t] >= 0
      BY <1>0, <2>2, <2>3, <3>1, CopyIs, GotoIs
    <3> QED
      BY <1>0, <2>1, <2>3, <3>1, QuietSteps
  <2>4. CASE StartRead(t) \/ Sleep(t)
    BY <1>0, <2>1, <2>4, QuietSteps
  <2>5. CASE Count(t) \/ LoadCount(t) \/ StoreCount(t) \/ ResetPointers(t) \/ ResetCount(t)
    BY <1>0, <2>2, <2>5, TouchSteps
  <2> QED
    BY <1>3, <2>3, <2>4, <2>5 DEF Proceed
<1> QED
  BY <1>2, <1>3 DEF Running

\* No more is read than was sent.
LEMMA BehindStep ==
  ASSUME KeyboardInv, Running
  PROVE  Behind'
<1>0. TypeOK /\ Queued /\ last <= keys /\ last \in Nat /\ keys \in Nat
  BY KeyboardAssumption DEF KeyboardInv, Behind, TypeOK
<1>1. CASE Keyboard_handler
  BY <1>0, <1>1, HandlerIs DEF Behind
<1>2. ASSUME NEW t \in Tasks, StartRead(t) \/ ResetPointers(t) \/ Proceed(t)
      PROVE  Behind'
  <2>1. CASE Quiet
    BY <1>0, <2>1 DEF Quiet, Behind
  <2>2. CASE Copy(t)
    <3>1. CASE counter[t] <= KB_BUF_SIZE - tail[t] \/ KB_BUF_SIZE - tail[t] >= 0
      <4>1. keys' = keys /\ last' = IF last + counter[t] < keys THEN last + counter[t] ELSE keys
        BY <1>0, <2>2, <3>1, CopyIs
      <4>2. counter[t] \in Nat
        BY <1>0, KeyboardAssumption DEF TypeOK
      <4> QED
        BY <1>0, <4>1, <4>2 DEF Behind
    <3> QED
      BY <1>0, <2>1, <2>2, <3>1, QuietSteps
  <2>3. CASE StartRead(t) \/ Sleep(t)
    BY <1>0, <2>1, <2>3, QuietSteps
  <2>4. CASE Count(t) \/ LoadCount(t) \/ StoreCount(t) \/ ResetPointers(t) \/ ResetCount(t)
    BY <1>0, <2>4 DEF Behind, Count, LoadCount, StoreCount, ResetPointers, ResetCount
  <2> QED
    BY <1>2, <2>2, <2>3, <2>4 DEF Proceed
<1> QED
  BY <1>1, <1>2 DEF Running

\* A reader's tail is the buffer's.
LEMMA TailsStep ==
  ASSUME KeyboardInv, Running
  PROVE  TailsFit'
<1>0. TypeOK /\ Queued /\ TailsFit /\ hit \subseteq hit' /\ p_kb.p_tail \in Nat /\ p_kb.count \in Int
      /\ KB_BUF_SIZE \in Nat
  BY HitGrows, SizeAssumption DEF KeyboardInv, TypeOK, Buffers
<1> SUFFICES ASSUME "shared" \notin hit'
             PROVE  /\ \A u \in Tasks : pc'[u] = "copy" => tail'[u] = p_kb'.p_tail
                    /\ "wrap" \notin hit' => p_kb'.p_tail <= KB_BUF_SIZE
  BY DEF TailsFit
<1>1. /\ \A u \in Tasks : pc[u] = "copy" => tail[u] = p_kb.p_tail
      /\ "wrap" \notin hit' => p_kb.p_tail <= KB_BUF_SIZE
  BY <1>0 DEF TailsFit
<1>2. CASE Keyboard_handler
  BY <1>0, <1>1, <1>2, HandlerIs DEF Busy
<1>3. ASSUME NEW t \in Tasks, StartRead(t) \/ ResetPointers(t) \/ Proceed(t)
      PROVE  /\ \A u \in Tasks : pc'[u] = "copy" => tail'[u] = p_kb'.p_tail
             /\ "wrap" \notin hit' => p_kb'.p_tail <= KB_BUF_SIZE
  <2>1. CASE Quiet
    BY <1>0, <1>1, <2>1 DEF Quiet, Busy
  <2>2. CASE Copy(t)
    <3>1. CASE counter[t] <= KB_BUF_SIZE - tail[t] \/ KB_BUF_SIZE - tail[t] >= 0
      <4>1. Goto(t, "copy", "load") /\ \A u \in Tasks : u # t => pc[u] \notin Busy
        BY <1>0, <2>2, <3>1, CopyIs
      <4>2. \A u \in Tasks : pc'[u] # "copy"
        BY <1>0, <4>1, GotoIs DEF Busy
      <4>3. ASSUME "wrap" \notin hit' PROVE p_kb'.p_tail <= KB_BUF_SIZE
        <5>1. counter[t] <= KB_BUF_SIZE - tail[t] /\ p_kb'.p_tail = p_kb.p_tail + counter[t]
          BY <1>0, <2>2, <3>1, <4>3, CopyIs
        <5>2. tail[t] = p_kb.p_tail /\ counter[t] \in Nat
          BY <1>0, <1>1, <4>1, GotoIs, KeyboardAssumption DEF TypeOK
        <5> QED
          BY <1>0, <5>1, <5>2
      <4> QED
        BY <4>2, <4>3
    <3> QED
      BY <1>0, <2>1, <2>2, <3>1, QuietSteps
  <2>3. CASE StartRead(t) \/ Sleep(t)
    BY <1>0, <2>1, <2>3, QuietSteps
  <2>4. CASE Count(t)
    <3>1. pc[t] = "count" /\ pc'[t] = "copy"
          /\ \A u \in Tasks : u # t => pc'[u] = pc[u] /\ pc[u] \notin Busy
      BY <1>0, <2>4, TouchSteps
    <3>2. p_kb' = p_kb /\ tail'[t] = p_kb.p_tail
      BY <1>0, <2>4 DEF Count, TypeOK
    <3> QED
      BY <1>1, <3>1, <3>2 DEF Busy
  <2>5. CASE LoadCount(t) \/ StoreCount(t) \/ ResetPointers(t) \/ ResetCount(t)
    <3>1. pc'[t] # "copy" /\ \A u \in Tasks : u # t => pc'[u] = pc[u] /\ pc[u] \notin Busy
      BY <1>0, <2>5, TouchSteps
    <3>2. p_kb'.p_tail = p_kb.p_tail \/ p_kb'.p_tail = 0
      BY <1>0, <2>5 DEF LoadCount, StoreCount, ResetPointers, ResetCount, TypeOK, Buffers
    <3> QED
      BY <1>0, <1>1, <3>1, <3>2 DEF Busy
  <2> QED
    BY <1>3, <2>2, <2>3, <2>4, <2>5 DEF Proceed
<1> QED
  BY <1>2, <1>3 DEF Running

\* What was sent and not read stays in the buffer.
LEMMA KeysHeldStep ==
  ASSUME KeyboardInv, Running
  PROVE  KeysHeld'
<1>0. /\ TypeOK /\ Queued /\ Counted /\ TailsFit /\ KeysHeld /\ hit \subseteq hit'
      /\ p_kb \in Buffers(0..MaxKeys) /\ p_kb.p_tail \in Nat /\ p_kb.p_head \in 0..KB_BUF_SIZE
      /\ last \in Nat /\ keys \in Nat /\ last <= keys /\ KB_BUF_SIZE \in Nat
  <2>1. TypeOK /\ Queued /\ Counted /\ TailsFit /\ KeysHeld /\ Behind /\ hit \subseteq hit'
    BY HitGrows DEF KeyboardInv
  <2>2. p_kb \in Buffers(0..MaxKeys) /\ last \in Nat /\ keys \in Nat
    BY <2>1, KeyboardAssumption DEF TypeOK
  <2>3. p_kb.p_tail \in Nat /\ p_kb.p_head \in 0..KB_BUF_SIZE
    BY <2>2 DEF Buffers
  <2> QED
    BY <2>1, <2>2, <2>3, SizeAssumption DEF Behind
<1> DEFINE kept == Held(p_kb'.p_head, p_kb'.buf, p_kb'.p_tail, last', keys' - last')
<1> SUFFICES ASSUME hit' \cap {"wrap", "overrun", "shared", "reset"} = {}
             PROVE  kept
  BY DEF KeysHeld
<1> DEFINE n == keys - last
<1>1. /\ Held(p_kb.p_head, p_kb.buf, p_kb.p_tail, last, n) /\ p_kb.p_tail \in 0..KB_BUF_SIZE
      /\ n \in Nat
  BY <1>0 DEF KeysHeld, TailsFit
<1>2. CASE Keyboard_handler
  <2> DEFINE c == Stored(p_kb, last + n + 1)
  <2>1. /\ keys' = last + n + 1 /\ keys' \in 0..MaxKeys /\ p_kb' = c /\ last' = last /\ n # KB_BUF_SIZE
        /\ p_kb'.p_tail = p_kb.p_tail
    BY <1>0, <1>2, HandlerIs
  <2>2. keys' - last' = n + 1
    BY <1>0, <2>1
  <2> HIDE DEF n
  <2>3. Held(c.p_head, c.buf, p_kb.p_tail, last, n + 1)
    BY <1>0, <1>1, <2>1, StoredHeld
  <2> HIDE DEF c
  <2> QED
    BY <2>1, <2>2, <2>3
<1>3. CASE UNCHANGED <<p_kb, last, keys>>
  BY <1>1, <1>3
<1>4. ASSUME NEW t \in Tasks, StartRead(t) \/ ResetPointers(t) \/ Proceed(t)
      PROVE  kept
  <2>1. CASE Copy(t)
    <3>1. CASE counter[t] <= KB_BUF_SIZE - tail[t] \/ KB_BUF_SIZE - tail[t] >= 0
      <4> DEFINE m == counter[t]
      <4>1. /\ p_kb'.p_head = p_kb.p_head /\ p_kb'.buf = p_kb.buf /\ keys' = keys
            /\ last' = IF last + m < keys THEN last + m ELSE keys
            /\ Goto(t, "copy", "load") /\ \A u \in Tasks : u # t => pc[u] \notin Busy
            /\ m <= KB_BUF_SIZE - tail[t] /\ p_kb'.p_tail = p_kb.p_tail + m
        BY <1>0, <2>1, <3>1, CopyIs
      <4>2. pc[t] = "copy" /\ tail[t] = p_kb.p_tail /\ m \in Nat
        <5>1. pc[t] = "copy"
          BY <1>0, <4>1, GotoIs
        <5>2. tail[t] = p_kb.p_tail
          BY <1>0, <5>1 DEF TailsFit
        <5>3. m \in Nat
          BY <1>0, KeyboardAssumption DEF TypeOK
        <5> QED
          BY <5>1, <5>2, <5>3
      <4>3. m <= n
        <5>1. At({"reset"}) = {} /\ \A u \in Tasks : pc[u] \notin {"load", "store"}
          BY <4>1, <4>2 DEF At, Busy
        <5>2. Uncounted = 0
          BY <5>1, UncountedNone DEF Uncounted, UncountedIn, At
        <5>3. p_kb.count \in 0..keys - last + 0 /\ m <= p_kb.count
          BY <1>0, <4>2, <5>1, <5>2 DEF Counted
        <5> QED
          BY <1>0, <4>2, <5>3
      <4> DEFINE at2 == p_kb.p_tail + m
                 from2 == last + m
                 n2 == n - m
      <4>4. /\ at2 \in 0..KB_BUF_SIZE /\ from2 \in Nat /\ n2 \in Nat /\ p_kb.p_tail <= at2
            /\ at2 - p_kb.p_tail = from2 - last /\ from2 + n2 = last + n
            /\ last' = from2 /\ keys' - last' = n2 /\ p_kb'.p_tail = at2
        <5>1. at2 \in 0..KB_BUF_SIZE
          BY <1>0, <1>1, <4>1, <4>2
        <5>2. from2 \in Nat /\ p_kb.p_tail <= at2 /\ at2 - p_kb.p_tail = from2 - last
          BY <1>0, <4>2
        <5>3. n2 \in Nat /\ from2 + n2 = last + n
          BY <1>0, <1>1, <4>2, <4>3
        <5>4. last' = from2 /\ keys' - last' = n2
          <6> HIDE DEF m
          <6> QED
            BY <1>0, <4>1, <4>2, <4>3
        <5> QED
          BY <4>1, <5>1, <5>2, <5>3, <5>4
      <4> HIDE DEF at2, from2, n2, m, n
      <4>5. Held(p_kb.p_head, p_kb.buf, at2, from2, n2)
        BY <1>0, <1>1, <4>4, TakenHeld
      <4> QED
        BY <4>1, <4>4, <4>5
    <3> QED
      BY <1>0, <1>3, <2>1, <3>1, QuietSteps DEF Quiet
  <2>2. CASE StartRead(t) \/ Sleep(t)
    BY <1>0, <1>3, <2>2, QuietSteps DEF Quiet
  <2>3. CASE Count(t) \/ LoadCount(t)
    BY <1>3, <2>3 DEF Count, LoadCount
  <2>4. CASE StoreCount(t)
    <3>1. /\ p_kb'.p_head = p_kb.p_head /\ p_kb'.buf = p_kb.buf /\ p_kb'.p_tail = p_kb.p_tail
          /\ last' = last /\ keys' = keys
      BY <1>0, <2>4 DEF StoreCount, Buffers
    <3> QED
      BY <1>1, <3>1
  <2>5. CASE ResetPointers(t)
    <3>1. p_kb'.p_head = 0 /\ p_kb'.p_tail = 0 /\ last' = keys /\ keys' = keys
      BY <1>0, <2>5 DEF ResetPointers, Buffers
    <3> QED
      BY <1>0, <3>1 DEF Held
  <2>6. CASE ResetCount(t)
    <3>1. /\ p_kb'.p_head = p_kb.p_head /\ p_kb'.p_tail = p_kb.p_tail /\ last' = last /\ keys' = keys
          /\ pc[t] = "reset"
      BY <1>0, <2>6 DEF ResetCount, Buffers, Goto
    <3>2. last = keys
      BY <1>0, <3>1 DEF Counted, At
    <3>3. n = 0 /\ keys' - last' = 0
      BY <1>0, <3>1, <3>2
    <3> QED
      BY <1>0, <1>1, <3>1, <3>3 DEF Held
  <2> QED
    BY <1>4, <2>1, <2>2, <2>3, <2>4, <2>5, <2>6 DEF Proceed
<1> QED
  BY <1>2, <1>4 DEF Running

\* Every read returns the bytes that come next, and none copies a negative length.
LEMMA OrderStep ==
  ASSUME KeyboardInv, Running
  PROVE  ReadsInOrder'
<1>0. /\ TypeOK /\ Queued /\ Counted /\ TailsFit /\ KeysHeld /\ ReadsInOrder /\ hit \subseteq hit'
      /\ p_kb.buf \in [0..KB_BUF_SIZE - 1 -> 0..MaxKeys] /\ p_kb.p_tail \in Nat
      /\ last \in Nat /\ keys \in Nat /\ KB_BUF_SIZE \in Nat
  <2>1. TypeOK /\ Queued /\ Counted /\ TailsFit /\ KeysHeld /\ ReadsInOrder /\ hit \subseteq hit'
    BY HitGrows DEF KeyboardInv
  <2>2. p_kb \in Buffers(0..MaxKeys) /\ last \in Nat /\ keys \in Nat
    BY <2>1, KeyboardAssumption DEF TypeOK
  <2>3. p_kb.buf \in [0..KB_BUF_SIZE - 1 -> 0..MaxKeys] /\ p_kb.p_tail \in Nat
    BY <2>2 DEF Buffers
  <2> QED
    BY <2>1, <2>2, <2>3, SizeAssumption
<1>1. CASE UNCHANGED <<garbled, fault>>
  BY <1>0, <1>1 DEF ReadsInOrder
<1>2. CASE Keyboard_handler
  BY <1>1, <1>2 DEF Keyboard_handler
<1>3. ASSUME NEW t \in Tasks, Copy(t) PROVE ReadsInOrder'
  <2> DEFINE n == counter[t]
             at == tail[t]
  <2>0. n \in Nat /\ at \in Nat
    BY <1>0, KeyboardAssumption DEF TypeOK
  <2>1. CASE n <= KB_BUF_SIZE - at \/ KB_BUF_SIZE - at >= 0
    <3>1. /\ fault' = fault /\ Goto(t, "copy", "load")
          /\ "shared" \notin hit' => \A u \in Tasks : u # t => pc[u] \notin Busy
          /\ "wrap" \notin hit' => n <= KB_BUF_SIZE - at
                                   /\ garbled' = (garbled \/ ~InOrder(Bytes(p_kb, at, n), last))
      BY <1>0, <1>3, <2>1, CopyIs, Zenon DEF locals
    <3>2. ASSUME hit' \cap {"wrap", "overrun", "shared", "reset"} = {} PROVE ~garbled'
      <4>1. ~garbled /\ n <= KB_BUF_SIZE - at /\ \A u \in Tasks : u # t => pc[u] \notin Busy
        BY <1>0, <3>1, <3>2 DEF ReadsInOrder
      <4>2. pc[t] = "copy" /\ at = p_kb.p_tail
        BY <1>0, <3>1, <3>2, GotoIs DEF TailsFit
      <4>3. /\ Held(p_kb.p_head, p_kb.buf, at, last, keys - last)
        BY <1>0, <3>2, <4>2 DEF KeysHeld
      <4>4. n <= keys - last
        <5>1. At({"reset"}) = {} /\ \A u \in Tasks : pc[u] \notin {"load", "store"}
          BY <4>1, <4>2 DEF At, Busy
        <5>2. Uncounted = 0
          BY <5>1, UncountedNone DEF Uncounted, UncountedIn, At
        <5>3. p_kb.count \in 0..keys - last + 0 /\ n <= p_kb.count
          BY <1>0, <3>2, <4>2, <5>1, <5>2 DEF Counted
        <5> QED
          BY <1>0, <2>0, <5>3
      <4> HIDE DEF n, at
      <4>5. ASSUME NEW i \in 1..n PROVE Bytes(p_kb, at, n)[i] = last + i
        <5>1. /\ i \in 1..keys - last /\ at + i - 1 \in 0..KB_BUF_SIZE - 1
              /\ Wrap(at + i - 1) = at + i - 1
          BY <1>0, <2>0, <4>1, <4>4 DEF Wrap
        <5>2. p_kb.buf[at + i - 1] = last + i
          BY <4>3, <5>1 DEF Held
        <5> QED
          BY <1>0, <5>1, <5>2 DEF Bytes
      <4>6. InOrder(Bytes(p_kb, at, n), last)
        BY <4>5 DEF InOrder, Bytes
      <4> QED
        BY <3>1, <3>2, <4>1, <4>6
    <3> QED
      BY <1>0, <3>1, <3>2 DEF ReadsInOrder
  <2>2. CASE ~(n <= KB_BUF_SIZE - at \/ KB_BUF_SIZE - at >= 0)
    <3>1. UNCHANGED <<garbled, hit>> /\ pc[t] = "copy"
      BY <1>3, <2>2 DEF Copy
    <3>2. at > KB_BUF_SIZE
      BY <1>0, <2>0, <2>2
    <3>3. hit \cap {"wrap", "shared"} # {}
      <4>1. SUFFICES ASSUME hit \cap {"wrap", "shared"} = {} PROVE FALSE
        OBVIOUS
      <4>2. at = p_kb.p_tail /\ p_kb.p_tail <= KB_BUF_SIZE
        BY <1>0, <3>1, <4>1 DEF TailsFit
      <4> QED
        BY <1>0, <3>2, <4>2
    <3> QED
      BY <1>0, <3>1, <3>3 DEF ReadsInOrder
  <2> QED
    BY <2>1, <2>2
<1>4. ASSUME NEW t \in Tasks, StartRead(t) \/ ResetPointers(t) \/ Proceed(t), ~Copy(t)
      PROVE  ReadsInOrder'
  BY <1>1, <1>4 DEF StartRead, Read, ResetPointers, Proceed, Sleep, Count, LoadCount, StoreCount, ResetCount
<1> QED
  BY <1>2, <1>3, <1>4 DEF Running

\* Steps that move no busy task leave what is uncounted.
LEMMA UncountedKept ==
  ASSUME \A u \in Tasks : pc'[u] = pc[u] \/ (pc[u] \notin Busy /\ pc'[u] \notin Busy),
         counter' = counter
  PROVE  /\ At({"reset"})' = At({"reset"}) /\ Uncounted' = Uncounted
         /\ \A u \in Tasks : pc'[u] \in {"copy", "store"} => pc[u] = pc'[u]
<1>1. \A u \in Tasks : pc'[u] \in {"load", "store"} <=> pc[u] \in {"load", "store"}
  BY DEF Busy
<1>2. {u \in Tasks : pc'[u] \in {"load", "store"}} = {u \in Tasks : pc[u] \in {"load", "store"}}
  BY <1>1
<1>4. At({"reset"})' = At({"reset"})
  BY DEF At, Busy
<1>5. \A u \in Tasks : pc'[u] \in {"copy", "store"} => pc[u] = pc'[u]
  BY DEF Busy
<1>6. Uncounted' = Uncounted
  <2> DEFINE here(p) == {u \in Tasks : p[u] \in {"load", "store"}}
             of(S) == IF S = {} THEN 0 ELSE counter[CHOOSE u \in S : TRUE]
  <2>1. here(pc') = here(pc)
    BY <1>2
  <2>2. Uncounted = of(here(pc)) /\ Uncounted' = of(here(pc'))
    BY DEF Uncounted, At
  <2> HIDE DEF here
  <2> QED
    BY <2>1, <2>2
<1> QED
  BY <1>4, <1>5, <1>6

\* The count, when one task alone is busy.
LEMMA CountOne ==
  ASSUME Counted, hit \cap {"reset", "shared"} = {}, NEW t \in Tasks,
         \A u \in Tasks : u # t => pc[u] \notin Busy
  PROVE  /\ pc[t] = "reset" => last = keys
         /\ pc[t] \notin {"load", "store", "reset"} =>
              /\ p_kb.count \in 0..keys - last + 0
              /\ "store" \notin hit => p_kb.count = keys - last + 0
         /\ pc[t] \in {"load", "store"} =>
              /\ p_kb.count \in counter[t]..keys - last + counter[t]
              /\ "store" \notin hit => p_kb.count = keys - last + counter[t]
<1>1. CASE pc[t] = "reset"
  BY <1>1 DEF Counted, At
<1>2. CASE pc[t] \notin {"load", "store", "reset"}
  <2>1. At({"reset"}) = {} /\ \A u \in Tasks : pc[u] \notin {"load", "store"}
    BY <1>2 DEF At, Busy
  <2>2. Uncounted = 0
    BY <2>1, UncountedNone DEF Uncounted, UncountedIn, At
  <2> QED
    BY <1>2, <2>1, <2>2 DEF Counted
<1>3. CASE pc[t] \in {"load", "store"}
  <2>1. At({"reset"}) = {} /\ \A u \in Tasks : u # t => pc[u] \notin {"load", "store"}
    BY <1>3 DEF At, Busy
  <2>2. UncountedIn(pc, counter) = counter[t]
    BY <1>3, <2>1, UncountedOf
  <2>3. Uncounted = counter[t]
    BY <2>2 DEF Uncounted, UncountedIn, At
  <2> QED
    BY <1>3, <2>1, <2>3 DEF Counted
<1> QED
  BY <1>1, <1>2, <1>3

\* The same of the state after a step, and the other way round.
LEMMA CountOneNext ==
  ASSUME NEW t \in Tasks,
         \A u \in Tasks : u # t => pc'[u] \notin Busy,
         pc'[t] = "reset" => last' = keys',
         pc'[t] \notin {"load", "store", "reset"} =>
           /\ p_kb'.count \in 0..keys' - last' + 0
           /\ "store" \notin hit' => p_kb'.count = keys' - last' + 0,
         pc'[t] \in {"load", "store"} =>
           /\ p_kb'.count \in counter'[t]..keys' - last' + counter'[t]
           /\ "store" \notin hit' => p_kb'.count = keys' - last' + counter'[t],
         pc'[t] = "copy" => counter'[t] <= p_kb'.count,
         pc'[t] = "store" => /\ loaded'[t] \in counter'[t]..p_kb'.count
                             /\ "store" \notin hit' => loaded'[t] = p_kb'.count
  PROVE  Counted'
<1>1. /\ At({"reset"})' # {} => last' = keys'
      /\ \A u \in Tasks :
           /\ pc'[u] = "copy" => counter'[u] <= p_kb'.count
           /\ pc'[u] = "store" => /\ loaded'[u] \in counter'[u]..p_kb'.count
                                  /\ "store" \notin hit' => loaded'[u] = p_kb'.count
  BY DEF At, Busy
<1>2. ASSUME At({"reset"})' = {}
      PROVE  /\ p_kb'.count \in Uncounted'..keys' - last' + Uncounted'
             /\ "store" \notin hit' => p_kb'.count = keys' - last' + Uncounted'
  <2>0. pc'[t] # "reset"
    BY <1>2 DEF At
  <2>1. CASE pc'[t] \notin {"load", "store"}
    <3>1. \A u \in Tasks : pc'[u] \notin {"load", "store"}
      BY <2>1 DEF Busy
    <3>2. UncountedIn(pc', counter') = 0
      BY <3>1, UncountedNone
    <3>3. Uncounted' = 0
      BY <3>2 DEF Uncounted, UncountedIn, At
    <3> QED
      BY <2>0, <2>1, <3>3
  <2>2. CASE pc'[t] \in {"load", "store"}
    <3>1. \A u \in Tasks : u # t => pc'[u] \notin {"load", "store"}
      BY DEF Busy
    <3>2. UncountedIn(pc', counter') = counter'[t]
      BY <2>2, <3>1, UncountedOf
    <3>3. Uncounted' = counter'[t]
      BY <3>2 DEF Uncounted, UncountedIn, At
    <3> QED
      BY <2>2, <3>3
  <2> QED
    BY <2>1, <2>2
<1> QED
  BY <1>1, <1>2 DEF Counted

\* The count stays what Counted says, byte by byte and step by step.
LEMMA CountedStep ==
  ASSUME KeyboardInv, Running
  PROVE  Counted'
<1>0. /\ TypeOK /\ Queued /\ Alone /\ Counted /\ hit \subseteq hit' /\ last <= keys
      /\ p_kb \in Buffers(0..MaxKeys) /\ p_kb.count \in Int /\ last \in Nat /\ keys \in Nat
  <2>1. TypeOK /\ Queued /\ Alone /\ Counted /\ Behind /\ hit \subseteq hit'
    BY HitGrows DEF KeyboardInv
  <2> QED
    BY <2>1, KeyboardAssumption DEF TypeOK, Buffers, Behind
<1> SUFFICES ASSUME hit' \cap {"reset", "shared"} = {} PROVE Counted'
  BY DEF Counted
<1>1. hit \cap {"reset", "shared"} = {} /\ "shared" \notin hit'
  BY <1>0
<1>2. \A u \in Tasks : counter[u] \in Nat /\ loaded[u] \in Int /\ asked[u] \in Nat
  BY <1>0, KeyboardAssumption DEF TypeOK
<1>3. CASE Keyboard_handler
  <2>1. /\ \A u \in Tasks : pc'[u] = pc[u] \/ (pc[u] \notin Busy /\ pc'[u] \notin Busy)
        /\ keys' = keys + 1 /\ p_kb'.count = p_kb.count + 1
        /\ counter' = counter /\ loaded' = loaded /\ last' = last
        /\ \A u \in Tasks : pc[u] # "reset"
        /\ "store" \notin hit' => \A u \in Tasks : pc[u] # "store"
    BY <1>0, <1>3, HandlerIs
  <2>2. /\ At({"reset"}) = {} /\ At({"reset"})' = {} /\ Uncounted' = Uncounted
        /\ \A u \in Tasks : pc'[u] \in {"copy", "store"} => pc[u] = pc'[u]
    BY <2>1, UncountedKept DEF At
  <2> DEFINE g == Uncounted
  <2>3. g \in Nat
    <3>1. At({"load", "store"}) # {} =>
            (CHOOSE u \in At({"load", "store"}) : TRUE) \in Tasks
      BY DEF At
    <3> QED
      BY <1>2, <3>1 DEF Uncounted
  <2>4. /\ p_kb.count \in g..keys - last + g
        /\ "store" \notin hit => p_kb.count = keys - last + g
        /\ \A u \in Tasks : /\ pc[u] = "copy" => counter[u] <= p_kb.count
                            /\ pc[u] = "store" => loaded[u] \in counter[u]..p_kb.count
    BY <1>0, <1>1, <2>2 DEF Counted
  <2> HIDE DEF g
  <2>5. /\ p_kb'.count \in g..keys' - last' + g
        /\ "store" \notin hit' => p_kb'.count = keys' - last' + g
    <3>1. keys' - last' = keys - last + 1 /\ keys - last \in Nat /\ p_kb'.count = p_kb.count + 1
      BY <1>0, <2>1
    <3>2. "store" \notin hit' => "store" \notin hit
      BY <1>0
    <3> DEFINE d == keys - last
               e == keys' - last'
    <3>3. /\ d \in Nat /\ e = d + 1 /\ p_kb.count \in g..d + g
          /\ "store" \notin hit' => p_kb.count = d + g
      BY <2>4, <3>1, <3>2
    <3> HIDE DEF d, e
    <3>4. p_kb'.count \in g..e + g /\ ("store" \notin hit' => p_kb'.count = e + g)
      BY <1>0, <2>3, <3>1, <3>3
    <3> QED
      BY <3>4 DEF e
  <2>6. ASSUME NEW u \in Tasks
        PROVE  /\ pc'[u] = "copy" => counter'[u] <= p_kb'.count
               /\ pc'[u] = "store" => /\ loaded'[u] \in counter'[u]..p_kb'.count
                                      /\ "store" \notin hit' => loaded'[u] = p_kb'.count
    <3>1. counter[u] \in Nat /\ loaded[u] \in Int /\ p_kb.count \in Int /\ p_kb'.count = p_kb.count + 1
          /\ counter' = counter /\ loaded' = loaded
      BY <1>0, <1>2, <2>1
    <3>2. pc'[u] = "copy" => counter[u] <= p_kb.count
      BY <2>2, <2>4
    <3>3. pc'[u] = "store" => loaded[u] \in counter[u]..p_kb.count /\ "store" \in hit'
      BY <2>1, <2>2, <2>4
    <3> QED
      BY <3>1, <3>2, <3>3
  <2>7. /\ p_kb'.count \in Uncounted'..keys' - last' + Uncounted'
        /\ "store" \notin hit' => p_kb'.count = keys' - last' + Uncounted'
    BY <2>2, <2>5 DEF g
  <2> QED
    BY <2>2, <2>6, <2>7 DEF Counted
<1>4. CASE Quiet
  <2>1. /\ \A u \in Tasks : pc'[u] = pc[u] \/ (pc[u] \notin Busy /\ pc'[u] \notin Busy)
        /\ UNCHANGED <<p_kb, counter, loaded, keys, last, hit>>
    BY <1>4 DEF Quiet
  <2>2. /\ At({"reset"})' = At({"reset"}) /\ Uncounted' = Uncounted
        /\ \A u \in Tasks : pc'[u] \in {"copy", "store"} => pc[u] = pc'[u]
    BY <2>1, UncountedKept
  <2>3. /\ At({"reset"}) = {} =>
             /\ p_kb'.count \in Uncounted'..keys' - last' + Uncounted'
             /\ "store" \notin hit' => p_kb'.count = keys' - last' + Uncounted'
        /\ At({"reset"}) # {} => last' = keys'
    BY <1>0, <1>1, <2>1, <2>2 DEF Counted
  <2>4. \A u \in Tasks :
           /\ pc'[u] = "copy" => counter'[u] <= p_kb'.count
           /\ pc'[u] = "store" => /\ loaded'[u] \in counter'[u]..p_kb'.count
                                  /\ "store" \notin hit' => loaded'[u] = p_kb'.count
    BY <1>0, <1>1, <2>1, <2>2 DEF Counted
  <2> QED
    BY <2>2, <2>3, <2>4 DEF Counted
<1>5. ASSUME NEW t \in Tasks, StartRead(t) \/ ResetPointers(t) \/ Proceed(t)
      PROVE  Counted'
  <2> DEFINE n == counter[t]
  <2>0. n \in Nat /\ loaded[t] \in Int
    BY <1>2
  <2>1. CASE StartRead(t) \/ Sleep(t)
    BY <1>0, <1>4, <2>1, QuietSteps
  <2>2. CASE Count(t)
    <3>1. pc[t] = "count" /\ pc'[t] = "copy"
          /\ \A u \in Tasks : u # t => pc'[u] = pc[u] /\ pc[u] \notin Busy
      BY <1>0, <1>1, <2>2, TouchSteps
    <3>2. /\ counter'[t] = Counter(p_kb.count, asked[t])
          /\ p_kb' = p_kb /\ keys' = keys /\ last' = last
      BY <1>0, <2>2 DEF Count, TypeOK
    <3>3. /\ p_kb.count \in 0..keys - last + 0
          /\ "store" \notin hit => p_kb.count = keys - last + 0
      BY <1>0, <1>1, <3>1, CountOne
    <3>4. counter'[t] <= p_kb.count
      BY <1>0, <1>2, <3>2, <3>3 DEF Counter
    <3>5. "store" \notin hit' => p_kb'.count = keys' - last' + 0
      BY <1>0, <3>2, <3>3
    <3>6. p_kb'.count \in 0..keys' - last' + 0 /\ counter'[t] <= p_kb'.count
      BY <3>2, <3>3, <3>4
    <3>7. \A u \in Tasks : u # t => pc'[u] \notin Busy
      BY <3>1
    <3> QED
      BY <3>1, <3>5, <3>6, <3>7, CountOneNext
  <2>3. CASE Copy(t)
    <3>1. CASE n <= KB_BUF_SIZE - tail[t] \/ KB_BUF_SIZE - tail[t] >= 0
      <4>1. /\ Goto(t, "copy", "load") /\ p_kb'.count = p_kb.count /\ keys' = keys /\ counter' = counter
            /\ last' = IF last + n < keys THEN last + n ELSE keys
            /\ \A u \in Tasks : u # t => pc[u] \notin Busy
        BY <1>0, <1>1, <2>3, <3>1, CopyIs DEF locals
      <4>2. /\ pc[t] = "copy" /\ pc'[t] = "load"
            /\ \A u \in Tasks : u # t => pc'[u] = pc[u] /\ pc[u] \notin Busy
        BY <1>0, <4>1, GotoIs
      <4>3. /\ p_kb.count \in 0..keys - last + 0
            /\ "store" \notin hit => p_kb.count = keys - last + 0
        BY <1>0, <1>1, <4>2, CountOne
      <4>4. n <= p_kb.count
        BY <1>1, <1>0, <4>2 DEF Counted
      <4> HIDE DEF n
      <4>5. last' = last + n
        BY <1>0, <2>0, <4>1, <4>3, <4>4
      <4>6. /\ p_kb'.count \in n..keys' - last' + n
            /\ "store" \notin hit' => p_kb'.count = keys' - last' + n
        BY <1>0, <2>0, <4>1, <4>3, <4>4, <4>5
      <4>7. counter'[t] = n
        BY <4>1 DEF n
      <4>8. \A u \in Tasks : u # t => pc'[u] \notin Busy
        BY <4>2
      <4> QED
        BY <4>2, <4>6, <4>7, <4>8, CountOneNext
    <3> QED
      BY <1>0, <1>4, <2>3, <3>1, QuietSteps
  <2>4. CASE LoadCount(t)
    <3>1. /\ pc[t] = "load" /\ pc'[t] = "store"
          /\ \A u \in Tasks : u # t => pc'[u] = pc[u] /\ pc[u] \notin Busy
      BY <1>0, <1>1, <2>4, TouchSteps
    <3>2. /\ loaded'[t] = p_kb.count /\ counter' = counter
          /\ p_kb' = p_kb /\ keys' = keys /\ last' = last
      BY <1>0, <2>4 DEF LoadCount, TypeOK
    <3>3. /\ p_kb.count \in n..keys - last + n
          /\ "store" \notin hit => p_kb.count = keys - last + n
      BY <1>0, <1>1, <3>1, CountOne
    <3>4. counter'[t] = n
      BY <3>2
    <3> HIDE DEF n
    <3>5. /\ p_kb'.count \in n..keys' - last' + n
          /\ "store" \notin hit' => p_kb'.count = keys' - last' + n
          /\ loaded'[t] = p_kb'.count /\ loaded'[t] \in n..p_kb'.count
      BY <1>0, <2>0, <3>2, <3>3
    <3>6. \A u \in Tasks : u # t => pc'[u] \notin Busy
      BY <3>1
    <3> QED
      BY <3>1, <3>4, <3>5, <3>6, CountOneNext
  <2>5. CASE StoreCount(t)
    <3>1. /\ pc[t] = "store" /\ pc'[t] = "idle"
          /\ \A u \in Tasks : u # t => pc'[u] = pc[u] /\ pc[u] \notin Busy
      BY <1>0, <1>1, <2>5, TouchSteps
    <3>2. p_kb'.count = loaded[t] - n /\ keys' = keys /\ last' = last
      BY <1>0, <2>5 DEF StoreCount, Buffers
    <3>3. /\ p_kb.count \in n..keys - last + n
          /\ "store" \notin hit => p_kb.count = keys - last + n
      BY <1>0, <1>1, <3>1, CountOne
    <3>4. /\ loaded[t] \in n..p_kb.count
          /\ "store" \notin hit => loaded[t] = p_kb.count
      BY <1>0, <1>1, <3>1 DEF Counted
    <3> HIDE DEF n
    <3>5. /\ p_kb'.count \in 0..keys' - last' + 0
          /\ "store" \notin hit' => p_kb'.count = keys' - last' + 0
      BY <1>0, <2>0, <3>2, <3>3, <3>4
    <3>6. \A u \in Tasks : u # t => pc'[u] \notin Busy
      BY <3>1
    <3> QED
      BY <3>1, <3>5, <3>6, CountOneNext
  <2>6. CASE ResetPointers(t)
    <3>1. /\ pc'[t] = "reset" /\ \A u \in Tasks : u # t => pc'[u] = pc[u] /\ pc[u] \notin Busy
      BY <1>0, <1>1, <2>6, TouchSteps
    <3>2. keys' = keys /\ last' = keys
      BY <2>6 DEF ResetPointers
    <3>3. \A u \in Tasks : u # t => pc'[u] \notin Busy
      BY <3>1
    <3> QED
      BY <3>1, <3>2, <3>3, CountOneNext
  <2>7. CASE ResetCount(t)
    <3>1. /\ pc[t] = "reset" /\ pc'[t] = "idle"
          /\ \A u \in Tasks : u # t => pc'[u] = pc[u] /\ pc[u] \notin Busy
      BY <1>0, <1>1, <2>7, TouchSteps
    <3>2. p_kb'.count = 0 /\ keys' = keys /\ last' = last
      BY <1>0, <2>7 DEF ResetCount, Buffers
    <3>3. last = keys
      BY <1>0, <1>1, <3>1, CountOne
    <3>4. /\ p_kb'.count \in 0..keys' - last' + 0 /\ p_kb'.count = keys' - last' + 0
      BY <1>0, <3>2, <3>3
    <3>5. \A u \in Tasks : u # t => pc'[u] \notin Busy
      BY <3>1
    <3> QED
      BY <3>1, <3>4, <3>5, CountOneNext
  <2> QED
    BY <1>5, <2>1, <2>2, <2>3, <2>4, <2>5, <2>6, <2>7 DEF Proceed
<1> QED
  BY <1>3, <1>5 DEF Running

\* KeyboardInv is an inductive invariant of Keyboard.
LEMMA KeyboardInvAlways == Spec => []KeyboardInv
<1>1. Init => KeyboardInv
  <2> SUFFICES ASSUME Init PROVE KeyboardInv
    OBVIOUS
  <2>0. /\ p_kb = Reset /\ wait_queue = <<>> /\ pc = [t \in Tasks |-> "idle"]
        /\ asked = [t \in Tasks |-> 0] /\ counter = asked /\ tail = asked /\ loaded = asked
        /\ keys = 0 /\ last = 0 /\ garbled = FALSE /\ fault = FALSE /\ hit = {}
    BY DEF Init
  <2>1. Reset \in Buffers(0..MaxKeys) /\ Reset.p_tail = 0 /\ Reset.p_head = 0 /\ Reset.count = 0
    BY SizeAssumption, KeyboardAssumption DEF Reset, Buffers, Blank
  <2>2. TypeOK
    <3>1. /\ asked \in [Tasks -> 0..MaxRead] /\ counter \in [Tasks -> 0..MaxRead]
          /\ tail \in [Tasks -> Nat] /\ loaded \in [Tasks -> Int]
      BY <2>0, KeyboardAssumption
    <3>2. wait_queue \in Seq(Tasks) /\ pc \in [Tasks -> PCs] /\ keys \in 0..MaxKeys
      BY <2>0, KeyboardAssumption DEF PCs
    <3> QED
      BY <2>0, <2>1, <3>1, <3>2 DEF TypeOK
  <2>3. Queued
    BY <2>0 DEF Queued
  <2>4. \A t \in Tasks : pc[t] = "idle"
    BY <2>0
  <2>5. Alone /\ Behind
    BY <2>0, <2>4 DEF Alone, Behind, At, Busy
  <2>6. Counted
    <3>1. At({"reset"}) = {} /\ At({"load", "store"}) = {}
      BY <2>4 DEF At
    <3>2. Uncounted = 0
      BY <3>1 DEF Uncounted
    <3> QED
      BY <2>0, <2>1, <2>4, <3>1, <3>2 DEF Counted
  <2>7. TailsFit
    BY <2>0, <2>1, <2>4, SizeAssumption DEF TailsFit
  <2>8. KeysHeld
    BY <2>0, <2>1, SizeAssumption DEF KeysHeld, Held
  <2>9. ReadsInOrder
    BY <2>0 DEF ReadsInOrder
  <2> QED
    BY <2>2, <2>3, <2>5, <2>6, <2>7, <2>8, <2>9 DEF KeyboardInv
<1>2. KeyboardInv /\ [Next]_vars => KeyboardInv'
  <2> SUFFICES ASSUME KeyboardInv, [Next]_vars PROVE KeyboardInv'
    OBVIOUS
  <2>1. CASE Running
    BY <2>1, KeyboardTypesStep, QueuedStep, AloneStep, BehindStep, CountedStep, TailsStep, KeysHeldStep,
       OrderStep DEF KeyboardInv
  <2>2. CASE UNCHANGED vars
    <3>1. TypeOK'
      BY <2>2 DEF KeyboardInv, TypeOK, vars, locals
    <3>2. Queued' /\ Alone' /\ Behind' /\ TailsFit' /\ ReadsInOrder' /\ KeysHeld'
      BY <2>2 DEF KeyboardInv, vars, locals, Queued, Alone, Behind, TailsFit, ReadsInOrder, KeysHeld, At
    <3>3. Counted'
      BY <2>2 DEF KeyboardInv, vars, locals, Counted, Uncounted, At
    <3> QED
      BY <3>1, <3>2, <3>3 DEF KeyboardInv
  <2> QED
    BY <2>1, <2>2 DEF Next, Stopped
<1> QED
  BY <1>1, <1>2, PTL DEF Spec

\* BufferSound holds in every state: interrupts, readers and resets in any order leave
\* the count what it says it is, but for the orders that it names.
THEOREM BufferIsSound == Spec => []BufferSound
<1>1. KeyboardInv => BufferSound
  <2> SUFFICES ASSUME KeyboardInv PROVE BufferSound
    OBVIOUS
  <2>1. TypeOK /\ Counted
    BY DEF KeyboardInv
  <2>2. CountMatches
    BY <2>1 DEF Counted, CountMatches
  <2> QED
    BY <2>1, <2>2 DEF BufferSound
<1> QED
  BY <1>1, KeyboardInvAlways, PTL

\* ReadsInOrder holds in every state: readers get the bytes in the order they were sent.
THEOREM ReadsAreInOrder == Spec => []ReadsInOrder
<1>1. KeyboardInv => ReadsInOrder
  BY DEF KeyboardInv
<1> QED
  BY <1>1, KeyboardInvAlways, PTL
=============================================================================
