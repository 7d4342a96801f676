---------------------------- MODULE InputBuffer ----------------------------
(***************************************************************************)
(* struct keyboard_inputbuffer, which the keyboard and the mouse driver    *)
(* each have one of.  A byte is known by its number: the n-th the device   *)
(* has sent is n, and 0 is what memset and the unknown memory behind the   *)
(* buffer read as.  p_head and p_tail are offsets into buf.                *)
(***************************************************************************)
EXTENDS Integers, Sequences

CONSTANT KB_BUF_SIZE  \* 100 in the code

ASSUME SizeAssumption == KB_BUF_SIZE \in Nat \ {0}

Buffers(Bytes) == [p_head : 0..KB_BUF_SIZE, p_tail : Nat, count : Int,
                   buf : [0..KB_BUF_SIZE - 1 -> Bytes]]

Blank == [i \in 0..KB_BUF_SIZE - 1 |-> 0]

\* What the init functions, open, close and the reset command leave.
Reset == [p_head |-> 0, p_tail |-> 0, count |-> 0, buf |-> Blank]

(* Operators named for what they do wrong, here and in the drivers' modules, are *)
(* variants of the next one that a slip would give.                              *)

\* What the interrupt handlers do with a byte.  The head rests behind the last
\* cell until the next byte comes.
Stored(b, x) ==
  LET head == IF b.p_head = KB_BUF_SIZE THEN 0 ELSE b.p_head
  IN [b EXCEPT !.buf[head] = x, !.count = @ + 1, !.p_head = head + 1]

\* n bytes read from an offset on.
Bytes(b, from, n) ==
  [i \in 1..n |-> IF from + i - 1 \in DOMAIN b.buf THEN b.buf[from + i - 1] ELSE 0]

\* The bytes after the one numbered last, in the order they were sent.
InOrder(bytes, last) == \A i \in DOMAIN bytes : bytes[i] = last + i
=============================================================================
