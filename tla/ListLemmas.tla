----------------------------- MODULE ListLemmas -----------------------------
(* What the operators on lists that the models share return, for any list, and which     *)
(* numbers of a set come first.                                                          *)
EXTENDS Integers, SequencesExt, TLAPS, SequenceTheorems, WellFoundedInduction,
        FiniteSetTheorems

\* r is q with e before the entry i, or behind the last one.
Inserted(r, q, i, e) ==
  /\ Len(r) = Len(q) + 1
  /\ \A j \in 1..Len(q) + 1 : r[j] = IF j < i THEN q[j] ELSE IF j = i THEN e ELSE q[j - 1]

\* What InsertAt returns, entry by entry.
LEMMA InsertAtEntries ==
  ASSUME NEW S, NEW q \in Seq(S), NEW i \in 1..Len(q) + 1, NEW e \in S
  PROVE  InsertAt(q, i, e) \in Seq(S) /\ Inserted(InsertAt(q, i, e), q, i, e)
<1> DEFINE front == SubSeq(q, 1, i - 1)
           back  == SubSeq(q, i, Len(q))
<1>1. Len(q) \in Nat /\ \A j \in 1..Len(q) : q[j] \in S
  BY LenProperties, ElementOfSeq
<1>2. /\ front \in Seq(S) /\ Len(front) = i - 1
      /\ \A j \in 1..i - 1 : front[j] = q[j]
  BY <1>1, SubSeqProperties
<1>3. /\ back \in Seq(S) /\ Len(back) = Len(q) - i + 1
      /\ \A j \in 1..Len(q) - i + 1 : back[j] = q[i + j - 1]
  BY <1>1, SubSeqProperties
<1>4. <<e>> \in Seq(S) /\ Len(<<e>>) = 1 /\ <<e>>[1] = e
  OBVIOUS
<1> DEFINE upto == front \o <<e>>
<1> HIDE DEF front, back
<1>5. /\ upto \in Seq(S) /\ Len(upto) = i
      /\ \A j \in 1..i : upto[j] = IF j < i THEN q[j] ELSE e
  <2>1. /\ upto \in Seq(S) /\ Len(upto) = (i - 1) + 1
        /\ \A j \in 1..(i - 1) + 1 :
             upto[j] = IF j <= i - 1 THEN front[j] ELSE <<e>>[j - (i - 1)]
    BY <1>2, <1>4, ConcatProperties
  <2> QED
    BY <1>1, <1>2, <1>4, <2>1
<1> HIDE DEF upto
<1>6. /\ upto \o back \in Seq(S)
      /\ Len(upto \o back) = Len(upto) + Len(back)
      /\ \A j \in 1..Len(upto) + Len(back) :
           (upto \o back)[j] = IF j <= Len(upto) THEN upto[j]
                               ELSE back[j - Len(upto)]
  BY <1>3, <1>5, ConcatProperties, Zenon
<1>7. InsertAt(q, i, e) = upto \o back
  BY DEF InsertAt, upto, front, back
<1>8. Len(upto) + Len(back) = Len(q) + 1
  BY <1>1, <1>3, <1>5
<1>9. ASSUME NEW j \in 1..Len(q) + 1
      PROVE  (upto \o back)[j] = IF j < i THEN q[j] ELSE IF j = i THEN e ELSE q[j - 1]
  <2>1. (upto \o back)[j] = IF j <= i THEN upto[j] ELSE back[j - i]
    BY <1>5, <1>6, <1>8
  <2>2. CASE j <= i
    BY <1>1, <1>5, <2>1, <2>2
  <2>3. CASE j > i
    <3>1. j - i \in 1..Len(q) - i + 1 /\ i + (j - i) - 1 = j - 1
      BY <1>1, <2>3
    <3>2. back[j - i] = q[j - 1]
      <4>1. back[j - i] = q[i + (j - i) - 1]
        BY <1>3, <3>1, Zenon
      <4> QED
        BY <3>1, <4>1, Zenon
    <3>3. ~(j <= i) /\ ~(j < i) /\ j # i
      BY <1>1, <2>3
    <3> QED
      BY <2>1, <3>2, <3>3, Zenon
  <2>4. j <= i \/ j > i
    BY <1>1
  <2> QED
    BY <2>2, <2>3, <2>4, Zenon
<1> QED
  BY <1>6, <1>7, <1>8, <1>9, Zenon DEF Inserted

\* The entries of q with t inserted at p are those of q and t.
LEMMA EntriesOfInsertion ==
  ASSUME NEW S, NEW q \in Seq(S), NEW t \in S, NEW p \in 1..Len(q) + 1
  PROVE  ToSet(InsertAt(q, p, t)) = ToSet(q) \cup {t}
<1> DEFINE r == InsertAt(q, p, t)
<1>0. /\ r \in Seq(S) /\ Len(r) = Len(q) + 1
      /\ \A j \in 1..Len(q) + 1 :
           r[j] = IF j < p THEN q[j] ELSE IF j = p THEN t ELSE q[j - 1]
  BY InsertAtEntries DEF Inserted
<1> HIDE DEF r
<1>1. Len(q) \in Nat /\ DOMAIN q = 1..Len(q) /\ DOMAIN r = 1..Len(q) + 1
  BY <1>0, LenProperties
<1>2. ASSUME NEW j \in 1..Len(q) + 1
      PROVE  r[j] \in ToSet(q) \cup {t}
  <2>1. CASE j < p
    BY <1>0, <1>1, <2>1 DEF ToSet
  <2>2. CASE j = p
    BY <1>0, <1>1, <2>2
  <2>3. CASE j > p
    <3>1. j - 1 \in 1..Len(q) /\ ~(j < p) /\ j # p
      BY <1>1, <2>3
    <3>2. r[j] = q[j - 1]
      BY <1>0, <3>1
    <3> QED
      BY <1>1, <3>1, <3>2 DEF ToSet
  <2> QED
    BY <1>1, <2>1, <2>2, <2>3
<1>3. ASSUME NEW j \in 1..Len(q)
      PROVE  q[j] \in ToSet(r)
  <2>1. CASE j < p
    BY <1>0, <1>1, <2>1 DEF ToSet
  <2>2. CASE j >= p
    <3>1. j + 1 \in 1..Len(q) + 1 /\ ~(j + 1 < p) /\ j + 1 # p /\ (j + 1) - 1 = j
      BY <1>1, <2>2
    <3>2. r[j + 1] = q[j]
      BY <1>0, <3>1
    <3> QED
      BY <1>1, <3>1, <3>2 DEF ToSet
  <2> QED
    BY <1>1, <2>1, <2>2
<1>4. t \in ToSet(r)
  BY <1>0, <1>1 DEF ToSet
<1>5. ToSet(r) = ToSet(q) \cup {t}
  BY <1>1, <1>2, <1>3, <1>4 DEF ToSet
<1> QED
  BY <1>5 DEF r

\* Taking the first entry off a list.
LEMMA FirstEntry ==
  ASSUME NEW S, NEW q \in Seq(S), q # <<>>
  PROVE  /\ Head(q) \in S /\ Tail(q) \in Seq(S)
         /\ Len(q) \in Nat \ {0} /\ Len(Tail(q)) = Len(q) - 1
         /\ ToSet(q) = {Head(q)} \cup ToSet(Tail(q))
<1>1. /\ Head(q) \in S /\ Tail(q) \in Seq(S)
      /\ Len(Tail(q)) = Len(q) - 1
      /\ \A i \in 1..Len(Tail(q)) : Tail(q)[i] = q[i + 1]
  BY HeadTailProperties
<1>2. Len(q) \in Nat \ {0} /\ Head(q) = q[1]
  BY EmptySeq
<1>3. DOMAIN q = 1..Len(q) /\ DOMAIN Tail(q) = 1..Len(q) - 1
  BY <1>1, LenProperties
<1>4. ASSUME NEW i \in 1..Len(q), i # 1
      PROVE  q[i] \in ToSet(Tail(q))
  <2>1. i - 1 \in 1..Len(q) - 1 /\ (i - 1) + 1 = i
    BY <1>2, <1>4
  <2>2. Tail(q)[i - 1] = q[i]
    BY <1>1, <2>1
  <2> QED
    BY <1>3, <2>1, <2>2 DEF ToSet
<1>5. ASSUME NEW i \in 1..Len(q) - 1
      PROVE  Tail(q)[i] \in ToSet(q)
  <2>1. i + 1 \in 1..Len(q)
    BY <1>2
  <2> QED
    BY <1>1, <1>3, <2>1 DEF ToSet
<1>6. q[1] \in ToSet(q)
  BY <1>2, <1>3 DEF ToSet
<1> QED
  BY <1>1, <1>2, <1>3, <1>4, <1>5, <1>6 DEF ToSet

\* A list that holds no entry twice begins with an entry the rest lacks.
LEMMA FirstApart ==
  ASSUME NEW S, NEW q \in Seq(S), q # <<>>, IsInjective(q)
  PROVE  IsInjective(Tail(q)) /\ Head(q) \notin ToSet(Tail(q))
<1>1. /\ Tail(q) \in Seq(S) /\ Len(Tail(q)) = Len(q) - 1
      /\ \A i \in 1..Len(Tail(q)) : Tail(q)[i] = q[i + 1]
  BY HeadTailProperties
<1>2. Len(q) \in Nat \ {0} /\ Head(q) = q[1]
  BY EmptySeq
<1>3. DOMAIN q = 1..Len(q) /\ DOMAIN Tail(q) = 1..Len(q) - 1
  BY <1>1, LenProperties
<1>4. \A i \in 1..Len(q) - 1 : i + 1 \in 1..Len(q) /\ i + 1 # 1
  BY <1>2
<1>5. IsInjective(Tail(q))
  BY <1>1, <1>3, <1>4 DEF IsInjective
<1>6. Head(q) \notin ToSet(Tail(q))
  <2> SUFFICES ASSUME NEW i \in 1..Len(q) - 1, q[1] = q[i + 1]
               PROVE  FALSE
    BY <1>1, <1>2, <1>3 DEF ToSet
  <2> QED
    BY <1>2, <1>3, <1>4 DEF IsInjective
<1> QED
  BY <1>5, <1>6

\* Inserting an entry the list lacks puts no entry in twice.
LEMMA InsertionApart ==
  ASSUME NEW S, NEW q \in Seq(S), NEW t \in S, NEW p \in 1..Len(q) + 1,
         IsInjective(q), t \notin ToSet(q)
  PROVE  IsInjective(InsertAt(q, p, t))
<1> DEFINE r == InsertAt(q, p, t)
<1>1. /\ r \in Seq(S) /\ Len(r) = Len(q) + 1
      /\ \A j \in 1..Len(q) + 1 :
           r[j] = IF j < p THEN q[j] ELSE IF j = p THEN t ELSE q[j - 1]
  BY InsertAtEntries DEF Inserted
<1> HIDE DEF r
<1>2. Len(q) \in Nat /\ DOMAIN q = 1..Len(q) /\ DOMAIN r = 1..Len(q) + 1
  BY <1>1, LenProperties
\* Where the entry j of r comes from: entry From(j) of q, unless j is p.
<1> DEFINE From(j) == IF j < p THEN j ELSE j - 1
<1>3. \A j \in DOMAIN r \ {p} : From(j) \in DOMAIN q /\ r[j] = q[From(j)]
  BY <1>1, <1>2
<1>4. \A i, j \in DOMAIN r \ {p} : From(i) = From(j) => i = j
  BY <1>2
<1> HIDE DEF From
<1>5. r[p] = t /\ \A j \in DOMAIN r \ {p} : r[j] # t
  BY <1>1, <1>2, <1>3 DEF ToSet
<1>6. ASSUME NEW i \in DOMAIN r, NEW j \in DOMAIN r, r[i] = r[j]
      PROVE  i = j
  <2>1. CASE i = p \/ j = p
    BY <1>5, <1>6, <2>1
  <2>2. CASE i # p /\ j # p
    <3>1. q[From(i)] = q[From(j)] /\ From(i) \in DOMAIN q /\ From(j) \in DOMAIN q
      BY <1>3, <1>6, <2>2
    <3> QED
      BY <1>4, <2>2, <3>1 DEF IsInjective
  <2> QED
    BY <2>1, <2>2
<1>7. IsInjective(r)
  BY <1>6 DEF IsInjective
<1> QED
  BY <1>7 DEF r

\* What Append returns.
LEMMA AppendEntries ==
  ASSUME NEW S, NEW q \in Seq(S), NEW e \in S
  PROVE  /\ Append(q, e) \in Seq(S) /\ Len(Append(q, e)) = Len(q) + 1
         /\ ToSet(Append(q, e)) = ToSet(q) \cup {e}
         /\ IsInjective(q) /\ e \notin ToSet(q) => IsInjective(Append(q, e))
<1> DEFINE r == Append(q, e)
<1>1. /\ r \in Seq(S) /\ Len(r) = Len(q) + 1
      /\ \A i \in 1..Len(q) : r[i] = q[i]
      /\ r[Len(q) + 1] = e
  BY AppendProperties
<1> HIDE DEF r
<1>2. Len(q) \in Nat /\ DOMAIN q = 1..Len(q) /\ DOMAIN r = 1..Len(q) + 1
  BY <1>1, LenProperties
<1>3. DOMAIN r = DOMAIN q \cup {Len(q) + 1} /\ \A i \in DOMAIN q : r[i] = q[i]
  BY <1>1, <1>2
<1>4. ToSet(r) = ToSet(q) \cup {e}
  BY <1>1, <1>3 DEF ToSet
<1>5. ASSUME IsInjective(q), e \notin ToSet(q)
      PROVE  IsInjective(r)
  BY <1>1, <1>3, <1>5 DEF IsInjective, ToSet
<1> QED
  BY <1>1, <1>4, <1>5 DEF r

\* The entries of a list that one more is put before.
LEMMA PrependEntries ==
  ASSUME NEW S, NEW t \in S, NEW s \in Seq(S)
  PROVE  <<t>> \o s \in Seq(S) /\ ToSet(<<t>> \o s) = {t} \cup ToSet(s)
PROOF
<1>1. <<t>> \o s \in Seq(S) /\ Len(<<t>> \o s) = 1 + Len(s) /\ Len(s) \in Nat
  BY ConcatProperties, LenProperties
<1>2. \A i \in 1..Len(s) + 1 : (<<t>> \o s)[i] = IF i = 1 THEN t ELSE s[i - 1]
  BY ConcatProperties, LenProperties
<1>3. ASSUME NEW x PROVE x \in ToSet(<<t>> \o s) <=> x \in {t} \cup ToSet(s)
  <2>1. ASSUME x \in ToSet(<<t>> \o s) PROVE x \in {t} \cup ToSet(s)
    <3>1. PICK i \in 1..Len(s) + 1 : (<<t>> \o s)[i] = x
      BY <1>1, <2>1 DEF ToSet
    <3>2. CASE i = 1
      BY <3>1, <3>2, <1>2
    <3>3. CASE i # 1
      <4>1. i - 1 \in 1..Len(s) /\ s[i - 1] = x
        BY <1>1, <1>2, <3>1, <3>3
      <4> QED
        BY <4>1 DEF ToSet
    <3> QED
      BY <3>2, <3>3
  <2>2. ASSUME x \in ToSet(s) PROVE x \in ToSet(<<t>> \o s)
    <3>1. PICK i \in 1..Len(s) : s[i] = x
      BY <2>2 DEF ToSet
    <3>2. PICK j \in 1..Len(<<t>> \o s) : (<<t>> \o s)[j] = x
      <4>1. i + 1 \in 1..Len(s) + 1 /\ i + 1 # 1 /\ (i + 1) - 1 = i
        BY <1>1
      <4>2. (<<t>> \o s)[i + 1] = s[(i + 1) - 1]
        BY <1>2, <4>1
      <4>3. (<<t>> \o s)[i + 1] = x /\ i + 1 \in 1..Len(<<t>> \o s)
        BY <4>2, <4>1, <3>1, <1>1
      <4> QED
        BY <4>3
    <3> QED
      BY <3>2 DEF ToSet
  <2>3. t \in ToSet(<<t>> \o s)
    <3>1. 1 \in 1..Len(<<t>> \o s) /\ (<<t>> \o s)[1] = t
      BY <1>1, <1>2
    <3> QED
      BY <3>1 DEF ToSet
  <2> QED
    BY <2>1, <2>2, <2>3
<1> QED
  BY <1>1, <1>3

\* What RemoveAt returns, entry by entry.
LEMMA RemoveAtEntries ==
  ASSUME NEW S, NEW q \in Seq(S), NEW i \in 1..Len(q)
  PROVE  /\ RemoveAt(q, i) \in Seq(S)
         /\ Len(RemoveAt(q, i)) = Len(q) - 1
         /\ \A j \in 1..Len(q) - 1 : RemoveAt(q, i)[j] = IF j < i THEN q[j] ELSE q[j + 1]
PROOF
<1> DEFINE front == SubSeq(q, 1, i - 1)
           back  == SubSeq(q, i + 1, Len(q))
<1>1. Len(q) \in Nat /\ \A j \in 1..Len(q) : q[j] \in S
  BY LenProperties, ElementOfSeq
<1>2. /\ front \in Seq(S) /\ Len(front) = i - 1
      /\ \A j \in 1..i - 1 : front[j] = q[j]
  BY <1>1, SubSeqProperties
<1>3. /\ back \in Seq(S) /\ Len(back) = Len(q) - i
      /\ \A j \in 1..Len(q) - i : back[j] = q[(i + 1) + j - 1]
  BY <1>1, SubSeqProperties
<1> HIDE DEF front, back
<1>4. /\ front \o back \in Seq(S)
      /\ Len(front \o back) = Len(front) + Len(back)
      /\ \A j \in 1..Len(front) + Len(back) :
           (front \o back)[j] = IF j <= Len(front) THEN front[j] ELSE back[j - Len(front)]
  BY <1>2, <1>3, ConcatProperties, Zenon
<1>5. RemoveAt(q, i) = front \o back
  BY DEF RemoveAt, front, back
<1>6. Len(front) + Len(back) = Len(q) - 1
  BY <1>1, <1>2, <1>3
<1>7. ASSUME NEW j \in 1..Len(q) - 1
      PROVE  (front \o back)[j] = IF j < i THEN q[j] ELSE q[j + 1]
  <2>1. (front \o back)[j] = IF j <= i - 1 THEN front[j] ELSE back[j - (i - 1)]
    BY <1>2, <1>4, <1>6
  <2>2. CASE j < i
    BY <1>1, <1>2, <2>1, <2>2
  <2>3. CASE j >= i
    <3>1. j - (i - 1) \in 1..Len(q) - i /\ (i + 1) + (j - (i - 1)) - 1 = j + 1
      BY <1>1, <2>3
    <3>2. back[j - (i - 1)] = q[(i + 1) + (j - (i - 1)) - 1]
      BY <1>3, <3>1, Zenon
    <3>3. back[j - (i - 1)] = q[j + 1]
      BY <3>1, <3>2, Zenon
    <3>4. ~(j <= i - 1) /\ ~(j < i)
      BY <2>3
    <3> QED
      BY <2>1, <3>3, <3>4
  <2>4. j < i \/ j >= i
    BY <1>1
  <2> QED
    BY <2>2, <2>3, <2>4, Zenon
<1> QED
  BY <1>4, <1>5, <1>6, <1>7

\* What RemoveFirst returns of a list that holds no entry twice: the list without the
\* entry, in its order; the list itself, when the entry is not in it.
LEMMA RemovalApart ==
  ASSUME NEW S, NEW q \in Seq(S), NEW e, IsInjective(q)
  PROVE  /\ RemoveFirst(q, e) \in Seq(S)
         /\ ToSet(RemoveFirst(q, e)) = ToSet(q) \ {e}
         /\ IsInjective(RemoveFirst(q, e))
         /\ Len(RemoveFirst(q, e)) = Len(q) - (IF e \in ToSet(q) THEN 1 ELSE 0)
PROOF
<1>1. Len(q) \in Nat /\ DOMAIN q = 1..Len(q) /\ \A j \in 1..Len(q) : q[j] \in S
  BY LenProperties, ElementOfSeq
<1>2. CASE e \notin ToSet(q)
  <2>1. ~\E i \in 1..Len(q) : q[i] = e
    BY <1>1, <1>2 DEF ToSet
  <2>2. RemoveFirst(q, e) = q
    BY <2>1 DEF RemoveFirst
  <2> QED
    BY <1>1, <1>2, <2>2
<1>3. CASE e \in ToSet(q)
  <2>1. PICK i \in 1..Len(q) : q[i] = e
    BY <1>1, <1>3 DEF ToSet
  <2>2. {k \in 1..Len(q) : q[k] = e} = {i}
    BY <1>1, <2>1 DEF IsInjective
  <2>3. Min({i}) = i
    BY DEF Min
  <2>4. RemoveFirst(q, e) = RemoveAt(q, i)
    <3>1. SelectInSeq(q, LAMBDA v : v = e) = i
      BY <2>2, <2>3 DEF SelectInSeq
    <3> QED
      BY <3>1, <2>1 DEF RemoveFirst
  <2> DEFINE r == RemoveAt(q, i)
  <2>5. /\ r \in Seq(S) /\ Len(r) = Len(q) - 1
        /\ \A j \in 1..Len(q) - 1 : r[j] = IF j < i THEN q[j] ELSE q[j + 1]
    BY RemoveAtEntries
  <2> HIDE DEF r
\* Where the entry j of r comes from: entry From(j) of q.
  <2> DEFINE From(j) == IF j < i THEN j ELSE j + 1
  <2>6. DOMAIN r = 1..Len(q) - 1
    BY <1>1, <2>5, LenProperties
  <2>7. \A j \in DOMAIN r : From(j) \in DOMAIN q \ {i} /\ r[j] = q[From(j)]
    BY <1>1, <2>5, <2>6
  <2>8. \A j, k \in DOMAIN r : From(j) = From(k) => j = k
    BY <2>6
  <2>9. \A k \in DOMAIN q \ {i} : \E j \in DOMAIN r : From(j) = k
    <3>1. ASSUME NEW k \in 1..Len(q), k # i PROVE \E j \in 1..Len(q) - 1 : From(j) = k
      <4>1. CASE k < i
        <5>1. k \in 1..Len(q) - 1 /\ From(k) = k
          BY <1>1, <4>1
        <5> QED
          BY <5>1
      <4>2. CASE k > i
        <5>1. k - 1 \in 1..Len(q) - 1 /\ From(k - 1) = k
          BY <1>1, <4>2
        <5> QED
          BY <5>1
      <4> QED
        BY <3>1, <4>1, <4>2
    <3> QED
      BY <1>1, <2>6, <3>1
  <2> HIDE DEF From
  <2>10. \A k \in DOMAIN q : q[k] = e <=> k = i
    BY <1>1, <2>1 DEF IsInjective
  <2>11. ToSet(r) = ToSet(q) \ {e}
    BY <1>1, <2>7, <2>9, <2>10 DEF ToSet
  <2>12. IsInjective(r)
    BY <2>7, <2>8 DEF IsInjective
  <2> QED
    BY <1>3, <2>4, <2>5, <2>11, <2>12 DEF r
<1> QED
  BY <1>2, <1>3

\* RemoveFirst of any list, one that holds an entry twice too, is a list.
LEMMA RemovalTypes ==
  ASSUME NEW S, NEW q \in Seq(S), NEW e
  PROVE  RemoveFirst(q, e) \in Seq(S)
PROOF
<1>1. CASE ~\E i \in 1..Len(q) : q[i] = e
  BY <1>1 DEF RemoveFirst
<1>2. CASE \E i \in 1..Len(q) : q[i] = e
  <2> DEFINE I == {i \in 1..Len(q) : q[i] = e}
  <2>1. PICK i \in I : \A j \in I : ~(<<j, i>> \in OpToRel(<, Nat))
    <3>1. I \subseteq Nat /\ I # {}
      BY <1>2, LenProperties
    <3> QED
      BY <3>1, NatLessThanWellFounded, WFMin, Zenon
  <2>2. \A j \in I : i <= j
    <3> SUFFICES ASSUME NEW j \in I, j < i PROVE FALSE
      BY LenProperties
    <3>1. j \in Nat /\ i \in Nat
      BY LenProperties
    <3> QED
      BY <2>1, <3>1 DEF OpToRel
  <2> HIDE DEF I
  <2>3. Min(I) \in I
    BY <2>2 DEF Min
  <2>4. RemoveFirst(q, e) = RemoveAt(q, Min(I))
    <3>1. SelectInSeq(q, LAMBDA v : v = e) = Min(I)
      BY <2>1 DEF SelectInSeq, I
    <3> QED
      BY <3>1, <1>2 DEF RemoveFirst
  <2> QED
    BY <2>3, <2>4, RemoveAtEntries DEF I
<1> QED
  BY <1>1, <1>2

\* Removing the first entry of a list that holds none twice leaves the tail.
LEMMA RemovalOfHead ==
  ASSUME NEW S, NEW q \in Seq(S), IsInjective(q), q # <<>>
  PROVE  RemoveFirst(q, Head(q)) = Tail(q)
PROOF
<1>1. /\ Tail(q) \in Seq(S) /\ Len(Tail(q)) = Len(q) - 1
      /\ \A i \in 1..Len(Tail(q)) : Tail(q)[i] = q[i + 1]
  BY HeadTailProperties
<1>2. Len(q) \in Nat \ {0} /\ Head(q) = q[1] /\ DOMAIN q = 1..Len(q)
  BY EmptySeq, LenProperties
<1>3. {k \in 1..Len(q) : q[k] = Head(q)} = {1}
  BY <1>2 DEF IsInjective
<1>4. Min({1}) = 1
  BY DEF Min
<1>5. RemoveFirst(q, Head(q)) = RemoveAt(q, 1)
  <2>1. SelectInSeq(q, LAMBDA v : v = Head(q)) = 1
    BY <1>3, <1>4 DEF SelectInSeq
  <2> QED
    BY <1>2, <2>1 DEF RemoveFirst
<1>6. /\ RemoveAt(q, 1) \in Seq(S) /\ Len(RemoveAt(q, 1)) = Len(q) - 1
      /\ \A j \in 1..Len(q) - 1 : RemoveAt(q, 1)[j] = q[j + 1]
  <2>1. 1 \in 1..Len(q)
    BY <1>2
  <2>2. \A j \in 1..Len(q) - 1 : ~(j < 1)
    BY <1>2
  <2> QED
    BY <2>1, <2>2, RemoveAtEntries
<1> QED
  BY <1>1, <1>2, <1>5, <1>6, SeqEqual

\* Putting an entry the list lacks in front of it puts no entry in twice.
LEMMA PrependApart ==
  ASSUME NEW S, NEW t \in S, NEW s \in Seq(S), IsInjective(s), t \notin ToSet(s)
  PROVE  IsInjective(<<t>> \o s)
PROOF
<1>1. <<t>> \o s \in Seq(S) /\ Len(<<t>> \o s) = 1 + Len(s) /\ Len(s) \in Nat
  BY ConcatProperties, LenProperties
<1>2. \A i \in 1..Len(s) + 1 : (<<t>> \o s)[i] = IF i = 1 THEN t ELSE s[i - 1]
  BY ConcatProperties, LenProperties
<1>3. DOMAIN (<<t>> \o s) = 1..Len(s) + 1 /\ DOMAIN s = 1..Len(s)
  BY <1>1, LenProperties
<1>4. \A i \in 2..Len(s) + 1 : i - 1 \in 1..Len(s) /\ s[i - 1] \in ToSet(s)
  BY <1>1, <1>3 DEF ToSet
<1> DEFINE r == <<t>> \o s
<1>5. \A i \in DOMAIN r : i = 1 \/ i \in 2..Len(s) + 1
  BY <1>1, <1>3
<1>6. \A i, j \in 2..Len(s) + 1 : s[i - 1] = s[j - 1] => i = j
  <2> TAKE i, j \in 2..Len(s) + 1
  <2>1. s[i - 1] = s[j - 1] => i - 1 = j - 1
    BY <1>3, <1>4 DEF IsInjective
  <2> QED
    BY <1>1, <2>1
<1>7. \A i \in 2..Len(s) + 1 : r[i] = s[i - 1]
  BY <1>1, <1>2
<1>8. r[1] = t
  BY <1>1, <1>2
<1> HIDE DEF r
<1>9. \A i, j \in DOMAIN r : r[i] = r[j] => i = j
  BY <1>4, <1>5, <1>6, <1>7, <1>8
<1> QED
  BY <1>9 DEF IsInjective, r
-----------------------------------------------------------------------------
\* A set of numbers that is not empty has a least member.
LEMMA Least ==
  ASSUME NEW S, S \subseteq Nat, S # {}
  PROVE  \E x \in S : \A y \in S : x <= y
<1>1. PICK x \in S : \A y \in S : ~(<<y, x>> \in OpToRel(<, Nat))
  BY NatLessThanWellFounded, WFMin, Zenon
<1>2. \A y \in S : x <= y
  <2> SUFFICES ASSUME NEW y \in S, y < x PROVE FALSE
    OBVIOUS
  <2>1. x \in Nat /\ y \in Nat
    OBVIOUS
  <2> QED
    BY <1>1, <2>1 DEF OpToRel
<1> QED
  BY <1>2

\* Min gives a member.
LEMMA MinIs ==
  ASSUME NEW S, S \subseteq Nat, S # {}
  PROVE  Min(S) \in S
BY Least DEF Min

\* There is one that k - 1 others lie below.
LEMMA RankIsTaken ==
  ASSUME NEW S, S \subseteq Nat, IsFiniteSet(S), NEW k \in 1..Cardinality(S)
  PROVE  \E x \in S : Cardinality({y \in S : y < x}) = k - 1
<1> DEFINE Below(x) == {y \in S : y < x}
           Missing == {j \in 1..Cardinality(S) : \A x \in S : Cardinality(Below(x)) # j - 1}
<1>1. Missing = {}
  <2> SUFFICES ASSUME Missing # {} PROVE FALSE
    OBVIOUS
  <2>0. Cardinality(S) \in Nat
    BY FS_CardinalityType
  <2>1. PICK j \in Missing : \A i \in Missing : j <= i
    <3>1. Missing \subseteq Nat
      BY <2>0
    <3> QED
      BY <3>1, Least
  <2>2. ASSUME j = 1 PROVE FALSE
    <3>1. S # {}
      BY <2>0, FS_EmptySet
    <3>2. PICK x \in S : \A y \in S : x <= y
      BY <3>1, Least
    <3>3. Below(x) = {}
      <4> SUFFICES ASSUME NEW y \in S, y < x PROVE FALSE
        OBVIOUS
      <4>1. x \in Nat /\ y \in Nat /\ x <= y
        BY <3>2
      <4> QED
        BY <4>1
    <3>4. Cardinality(Below(x)) = 0
      BY <3>3, FS_EmptySet
    <3> QED
      BY <2>1, <2>2, <3>4
  <2>3. ASSUME j # 1 PROVE FALSE
    <3>1. j - 1 \in 1..Cardinality(S) /\ j - 1 \notin Missing
      BY <2>0, <2>1, <2>3
    <3>2. PICK x \in S : Cardinality(Below(x)) = (j - 1) - 1
      BY <3>1
    <3> DEFINE U == Below(x) \cup {x}
    <3>3. IsFiniteSet(Below(x)) /\ x \notin Below(x)
      BY FS_Subset
    <3>4. IsFiniteSet(U) /\ Cardinality(U) = j - 1
      <4>1. IsFiniteSet(U) /\ Cardinality(U) = Cardinality(Below(x)) + 1
        BY <3>3, FS_AddElement
      <4> QED
        BY <4>1, <2>0, <2>1, <3>2
    <3>5. S \ U # {}
      <4> SUFFICES ASSUME S \subseteq U PROVE FALSE
        OBVIOUS
      <4>1. Cardinality(S) <= Cardinality(U)
        BY <3>4, FS_Subset
      <4> QED
        BY <4>1, <3>4, <2>0, <2>1
    <3>6. PICK z \in S \ U : \A y \in S \ U : z <= y
      BY <3>5, Least
    <3>7. Below(z) = U
      <4>1. ASSUME NEW y \in S PROVE y < z <=> y < x \/ y = x
        <5>1. x \in Nat /\ y \in Nat /\ z \in Nat
          BY <3>6
        <5>2. y \notin U => z <= y
          BY <3>6
        <5>3. y \in U <=> y < x \/ y = x
          BY <4>1
        <5>4. ~(z < x) /\ z # x
          BY <3>6
        <5> QED
          BY <5>1, <5>2, <5>3, <5>4
      <4> QED
        BY <4>1
    <3> QED
      BY <3>7, <3>4, <2>1
  <2> QED
    BY <2>2, <2>3
<1> QED
  BY <1>1

\* Removing an entry from a list leaves all the others.
LEMMA RemovalLeaves ==
  ASSUME NEW S, NEW q \in Seq(S), NEW e
  PROVE  /\ RemoveFirst(q, e) \in Seq(S)
         /\ ToSet(RemoveFirst(q, e)) \subseteq ToSet(q)
         /\ ToSet(q) \ {e} \subseteq ToSet(RemoveFirst(q, e))
<1>0. Len(q) \in Nat /\ DOMAIN q = 1..Len(q) /\ \A j \in 1..Len(q) : q[j] \in S
  BY LenProperties, ElementOfSeq
<1>1. CASE ~\E i \in 1..Len(q) : q[i] = e
  BY <1>1 DEF RemoveFirst
<1>2. CASE \E i \in 1..Len(q) : q[i] = e
  <2> DEFINE I == {i \in 1..Len(q) : q[i] = e}
  <2>1. PICK i \in I : \A j \in I : i <= j
    <3>1. I \subseteq Nat /\ I # {}
      BY <1>0, <1>2
    <3> QED
      BY <3>1, Least
  <2>2. Min(I) \in I
    BY <2>1 DEF Min
  <2>3. RemoveFirst(q, e) = RemoveAt(q, Min(I))
    <3>1. SelectInSeq(q, LAMBDA v : v = e) = Min(I)
      BY <2>1 DEF SelectInSeq
    <3> QED
      BY <3>1, <1>2 DEF RemoveFirst
  <2> DEFINE k == Min(I)
             r == RemoveAt(q, k)
  <2>4. k \in 1..Len(q) /\ q[k] = e
    BY <2>2
  <2> HIDE DEF I, k
  <2>5. /\ r \in Seq(S) /\ Len(r) = Len(q) - 1
        /\ \A j \in 1..Len(q) - 1 : r[j] = IF j < k THEN q[j] ELSE q[j + 1]
    BY <2>4, RemoveAtEntries
  <2> HIDE DEF r
  <2>6. DOMAIN r = 1..Len(q) - 1
    BY <2>5, LenProperties
  <2>7. ToSet(r) \subseteq ToSet(q)
    <3> SUFFICES ASSUME NEW j \in 1..Len(q) - 1 PROVE r[j] \in ToSet(q)
      BY <2>6 DEF ToSet
    <3> QED
      BY <1>0, <2>5, SMTT(20) DEF ToSet
  <2>8. ToSet(q) \ {e} \subseteq ToSet(r)
    <3> SUFFICES ASSUME NEW j \in 1..Len(q), q[j] # e PROVE q[j] \in ToSet(r)
      BY <1>0 DEF ToSet
    <3>1. CASE j < k
      <4>1. j \in 1..Len(q) - 1 /\ r[j] = q[j]
        BY <1>0, <2>4, <2>5, <3>1
      <4> QED
        BY <2>6, <4>1 DEF ToSet
    <3>2. CASE ~(j < k)
      <4>1. j - 1 \in 1..Len(q) - 1 /\ ~(j - 1 < k) /\ j - 1 + 1 = j
        BY <1>0, <2>4, <3>2
      <4>2. r[j - 1] = q[j]
        BY <2>5, <4>1
      <4> QED
        BY <2>6, <4>1, <4>2 DEF ToSet
    <3> QED
      BY <3>1, <3>2
  <2> QED
    BY <2>3, <2>5, <2>7, <2>8 DEF r, k
<1> QED
  BY <1>1, <1>2
=============================================================================
