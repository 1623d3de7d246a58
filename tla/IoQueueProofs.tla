--------------------------- MODULE IoQueueProofs ---------------------------
(***************************************************************************)
(* The io queue for any number of threads and any size of the ring: it is  *)
(* a bounded first-in first-out channel, and the threads asleep on its     *)
(* conditions are told of the characters and the slots there are.          *)
(***************************************************************************)
EXTENDS IoQueue, FiniteSetTheorems, SequenceTheorems, TLAPS

USE IoQueueAssumption

-----------------------------------------------------------------------------
(* Kernel lists *)

\* Appending an element that is not in a list keeps the list free of
\* duplicates, and adds just that element: list_append.
LEMMA AppendFacts ==
  ASSUME NEW S, NEW q \in Seq(S), NEW t \in S
  PROVE  /\ list_append(q, t) \in Seq(S)
         /\ list_append(q, t) # <<>>
         /\ \A u \in S : elem_find(list_append(q, t), u) <=> elem_find(q, u) \/ u = t
         /\ Distinct(q) /\ ~elem_find(q, t) => Distinct(list_append(q, t))
<1> USE DEF list_append
<1>1. list_append(q, t) \in Seq(S) /\ Len(list_append(q, t)) = Len(q) + 1
  OBVIOUS
<1>2. \A i \in 1..Len(q) : list_append(q, t)[i] = q[i]
  OBVIOUS
<1>3. list_append(q, t)[Len(q) + 1] = t
  OBVIOUS
<1>4. \A u \in S : elem_find(list_append(q, t), u) <=> elem_find(q, u) \/ u = t
  BY <1>1, <1>2, <1>3 DEF elem_find
<1>5. Distinct(q) /\ ~elem_find(q, t) => Distinct(list_append(q, t))
  BY <1>1, <1>2, <1>3 DEF elem_find, Distinct
<1> QED BY <1>1, <1>4, <1>5

\* Popping the head of a list without duplicates takes just that element out.
LEMMA PopFacts ==
  ASSUME NEW S, NEW q \in Seq(S), q # <<>>
  PROVE  /\ Head(q) \in S /\ Tail(q) \in Seq(S) /\ elem_find(q, Head(q))
         /\ Distinct(q) => /\ Distinct(Tail(q))
                           /\ \A u \in S :
                                elem_find(Tail(q), u) <=> elem_find(q, u) /\ u # Head(q)
<1>1. /\ Len(q) \in Nat /\ Len(q) > 0 /\ Head(q) = q[1] /\ Head(q) \in S
      /\ Tail(q) \in Seq(S) /\ Len(Tail(q)) = Len(q) - 1
  OBVIOUS
<1>2. \A i \in 1..Len(Tail(q)) : Tail(q)[i] = q[i + 1]
  OBVIOUS
<1>3. elem_find(q, Head(q))
  BY <1>1 DEF elem_find
<1>4. ASSUME Distinct(q)
      PROVE  /\ Distinct(Tail(q))
             /\ \A u \in S : elem_find(Tail(q), u) <=> elem_find(q, u) /\ u # Head(q)
  <2>1. Distinct(Tail(q))
    BY <1>1, <1>2, <1>4 DEF Distinct
  <2>2. ASSUME NEW u \in S, elem_find(Tail(q), u)
        PROVE  elem_find(q, u) /\ u # Head(q)
    BY <1>1, <1>2, <1>4, <2>2 DEF elem_find, Distinct
  <2>3. ASSUME NEW u \in S, elem_find(q, u), u # Head(q)
        PROVE  elem_find(Tail(q), u)
    <3>1. PICK i \in 1..Len(q) : q[i] = u
      BY <2>3 DEF elem_find
    <3>2. i - 1 \in 1..Len(Tail(q)) /\ Tail(q)[i - 1] = u
      BY <1>1, <1>2, <2>3, <3>1
    <3> QED BY <3>2 DEF elem_find
  <2> QED BY <2>1, <2>2, <2>3
<1> QED BY <1>1, <1>3, <1>4

-----------------------------------------------------------------------------
(* The ring *)

\* A cursor that moves once round the ring at most wraps once at most.
LEMMA AdvanceLinear ==
  ASSUME NEW p \in 0..(bufsize - 1), NEW n \in 0..bufsize
  PROVE  Advance(p, n) = IF p + n < bufsize THEN p + n ELSE p + n - bufsize
<1>0. bufsize \in Nat \ {0} /\ p \in Nat /\ n \in Nat /\ p < bufsize /\ n <= bufsize
  OBVIOUS
<1>1. \A k \in Nat : k < bufsize => k % bufsize = k
  BY <1>0
<1>2. \A k \in Nat : k < bufsize => (k + bufsize) % bufsize = k
  BY <1>0
<1>3. CASE p + n < bufsize
  BY <1>0, <1>1, <1>3 DEF Advance
<1>4. CASE p + n >= bufsize
  <2>1. p + n - bufsize \in Nat /\ p + n - bufsize < bufsize
    BY <1>0, <1>4
  <2>2. (p + n - bufsize) + bufsize = p + n
    BY <1>0
  <2>3. (p + n) % bufsize = p + n - bufsize
    BY <1>2, <2>1, <2>2
  <2> QED BY <1>0, <1>4, <2>3 DEF Advance
<1> QED BY <1>0, <1>3, <1>4

\* The number of characters in the ring, and how far apart that puts the cursors.
LEMMA LengthFacts ==
  ASSUME head \in 0..(bufsize - 1), tail \in 0..(bufsize - 1)
  PROVE  /\ ioq_length \in 0..(bufsize - 1)
         /\ ioq_length = 0 <=> is_ioq_empty
         /\ ioq_length = bufsize - 1 <=> is_ioq_full
         /\ head = IF tail + ioq_length < bufsize THEN tail + ioq_length
                   ELSE tail + ioq_length - bufsize
<1>1. next_pos(head) = IF head + 1 < bufsize THEN head + 1 ELSE head + 1 - bufsize
  BY AdvanceLinear DEF next_pos, Advance
<1> QED BY <1>1 DEF ioq_length, is_ioq_empty, is_ioq_full

\* Moving the writer's cursor into the free part adds to the length, moving the
\* reader's cursor over the characters takes from it.
LEMMA LengthMoves ==
  ASSUME head \in 0..(bufsize - 1), tail \in 0..(bufsize - 1),
         NEW n \in 0..bufsize
  PROVE  /\ Advance(head, n) \in 0..(bufsize - 1) /\ Advance(tail, n) \in 0..(bufsize - 1)
         /\ n <= bufsize - 1 - ioq_length /\ head' = Advance(head, n) /\ tail' = tail
               => ioq_length' = ioq_length + n
         /\ n <= ioq_length /\ tail' = Advance(tail, n) /\ head' = head
               => ioq_length' = ioq_length - n
<1>1. Advance(head, n) = IF head + n < bufsize THEN head + n ELSE head + n - bufsize
  BY AdvanceLinear
<1>2. Advance(tail, n) = IF tail + n < bufsize THEN tail + n ELSE tail + n - bufsize
  BY AdvanceLinear
<1>3. Advance(head, n) \in 0..(bufsize - 1) /\ Advance(tail, n) \in 0..(bufsize - 1)
  BY <1>1, <1>2
<1>4. ASSUME n <= bufsize - 1 - ioq_length, head' = Advance(head, n), tail' = tail
      PROVE  ioq_length' = ioq_length + n
  BY <1>1, <1>4 DEF ioq_length
<1>5. ASSUME n <= ioq_length, tail' = Advance(tail, n), head' = head
      PROVE  ioq_length' = ioq_length - n
  BY <1>2, <1>5 DEF ioq_length
<1> QED BY <1>3, <1>4, <1>5

\* The position i steps past the reader's cursor is a position of the ring, and
\* different for different i.
LEMMA PositionFacts ==
  ASSUME NEW p \in 0..(bufsize - 1)
  PROVE  /\ \A i \in 0..bufsize : Advance(p, i) \in 0..(bufsize - 1)
         /\ \A i, j \in 0..(bufsize - 1) : Advance(p, i) = Advance(p, j) => i = j
         /\ \A i, j \in 0..bufsize : i + j <= bufsize => Advance(Advance(p, i), j) = Advance(p, i + j)
<1>1. \A q \in 0..(bufsize - 1), i \in 0..bufsize :
        Advance(q, i) = IF q + i < bufsize THEN q + i ELSE q + i - bufsize
  BY AdvanceLinear
<1>2. \A i \in 0..bufsize : Advance(p, i) \in 0..(bufsize - 1)
  BY <1>1
<1>3. \A i, j \in 0..(bufsize - 1) : Advance(p, i) = Advance(p, j) => i = j
  BY <1>1
<1>4. ASSUME NEW i \in 0..bufsize, NEW j \in 0..bufsize, i + j <= bufsize
      PROVE  Advance(Advance(p, i), j) = Advance(p, i + j)
  <2>1. Advance(p, i) \in 0..(bufsize - 1) /\ i + j \in 0..bufsize
    BY <1>2, <1>4
  <2>2. Advance(Advance(p, i), j) = IF Advance(p, i) + j < bufsize THEN Advance(p, i) + j
                                    ELSE Advance(p, i) + j - bufsize
    BY <1>1, <2>1
  <2>3. Advance(p, i + j) = IF p + (i + j) < bufsize THEN p + (i + j) ELSE p + (i + j) - bufsize
    BY <1>1, <2>1
  <2>4. Advance(p, i) = IF p + i < bufsize THEN p + i ELSE p + i - bufsize
    BY <1>1
  <2> QED BY <2>2, <2>3, <2>4, <1>4
<1> QED BY <1>2, <1>3, <1>4

-----------------------------------------------------------------------------
(* What is in the ring *)

LEMMA FunctionIsSeq ==
  ASSUME NEW S, NEW n \in Nat, NEW f \in [1..n -> S]
  PROVE  f \in Seq(S) /\ Len(f) = n
<1>1. f \in Seq(S)
  BY SeqDef
<1>2. DOMAIN f = 1..n /\ DOMAIN f = 1..Len(f) /\ Len(f) \in Nat
  BY <1>1
<1>3. Len(f) = n
  BY <1>2
<1> QED BY <1>1, <1>3

LEMMA TransferFacts ==
  ASSUME NEW vs \in Transfers
  PROVE  vs \in Seq(Values) /\ Len(vs) \in 0..bufsize
<1>1. PICK n \in 0..MaxTransfer : vs \in [1..n -> Values]
  BY DEF Transfers
<1>2. n \in Nat /\ n \in 0..bufsize
  BY DEF MaxTransfer
<1> QED BY <1>1, <1>2, FunctionIsSeq

\* The characters written go where the writer's cursor passes, and nowhere else.
LEMMA FilledFacts ==
  ASSUME buf \in [0..(bufsize - 1) -> Values], head \in 0..(bufsize - 1),
         NEW vs \in Seq(Values), NEW n \in 0..(bufsize - 1), n <= Len(vs)
  PROVE  /\ Filled(vs, n) \in [0..(bufsize - 1) -> Values]
         /\ \A j \in 1..n : Filled(vs, n)[Advance(head, j - 1)] = vs[j]
         /\ \A i \in 0..(bufsize - 1) : (\A j \in 1..n : Advance(head, j - 1) # i)
                                           => Filled(vs, n)[i] = buf[i]
<1> DEFINE Hit(i) == \E j \in 1..n : Advance(head, j - 1) = i
           At(i)  == CHOOSE j \in 1..n : Advance(head, j - 1) = i
<1>1. Filled(vs, n) = [i \in 0..(bufsize - 1) |-> IF Hit(i) THEN vs[At(i)] ELSE buf[i]]
  BY DEF Filled
<1>2. \A i : Hit(i) => At(i) \in 1..n /\ Advance(head, At(i) - 1) = i
  OBVIOUS
<1>10. /\ \A i \in 0..bufsize : Advance(head, i) \in 0..(bufsize - 1)
       /\ \A i, j \in 0..(bufsize - 1) : Advance(head, i) = Advance(head, j) => i = j
  BY PositionFacts
<1>11. \A j \in 1..n : j - 1 \in 0..(bufsize - 1) /\ j - 1 \in 0..bufsize
  OBVIOUS
<1>12. \A j \in 1..n : Hit(Advance(head, j - 1))
  OBVIOUS
<1>3. \A j \in 1..n : /\ j - 1 \in 0..(bufsize - 1)
                      /\ Hit(Advance(head, j - 1))
                      /\ Advance(head, j - 1) \in 0..(bufsize - 1)
  <2> HIDE DEF Hit
  <2> QED BY <1>10, <1>11, <1>12
<1>4. \A i \in 0..(bufsize - 1) : (\A j \in 1..n : Advance(head, j - 1) # i) => ~Hit(i)
  OBVIOUS
<1> HIDE DEF Hit, At
<1>5. \A j \in 1..n : vs[j] \in Values
  OBVIOUS
<1>6. Filled(vs, n) \in [0..(bufsize - 1) -> Values]
  BY <1>1, <1>2, <1>5
<1>7. ASSUME NEW j \in 1..n PROVE Filled(vs, n)[Advance(head, j - 1)] = vs[j]
  <2>1. PICK i \in 0..(bufsize - 1) : i = Advance(head, j - 1) /\ Hit(i)
    BY <1>3
  <2>2. At(i) \in 1..n /\ Advance(head, At(i) - 1) = Advance(head, j - 1)
    BY <1>2, <2>1
  <2>3. At(i) - 1 = j - 1
    BY <1>3, <2>2, <1>10
  <2>4. At(i) = j
    BY <2>2, <2>3
  <2> QED BY <1>1, <2>1, <2>4
<1>8. \A i \in 0..(bufsize - 1) : ~Hit(i) => Filled(vs, n)[i] = buf[i]
  BY <1>1
<1> QED BY <1>4, <1>6, <1>7, <1>8

\* What the reader's cursor passes are characters.
LEMMA WindowFacts ==
  ASSUME NEW b \in [0..(bufsize - 1) -> Values], NEW p \in 0..(bufsize - 1),
         NEW n \in 0..(bufsize - 1)
  PROVE  \A i \in 1..n : b[Advance(p, i - 1)] \in Values
<1>1. \A i \in 0..bufsize : Advance(p, i) \in 0..(bufsize - 1)
  BY PositionFacts
<1>2. \A i \in 1..n : i - 1 \in 0..bufsize
  OBVIOUS
<1> QED BY <1>1, <1>2

\* Storing n characters appends them to the contents.
LEMMA PutContents ==
  ASSUME buf \in [0..(bufsize - 1) -> Values], head \in 0..(bufsize - 1), tail \in 0..(bufsize - 1),
         NEW vs \in Seq(Values), NEW n \in Nat, n <= Len(vs), n <= bufsize - 1 - ioq_length,
         buf' = Filled(vs, n), head' = Advance(head, n), tail' = tail
  PROVE  /\ buf' \in [0..(bufsize - 1) -> Values] /\ head' \in 0..(bufsize - 1)
         /\ ioq_length' = ioq_length + n
         /\ Contents' = Contents \o SubSeq(vs, 1, n)
<1>1. ioq_length \in 0..(bufsize - 1) /\ n \in 0..(bufsize - 1)
  BY LengthFacts
<1>2. head' \in 0..(bufsize - 1) /\ ioq_length' = ioq_length + n
  BY <1>1, LengthMoves
<1>3. /\ buf' \in [0..(bufsize - 1) -> Values]
      /\ \A j \in 1..n : buf'[Advance(head, j - 1)] = vs[j]
      /\ \A i \in 0..(bufsize - 1) : (\A j \in 1..n : Advance(head, j - 1) # i) => buf'[i] = buf[i]
  BY <1>1, FilledFacts
<1>4. /\ Contents \in Seq(Values) /\ Len(Contents) = ioq_length
      /\ \A i \in 1..ioq_length : Contents[i] = buf[Advance(tail, i - 1)]
  <2>1. \A i \in 1..ioq_length : buf[Advance(tail, i - 1)] \in Values
    BY <1>1, WindowFacts
  <2>2. /\ Contents \in [1..ioq_length -> Values] /\ ioq_length \in Nat
        /\ \A i \in 1..ioq_length : Contents[i] = buf[Advance(tail, i - 1)]
    BY <1>1, <2>1 DEF Contents
  <2> QED BY <2>2, FunctionIsSeq
<1>5. /\ Contents' \in Seq(Values) /\ Len(Contents') = ioq_length + n
      /\ \A i \in 1..(ioq_length + n) : Contents'[i] = buf'[Advance(tail, i - 1)]
  <2>1. ioq_length' \in 0..(bufsize - 1) /\ tail' \in 0..(bufsize - 1)
    BY <1>1, <1>2
  <2>2. \A i \in 1..ioq_length' : buf'[Advance(tail', i - 1)] \in Values
    BY <1>2, <1>3, <2>1, WindowFacts
  <2>4. Contents' = [i \in 1..ioq_length' |-> buf'[Advance(tail', i - 1)]]
    BY DEF Contents, Advance
  <2>3. /\ Contents' \in [1..ioq_length' -> Values] /\ ioq_length' \in Nat
        /\ \A i \in 1..ioq_length' : Contents'[i] = buf'[Advance(tail', i - 1)]
    BY <2>1, <2>2, <2>4
  <2> QED BY <1>2, <2>3, FunctionIsSeq
<1>20. /\ \A i \in 0..bufsize : Advance(tail, i) \in 0..(bufsize - 1)
       /\ \A i, j \in 0..(bufsize - 1) : Advance(tail, i) = Advance(tail, j) => i = j
       /\ \A i, j \in 0..bufsize :
             i + j <= bufsize => Advance(Advance(tail, i), j) = Advance(tail, i + j)
  BY PositionFacts
<1>6. head = Advance(tail, ioq_length)
  <2>1. ioq_length \in 0..bufsize
    BY <1>1
  <2>2. Advance(tail, ioq_length) = IF tail + ioq_length < bufsize THEN tail + ioq_length
                                    ELSE tail + ioq_length - bufsize
    BY <2>1, AdvanceLinear
  <2> QED BY <2>2, LengthFacts
<1>7. \A j \in 1..n : /\ j - 1 \in 0..bufsize /\ ioq_length + (j - 1) <= bufsize
                      /\ Advance(head, j - 1) = Advance(tail, ioq_length + (j - 1))
  <2> TAKE j \in 1..n
  <2>1. ioq_length \in 0..bufsize /\ j - 1 \in 0..bufsize /\ ioq_length + (j - 1) <= bufsize
    BY <1>1
  <2> QED BY <1>6, <1>20, <2>1
<1>8. ASSUME NEW i \in 1..ioq_length PROVE Contents'[i] = Contents[i]
  <2>0. i - 1 \in 0..(bufsize - 1) /\ i - 1 \in 0..bufsize
    BY <1>1
  <2>1. i - 1 \in 0..(bufsize - 1) /\ Advance(tail, i - 1) \in 0..(bufsize - 1)
    BY <2>0, <1>20
  <2>2. \A j \in 1..n : ioq_length + (j - 1) \in 0..(bufsize - 1) /\ ioq_length + (j - 1) # i - 1
    BY <1>1
  <2>3. ASSUME NEW j \in 1..n PROVE Advance(head, j - 1) # Advance(tail, i - 1)
    <3>1. Advance(head, j - 1) = Advance(tail, ioq_length + (j - 1))
      BY <1>7
    <3>2. Advance(tail, ioq_length + (j - 1)) # Advance(tail, i - 1)
      BY <2>1, <2>2, <1>20
    <3> QED BY <3>1, <3>2
  <2>4. buf'[Advance(tail, i - 1)] = buf[Advance(tail, i - 1)]
    BY <1>3, <2>1, <2>3
  <2>5. i \in 1..(ioq_length + n)
    BY <1>1
  <2> QED BY <1>4, <1>5, <2>4, <2>5
<1>9. ASSUME NEW j \in 1..n PROVE Contents'[ioq_length + j] = vs[j]
  <2>1. ioq_length + j \in 1..(ioq_length + n) /\ (ioq_length + j) - 1 = ioq_length + (j - 1)
    BY <1>1
  <2>2. Contents'[ioq_length + j] = buf'[Advance(tail, (ioq_length + j) - 1)]
    BY <1>5, <2>1
  <2>3. Advance(tail, (ioq_length + j) - 1) = Advance(head, j - 1)
    BY <1>7, <2>1
  <2> QED BY <1>3, <2>2, <2>3
<1>10. PICK s \in Seq(Values) : /\ s = SubSeq(vs, 1, n) /\ Len(s) = n
                               /\ \A j \in 1..n : s[j] = vs[j]
  OBVIOUS
<1>11. /\ Contents \o s \in Seq(Values) /\ Len(Contents \o s) = ioq_length + n
       /\ \A i \in 1..(ioq_length + n) :
            (Contents \o s)[i] = IF i <= ioq_length THEN Contents[i] ELSE s[i - ioq_length]
  <2>1. /\ Contents \o s \in Seq(Values)
        /\ Len(Contents \o s) = Len(Contents) + Len(s)
        /\ \A i \in 1..(Len(Contents) + Len(s)) :
             (Contents \o s)[i] = IF i <= Len(Contents) THEN Contents[i] ELSE s[i - Len(Contents)]
    BY <1>4, ConcatProperties
  <2>2. Len(Contents) = ioq_length /\ Len(s) = n
    BY <1>4, <1>10
  <2> QED BY <2>1, <2>2
<1>12. ASSUME NEW i \in 1..(ioq_length + n) PROVE Contents'[i] = (Contents \o s)[i]
  <2>0. i \in Nat /\ ioq_length \in Nat
    BY <1>1
  <2>1. CASE i <= ioq_length
    BY <1>1, <1>8, <1>11, <2>1
  <2>2. CASE i > ioq_length
    <3>1. PICK j \in 1..n : i = ioq_length + j
      BY <1>1, <2>2
    <3>2. (Contents \o s)[i] = s[j]
      BY <1>1, <1>11, <2>2, <3>1
    <3>3. Contents'[i] = vs[j]
      BY <1>9, <3>1
    <3> QED BY <1>10, <3>2, <3>3
  <2>3. i <= ioq_length \/ i > ioq_length
    BY <2>0
  <2> QED BY <2>1, <2>2, <2>3
<1>13. Contents' = Contents \o s
  BY <1>5, <1>11, <1>12, SeqEqual
<1> QED BY <1>2, <1>3, <1>10, <1>13

\* Taking n characters removes the oldest ones.
LEMMA TakeContents ==
  ASSUME buf \in [0..(bufsize - 1) -> Values], head \in 0..(bufsize - 1), tail \in 0..(bufsize - 1),
         NEW n \in Nat, n <= ioq_length,
         buf' = buf, head' = head, tail' = Advance(tail, n)
  PROVE  /\ tail' \in 0..(bufsize - 1)
         /\ ioq_length' = ioq_length - n
         /\ Contents' = SubSeq(Contents, n + 1, Len(Contents))
<1>1. ioq_length \in 0..(bufsize - 1) /\ n \in 0..(bufsize - 1)
  BY LengthFacts
<1>2. tail' \in 0..(bufsize - 1) /\ ioq_length' = ioq_length - n
  BY <1>1, LengthMoves
<1>4. /\ Contents \in Seq(Values) /\ Len(Contents) = ioq_length
      /\ \A i \in 1..ioq_length : Contents[i] = buf[Advance(tail, i - 1)]
  <2>1. \A i \in 1..ioq_length : buf[Advance(tail, i - 1)] \in Values
    BY <1>1, WindowFacts
  <2>2. /\ Contents \in [1..ioq_length -> Values] /\ ioq_length \in Nat
        /\ \A i \in 1..ioq_length : Contents[i] = buf[Advance(tail, i - 1)]
    BY <1>1, <2>1 DEF Contents
  <2> QED BY <2>2, FunctionIsSeq
<1>5. /\ Contents' \in Seq(Values) /\ Len(Contents') = ioq_length - n
      /\ \A i \in 1..(ioq_length - n) : Contents'[i] = buf[Advance(tail', i - 1)]
  <2>1. ioq_length' \in 0..(bufsize - 1)
    BY <1>1, <1>2
  <2>2. \A i \in 1..ioq_length' : buf'[Advance(tail', i - 1)] \in Values
    BY <1>2, <2>1, WindowFacts
  <2>3. /\ Contents' \in [1..ioq_length' -> Values] /\ ioq_length' \in Nat
        /\ \A i \in 1..ioq_length' : Contents'[i] = buf'[Advance(tail', i - 1)]
    BY <2>1, <2>2 DEF Contents, Advance
  <2> QED BY <1>2, <2>3, FunctionIsSeq
<1>20. /\ \A i \in 0..bufsize : Advance(tail, i) \in 0..(bufsize - 1)
       /\ \A i, j \in 0..(bufsize - 1) : Advance(tail, i) = Advance(tail, j) => i = j
       /\ \A i, j \in 0..bufsize :
             i + j <= bufsize => Advance(Advance(tail, i), j) = Advance(tail, i + j)
  BY PositionFacts
<1>6. PICK s \in Seq(Values) : /\ s = SubSeq(Contents, n + 1, Len(Contents)) /\ Len(s) = ioq_length - n
                              /\ \A i \in 1..(ioq_length - n) : s[i] = Contents[n + i]
  <2>1. PICK C \in Seq(Values) : C = Contents /\ Len(C) = ioq_length
    BY <1>4
  <2>2. PICK m \in Nat : m = Len(C) /\ n <= m
    BY <1>1, <2>1
  <2>3. /\ SubSeq(C, n + 1, m) \in Seq(Values) /\ Len(SubSeq(C, n + 1, m)) = m - n
        /\ \A i \in 1..(m - n) : SubSeq(C, n + 1, m)[i] = C[n + i]
    BY <2>2
  <2> QED BY <2>1, <2>2, <2>3
<1>7. ASSUME NEW i \in 1..(ioq_length - n) PROVE Contents'[i] = s[i]
  <2>1. n + i \in 1..ioq_length /\ (n + i) - 1 = n + (i - 1) /\ i - 1 \in 0..bufsize /\ n + (i - 1) <= bufsize
    BY <1>1
  <2>2. Advance(tail', i - 1) = Advance(tail, n + (i - 1))
    BY <1>1, <2>1, <1>20
  <2>3. Contents'[i] = buf[Advance(tail, (n + i) - 1)]
    BY <1>5, <2>1, <2>2
  <2> QED BY <1>4, <1>6, <2>1, <2>3
<1>8. Contents' = s
  BY <1>5, <1>6, <1>7, SeqEqual
<1> QED BY <1>2, <1>6, <1>8

-----------------------------------------------------------------------------
(* The invariant of the calls and of the two conditions, for any roles *)

\* A notify takes the first waiter off the condition.
LEMMA NotifyFacts ==
  ASSUME NEW t \in Threads, NEW q \in Seq(Threads), Distinct(q), woken \in SUBSET Threads
  PROVE  /\ NotifyOne(q) \in Seq(Threads) /\ Distinct(NotifyOne(q))
         /\ Woken(t, q) \in SUBSET Threads
         /\ IsFiniteSet(woken) => IsFiniteSet(Woken(t, q))
         /\ \A u \in Threads : elem_find(NotifyOne(q), u) =>
                elem_find(q, u) /\ (u \notin woken => u \notin Woken(t, q))
         /\ \A u \in Threads : u \in Woken(t, q) => u \in woken \/ elem_find(q, u)
<1>1. IsFiniteSet(woken) => IsFiniteSet(woken \ {t})
  BY FS_RemoveElement
<1>2. CASE q = <<>>
  <2>1. NotifyOne(q) = q /\ Woken(t, q) = woken \ {t}
    BY <1>2 DEF NotifyOne, Woken, list_empty
  <2> QED BY <1>1, <2>1
<1>3. CASE q # <<>>
  <2>1. NotifyOne(q) = Tail(q) /\ Woken(t, q) = (woken \ {t}) \cup {Head(q)}
    BY <1>3 DEF NotifyOne, Woken, list_empty
  <2>2. /\ Head(q) \in Threads /\ Tail(q) \in Seq(Threads) /\ elem_find(q, Head(q))
        /\ Distinct(Tail(q))
        /\ \A u \in Threads : elem_find(Tail(q), u) <=> elem_find(q, u) /\ u # Head(q)
    BY <1>3, PopFacts
  <2>3. IsFiniteSet(woken) => IsFiniteSet((woken \ {t}) \cup {Head(q)})
    BY <1>1, FS_AddElement
  <2> QED BY <2>1, <2>2, <2>3
<1> QED BY <1>2, <1>3

\* A call begins.
LEMMA BeginInv ==
  ASSUME IoqInv, NEW t \in Threads, NEW o \in Operations, NEW arg, Begin(t, o, arg),
         arg \in IF o = "read_some" THEN 0..MaxTransfer ELSE Transfers,
         o = "putchar" => Len(arg) = 1
  PROVE  IoqInv'
<1>1. /\ op[t] = "none" /\ o \in role[t]
      /\ op' = [op EXCEPT ![t] = o] /\ todo' = [todo EXCEPT ![t] = arg]
      /\ role' = role /\ buf' = buf /\ head' = head /\ tail' = tail /\ closed' = closed
      /\ cond_data_avail' = cond_data_avail /\ cond_space_avail' = cond_space_avail
      /\ woken' = woken
  BY DEF Begin
<1>2. \A u \in Threads : /\ op'[u] = IF u = t THEN o ELSE op[u]
                         /\ todo'[u] = IF u = t THEN arg ELSE todo[u]
  BY <1>1 DEF IoqInv, TypeOK
<1>3. TypeOK'
  BY <1>1, <1>2 DEF IoqInv, TypeOK, MaxTransfer, Transfers
<1>4. CallsAllowed'
  BY <1>1, <1>2 DEF IoqInv, CallsAllowed
<1>5. QueuesOK'
  BY <1>1, <1>2 DEF IoqInv, QueuesOK, WaitOK, Takers, Givers
<1> QED BY <1>3, <1>4, <1>5 DEF IoqInv

\* The empty argument between two calls is one.
LEMMA NoTransfer == <<>> \in Transfers
<1>1. <<>> \in [1..0 -> Values] /\ 0 \in 0..MaxTransfer
  BY DEF MaxTransfer
<1> QED BY <1>1 DEF Transfers

\* A call returns: its thread waits for nothing, so the conditions do not matter to it.
LEMMA ReturnInv ==
  ASSUME IoqInv, NEW t \in Threads, Enters(t), Return(t), role' = role,
         buf' \in [0..(bufsize - 1) -> Values],
         head' \in 0..(bufsize - 1), tail' \in 0..(bufsize - 1), closed' \in BOOLEAN,
         cond_data_avail' \in Seq(Threads), Distinct(cond_data_avail'),
         cond_space_avail' \in Seq(Threads), Distinct(cond_space_avail'),
         woken' \in SUBSET Threads,
         \A u \in Threads : elem_find(cond_data_avail', u) =>
             elem_find(cond_data_avail, u) /\ u \notin woken',
         \A u \in Threads : elem_find(cond_space_avail', u) =>
             elem_find(cond_space_avail, u) /\ u \notin woken',
         closed' => cond_data_avail' = <<>> /\ cond_space_avail' = <<>>,
         ~closed' => IsFiniteSet(woken')
  PROVE  IoqInv'
<1>1. \A u \in Threads : /\ op'[u] = IF u = t THEN "none" ELSE op[u]
                         /\ todo'[u] = IF u = t THEN <<>> ELSE todo[u]
  BY DEF Return, IoqInv, TypeOK
<1>2. op' \in [Threads -> Operations \cup {"none"}] /\ DOMAIN todo' = Threads
  BY DEF Return, IoqInv, TypeOK
<1>3. TypeOK'
  BY <1>1, <1>2, NoTransfer DEF IoqInv, TypeOK, MaxTransfer, Transfers
<1>4. CallsAllowed'
  BY <1>1 DEF IoqInv, CallsAllowed
<1>5. \A u \in Threads : elem_find(cond_data_avail, u) \/ elem_find(cond_space_avail, u) => u # t
  BY DEF Enters
<1>6. WaitOK(cond_data_avail, Takers)'
  BY <1>1, <1>5 DEF IoqInv, QueuesOK, WaitOK
<1>7. WaitOK(cond_space_avail, Givers)'
  BY <1>1, <1>5 DEF IoqInv, QueuesOK, WaitOK
<1>8. QueuesOK'
  BY <1>6, <1>7 DEF QueuesOK
<1> QED BY <1>3, <1>4, <1>8 DEF IoqInv

\* A reader takes n of the characters there are.
LEMMA TakeOutInv ==
  ASSUME IoqInv, NEW t \in Threads, Enters(t), NEW n \in Nat, n <= ioq_length, TakeOut(t, n)
  PROVE  /\ IoqInv' /\ ioq_length' = ioq_length - n
         /\ Contents' = SubSeq(Contents, n + 1, Len(Contents))
<1>1. /\ tail' = Advance(tail, n)
      /\ cond_space_avail' = NotifyOne(cond_space_avail) /\ woken' = Woken(t, cond_space_avail)
      /\ Return(t)
      /\ role' = role /\ buf' = buf /\ head' = head /\ closed' = closed
      /\ cond_data_avail' = cond_data_avail
  BY DEF TakeOut
<1>2. /\ cond_space_avail \in Seq(Threads) /\ Distinct(cond_space_avail) /\ woken \in SUBSET Threads
      /\ cond_data_avail \in Seq(Threads) /\ Distinct(cond_data_avail)
      /\ buf \in [0..(bufsize - 1) -> Values]
      /\ head \in 0..(bufsize - 1) /\ tail \in 0..(bufsize - 1) /\ closed \in BOOLEAN
  BY DEF IoqInv, TypeOK, QueuesOK, WaitOK
<1>3. /\ tail' \in 0..(bufsize - 1) /\ ioq_length' = ioq_length - n
      /\ Contents' = SubSeq(Contents, n + 1, Len(Contents))
  BY <1>1, <1>2, TakeContents
<1>4. /\ cond_space_avail' \in Seq(Threads) /\ Distinct(cond_space_avail')
      /\ woken' \in SUBSET Threads
      /\ IsFiniteSet(woken) => IsFiniteSet(woken')
      /\ \A u \in Threads : elem_find(cond_space_avail', u) =>
             elem_find(cond_space_avail, u) /\ (u \notin woken => u \notin woken')
      /\ \A u \in Threads : u \in woken' => u \in woken \/ elem_find(cond_space_avail, u)
  BY <1>1, <1>2, NotifyFacts
<1>5. \A u \in Threads : elem_find(cond_data_avail, u) => u \notin woken'
  BY <1>4 DEF IoqInv, QueuesOK, WaitOK, Takers, Givers
<1>6. \A u \in Threads : elem_find(cond_space_avail', u) =>
             elem_find(cond_space_avail, u) /\ u \notin woken'
  BY <1>4 DEF IoqInv, QueuesOK, WaitOK
<1>7. closed' => cond_data_avail' = <<>> /\ cond_space_avail' = <<>>
  BY <1>1 DEF IoqInv, QueuesOK, NotifyOne, list_empty
<1>8. ~closed' => IsFiniteSet(woken')
  BY <1>1, <1>4 DEF IoqInv, QueuesOK
<1>9. IoqInv'
  BY <1>1, <1>2, <1>3, <1>4, <1>5, <1>6, <1>7, <1>8, ReturnInv
<1> QED BY <1>3, <1>9

\* A writer stores n characters, for which there is room.
LEMMA PutInInv ==
  ASSUME IoqInv, NEW t \in Threads, Enters(t), todo[t] \in Transfers,
         NEW n \in Nat, n <= Len(todo[t]), n <= bufsize - 1 - ioq_length, PutIn(t, n)
  PROVE  /\ IoqInv' /\ ioq_length' = ioq_length + n
         /\ Contents' = Contents \o SubSeq(todo[t], 1, n)
<1>1. /\ buf' = Filled(todo[t], n) /\ head' = Advance(head, n)
      /\ cond_data_avail' = NotifyOne(cond_data_avail) /\ woken' = Woken(t, cond_data_avail)
      /\ Return(t)
      /\ role' = role /\ tail' = tail /\ closed' = closed
      /\ cond_space_avail' = cond_space_avail
  BY DEF PutIn
<1>2. /\ cond_space_avail \in Seq(Threads) /\ Distinct(cond_space_avail) /\ woken \in SUBSET Threads
      /\ cond_data_avail \in Seq(Threads) /\ Distinct(cond_data_avail)
      /\ buf \in [0..(bufsize - 1) -> Values]
      /\ head \in 0..(bufsize - 1) /\ tail \in 0..(bufsize - 1) /\ closed \in BOOLEAN
  BY DEF IoqInv, TypeOK, QueuesOK, WaitOK
<1>10. todo[t] \in Seq(Values)
  BY TransferFacts
<1>3. /\ buf' \in [0..(bufsize - 1) -> Values] /\ head' \in 0..(bufsize - 1)
      /\ ioq_length' = ioq_length + n
      /\ Contents' = Contents \o SubSeq(todo[t], 1, n)
  BY <1>1, <1>2, <1>10, PutContents
<1>4. /\ cond_data_avail' \in Seq(Threads) /\ Distinct(cond_data_avail')
      /\ woken' \in SUBSET Threads
      /\ IsFiniteSet(woken) => IsFiniteSet(woken')
      /\ \A u \in Threads : elem_find(cond_data_avail', u) =>
             elem_find(cond_data_avail, u) /\ (u \notin woken => u \notin woken')
      /\ \A u \in Threads : u \in woken' => u \in woken \/ elem_find(cond_data_avail, u)
  BY <1>1, <1>2, NotifyFacts
<1>5. \A u \in Threads : elem_find(cond_space_avail, u) => u \notin woken'
  BY <1>4 DEF IoqInv, QueuesOK, WaitOK, Takers, Givers
<1>6. \A u \in Threads : elem_find(cond_data_avail', u) =>
             elem_find(cond_data_avail, u) /\ u \notin woken'
  BY <1>4 DEF IoqInv, QueuesOK, WaitOK
<1>7. closed' => cond_data_avail' = <<>> /\ cond_space_avail' = <<>>
  BY <1>1 DEF IoqInv, QueuesOK, NotifyOne, list_empty
<1>8. ~closed' => IsFiniteSet(woken')
  BY <1>1, <1>4 DEF IoqInv, QueuesOK
<1>9. IoqInv'
  BY <1>1, <1>2, <1>3, <1>4, <1>5, <1>6, <1>7, <1>8, ReturnInv
<1> QED BY <1>3, <1>9

\* A reader finds the ring empty.
LEMMA AwaitDataInv ==
  ASSUME IoqInv, NEW t \in Threads, Enters(t), op[t] \in Takers, AwaitData(t)
  PROVE  IoqInv'
<1>1. /\ woken' = woken \ {t}
      /\ role' = role /\ buf' = buf /\ head' = head /\ tail' = tail /\ closed' = closed
      /\ cond_space_avail' = cond_space_avail
  BY DEF AwaitData
<1>2. /\ cond_space_avail \in Seq(Threads) /\ Distinct(cond_space_avail) /\ woken \in SUBSET Threads
      /\ cond_data_avail \in Seq(Threads) /\ Distinct(cond_data_avail)
      /\ buf \in [0..(bufsize - 1) -> Values]
      /\ head \in 0..(bufsize - 1) /\ tail \in 0..(bufsize - 1) /\ closed \in BOOLEAN
  BY DEF IoqInv, TypeOK, QueuesOK, WaitOK
<1>3. ~closed => IsFiniteSet(woken')
  BY <1>1, FS_RemoveElement DEF IoqInv, QueuesOK
<1>4. CASE /\ ~closed /\ cond_data_avail' = list_append(cond_data_avail, t)
           /\ op' = op /\ todo' = todo
  <2>1. /\ cond_data_avail' \in Seq(Threads) /\ Distinct(cond_data_avail')
        /\ \A u \in Threads : elem_find(cond_data_avail', u) <=> elem_find(cond_data_avail, u) \/ u = t
    BY <1>2, <1>4, AppendFacts DEF Enters
  <2>2. TypeOK'
    BY <1>1, <1>4, <2>1 DEF IoqInv, TypeOK, MaxTransfer, Transfers
  <2>3. CallsAllowed'
    BY <1>1, <1>4 DEF IoqInv, CallsAllowed
  <2>4. WaitOK(cond_data_avail, Takers)'
    BY <1>1, <1>4, <2>1 DEF IoqInv, QueuesOK, WaitOK, Takers
  <2>5. WaitOK(cond_space_avail, Givers)'
    BY <1>1, <1>4 DEF IoqInv, QueuesOK, WaitOK, Givers
  <2>6. QueuesOK'
    BY <1>1, <1>3, <1>4, <2>4, <2>5 DEF QueuesOK
  <2> QED BY <2>2, <2>3, <2>6 DEF IoqInv
<1>5. CASE closed /\ Return(t) /\ cond_data_avail' = cond_data_avail
  <2>1. cond_data_avail = <<>> /\ cond_space_avail = <<>>
    BY <1>5 DEF IoqInv, QueuesOK
  <2>2. \A u \in Threads : ~elem_find(cond_data_avail', u) /\ ~elem_find(cond_space_avail', u)
    BY <1>1, <1>5, <2>1 DEF elem_find
  <2> QED BY <1>1, <1>2, <1>5, <2>1, <2>2, ReturnInv
<1> QED BY <1>4, <1>5 DEF AwaitData

\* A writer finds the ring full.
LEMMA AwaitSpaceInv ==
  ASSUME IoqInv, NEW t \in Threads, Enters(t), op[t] \in Givers, AwaitSpace(t)
  PROVE  IoqInv'
<1>1. /\ woken' = woken \ {t}
      /\ role' = role /\ buf' = buf /\ head' = head /\ tail' = tail /\ closed' = closed
      /\ cond_data_avail' = cond_data_avail
  BY DEF AwaitSpace
<1>2. /\ cond_space_avail \in Seq(Threads) /\ Distinct(cond_space_avail) /\ woken \in SUBSET Threads
      /\ cond_data_avail \in Seq(Threads) /\ Distinct(cond_data_avail)
      /\ buf \in [0..(bufsize - 1) -> Values]
      /\ head \in 0..(bufsize - 1) /\ tail \in 0..(bufsize - 1) /\ closed \in BOOLEAN
  BY DEF IoqInv, TypeOK, QueuesOK, WaitOK
<1>3. ~closed => IsFiniteSet(woken')
  BY <1>1, FS_RemoveElement DEF IoqInv, QueuesOK
<1>4. CASE /\ ~closed /\ cond_space_avail' = list_append(cond_space_avail, t)
           /\ op' = op /\ todo' = todo
  <2>1. /\ cond_space_avail' \in Seq(Threads) /\ Distinct(cond_space_avail')
        /\ \A u \in Threads : elem_find(cond_space_avail', u) <=> elem_find(cond_space_avail, u) \/ u = t
    BY <1>2, <1>4, AppendFacts DEF Enters
  <2>2. TypeOK'
    BY <1>1, <1>4, <2>1 DEF IoqInv, TypeOK, MaxTransfer, Transfers
  <2>3. CallsAllowed'
    BY <1>1, <1>4 DEF IoqInv, CallsAllowed
  <2>4. WaitOK(cond_space_avail, Givers)'
    BY <1>1, <1>4, <2>1 DEF IoqInv, QueuesOK, WaitOK, Givers
  <2>5. WaitOK(cond_data_avail, Takers)'
    BY <1>1, <1>4 DEF IoqInv, QueuesOK, WaitOK, Takers
  <2>6. QueuesOK'
    BY <1>1, <1>3, <1>4, <2>4, <2>5 DEF QueuesOK
  <2> QED BY <2>2, <2>3, <2>6 DEF IoqInv
<1>5. CASE closed /\ Return(t) /\ cond_space_avail' = cond_space_avail
  <2>1. cond_data_avail = <<>> /\ cond_space_avail = <<>>
    BY <1>5 DEF IoqInv, QueuesOK
  <2>2. \A u \in Threads : ~elem_find(cond_data_avail', u) /\ ~elem_find(cond_space_avail', u)
    BY <1>1, <1>5, <2>1 DEF elem_find
  <2> QED BY <1>1, <1>2, <1>5, <2>1, <2>2, ReturnInv
<1> QED BY <1>4, <1>5 DEF AwaitSpace

\* The queue is closed, and nobody waits any more.
LEMMA CloseInv ==
  ASSUME IoqInv, NEW t \in Threads, ioq_close(t)
  PROVE  /\ IoqInv' /\ closed' = TRUE
         /\ cond_data_avail' = <<>> /\ cond_space_avail' = <<>>
<1>1. /\ Enters(t) /\ closed' = TRUE /\ Return(t)
      /\ role' = role /\ buf' = buf /\ head' = head /\ tail' = tail
  BY DEF ioq_close
<1>2. /\ woken \in SUBSET Threads /\ buf \in [0..(bufsize - 1) -> Values]
      /\ head \in 0..(bufsize - 1) /\ tail \in 0..(bufsize - 1)
  BY DEF IoqInv, TypeOK
<1>3. woken' \in SUBSET Threads /\ cond_data_avail' = <<>> /\ cond_space_avail' = <<>>
  BY <1>2 DEF ioq_close, IoqInv, QueuesOK
<1>4. /\ cond_data_avail' \in Seq(Threads) /\ Distinct(cond_data_avail')
      /\ cond_space_avail' \in Seq(Threads) /\ Distinct(cond_space_avail')
  BY <1>3 DEF Distinct
<1>5. \A u \in Threads : ~elem_find(cond_data_avail', u) /\ ~elem_find(cond_space_avail', u)
  BY <1>3 DEF elem_find
<1>6. IoqInv'
  BY <1>1, <1>2, <1>3, <1>4, <1>5, ReturnInv
<1> QED BY <1>1, <1>3, <1>6

-----------------------------------------------------------------------------
(* Every step is one of the channel *)

LEMMA SameContents ==
  ASSUME buf' = buf, head' = head, tail' = tail
  PROVE  Contents' = Contents
BY DEF Contents, ioq_length, Advance

\* The end of a read takes effect as Receive.
LEMMA TakeOutReceives ==
  ASSUME IoqInv, NEW t \in Threads, op[t] \in Takers, Enters(t),
         NEW limit \in Nat, limit = IF op[t] = "getchar" THEN 1 ELSE todo[t],
         NEW n \in 0..limit, n = 0 => limit = 0, n <= ioq_length, TakeOut(t, n)
  PROVE  IoqInv' /\ AsChannel!Receive(t)
<1>1. n \in Nat
  OBVIOUS
<1>2. IoqInv' /\ Contents' = SubSeq(Contents, n + 1, Len(Contents))
  BY <1>1, TakeOutInv
<1>3. Len(Contents) = ioq_length
  BY LengthFacts, WindowFacts, FunctionIsSeq DEF IoqInv, TypeOK, Contents
<1>4. closed' = closed /\ Return(t)
  BY DEF TakeOut
<1>5. AsChannel!Return(t)
  BY <1>4 DEF Return, AsChannel!Return
<1> QED BY <1>2, <1>3, <1>4, <1>5 DEF AsChannel!Receive, Takers

\* The end of a write takes effect as Send.
LEMMA PutInSends ==
  ASSUME IoqInv, NEW t \in Threads, op[t] \in Givers, Enters(t), todo[t] \in Transfers,
         NEW n \in 0..Len(todo[t]), n = 0 => todo[t] = <<>>,
         n <= bufsize - 1 - ioq_length, PutIn(t, n)
  PROVE  IoqInv' /\ AsChannel!Send(t)
<1>1. n \in Nat /\ n <= Len(todo[t])
  BY TransferFacts
<1>2. IoqInv' /\ Contents' = Contents \o SubSeq(todo[t], 1, n)
  BY <1>1, PutInInv
<1>3. Len(Contents) = ioq_length
  BY LengthFacts, WindowFacts, FunctionIsSeq DEF IoqInv, TypeOK, Contents
<1>4. ~closed /\ closed' = closed /\ Return(t)
  BY DEF PutIn
<1>5. AsChannel!Return(t)
  BY <1>4 DEF Return, AsChannel!Return
<1>6. Len(Contents) + n <= bufsize - 1
  BY <1>1, <1>3, LengthFacts DEF IoqInv, TypeOK
<1> QED BY <1>2, <1>4, <1>5, <1>6 DEF AsChannel!Send, Givers

\* A wait is not visible, and the end of a call on a closed queue is GiveUp.
LEMMA AwaitRefines ==
  ASSUME IoqInv, NEW t \in Threads,
         \/ op[t] \in Takers /\ AwaitData(t)
         \/ op[t] \in Givers /\ AwaitSpace(t)
  PROVE  AsChannel!GiveUp(t) \/ UNCHANGED AsChannel!vars
<1>1. Contents' = Contents /\ closed' = closed
  BY SameContents DEF AwaitData, AwaitSpace
<1>2. is_ioq_empty => Contents = <<>>
  <2>1. is_ioq_empty => ioq_length = 0
    BY LengthFacts DEF IoqInv, TypeOK
  <2>2. ioq_length = 0 => Contents \in [1..0 -> Values]
    BY DEF Contents
  <2> QED BY <2>1, <2>2, FunctionIsSeq
<1>3. CASE op' = op /\ todo' = todo
  BY <1>1, <1>3 DEF AsChannel!vars
<1>4. CASE closed /\ Return(t)
  <2>1. AsChannel!Return(t)
    BY <1>4 DEF Return, AsChannel!Return
  <2>2. \/ op[t] \in {"getchar", "read_some"} /\ Contents = <<>>
        \/ op[t] \in {"putchar", "write_some"}
    BY <1>2 DEF AwaitData, AwaitSpace, Takers, Givers
  <2> QED BY <1>1, <1>4, <2>1, <2>2 DEF AsChannel!GiveUp
<1> QED BY <1>3, <1>4 DEF AwaitData, AwaitSpace

\* A thread calls the queue.
LEMMA CallStep ==
  ASSUME IoqInv, NEW t \in Threads, Call(t)
  PROVE  IoqInv' /\ AsChannel!Call(t)
<1>1. ASSUME NEW o \in Operations, NEW arg, Begin(t, o, arg)
      PROVE  AsChannel!Begin(t, o, arg)
  <2>1. Contents' = Contents
    BY <1>1, SameContents DEF Begin
  <2> QED BY <1>1, <2>1 DEF Begin, AsChannel!Begin
<1>2. CASE \E o \in {"getchar", "close"} : Begin(t, o, <<>>)
  <2>1. PICK o \in {"getchar", "close"} : Begin(t, o, <<>>)
    BY <1>2
  <2>2. o \in Operations /\ o # "read_some" /\ o # "putchar"
    BY DEF Operations
  <2>3. IoqInv'
    BY <2>1, <2>2, NoTransfer, BeginInv
  <2>4. AsChannel!Begin(t, o, <<>>)
    BY <1>1, <2>1, <2>2
  <2> QED BY <2>3, <2>4 DEF AsChannel!Call
<1>3. CASE \E v \in Values : Begin(t, "putchar", <<v>>)
  <2>1. PICK v \in Values : Begin(t, "putchar", <<v>>)
    BY <1>3
  <2>2. <<v>> \in Transfers /\ Len(<<v>>) = 1
    <3>1. <<v>> \in [1..1 -> Values] /\ 1 \in 0..MaxTransfer
      BY DEF MaxTransfer
    <3> QED BY <3>1 DEF Transfers
  <2>3. "putchar" \in Operations
    BY DEF Operations
  <2>4. IoqInv'
    BY <2>1, <2>2, <2>3, BeginInv
  <2>5. AsChannel!Begin(t, "putchar", <<v>>)
    BY <1>1, <2>1, <2>3
  <2> QED BY <2>2, <2>4, <2>5 DEF AsChannel!Call
<1>4. CASE \E vs \in Transfers : Begin(t, "write_some", vs)
  <2>1. PICK vs \in Transfers : Begin(t, "write_some", vs)
    BY <1>4
  <2>2. "write_some" \in Operations
    BY DEF Operations
  <2>3. IoqInv'
    BY <2>1, <2>2, BeginInv
  <2>4. AsChannel!Begin(t, "write_some", vs)
    BY <1>1, <2>1, <2>2
  <2> QED BY <2>3, <2>4 DEF AsChannel!Call
<1>5. CASE \E n \in 0..MaxTransfer : Begin(t, "read_some", n)
  <2>1. PICK n \in 0..MaxTransfer : Begin(t, "read_some", n)
    BY <1>5
  <2>2. "read_some" \in Operations
    BY DEF Operations
  <2>3. IoqInv'
    BY <2>1, <2>2, BeginInv
  <2>4. AsChannel!Begin(t, "read_some", n)
    BY <1>1, <2>1, <2>2
  <2> QED BY <2>3, <2>4 DEF AsChannel!Call
<1> QED BY <1>2, <1>3, <1>4, <1>5 DEF Call

\* How many characters a read takes: one, or as many as it may and there are.
Taken(t) == IF op[t] = "getchar" THEN 1
            ELSE IF todo[t] < ioq_length THEN todo[t] ELSE ioq_length

\* How many characters a write stores.
Given(t) == IF op[t] = "putchar" THEN 1
            ELSE IF Len(todo[t]) < bufsize - 1 - ioq_length THEN Len(todo[t])
                 ELSE bufsize - 1 - ioq_length

LEMMA TakenFacts ==
  ASSUME IoqInv, NEW t \in Threads, op[t] \in Takers, ~is_ioq_empty
  PROVE  \E limit \in Nat : /\ limit = IF op[t] = "getchar" THEN 1 ELSE todo[t]
                            /\ Taken(t) \in 0..limit /\ Taken(t) <= ioq_length
                            /\ Taken(t) = 0 => limit = 0
<1>1. ioq_length \in Nat /\ ioq_length >= 1
  BY LengthFacts DEF IoqInv, TypeOK
<1>2. CASE op[t] = "getchar"
  BY <1>1, <1>2 DEF Taken
<1>3. CASE op[t] = "read_some"
  <2>1. todo[t] \in Nat
    BY <1>3 DEF IoqInv, TypeOK, MaxTransfer
  <2> QED BY <1>1, <1>3, <2>1 DEF Taken
<1> QED BY <1>2, <1>3 DEF Takers

LEMMA GivenFacts ==
  ASSUME IoqInv, NEW t \in Threads, op[t] \in Givers, ~is_ioq_full
  PROVE  /\ todo[t] \in Transfers /\ Given(t) \in 0..Len(todo[t])
         /\ Given(t) <= bufsize - 1 - ioq_length
         /\ Given(t) = 0 => todo[t] = <<>>
<1>1. ioq_length \in Nat /\ bufsize - 1 - ioq_length \in Nat /\ bufsize - 1 - ioq_length >= 1
  BY LengthFacts DEF IoqInv, TypeOK
<1>2. todo[t] \in Transfers
  BY DEF IoqInv, TypeOK, Givers
<1>3. todo[t] \in Seq(Values) /\ Len(todo[t]) \in Nat
  BY <1>2, TransferFacts
<1>4. op[t] = "putchar" => Len(todo[t]) = 1
  BY DEF IoqInv, CallsAllowed
<1>5. Len(todo[t]) = 0 => todo[t] = <<>>
  BY <1>3
<1>6. /\ Given(t) \in 0..Len(todo[t]) /\ Given(t) <= bufsize - 1 - ioq_length
      /\ Given(t) = 0 => Len(todo[t]) = 0
  <2>1. CASE op[t] = "putchar"
    BY <1>1, <1>4, <2>1 DEF Given
  <2>2. CASE op[t] # "putchar"
    BY <1>1, <1>3, <2>2 DEF Given
  <2> QED BY <2>1, <2>2
<1> QED BY <1>2, <1>5, <1>6

\* What a thread inside the queue does, in the words of the four parts.
LEMMA ProceedCases ==
  ASSUME NEW t \in Threads, Proceed(t)
  PROVE  \/ op[t] \in Takers /\ Enters(t) /\ (AwaitData(t) \/ TakeOut(t, Taken(t)))
         \/ op[t] \in Givers /\ Enters(t) /\ (AwaitSpace(t) \/ PutIn(t, Given(t)))
         \/ ioq_close(t)
<1>1. ASSUME ioq_getchar(t)
      PROVE  op[t] \in Takers /\ Enters(t) /\ (AwaitData(t) \/ TakeOut(t, Taken(t)))
  BY <1>1 DEF ioq_getchar, Takers, Taken
<1>2. ASSUME ioq_read_some(t)
      PROVE  op[t] \in Takers /\ Enters(t) /\ (AwaitData(t) \/ TakeOut(t, Taken(t)))
  BY <1>2 DEF ioq_read_some, Takers, Taken
<1>3. ASSUME ioq_putchar(t)
      PROVE  op[t] \in Givers /\ Enters(t) /\ (AwaitSpace(t) \/ PutIn(t, Given(t)))
  BY <1>3 DEF ioq_putchar, Givers, Given
<1>4. ASSUME ioq_write_some(t)
      PROVE  op[t] \in Givers /\ Enters(t) /\ (AwaitSpace(t) \/ PutIn(t, Given(t)))
  BY <1>4 DEF ioq_write_some, Givers, Given
<1> QED BY <1>1, <1>2, <1>3, <1>4 DEF Proceed

\* A thread inside the queue goes on.
LEMMA ProceedStep ==
  ASSUME IoqInv, NEW t \in Threads, Proceed(t)
  PROVE  /\ IoqInv'
         /\ \/ AsChannel!Send(t) \/ AsChannel!Receive(t) \/ AsChannel!GiveUp(t)
            \/ AsChannel!Close(t) \/ UNCHANGED AsChannel!vars
<1>1. CASE op[t] \in Takers /\ Enters(t) /\ AwaitData(t)
  BY <1>1, AwaitDataInv, AwaitRefines
<1>2. CASE op[t] \in Givers /\ Enters(t) /\ AwaitSpace(t)
  BY <1>2, AwaitSpaceInv, AwaitRefines
<1>3. CASE op[t] \in Takers /\ Enters(t) /\ TakeOut(t, Taken(t))
  <2>1. ~is_ioq_empty
    BY <1>3 DEF TakeOut
  <2>2. PICK limit \in Nat : /\ limit = IF op[t] = "getchar" THEN 1 ELSE todo[t]
                             /\ Taken(t) \in 0..limit /\ Taken(t) <= ioq_length
                             /\ Taken(t) = 0 => limit = 0
    BY <1>3, <2>1, TakenFacts
  <2> QED BY <1>3, <2>2, TakeOutReceives
<1>4. CASE op[t] \in Givers /\ Enters(t) /\ PutIn(t, Given(t))
  <2>1. ~is_ioq_full
    BY <1>4 DEF PutIn
  <2>2. /\ todo[t] \in Transfers /\ Given(t) \in 0..Len(todo[t])
        /\ Given(t) <= bufsize - 1 - ioq_length
        /\ Given(t) = 0 => todo[t] = <<>>
    BY <1>4, <2>1, GivenFacts
  <2> QED BY <1>4, <2>2, PutInSends
<1>5. CASE ioq_close(t)
  <2>1. IoqInv'
    BY <1>5, CloseInv
  <2>2. Contents' = Contents
    BY <1>5, SameContents DEF ioq_close
  <2>3. op[t] = "close" /\ closed' = TRUE /\ Return(t)
    BY <1>5 DEF ioq_close
  <2>4. AsChannel!Return(t)
    BY <2>3 DEF Return, AsChannel!Return
  <2> QED BY <2>1, <2>2, <2>3, <2>4 DEF AsChannel!Close
<1> QED BY <1>1, <1>2, <1>3, <1>4, <1>5, ProceedCases

LEMMA NextStep ==
  ASSUME IoqInv, [Next]_vars
  PROVE  IoqInv' /\ [AsChannel!Next]_AsChannel!vars
<1>1. CASE UNCHANGED vars
  <2>1. Contents' = Contents
    BY <1>1, SameContents DEF vars
  <2>2. IoqInv'
    BY <1>1 DEF vars, IoqInv, TypeOK, CallsAllowed, QueuesOK, WaitOK, Takers, Givers,
                MaxTransfer, Transfers
  <2> QED BY <1>1, <2>1, <2>2 DEF vars, AsChannel!vars
<1>2. ASSUME NEW t \in Threads, Call(t)
      PROVE  IoqInv' /\ AsChannel!Next
  BY <1>2, CallStep DEF AsChannel!Next
<1>3. ASSUME NEW t \in Threads, Proceed(t)
      PROVE  IoqInv' /\ [AsChannel!Next]_AsChannel!vars
  BY <1>3, ProceedStep DEF AsChannel!Next
<1> QED BY <1>1, <1>2, <1>3 DEF Next

LEMMA InitInv == Init => IoqInv /\ AsChannel!Init
<1> SUFFICES ASSUME Init PROVE IoqInv /\ AsChannel!Init
  OBVIOUS
<1>1. buf \in [0..(bufsize - 1) -> Values] /\ role \in Roles
  BY DEF Init
<1>6. /\ \A t \in Threads : op[t] = "none" /\ todo[t] = <<>>
      /\ op \in [Threads -> Operations \cup {"none"}] /\ DOMAIN todo = Threads
  BY DEF Init
<1>7. /\ head \in 0..(bufsize - 1) /\ tail \in 0..(bufsize - 1) /\ closed \in BOOLEAN
      /\ cond_data_avail \in Seq(Threads) /\ cond_space_avail \in Seq(Threads)
      /\ woken \in SUBSET Threads
  BY DEF Init
<1>2. TypeOK
  BY <1>1, <1>6, <1>7, NoTransfer DEF TypeOK
<1>3. CallsAllowed
  BY DEF Init, CallsAllowed
<1>4. QueuesOK
  BY FS_EmptySet DEF Init, QueuesOK, WaitOK, Distinct, elem_find
<1>5. Contents = <<>>
  <2>1. ioq_length = 0
    BY DEF Init, ioq_length
  <2>2. Contents \in [1..0 -> Values]
    BY <2>1 DEF Contents
  <2> QED BY <2>2, FunctionIsSeq
<1> QED BY <1>2, <1>3, <1>4, <1>5 DEF Init, IoqInv, AsChannel!Init

LEMMA IoqInvAlways == Spec => []IoqInv
<1>1. Init => IoqInv
  BY InitInv
<1>2. IoqInv /\ [Next]_vars => IoqInv'
  BY NextStep
<1> QED BY <1>1, <1>2, PTL DEF Spec

\* The cursors of the ring of device/ioqueue.c stay inside it, what it holds are
\* characters, and every thread is in one of the five operations with an argument
\* that fits it, for every size of the ring and every way of using it.
THEOREM IoQueueTypeCorrect == Spec => []TypeOK
<1>1. IoqInv => TypeOK
  BY DEF IoqInv
<1> QED BY <1>1, IoqInvAlways, PTL

\* The ring of device/ioqueue.c with its cursors and its two condition variables
\* implements the bounded channel that can be closed, for every number of threads,
\* every size of the ring and every way of using it.
THEOREM QueueImplementsChannel == Spec => ImplementsChannel
<1>1. Init => AsChannel!Init
  BY InitInv
<1>2. IoqInv /\ [Next]_vars => [AsChannel!Next]_AsChannel!vars
  BY NextStep
<1> QED BY <1>1, <1>2, IoqInvAlways, PTL DEF Spec, ImplementsChannel, AsChannel!Spec

-----------------------------------------------------------------------------
(* Those who sleep are told *)

\* One element more counts one more, one element less counts one less at most.
LEMMA CountMore ==
  ASSUME NEW A, NEW B, NEW x, IsFiniteSet(A), IsFiniteSet(B), x \notin A, A \cup {x} \subseteq B
  PROVE  Cardinality(A) \in Nat /\ Cardinality(B) \in Nat /\ Cardinality(A) + 1 <= Cardinality(B)
<1>1. IsFiniteSet(A \cup {x}) /\ Cardinality(A \cup {x}) = Cardinality(A) + 1
  BY FS_AddElement
<1>2. Cardinality(A \cup {x}) <= Cardinality(B)
  BY FS_Subset
<1>3. Cardinality(A) \in Nat /\ Cardinality(B) \in Nat
  BY FS_CardinalityType
<1> QED BY <1>1, <1>2, <1>3

LEMMA CountLess ==
  ASSUME NEW A, NEW B, NEW x, IsFiniteSet(A), IsFiniteSet(B), A \ {x} \subseteq B
  PROVE  Cardinality(A) \in Nat /\ Cardinality(B) \in Nat /\ Cardinality(A) - 1 <= Cardinality(B)
<1>1. IsFiniteSet(A \ {x})
      /\ Cardinality(A \ {x}) = IF x \in A THEN Cardinality(A) - 1 ELSE Cardinality(A)
  BY FS_RemoveElement
<1>2. Cardinality(A \ {x}) <= Cardinality(B)
  BY FS_Subset
<1>3. Cardinality(A) \in Nat /\ Cardinality(B) \in Nat
  BY FS_CardinalityType
<1> QED BY <1>1, <1>2, <1>3

\* While the queue is open the threads on their way can be counted.
LEMMA ComingFinite ==
  ASSUME IoqInv, ~closed, NEW ops
  PROVE  IsFiniteSet(Coming(ops)) /\ Cardinality(Coming(ops)) \in Nat
<1>1. IsFiniteSet(woken) /\ Coming(ops) \in SUBSET woken
  BY DEF IoqInv, QueuesOK, Coming
<1>2. IsFiniteSet(Coming(ops))
  BY <1>1, FS_Subset
<1> QED BY <1>2, FS_CardinalityType

\* Two threads in calls of the same kind make the queue a pipe.
LEMMA TwoMakeAPipe ==
  ASSUME IoqInv, \A r \in Roles : AsPipe(r) \/ AsTerminal(r),
         NEW ops \in {Takers, Givers}, NEW t \in Threads, NEW u \in Threads, t # u,
         op[t] \in ops, op[u] \in ops
  PROVE  AsPipe(role)
<1>1. op[t] # "none" /\ op[u] # "none"
  BY DEF Takers, Givers
<1>2. op[t] \in role[t] \cap ops /\ op[u] \in role[u] \cap ops
  BY <1>1 DEF IoqInv, CallsAllowed
<1>3. ~AsTerminal(role)
  BY <1>2 DEF AsTerminal
<1>4. role \in Roles
  BY DEF IoqInv, TypeOK
<1> QED BY <1>3, <1>4

\* On a pipe a call moves one character.
LEMMA PipeMovesOne ==
  ASSUME IoqInv, AsPipe(role), NEW t \in Threads
  PROVE  /\ op[t] \in Takers => Taken(t) = 1
         /\ op[t] \in Givers => Given(t) = 1
<1>1. op[t] \in Takers \cup Givers => op[t] \in role[t]
  BY DEF IoqInv, CallsAllowed, Takers, Givers
<1>2. op[t] # "read_some" \/ op[t] \notin role[t]
  BY DEF AsPipe
<1>3. op[t] # "write_some" \/ op[t] \notin role[t]
  BY DEF AsPipe
<1>4. op[t] \in Takers => op[t] = "getchar"
  BY <1>1, <1>2 DEF Takers
<1>5. op[t] \in Givers => op[t] = "putchar"
  BY <1>1, <1>3 DEF Givers
<1> QED BY <1>4, <1>5 DEF Taken, Given

\* A condition that a notify leaves with a waiter had two.
LEMMA StillWaiting ==
  ASSUME NEW t, NEW q \in Seq(Threads), Distinct(q), NotifyOne(q) # <<>>
  PROVE  /\ q # <<>> /\ Head(q) \in Threads /\ elem_find(q, Head(q))
         /\ Head(q) \in Woken(t, q)
         /\ \E u \in Threads : u # Head(q) /\ elem_find(q, u)
<1>1. q # <<>> /\ NotifyOne(q) = Tail(q) /\ Woken(t, q) = (woken \ {t}) \cup {Head(q)}
  BY DEF NotifyOne, Woken, list_empty
<1>2. /\ Head(q) \in Threads /\ elem_find(q, Head(q)) /\ Tail(q) \in Seq(Threads)
      /\ \A u \in Threads : elem_find(Tail(q), u) <=> elem_find(q, u) /\ u # Head(q)
  BY <1>1, PopFacts
<1>3. Head(Tail(q)) \in Threads /\ elem_find(Tail(q), Head(Tail(q)))
  BY <1>1, <1>2, PopFacts
<1> QED BY <1>1, <1>2, <1>3

LEMMA ToldByTakeOut ==
  ASSUME IoqInv, IoqInv', SleepersTold, \A r \in Roles : AsPipe(r) \/ AsTerminal(r),
         NEW t \in Threads, op[t] \in Takers, Enters(t),
         Taken(t) <= ioq_length, Taken(t) \in Nat, TakeOut(t, Taken(t))
  PROVE  SleepersTold'
<1>1. /\ cond_space_avail' = NotifyOne(cond_space_avail) /\ woken' = Woken(t, cond_space_avail)
      /\ cond_data_avail' = cond_data_avail /\ closed' = closed /\ Return(t)
  BY DEF TakeOut
<1>2. ioq_length' = ioq_length - Taken(t)
  BY TakeOutInv
<1>3. ioq_length \in Nat
  BY LengthFacts DEF IoqInv, TypeOK
<1>4. \A u \in Threads : op'[u] = IF u = t THEN "none" ELSE op[u]
  BY <1>1 DEF Return, IoqInv, TypeOK
<1>5. /\ woken \in SUBSET Threads /\ woken \ {t} \subseteq woken'
      /\ cond_data_avail \in Seq(Threads)
      /\ cond_space_avail \in Seq(Threads) /\ Distinct(cond_space_avail)
  BY <1>1 DEF IoqInv, TypeOK, QueuesOK, WaitOK, Woken
<1>6. CASE closed
  BY <1>1, <1>6 DEF IoqInv, QueuesOK, SleepersTold
<1>7. CASE ~closed
  <2>1. \A ops : /\ IsFiniteSet(Coming(ops)) /\ Cardinality(Coming(ops)) \in Nat
                 /\ IsFiniteSet(Coming(ops)') /\ Cardinality(Coming(ops)') \in Nat
    <3>1. IsFiniteSet(woken) /\ IsFiniteSet(woken')
      BY <1>1, <1>7 DEF IoqInv, QueuesOK
    <3>2. \A ops : Coming(ops) \in SUBSET woken /\ Coming(ops)' \in SUBSET woken'
      BY DEF Coming
    <3> QED BY <3>1, <3>2, FS_Subset, FS_CardinalityType
  <2>2. ASSUME cond_data_avail' # <<>>
        PROVE  ioq_length' <= Cardinality(Coming(Takers)')
    <3>1. /\ Head(cond_data_avail) \in Threads /\ elem_find(cond_data_avail, Head(cond_data_avail))
          /\ cond_data_avail # <<>>
      BY <1>1, <1>5, <2>2, PopFacts
    <3>2. Head(cond_data_avail) # t /\ op[Head(cond_data_avail)] \in Takers
      BY <3>1 DEF Enters, IoqInv, QueuesOK, WaitOK
    <3>3. Taken(t) = 1
      BY <3>1, <3>2, TwoMakeAPipe, PipeMovesOne
    <3>4. Coming(Takers) \ {t} \subseteq Coming(Takers)'
      BY <1>4, <1>5 DEF Coming
    <3>5. Cardinality(Coming(Takers)) - 1 <= Cardinality(Coming(Takers)')
      BY <2>1, <3>4, CountLess
    <3>6. ioq_length <= Cardinality(Coming(Takers))
      BY <3>1 DEF SleepersTold
    <3> QED BY <1>2, <1>3, <2>1, <3>3, <3>5, <3>6
  <2>3. ASSUME cond_space_avail' # <<>>
        PROVE  bufsize - 1 - ioq_length' <= Cardinality(Coming(Givers)')
    <3> DEFINE h == Head(cond_space_avail)
    <3>1. /\ cond_space_avail # <<>> /\ h \in Threads /\ elem_find(cond_space_avail, h)
          /\ h \in woken'
          /\ \E u \in Threads : u # h /\ elem_find(cond_space_avail, u)
      BY <1>1, <1>5, <2>3, StillWaiting
    <3>2. PICK u \in Threads : u # h /\ elem_find(cond_space_avail, u)
      BY <3>1
    <3> HIDE DEF h
    <3>3. h # t /\ h \notin woken /\ op[h] \in Givers /\ op[u] \in Givers
      BY <3>1, <3>2 DEF Enters, IoqInv, QueuesOK, WaitOK
    <3>4. Taken(t) = 1
      BY <3>1, <3>2, <3>3, TwoMakeAPipe, PipeMovesOne
    <3>5. h \notin Coming(Givers) /\ Coming(Givers) \cup {h} \subseteq Coming(Givers)'
      <4>1. h \in Coming(Givers)' /\ h \notin Coming(Givers)
        BY <1>4, <3>1, <3>3 DEF Coming
      <4>2. t \notin Coming(Givers)
        BY DEF Coming, Takers, Givers
      <4>3. Coming(Givers) \subseteq Coming(Givers)'
        BY <1>4, <1>5, <4>2 DEF Coming
      <4> QED BY <4>1, <4>3
    <3>6. Cardinality(Coming(Givers)) + 1 <= Cardinality(Coming(Givers)')
      BY <2>1, <3>5, CountMore
    <3>7. bufsize - 1 - ioq_length <= Cardinality(Coming(Givers))
      BY <3>1 DEF SleepersTold
    <3> QED BY <1>2, <1>3, <2>1, <3>4, <3>6, <3>7
  <2> QED BY <2>2, <2>3 DEF SleepersTold
<1> QED BY <1>6, <1>7

LEMMA ToldByPutIn ==
  ASSUME IoqInv, IoqInv', SleepersTold, \A r \in Roles : AsPipe(r) \/ AsTerminal(r),
         NEW t \in Threads, op[t] \in Givers, Enters(t), todo[t] \in Transfers,
         Given(t) \in Nat, Given(t) <= Len(todo[t]),
         Given(t) <= bufsize - 1 - ioq_length, PutIn(t, Given(t))
  PROVE  SleepersTold'
<1>1. /\ cond_data_avail' = NotifyOne(cond_data_avail) /\ woken' = Woken(t, cond_data_avail)
      /\ cond_space_avail' = cond_space_avail /\ closed' = closed /\ ~closed /\ Return(t)
  BY DEF PutIn
<1>2. ioq_length' = ioq_length + Given(t)
  BY PutInInv
<1>3. ioq_length \in Nat
  BY LengthFacts DEF IoqInv, TypeOK
<1>4. \A u \in Threads : op'[u] = IF u = t THEN "none" ELSE op[u]
  BY <1>1 DEF Return, IoqInv, TypeOK
<1>5. /\ woken \in SUBSET Threads /\ woken \ {t} \subseteq woken'
      /\ cond_space_avail \in Seq(Threads)
      /\ cond_data_avail \in Seq(Threads) /\ Distinct(cond_data_avail)
  BY <1>1 DEF IoqInv, TypeOK, QueuesOK, WaitOK, Woken
<1>6. \A ops : /\ IsFiniteSet(Coming(ops)) /\ Cardinality(Coming(ops)) \in Nat
               /\ IsFiniteSet(Coming(ops)') /\ Cardinality(Coming(ops)') \in Nat
  <2>1. IsFiniteSet(woken) /\ IsFiniteSet(woken')
    BY <1>1 DEF IoqInv, QueuesOK
  <2>2. \A ops : Coming(ops) \in SUBSET woken /\ Coming(ops)' \in SUBSET woken'
    BY DEF Coming
  <2> QED BY <2>1, <2>2, FS_Subset, FS_CardinalityType
<1>7. ASSUME cond_space_avail' # <<>>
      PROVE  bufsize - 1 - ioq_length' <= Cardinality(Coming(Givers)')
  <2>1. /\ Head(cond_space_avail) \in Threads /\ elem_find(cond_space_avail, Head(cond_space_avail))
        /\ cond_space_avail # <<>>
    BY <1>1, <1>5, <1>7, PopFacts
  <2>2. Head(cond_space_avail) # t /\ op[Head(cond_space_avail)] \in Givers
    BY <2>1 DEF Enters, IoqInv, QueuesOK, WaitOK
  <2>3. Given(t) = 1
    BY <2>1, <2>2, TwoMakeAPipe, PipeMovesOne
  <2>4. Coming(Givers) \ {t} \subseteq Coming(Givers)'
    BY <1>4, <1>5 DEF Coming
  <2>5. Cardinality(Coming(Givers)) - 1 <= Cardinality(Coming(Givers)')
    BY <1>6, <2>4, CountLess
  <2>6. bufsize - 1 - ioq_length <= Cardinality(Coming(Givers))
    BY <2>1 DEF SleepersTold
  <2> QED BY <1>2, <1>3, <1>6, <2>3, <2>5, <2>6
<1>8. ASSUME cond_data_avail' # <<>>
      PROVE  ioq_length' <= Cardinality(Coming(Takers)')
  <2> DEFINE h == Head(cond_data_avail)
  <2>1. /\ cond_data_avail # <<>> /\ h \in Threads /\ elem_find(cond_data_avail, h)
        /\ h \in woken'
        /\ \E u \in Threads : u # h /\ elem_find(cond_data_avail, u)
    BY <1>1, <1>5, <1>8, StillWaiting
  <2>2. PICK u \in Threads : u # h /\ elem_find(cond_data_avail, u)
    BY <2>1
  <2> HIDE DEF h
  <2>3. h # t /\ h \notin woken /\ op[h] \in Takers /\ op[u] \in Takers
    BY <2>1, <2>2 DEF Enters, IoqInv, QueuesOK, WaitOK
  <2>4. Given(t) = 1
    BY <2>1, <2>2, <2>3, TwoMakeAPipe, PipeMovesOne
  <2>5. h \notin Coming(Takers) /\ Coming(Takers) \cup {h} \subseteq Coming(Takers)'
    <3>1. h \in Coming(Takers)' /\ h \notin Coming(Takers)
      BY <1>4, <2>1, <2>3 DEF Coming
    <3>2. t \notin Coming(Takers)
      BY DEF Coming, Takers, Givers
    <3>3. Coming(Takers) \subseteq Coming(Takers)'
      BY <1>4, <1>5, <3>2 DEF Coming
    <3> QED BY <3>1, <3>3
  <2>6. Cardinality(Coming(Takers)) + 1 <= Cardinality(Coming(Takers)')
    BY <1>6, <2>5, CountMore
  <2>7. ioq_length <= Cardinality(Coming(Takers))
    BY <2>1 DEF SleepersTold
  <2> QED BY <1>2, <1>3, <1>6, <2>4, <2>6, <2>7
<1> QED BY <1>7, <1>8 DEF SleepersTold

\* A step after which nothing was moved and the threads on their way are still on
\* their way, except for a condition whose threads can get nothing.
LEMMA ToldByOthers ==
  ASSUME IoqInv, IoqInv', SleepersTold, head' = head, tail' = tail, closed' = closed,
         \/ is_ioq_empty
         \/ cond_data_avail' = cond_data_avail /\ Coming(Takers) \subseteq Coming(Takers)',
         \/ is_ioq_full
         \/ cond_space_avail' = cond_space_avail /\ Coming(Givers) \subseteq Coming(Givers)'
  PROVE  SleepersTold'
<1>1. ioq_length' = ioq_length
  BY DEF ioq_length
<1>2. CASE closed
  BY <1>2 DEF IoqInv, QueuesOK, SleepersTold
<1>3. CASE ~closed
  <2>1. /\ ioq_length \in Nat
        /\ is_ioq_empty => ioq_length = 0
        /\ is_ioq_full => bufsize - 1 - ioq_length = 0
    BY LengthFacts DEF IoqInv, TypeOK
  <2>2. \A ops : /\ IsFiniteSet(Coming(ops)') /\ Cardinality(Coming(ops)') \in Nat
                 /\ Cardinality(Coming(ops)) \in Nat
                 /\ Coming(ops) \subseteq Coming(ops)'
                       => Cardinality(Coming(ops)) <= Cardinality(Coming(ops)')
    <3>1. IsFiniteSet(woken) /\ IsFiniteSet(woken')
      BY <1>3 DEF IoqInv, QueuesOK
    <3>2. \A ops : Coming(ops) \in SUBSET woken /\ Coming(ops)' \in SUBSET woken'
      BY DEF Coming
    <3>3. \A ops : IsFiniteSet(Coming(ops)) /\ IsFiniteSet(Coming(ops)')
      BY <3>1, <3>2, FS_Subset
    <3> QED BY <3>3, FS_Subset, FS_CardinalityType
  <2>3. ASSUME cond_data_avail' # <<>>
        PROVE  ioq_length' <= Cardinality(Coming(Takers)')
    BY <1>1, <2>1, <2>2, <2>3 DEF SleepersTold
  <2>4. ASSUME cond_space_avail' # <<>>
        PROVE  bufsize - 1 - ioq_length' <= Cardinality(Coming(Givers)')
    BY <1>1, <2>1, <2>2, <2>4 DEF SleepersTold
  <2> QED BY <2>3, <2>4 DEF SleepersTold
<1> QED BY <1>2, <1>3

LEMMA ToldStep ==
  ASSUME IoqInv, IoqInv', SleepersTold, \A r \in Roles : AsPipe(r) \/ AsTerminal(r), [Next]_vars
  PROVE  SleepersTold'
<1>1. CASE UNCHANGED vars
  <2>1. Coming(Takers)' = Coming(Takers) /\ Coming(Givers)' = Coming(Givers)
    BY <1>1 DEF vars, Coming, Takers, Givers
  <2> QED BY <1>1, <2>1, ToldByOthers DEF vars
<1>2. ASSUME NEW t \in Threads, NEW o, NEW arg, Begin(t, o, arg)
      PROVE  SleepersTold'
  <2>1. /\ op[t] = "none" /\ op' = [op EXCEPT ![t] = o]
        /\ head' = head /\ tail' = tail /\ closed' = closed /\ woken' = woken
        /\ cond_data_avail' = cond_data_avail /\ cond_space_avail' = cond_space_avail
    BY <1>2 DEF Begin
  <2>2. \A u \in woken : u # t => op'[u] = op[u]
    BY <2>1 DEF IoqInv, TypeOK
  <2>3. Coming(Takers) \subseteq Coming(Takers)'
    BY <2>1, <2>2 DEF Coming, Takers
  <2>4. Coming(Givers) \subseteq Coming(Givers)'
    BY <2>1, <2>2 DEF Coming, Givers
  <2> QED BY <2>1, <2>3, <2>4, ToldByOthers
<1>3. ASSUME NEW t \in Threads, op[t] \in Takers, AwaitData(t)
      PROVE  SleepersTold'
  <2>1. /\ is_ioq_empty /\ woken' = woken \ {t}
        /\ head' = head /\ tail' = tail /\ closed' = closed
        /\ cond_space_avail' = cond_space_avail
    BY <1>3 DEF AwaitData
  <2>2. \A u \in woken : u # t => op'[u] = op[u]
    BY <1>3 DEF AwaitData, Return, IoqInv, TypeOK
  <2>3. Coming(Givers) \subseteq Coming(Givers)'
    BY <1>3, <2>1, <2>2 DEF Coming, Takers, Givers
  <2> QED BY <2>1, <2>3, ToldByOthers
<1>4. ASSUME NEW t \in Threads, op[t] \in Givers, AwaitSpace(t)
      PROVE  SleepersTold'
  <2>1. /\ closed \/ is_ioq_full
        /\ woken' = woken \ {t}
        /\ head' = head /\ tail' = tail /\ closed' = closed
        /\ cond_data_avail' = cond_data_avail
    BY <1>4 DEF AwaitSpace
  <2>2. \A u \in woken : u # t => op'[u] = op[u]
    BY <1>4 DEF AwaitSpace, Return, IoqInv, TypeOK
  <2>3. CASE closed
    BY <2>1, <2>3 DEF IoqInv, QueuesOK, SleepersTold
  <2>4. CASE ~closed
    <3>1. Coming(Takers) \subseteq Coming(Takers)'
      BY <1>4, <2>1, <2>2, <2>4 DEF Coming, Takers, Givers
    <3> QED BY <2>1, <2>4, <3>1, ToldByOthers
  <2> QED BY <2>3, <2>4
<1>5. ASSUME NEW t \in Threads, op[t] \in Takers, Enters(t), TakeOut(t, Taken(t))
      PROVE  SleepersTold'
  <2>1. ~is_ioq_empty
    BY <1>5 DEF TakeOut
  <2>2. Taken(t) \in Nat /\ Taken(t) <= ioq_length
    BY <1>5, <2>1, TakenFacts
  <2> QED BY <1>5, <2>2, ToldByTakeOut
<1>6. ASSUME NEW t \in Threads, op[t] \in Givers, Enters(t), PutIn(t, Given(t))
      PROVE  SleepersTold'
  <2>1. ~is_ioq_full
    BY <1>6 DEF PutIn
  <2>2. /\ todo[t] \in Transfers /\ Given(t) \in 0..Len(todo[t])
        /\ Given(t) <= bufsize - 1 - ioq_length
    BY <1>6, <2>1, GivenFacts
  <2>3. Given(t) \in Nat /\ Given(t) <= Len(todo[t])
    BY <2>2, TransferFacts
  <2> QED BY <1>6, <2>2, <2>3, ToldByPutIn
<1>7. ASSUME NEW t \in Threads, ioq_close(t)
      PROVE  SleepersTold'
  <2>1. cond_data_avail' = <<>> /\ cond_space_avail' = <<>>
    BY <1>7, CloseInv
  <2> QED BY <2>1 DEF SleepersTold
<1>8. ASSUME NEW t \in Threads, Call(t)
      PROVE  SleepersTold'
  BY <1>2, <1>8 DEF Call
<1>9. ASSUME NEW t \in Threads, Proceed(t)
      PROVE  SleepersTold'
  BY <1>3, <1>4, <1>5, <1>6, <1>7, <1>9, ProceedCases
<1> QED BY <1>1, <1>8, <1>9 DEF Next

\* One notify per transfer is enough, for every number of threads and every size of
\* the ring, where calls move one character (a pipe, ipc/pipe.c) or at most one
\* thread reads and at most one writes (the terminal, device/tty.c, whose writer is
\* the keyboard handler): no reader sleeps beside characters that nobody is on the
\* way to take, no writer beside slots that nobody is on the way to fill.
THEOREM SleepersAlwaysTold ==
  ASSUME \A r \in Roles : AsPipe(r) \/ AsTerminal(r)
  PROVE  Spec => []SleepersTold
<1>1. Init => SleepersTold
  BY DEF Init, SleepersTold
<1>2. IoqInv /\ IoqInv' /\ SleepersTold /\ [Next]_vars => SleepersTold'
  BY ToldStep
<1> QED BY <1>1, <1>2, IoqInvAlways, PTL DEF Spec
=============================================================================
