-------------------------- MODULE FileSystemProofs --------------------------
(***************************************************************************)
(* Proofs about FileSystem, for every size of the disk and of the tables,  *)
(* whatever the directories hold and wherever the power goes: the types,   *)
(* the bitmaps in memory and on disk, and the counts of open inodes.       *)
(*                                                                         *)
(* A call is a composition of operators on the record s.  For each of them *)
(* there is a lemma that says what it keeps: Good (the disk as the call    *)
(* sees it is the real one with the writes issued so far; the memory is    *)
(* well formed unless an ASSERT failed), Same or SameBits (what it does    *)
(* not touch) and, where inodes are opened and closed, the references the  *)
(* call holds itself, a function L on the inode objects.                   *)
(***************************************************************************)
EXTENDS FileSystem, FiniteSetTheorems, SequenceTheorems, WellFoundedInduction, TLAPS

USE DEF Write, NoObj, RootObj, Root

-----------------------------------------------------------------------------
(* Kernel lists *)

\* Inserting an element that is not in a list at the front keeps the list free
\* of duplicates, and adds just that element: list_push.
LEMMA PushFacts ==
  ASSUME NEW A, NEW q \in Seq(A), NEW t \in A
  PROVE  /\ list_push(q, t) \in Seq(A)
         /\ \A u \in A : elem_find(list_push(q, t), u) <=> elem_find(q, u) \/ u = t
         /\ Distinct(q) /\ ~elem_find(q, t) => Distinct(list_push(q, t))
<1> USE DEF list_push
<1>1. list_push(q, t) \in Seq(A) /\ Len(list_push(q, t)) = Len(q) + 1
  OBVIOUS
<1>2. \A i \in 1..Len(q) : (list_push(q, t))[i + 1] = q[i]
  OBVIOUS
<1>3. (list_push(q, t))[1] = t
  OBVIOUS
<1>4. \A i \in 2..(Len(q) + 1) : (list_push(q, t))[i] = q[i - 1] /\ i - 1 \in 1..Len(q)
  BY <1>2
<1>5. \A u \in A : elem_find(list_push(q, t), u) <=> elem_find(q, u) \/ u = t
  <2>1. ASSUME NEW u \in A, elem_find(list_push(q, t), u), u # t
        PROVE  elem_find(q, u)
    <3>1. PICK i \in 1..(Len(q) + 1) : (list_push(q, t))[i] = u
      BY <1>1, <2>1 DEF elem_find
    <3>2. i \in 2..(Len(q) + 1)
      BY <1>3, <2>1, <3>1
    <3> QED BY <1>4, <3>1, <3>2 DEF elem_find
  <2>2. ASSUME NEW u \in A, elem_find(q, u)
        PROVE  elem_find(list_push(q, t), u)
    <3>1. PICK i \in 1..Len(q) : q[i] = u
      BY <2>2 DEF elem_find
    <3>2. i + 1 \in 1..Len(list_push(q, t)) /\ (list_push(q, t))[i + 1] = u
      BY <1>1, <1>2, <3>1
    <3> QED BY <3>2 DEF elem_find
  <2>3. elem_find(list_push(q, t), t)
    BY <1>1, <1>3 DEF elem_find
  <2> QED BY <2>1, <2>2, <2>3
<1>6. Distinct(q) /\ ~elem_find(q, t) => Distinct(list_push(q, t))
  <2> DEFINE l == list_push(q, t)
             n == Len(q)
  <2>1. /\ n \in Nat /\ Len(l) = n + 1 /\ l[1] = t
        /\ \A i \in 2..(n + 1) : l[i] = q[i - 1] /\ i - 1 \in 1..n
    BY <1>1, <1>3, <1>4
  <2> HIDE DEF l, n
  <2>2. SUFFICES ASSUME Distinct(q), ~elem_find(q, t), NEW i \in 1..(n + 1), NEW j \in 1..(n + 1),
                        l[i] = l[j]
                 PROVE  i = j
    BY <2>1 DEF Distinct, l
  <2>3. \A k \in 2..(n + 1) : l[k] # t
    BY <2>1, <2>2 DEF elem_find, n
  <2>4. CASE i = 1 \/ j = 1
    <3>1. i \in 2..(n + 1) => l[i] # t
      BY <2>3
    <3>2. j \in 2..(n + 1) => l[j] # t
      BY <2>3
    <3>3. l[i] = l[j] /\ l[1] = t
      BY <2>1, <2>2
    <3> QED BY <2>1, <2>4, <3>1, <3>2, <3>3
  <2>5. CASE i \in 2..(n + 1) /\ j \in 2..(n + 1)
    <3>1. q[i - 1] = q[j - 1] /\ i - 1 \in 1..n /\ j - 1 \in 1..n
      BY <2>1, <2>2, <2>5
    <3>2. i - 1 = j - 1
      BY <2>2, <3>1 DEF Distinct, n
    <3> QED BY <2>1, <2>5, <3>2
  <2> QED BY <2>1, <2>4, <2>5
<1> QED BY <1>1, <1>5, <1>6

\* Unlinking an element of a list without duplicates takes just that element
\* out: list_remove.
LEMMA RemoveFacts ==
  ASSUME NEW A, NEW q \in Seq(A), NEW t \in A, Distinct(q), elem_find(q, t)
  PROVE  /\ list_remove(q, t) \in Seq(A)
         /\ Distinct(list_remove(q, t))
         /\ \A u \in A : elem_find(list_remove(q, t), u) <=> elem_find(q, u) /\ u # t
<1> DEFINE i == CHOOSE i \in 1..Len(q) : q[i] = t
           p == SubSeq(q, 1, i - 1)
           s == SubSeq(q, i + 1, Len(q))
<1>1. i \in 1..Len(q) /\ q[i] = t
  BY DEF elem_find
<1>2. list_remove(q, t) = p \o s
  BY DEF list_remove
<1> HIDE DEF i
<1>3. p \in Seq(A) /\ Len(p) = i - 1 /\ \A j \in 1..(i - 1) : p[j] = q[j]
  BY <1>1
<1>4. s \in Seq(A) /\ Len(s) = Len(q) - i /\ \A j \in 1..(Len(q) - i) : s[j] = q[i + j]
  BY <1>1
<1> HIDE DEF p, s
<1> DEFINE rest == p \o s
<1>5. rest \in Seq(A) /\ Len(rest) = Len(q) - 1
  <2>1. rest \in Seq(A) /\ Len(rest) = Len(p) + Len(s)
    BY <1>3, <1>4, SMTT(20)
  <2> QED BY <1>1, <1>3, <1>4, <2>1
<1>6. \A j \in 1..(Len(q) - 1) : rest[j] = q[IF j < i THEN j ELSE j + 1]
  <2>1. /\ \A j \in 1..Len(p) : rest[j] = p[j]
        /\ \A j \in (Len(p) + 1)..(Len(p) + Len(s)) : rest[j] = s[j - Len(p)]
    BY <1>3, <1>4
  <2> SUFFICES ASSUME NEW j \in 1..(Len(q) - 1)
               PROVE  rest[j] = q[IF j < i THEN j ELSE j + 1]
    OBVIOUS
  <2> HIDE DEF rest
  <2>2. CASE j < i
    BY <1>1, <1>3, <2>1, <2>2
  <2>3. CASE ~(j < i)
    <3>1. j - (i - 1) \in 1..(Len(q) - i) /\ i + (j - (i - 1)) = j + 1
      BY <1>1, <2>3
    <3>2. rest[j] = s[j - (i - 1)]
      BY <1>1, <1>3, <1>4, <2>1, <2>3
    <3> QED BY <1>4, <2>3, <3>1, <3>2
  <2> QED BY <2>2, <2>3
<1> HIDE DEF rest
<1> DEFINE at(j) == IF j < i THEN j ELSE j + 1
<1>7. \A j \in 1..Len(rest) : at(j) \in 1..Len(q) /\ at(j) # i /\ rest[j] = q[at(j)]
  BY <1>1, <1>5, <1>6
<1>8. \A j, k \in 1..Len(rest) : at(j) = at(k) => j = k
  BY <1>1, <1>5
<1> HIDE DEF at
<1>9. Distinct(rest)
  BY <1>7, <1>8 DEF Distinct
<1>10. ASSUME NEW u \in A, elem_find(rest, u)
      PROVE  elem_find(q, u) /\ u # t
  <2>1. PICK j \in 1..Len(rest) : rest[j] = u
    BY <1>10 DEF elem_find
  <2> QED BY <1>1, <1>7, <2>1 DEF elem_find, Distinct
<1>11. ASSUME NEW u \in A, elem_find(q, u), u # t
      PROVE  elem_find(rest, u)
  <2>1. PICK k \in 1..Len(q) : q[k] = u
    BY <1>11 DEF elem_find
  <2>2. CASE k < i
    BY <1>1, <1>5, <1>6, <2>1, <2>2 DEF elem_find
  <2>3. CASE k > i
    <3>1. k - 1 \in 1..(Len(q) - 1) /\ ~(k - 1 < i) /\ (k - 1) + 1 = k
      BY <1>1, <2>1, <2>3
    <3> QED BY <1>5, <1>6, <2>1, <3>1 DEF elem_find
  <2> QED BY <1>1, <1>11, <2>1, <2>2, <2>3
<1> QED BY <1>2, <1>5, <1>9, <1>10, <1>11 DEF rest

\* A set of numbers that is not empty has a least one: the searches from the
\* front of a list and for the lowest free bit find what they look for.
LEMMA LeastExists ==
  ASSUME NEW T \in SUBSET Nat, T # {}
  PROVE  \E x \in T : \A y \in T : x <= y
<1> DEFINE R == OpToRel(<, Nat)
<1>1. IsWellFoundedOn(R, Nat)
  BY NatLessThanWellFounded
<1>2. \A x, y \in Nat : <<x, y>> \in R <=> x < y
  BY DEF OpToRel
<1> HIDE DEF R
<1>3. PICK x \in T : \A y \in T : ~(<<y, x>> \in R)
  BY <1>1, WFMin, Zenon
<1>4. \A y \in T : x \in Nat /\ y \in Nat /\ ~(y < x)
  BY <1>2, <1>3
<1>5. \A y \in T : x <= y
  BY <1>4
<1> QED BY <1>5

-----------------------------------------------------------------------------

Fields == {"d", "out", "all", "r", "err", "bbits", "ibits", "obj", "list", "slot", "fds",
           "dirs", "cwd"}

\* A disk that a mount can read.
DiskOK(d) ==
    /\ DOMAIN d = {"bbits", "ibits", "inode", "block"}
    /\ d.bbits \subseteq Blocks /\ d.ibits \subseteq Inodes
    /\ d.inode \in [Inodes -> DiskInodes] /\ DOMAIN d.block = Blocks

\* The writes ws take disk d0 to disk d1.
Chain(d0, ws, d1) ==
    \E T, ds : /\ ws \in Seq(T)
               /\ ds[1] = d0 /\ ds[Len(ws) + 1] = d1
               /\ \A i \in 1..Len(ws) : ds[i + 1] = Apply(ds[i], ws[i])
               /\ \A i \in 1..Len(ws) + 1 : DiskOK(ds[i])

\* Memory that is well formed; m is mem or the record of a call.
MemTyped(m) ==
    /\ m.bbits \subseteq Blocks /\ m.ibits \subseteq Inodes
    /\ m.obj \in [Objs -> OpenInodes]
    /\ m.slot \in [Slots -> [obj : Objs \cup {NoObj}, w : BOOLEAN, pos : Int]]
    /\ m.dirs \in [Dirs -> [obj : Objs \cup {NoObj}, pos : Nat]]
    /\ m.fds \subseteq {f \in Slots : m.slot[f].obj # NoObj}
    /\ m.list \in Seq(Objs)

\* Holds at every point of a call that began on disk d0.
Shape(d0, s) == DOMAIN s = Fields /\ DiskOK(s.d) /\ Chain(d0, s.out, s.d)
Good(d0, s) == /\ Shape(d0, s)
               /\ s.err = "none" => MemTyped(s) /\ s.d.bbits \subseteq s.bbits

\* The block bitmap on disk is the one in memory, if one sector holds it.
Exact(s) == NBlocks < BITS_PER_SECTOR => s.d.bbits = s.bbits

\* What a step from s to t keeps, unless an ASSERT fails in it.
SameBits(s, t) ==
    t.err = "none" => /\ s.err = "none"
                      /\ t.ibits = s.ibits /\ t.d.ibits = s.d.ibits
                      /\ Exact(s) => Exact(t)
SameRefs(s, t) ==
    t.err = "none" => /\ t.list = s.list /\ t.slot = s.slot /\ t.fds = s.fds /\ t.dirs = s.dirs
                      /\ \A o \in Objs : t.obj[o].cnt = s.obj[o].cnt
Same(s, t) == SameBits(s, t) /\ SameRefs(s, t)

-----------------------------------------------------------------------------
(* Numbers *)

\* The constants are the sizes the code has.
LEMMA Sizes ==
  /\ NInodes \in Nat /\ NBlocks \in Nat /\ BITS_PER_SECTOR \in Nat \ {0} /\ UINT8 \in Nat \ {0}
  /\ NDirect \in Nat /\ NIndirect \in Nat /\ BLOCK_SIZE \in Nat \ {0} /\ MAX_FILE_OPEN \in Nat
  /\ NFds \in Nat /\ MaxDirs \in Nat /\ MaxCalls \in Nat /\ NInodes > 0 /\ NBlocks > 0
  /\ Total \in Nat /\ TableIdx \in Nat /\ TableIdx > 0 /\ Transfers \subseteq Nat
  /\ NDirect > 0
BY FileSystemAssumption DEF Total, TableIdx

\* The kinds of objects are numbered.
LEMMA Numbers ==
  /\ Inodes \subseteq Nat /\ Blocks \subseteq Nat \ {0} /\ Slots \subseteq Nat
  /\ Dirs \subseteq Nat /\ Objs \subseteq Nat \ {0} /\ RootObj \in Objs /\ Root \in Inodes
  /\ NoObj \notin Objs /\ 0 \in Dirs
BY Sizes DEF Inodes, Blocks, Slots, Dirs, Objs

\* The least element of a set of numbers is one of them: bitmap_scan.
LEMMA MinIn ==
  ASSUME NEW T \in SUBSET Nat, T # {}
  PROVE  Min(T) \in T
<1>1. \E x \in T : \A y \in T : x <= y
  BY LeastExists
<1> QED BY <1>1, Zenon DEF Min

\* An array of zeros.
LEMMA ZerosType ==
  ASSUME NEW n \in Nat
  PROVE  Zeros(n) \in [1..n -> {0}]
<1> DEFINE z == [i \in 1..n |-> 0]
<1>1. z \in Seq({0}) /\ Len(z) = n
  OBVIOUS
<1>2. SubSeq(z, 1, n) \in Seq({0}) /\ Len(SubSeq(z, 1, n)) = n
  BY <1>1
<1> HIDE DEF z
<1>3. SubSeq(z, 1, n) \in [1..n -> {0}]
  BY <1>2, LenProperties
<1> QED BY <1>3 DEF Zeros, z

-----------------------------------------------------------------------------
(* The disk *)

\* No write, no change.
LEMMA ChainNil ==
  ASSUME NEW d, DiskOK(d)
  PROVE  Chain(d, <<>>, d)
<1> DEFINE ds == [i \in 1..1 |-> d]
<1>1. /\ <<>> \in Seq({}) /\ Len(<<>>) = 0
      /\ ds[1] = d /\ \A i \in 1..1 : DiskOK(ds[i])
  OBVIOUS
<1> HIDE DEF ds
<1> QED BY <1>1 DEF Chain

\* One more write: ide_write.
LEMMA ChainAppend ==
  ASSUME NEW d0, NEW ws, NEW d1, NEW w, Chain(d0, ws, d1), DiskOK(Apply(d1, w))
  PROVE  Chain(d0, Append(ws, w), Apply(d1, w))
<1>1. PICK T, ds : /\ ws \in Seq(T)
                   /\ ds[1] = d0 /\ ds[Len(ws) + 1] = d1
                   /\ \A i \in 1..Len(ws) : ds[i + 1] = Apply(ds[i], ws[i])
                   /\ \A i \in 1..Len(ws) + 1 : DiskOK(ds[i])
  BY Zenon DEF Chain
<1> DEFINE n == Len(ws)
           ws2 == Append(ws, w)
           d2 == Apply(d1, w)
           es == [i \in 1..n + 2 |-> IF i = n + 2 THEN d2 ELSE ds[i]]
           U == T \cup {w}
<1>2. n \in Nat /\ ws \in Seq(U)
  BY <1>1
<1>3. ws2 \in Seq(U) /\ Len(ws2) = n + 1 /\ ws2[n + 1] = w /\ \A i \in 1..n : ws2[i] = ws[i]
  BY <1>2
<1>4. es[1] = d0 /\ es[n + 2] = d2 /\ \A i \in 1..n + 1 : es[i] = ds[i]
  BY <1>1, <1>2
<1>5. DiskOK(d2)
  OBVIOUS
<1> HIDE DEF ws2, es, U, n, d2
<1>6. \A i \in 1..n + 2 : DiskOK(es[i])
  BY <1>1, <1>2, <1>4, <1>5 DEF n
<1>7. \A i \in 1..n + 1 : es[i + 1] = Apply(es[i], ws2[i])
  <2> SUFFICES ASSUME NEW i \in 1..n + 1 PROVE es[i + 1] = Apply(es[i], ws2[i])
    OBVIOUS
  <2>1. CASE i = n + 1
    BY <1>1, <1>2, <1>3, <1>4, <2>1 DEF n, d2
  <2>2. CASE i \in 1..n
    <3>1. es[i + 1] = ds[i + 1] /\ es[i] = ds[i]
      BY <1>2, <1>4, <2>2
    <3> QED BY <1>1, <1>3, <2>2, <3>1 DEF n
  <2> QED BY <1>2, <2>1, <2>2
<1> QED
  <2>1. Len(ws2) + 1 = n + 2
    BY <1>2, <1>3
  <2>2. Chain(d0, ws2, d2)
    BY <1>3, <1>4, <1>6, <1>7, <2>1, Zenon DEF Chain
  <2> QED BY <2>2 DEF ws2, d2

\* The first write reaches the disk: DiskWrite.
LEMMA ChainHead ==
  ASSUME NEW d0, NEW ws, NEW d1, Chain(d0, ws, d1), ws # <<>>
  PROVE  DiskOK(Apply(d0, Head(ws))) /\ Chain(Apply(d0, Head(ws)), Tail(ws), d1)
<1>1. PICK T, ds : /\ ws \in Seq(T)
                   /\ ds[1] = d0 /\ ds[Len(ws) + 1] = d1
                   /\ \A i \in 1..Len(ws) : ds[i + 1] = Apply(ds[i], ws[i])
                   /\ \A i \in 1..Len(ws) + 1 : DiskOK(ds[i])
  BY Zenon DEF Chain
<1> DEFINE n == Len(ws)
           rest == Tail(ws)
           e0 == Apply(d0, Head(ws))
           es == [i \in 1..n |-> ds[i + 1]]
<1>2. n \in Nat /\ n > 0 /\ Head(ws) = ws[1]
  BY <1>1
<1>3. rest \in Seq(T) /\ Len(rest) = n - 1 /\ \A i \in 1..n - 1 : rest[i] = ws[i + 1]
  BY <1>1, <1>2
<1>4. e0 = ds[2]
  BY <1>1, <1>2
<1>5. es[1] = ds[2] /\ es[n] = ds[n + 1] /\ \A i \in 1..n : es[i] = ds[i + 1]
  BY <1>2
<1> HIDE DEF n, rest, e0, es
<1>6. \A i \in 1..n : DiskOK(es[i])
  BY <1>1, <1>2, <1>5 DEF n
<1>7. \A i \in 1..n - 1 : es[i + 1] = Apply(es[i], rest[i])
  <2> SUFFICES ASSUME NEW i \in 1..n - 1 PROVE es[i + 1] = Apply(es[i], rest[i])
    OBVIOUS
  <2>1. i + 1 \in 1..n /\ i \in 1..n
    BY <1>2
  <2>2. es[i + 1] = ds[(i + 1) + 1] /\ es[i] = ds[i + 1] /\ rest[i] = ws[i + 1]
    BY <1>3, <1>5, <2>1
  <2> QED BY <1>1, <2>1, <2>2 DEF n
<1>8. Len(rest) + 1 = n
  BY <1>2, <1>3
<1>9. DiskOK(e0)
  BY <1>1, <1>2, <1>4 DEF n
<1>10. es[1] = e0 /\ es[n] = d1
  BY <1>1, <1>4, <1>5 DEF n
<1>11. Chain(e0, rest, d1)
  BY <1>3, <1>6, <1>7, <1>8, <1>10, Zenon DEF Chain
<1> QED BY <1>9, <1>11 DEF e0, rest

\* t is s but for the fields in K.
Only(K, s, t) == DOMAIN s = Fields /\ DOMAIN t = Fields /\ \A k \in Fields \ K : t[k] = s[k]

\* A write is issued unless an ASSERT has failed: ide_write.
LEMMA WriteOnly ==
  ASSUME NEW s, NEW w, DOMAIN s = Fields
  PROVE  LET t == ide_write(s, w)
         IN  /\ Only({"d", "out"}, s, t)
             /\ s.err # "none" => t = s
             /\ s.err = "none" => t.d = Apply(s.d, w) /\ t.out = Append(s.out, w)
BY DEF ide_write, Only, Fields

\* A write that leaves a disk that can be read keeps Shape.
LEMMA WriteShape ==
  ASSUME NEW d0, NEW s, NEW w, Shape(d0, s), s.err = "none" => DiskOK(Apply(s.d, w))
  PROVE  Shape(d0, ide_write(s, w))
<1> DEFINE t == ide_write(s, w)
<1>1. DOMAIN s = Fields /\ Chain(d0, s.out, s.d)
  BY DEF Shape
<1>2. /\ Only({"d", "out"}, s, t)
      /\ s.err # "none" => t = s
      /\ s.err = "none" => t.d = Apply(s.d, w) /\ t.out = Append(s.out, w)
  BY <1>1, WriteOnly
<1> HIDE DEF t
<1>3. CASE s.err # "none"
  BY <1>2, <1>3 DEF t
<1>4. CASE s.err = "none"
  <2>1. Chain(d0, t.out, t.d) /\ DiskOK(t.d)
    BY <1>1, <1>2, <1>4, ChainAppend
  <2> QED BY <1>2, <2>1 DEF Shape, Only, t
<1> QED BY <1>3, <1>4

\* A block is written.
LEMMA WriteBlock ==
  ASSUME NEW d0, NEW s, NEW at, NEW val, Good(d0, s)
  PROVE  LET t == ide_write(s, Write("block", at, val))
         IN  Good(d0, t) /\ Same(s, t) /\ Only({"d", "out"}, s, t)
<1> DEFINE w == Write("block", at, val)
           t == ide_write(s, w)
           d == s.d
           e == Apply(d, w)
<1>1. DOMAIN s = Fields /\ DiskOK(d) /\ Shape(d0, s)
  BY DEF Good, Shape
<1>2. /\ e.bbits = d.bbits /\ e.ibits = d.ibits /\ DiskOK(e)
  BY <1>1 DEF Apply, DiskOK
<1>3. Shape(d0, t)
  <2> HIDE DEF w
  <2> QED BY <1>1, <1>2, WriteShape
<1>4. /\ Only({"d", "out"}, s, t)
      /\ s.err # "none" => t = s
      /\ s.err = "none" => t.d = e
  <2> HIDE DEF w
  <2> QED BY <1>1, WriteOnly
<1> HIDE DEF t, e, w
<1>5. /\ t.err = s.err /\ t.bbits = s.bbits /\ t.ibits = s.ibits /\ t.obj = s.obj
      /\ t.list = s.list /\ t.slot = s.slot /\ t.fds = s.fds /\ t.dirs = s.dirs
  BY <1>4 DEF Only, Fields
<1>6. t.d.bbits = s.d.bbits /\ t.d.ibits = s.d.ibits
  BY <1>2, <1>4
<1>7. Good(d0, t)
  BY <1>3, <1>5, <1>6 DEF Good, MemTyped
<1>8. Same(s, t)
  BY <1>5, <1>6 DEF Same, SameBits, SameRefs, Exact
<1> QED BY <1>4, <1>7, <1>8 DEF t, w

\* An inode is written.
LEMMA WriteInode ==
  ASSUME NEW d0, NEW s, NEW at, NEW val, Good(d0, s), s.err = "none" => val \in DiskInodes
  PROVE  LET t == ide_write(s, Write("inode", at, val))
         IN  Good(d0, t) /\ Same(s, t) /\ Only({"d", "out"}, s, t)
<1> DEFINE w == Write("inode", at, val)
           t == ide_write(s, w)
           d == s.d
           e == Apply(d, w)
<1>1. DOMAIN s = Fields /\ DiskOK(d) /\ Shape(d0, s)
  BY DEF Good, Shape
<1>2. ASSUME s.err = "none"
      PROVE  e.bbits = d.bbits /\ e.ibits = d.ibits /\ DiskOK(e)
  BY <1>1, <1>2 DEF Apply, DiskOK
<1>3. Shape(d0, t)
  <2> HIDE DEF w
  <2> QED BY <1>1, <1>2, WriteShape
<1>4. /\ Only({"d", "out"}, s, t)
      /\ s.err # "none" => t = s
      /\ s.err = "none" => t.d = e
  <2> HIDE DEF w
  <2> QED BY <1>1, WriteOnly
<1> HIDE DEF t, e, w
<1>5. /\ t.err = s.err /\ t.bbits = s.bbits /\ t.ibits = s.ibits /\ t.obj = s.obj
      /\ t.list = s.list /\ t.slot = s.slot /\ t.fds = s.fds /\ t.dirs = s.dirs
  BY <1>4 DEF Only, Fields
<1>6. t.d.bbits = s.d.bbits /\ t.d.ibits = s.d.ibits
  BY <1>2, <1>4
<1>7. Good(d0, t)
  BY <1>3, <1>5, <1>6 DEF Good, MemTyped
<1>8. Same(s, t)
  BY <1>5, <1>6 DEF Same, SameBits, SameRefs, Exact
<1> QED BY <1>4, <1>7, <1>8 DEF t, w

\* A number of a block or an inode lies in its own sector, and with a bitmap of one
\* sector all blocks are in it.
LEMMA SectorFacts ==
  /\ \A b \in Blocks : b - 1 \in SectorOf(b - 1)
  /\ \A i \in Inodes : i \in SectorOf(i)
  /\ NBlocks < BITS_PER_SECTOR => \A b, c \in Blocks : c - 1 \in SectorOf(b - 1)
<1>1. \A b \in Blocks : b - 1 \in SectorOf(b - 1)
  BY Sizes DEF Blocks, SectorOf
<1>2. \A i \in Inodes : i \in SectorOf(i)
  BY Sizes DEF Inodes, SectorOf
<1>3. ASSUME NBlocks < BITS_PER_SECTOR, NEW b \in Blocks, NEW c \in Blocks
      PROVE  c - 1 \in SectorOf(b - 1)
  <2>1. b - 1 \in 0..NBlocks /\ c - 1 \in 0..NBlocks
    BY Sizes DEF Blocks
  <2>2. \A x \in 0..NBlocks : x \div BITS_PER_SECTOR = 0
    BY <1>3, Sizes
  <2> QED BY <2>1, <2>2, Sizes DEF SectorOf
<1> QED BY <1>1, <1>2, <1>3

\* bitmap_sync of the block bitmap repairs a difference at the bit it is called for;
\* with a bitmap of one sector it repairs all.
LEMMA SyncBlocks ==
  ASSUME NEW d0, NEW s, NEW b, Shape(d0, s),
         s.err = "none" => MemTyped(s) /\ s.d.bbits \subseteq s.bbits \cup {b}
  PROVE  LET t == bitmap_sync(s, b, "BLOCK")
         IN  /\ Good(d0, t) /\ Only({"d", "out"}, s, t) /\ t.d.ibits = s.d.ibits
             /\ t.err = "none" /\ b \in Blocks => Exact(t)
             /\ t.err = "none" /\ Exact(s) => Exact(t)
<1> DEFINE w == Write("bbits", b - 1, s.bbits)
           t == ide_write(s, w)
           d == s.d
           e == Apply(d, w)
           sec == SectorOf(b - 1)
<1>0. bitmap_sync(s, b, "BLOCK") = t
  BY DEF bitmap_sync
<1>1. DOMAIN s = Fields /\ DiskOK(d)
  BY DEF Shape
<1>2. /\ e.bbits = {x \in d.bbits : x - 1 \notin sec} \cup {x \in s.bbits : x - 1 \in sec}
      /\ e.ibits = d.ibits /\ e.inode = d.inode /\ e.block = d.block /\ DOMAIN e = DOMAIN d
  <2> HIDE DEF sec
  <2>1. e = [d EXCEPT !.bbits = {x \in @ : x - 1 \notin sec} \cup {x \in s.bbits : x - 1 \in sec}]
    BY DEF Apply, sec
  <2> QED BY <1>1, <2>1 DEF DiskOK
<1> HIDE DEF e, sec
<1>3. ASSUME s.err = "none"
      PROVE  /\ DiskOK(e) /\ e.bbits \subseteq s.bbits
             /\ b \in Blocks /\ NBlocks < BITS_PER_SECTOR => e.bbits = s.bbits
             /\ d.bbits = s.bbits => e.bbits = s.bbits
  <2>1. s.bbits \subseteq Blocks /\ d.bbits \subseteq Blocks /\ d.bbits \subseteq s.bbits \cup {b}
    BY <1>1, <1>3 DEF MemTyped, DiskOK
  <2>2. DiskOK(e)
    BY <1>1, <1>2, <2>1 DEF DiskOK
  <2>3. b \in Blocks => b - 1 \in sec
    BY SectorFacts DEF sec
  <2>4. e.bbits \subseteq s.bbits
    BY <1>2, <2>1, <2>3
  <2>5. ASSUME b \in Blocks, NBlocks < BITS_PER_SECTOR
        PROVE  e.bbits = s.bbits
    <3>1. \A c \in Blocks : c - 1 \in sec
      BY <2>5, SectorFacts DEF sec
    <3> QED BY <1>2, <2>1, <3>1
  <2>6. d.bbits = s.bbits => e.bbits = s.bbits
    BY <1>2
  <2> QED BY <2>2, <2>4, <2>5, <2>6
<1>4. Shape(d0, t)
  <2> HIDE DEF w
  <2> QED BY <1>3, WriteShape DEF e
<1>5. /\ Only({"d", "out"}, s, t)
      /\ s.err # "none" => t = s
      /\ s.err = "none" => t.d = e
  <2> HIDE DEF w
  <2> QED BY <1>1, WriteOnly DEF e
<1> HIDE DEF t, w
<1>6. /\ t.err = s.err /\ t.bbits = s.bbits /\ t.ibits = s.ibits /\ t.obj = s.obj
      /\ t.list = s.list /\ t.slot = s.slot /\ t.fds = s.fds /\ t.dirs = s.dirs
  BY <1>5 DEF Only, Fields
<1>7. Good(d0, t)
  BY <1>3, <1>4, <1>5, <1>6 DEF Good, MemTyped
<1>8. t.d.ibits = s.d.ibits
  BY <1>2, <1>5
<1>9. /\ t.err = "none" /\ b \in Blocks => Exact(t)
      /\ t.err = "none" /\ Exact(s) => Exact(t)
  BY <1>3, <1>5, <1>6 DEF Exact
<1> QED BY <1>0, <1>5, <1>7, <1>8, <1>9

\* bitmap_sync of the inode bitmap, where the two differ at most at that bit.
LEMMA SyncInodes ==
  ASSUME NEW d0, NEW s, NEW b, Good(d0, s),
         s.err = "none" => b \in Inodes /\ s.d.ibits \ {b} = s.ibits \ {b}
  PROVE  LET t == bitmap_sync(s, b, "INODE")
         IN  /\ Good(d0, t) /\ Only({"d", "out"}, s, t)
             /\ t.err = "none" => t.d.ibits = t.ibits
             /\ t.err = "none" /\ Exact(s) => Exact(t)
<1> DEFINE w == Write("ibits", b, s.ibits)
           t == ide_write(s, w)
           d == s.d
           e == Apply(d, w)
           sec == SectorOf(b)
<1>0. bitmap_sync(s, b, "INODE") = t
  BY DEF bitmap_sync
<1>1. DOMAIN s = Fields /\ DiskOK(d) /\ Shape(d0, s)
  BY DEF Good, Shape
<1>2. /\ e.ibits = (d.ibits \ sec) \cup (s.ibits \cap sec)
      /\ e.bbits = d.bbits /\ e.inode = d.inode /\ e.block = d.block /\ DOMAIN e = DOMAIN d
  <2> HIDE DEF sec
  <2>1. e = [d EXCEPT !.ibits = (@ \ sec) \cup (s.ibits \cap sec)]
    BY DEF Apply, sec
  <2> QED BY <1>1, <2>1 DEF DiskOK
<1> HIDE DEF e, sec
<1>3. ASSUME s.err = "none"
      PROVE  DiskOK(e) /\ e.ibits = s.ibits
  <2>1. s.ibits \subseteq Inodes /\ d.ibits \subseteq Inodes /\ d.ibits \ {b} = s.ibits \ {b}
    BY <1>1, <1>3 DEF MemTyped, DiskOK, Good
  <2>2. DiskOK(e)
    BY <1>1, <1>2, <2>1 DEF DiskOK
  <2>3. b \in sec
    BY <1>3, SectorFacts DEF sec
  <2>4. e.ibits = s.ibits
    BY <1>2, <2>1, <2>3
  <2> QED BY <2>2, <2>4
<1>4. Shape(d0, t)
  <2> HIDE DEF w
  <2> QED BY <1>1, <1>3, WriteShape DEF e
<1>5. /\ Only({"d", "out"}, s, t)
      /\ s.err # "none" => t = s
      /\ s.err = "none" => t.d = e
  <2> HIDE DEF w
  <2> QED BY <1>1, WriteOnly DEF e
<1> HIDE DEF t, w
<1>6. /\ t.err = s.err /\ t.bbits = s.bbits /\ t.ibits = s.ibits /\ t.obj = s.obj
      /\ t.list = s.list /\ t.slot = s.slot /\ t.fds = s.fds /\ t.dirs = s.dirs
  BY <1>5 DEF Only, Fields
<1>7. t.err = "none" => t.d.ibits = t.ibits /\ t.d.bbits = s.d.bbits
  BY <1>2, <1>3, <1>5, <1>6
<1>8. Good(d0, t)
  BY <1>4, <1>6, <1>7 DEF Good, MemTyped
<1>9. t.err = "none" /\ Exact(s) => Exact(t)
  BY <1>6, <1>7 DEF Exact
<1> QED BY <1>0, <1>5, <1>7, <1>8, <1>9

\* block_bitmap_alloc gives a block that was free.
LEMMA AllocBlock ==
  ASSUME NEW d0, NEW s, Good(d0, s)
  PROVE  LET t == block_bitmap_alloc(s)
         IN  /\ Good(d0, t)
             /\ Only({"bbits", "r", "err"}, s, t)
             /\ t.err = "none" => s.err = "none" /\ t.r \in Blocks
<1> DEFINE free == Blocks \ s.bbits
           t == block_bitmap_alloc(s)
<1>1. DOMAIN s = Fields /\ Shape(d0, s)
  BY DEF Good, Shape
<1>2. CASE free = {} \/ s.err # "none"
  <2>1. t = [s EXCEPT !.err = "bitmap_scan"]
    BY <1>2 DEF block_bitmap_alloc
  <2>2. t.err = "bitmap_scan" /\ Only({"bbits", "r", "err"}, s, t) /\ t.d = s.d /\ t.out = s.out
    BY <1>1, <2>1 DEF Only, Fields
  <2> QED BY <1>1, <2>2 DEF Good, Shape, Only
<1>3. CASE ~(free = {} \/ s.err # "none")
  <2> DEFINE m == Min(free)
  <2>1. m \in free
    <3>1. free \in SUBSET Nat /\ free # {}
      BY <1>3, Numbers
    <3> HIDE DEF free
    <3> QED BY <3>1, MinIn
  <2>2. t = [s EXCEPT !.bbits = @ \cup {m}, !.r = m]
    BY <1>3 DEF block_bitmap_alloc
  <2> HIDE DEF m, t
  <2>3. /\ t.r = m /\ t.bbits = s.bbits \cup {m} /\ Only({"bbits", "r", "err"}, s, t) /\ t.err = s.err
        /\ t.d = s.d /\ t.out = s.out /\ t.ibits = s.ibits /\ t.obj = s.obj
        /\ t.list = s.list /\ t.slot = s.slot /\ t.fds = s.fds /\ t.dirs = s.dirs
    BY <1>1, <2>2 DEF Only, Fields
  <2>4. Good(d0, t)
    BY <1>1, <2>1, <2>3 DEF Good, Shape, MemTyped, Only
  <2> QED BY <1>3, <2>1, <2>3, <2>4 DEF t
<1> QED BY <1>2, <1>3

\* A new block: allocated, and marked on the disk.
LEMMA NewBlockOK ==
  ASSUME NEW d0, NEW s, Good(d0, s)
  PROVE  LET t == NewBlock(s)
         IN  /\ Good(d0, t) /\ Same(s, t)
             /\ Only({"d", "out", "bbits", "r", "err"}, s, t)
             /\ t.err = "none" => t.r \in Blocks /\ Exact(t)
<1> DEFINE x == block_bitmap_alloc(s)
           t == bitmap_sync(x, x.r, "BLOCK")
<1>1. NewBlock(s) = t
  BY DEF NewBlock
<1>2. /\ Good(d0, x) /\ Only({"bbits", "r", "err"}, s, x)
      /\ x.err = "none" => s.err = "none" /\ x.r \in Blocks
  BY AllocBlock
<1> HIDE DEF x
<1>3. Shape(d0, x) /\ (x.err = "none" => MemTyped(x) /\ x.d.bbits \subseteq x.bbits \cup {x.r})
  BY <1>2 DEF Good
<1>4. /\ Good(d0, t) /\ Only({"d", "out"}, x, t) /\ t.d.ibits = x.d.ibits
      /\ t.err = "none" /\ x.r \in Blocks => Exact(t)
  BY <1>3, SyncBlocks
<1> HIDE DEF t
<1>5. Only({"d", "out", "bbits", "r", "err"}, s, t)
  BY <1>2, <1>4 DEF Only, Fields
<1>6. /\ t.err = x.err /\ t.r = x.r /\ t.ibits = s.ibits /\ t.obj = s.obj /\ x.d = s.d
      /\ t.list = s.list /\ t.slot = s.slot /\ t.fds = s.fds /\ t.dirs = s.dirs
  BY <1>2, <1>4 DEF Only, Fields
<1>7. Same(s, t)
  BY <1>2, <1>4, <1>6 DEF Same, SameBits, SameRefs
<1> QED BY <1>1, <1>2, <1>4, <1>5, <1>6, <1>7

\* A block is freed and its bit cleared on the disk.
LEMMA FreeBlockOK ==
  ASSUME NEW d0, NEW s, NEW b, Good(d0, s)
  PROVE  LET t == FreeBlock(s, b)
         IN  Good(d0, t) /\ Same(s, t) /\ Only({"d", "out", "bbits"}, s, t)
<1> DEFINE x == [s EXCEPT !.bbits = @ \ {b}]
           t == FreeBlock(s, b)
<1>1. DOMAIN s = Fields /\ Shape(d0, s)
  BY DEF Good, Shape
<1>2. CASE b = 0
  <2>1. t = s
    BY <1>2 DEF FreeBlock
  <2> QED BY <1>1, <2>1 DEF Only, Same, SameBits, SameRefs
<1>3. CASE b # 0
  <2>1. t = bitmap_sync(x, b, "BLOCK")
    BY <1>3 DEF FreeBlock
  <2>2. /\ Only({"bbits"}, s, x) /\ x.bbits = s.bbits \ {b}
        /\ x.d = s.d /\ x.out = s.out /\ x.ibits = s.ibits /\ x.obj = s.obj /\ x.err = s.err
        /\ x.list = s.list /\ x.slot = s.slot /\ x.fds = s.fds /\ x.dirs = s.dirs
    BY <1>1 DEF Only, Fields
  <2> HIDE DEF x, t
  <2>3. Shape(d0, x) /\ (x.err = "none" => MemTyped(x) /\ x.d.bbits \subseteq x.bbits \cup {b})
    BY <2>2 DEF Good, Shape, MemTyped, Only
  <2>4. /\ Good(d0, t) /\ Only({"d", "out"}, x, t) /\ t.d.ibits = x.d.ibits
        /\ t.err = "none" /\ b \in Blocks => Exact(t)
        /\ t.err = "none" /\ Exact(x) => Exact(t)
    BY <2>1, <2>3, SyncBlocks
  <2>5. Only({"d", "out", "bbits"}, s, t)
    BY <2>2, <2>4 DEF Only, Fields
  <2>6. /\ t.err = s.err /\ t.ibits = s.ibits /\ t.obj = s.obj
        /\ t.list = s.list /\ t.slot = s.slot /\ t.fds = s.fds /\ t.dirs = s.dirs
    BY <2>2, <2>4 DEF Only, Fields
  <2>7. ASSUME t.err = "none", Exact(s) PROVE Exact(t)
    <3>1. CASE b \in Blocks
      BY <2>4, <2>7, <3>1
    <3>2. CASE b \notin Blocks
      <4>1. s.bbits \subseteq Blocks
        BY <2>6, <2>7 DEF Good, MemTyped
      <4>2. x.bbits = s.bbits
        BY <2>2, <3>2, <4>1
      <4>3. Exact(x)
        BY <2>2, <2>7, <4>2 DEF Exact
      <4> QED BY <2>4, <2>7, <4>3
    <3> QED BY <3>1, <3>2
  <2>8. Same(s, t)
    BY <2>2, <2>4, <2>6, <2>7 DEF Same, SameBits, SameRefs
  <2> QED BY <2>4, <2>5, <2>8 DEF t
<1> QED BY <1>2, <1>3

\* inode_bitmap_alloc gives a number that was free, in memory only.
LEMMA AllocInode ==
  ASSUME NEW d0, NEW s, Good(d0, s)
  PROVE  LET t == inode_bitmap_alloc(s)
         IN  /\ Good(d0, t)
             /\ Only({"ibits", "r", "err"}, s, t)
             /\ t.err = "none" => /\ s.err = "none" /\ t.r \in Inodes /\ t.r \notin s.ibits
                                  /\ t.ibits = s.ibits \cup {t.r}
<1> DEFINE free == Inodes \ s.ibits
           t == inode_bitmap_alloc(s)
<1>1. DOMAIN s = Fields /\ Shape(d0, s)
  BY DEF Good, Shape
<1>2. CASE free = {}
  <2>1. t = [s EXCEPT !.err = "bitmap_scan"]
    BY <1>2 DEF inode_bitmap_alloc
  <2>2. t.err = "bitmap_scan" /\ Only({"ibits", "r", "err"}, s, t) /\ t.d = s.d /\ t.out = s.out
    BY <1>1, <2>1 DEF Only, Fields
  <2> QED BY <1>1, <2>2 DEF Good, Shape, Only
<1>3. CASE free # {}
  <2> DEFINE m == Min(free)
  <2>1. m \in free
    <3>1. free \in SUBSET Nat
      BY Numbers
    <3> HIDE DEF free
    <3> QED BY <1>3, <3>1, MinIn
  <2>2. t = [s EXCEPT !.ibits = @ \cup {m}, !.r = m]
    BY <1>3 DEF inode_bitmap_alloc
  <2> HIDE DEF m, t
  <2>3. /\ t.r = m /\ t.ibits = s.ibits \cup {m} /\ Only({"ibits", "r", "err"}, s, t) /\ t.err = s.err
        /\ t.d = s.d /\ t.out = s.out /\ t.bbits = s.bbits /\ t.obj = s.obj
        /\ t.list = s.list /\ t.slot = s.slot /\ t.fds = s.fds /\ t.dirs = s.dirs
    BY <1>1, <2>2 DEF Only, Fields
  <2>4. Good(d0, t)
    BY <1>1, <2>1, <2>3 DEF Good, Shape, MemTyped, Only
  <2> QED BY <2>1, <2>3, <2>4 DEF t
<1> QED BY <1>2, <1>3

-----------------------------------------------------------------------------
(* Steps that touch little *)

\* An ASSERT fails.
LEMMA Failed ==
  ASSUME NEW d0, NEW s, NEW t, Good(d0, s), DOMAIN t = Fields, t.d = s.d, t.out = s.out,
         t.err # "none"
  PROVE  Good(d0, t) /\ Same(s, t)
BY DEF Good, Shape, Same, SameBits, SameRefs

\* A step that changes nothing but local variables.
LEMMA Touched ==
  ASSUME NEW d0, NEW s, NEW t, Good(d0, s), Only({"r", "all"}, s, t)
  PROVE  Good(d0, t) /\ Same(s, t)
<1>1. /\ t.err = s.err /\ t.bbits = s.bbits /\ t.ibits = s.ibits /\ t.obj = s.obj
      /\ t.list = s.list /\ t.slot = s.slot /\ t.fds = s.fds /\ t.dirs = s.dirs
      /\ t.d = s.d /\ t.out = s.out /\ DOMAIN t = Fields
  BY DEF Only, Fields
<1> QED BY <1>1 DEF Good, Shape, MemTyped, Same, SameBits, SameRefs, Exact

\* A step that changes an inode object, but not its count, and local variables.
LEMMA ObjChanged ==
  ASSUME NEW d0, NEW s, NEW t, NEW o, NEW i, Good(d0, s), Only({"obj", "r", "all"}, s, t),
         t.obj = [s.obj EXCEPT ![o] = i],
         s.err = "none" /\ o \in Objs => i \in OpenInodes /\ i.cnt = s.obj[o].cnt
  PROVE  Good(d0, t) /\ Same(s, t)
<1>1. /\ t.err = s.err /\ t.bbits = s.bbits /\ t.ibits = s.ibits
      /\ t.list = s.list /\ t.slot = s.slot /\ t.fds = s.fds /\ t.dirs = s.dirs
      /\ t.d = s.d /\ t.out = s.out /\ DOMAIN t = Fields
  BY DEF Only, Fields
<1>2. ASSUME s.err = "none"
      PROVE  t.obj \in [Objs -> OpenInodes] /\ \A p \in Objs : t.obj[p].cnt = s.obj[p].cnt
  <2>1. s.obj \in [Objs -> OpenInodes]
    BY <1>2 DEF Good, MemTyped
  <2> QED BY <1>2, <2>1
<1>3. Good(d0, t)
  BY <1>1, <1>2 DEF Good, Shape, MemTyped
<1> QED BY <1>1, <1>2, <1>3 DEF Same, SameBits, SameRefs, Exact

\* Steps that keep things, one after the other.
LEMMA SameTrans ==
  ASSUME NEW s, NEW t, NEW u, Same(s, t), Same(t, u)
  PROVE  Same(s, u)
BY DEF Same, SameBits, SameRefs

\* The same for the bits alone.
LEMMA BitsTrans ==
  ASSUME NEW s, NEW t, NEW u, SameBits(s, t), SameBits(t, u)
  PROVE  SameBits(s, u)
BY DEF SameBits

\* Fields that two steps do not touch.
LEMMA OnlyTrans ==
  ASSUME NEW J, NEW K, NEW s, NEW t, NEW u, Only(J, s, t), Only(K, t, u)
  PROVE  Only(J \cup K, s, u)
BY DEF Only

\* An inode object is well formed as a record of the disk.
LEMMA PureInode ==
  ASSUME NEW i \in OpenInodes
  PROVE  [no |-> i.no, size |-> i.size, sect |-> i.sect] \in DiskInodes
BY DEF OpenInodes, DiskInodes

\* inode_sync of a well-formed inode.
LEMMA SyncInodeOK ==
  ASSUME NEW d0, NEW s, NEW i, Good(d0, s),
         s.err = "none" => [no |-> i.no, size |-> i.size, sect |-> i.sect] \in DiskInodes
  PROVE  LET t == inode_sync(s, i)
         IN  Good(d0, t) /\ Same(s, t) /\ Only({"d", "out"}, s, t)
<1> DEFINE pure == [no |-> i.no, size |-> i.size, sect |-> i.sect]
           at == i.no % UINT8
<1>1. inode_sync(s, i) = ide_write(s, Write("inode", at, pure))
  BY DEF inode_sync
<1>2. s.err = "none" => pure \in DiskInodes
  OBVIOUS
<1> HIDE DEF pure, at
<1> QED BY <1>1, <1>2, WriteInode

\* inode_sync of an inode object.
LEMMA SyncOpenOK ==
  ASSUME NEW d0, NEW s, NEW o, Good(d0, s), s.err = "none" => o \in Objs
  PROVE  LET t == SyncOpen(s, o)
         IN  Good(d0, t) /\ Same(s, t) /\ Only({"d", "out"}, s, t)
<1> DEFINE i == s.obj[o]
<1>1. s.err = "none" => i \in OpenInodes
  BY DEF Good, MemTyped
<1>2. SyncOpen(s, o) = inode_sync(s, i)
  BY DEF SyncOpen
<1> HIDE DEF i
<1>3. s.err = "none" => [no |-> i.no, size |-> i.size, sect |-> i.sect] \in DiskInodes
  BY <1>1, PureInode
<1> QED BY <1>2, <1>3, SyncInodeOK

-----------------------------------------------------------------------------
(* References to inode objects *)

\* How many slots of file_table and open directories point at o.
UsersOf(slot, dirs, o) ==
    Cardinality({f \in Slots : slot[f].obj = o}) + Cardinality({h \in Dirs : dirs[h].obj = o})

\* open_inodes is what is in use, and the counts cover the users and the
\* references L that the call holds in local variables.
Refs(m, L) ==
    /\ Distinct(m.list)
    /\ \A o \in Objs : elem_find(m.list, o) <=> m.obj[o].cnt > 0
    /\ \A o \in Objs : m.obj[o].cnt >= UsersOf(m.slot, m.dirs, o) + L[o]

\* The state of a call between its steps.
Fine(d0, s, L) ==
    /\ Good(d0, s)
    /\ s.err = "none" => s.ibits = s.d.ibits /\ Exact(s) /\ Refs(s, L)

Local == [Objs -> Nat]
Zero == [o \in Objs |-> 0]
One(o) == [p \in Objs |-> IF p = o THEN 1 ELSE 0]
Plus(L, o) == [L EXCEPT ![o] = @ + 1]
Minus(L, o) == [L EXCEPT ![o] = @ - 1]

\* Counting up and down.
LEMMA LocalFacts ==
  /\ Zero \in Local
  /\ \A o \in Objs : One(o) \in Local /\ Plus(Zero, o) = One(o) /\ Minus(One(o), o) = Zero
  /\ \A L \in Local, o \in Objs : Plus(L, o) \in Local /\ Plus(L, o)[o] >= 1 /\ Minus(Plus(L, o), o) = L
  /\ \A L \in Local, o \in Objs : L[o] >= 1 => Minus(L, o) \in Local
<1>1. Zero \in Local
  BY DEF Zero, Local
<1>2. \A o \in Objs : One(o) \in Local
  BY DEF One, Local
<1>3. \A o \in Objs : Plus(Zero, o) = One(o)
  BY DEF One, Zero, Plus
<1>4. ASSUME NEW o \in Objs PROVE Minus(One(o), o) = Zero
  <2>1. \A p \in Objs : Minus(One(o), o)[p] = 0
    BY DEF One, Minus
  <2>2. Minus(One(o), o) = [p \in Objs |-> Minus(One(o), o)[p]]
    BY DEF One, Minus
  <2> QED BY <2>1, <2>2 DEF Zero
<1>5. ASSUME NEW L \in Local, NEW o \in Objs
      PROVE  Plus(L, o) \in Local /\ Plus(L, o)[o] >= 1
  BY DEF Plus, Local
<1>6. ASSUME NEW L \in Local, NEW o \in Objs
      PROVE  Minus(Plus(L, o), o) = L
  <2>1. \A p \in Objs : L[p] \in Nat
    BY DEF Local
  <2>2. Plus(L, o) = [p \in Objs |-> IF p = o THEN L[o] + 1 ELSE L[p]]
    BY DEF Plus, Local
  <2>3. \A p \in Objs : Minus(Plus(L, o), o)[p] = L[p]
    BY <2>1, <2>2 DEF Minus
  <2> QED BY <2>2, <2>3 DEF Local, Minus
<1>7. ASSUME NEW L \in Local, NEW o \in Objs, L[o] >= 1
      PROVE  Minus(L, o) \in Local
  BY <1>7 DEF Minus, Local
<1> QED BY <1>1, <1>2, <1>3, <1>4, <1>5, <1>6, <1>7

\* The tables are finite.
LEMMA TablesFinite ==
  IsFiniteSet(Slots) /\ IsFiniteSet(Dirs)
<1>1. IsFiniteSet(1..MAX_FILE_OPEN)
  BY Sizes, FS_Interval
<1>2. IsFiniteSet(0..MaxDirs)
  BY Sizes, FS_Interval
<1> QED BY <1>1, <1>2 DEF Slots, Dirs

\* A number of users is a number.
LEMMA UsersNat ==
  ASSUME NEW slot, NEW dirs, NEW o
  PROVE  UsersOf(slot, dirs, o) \in Nat
<1> DEFINE F == {f \in Slots : slot[f].obj = o}
           H == {h \in Dirs : dirs[h].obj = o}
<1>1. IsFiniteSet(Slots) /\ IsFiniteSet(Dirs)
  BY TablesFinite
<1>2. F \in SUBSET Slots /\ H \in SUBSET Dirs
  OBVIOUS
<1> HIDE DEF F, H
<1>3. IsFiniteSet(F) /\ IsFiniteSet(H)
  BY <1>1, <1>2, FS_Subset
<1>4. Cardinality(F) \in Nat /\ Cardinality(H) \in Nat
  BY <1>3, FS_CardinalityType
<1> QED BY <1>4 DEF UsersOf, F, H

\* Where the pointers are the same, so are the numbers of users.
LEMMA UsersSame ==
  ASSUME NEW slot, NEW dirs, NEW slot2, NEW dirs2, NEW o,
         \A f \in Slots : slot2[f].obj = slot[f].obj, \A h \in Dirs : dirs2[h].obj = dirs[h].obj
  PROVE  UsersOf(slot2, dirs2, o) = UsersOf(slot, dirs, o)
<1>1. {f \in Slots : slot2[f].obj = o} = {f \in Slots : slot[f].obj = o}
  OBVIOUS
<1>2. {h \in Dirs : dirs2[h].obj = o} = {h \in Dirs : dirs[h].obj = o}
  OBVIOUS
<1> QED BY <1>1, <1>2 DEF UsersOf

\* One element less, one element more.
LEMMA OneLess ==
  ASSUME NEW A, IsFiniteSet(A), NEW B, NEW x \in A, B = A \ {x}
  PROVE  Cardinality(B) = Cardinality(A) - 1
<1>1. Cardinality(A \ {x}) = IF x \in A THEN Cardinality(A) - 1 ELSE Cardinality(A)
  BY FS_RemoveElement, Zenon
<1> QED BY <1>1

LEMMA OneMore ==
  ASSUME NEW A, IsFiniteSet(A), NEW B, NEW x, x \notin A, B = A \cup {x}
  PROVE  Cardinality(B) = Cardinality(A) + 1
<1>1. Cardinality(A \cup {x}) = IF x \in A THEN Cardinality(A) ELSE Cardinality(A) + 1
  BY FS_AddElement, Zenon
<1> QED BY <1>1

\* A slot of file_table is pointed elsewhere.
LEMMA SlotPointed ==
  ASSUME NEW slot, NEW dirs, NEW slot2, NEW f \in Slots, NEW p, NEW q, p # q,
         slot[f].obj = p, slot2[f].obj = q, \A g \in Slots \ {f} : slot2[g].obj = slot[g].obj
  PROVE  /\ UsersOf(slot2, dirs, p) = UsersOf(slot, dirs, p) - 1
         /\ UsersOf(slot2, dirs, q) = UsersOf(slot, dirs, q) + 1
         /\ \A o : o # p /\ o # q => UsersOf(slot2, dirs, o) = UsersOf(slot, dirs, o)
<1> DEFINE F(o) == {g \in Slots : slot[g].obj = o}
           G(o) == {g \in Slots : slot2[g].obj = o}
           H(o) == {h \in Dirs : dirs[h].obj = o}
<1>1. /\ G(p) = F(p) \ {f} /\ f \in F(p)
      /\ G(q) = F(q) \cup {f} /\ f \notin F(q)
      /\ \A o : o # p /\ o # q => G(o) = F(o)
  OBVIOUS
<1>2. IsFiniteSet(Slots) /\ IsFiniteSet(Dirs)
  BY TablesFinite
<1>3. \A o : F(o) \in SUBSET Slots /\ H(o) \in SUBSET Dirs
  OBVIOUS
<1>4. \A o : UsersOf(slot, dirs, o) = Cardinality(F(o)) + Cardinality(H(o))
  BY DEF UsersOf
<1>5. \A o : UsersOf(slot2, dirs, o) = Cardinality(G(o)) + Cardinality(H(o))
  BY DEF UsersOf
<1> HIDE DEF F, G, H
<1>6. \A o : IsFiniteSet(F(o)) /\ IsFiniteSet(H(o))
  BY <1>2, <1>3, FS_Subset
<1>7. \A o : Cardinality(F(o)) \in Nat /\ Cardinality(H(o)) \in Nat
  BY <1>6, FS_CardinalityType
<1>8. Cardinality(G(p)) = Cardinality(F(p)) - 1
  BY <1>1, <1>6, OneLess, Zenon
<1>9. Cardinality(G(q)) = Cardinality(F(q)) + 1
  BY <1>1, <1>6, OneMore, Zenon
<1>10. UsersOf(slot2, dirs, p) = UsersOf(slot, dirs, p) - 1
  BY <1>4, <1>5, <1>7, <1>8
<1>11. UsersOf(slot2, dirs, q) = UsersOf(slot, dirs, q) + 1
  BY <1>4, <1>5, <1>7, <1>9
<1>12. \A o : o # p /\ o # q => UsersOf(slot2, dirs, o) = UsersOf(slot, dirs, o)
  BY <1>1, <1>4, <1>5
<1> QED BY <1>10, <1>11, <1>12

\* A struct dir is pointed elsewhere.
LEMMA DirPointed ==
  ASSUME NEW slot, NEW dirs, NEW dirs2, NEW k \in Dirs, NEW p, NEW q, p # q,
         dirs[k].obj = p, dirs2[k].obj = q, \A g \in Dirs \ {k} : dirs2[g].obj = dirs[g].obj
  PROVE  /\ UsersOf(slot, dirs2, p) = UsersOf(slot, dirs, p) - 1
         /\ UsersOf(slot, dirs2, q) = UsersOf(slot, dirs, q) + 1
         /\ \A o : o # p /\ o # q => UsersOf(slot, dirs2, o) = UsersOf(slot, dirs, o)
<1> DEFINE F(o) == {g \in Dirs : dirs[g].obj = o}
           G(o) == {g \in Dirs : dirs2[g].obj = o}
           H(o) == {h \in Slots : slot[h].obj = o}
<1>1. /\ G(p) = F(p) \ {k} /\ k \in F(p)
      /\ G(q) = F(q) \cup {k} /\ k \notin F(q)
      /\ \A o : o # p /\ o # q => G(o) = F(o)
  OBVIOUS
<1>2. IsFiniteSet(Slots) /\ IsFiniteSet(Dirs)
  BY TablesFinite
<1>3. \A o : F(o) \in SUBSET Dirs /\ H(o) \in SUBSET Slots
  OBVIOUS
<1>4. \A o : UsersOf(slot, dirs, o) = Cardinality(H(o)) + Cardinality(F(o))
  BY DEF UsersOf
<1>5. \A o : UsersOf(slot, dirs2, o) = Cardinality(H(o)) + Cardinality(G(o))
  BY DEF UsersOf
<1> HIDE DEF F, G, H
<1>6. \A o : IsFiniteSet(F(o)) /\ IsFiniteSet(H(o))
  BY <1>2, <1>3, FS_Subset
<1>7. \A o : Cardinality(F(o)) \in Nat /\ Cardinality(H(o)) \in Nat
  BY <1>6, FS_CardinalityType
<1>8. Cardinality(G(p)) = Cardinality(F(p)) - 1
  BY <1>1, <1>6, OneLess, Zenon
<1>9. Cardinality(G(q)) = Cardinality(F(q)) + 1
  BY <1>1, <1>6, OneMore, Zenon
<1>10. UsersOf(slot, dirs2, p) = UsersOf(slot, dirs, p) - 1
  BY <1>4, <1>5, <1>7, <1>8
<1>11. UsersOf(slot, dirs2, q) = UsersOf(slot, dirs, q) + 1
  BY <1>4, <1>5, <1>7, <1>9
<1>12. \A o : o # p /\ o # q => UsersOf(slot, dirs2, o) = UsersOf(slot, dirs, o)
  BY <1>1, <1>4, <1>5
<1> QED BY <1>10, <1>11, <1>12

\* A step that keeps bits and references keeps the state of the call.
LEMMA SameFine ==
  ASSUME NEW d0, NEW s, NEW t, NEW L, Fine(d0, s, L), Good(d0, t), Same(s, t)
  PROVE  Fine(d0, t, L)
BY DEF Fine, Same, SameBits, SameRefs, Refs

\* A reference that the call forgets to give back does no harm.
LEMMA RefsLeaked ==
  ASSUME NEW d0, NEW s, NEW L \in Local, Fine(d0, s, L)
  PROVE  Fine(d0, s, Zero)
<1>1. \A o \in Objs : UsersOf(s.slot, s.dirs, o) \in Nat /\ L[o] \in Nat /\ Zero[o] = 0
  BY UsersNat DEF Local, Zero
<1>2. ASSUME s.err = "none", NEW o \in Objs
      PROVE  s.obj[o].cnt >= UsersOf(s.slot, s.dirs, o) + Zero[o]
  <2>1. s.obj[o].cnt >= UsersOf(s.slot, s.dirs, o) + L[o] /\ s.obj[o].cnt \in Nat
    BY <1>2 DEF Fine, Good, MemTyped, OpenInodes, Refs
  <2> QED BY <1>1, <2>1
<1> QED BY <1>2 DEF Fine, Refs

\* inode_open finds the object in open_inodes or takes a new one, and the caller
\* has one reference more.
LEMMA OpenOK ==
  ASSUME NEW d0, NEW s, NEW no, NEW L \in Local, Fine(d0, s, L)
  PROVE  LET t == inode_open(s, no)
         IN  /\ Fine(d0, t, Plus(L, t.r)) /\ SameBits(s, t)
             /\ Only({"obj", "list", "r", "err"}, s, t)
             /\ t.err = "none" => s.err = "none" /\ t.r \in Objs
<1> DEFINE I == {i \in 1..Len(s.list) : s.obj[s.list[i]].no = no}
           at == IF I # {} THEN Min(I) ELSE 0
           free == FreeObjs(s)
           new == Min(free)
           i == s.d.inode[no]
           read == [no |-> i.no, size |-> i.size, sect |-> i.sect, cnt |-> 1, deny |-> FALSE]
           hit == s.list[at]
           t == inode_open(s, no)
<1>1. at = SelectInSeq(s.list, LAMBDA o : s.obj[o].no = no)
  BY DEF SelectInSeq
<1>2. \/ at # 0 /\ t = [s EXCEPT !.obj[hit].cnt = @ + 1, !.r = hit]
      \/ at = 0 /\ no \notin Inodes /\ t = [s EXCEPT !.err = "inode_no"]
      \/ at = 0 /\ no \in Inodes /\ free = {} /\ t = [s EXCEPT !.err = "kmalloc"]
      \/ /\ at = 0 /\ no \in Inodes /\ free # {}
         /\ t = [s EXCEPT !.obj[new] = read, !.list = list_push(@, new), !.r = new]
  <2> HIDE DEF at
  <2> QED BY <1>1 DEF inode_open
<1>3. DOMAIN s = Fields /\ Good(d0, s)
  BY DEF Fine, Good, Shape
<1> HIDE DEF t, at, free, new, read, hit
<1>4. Only({"obj", "list", "r", "err"}, s, t) /\ (t.err = "none" => s.err = "none")
  BY <1>2, <1>3 DEF Only, Fields
<1>5. /\ t.bbits = s.bbits /\ t.ibits = s.ibits /\ t.slot = s.slot /\ t.fds = s.fds
      /\ t.dirs = s.dirs /\ t.d = s.d /\ t.out = s.out /\ DOMAIN t = Fields
  BY <1>4 DEF Only, Fields
<1>6. SameBits(s, t)
  BY <1>4, <1>5 DEF SameBits, Exact
<1>7. CASE t.err # "none"
  <2>1. Good(d0, t)
    BY <1>3, <1>5, <1>7, Failed
  <2>2. Fine(d0, t, Plus(L, t.r))
    BY <1>7, <2>1 DEF Fine
  <2> QED BY <1>4, <1>6, <1>7, <2>2 DEF t
<1>8. CASE t.err = "none"
  <2>1. /\ s.err = "none" /\ s.obj \in [Objs -> OpenInodes] /\ s.list \in Seq(Objs)
        /\ s.ibits = s.d.ibits /\ Exact(s) /\ Distinct(s.list)
    BY <1>4, <1>8 DEF Fine, Good, MemTyped, Refs
  <2>2. \A o \in Objs : elem_find(s.list, o) <=> s.obj[o].cnt > 0
    BY <2>1 DEF Fine, Refs
  <2>3. \A o \in Objs : /\ s.obj[o].cnt >= UsersOf(s.slot, s.dirs, o) + L[o]
                        /\ s.obj[o].cnt \in Nat /\ L[o] \in Nat /\ UsersOf(s.slot, s.dirs, o) \in Nat
    BY <2>1, UsersNat DEF Fine, Refs, OpenInodes, Local
  <2>4. /\ t.r \in Objs /\ t.list \in Seq(Objs) /\ t.obj \in [Objs -> OpenInodes]
        /\ Distinct(t.list)
        /\ \A o \in Objs : elem_find(t.list, o) <=> elem_find(s.list, o) \/ o = t.r
        /\ \A o \in Objs : t.obj[o].cnt = IF o = t.r THEN s.obj[o].cnt + 1 ELSE s.obj[o].cnt
    <3>1. CASE at # 0
      <4>1. I # {} /\ at = Min(I) /\ I \in SUBSET Nat
        BY <3>1 DEF at
      <4>2. at \in 1..Len(s.list)
        <5> HIDE DEF I
        <5>1. at \in I
          BY <4>1, MinIn
        <5> QED BY <5>1 DEF I
      <4>3. hit \in Objs /\ elem_find(s.list, hit)
        BY <2>1, <4>2 DEF hit, elem_find
      <4>4. t = [s EXCEPT !.obj[hit].cnt = @ + 1, !.r = hit]
        BY <1>2, <3>1
      <4>5. /\ t.r = hit /\ t.list = s.list
            /\ t.obj = [s.obj EXCEPT ![hit] = [s.obj[hit] EXCEPT !.cnt = @ + 1]]
        BY <1>3, <4>4 DEF Fields
      <4>6. s.obj[hit] \in OpenInodes
        BY <2>1, <4>3
      <4>7. [s.obj[hit] EXCEPT !.cnt = @ + 1] \in OpenInodes
        BY <4>6 DEF OpenInodes
      <4>8. t.obj \in [Objs -> OpenInodes]
        BY <2>1, <4>3, <4>5, <4>7
      <4>9. \A o \in Objs : t.obj[o].cnt = IF o = t.r THEN s.obj[o].cnt + 1 ELSE s.obj[o].cnt
        BY <2>1, <4>3, <4>5, <4>6 DEF OpenInodes
      <4> QED BY <2>1, <4>3, <4>5, <4>8, <4>9
    <3>2. CASE at = 0
      <4>1. /\ no \in Inodes /\ free # {}
            /\ t = [s EXCEPT !.obj[new] = read, !.list = list_push(@, new), !.r = new]
        BY <1>2, <1>3, <1>8, <3>2 DEF Fields
      <4>2. new \in Objs /\ s.obj[new].cnt = 0
        <5>1. free \in SUBSET Nat
          BY Numbers DEF free, FreeObjs
        <5>2. new \in free
          BY <4>1, <5>1, MinIn DEF new
        <5> QED BY <5>2 DEF free, FreeObjs
      <4>3. t.r = new /\ t.list = list_push(s.list, new) /\ t.obj = [s.obj EXCEPT ![new] = read]
        BY <1>3, <4>1 DEF Fields
      <4>4. i \in DiskInodes
        BY <1>3, <4>1 DEF Good, Shape, DiskOK
      <4>5. read \in OpenInodes /\ read.cnt = 1
        BY <4>4 DEF read, OpenInodes, DiskInodes
      <4>6. ~elem_find(s.list, new)
        BY <2>2, <4>2
      <4>7. /\ t.list \in Seq(Objs) /\ Distinct(t.list)
            /\ \A o \in Objs : elem_find(t.list, o) <=> elem_find(s.list, o) \/ o = t.r
        BY <2>1, <4>2, <4>3, <4>6, PushFacts, SMTT(20)
      <4>8. t.obj \in [Objs -> OpenInodes]
        BY <2>1, <4>2, <4>3, <4>5
      <4>9. \A o \in Objs : t.obj[o].cnt = IF o = t.r THEN s.obj[o].cnt + 1 ELSE s.obj[o].cnt
        BY <2>1, <4>2, <4>3, <4>5
      <4> QED BY <4>2, <4>3, <4>7, <4>8, <4>9
    <3> QED BY <3>1, <3>2
  <2>5. Good(d0, t)
    BY <1>3, <1>5, <2>1, <2>4 DEF Good, Shape, MemTyped
  <2>6. ASSUME NEW o \in Objs
        PROVE  /\ elem_find(t.list, o) <=> t.obj[o].cnt > 0
               /\ t.obj[o].cnt >= UsersOf(t.slot, t.dirs, o) + Plus(L, t.r)[o]
    <3>1. UsersOf(t.slot, t.dirs, o) = UsersOf(s.slot, s.dirs, o)
      BY <1>5
    <3>2. Plus(L, t.r)[o] = IF o = t.r THEN L[o] + 1 ELSE L[o]
      BY <2>4 DEF Plus, Local
    <3>3. elem_find(t.list, o) <=> t.obj[o].cnt > 0
      <4>1. elem_find(t.list, o) <=> elem_find(s.list, o) \/ o = t.r
        BY <2>4
      <4>2. elem_find(s.list, o) <=> s.obj[o].cnt > 0
        BY <2>2
      <4>3. t.obj[o].cnt = (IF o = t.r THEN s.obj[o].cnt + 1 ELSE s.obj[o].cnt) /\ s.obj[o].cnt \in Nat
        BY <2>3, <2>4
      <4> QED BY <4>1, <4>2, <4>3
    <3>4. t.obj[o].cnt = (IF o = t.r THEN s.obj[o].cnt + 1 ELSE s.obj[o].cnt)
      BY <2>4
    <3> DEFINE u == UsersOf(s.slot, s.dirs, o)
               c == s.obj[o].cnt
    <3>5. c >= u + L[o] /\ c \in Nat /\ L[o] \in Nat /\ u \in Nat
      BY <2>3
    <3> HIDE DEF u, c
    <3>6. t.obj[o].cnt >= u + Plus(L, t.r)[o]
      BY <3>2, <3>4, <3>5 DEF c
    <3> QED BY <3>1, <3>3, <3>6 DEF u
  <2>7. Refs(t, Plus(L, t.r))
    BY <2>4, <2>6 DEF Refs
  <2>8. t.ibits = t.d.ibits /\ Exact(t)
    BY <1>5, <2>1 DEF Exact
  <2>9. Fine(d0, t, Plus(L, t.r))
    BY <2>5, <2>7, <2>8 DEF Fine
  <2> QED BY <1>4, <1>6, <2>1, <2>4, <2>9 DEF t
<1> QED BY <1>7, <1>8 DEF t

\* inode_close gives a reference back; an object is freed only if nobody else
\* points at it.
LEMMA CloseOK ==
  ASSUME NEW d0, NEW s, NEW o, NEW L \in Local, Fine(d0, s, L),
         s.err = "none" => o \in Objs /\ L[o] >= 1
  PROVE  LET t == inode_close(s, o)
         IN  /\ Fine(d0, t, Minus(L, o)) /\ SameBits(s, t) /\ t.err = s.err
             /\ Only({"obj", "list"}, s, t)
<1> DEFINE t == inode_close(s, o)
<1>1. \/ s.obj[o].cnt > 1 /\ t = [s EXCEPT !.obj[o].cnt = @ - 1]
      \/ ~(s.obj[o].cnt > 1) /\ t = [s EXCEPT !.obj[o] = NoInode, !.list = list_remove(@, o)]
  BY DEF inode_close
<1>2. DOMAIN s = Fields /\ Good(d0, s)
  BY DEF Fine, Good, Shape
<1> HIDE DEF t
<1>3. Only({"obj", "list"}, s, t)
  BY <1>1, <1>2 DEF Only, Fields
<1>4. /\ t.bbits = s.bbits /\ t.ibits = s.ibits /\ t.slot = s.slot /\ t.fds = s.fds /\ t.err = s.err
      /\ t.dirs = s.dirs /\ t.d = s.d /\ t.out = s.out /\ DOMAIN t = Fields
  BY <1>3 DEF Only, Fields
<1>5. SameBits(s, t)
  BY <1>4 DEF SameBits, Exact
<1>6. CASE s.err # "none"
  BY <1>2, <1>3, <1>4, <1>5, <1>6, Failed DEF Fine, t
<1>7. CASE s.err = "none"
  <2>1. /\ s.obj \in [Objs -> OpenInodes] /\ s.list \in Seq(Objs) /\ o \in Objs /\ L[o] >= 1
        /\ s.ibits = s.d.ibits /\ Exact(s) /\ Distinct(s.list)
    BY <1>7 DEF Fine, Good, MemTyped, Refs
  <2>2. \A p \in Objs : elem_find(s.list, p) <=> s.obj[p].cnt > 0
    BY <1>7 DEF Fine, Refs
  <2>3. \A p \in Objs : /\ s.obj[p].cnt >= UsersOf(s.slot, s.dirs, p) + L[p]
                        /\ s.obj[p].cnt \in Nat /\ L[p] \in Nat /\ UsersOf(s.slot, s.dirs, p) \in Nat
    BY <1>7, <2>1, UsersNat DEF Fine, Refs, OpenInodes, Local
  <2>4. /\ t.list \in Seq(Objs) /\ t.obj \in [Objs -> OpenInodes] /\ Distinct(t.list)
        /\ \A p \in Objs : elem_find(t.list, p) <=> t.obj[p].cnt > 0
        /\ \A p \in Objs : t.obj[p].cnt = IF p = o THEN s.obj[p].cnt - 1 ELSE s.obj[p].cnt
    <3>1. CASE s.obj[o].cnt > 1
      <4>1. t.list = s.list /\ t.obj = [s.obj EXCEPT ![o] = [s.obj[o] EXCEPT !.cnt = @ - 1]]
        BY <1>1, <1>2, <3>1 DEF Fields
      <4>2. s.obj[o] \in OpenInodes
        BY <2>1
      <4>3. [s.obj[o] EXCEPT !.cnt = @ - 1] \in OpenInodes
        BY <3>1, <4>2 DEF OpenInodes
      <4>4. t.obj \in [Objs -> OpenInodes]
        BY <2>1, <4>1, <4>3
      <4>5. \A p \in Objs : t.obj[p].cnt = IF p = o THEN s.obj[p].cnt - 1 ELSE s.obj[p].cnt
        BY <2>1, <4>1, <4>2 DEF OpenInodes
      <4> QED BY <2>1, <2>2, <2>3, <3>1, <4>1, <4>4, <4>5
    <3>2. CASE ~(s.obj[o].cnt > 1)
      <4>1. t.list = list_remove(s.list, o) /\ t.obj = [s.obj EXCEPT ![o] = NoInode]
        BY <1>1, <1>2, <3>2 DEF Fields
      <4>2. s.obj[o].cnt = 1 /\ elem_find(s.list, o)
        BY <2>1, <2>2, <2>3, <3>2
      <4>3. /\ t.list \in Seq(Objs) /\ Distinct(t.list)
            /\ \A p \in Objs : elem_find(t.list, p) <=> elem_find(s.list, p) /\ p # o
        BY <2>1, <4>1, <4>2, RemoveFacts
      <4>4. NoInode \in OpenInodes /\ NoInode.cnt = 0
        <5>1. Zeros(TableIdx) \in [1..TableIdx -> {0}]
          BY Sizes, ZerosType
        <5> QED BY <5>1, Numbers DEF NoInode, OpenInodes
      <4>5. t.obj \in [Objs -> OpenInodes]
        BY <2>1, <4>1, <4>4
      <4>6. \A p \in Objs : t.obj[p].cnt = IF p = o THEN s.obj[p].cnt - 1 ELSE s.obj[p].cnt
        BY <2>1, <4>1, <4>2, <4>4
      <4> QED BY <2>2, <2>3, <4>2, <4>3, <4>5, <4>6
    <3> QED BY <3>1, <3>2
  <2>5. Good(d0, t)
    BY <1>2, <1>4, <1>7, <2>4 DEF Good, Shape, MemTyped
  <2>6. ASSUME NEW p \in Objs
        PROVE  t.obj[p].cnt >= UsersOf(t.slot, t.dirs, p) + Minus(L, o)[p]
    <3>1. UsersOf(t.slot, t.dirs, p) = UsersOf(s.slot, s.dirs, p)
      BY <1>4
    <3>2. Minus(L, o)[p] = IF p = o THEN L[p] - 1 ELSE L[p]
      BY <2>1 DEF Minus, Local
    <3>3. t.obj[p].cnt >= UsersOf(s.slot, s.dirs, p) + Minus(L, o)[p]
      BY <2>3, <2>4, <3>2
    <3> QED BY <3>1, <3>3
  <2>7. Refs(t, Minus(L, o))
    BY <2>4, <2>6 DEF Refs
  <2>8. t.ibits = t.d.ibits /\ Exact(t)
    BY <1>4, <2>1 DEF Exact
  <2>9. Fine(d0, t, Minus(L, o))
    BY <2>5, <2>7, <2>8 DEF Fine
  <2> QED BY <1>3, <1>4, <1>5, <2>9 DEF t
<1> QED BY <1>6, <1>7 DEF t

-----------------------------------------------------------------------------
(* Loops.  For each there is a lemma that names the states between the     *)
(* rounds, and an argument by the number of rounds.                        *)

\* What holds before the first round and after each round if before it, holds in
\* the end.
LEMMA AllRounds ==
  ASSUME NEW n \in Nat, NEW T, 0 \in T, \A k \in 1..n : k - 1 \in T => k \in T
  PROVE  n \in T
<1> DEFINE U == {k \in 0..n : k \notin T}
<1>1. SUFFICES ASSUME n \notin T PROVE FALSE
  OBVIOUS
<1>2. U \in SUBSET Nat /\ U # {}
  BY <1>1
<1>3. PICK m \in U : \A y \in U : m <= y
  <2> HIDE DEF U
  <2> QED BY <1>2, LeastExists
<1>4. m \in 1..n
  BY <1>3
<1>5. m - 1 \notin U /\ m - 1 \in 0..n
  BY <1>3, <1>4
<1> QED BY <1>3, <1>4, <1>5

\* The loop of inode_release over the blocks.
LEMMA FreeRuns ==
  ASSUME NEW s, NEW blocks
  PROVE  \E F : /\ F[0] = s /\ FreeBlocks(s, blocks) = F[Total]
               /\ \A k \in 1..Total : F[k] = FreeBlock(F[k - 1], blocks[k])
<1> DEFINE Rec(f, m) == f = [k \in 0..m |-> IF k = 0 THEN s ELSE FreeBlock(f[k - 1], blocks[k])]
           T == {m \in Nat : ~ \E f : Rec(f, m)}
<1>1. T = {}
  <2>1. SUFFICES ASSUME T # {} PROVE FALSE
    OBVIOUS
  <2>2. PICK m \in T : \A y \in T : m <= y
    <3> HIDE DEF T
    <3>1. T \in SUBSET Nat
      BY DEF T
    <3> QED BY <2>1, <3>1, LeastExists
  <2>3. m # 0
    <3> DEFINE g == [k \in 0..0 |-> s]
    <3>1. Rec(g, 0)
      OBVIOUS
    <3> QED BY <2>2, <3>1
  <2>4. PICK f : Rec(f, m - 1)
    <3>1. m - 1 \in Nat /\ m - 1 \notin T
      <4> HIDE DEF T
      <4>1. m \in Nat
        BY DEF T
      <4> QED BY <2>2, <2>3, <4>1
    <3> HIDE DEF Rec
    <3> QED BY <3>1
  <2> DEFINE g == [k \in 0..m |-> IF k < m THEN f[k] ELSE FreeBlock(f[m - 1], blocks[m])]
  <2>5. Rec(g, m)
    BY <2>2, <2>3, <2>4
  <2> QED BY <2>2, <2>5
<1> DEFINE E == CHOOSE f : Rec(f, Total)
<1>2. Rec(E, Total)
  <2>1. Total \in Nat
    BY Sizes
  <2> HIDE DEF Rec
  <2>2. \E f : Rec(f, Total)
    BY <1>1, <2>1
  <2> QED BY <2>2, Zenon DEF E
<1>3. FreeBlocks(s, blocks) = E[Total]
  BY Zenon DEF FreeBlocks, Loop, E, Rec
<1> HIDE DEF E
<1>4. E[0] = s /\ \A k \in 1..Total : E[k] = FreeBlock(E[k - 1], blocks[k])
  BY <1>2, Sizes
<1> HIDE DEF Rec
<1> QED BY <1>3, <1>4

\* All blocks of an inode are freed.
LEMMA FreeBlocksOK ==
  ASSUME NEW d0, NEW s, NEW blocks, Good(d0, s)
  PROVE  LET t == FreeBlocks(s, blocks)
         IN  Good(d0, t) /\ Same(s, t) /\ Only({"d", "out", "bbits"}, s, t)
<1>1. PICK F : /\ F[0] = s /\ FreeBlocks(s, blocks) = F[Total]
               /\ \A k \in 1..Total : F[k] = FreeBlock(F[k - 1], blocks[k])
  BY FreeRuns
<1> DEFINE Kept(x) == Good(d0, x) /\ Same(s, x) /\ Only({"d", "out", "bbits"}, s, x)
           T == {k \in 0..Total : Kept(F[k])}
<1>2. Kept(s)
  BY DEF Good, Shape, Same, SameBits, SameRefs, Only
<1>3. ASSUME NEW k \in 1..Total, Kept(F[k - 1])
      PROVE  Kept(F[k])
  <2> DEFINE x == F[k - 1]
             y == FreeBlock(x, blocks[k])
  <2>1. Good(d0, x) /\ Same(s, x) /\ Only({"d", "out", "bbits"}, s, x) /\ F[k] = y
    BY <1>1, <1>3
  <2> HIDE DEF x, y
  <2>2. Good(d0, y) /\ Same(x, y) /\ Only({"d", "out", "bbits"}, x, y)
    BY <2>1, FreeBlockOK DEF y
  <2>3. Same(s, y) /\ Only({"d", "out", "bbits"} \cup {"d", "out", "bbits"}, s, y)
    BY <2>1, <2>2, SameTrans, OnlyTrans
  <2> QED BY <2>1, <2>2, <2>3
<1> HIDE DEF Kept
<1>4. Total \in Nat
  BY Sizes
<1>5. 0 \in T
  BY <1>1, <1>2, <1>4
<1>6. \A k \in 1..Total : k - 1 \in T => k \in T
  BY <1>3, <1>4
<1>7. Total \in T
  <2> HIDE DEF T
  <2> QED BY <1>4, <1>5, <1>6, AllRounds
<1> QED BY <1>1, <1>7 DEF Kept

-----------------------------------------------------------------------------
(* inode.c *)

\* A step that leaves file_table, the descriptors and the directories alone.
Step(s, t) ==
    /\ Only(Fields \ {"slot", "fds", "dirs"}, s, t)
    /\ t.err = "none" => s.err = "none"

\* Such steps one after the other.
LEMMA StepTrans ==
  ASSUME NEW s, NEW t, NEW u, Step(s, t), Step(t, u)
  PROVE  Step(s, u)
BY DEF Step, Only

\* What a lemma about one operator says is such a step.
LEMMA StepOnly ==
  ASSUME NEW K, NEW s, NEW t, Only(K, s, t), K \cap {"slot", "fds", "dirs"} = {},
         t.err = "none" => s.err = "none"
  PROVE  Step(s, t)
BY DEF Step, Only

\* The fields that such a step keeps.
LEMMA StepKeeps ==
  ASSUME NEW s, NEW t, Step(s, t)
  PROVE  /\ t.slot = s.slot /\ t.fds = s.fds /\ t.dirs = s.dirs
         /\ DOMAIN s = Fields /\ DOMAIN t = Fields
         /\ t.err = "none" => s.err = "none"
BY DEF Step, Only, Fields

\* A step that ends with the bits in order and touches no reference.
LEMMA BitsFine ==
  ASSUME NEW d0, NEW s, NEW t, NEW L, Fine(d0, s, L), Good(d0, t), SameRefs(s, t),
         t.err = "none" => s.err = "none" /\ t.ibits = t.d.ibits /\ Exact(t)
  PROVE  Fine(d0, t, L)
BY DEF Fine, SameRefs, Refs

\* The inode that inode_delete writes, and the object that is not in use.
LEMMA ZeroInodes ==
  ZeroInode \in DiskInodes /\ NoInode \in OpenInodes
<1>1. Zeros(TableIdx) \in [1..TableIdx -> {0}]
  BY Sizes, ZerosType
<1> QED BY <1>1, Numbers DEF NoInode, ZeroInode, OpenInodes, DiskInodes

\* The number of an inode is freed, in memory and on disk.
LEMMA FreeNumber ==
  ASSUME NEW d0, NEW s, NEW no, NEW L, Fine(d0, s, L), s.err = "none" => no \in Inodes
  PROVE  LET t == bitmap_sync([s EXCEPT !.ibits = @ \ {no}], no, "INODE")
         IN  Fine(d0, t, L) /\ Only({"ibits", "d", "out"}, s, t) /\ t.err = s.err /\ t.obj = s.obj
<1> DEFINE x == [s EXCEPT !.ibits = @ \ {no}]
           t == bitmap_sync(x, no, "INODE")
<1>1. DOMAIN s = Fields /\ Good(d0, s)
  BY DEF Fine, Good, Shape
<1>2. /\ Only({"ibits"}, s, x) /\ x.ibits = s.ibits \ {no}
      /\ x.d = s.d /\ x.out = s.out /\ x.bbits = s.bbits /\ x.obj = s.obj /\ x.err = s.err
      /\ x.list = s.list /\ x.slot = s.slot /\ x.fds = s.fds /\ x.dirs = s.dirs
  BY <1>1 DEF Only, Fields
<1> HIDE DEF x
<1>3. Good(d0, x)
  BY <1>1, <1>2 DEF Good, Shape, MemTyped, Only
<1>4. x.err = "none" => no \in Inodes /\ x.d.ibits \ {no} = x.ibits \ {no}
  BY <1>2 DEF Fine
<1>5. /\ Good(d0, t) /\ Only({"d", "out"}, x, t)
      /\ t.err = "none" => t.d.ibits = t.ibits
      /\ t.err = "none" /\ Exact(x) => Exact(t)
  BY <1>3, <1>4, SyncInodes
<1> HIDE DEF t
<1>6. /\ t.err = s.err /\ t.obj = s.obj
      /\ t.list = s.list /\ t.slot = s.slot /\ t.fds = s.fds /\ t.dirs = s.dirs
  BY <1>2, <1>5 DEF Only, Fields
<1>7. t.err = "none" => t.ibits = t.d.ibits /\ Exact(t)
  BY <1>2, <1>5, <1>6 DEF Fine, Exact
<1>8. SameRefs(s, t)
  BY <1>6 DEF SameRefs
<1>9. Fine(d0, t, L)
  BY <1>5, <1>6, <1>7, <1>8, BitsFine
<1>10. Only({"ibits", "d", "out"}, s, t)
  BY <1>2, <1>5 DEF Only, Fields
<1> QED BY <1>6, <1>9, <1>10 DEF t, x

\* inode_release opens the inode, frees what it holds and gives it back.
LEMMA ReleaseOK ==
  ASSUME NEW d0, NEW s, NEW no, NEW L \in Local, Fine(d0, s, L)
  PROVE  LET t == inode_release(s, no) IN Fine(d0, t, L) /\ Step(s, t)
<1> DEFINE x == inode_open(s, no)
           i == x.obj[x.r]
           y1 == FreeBlock(x, i.sect[TableIdx])
           y2 == FreeBlocks(y1, all_blocks(s.d, i))
           y3 == bitmap_sync([y2 EXCEPT !.ibits = @ \ {no}], no, "INODE")
           y4 == ide_write(y3, Write("inode", no, ZeroInode))
           y5 == inode_close(y4, x.r)
           t == inode_release(s, no)
           M == Plus(L, x.r)
<1>1. \/ x.err # "none" /\ t = x
      \/ x.err = "none" /\ i.no # no /\ t = [x EXCEPT !.err = "i_no"]
      \/ x.err = "none" /\ i.no = no /\ t = y5
  BY Zenon DEF inode_release
<1>2. /\ Fine(d0, x, M) /\ Only({"obj", "list", "r", "err"}, s, x)
      /\ x.err = "none" => s.err = "none" /\ x.r \in Objs
  BY OpenOK
<1> HIDE DEF t, x
<1>3. Step(s, x) /\ Good(d0, x) /\ DOMAIN x = Fields
  BY <1>2, StepOnly DEF Fine, Good, Shape
<1>4. CASE x.err # "none"
  <2>1. Fine(d0, x, L)
    BY <1>4, <1>3 DEF Fine
  <2> QED BY <1>1, <1>3, <1>4, <2>1 DEF t
<1>5. CASE x.err = "none" /\ i.no # no
  <2>1. t = [x EXCEPT !.err = "i_no"]
    BY <1>1, <1>5
  <2>2. Only({"err"}, x, t) /\ t.err # "none" /\ t.d = x.d /\ t.out = x.out /\ DOMAIN t = Fields
    BY <1>3, <2>1 DEF Only, Fields
  <2>3. Step(x, t) /\ Good(d0, t)
    BY <1>3, <2>2, StepOnly, Failed
  <2>4. Step(s, t)
    BY <1>3, <2>3, StepTrans
  <2>5. Fine(d0, t, L)
    BY <2>2, <2>3 DEF Fine
  <2> QED BY <2>4, <2>5 DEF t
<1>6. CASE x.err = "none" /\ i.no = no
  <2>1. no \in Inodes
    BY <1>2, <1>3, <1>6 DEF Good, MemTyped, OpenInodes
  <2>2. M \in Local /\ M[x.r] >= 1 /\ Minus(M, x.r) = L
    BY <1>2, <1>6, LocalFacts
  <2> HIDE DEF M, i
  <2>3. Good(d0, y1) /\ Same(x, y1) /\ Only({"d", "out", "bbits"}, x, y1)
    BY <1>3, FreeBlockOK
  <2> HIDE DEF y1
  <2>4. Good(d0, y2) /\ Same(y1, y2) /\ Only({"d", "out", "bbits"}, y1, y2)
    BY <2>3, FreeBlocksOK
  <2> HIDE DEF y2
  <2>5. Fine(d0, y2, M)
    BY <1>2, <2>3, <2>4, SameFine
  <2>6. Fine(d0, y3, M) /\ Only({"ibits", "d", "out"}, y2, y3) /\ y3.err = y2.err
    BY <2>1, <2>5, FreeNumber
  <2> HIDE DEF y3
  <2>7. Good(d0, y4) /\ Same(y3, y4) /\ Only({"d", "out"}, y3, y4)
    BY <2>6, ZeroInodes, WriteInode DEF Fine
  <2> HIDE DEF y4
  <2>8. Fine(d0, y4, M)
    BY <2>6, <2>7, SameFine
  <2>9. Fine(d0, y5, L) /\ y5.err = y4.err /\ Only({"obj", "list"}, y4, y5)
    BY <1>2, <1>6, <2>2, <2>8, CloseOK
  <2> HIDE DEF y5
  <2>10. y1.err = x.err /\ y2.err = y1.err /\ y4.err = y3.err
    BY <2>3, <2>4, <2>7 DEF Only, Fields
  <2>11. Step(x, y1) /\ Step(y1, y2) /\ Step(y2, y3) /\ Step(y3, y4) /\ Step(y4, y5)
    BY <2>3, <2>4, <2>6, <2>7, <2>9, <2>10 DEF Step, Only, Fields
  <2>12. Step(s, y5)
    BY <1>3, <2>11 DEF Step, Only, Fields
  <2> QED BY <1>1, <1>6, <2>9, <2>12 DEF t
<1> QED BY <1>4, <1>5, <1>6

\* i_size of an inode object is set.
LEMMA SizeSet ==
  ASSUME NEW d0, NEW s, NEW o, NEW v, Good(d0, s), s.err = "none" => v \in Int
  PROVE  LET t == [s EXCEPT !.obj[o].size = v]
         IN  Good(d0, t) /\ Same(s, t) /\ Only({"obj"}, s, t)
<1> DEFINE t == [s EXCEPT !.obj[o].size = v]
           i == [s.obj[o] EXCEPT !.size = v]
<1>1. DOMAIN s = Fields
  BY DEF Good, Shape
<1>2. Only({"obj"}, s, t) /\ t.obj = [s.obj EXCEPT ![o] = i]
  BY <1>1 DEF Only, Fields
<1>3. ASSUME s.err = "none", o \in Objs PROVE i \in OpenInodes /\ i.cnt = s.obj[o].cnt
  <2> DEFINE j == s.obj[o]
  <2>1. j \in OpenInodes
    BY <1>3 DEF Good, MemTyped
  <2> HIDE DEF j
  <2>2. [j EXCEPT !.size = v] \in OpenInodes /\ [j EXCEPT !.size = v].cnt = j.cnt
    BY <1>3, <2>1 DEF OpenInodes
  <2> QED BY <2>2 DEF j
<1> HIDE DEF t, i
<1>4. Only({"obj", "r", "all"}, s, t)
  BY <1>2 DEF Only
<1>5. Good(d0, t) /\ Same(s, t)
  BY <1>2, <1>3, <1>4, ObjChanged
<1> QED BY <1>2, <1>5 DEF t

\* A block number of an inode object is set.
LEMMA SectSet ==
  ASSUME NEW d0, NEW s, NEW o, NEW at, NEW v, Good(d0, s), s.err = "none" => v \in Blocks \cup {0}
  PROVE  LET t == [s EXCEPT !.obj[o].sect[at] = v]
         IN  Good(d0, t) /\ Same(s, t) /\ Only({"obj"}, s, t)
<1> DEFINE t == [s EXCEPT !.obj[o].sect[at] = v]
           i == [s.obj[o] EXCEPT !.sect[at] = v]
<1>1. DOMAIN s = Fields
  BY DEF Good, Shape
<1>2. Only({"obj"}, s, t) /\ t.obj = [s.obj EXCEPT ![o] = i]
  BY <1>1 DEF Only, Fields
<1>3. ASSUME s.err = "none", o \in Objs PROVE i \in OpenInodes /\ i.cnt = s.obj[o].cnt
  <2> DEFINE j == s.obj[o]
  <2>1. j \in OpenInodes
    BY <1>3 DEF Good, MemTyped
  <2> HIDE DEF j
  <2>2. [j.sect EXCEPT ![at] = v] \in [1..TableIdx -> Blocks \cup {0}]
    BY <1>3, <2>1 DEF OpenInodes
  <2>3. [j EXCEPT !.sect = [j.sect EXCEPT ![at] = v]] \in OpenInodes
    BY <2>1, <2>2 DEF OpenInodes
  <2>4. i = [j EXCEPT !.sect = [j.sect EXCEPT ![at] = v]] /\ i.cnt = j.cnt
    BY <2>1 DEF OpenInodes, j
  <2> QED BY <2>3, <2>4 DEF j
<1> HIDE DEF t, i
<1>4. Only({"obj", "r", "all"}, s, t)
  BY <1>2 DEF Only
<1>5. Good(d0, t) /\ Same(s, t)
  BY <1>2, <1>3, <1>4, ObjChanged
<1> QED BY <1>2, <1>5 DEF t

-----------------------------------------------------------------------------
(* dir.c *)

\* Steps that keep all but the contents of inodes and the block bitmap.
Content(d0, s, t) == Good(d0, t) /\ Same(s, t) /\ Step(s, t)

\* One such step after the other.
LEMMA ContentTrans ==
  ASSUME NEW d0, NEW s, NEW t, NEW u, Content(d0, s, t), Content(d0, t, u)
  PROVE  Content(d0, s, u)
BY SameTrans, StepTrans DEF Content

\* A write of a block, an allocation, a bit that is freed and the like are such steps.
LEMMA ContentOnly ==
  ASSUME NEW d0, NEW K, NEW s, NEW t, Good(d0, t), Same(s, t), Only(K, s, t),
         K \cap {"slot", "fds", "dirs"} = {}
  PROVE  Content(d0, s, t)
<1>1. t.err = "none" => s.err = "none"
  BY DEF Same, SameBits
<1> QED BY <1>1, StepOnly DEF Content

\* dir_close of a handle gives its reference back, unless it is root_dir.
LEMMA DirCloseOK ==
  ASSUME NEW d0, NEW s, NEW h, NEW L \in Local, Fine(d0, s, L),
         s.err = "none" => h.root \/ (h.obj \in Objs /\ L[h.obj] >= 1)
  PROVE  LET t == dir_close(s, h)
         IN  /\ Fine(d0, t, IF h.root THEN L ELSE Minus(L, h.obj))
             /\ Step(s, t) /\ t.err = s.err /\ t.r = s.r
<1> DEFINE t == dir_close(s, h)
<1>1. DOMAIN s = Fields
  BY DEF Fine, Good, Shape
<1>2. CASE h.root
  <2>1. t = s
    BY <1>2 DEF dir_close
  <2> QED BY <1>1, <1>2, <2>1 DEF Step, Only
<1>3. CASE ~h.root
  <2>1. t = inode_close(s, h.obj)
    BY <1>3 DEF dir_close
  <2>2. Fine(d0, t, Minus(L, h.obj)) /\ t.err = s.err /\ Only({"obj", "list"}, s, t)
    <3> DEFINE o == h.obj
    <3>1. t = inode_close(s, o) /\ (s.err = "none" => o \in Objs /\ L[o] >= 1)
      BY <1>3, <2>1
    <3> HIDE DEF t, o
    <3>2. Fine(d0, t, Minus(L, o)) /\ t.err = s.err /\ Only({"obj", "list"}, s, t)
      BY <3>1, CloseOK
    <3> QED BY <3>2 DEF o
  <2> HIDE DEF t
  <2>3. Step(s, t) /\ t.r = s.r
    BY <2>2 DEF Step, Only, Fields
  <2> QED BY <1>3, <2>2, <2>3 DEF t
<1> QED BY <1>2, <1>3

\* sync_dir_entry writes the entry to a block of the directory, old or new.
LEMMA SyncEntryOK ==
  ASSUME NEW d0, NEW s, NEW o, NEW e, Good(d0, s), s.err = "none" => o \in Objs
  PROVE  Content(d0, s, sync_dir_entry(s, o, e))
<1> DEFINE dir == s.obj[o]
           Room(b) == b = 0 \/ NoEntry \in ToSet(s.d.block[b].c)
           at == Min({k \in 1..NDirect : Room(dir.sect[k])} \cup {TableIdx})
           blk == dir.sect[at]
           es == s.d.block[blk].c
           k == SelectInSeq(es, LAMBDA x : x = NoEntry)
           filled == DirBlock(ReplaceAt(es, k, e))
           x1 == NewBlock(s)
           x2 == [x1 EXCEPT !.obj[o].sect[at] = x1.r]
           x3 == NewBlock(x2)
           table == [kind |-> "table", c |-> [Zeros(NIndirect) EXCEPT ![1] = x3.r]]
           x4 == ide_write(x3, Write("block", x2.r, table))
           pad == Pad(<<e>>)
           p1 == ide_write(s, Write("block", blk, filled))
           p2 == ide_write(x2, Write("block", x2.r, pad))
           p3 == ide_write(x4, Write("block", x4.r, pad))
           p == IF at # TableIdx /\ blk # 0 THEN p1 ELSE IF at # TableIdx THEN p2 ELSE p3
<1>1. sync_dir_entry(s, o, e) = Grown(p, o)
  BY Zenon DEF sync_dir_entry
<1> HIDE DEF at, blk, filled, pad, table
<1>2. Content(d0, s, p1)
  BY WriteBlock, ContentOnly
<1>3. /\ Content(d0, s, x1) /\ Good(d0, x1) /\ (x1.err = "none" => x1.r \in Blocks)
  BY NewBlockOK, ContentOnly
<1> HIDE DEF x1
<1>4. Content(d0, x1, x2) /\ Good(d0, x2)
  <2> DEFINE v == x1.r
  <2>1. x1.err = "none" => v \in Blocks \cup {0}
    BY <1>3
  <2> HIDE DEF v
  <2>2. Good(d0, x2) /\ Same(x1, x2) /\ Only({"obj"}, x1, x2)
    BY <1>3, <2>1, SectSet DEF v
  <2> HIDE DEF x2
  <2> QED BY <2>2, ContentOnly
<1> HIDE DEF x2
<1>5. Content(d0, x2, p2)
  BY <1>4, WriteBlock, ContentOnly
<1>6. Content(d0, x2, x3) /\ Good(d0, x3)
  BY <1>4, NewBlockOK, ContentOnly
<1> HIDE DEF x3
<1>7. Content(d0, x3, x4) /\ Good(d0, x4)
  BY <1>6, WriteBlock, ContentOnly
<1> HIDE DEF x4
<1>8. Content(d0, x4, p3)
  BY <1>7, WriteBlock, ContentOnly
<1> HIDE DEF p1, p2, p3
<1>9. Content(d0, s, p)
  <2>1. Content(d0, s, x2)
    BY <1>3, <1>4, ContentTrans
  <2>2. Content(d0, s, p2) /\ Content(d0, s, x3)
    BY <1>5, <1>6, <2>1, ContentTrans
  <2>3. Content(d0, s, x4)
    BY <1>7, <2>2, ContentTrans
  <2>4. Content(d0, s, p3)
    BY <1>8, <2>3, ContentTrans
  <2> QED BY <1>2, <2>2, <2>4
<1> HIDE DEF p
<1>10. Good(d0, p) /\ (p.err = "none" => p.obj[o].size + 1 \in Int)
  BY <1>9 DEF Content, Good, MemTyped, OpenInodes, Step
<1> DEFINE v == p.obj[o].size + 1
           t == [p EXCEPT !.obj[o].size = v]
<1>11. Content(d0, p, t)
  <2> HIDE DEF v
  <2>1. Good(d0, t) /\ Same(p, t) /\ Only({"obj"}, p, t)
    BY <1>10, SizeSet DEF v
  <2> HIDE DEF t
  <2> QED BY <2>1, ContentOnly
<1>12. Grown(p, o) = t
  BY DEF Grown
<1> HIDE DEF t
<1> QED BY <1>1, <1>9, <1>11, <1>12, ContentTrans

\* delete_dir_entry clears the entry, or frees the block it is the last one of.
LEMMA DeleteEntryOK ==
  ASSUME NEW d0, NEW s, NEW o, NEW no, Good(d0, s), s.err = "none" => o \in Objs
  PROVE  Content(d0, s, delete_dir_entry(s, o, no))
<1> DEFINE Mine(es) == {k \in DOMAIN es : es[k].type # "FT_UNKNOWN" /\ ~IsDot(es[k])}
           Is(es, k) == k \in Mine(es) /\ es[k].ino = no
           blocks == all_blocks(s.d, s.obj[o])
           at == SelectInSeq(blocks, LAMBDA b : b # 0 /\ LET es == s.d.block[b].c
                                                        IN \E k \in DOMAIN es : Is(es, k))
           blk == blocks[at]
           ents == s.d.block[blk].c
           last == Cardinality(Mine(ents)) = 1 /\ \A k \in DOMAIN ents : ents[k].name # "."
           cleared == DirBlock(ReplaceAt(ents, Min({k \in DOMAIN ents : Is(ents, k)}), NoEntry))
           p1 == ide_write(s, Write("block", blk, cleared))
           p2 == [FreeBlock(s, blk) EXCEPT !.obj[o].sect[at] = 0]
           p3 == [s EXCEPT !.err = "endless_loop"]
           p == CASE ~last -> p1 [] last /\ at <= NDirect -> p2 [] OTHER -> p3
           Shrunk(x) == [x EXCEPT !.obj[o].size = x.obj[o].size - 1]
<1>1. delete_dir_entry(s, o, no) = IF at = 0 THEN s ELSE SyncOpen(Shrunk(p), o)
  BY Zenon DEF delete_dir_entry
<1> HIDE DEF at, blk, cleared, last
<1>2. DOMAIN s = Fields
  BY DEF Good, Shape
<1>3. Content(d0, s, s)
  BY <1>2 DEF Content, Same, SameBits, SameRefs, Step, Only
<1>4. Content(d0, s, p1)
  BY WriteBlock, ContentOnly
<1>5. Content(d0, s, p2)
  <2> DEFINE x == FreeBlock(s, blk)
  <2>1. Good(d0, x) /\ Content(d0, s, x)
    BY FreeBlockOK, ContentOnly
  <2> HIDE DEF x
  <2> DEFINE y == [x EXCEPT !.obj[o].sect[at] = 0]
  <2>2. Good(d0, y) /\ Same(x, y) /\ Only({"obj"}, x, y)
    BY <2>1, SectSet
  <2>3. p2 = y
    BY DEF x
  <2> HIDE DEF y, p2
  <2>4. Content(d0, x, y)
    BY <2>2, ContentOnly
  <2> QED BY <2>1, <2>3, <2>4, ContentTrans
<1>6. Content(d0, s, p3)
  <2>1. DOMAIN p3 = Fields /\ p3.d = s.d /\ p3.out = s.out /\ p3.err # "none" /\ Only({"err"}, s, p3)
    BY <1>2 DEF Only, Fields
  <2> HIDE DEF p3
  <2> QED BY <2>1, Failed, ContentOnly
<1> HIDE DEF p1, p2, p3
<1>7. Content(d0, s, p)
  BY <1>4, <1>5, <1>6
<1> HIDE DEF p
<1> DEFINE v == p.obj[o].size - 1
           q == [p EXCEPT !.obj[o].size = v]
           t == SyncOpen(q, o)
<1>8. Good(d0, p) /\ (p.err = "none" => v \in Int /\ o \in Objs)
  BY <1>7 DEF Content, Good, MemTyped, OpenInodes, Step
<1> HIDE DEF v
<1>9. Good(d0, q) /\ Same(p, q) /\ Only({"obj"}, p, q)
  BY <1>8, SizeSet
<1>10. q = Shrunk(p)
  BY DEF v
<1> HIDE DEF q, Shrunk
<1>11. q.err = "none" => o \in Objs
  BY <1>8, <1>9 DEF Same, SameBits
<1>12. Good(d0, t) /\ Same(q, t) /\ Only({"d", "out"}, q, t)
  BY <1>9, <1>11, SyncOpenOK
<1>13. delete_dir_entry(s, o, no) = IF at = 0 THEN s ELSE t
  BY <1>1, <1>10
<1> HIDE DEF t
<1>14. Content(d0, p, q) /\ Content(d0, q, t)
  BY <1>9, <1>12, ContentOnly
<1>15. Content(d0, s, t)
  BY <1>7, <1>14, ContentTrans
<1> QED BY <1>3, <1>13, <1>15

\* Such a step keeps the state of the call.
LEMMA ContentFine ==
  ASSUME NEW d0, NEW s, NEW t, NEW L, Fine(d0, s, L), Content(d0, s, t)
  PROVE  Fine(d0, t, L) /\ Step(s, t)
BY SameFine DEF Content

\* dir_remove takes the entry out of the parent and releases the inode.
LEMMA DirRemoveOK ==
  ASSUME NEW d0, NEW s, NEW parent, NEW o, NEW L \in Local, Fine(d0, s, L),
         s.err = "none" => parent \in Objs
  PROVE  LET t == dir_remove(s, parent, o) IN Fine(d0, t, L) /\ Step(s, t)
<1> DEFINE no == s.obj[o].no
           used == \E k \in 2..TableIdx : s.obj[o].sect[k] # 0
           x == delete_dir_entry(s, parent, no)
           y == inode_release(x, no)
           z == [s EXCEPT !.err = "i_sectors"]
<1>1. dir_remove(s, parent, o) = IF used THEN z ELSE y
  BY DEF dir_remove
<1> HIDE DEF no, used
<1>2. Good(d0, s) /\ DOMAIN s = Fields
  BY DEF Fine, Good, Shape
<1>3. Content(d0, s, x)
  BY <1>2, DeleteEntryOK
<1> HIDE DEF x
<1>4. Fine(d0, x, L) /\ Step(s, x)
  BY <1>3, ContentFine
<1>5. Fine(d0, y, L) /\ Step(x, y)
  BY <1>4, ReleaseOK
<1> HIDE DEF y
<1>6. Step(s, y)
  BY <1>4, <1>5, StepTrans
<1>7. Only({"err"}, s, z) /\ z.err # "none" /\ z.d = s.d /\ z.out = s.out /\ DOMAIN z = Fields
  BY <1>2 DEF Only, Fields
<1> HIDE DEF z
<1>8. Fine(d0, z, L) /\ Step(s, z)
  <2>1. Good(d0, z)
    BY <1>2, <1>7, Failed
  <2> QED BY <1>7, <2>1, StepOnly DEF Fine
<1> QED BY <1>1, <1>5, <1>6, <1>8

-----------------------------------------------------------------------------
(* file.c: the file table *)

\* pcb_fd_install, for a slot that is in use.
LEMMA InstallOK ==
  ASSUME NEW d0, NEW s, NEW f, NEW L, Fine(d0, s, L),
         s.err = "none" => f \in Slots /\ s.slot[f].obj # NoObj
  PROVE  Fine(d0, pcb_fd_install(s, f), L)
<1> DEFINE t == pcb_fd_install(s, f)
<1>1. DOMAIN s = Fields /\ Good(d0, s)
  BY DEF Fine, Good, Shape
<1>2. Only({"fds", "r"}, s, t) /\ (t.fds = s.fds \/ t.fds = s.fds \cup {f})
  <2>1. \/ t = [s EXCEPT !.r = -1]
        \/ t = [s EXCEPT !.fds = @ \cup {f}, !.r = 0]
    BY DEF pcb_fd_install
  <2> HIDE DEF t
  <2> QED BY <1>1, <2>1 DEF Only, Fields
<1> HIDE DEF t
<1>3. /\ t.err = s.err /\ t.bbits = s.bbits /\ t.ibits = s.ibits /\ t.obj = s.obj
      /\ t.list = s.list /\ t.slot = s.slot /\ t.dirs = s.dirs
      /\ t.d = s.d /\ t.out = s.out /\ DOMAIN t = Fields
  BY <1>2 DEF Only, Fields
<1>4. Good(d0, t)
  BY <1>1, <1>2, <1>3 DEF Good, Shape, MemTyped
<1>5. Fine(d0, t, L)
  BY <1>3, <1>4 DEF Fine, Refs, Exact
<1> QED BY <1>5 DEF t

\* A new inode object is put at the head of open_inodes: one more reference.
LEMMA Pushed ==
  ASSUME NEW d0, NEW s, NEW t, NEW o \in Objs, NEW i \in OpenInodes, NEW L \in Local,
         Fine(d0, s, L), s.err = "none", Only({"obj", "list"}, s, t), s.obj[o].cnt = 0, i.cnt = 1,
         t.obj = [s.obj EXCEPT ![o] = i], t.list = list_push(s.list, o)
  PROVE  Fine(d0, t, Plus(L, o))
<1>1. /\ t.bbits = s.bbits /\ t.ibits = s.ibits /\ t.slot = s.slot /\ t.fds = s.fds
      /\ t.dirs = s.dirs /\ t.d = s.d /\ t.out = s.out /\ t.err = "none" /\ DOMAIN t = Fields
  BY DEF Only, Fields
<1>2. /\ s.obj \in [Objs -> OpenInodes] /\ s.list \in Seq(Objs) /\ Good(d0, s)
      /\ s.ibits = s.d.ibits /\ Exact(s) /\ Distinct(s.list)
  BY DEF Fine, Good, MemTyped, Refs
<1>3. \A p \in Objs : elem_find(s.list, p) <=> s.obj[p].cnt > 0
  BY DEF Fine, Refs
<1>4. ~elem_find(s.list, o)
  BY <1>3
<1>5. /\ t.list \in Seq(Objs) /\ Distinct(t.list)
      /\ \A p \in Objs : elem_find(t.list, p) <=> elem_find(s.list, p) \/ p = o
  <2> DEFINE q == s.list
             r == list_push(q, o)
  <2>1. q \in Seq(Objs) /\ Distinct(q) /\ ~elem_find(q, o)
    BY <1>2, <1>4
  <2> HIDE DEF q
  <2>2. /\ r \in Seq(Objs) /\ Distinct(r)
        /\ \A p \in Objs : elem_find(r, p) <=> elem_find(q, p) \/ p = o
    BY <2>1, PushFacts
  <2>3. t.list = r
    BY DEF q
  <2> HIDE DEF r
  <2> QED BY <2>2, <2>3 DEF q
<1>6. t.obj \in [Objs -> OpenInodes]
  BY <1>2
<1>7. Good(d0, t)
  <2>1. MemTyped(t)
    BY <1>1, <1>2, <1>5, <1>6 DEF Good, MemTyped
  <2> QED BY <1>1, <1>2, <2>1 DEF Good, Shape
<1>8. ASSUME NEW p \in Objs
      PROVE  /\ elem_find(t.list, p) <=> t.obj[p].cnt > 0
             /\ t.obj[p].cnt >= UsersOf(t.slot, t.dirs, p) + Plus(L, o)[p]
  <2>1. elem_find(t.list, p) <=> elem_find(s.list, p) \/ p = o
    BY <1>5
  <2>2. elem_find(s.list, p) <=> s.obj[p].cnt > 0
    BY <1>3
  <2>3. t.obj[p].cnt = IF p = o THEN 1 ELSE s.obj[p].cnt
    BY <1>2
  <2>4. Plus(L, o)[p] = IF p = o THEN L[p] + 1 ELSE L[p]
    BY DEF Plus, Local
  <2> DEFINE u == UsersOf(t.slot, t.dirs, p)
  <2>5. s.obj[p].cnt >= u + L[p] /\ L[p] \in Nat /\ u \in Nat
    BY <1>1, UsersNat DEF Fine, Refs, Local
  <2> HIDE DEF u
  <2>6. s.obj[p].cnt \in Nat
    BY <1>2 DEF OpenInodes
  <2>7. elem_find(t.list, p) <=> t.obj[p].cnt > 0
    BY <2>1, <2>2, <2>3
  <2>8. t.obj[p].cnt >= u + Plus(L, o)[p]
    BY <2>3, <2>4, <2>5, <2>6
  <2> QED BY <2>7, <2>8 DEF u
<1>9. Refs(t, Plus(L, o))
  BY <1>5, <1>8 DEF Refs
<1> QED BY <1>1, <1>2, <1>7, <1>9 DEF Fine, Exact

\* A free slot of file_table takes the reference the call holds.
LEMMA SlotTaken ==
  ASSUME NEW d0, NEW s, NEW t, NEW f \in Slots, NEW o \in Objs, NEW v, NEW L \in Local,
         Fine(d0, s, Plus(L, o)), s.err = "none", Only({"slot", "r"}, s, t), s.slot[f].obj = NoObj,
         v \in [obj : Objs \cup {NoObj}, w : BOOLEAN, pos : Int], v.obj = o,
         t.slot = [s.slot EXCEPT ![f] = v]
  PROVE  Fine(d0, t, L)
<1>1. /\ t.bbits = s.bbits /\ t.ibits = s.ibits /\ t.obj = s.obj /\ t.list = s.list /\ t.fds = s.fds
      /\ t.dirs = s.dirs /\ t.d = s.d /\ t.out = s.out /\ t.err = "none" /\ DOMAIN t = Fields
  BY DEF Only, Fields
<1>2. Good(d0, s) /\ MemTyped(s) /\ Refs(s, Plus(L, o)) /\ s.ibits = s.d.ibits /\ Exact(s)
  BY DEF Fine, Good
<1>3. /\ s.slot \in [Slots -> [obj : Objs \cup {NoObj}, w : BOOLEAN, pos : Int]]
      /\ s.fds \subseteq {g \in Slots : s.slot[g].obj # NoObj}
  BY <1>2 DEF MemTyped
<1>4. /\ t.slot \in [Slots -> [obj : Objs \cup {NoObj}, w : BOOLEAN, pos : Int]]
      /\ t.slot[f].obj = o /\ \A g \in Slots \ {f} : t.slot[g].obj = s.slot[g].obj
  BY <1>3
<1>5. t.fds \subseteq {g \in Slots : t.slot[g].obj # NoObj}
  BY <1>1, <1>3, <1>4
<1>6. Good(d0, t)
  BY <1>1, <1>2, <1>4, <1>5 DEF Good, Shape, MemTyped
<1>7. NoObj # o
  BY Numbers
<1>8. /\ UsersOf(t.slot, s.dirs, o) = UsersOf(s.slot, s.dirs, o) + 1
      /\ \A p : p # NoObj /\ p # o => UsersOf(t.slot, s.dirs, p) = UsersOf(s.slot, s.dirs, p)
  <2> HIDE DEF NoObj
  <2> QED BY <1>4, <1>7, SlotPointed
<1>9. ASSUME NEW p \in Objs
      PROVE  t.obj[p].cnt >= UsersOf(t.slot, t.dirs, p) + L[p]
  <2> DEFINE u == UsersOf(s.slot, s.dirs, p)
  <2>1. Plus(L, o)[p] = IF p = o THEN L[p] + 1 ELSE L[p]
    BY DEF Plus, Local
  <2>2. s.obj[p].cnt >= u + Plus(L, o)[p] /\ u \in Nat /\ L[p] \in Nat /\ s.obj[p].cnt \in Nat
    BY <1>2, UsersNat DEF Refs, Local, MemTyped, OpenInodes
  <2>3. UsersOf(t.slot, t.dirs, p) = IF p = o THEN u + 1 ELSE u
    BY <1>1, <1>8, Numbers
  <2> HIDE DEF u
  <2> QED BY <1>1, <2>1, <2>2, <2>3
<1>10. Refs(t, L)
  BY <1>1, <1>2, <1>9 DEF Refs
<1> QED BY <1>1, <1>2, <1>6, <1>10 DEF Fine, Exact

\* Pointers are moved between the tables and the local variables of the call.
LEMMA Repointed ==
  ASSUME NEW d0, NEW s, NEW t, NEW L, NEW M, Fine(d0, s, L), s.err = "none",
         Only({"slot", "fds", "dirs"}, s, t), MemTyped(t),
         \A p \in Objs : UsersOf(t.slot, t.dirs, p) + M[p] = UsersOf(s.slot, s.dirs, p) + L[p]
  PROVE  Fine(d0, t, M)
<1>1. /\ t.bbits = s.bbits /\ t.ibits = s.ibits /\ t.obj = s.obj /\ t.list = s.list
      /\ t.d = s.d /\ t.out = s.out /\ t.err = "none" /\ DOMAIN t = Fields
  BY DEF Only, Fields
<1>2. Good(d0, s) /\ Refs(s, L) /\ s.ibits = s.d.ibits /\ Exact(s)
  BY DEF Fine
<1>3. Good(d0, t)
  BY <1>1, <1>2 DEF Good, Shape
<1>4. Refs(t, M)
  BY <1>1, <1>2 DEF Refs
<1> QED BY <1>1, <1>2, <1>3, <1>4 DEF Fine, Exact

\* A slot of file_table is given up: the call holds the reference now.
LEMMA SlotFreed ==
  ASSUME NEW d0, NEW s, NEW f \in Slots, NEW o \in Objs, Fine(d0, s, Zero), s.err = "none",
         s.slot[f].obj = o
  PROVE  Fine(d0, [s EXCEPT !.slot[f] = NoFile, !.fds = @ \ {f}], One(o))
<1> DEFINE t == [s EXCEPT !.slot[f] = NoFile, !.fds = @ \ {f}]
<1>1. DOMAIN s = Fields /\ MemTyped(s)
  BY DEF Fine, Good, Shape
<1>2. /\ Only({"slot", "fds", "dirs"}, s, t) /\ t.slot = [s.slot EXCEPT ![f] = NoFile]
      /\ t.fds = s.fds \ {f} /\ t.dirs = s.dirs /\ t.bbits = s.bbits /\ t.ibits = s.ibits
      /\ t.obj = s.obj /\ t.list = s.list
  BY <1>1 DEF Only, Fields
<1> HIDE DEF t
<1>3. /\ t.slot \in [Slots -> [obj : Objs \cup {NoObj}, w : BOOLEAN, pos : Int]]
      /\ t.slot[f].obj = NoObj /\ \A g \in Slots \ {f} : t.slot[g].obj = s.slot[g].obj
  BY <1>1, <1>2 DEF MemTyped, NoFile
<1>4. MemTyped(t)
  BY <1>1, <1>2, <1>3 DEF MemTyped
<1>5. NoObj # o
  BY Numbers
<1>6. /\ UsersOf(t.slot, s.dirs, o) = UsersOf(s.slot, s.dirs, o) - 1
      /\ \A p : p # NoObj /\ p # o => UsersOf(t.slot, s.dirs, p) = UsersOf(s.slot, s.dirs, p)
  <2> DEFINE a == s.slot
             b == t.slot
             c == s.dirs
             none == NoObj
  <2>1. /\ a[f].obj = o /\ b[f].obj = none /\ o # none
        /\ \A g \in Slots \ {f} : b[g].obj = a[g].obj
    BY <1>3, <1>5
  <2> HIDE DEF a, b, c, none
  <2>2. /\ UsersOf(b, c, o) = UsersOf(a, c, o) - 1
        /\ UsersOf(b, c, none) = UsersOf(a, c, none) + 1
        /\ \A p : p # o /\ p # none => UsersOf(b, c, p) = UsersOf(a, c, p)
    BY <2>1, SlotPointed, SMTT(20)
  <2> QED BY <2>2 DEF a, b, c, none
<1>7. ASSUME NEW p \in Objs
      PROVE  UsersOf(t.slot, t.dirs, p) + One(o)[p] = UsersOf(s.slot, s.dirs, p) + Zero[p]
  <2> DEFINE u == UsersOf(s.slot, s.dirs, p)
  <2>1. u \in Nat
    BY UsersNat
  <2>2. UsersOf(t.slot, t.dirs, p) = IF p = o THEN u - 1 ELSE u
    BY <1>2, <1>6, Numbers
  <2>3. Zero[p] = 0 /\ One(o)[p] = IF p = o THEN 1 ELSE 0
    BY DEF Zero, One
  <2> HIDE DEF u
  <2>4. UsersOf(t.slot, t.dirs, p) + One(o)[p] = u + Zero[p]
    BY <2>1, <2>2, <2>3
  <2> QED BY <2>4 DEF u
<1>8. Fine(d0, t, One(o))
  BY <1>2, <1>4, <1>7, Repointed
<1> QED BY <1>8 DEF t

\* A struct dir is freed: the call holds its reference now.
LEMMA DirFreed ==
  ASSUME NEW d0, NEW s, NEW h \in Dirs, NEW o \in Objs, Fine(d0, s, Zero), s.err = "none",
         s.dirs[h].obj = o
  PROVE  Fine(d0, [s EXCEPT !.dirs[h] = NoDir], One(o))
<1> DEFINE t == [s EXCEPT !.dirs[h] = NoDir]
<1>1. DOMAIN s = Fields /\ MemTyped(s)
  BY DEF Fine, Good, Shape
<1>2. /\ Only({"slot", "fds", "dirs"}, s, t) /\ t.dirs = [s.dirs EXCEPT ![h] = NoDir]
      /\ t.slot = s.slot /\ t.fds = s.fds /\ t.bbits = s.bbits /\ t.ibits = s.ibits
      /\ t.obj = s.obj /\ t.list = s.list
  BY <1>1 DEF Only, Fields
<1> HIDE DEF t
<1>3. /\ t.dirs \in [Dirs -> [obj : Objs \cup {NoObj}, pos : Nat]]
      /\ t.dirs[h].obj = NoObj /\ \A g \in Dirs \ {h} : t.dirs[g].obj = s.dirs[g].obj
  BY <1>1, <1>2 DEF MemTyped, NoDir
<1>4. MemTyped(t)
  BY <1>1, <1>2, <1>3 DEF MemTyped
<1>5. NoObj # o
  BY Numbers
<1>6. /\ UsersOf(s.slot, t.dirs, o) = UsersOf(s.slot, s.dirs, o) - 1
      /\ \A p : p # NoObj /\ p # o => UsersOf(s.slot, t.dirs, p) = UsersOf(s.slot, s.dirs, p)
  <2> DEFINE a == s.dirs
             b == t.dirs
             c == s.slot
             none == NoObj
  <2>1. /\ a[h].obj = o /\ b[h].obj = none /\ o # none
        /\ \A g \in Dirs \ {h} : b[g].obj = a[g].obj
    BY <1>3, <1>5
  <2> HIDE DEF a, b, c, none
  <2>2. /\ UsersOf(c, b, o) = UsersOf(c, a, o) - 1
        /\ UsersOf(c, b, none) = UsersOf(c, a, none) + 1
        /\ \A p : p # o /\ p # none => UsersOf(c, b, p) = UsersOf(c, a, p)
    BY <2>1, DirPointed
  <2> QED BY <2>2 DEF a, b, c, none
<1>7. ASSUME NEW p \in Objs
      PROVE  UsersOf(t.slot, t.dirs, p) + One(o)[p] = UsersOf(s.slot, s.dirs, p) + Zero[p]
  <2> DEFINE u == UsersOf(s.slot, s.dirs, p)
  <2>1. u \in Nat
    BY UsersNat
  <2>2. UsersOf(t.slot, t.dirs, p) = IF p = o THEN u - 1 ELSE u
    BY <1>2, <1>6, Numbers
  <2>3. Zero[p] = 0 /\ One(o)[p] = IF p = o THEN 1 ELSE 0
    BY DEF Zero, One
  <2> HIDE DEF u
  <2>4. UsersOf(t.slot, t.dirs, p) + One(o)[p] = u + Zero[p]
    BY <2>1, <2>2, <2>3
  <2> QED BY <2>4 DEF u
<1>8. Fine(d0, t, One(o))
  BY <1>2, <1>4, <1>7, Repointed
<1> QED BY <1>8 DEF t

\* A new struct dir takes the reference the call holds.
LEMMA DirTaken ==
  ASSUME NEW d0, NEW s, NEW h \in Dirs, NEW o \in Objs, Fine(d0, s, One(o)), s.err = "none",
         s.dirs[h].obj = NoObj
  PROVE  Fine(d0, [s EXCEPT !.dirs[h] = [obj |-> o, pos |-> 0]], Zero)
<1> DEFINE v == [obj |-> o, pos |-> 0]
           t == [s EXCEPT !.dirs[h] = v]
<1>1. DOMAIN s = Fields /\ MemTyped(s)
  BY DEF Fine, Good, Shape
<1>2. /\ Only({"slot", "fds", "dirs"}, s, t) /\ t.dirs = [s.dirs EXCEPT ![h] = v]
      /\ t.slot = s.slot /\ t.fds = s.fds /\ t.bbits = s.bbits /\ t.ibits = s.ibits
      /\ t.obj = s.obj /\ t.list = s.list
  BY <1>1 DEF Only, Fields
<1> HIDE DEF t
<1>3. /\ t.dirs \in [Dirs -> [obj : Objs \cup {NoObj}, pos : Nat]]
      /\ t.dirs[h].obj = o /\ \A g \in Dirs \ {h} : t.dirs[g].obj = s.dirs[g].obj
  BY <1>1, <1>2 DEF MemTyped
<1>4. MemTyped(t)
  BY <1>1, <1>2, <1>3 DEF MemTyped
<1>5. NoObj # o
  BY Numbers
<1>6. /\ UsersOf(s.slot, t.dirs, o) = UsersOf(s.slot, s.dirs, o) + 1
      /\ \A p : p # NoObj /\ p # o => UsersOf(s.slot, t.dirs, p) = UsersOf(s.slot, s.dirs, p)
  <2> DEFINE a == s.dirs
             b == t.dirs
             c == s.slot
             none == NoObj
  <2>1. /\ a[h].obj = none /\ b[h].obj = o /\ o # none
        /\ \A g \in Dirs \ {h} : b[g].obj = a[g].obj
    BY <1>3, <1>5
  <2> HIDE DEF a, b, c, none
  <2>2. /\ UsersOf(c, b, o) = UsersOf(c, a, o) + 1
        /\ \A p : p # none /\ p # o => UsersOf(c, b, p) = UsersOf(c, a, p)
    BY <2>1, DirPointed
  <2> QED BY <2>2 DEF a, b, c, none
<1>7. ASSUME NEW p \in Objs
      PROVE  UsersOf(t.slot, t.dirs, p) + Zero[p] = UsersOf(s.slot, s.dirs, p) + One(o)[p]
  <2> DEFINE u == UsersOf(s.slot, s.dirs, p)
  <2>1. u \in Nat
    BY UsersNat
  <2>2. UsersOf(t.slot, t.dirs, p) = IF p = o THEN u + 1 ELSE u
    BY <1>2, <1>6, Numbers
  <2>3. Zero[p] = 0 /\ One(o)[p] = IF p = o THEN 1 ELSE 0
    BY DEF Zero, One
  <2> HIDE DEF u
  <2>4. UsersOf(t.slot, t.dirs, p) + Zero[p] = u + One(o)[p]
    BY <2>1, <2>2, <2>3
  <2> QED BY <2>4 DEF u
<1>8. Fine(d0, t, Zero)
  BY <1>2, <1>4, <1>7, Repointed
<1> QED BY <1>8 DEF t

\* inode_close changes two fields.
LEMMA CloseOnly ==
  ASSUME NEW s, NEW o, DOMAIN s = Fields
  PROVE  Only({"obj", "list"}, s, inode_close(s, o))
<1> DEFINE c == inode_close(s, o)
<1>1. \/ c = [s EXCEPT !.obj[o].cnt = @ - 1]
      \/ c = [s EXCEPT !.obj[o] = NoInode, !.list = list_remove(@, o)]
  BY DEF inode_close
<1> HIDE DEF c
<1>2. Only({"obj", "list"}, s, c)
  BY <1>1 DEF Only, Fields
<1> QED BY <1>2 DEF c

\* inode_close does not look at the tables: it may as well come after a change of them.
LEMMA CloseCommutes ==
  ASSUME NEW d0, NEW s, NEW o, NEW u, NEW t, NEW L, DOMAIN s = Fields,
         Only({"slot", "fds", "dirs"}, s, u), Only({"slot", "fds", "dirs"}, inode_close(s, o), t),
         t.slot = u.slot, t.fds = u.fds, t.dirs = u.dirs, Fine(d0, inode_close(u, o), L)
  PROVE  Fine(d0, t, L)
<1> DEFINE c == inode_close(s, o)
           e == inode_close(u, o)
<1>1. u.obj = s.obj /\ u.list = s.list /\ DOMAIN u = Fields
  BY DEF Only, Fields
<1>2. c.obj = e.obj /\ c.list = e.list
  <2>1. CASE s.obj[o].cnt > 1
    BY <1>1, <2>1 DEF inode_close, Fields
  <2>2. CASE ~(s.obj[o].cnt > 1)
    BY <1>1, <2>2 DEF inode_close, Fields
  <2> QED BY <2>1, <2>2
<1>3. Only({"obj", "list"}, s, c) /\ Only({"obj", "list"}, u, e)
  BY <1>1, CloseOnly
<1> HIDE DEF c, e
<1>4. Only({"slot", "fds", "dirs"}, c, t) /\ Fine(d0, e, L)
  BY DEF c, e
<1>5. /\ t.err = e.err /\ t.bbits = e.bbits /\ t.ibits = e.ibits /\ t.obj = e.obj
      /\ t.list = e.list /\ t.slot = e.slot /\ t.fds = e.fds /\ t.dirs = e.dirs
      /\ t.d = e.d /\ t.out = e.out /\ DOMAIN t = Fields
  BY <1>2, <1>3, <1>4 DEF Only, Fields
<1> QED BY <1>4, <1>5 DEF Fine, Good, Shape, MemTyped, Exact, Refs

\* The slot that get_free_slot_in_global finds is free.
LEMMA FreeSlot ==
  ASSUME NEW s, NEW f, f = get_free_slot_in_global(s), ~(f > MAX_FILE_OPEN)
  PROVE  f \in Slots /\ s.slot[f].obj = NoObj
<1> DEFINE U == {g \in Slots : s.slot[g].obj = NoObj}
           T == U \cup {MAX_FILE_OPEN + 1}
<1>1. T \in SUBSET Nat /\ T # {}
  <2>1. U \subseteq Nat
    BY Numbers
  <2>2. MAX_FILE_OPEN + 1 \in Nat
    BY Sizes
  <2> HIDE DEF U
  <2> QED BY <2>1, <2>2
<1>2. f = Min(T)
  BY DEF get_free_slot_in_global
<1> HIDE DEF T
<1>3. f \in T
  BY <1>1, <1>2, MinIn
<1> QED BY <1>3, Sizes DEF T

\* The entry, the parent, the inode and the bitmap are written; the bitmaps are equal again.
LEMMA NewEntryOK ==
  ASSUME NEW d0, NEW s, NEW parent, NEW e, NEW inode, NEW no, Good(d0, s), no = e.ino,
         s.err = "none" => /\ parent \in Objs /\ no \in Inodes /\ s.d.ibits \ {no} = s.ibits \ {no}
                           /\ [no |-> inode.no, size |-> inode.size, sect |-> inode.sect]
                                \in DiskInodes
  PROVE  LET t == NewEntry(s, parent, e, inode)
         IN  /\ Good(d0, t) /\ SameRefs(s, t) /\ Step(s, t)
             /\ t.err = "none" => t.d.ibits = t.ibits /\ (Exact(s) => Exact(t))
<1> DEFINE a == sync_dir_entry(s, parent, e)
           b == SyncOpen(a, parent)
           c == inode_sync(b, inode)
           t == bitmap_sync(c, no, "INODE")
<1>1. NewEntry(s, parent, e, inode) = t
  BY DEF NewEntry
<1>2. Content(d0, s, a)
  BY SyncEntryOK
<1> HIDE DEF a
<1>3. Good(d0, a) /\ (a.err = "none" => s.err = "none")
  BY <1>2 DEF Content, Step
<1>4. Good(d0, b) /\ Same(a, b) /\ Only({"d", "out"}, a, b)
  BY <1>3, SyncOpenOK
<1> HIDE DEF b
<1>5. Content(d0, a, b) /\ (b.err = "none" => s.err = "none")
  BY <1>3, <1>4, ContentOnly DEF Same, SameBits
<1>6. Good(d0, c) /\ Same(b, c) /\ Only({"d", "out"}, b, c)
  BY <1>4, <1>5, SyncInodeOK
<1> HIDE DEF c
<1>7. Content(d0, b, c)
  BY <1>6, ContentOnly
<1>8. Content(d0, s, b)
  BY <1>2, <1>5, ContentTrans
<1>9. Content(d0, s, c)
  BY <1>7, <1>8, ContentTrans
<1>10. c.err = "none" => /\ s.err = "none" /\ c.ibits = s.ibits /\ c.d.ibits = s.d.ibits
                         /\ Exact(s) => Exact(c)
  BY <1>9 DEF Content, Same, SameBits
<1>11. /\ Good(d0, t) /\ Only({"d", "out"}, c, t)
       /\ t.err = "none" => t.d.ibits = t.ibits
       /\ t.err = "none" /\ Exact(c) => Exact(t)
  BY <1>6, <1>10, SyncInodes
<1> HIDE DEF t
<1>12. /\ t.err = c.err /\ t.obj = c.obj /\ t.list = c.list /\ t.slot = c.slot /\ t.fds = c.fds
       /\ t.dirs = c.dirs
  BY <1>11 DEF Only, Fields
<1>13. Step(c, t)
  BY <1>11, <1>12, StepOnly
<1>14. Step(s, t)
  BY <1>9, <1>13, StepTrans DEF Content
<1>15. SameRefs(s, t)
  BY <1>9, <1>12 DEF Content, Same, SameRefs
<1> QED BY <1>1, <1>10, <1>11, <1>12, <1>14, <1>15

\* The new inode of file_create.
NewInode(no) == [no |-> no, size |-> 0, sect |-> Zeros(TableIdx), cnt |-> 1, deny |-> FALSE]

\* It is well formed, in memory and on disk.
LEMMA NewInodeOK ==
  ASSUME NEW no \in Inodes
  PROVE  /\ NewInode(no) \in OpenInodes /\ NewInode(no).cnt = 1
         /\ [no |-> NewInode(no).no, size |-> NewInode(no).size, sect |-> NewInode(no).sect]
              \in DiskInodes
<1>1. Zeros(TableIdx) \in [1..TableIdx -> {0}]
  BY Sizes, ZerosType
<1>2. NewInode(no) \in OpenInodes /\ NewInode(no).cnt = 1
  BY <1>1 DEF NewInode, OpenInodes
<1> QED BY <1>2, PureInode

\* file_create: the file is open and has a descriptor, or nothing happened.
LEMMA FileCreateOK ==
  ASSUME NEW d0, NEW s, NEW parent, NEW name, NEW w \in BOOLEAN, NEW L \in Local, Fine(d0, s, L),
         s.err = "none" => parent \in Objs
  PROVE  Fine(d0, file_create(s, parent, name, w), L)
<1> DEFINE x == inode_bitmap_alloc(s)
           no == x.r
           free == FreeObjs(x)
           f == get_free_slot_in_global(x)
           o == Min(free)
           e == Entry(name, no, "FT_REGULAR")
           i == NewInode(no)
           undone == [x EXCEPT !.ibits = @ \ {no}, !.r = -1]
           y == NewEntry(x, parent, e, i)
           z == [y EXCEPT !.obj[o] = i, !.list = list_push(@, o), !.slot[f] = OpenFile(o, w)]
           t == file_create(s, parent, name, w)
<1>1. \/ x.err # "none" /\ t = x
      \/ x.err = "none" /\ (free = {} \/ f > MAX_FILE_OPEN) /\ t = undone
      \/ x.err = "none" /\ free # {} /\ ~(f > MAX_FILE_OPEN) /\ t = pcb_fd_install(z, f)
  BY DEF file_create, NewInode
<1>2. DOMAIN s = Fields /\ Good(d0, s)
  BY DEF Fine, Good, Shape
<1>3. /\ Good(d0, x) /\ Only({"ibits", "r", "err"}, s, x)
      /\ x.err = "none" => /\ s.err = "none" /\ no \in Inodes /\ no \notin s.ibits
                           /\ x.ibits = s.ibits \cup {no}
  BY <1>2, AllocInode
<1> HIDE DEF x, t
<1>4. CASE x.err # "none"
  BY <1>1, <1>3, <1>4 DEF Fine, t
<1>5. CASE x.err = "none" /\ (free = {} \/ f > MAX_FILE_OPEN)
  <2>1. t = undone
    BY <1>1, <1>5
  <2>2. Only({"r", "all"}, s, t)
    <3>1. DOMAIN x = Fields
      BY <1>3 DEF Only
    <3>2. Only({"ibits", "r"}, x, t) /\ t.ibits = x.ibits \ {no}
      BY <2>1, <3>1 DEF Only, Fields
    <3>3. t.ibits = s.ibits
      BY <1>3, <1>5, <3>2
    <3>4. x.err = s.err
      BY <1>3, <1>5
    <3> QED BY <1>3, <3>2, <3>3, <3>4 DEF Only, Fields
  <2>3. Good(d0, t) /\ Same(s, t)
    BY <1>2, <2>2, Touched
  <2> QED BY <2>3, SameFine DEF t
<1>6. CASE x.err = "none" /\ free # {} /\ ~(f > MAX_FILE_OPEN)
  <2>1. t = pcb_fd_install(z, f)
    BY <1>1, <1>6
  <2>2. f \in Slots /\ x.slot[f].obj = NoObj
    BY <1>6, FreeSlot
  <2>3. o \in Objs /\ x.obj[o].cnt = 0
    <3>1. free \in SUBSET Nat
      BY Numbers DEF FreeObjs
    <3> HIDE DEF free
    <3>2. o \in free
      BY <1>6, <3>1, MinIn
    <3> QED BY <3>2 DEF free, FreeObjs
  <2>4. i \in OpenInodes /\ i.cnt = 1 /\ [no |-> i.no, size |-> i.size, sect |-> i.sect] \in DiskInodes
    BY <1>3, <1>6, NewInodeOK
  <2>5. no = e.ino
    BY DEF Entry
  <2>6. /\ x.slot = s.slot /\ x.fds = s.fds /\ x.dirs = s.dirs /\ x.list = s.list /\ x.obj = s.obj
        /\ x.d = s.d /\ x.bbits = s.bbits
    BY <1>3 DEF Only, Fields
  <2> HIDE DEF i, e, o, f, free
  <2>7. /\ parent \in Objs /\ no \in Inodes /\ x.d.ibits \ {no} = x.ibits \ {no} /\ s.err = "none"
        /\ Exact(x)
    BY <1>3, <1>6, <2>6 DEF Fine, Exact
  <2> HIDE DEF no
  <2>8. /\ Good(d0, y) /\ SameRefs(x, y) /\ Step(x, y)
        /\ y.err = "none" => y.d.ibits = y.ibits /\ (Exact(x) => Exact(y))
    BY <1>3, <2>4, <2>5, <2>7, NewEntryOK
  <2> HIDE DEF y
  <2>9. DOMAIN y = Fields
    BY <2>8 DEF Step, Only
  <2>10. CASE y.err # "none"
    <3>1. z.err # "none" /\ z.d = y.d /\ z.out = y.out /\ DOMAIN z = Fields
      BY <2>9, <2>10 DEF Fields
    <3> HIDE DEF z
    <3>2. Good(d0, z)
      BY <2>8, <3>1, Failed
    <3>3. Fine(d0, z, L)
      BY <3>1, <3>2 DEF Fine
    <3> QED BY <2>1, <3>1, <3>3, InstallOK DEF t
  <2>11. CASE y.err = "none"
    <3>1. SameRefs(s, y)
      BY <2>6, <2>8 DEF SameRefs
    <3>2. Fine(d0, y, L)
      BY <2>7, <2>8, <3>1, BitsFine
    <3> DEFINE z1 == [y EXCEPT !.obj[o] = i, !.list = list_push(@, o)]
               v == OpenFile(o, w)
    <3>3. /\ Only({"obj", "list"}, y, z1) /\ z1.obj = [y.obj EXCEPT ![o] = i]
          /\ z1.list = list_push(y.list, o)
      BY <2>9 DEF Only, Fields
    <3>4. y.obj[o].cnt = 0 /\ y.slot = x.slot
      BY <2>3, <2>8, <2>11 DEF SameRefs
    <3>5. z = [z1 EXCEPT !.slot[f] = v]
      BY <2>9 DEF Fields
    <3> HIDE DEF z1, z
    <3>6. Fine(d0, z1, Plus(L, o))
      BY <2>3, <2>4, <2>11, <3>2, <3>3, <3>4, Pushed
    <3>7. v \in [obj : Objs \cup {NoObj}, w : BOOLEAN, pos : Int] /\ v.obj = o
      BY <2>3 DEF OpenFile
    <3> HIDE DEF v
    <3>8. z1.err = "none" /\ z1.slot[f].obj = NoObj /\ DOMAIN z1 = Fields
      BY <2>2, <2>11, <3>3, <3>4 DEF Only, Fields
    <3>9. Only({"slot", "r"}, z1, z) /\ z.slot = [z1.slot EXCEPT ![f] = v]
      BY <3>5, <3>8 DEF Only, Fields
    <3>10. Fine(d0, z, L)
      BY <2>2, <2>3, <3>6, <3>7, <3>8, <3>9, SlotTaken
    <3>11. z.slot[f].obj = o
      <4>1. DOMAIN z1.slot = Slots
        BY <3>6, <3>8 DEF Fine, Good, MemTyped
      <4> QED BY <2>2, <3>7, <3>9, <4>1
    <3>12. z.slot[f].obj # NoObj
      BY <2>3, <3>11, Numbers
    <3> QED BY <2>1, <2>2, <3>10, <3>12, InstallOK DEF t
  <2> QED BY <2>10, <2>11
<1> QED BY <1>1, <1>4, <1>5, <1>6

\* file_open: the slot holds the reference, also when a second writer is turned away.
LEMMA FileOpenOK ==
  ASSUME NEW d0, NEW s, NEW no, NEW w \in BOOLEAN, NEW L \in Local, Fine(d0, s, L)
  PROVE  Fine(d0, file_open(s, no, w), L)
<1> DEFINE f == get_free_slot_in_global(s)
           x == inode_open(s, no)
           v == OpenFile(x.r, w)
           y == [x EXCEPT !.slot[f] = v]
           z1 == [y EXCEPT !.r = -1]
           i == [y.obj[y.r] EXCEPT !.deny = @ \/ w]
           z2 == [y EXCEPT !.obj[y.r].deny = @ \/ w]
           none == [s EXCEPT !.r = -1]
           t == file_open(s, no, w)
<1>1. \/ f > MAX_FILE_OPEN /\ t = none
      \/ ~(f > MAX_FILE_OPEN) /\ (t = z1 \/ t = pcb_fd_install(z2, f))
  BY DEF file_open
<1>2. DOMAIN s = Fields /\ Good(d0, s)
  BY DEF Fine, Good, Shape
<1> HIDE DEF t
<1>3. CASE f > MAX_FILE_OPEN
  <2>1. Only({"r", "all"}, s, none)
    BY <1>2 DEF Only, Fields
  <2> HIDE DEF none
  <2>2. Good(d0, none) /\ Same(s, none)
    BY <1>2, <2>1, Touched
  <2> QED BY <1>1, <1>3, <2>2, SameFine DEF t
<1>4. CASE ~(f > MAX_FILE_OPEN)
  <2>1. f \in Slots /\ s.slot[f].obj = NoObj
    BY <1>4, FreeSlot
  <2> HIDE DEF f
  <2>2. /\ Fine(d0, x, Plus(L, x.r)) /\ Only({"obj", "list", "r", "err"}, s, x)
        /\ x.err = "none" => s.err = "none" /\ x.r \in Objs
    BY OpenOK
  <2> HIDE DEF x
  <2>3. DOMAIN x = Fields /\ x.slot = s.slot
    BY <2>2 DEF Only, Fields
  <2>4. /\ Only({"slot", "r"}, x, y) /\ y.slot = [x.slot EXCEPT ![f] = v] /\ y.r = x.r
        /\ y.err = x.err /\ y.d = x.d /\ y.out = x.out /\ DOMAIN y = Fields
    BY <2>3 DEF Only, Fields
  <2>5. x.err = "none" => v \in [obj : Objs \cup {NoObj}, w : BOOLEAN, pos : Int] /\ v.obj = x.r
    BY <2>2 DEF OpenFile
  <2> HIDE DEF y, v
  <2>6. Fine(d0, y, L)
    <3>1. CASE x.err # "none"
      <4>1. Good(d0, x)
        BY <2>2 DEF Fine
      <4>2. Good(d0, y)
        BY <2>4, <3>1, <4>1, Failed
      <4> QED BY <2>4, <3>1, <4>2 DEF Fine
    <3>2. CASE x.err = "none"
      <4> DEFINE o == x.r
      <4>1. o \in Objs /\ x.slot[f].obj = NoObj /\ v.obj = o
        BY <2>1, <2>2, <2>3, <2>5, <3>2
      <4> HIDE DEF o
      <4>2. Fine(d0, x, Plus(L, o))
        BY <2>2 DEF o
      <4> QED BY <2>1, <2>4, <2>5, <3>2, <4>1, <4>2, SlotTaken
    <3> QED BY <3>1, <3>2
  <2>7. Fine(d0, z1, L)
    <3>1. Only({"r", "all"}, y, z1)
      BY <2>4 DEF Only, Fields
    <3> HIDE DEF z1
    <3>2. Good(d0, z1) /\ Same(y, z1)
      BY <2>6, <3>1, Touched DEF Fine
    <3> QED BY <2>6, <3>2, SameFine
  <2>8. Fine(d0, z2, L) /\ z2.slot = y.slot /\ z2.err = y.err
    <3>1. Only({"obj", "r", "all"}, y, z2) /\ z2.obj = [y.obj EXCEPT ![y.r] = i]
      BY <2>4 DEF Only, Fields
    <3>2. ASSUME y.err = "none" PROVE i \in OpenInodes /\ i.cnt = y.obj[y.r].cnt
      <4> DEFINE j == y.obj[y.r]
      <4>1. j \in OpenInodes
        BY <2>2, <2>4, <2>6, <3>2 DEF Fine, Good, MemTyped
      <4> HIDE DEF j
      <4>2. /\ [j EXCEPT !.deny = j.deny \/ w] \in OpenInodes
            /\ [j EXCEPT !.deny = j.deny \/ w].cnt = j.cnt
        BY <4>1 DEF OpenInodes
      <4> QED BY <4>2 DEF j
    <3> HIDE DEF z2, i
    <3> DEFINE o == y.r
    <3>3. z2.obj = [y.obj EXCEPT ![o] = i] /\ (y.err = "none" => i \in OpenInodes /\ i.cnt = y.obj[o].cnt)
      BY <3>1, <3>2
    <3> HIDE DEF o
    <3>4. Good(d0, z2) /\ Same(y, z2)
      <4>1. Good(d0, y) /\ Only({"obj", "r", "all"}, y, z2)
        BY <2>6, <3>1 DEF Fine
      <4> QED BY <3>3, <4>1, ObjChanged
    <3>5. z2.slot = y.slot /\ z2.err = y.err
      BY <3>1 DEF Only, Fields
    <3> QED BY <2>6, <3>4, <3>5, SameFine
  <2> HIDE DEF z1, z2
  <2>9. z2.err = "none" => z2.slot[f].obj # NoObj
    <3>1. SUFFICES ASSUME z2.err = "none" PROVE z2.slot[f].obj # NoObj
      OBVIOUS
    <3>2. x.err = "none" /\ v.obj = x.r /\ x.r \in Objs
      BY <2>2, <2>4, <2>5, <2>8, <3>1
    <3>3. DOMAIN x.slot = Slots
      BY <2>2, <3>2 DEF Fine, Good, MemTyped
    <3>4. z2.slot[f] = v
      BY <2>1, <2>4, <2>8, <3>3
    <3> QED BY <3>2, <3>4, Numbers
  <2>10. Fine(d0, pcb_fd_install(z2, f), L)
    BY <2>1, <2>8, <2>9, InstallOK
  <2> QED BY <1>1, <1>4, <2>7, <2>10 DEF t
<1> QED BY <1>3, <1>4

\* sys_close: the object is closed and no slot points at it any more.
LEMMA CloseFileOK ==
  ASSUME NEW d0, NEW s, NEW f, Fine(d0, s, Zero), s.err = "none", f \in s.fds
  PROVE  Fine(d0, [disk_file_release(s, f) EXCEPT !.slot[f] = NoFile, !.fds = @ \ {f}], Zero)
<1> DEFINE o == s.slot[f].obj
           i == [s.obj[o] EXCEPT !.deny = FALSE]
           x == [s EXCEPT !.obj[o].deny = FALSE]
           y == [x EXCEPT !.slot[f] = NoFile, !.fds = @ \ {f}]
           c == inode_close(x, o)
           t == [c EXCEPT !.slot[f] = NoFile, !.fds = @ \ {f}]
<1>1. DOMAIN s = Fields /\ Good(d0, s) /\ MemTyped(s)
  BY DEF Fine, Good, Shape
<1>2. f \in Slots /\ o \in Objs
  BY <1>1 DEF MemTyped
<1>3. Only({"obj", "r", "all"}, s, x) /\ x.obj = [s.obj EXCEPT ![o] = i] /\ x.err = "none" /\ x.slot = s.slot
  BY <1>1 DEF Only, Fields
<1>4. i \in OpenInodes /\ i.cnt = s.obj[o].cnt
  <2> DEFINE j == s.obj[o]
  <2>1. j \in OpenInodes
    BY <1>1, <1>2 DEF MemTyped
  <2> HIDE DEF j
  <2>2. [j EXCEPT !.deny = FALSE] \in OpenInodes /\ [j EXCEPT !.deny = FALSE].cnt = j.cnt
    BY <2>1 DEF OpenInodes
  <2> QED BY <2>2 DEF j
<1>5. [disk_file_release(s, f) EXCEPT !.slot[f] = NoFile, !.fds = @ \ {f}] = t
  BY DEF disk_file_release
<1>6. x.slot[f].obj = o
  BY <1>3
<1> HIDE DEF x, i, o
<1>7. Good(d0, x) /\ Same(s, x)
  BY <1>1, <1>3, <1>4, ObjChanged
<1>8. Fine(d0, x, Zero)
  BY <1>7, SameFine
<1>9. Fine(d0, y, One(o))
  BY <1>2, <1>3, <1>6, <1>8, SlotFreed
<1>10. One(o) \in Local /\ One(o)[o] = 1 /\ Minus(One(o), o) = Zero
  BY <1>2, LocalFacts DEF One
<1>11. DOMAIN x = Fields
  BY <1>3 DEF Only
<1>12. DOMAIN c = Fields /\ c.slot = x.slot /\ c.fds = x.fds /\ c.dirs = x.dirs
  <2>1. Only({"obj", "list"}, x, c)
    BY <1>11, CloseOnly
  <2> HIDE DEF c
  <2> QED BY <2>1 DEF Only, Fields
<1>13. /\ Only({"slot", "fds", "dirs"}, x, y)
       /\ y.slot = [x.slot EXCEPT ![f] = NoFile] /\ y.fds = x.fds \ {f} /\ y.dirs = x.dirs
  BY <1>11 DEF Only, Fields
<1> HIDE DEF y
<1>14. Fine(d0, inode_close(y, o), Zero)
  BY <1>2, <1>9, <1>10, CloseOK
<1>15. /\ Only({"slot", "fds", "dirs"}, c, t)
       /\ t.slot = [c.slot EXCEPT ![f] = NoFile] /\ t.fds = c.fds \ {f} /\ t.dirs = c.dirs
  <2> HIDE DEF c
  <2> QED BY <1>12 DEF Only, Fields
<1>16. t.slot = y.slot /\ t.fds = y.fds /\ t.dirs = y.dirs
  BY <1>12, <1>13, <1>15
<1> HIDE DEF t
<1>17. Fine(d0, t, Zero)
  BY <1>11, <1>13, <1>14, <1>15, <1>16, CloseCommutes
<1> QED BY <1>5, <1>17

-----------------------------------------------------------------------------
(* file.c: writing and reading *)

\* As Content, but the block bitmap on disk may lag behind.
Lagging(d0, s, t) ==
    /\ Good(d0, t) /\ SameRefs(s, t) /\ Step(s, t)
    /\ t.err = "none" => t.ibits = s.ibits /\ t.d.ibits = s.d.ibits

\* Such steps one after the other.
LEMMA LaggingTrans ==
  ASSUME NEW d0, NEW s, NEW t, NEW u, Lagging(d0, s, t), Lagging(d0, t, u)
  PROVE  Lagging(d0, s, u)
<1>1. Step(s, u)
  BY StepTrans DEF Lagging
<1>2. u.err = "none" => t.err = "none"
  BY DEF Lagging, Step
<1> QED BY <1>1, <1>2 DEF Lagging, SameRefs

\* The two kinds of step.
LEMMA LaggingContent ==
  ASSUME NEW d0, NEW s, NEW t
  PROVE  /\ Content(d0, s, t) => Lagging(d0, s, t) /\ (t.err = "none" /\ Exact(s) => Exact(t))
         /\ Lagging(d0, s, t) /\ (t.err = "none" /\ Exact(s) => Exact(t)) => Content(d0, s, t)
BY DEF Content, Lagging, Same, SameBits, Step

\* Nothing happens.
LEMMA ContentSelf ==
  ASSUME NEW d0, NEW s, Good(d0, s)
  PROVE  Content(d0, s, s)
BY DEF Content, Same, SameBits, SameRefs, Step, Only, Good, Shape

\* A block for index k; afterwards the block bitmap on disk is the one in memory.
LEMMA GrowOK ==
  ASSUME NEW d0, NEW s, NEW o, NEW k, Good(d0, s), s.err = "none" => o \in Objs
  PROVE  LET t == GrowBy(s, o, k)
         IN  Content(d0, s, t) /\ (t.err = "none" => Exact(t))
<1> DEFINE full == [s EXCEPT !.err = "i_sectors"]
           x == NewBlock(s)
           sect == IF k <= NDirect THEN [x.obj[o].sect EXCEPT ![k] = x.r] ELSE x.obj[o].sect
           i == [x.obj[o] EXCEPT !.sect = sect]
           y == [x EXCEPT !.all[k] = x.r, !.obj[o].sect = sect]
           t == GrowBy(s, o, k)
<1>1. t = full \/ t = y
  BY DEF GrowBy
<1> HIDE DEF t
<1>2. Content(d0, s, full) /\ full.err # "none"
  <2>1. /\ DOMAIN full = Fields /\ full.d = s.d /\ full.out = s.out /\ full.err # "none"
        /\ Only({"err"}, s, full)
    BY DEF Only, Fields, Good, Shape
  <2> HIDE DEF full
  <2> QED BY <2>1, Failed, ContentOnly
<1>3. Content(d0, s, x) /\ Good(d0, x) /\ (x.err = "none" => s.err = "none" /\ x.r \in Blocks /\ Exact(x))
  <2>1. /\ Good(d0, x) /\ Same(s, x) /\ Only({"d", "out", "bbits", "r", "err"}, s, x)
        /\ x.err = "none" => x.r \in Blocks /\ Exact(x)
    BY NewBlockOK
  <2> HIDE DEF x
  <2> QED BY <2>1, ContentOnly DEF Same, SameBits
<1> HIDE DEF x
<1>4. DOMAIN x = Fields
  BY <1>3 DEF Good, Shape
<1>5. Only({"obj", "r", "all"}, x, y) /\ y.obj = [x.obj EXCEPT ![o] = i]
  <2> HIDE DEF sect
  <2> QED BY <1>4 DEF Only, Fields
<1>6. ASSUME x.err = "none" PROVE i \in OpenInodes /\ i.cnt = x.obj[o].cnt
  <2> DEFINE j == x.obj[o]
  <2>1. j \in OpenInodes
    BY <1>3, <1>6 DEF Good, MemTyped
  <2> HIDE DEF j
  <2>2. sect \in [1..TableIdx -> Blocks \cup {0}]
    <3>1. j.sect \in [1..TableIdx -> Blocks \cup {0}] /\ x.r \in Blocks
      BY <1>3, <1>6, <2>1 DEF OpenInodes
    <3>2. sect = IF k <= NDirect THEN [j.sect EXCEPT ![k] = x.r] ELSE j.sect
      BY DEF j
    <3> QED BY <3>1, <3>2
  <2> HIDE DEF sect
  <2>3. [j EXCEPT !.sect = sect] \in OpenInodes /\ [j EXCEPT !.sect = sect].cnt = j.cnt
    BY <2>1, <2>2 DEF OpenInodes
  <2> QED BY <2>3 DEF j
<1> HIDE DEF i, y
<1>7. Good(d0, y) /\ Same(x, y)
  BY <1>3, <1>5, <1>6, ObjChanged
<1>8. Content(d0, x, y)
  BY <1>5, <1>7, ContentOnly
<1>9. Content(d0, s, y)
  BY <1>3, <1>8, ContentTrans
<1>10. y.err = "none" => Exact(y)
  BY <1>3, <1>7 DEF Same, SameBits
<1> HIDE DEF full
<1> QED BY <1>1, <1>2, <1>9, <1>10 DEF t

\* The indirect table is marked in memory only.
LEMMA NewTableOK ==
  ASSUME NEW d0, NEW s, NEW o, Good(d0, s)
  PROVE  Lagging(d0, s, NewTable(s, o))
<1> DEFINE full == [s EXCEPT !.err = "i_sectors_12"]
           x == block_bitmap_alloc(s)
           v == x.r
           y == [x EXCEPT !.obj[o].sect[TableIdx] = v]
<1>1. NewTable(s, o) = full \/ NewTable(s, o) = y
  BY DEF NewTable
<1>2. Lagging(d0, s, full)
  <2>1. /\ DOMAIN full = Fields /\ full.d = s.d /\ full.out = s.out /\ full.err # "none"
        /\ Only({"err"}, s, full)
    BY DEF Only, Fields, Good, Shape
  <2> HIDE DEF full
  <2> QED BY <2>1, Failed, ContentOnly, LaggingContent
<1>3. /\ Good(d0, x) /\ Only({"bbits", "r", "err"}, s, x)
      /\ x.err = "none" => s.err = "none" /\ v \in Blocks \cup {0}
  BY AllocBlock
<1> HIDE DEF x
<1>4. Lagging(d0, s, x)
  <2>1. /\ x.ibits = s.ibits /\ x.obj = s.obj /\ x.list = s.list /\ x.slot = s.slot
        /\ x.fds = s.fds /\ x.dirs = s.dirs /\ x.d = s.d
    BY <1>3 DEF Only, Fields
  <2> QED BY <1>3, <2>1, StepOnly DEF Lagging, SameRefs
<1> HIDE DEF v
<1>5. Good(d0, y) /\ Same(x, y) /\ Only({"obj"}, x, y)
  BY <1>3, SectSet
<1> HIDE DEF y, full
<1>6. Lagging(d0, x, y)
  BY <1>5, ContentOnly, LaggingContent
<1> QED BY <1>1, <1>2, <1>4, <1>6, LaggingTrans

\* The loop of file_write that allocates blocks.
LEMMA GrowRuns ==
  ASSUME NEW s, NEW o, NEW has, NEW n \in Nat
  PROVE  \E F : /\ F[0] = s /\ GrowMore(s, o, has, n) = F[n]
               /\ \A k \in 1..n : F[k] = GrowBy(F[k - 1], o, has + k)
<1> DEFINE Rec(f, m) == f = [k \in 0..m |-> IF k = 0 THEN s ELSE GrowBy(f[k - 1], o, has + k)]
           T == {m \in Nat : ~ \E f : Rec(f, m)}
<1>1. T = {}
  <2>1. SUFFICES ASSUME T # {} PROVE FALSE
    OBVIOUS
  <2>2. PICK m \in T : \A y \in T : m <= y
    <3> HIDE DEF T
    <3>1. T \in SUBSET Nat
      BY DEF T
    <3> QED BY <2>1, <3>1, LeastExists
  <2>3. m # 0
    <3> DEFINE g == [k \in 0..0 |-> s]
    <3>1. Rec(g, 0)
      OBVIOUS
    <3> QED BY <2>2, <3>1
  <2>4. PICK f : Rec(f, m - 1)
    <3>1. m - 1 \in Nat /\ m - 1 \notin T
      <4> HIDE DEF T
      <4>1. m \in Nat
        BY DEF T
      <4> QED BY <2>2, <2>3, <4>1
    <3> HIDE DEF Rec
    <3> QED BY <3>1
  <2> DEFINE g == [k \in 0..m |-> IF k < m THEN f[k] ELSE GrowBy(f[m - 1], o, has + m)]
  <2>5. Rec(g, m)
    BY <2>2, <2>3, <2>4
  <2> QED BY <2>2, <2>5
<1> DEFINE E == CHOOSE f : Rec(f, n)
<1>2. Rec(E, n)
  <2>1. n \in Nat
    BY Sizes
  <2> HIDE DEF Rec
  <2>2. \E f : Rec(f, n)
    BY <1>1, <2>1
  <2> QED BY <2>2, Zenon DEF E
<1>3. GrowMore(s, o, has, n) = E[n]
  BY Zenon DEF GrowMore, Loop, E, Rec
<1> HIDE DEF E
<1>4. E[0] = s /\ \A k \in 1..n : E[k] = GrowBy(E[k - 1], o, has + k)
  BY <1>2, Sizes
<1> HIDE DEF Rec
<1> QED BY <1>3, <1>4

\* New blocks; after at least one the block bitmap on disk has caught up.
LEMMA GrowMoreOK ==
  ASSUME NEW d0, NEW s, NEW o, NEW has, NEW n \in Nat, Good(d0, s), s.err = "none" => o \in Objs
  PROVE  LET t == GrowMore(s, o, has, n)
         IN  Lagging(d0, s, t) /\ (t.err = "none" /\ (n > 0 \/ Exact(s)) => Exact(t))
<1>1. PICK F : /\ F[0] = s /\ GrowMore(s, o, has, n) = F[n]
               /\ \A k \in 1..n : F[k] = GrowBy(F[k - 1], o, has + k)
  BY GrowRuns
<1> DEFINE Kept(x, k) == Lagging(d0, s, x) /\ (x.err = "none" /\ (k > 0 \/ Exact(s)) => Exact(x))
           T == {k \in 0..n : Kept(F[k], k)}
<1>2. Kept(s, 0)
  BY ContentSelf, LaggingContent
<1>3. ASSUME NEW k \in 1..n, Kept(F[k - 1], k - 1)
      PROVE  Kept(F[k], k)
  <2> DEFINE x == F[k - 1]
             b == has + k
             y == GrowBy(x, o, b)
  <2>1. Lagging(d0, s, x) /\ F[k] = y
    BY <1>1, <1>3
  <2> HIDE DEF x, y, b
  <2>2. Good(d0, x) /\ (x.err = "none" => o \in Objs)
    BY <2>1 DEF Lagging, Step
  <2>3. Content(d0, x, y) /\ (y.err = "none" => Exact(y))
    BY <2>2, GrowOK DEF y
  <2>4. Lagging(d0, s, y)
    BY <2>1, <2>3, LaggingContent, LaggingTrans
  <2> QED BY <2>1, <2>3, <2>4
<1> HIDE DEF Kept
<1>4. 0 \in T
  BY <1>1, <1>2
<1>5. \A k \in 1..n : k - 1 \in T => k \in T
  BY <1>3
<1>6. n \in T
  <2> HIDE DEF T
  <2> QED BY <1>4, <1>5, AllRounds
<1> QED BY <1>1, <1>6 DEF Kept

\* How many rounds a loop takes.
LEMMA RoundsFacts ==
  ASSUME NEW a \in Int, NEW b \in Int
  PROVE  Rounds(a, b) \in Nat /\ (a <= b => Rounds(a, b) > 0)
BY DEF Rounds

\* The blocks that file_write needs.  A new table lags behind only until the
\* block that follows it.
LEMMA BlocksForWriteOK ==
  ASSUME NEW d0, NEW s, NEW o, NEW n \in Nat, Good(d0, s), s.err = "none" => o \in Objs
  PROVE  Content(d0, s, BlocksForWrite(s, o, n))
<1> DEFINE has  == s.obj[o].size \div BLOCK_SIZE + 1
           will == (s.obj[o].size + n) \div BLOCK_SIZE + 1
           g == IF s.obj[o].sect[1] = 0 THEN GrowBy(s, o, 1) ELSE s
           full == [g EXCEPT !.err = "file_will_use_blocks"]
           c == [g EXCEPT !.all = all_blocks(g.d, g.obj[o])]
           b == IF has <= NDirect /\ will > NDirect THEN NewTable(c, o) ELSE c
           m == Rounds(has + 1, will)
           x == GrowMore(b, o, has, m)
           at == x.obj[o].sect[TableIdx]
           val == [kind |-> "table", c |-> SubSeq(x.all, NDirect + 1, Total)]
           y == IF will <= NDirect THEN x ELSE ide_write(x, Write("block", at, val))
           t == BlocksForWrite(s, o, n)
<1>1. \/ g.err # "none" /\ t = g
      \/ t = full
      \/ t = c
      \/ g.err = "none" /\ t = y
  <2>1. t = CASE g.err # "none" -> g
              [] g.err = "none" /\ will > Total -> full
              [] g.err = "none" /\ will <= Total /\ has = will -> c
              [] OTHER -> y
    BY Zenon DEF BlocksForWrite
  <2> HIDE DEF t, g, full, c, y, will, has
  <2> QED BY <2>1
<1> HIDE DEF t
<1>2. Content(d0, s, g)
  BY GrowOK, ContentSelf
<1> HIDE DEF g
<1>3. Good(d0, g) /\ DOMAIN g = Fields /\ (g.err = "none" => s.err = "none" /\ o \in Objs)
  BY <1>2 DEF Content, Step, Only
<1>4. Content(d0, g, full)
  <2>1. /\ DOMAIN full = Fields /\ full.d = g.d /\ full.out = g.out /\ full.err # "none"
        /\ Only({"err"}, g, full)
    BY <1>3 DEF Only, Fields
  <2> HIDE DEF full
  <2> QED BY <1>3, <2>1, Failed, ContentOnly
<1>5. Content(d0, g, c)
  <2>1. Only({"r", "all"}, g, c)
    BY <1>3 DEF Only, Fields
  <2> HIDE DEF c
  <2> QED BY <1>3, <2>1, Touched, ContentOnly
<1> HIDE DEF c, full
<1>6. CASE g.err = "none" /\ t = y
  <2>1. has \in Int /\ will \in Int
    <3>1. s.obj[o].size \in Int /\ s.obj[o].size + n \in Int
      <4> DEFINE i == s.obj[o]
      <4>1. i \in OpenInodes
        BY <1>3, <1>6 DEF Good, MemTyped
      <4> HIDE DEF i
      <4>2. i.size \in Int
        BY <4>1 DEF OpenInodes
      <4>3. s.obj[o].size \in Int
        BY <4>2 DEF i
      <4> QED BY <4>3
    <3>2. \A z \in Int : z \div BLOCK_SIZE \in Int
      BY Sizes
    <3>3. s.obj[o].size \div BLOCK_SIZE \in Int /\ (s.obj[o].size + n) \div BLOCK_SIZE \in Int
      BY <3>1, <3>2
    <3> QED BY <3>3
  <2> HIDE DEF has, will
  <2>2. m \in Nat /\ (has < will => m > 0)
    BY <2>1, RoundsFacts
  <2>3. Good(d0, c) /\ (c.err = "none" => o \in Objs)
    BY <1>3, <1>5 DEF Content, Step
  <2>4. Lagging(d0, c, b)
    BY <2>3, NewTableOK, ContentSelf, LaggingContent
  <2>5. b = c \/ has < will
    BY <2>1, Sizes
  <2> HIDE DEF m, b
  <2>6. Good(d0, b) /\ (b.err = "none" => o \in Objs)
    BY <2>3, <2>4 DEF Lagging, Step
  <2>7. Lagging(d0, b, x) /\ (x.err = "none" /\ (m > 0 \/ Exact(b)) => Exact(x))
    BY <2>2, <2>6, GrowMoreOK
  <2> HIDE DEF x
  <2>8. Lagging(d0, c, x)
    BY <2>4, <2>7, LaggingTrans
  <2>9. x.err = "none" /\ Exact(c) => Exact(x)
    BY <2>2, <2>5, <2>7
  <2>10. Content(d0, c, x) /\ Good(d0, x)
    BY <2>8, <2>9, LaggingContent DEF Lagging
  <2> HIDE DEF at, val
  <2>11. Content(d0, x, y)
    BY <2>10, WriteBlock, ContentOnly, ContentSelf
  <2> HIDE DEF y
  <2>12. Content(d0, g, x)
    BY <1>5, <2>10, ContentTrans
  <2>13. Content(d0, s, x)
    BY <1>2, <2>12, ContentTrans
  <2>14. Content(d0, s, y)
    BY <2>11, <2>13, ContentTrans
  <2> QED BY <1>6, <2>14 DEF t
<1>7. Content(d0, s, full) /\ Content(d0, s, c)
  BY <1>2, <1>4, <1>5, ContentTrans
<1> HIDE DEF y, has, will
<1> QED BY <1>1, <1>2, <1>6, <1>7 DEF t

\* A block of data is written and the size follows.
LEMMA WriteChunkOK ==
  ASSUME NEW d0, NEW s, NEW o, NEW k, NEW from, NEW n, Good(d0, s),
         s.err = "none" => o \in Objs /\ k \in Int /\ from \in Int /\ n \in Int
  PROVE  Content(d0, s, WriteChunk(s, o, k, from, n))
<1> DEFINE no == s.obj[o].no
           b  == s.all[k]
           Pos(j) == (k - 1) * BLOCK_SIZE + j - 1
           lo == IF from > Pos(1) THEN from ELSE Pos(1)
           hi == IF from + n - 1 < Pos(BLOCK_SIZE) THEN from + n - 1 ELSE Pos(BLOCK_SIZE)
           old == s.d.block[b].c
           c  == [j \in 1..BLOCK_SIZE |-> CASE Pos(j) < lo -> old[j]
                                            [] Pos(j) \in lo..hi -> Unit(no, Pos(j))
                                            [] Pos(j) > hi -> ZeroUnit]
           val == [kind |-> "data", c |-> c]
           x == ide_write(s, Write("block", b, val))
           v == hi + 1
           y == [x EXCEPT !.obj[o].size = v]
<1>1. WriteChunk(s, o, k, from, n) = IF s.err # "none" THEN s ELSE y
  BY Zenon DEF WriteChunk
<1>2. s.err = "none" => v \in Int
  <2>1. SUFFICES ASSUME s.err = "none" PROVE v \in Int
    OBVIOUS
  <2>2. (k - 1) * BLOCK_SIZE \in Int
    BY <2>1, Sizes
  <2>3. Pos(BLOCK_SIZE) \in Int
    BY <2>2, Sizes
  <2> HIDE DEF Pos
  <2> QED BY <2>1, <2>3
<1> HIDE DEF v, val, b
<1>3. Good(d0, x) /\ Same(s, x) /\ Only({"d", "out"}, s, x)
  BY WriteBlock
<1> HIDE DEF x
<1>4. Content(d0, s, x) /\ (x.err = "none" => s.err = "none")
  BY <1>3, ContentOnly DEF Same, SameBits
<1>5. Good(d0, y) /\ Same(x, y) /\ Only({"obj"}, x, y)
  BY <1>2, <1>3, <1>4, SizeSet
<1> HIDE DEF y
<1>6. Content(d0, x, y)
  BY <1>5, ContentOnly
<1> QED BY <1>1, <1>4, <1>6, ContentTrans, ContentSelf

\* The loop of file_write over the blocks.
LEMMA ChunkRuns ==
  ASSUME NEW s, NEW o, NEW first, NEW last, NEW from, NEW n, Rounds(first, last) \in Nat
  PROVE  \E F : /\ F[0] = s /\ WriteChunks(s, o, first, last, from, n) = F[Rounds(first, last)]
               /\ \A k \in 1..Rounds(first, last) : F[k] = WriteChunk(F[k - 1], o, first + k - 1, from, n)
<1> DEFINE Rec(f, m) == f = [k \in 0..m |-> IF k = 0 THEN s ELSE WriteChunk(f[k - 1], o, first + k - 1, from, n)]
           T == {m \in Nat : ~ \E f : Rec(f, m)}
<1>1. T = {}
  <2>1. SUFFICES ASSUME T # {} PROVE FALSE
    OBVIOUS
  <2>2. PICK m \in T : \A y \in T : m <= y
    <3> HIDE DEF T
    <3>1. T \in SUBSET Nat
      BY DEF T
    <3> QED BY <2>1, <3>1, LeastExists
  <2>3. m # 0
    <3> DEFINE g == [k \in 0..0 |-> s]
    <3>1. Rec(g, 0)
      OBVIOUS
    <3> QED BY <2>2, <3>1
  <2>4. PICK f : Rec(f, m - 1)
    <3>1. m - 1 \in Nat /\ m - 1 \notin T
      <4> HIDE DEF T
      <4>1. m \in Nat
        BY DEF T
      <4> QED BY <2>2, <2>3, <4>1
    <3> HIDE DEF Rec
    <3> QED BY <3>1
  <2> DEFINE g == [k \in 0..m |-> IF k < m THEN f[k] ELSE WriteChunk(f[m - 1], o, first + m - 1, from, n)]
  <2>5. Rec(g, m)
    BY <2>2, <2>3, <2>4
  <2> QED BY <2>2, <2>5
<1> DEFINE E == CHOOSE f : Rec(f, Rounds(first, last))
<1>2. Rec(E, Rounds(first, last))
  <2>1. Rounds(first, last) \in Nat
    BY Sizes
  <2> HIDE DEF Rec
  <2>2. \E f : Rec(f, Rounds(first, last))
    BY <1>1, <2>1
  <2> QED BY <2>2, Zenon DEF E
<1>3. WriteChunks(s, o, first, last, from, n) = E[Rounds(first, last)]
  BY Zenon DEF WriteChunks, Loop, E, Rec
<1> HIDE DEF E
<1>4. E[0] = s /\ \A k \in 1..Rounds(first, last) : E[k] = WriteChunk(E[k - 1], o, first + k - 1, from, n)
  BY <1>2, Sizes
<1> HIDE DEF Rec
<1> QED BY <1>3, <1>4

\* All blocks of data are written.
LEMMA WriteChunksOK ==
  ASSUME NEW d0, NEW s, NEW o, NEW first \in Int, NEW last \in Int, NEW from \in Int, NEW n \in Int,
         Good(d0, s), s.err = "none" => o \in Objs
  PROVE  Content(d0, s, WriteChunks(s, o, first, last, from, n))
<1> DEFINE m == Rounds(first, last)
<1>1. m \in Nat
  BY RoundsFacts
<1>2. PICK F : /\ F[0] = s /\ WriteChunks(s, o, first, last, from, n) = F[m]
               /\ \A k \in 1..m : F[k] = WriteChunk(F[k - 1], o, first + k - 1, from, n)
  BY <1>1, ChunkRuns
<1> HIDE DEF m
<1> DEFINE Kept(x) == Content(d0, s, x)
           T == {k \in 0..m : Kept(F[k])}
<1>3. Kept(s)
  BY ContentSelf
<1>4. ASSUME NEW k \in 1..m, Kept(F[k - 1])
      PROVE  Kept(F[k])
  <2> DEFINE x == F[k - 1]
             b == first + k - 1
             y == WriteChunk(x, o, b, from, n)
  <2>1. Content(d0, s, x) /\ F[k] = y /\ b \in Int
    BY <1>1, <1>2, <1>4
  <2> HIDE DEF x, y, b
  <2>2. Good(d0, x) /\ (x.err = "none" => o \in Objs)
    BY <2>1 DEF Content, Step
  <2>3. Content(d0, x, y)
    BY <2>1, <2>2, WriteChunkOK DEF y
  <2>4. Content(d0, s, y)
    BY <2>1, <2>3, ContentTrans
  <2> QED BY <2>1, <2>4
<1> HIDE DEF Kept
<1>5. 0 \in T
  BY <1>1, <1>2, <1>3
<1>6. \A k \in 1..m : k - 1 \in T => k \in T
  BY <1>1, <1>4
<1>7. m \in T
  <2> HIDE DEF T
  <2> QED BY <1>1, <1>5, <1>6, AllRounds
<1> QED BY <1>2, <1>7 DEF Kept

\* fd_pos of a slot is set.
LEMMA SlotMoved ==
  ASSUME NEW d0, NEW s, NEW t, NEW f \in Slots, NEW v, NEW L, Fine(d0, s, L),
         s.err = "none" => v \in Int,
         Only({"slot", "r"}, s, t), t.slot = [s.slot EXCEPT ![f] = [s.slot[f] EXCEPT !.pos = v]]
  PROVE  Fine(d0, t, L)
<1>1. /\ t.bbits = s.bbits /\ t.ibits = s.ibits /\ t.obj = s.obj /\ t.list = s.list /\ t.fds = s.fds
      /\ t.dirs = s.dirs /\ t.d = s.d /\ t.out = s.out /\ t.err = s.err /\ DOMAIN t = Fields
  BY DEF Only, Fields
<1>2. Good(d0, s)
  BY DEF Fine
<1>3. CASE s.err # "none"
  <2>1. Good(d0, t)
    BY <1>1, <1>2, <1>3, Failed
  <2> QED BY <1>1, <1>3, <2>1 DEF Fine
<1>4. CASE s.err = "none"
  <2>1. MemTyped(s) /\ Refs(s, L) /\ s.ibits = s.d.ibits /\ Exact(s)
    BY <1>4 DEF Fine, Good
  <2>2. /\ s.slot \in [Slots -> [obj : Objs \cup {NoObj}, w : BOOLEAN, pos : Int]]
        /\ s.fds \subseteq {g \in Slots : s.slot[g].obj # NoObj}
    BY <2>1 DEF MemTyped
  <2> DEFINE a == s.slot[f]
  <2>3. a \in [obj : Objs \cup {NoObj}, w : BOOLEAN, pos : Int]
    BY <2>2
  <2> HIDE DEF a
  <2>4. /\ [a EXCEPT !.pos = v] \in [obj : Objs \cup {NoObj}, w : BOOLEAN, pos : Int]
        /\ [a EXCEPT !.pos = v].obj = a.obj
    BY <1>4, <2>3
  <2>5. /\ t.slot \in [Slots -> [obj : Objs \cup {NoObj}, w : BOOLEAN, pos : Int]]
        /\ \A g \in Slots : t.slot[g].obj = s.slot[g].obj
    BY <2>2, <2>4 DEF a
  <2>6. MemTyped(t)
    BY <1>1, <2>1, <2>2, <2>5 DEF MemTyped
  <2>7. Good(d0, t)
    BY <1>1, <1>2, <1>4, <2>6 DEF Good, Shape
  <2>8. \A p \in Objs : UsersOf(t.slot, t.dirs, p) = UsersOf(s.slot, s.dirs, p)
    BY <1>1, <2>5, UsersSame
  <2>9. Refs(t, L)
    BY <1>1, <2>1, <2>8 DEF Refs
  <2> QED BY <1>1, <2>1, <2>7, <2>9 DEF Fine, Exact
<1> QED BY <1>3, <1>4

\* The inode of a file that is open is well formed.
LEMMA SlotTyped ==
  ASSUME NEW d0, NEW s, NEW f, Good(d0, s), s.err = "none", f \in s.fds
  PROVE  /\ f \in Slots /\ s.slot[f].obj \in Objs /\ s.slot[f].pos \in Int
         /\ s.obj[s.slot[f].obj].size \in Int /\ DOMAIN s = Fields
<1>1. DOMAIN s = Fields /\ MemTyped(s)
  BY DEF Good, Shape
<1> DEFINE a == s.slot[f]
           i == s.obj[a.obj]
<1>2. f \in Slots /\ a.obj \in Objs /\ a.pos \in Int
  BY <1>1 DEF MemTyped
<1>3. i \in OpenInodes
  BY <1>1, <1>2 DEF MemTyped
<1> HIDE DEF i
<1>4. i.size \in Int
  BY <1>3 DEF OpenInodes
<1> QED BY <1>1, <1>2, <1>4 DEF i

\* file_write
LEMMA FileWriteOK ==
  ASSUME NEW d0, NEW s, NEW f, NEW n \in Nat, NEW L, Fine(d0, s, L), s.err = "none", f \in s.fds
  PROVE  Fine(d0, file_write(s, f, n), L)
<1> DEFINE o  == s.slot[f].obj
           from == s.obj[o].size
           first == from \div BLOCK_SIZE + 1
           last == (from + n - 1) \div BLOCK_SIZE + 1
           v == from + n - 1
           a == BlocksForWrite(s, o, n)
           b == WriteChunks(a, o, first, last, from, n)
           c == SyncOpen(b, o)
           y == [c EXCEPT !.slot[f].pos = v, !.r = 0]
           none == [s EXCEPT !.r = -1]
           t == file_write(s, f, n)
<1>1. t = none \/ t = y
  BY DEF file_write
<1> HIDE DEF t
<1>2. Good(d0, s)
  BY DEF Fine
<1>3. f \in Slots /\ o \in Objs /\ from \in Int /\ DOMAIN s = Fields
  BY <1>2, SlotTyped
<1> HIDE DEF o, from
<1>4. first \in Int /\ last \in Int /\ v \in Int
  <2>1. \A z \in Int : z \div BLOCK_SIZE \in Int
    BY Sizes
  <2>2. v \in Int
    BY <1>3
  <2>3. from \div BLOCK_SIZE \in Int /\ v \div BLOCK_SIZE \in Int
    BY <1>3, <2>1, <2>2
  <2> QED BY <2>2, <2>3
<1> HIDE DEF first, last, v
<1>5. Fine(d0, none, L)
  <2>1. Only({"r", "all"}, s, none)
    BY <1>3 DEF Only, Fields
  <2> HIDE DEF none
  <2>2. Good(d0, none) /\ Same(s, none)
    BY <1>2, <2>1, Touched
  <2> QED BY <2>2, SameFine
<1>6. Content(d0, s, a)
  BY <1>2, <1>3, BlocksForWriteOK
<1> HIDE DEF a
<1>7. Good(d0, a)
  BY <1>6 DEF Content
<1>8. Content(d0, a, b)
  BY <1>3, <1>4, <1>7, WriteChunksOK
<1> HIDE DEF b
<1>9. Good(d0, b)
  BY <1>8 DEF Content
<1>10. Good(d0, c) /\ Same(b, c) /\ Only({"d", "out"}, b, c)
  BY <1>3, <1>9, SyncOpenOK
<1> HIDE DEF c
<1>11. Content(d0, b, c)
  BY <1>10, ContentOnly
<1>12. Content(d0, s, b)
  BY <1>6, <1>8, ContentTrans
<1>13. Content(d0, s, c)
  BY <1>11, <1>12, ContentTrans
<1>14. Fine(d0, c, L) /\ DOMAIN c = Fields
  BY <1>13, ContentFine DEF Step, Only
<1>15. Only({"slot", "r"}, c, y) /\ y.slot = [c.slot EXCEPT ![f] = [c.slot[f] EXCEPT !.pos = v]]
  BY <1>14 DEF Only, Fields
<1> HIDE DEF y, none
<1>16. Fine(d0, y, L)
  BY <1>3, <1>4, <1>14, <1>15, SlotMoved
<1> QED BY <1>1, <1>5, <1>16 DEF t

\* file_read
LEMMA FileReadOK ==
  ASSUME NEW d0, NEW s, NEW f, NEW n \in Nat, NEW L, Fine(d0, s, L), s.err = "none", f \in s.fds
  PROVE  Fine(d0, file_read(s, f, n), L)
<1> DEFINE pos  == s.slot[f].pos
           i    == s.obj[s.slot[f].obj]
           size == IF pos + n > i.size THEN i.size - pos ELSE n
           all  == all_blocks(s.d, i)
           At(k) == s.d.block[all[k \div BLOCK_SIZE + 1]].c[(k % BLOCK_SIZE) + 1]
           units == [k \in 1..size |-> At(pos + k - 1)]
           v == pos + size
           x == [s EXCEPT !.r = <<>>]
           y == [s EXCEPT !.err = "block_read_end_idx"]
           z == [s EXCEPT !.slot[f].pos = v, !.r = units]
           t == file_read(s, f, n)
<1>1. t = x \/ t = y \/ t = z
  <2>1. t = CASE pos + n > i.size /\ size = 0 -> x
              [] pos = -1 \/ (pos + size) \div BLOCK_SIZE >= Total - 1 -> y
              [] OTHER -> z
    BY Zenon DEF file_read
  <2> HIDE DEF t, x, y, z, pos, i, size
  <2> QED BY <2>1
<1> HIDE DEF t
<1>2. Good(d0, s)
  BY DEF Fine
<1>3. f \in Slots /\ pos \in Int /\ i.size \in Int /\ DOMAIN s = Fields
  BY <1>2, SlotTyped
<1> HIDE DEF pos, i
<1>4. v \in Int
  BY <1>3
<1> HIDE DEF v, units
<1>5. Fine(d0, x, L)
  <2>1. Only({"r", "all"}, s, x)
    BY <1>3 DEF Only, Fields
  <2> HIDE DEF x
  <2>2. Good(d0, x) /\ Same(s, x)
    BY <1>2, <2>1, Touched
  <2> QED BY <2>2, SameFine
<1>6. Fine(d0, y, L)
  <2>1. DOMAIN y = Fields /\ y.d = s.d /\ y.out = s.out /\ y.err # "none"
    BY <1>3 DEF Fields
  <2> HIDE DEF y
  <2> QED BY <1>2, <2>1, Failed DEF Fine
<1>7. Only({"slot", "r"}, s, z) /\ z.slot = [s.slot EXCEPT ![f] = [s.slot[f] EXCEPT !.pos = v]]
  BY <1>3 DEF Only, Fields
<1> HIDE DEF x, y, z
<1>8. Fine(d0, z, L)
  BY <1>3, <1>4, <1>7, SlotMoved
<1> QED BY <1>1, <1>5, <1>6, <1>8 DEF t

\* disk_file_lseek
LEMMA LseekOK ==
  ASSUME NEW d0, NEW s, NEW f, NEW pos \in Nat, NEW L, Fine(d0, s, L), s.err = "none", f \in s.fds
  PROVE  Fine(d0, disk_file_lseek(s, f, pos), L)
<1> DEFINE z == [s EXCEPT !.slot[f].pos = pos]
<1>1. disk_file_lseek(s, f, pos) = s \/ disk_file_lseek(s, f, pos) = z
  BY DEF disk_file_lseek
<1>2. f \in Slots /\ DOMAIN s = Fields
  BY SlotTyped DEF Fine
<1>3. Only({"slot", "r"}, s, z) /\ z.slot = [s.slot EXCEPT ![f] = [s.slot[f] EXCEPT !.pos = pos]]
  BY <1>2 DEF Only, Fields
<1> HIDE DEF z
<1>4. Fine(d0, z, L)
  BY <1>2, <1>3, SlotMoved
<1> QED BY <1>1, <1>4

-----------------------------------------------------------------------------
(* fs.c: looking a path up *)

\* The reference behind a handle of a directory.
Ref(h) == IF h.root THEN Zero ELSE One(h.obj)
Handle(s, h) == s.err = "none" => h.obj \in Objs

\* Counting references of any object, also one that is not there.
LEMMA RefFacts ==
  /\ \A o : One(o) \in Local
  /\ \A h : Ref(h) \in Local
  /\ \A L \in Local : \A o : Plus(L, o) \in Local
<1>1. \A o : One(o) \in Local
  BY DEF One, Local
<1>2. \A h : Ref(h) \in Local
  BY <1>1, LocalFacts DEF Ref
<1>3. ASSUME NEW L \in Local, NEW o PROVE Plus(L, o) \in Local
  <2>1. CASE o \in Objs
    BY <2>1, LocalFacts
  <2>2. CASE o \notin Objs
    <3>1. DOMAIN Plus(L, o) = Objs /\ \A p \in Objs : Plus(L, o)[p] = L[p] /\ L[p] \in Nat
      BY <2>2 DEF Plus, Local
    <3>2. Plus(L, o) = [p \in Objs |-> Plus(L, o)[p]]
      BY DEF Plus, Local
    <3> QED BY <3>1, <3>2 DEF Local
  <2> QED BY <2>1, <2>2
<1> QED BY <1>1, <1>2, <1>3

\* After a failed ASSERT references do not matter.
LEMMA ErrFine ==
  ASSUME NEW d0, NEW s, NEW L, Good(d0, s), s.err # "none"
  PROVE  Fine(d0, s, L)
BY DEF Fine

\* A handle is closed, and the call holds nothing any more.
LEMMA HandleClosed ==
  ASSUME NEW d0, NEW s, NEW h, Fine(d0, s, Ref(h)), Handle(s, h)
  PROVE  LET t == dir_close(s, h)
         IN  Fine(d0, t, Zero) /\ Step(s, t) /\ t.err = s.err
<1> DEFINE t == dir_close(s, h)
           L == Ref(h)
<1>1. L \in Local
  BY RefFacts
<1>2. s.err = "none" => h.root \/ (h.obj \in Objs /\ L[h.obj] >= 1)
  <2>1. \A o \in Objs : One(o)[o] = 1
    BY DEF One
  <2>2. ~h.root => L = One(h.obj)
    BY DEF Ref
  <2> HIDE DEF L
  <2>3. s.err = "none" => h.obj \in Objs
    BY DEF Handle
  <2>4. h.obj \in Objs /\ ~h.root => L[h.obj] = 1
    BY <2>1, <2>2
  <2> QED BY <2>3, <2>4
<1> HIDE DEF L
<1>3. Fine(d0, t, IF h.root THEN L ELSE Minus(L, h.obj)) /\ Step(s, t) /\ t.err = s.err
  BY <1>1, <1>2, DirCloseOK DEF L
<1> HIDE DEF t
<1>4. Fine(d0, t, Zero)
  <2>1. CASE s.err # "none"
    BY <1>3, <2>1, ErrFine DEF Fine
  <2>2. CASE h.root
    BY <1>3, <2>2 DEF L, Ref
  <2>3. CASE s.err = "none" /\ ~h.root
    <3>1. h.obj \in Objs
      BY <2>3 DEF Handle
    <3>2. Minus(L, h.obj) = Zero
      BY <2>3, <3>1, LocalFacts DEF L, Ref
    <3> QED BY <1>3, <2>3, <3>2
  <2> QED BY <2>1, <2>2, <2>3
<1> QED BY <1>3, <1>4 DEF t

\* From one directory to another: the old handle is closed, the new one open.
LEMMA Reopened ==
  ASSUME NEW d0, NEW s, NEW h, NEW no, Fine(d0, s, Ref(h)), Handle(s, h)
  PROVE  LET t == dir_open(dir_close(s, h), no)
         IN  Fine(d0, t, One(t.r)) /\ Step(s, t) /\ (t.err = "none" => t.r \in Objs)
<1> DEFINE a == dir_close(s, h)
           t == inode_open(a, no)
<1>1. Fine(d0, a, Zero) /\ Step(s, a)
  BY HandleClosed
<1> HIDE DEF a
<1>2. Zero \in Local
  BY LocalFacts
<1>3. /\ Fine(d0, t, Plus(Zero, t.r)) /\ Only({"obj", "list", "r", "err"}, a, t)
      /\ t.err = "none" => a.err = "none" /\ t.r \in Objs
  BY <1>1, <1>2, OpenOK
<1> HIDE DEF t
<1>4. Fine(d0, t, One(t.r))
  <2>1. CASE t.err # "none"
    BY <1>3, <2>1, ErrFine DEF Fine
  <2>2. CASE t.err = "none"
    <3>1. Plus(Zero, t.r) = One(t.r)
      BY <1>3, <2>2, LocalFacts
    <3> QED BY <1>3, <3>1
  <2> QED BY <2>1, <2>2
<1>5. Step(a, t)
  BY <1>3, StepOnly
<1>6. Step(s, t)
  BY <1>1, <1>5, StepTrans
<1>7. dir_open(dir_close(s, h), no) = t
  BY DEF dir_open, t, a
<1> QED BY <1>3, <1>4, <1>6, <1>7

\* What search_file has found so far, starting from s0.
FileTypes == {"FT_DIRECTORY", "FT_REGULAR", "FT_UNKNOWN"}
Found(d0, s0, x) ==
    /\ DOMAIN x = {"s", "h", "up", "e", "type", "depth"}
    /\ x.type \in FileTypes
    /\ Fine(d0, x.s, Ref(x.h)) /\ Step(s0, x.s) /\ Handle(x.s, x.h)

\* The same with other fields changed.
LEMMA FoundSame ==
  ASSUME NEW d0, NEW s0, NEW x, NEW y, Found(d0, s0, x), DOMAIN y = DOMAIN x, y.s = x.s, y.h = x.h,
         y.type \in FileTypes
  PROVE  Found(d0, s0, y)
BY DEF Found

\* The same with a directory opened in place of the last one.
LEMMA FoundInto ==
  ASSUME NEW d0, NEW s0, NEW x, NEW y, NEW no, NEW t, Found(d0, s0, x), DOMAIN y = DOMAIN x,
         t = dir_open(dir_close(x.s, x.h), no), y.s = t, y.h = [obj |-> t.r, root |-> FALSE],
         y.type = x.type
  PROVE  Found(d0, s0, y)
<1> DEFINE s == x.s
           h == x.h
<1>1. /\ Fine(d0, s, Ref(h)) /\ Step(s0, s) /\ Handle(s, h) /\ t = dir_open(dir_close(s, h), no)
      /\ x.type \in FileTypes /\ DOMAIN y = {"s", "h", "up", "e", "type", "depth"}
  BY DEF Found
<1> HIDE DEF s, h
<1>2. Fine(d0, t, One(t.r)) /\ Step(s, t) /\ (t.err = "none" => t.r \in Objs)
  BY <1>1, Reopened
<1>3. Ref(y.h) = One(t.r) /\ y.h.obj = t.r
  BY DEF Ref
<1>4. Step(s0, t)
  BY <1>1, <1>2, StepTrans
<1> QED BY <1>1, <1>2, <1>3, <1>4 DEF Found, Handle

\* One component of the path.
LEMMA SearchStepOK ==
  ASSUME NEW d0, NEW s0, NEW x, NEW name, Found(d0, s0, x)
  PROVE  Found(d0, s0, SearchStep(x, name))
<1> DEFINE e == search_dir_entry(x.s.d, x.s.obj[x.h.obj], name)
           n == x.depth + 1
           y == [x EXCEPT !.depth = n, !.e = e]
           no == y.e.ino
           t == dir_open(dir_close(x.s, x.h), no)
           up == x.s.obj[x.h.obj].no
           z1 == [y EXCEPT !.type = "FT_UNKNOWN"]
           z2 == [y EXCEPT !.type = "FT_REGULAR"]
           z3 == [y EXCEPT !.s = t, !.h = [obj |-> t.r, root |-> FALSE], !.up = up]
           z == CASE y.e = NoEntry -> z1
                  [] y.e # NoEntry /\ y.e.type = "FT_REGULAR" -> z2
                  [] y.e # NoEntry /\ y.e.type = "FT_DIRECTORY" -> z3
                  [] OTHER -> y
<1>1. SearchStep(x, name) = IF x.type # "FT_DIRECTORY" \/ x.s.err # "none" THEN x ELSE z
  BY Zenon DEF SearchStep
<1>2. DOMAIN x = {"s", "h", "up", "e", "type", "depth"} /\ x.type \in FileTypes
  BY DEF Found
<1> HIDE DEF e, n, no, up
<1>3. DOMAIN y = DOMAIN x /\ y.s = x.s /\ y.h = x.h /\ y.type = x.type
  BY <1>2
<1> HIDE DEF y
<1>4. Found(d0, s0, y)
  BY <1>2, <1>3, FoundSame
<1>5. /\ DOMAIN z1 = DOMAIN y /\ z1.s = y.s /\ z1.h = y.h /\ z1.type \in FileTypes
      /\ DOMAIN z2 = DOMAIN y /\ z2.s = y.s /\ z2.h = y.h /\ z2.type \in FileTypes
  BY <1>2, <1>3 DEF FileTypes
<1> HIDE DEF z1, z2
<1>6. Found(d0, s0, z1) /\ Found(d0, s0, z2)
  BY <1>4, <1>5, FoundSame
<1>7. t = dir_open(dir_close(x.s, x.h), no)
  OBVIOUS
<1> HIDE DEF t
<1>8. DOMAIN z3 = DOMAIN x /\ z3.s = t /\ z3.h = [obj |-> t.r, root |-> FALSE] /\ z3.type = x.type
  BY <1>2, <1>3
<1> HIDE DEF z3
<1>9. Found(d0, s0, z3)
  BY <1>7, <1>8, FoundInto
<1>10. Found(d0, s0, z)
  BY <1>4, <1>6, <1>9
<1> HIDE DEF z
<1> QED BY <1>1, <1>10

\* Where the search begins.
Begin(s) == [s |-> s, h |-> RootDir, up |-> Root, e |-> NoEntry,
             type |-> "FT_DIRECTORY", depth |-> 0]

\* The loop of search_file.
LEMMA SearchRuns ==
  ASSUME NEW s, NEW path, Len(path) \in Nat
  PROVE  \E F : /\ F[0] = Begin(s) /\ SearchSteps(s, path) = F[Len(path)]
               /\ \A k \in 1..Len(path) : F[k] = SearchStep(F[k - 1], path[k])
<1> DEFINE Rec(f, m) == f = [k \in 0..m |-> IF k = 0 THEN Begin(s) ELSE SearchStep(f[k - 1], path[k])]
           T == {m \in Nat : ~ \E f : Rec(f, m)}
<1>1. T = {}
  <2>1. SUFFICES ASSUME T # {} PROVE FALSE
    OBVIOUS
  <2>2. PICK m \in T : \A y \in T : m <= y
    <3> HIDE DEF T
    <3>1. T \in SUBSET Nat
      BY DEF T
    <3> QED BY <2>1, <3>1, LeastExists
  <2>3. m # 0
    <3> DEFINE g == [k \in 0..0 |-> Begin(s)]
    <3>1. Rec(g, 0)
      OBVIOUS
    <3> QED BY <2>2, <3>1
  <2>4. PICK f : Rec(f, m - 1)
    <3>1. m - 1 \in Nat /\ m - 1 \notin T
      <4> HIDE DEF T
      <4>1. m \in Nat
        BY DEF T
      <4> QED BY <2>2, <2>3, <4>1
    <3> HIDE DEF Rec
    <3> QED BY <3>1
  <2> DEFINE g == [k \in 0..m |-> IF k < m THEN f[k] ELSE SearchStep(f[m - 1], path[m])]
  <2>5. Rec(g, m)
    BY <2>2, <2>3, <2>4
  <2> QED BY <2>2, <2>5
<1> DEFINE E == CHOOSE f : Rec(f, Len(path))
<1>2. Rec(E, Len(path))
  <2>1. Len(path) \in Nat
    BY Sizes
  <2> HIDE DEF Rec
  <2>2. \E f : Rec(f, Len(path))
    BY <1>1, <2>1
  <2> QED BY <2>2, Zenon DEF E
<1>3. SearchSteps(s, path) = E[Len(path)]
  BY Zenon DEF SearchSteps, Begin, Loop, E, Rec
<1> HIDE DEF E
<1>4. E[0] = Begin(s) /\ \A k \in 1..Len(path) : E[k] = SearchStep(E[k - 1], path[k])
  BY <1>2, Sizes
<1> HIDE DEF Rec
<1> QED BY <1>3, <1>4

\* search_file: the handle it returns is the only reference it holds.
LEMMA SearchOK ==
  ASSUME NEW d0, NEW s, NEW path \in Paths, Fine(d0, s, Zero)
  PROVE  Found(d0, s, search_file(s, path))
<1>1. Len(path) \in Nat
  BY FileSystemAssumption
<1> DEFINE m == Len(path)
<1>2. PICK F : /\ F[0] = Begin(s) /\ SearchSteps(s, path) = F[m]
               /\ \A k \in 1..m : F[k] = SearchStep(F[k - 1], path[k])
  BY <1>1, SearchRuns
<1>3. m \in Nat
  BY <1>1
<1> HIDE DEF m
<1> DEFINE T == {k \in 0..m : Found(d0, s, F[k])}
<1>4. Found(d0, s, Begin(s))
  <2>1. DOMAIN s = Fields
    BY DEF Fine, Good, Shape
  <2>2. Step(s, s)
    BY <2>1 DEF Step, Only
  <2>3. Ref(RootDir) = Zero /\ RootDir.obj \in Objs
    BY Numbers DEF Ref, RootDir
  <2> QED BY <2>2, <2>3 DEF Found, Begin, FileTypes, Handle
<1>5. ASSUME NEW k \in 1..m, Found(d0, s, F[k - 1])
      PROVE  Found(d0, s, F[k])
  <2> DEFINE x == F[k - 1]
             name == path[k]
  <2>1. Found(d0, s, x) /\ F[k] = SearchStep(x, name)
    BY <1>2, <1>5
  <2> HIDE DEF x, name
  <2> QED BY <2>1, SearchStepOK
<1>6. 0 \in T
  BY <1>2, <1>3, <1>4
<1>7. \A k \in 1..m : k - 1 \in T => k \in T
  BY <1>3, <1>5
<1>8. m \in T
  <2> HIDE DEF T
  <2> QED BY <1>3, <1>6, <1>7, AllRounds
<1> DEFINE x == SearchSteps(s, path)
           t == dir_open(dir_close(x.s, x.h), x.up)
           y == [x EXCEPT !.s = t, !.h = [obj |-> t.r, root |-> FALSE]]
<1>9. search_file(s, path) = IF x.type # "FT_DIRECTORY" \/ x.s.err # "none" THEN x ELSE y
  BY Zenon DEF search_file
<1>10. Found(d0, s, x)
  BY <1>2, <1>8
<1> HIDE DEF x
<1>11. DOMAIN x = {"s", "h", "up", "e", "type", "depth"}
  BY <1>10 DEF Found
<1> DEFINE no == x.up
<1>12. t = dir_open(dir_close(x.s, x.h), no)
  OBVIOUS
<1> HIDE DEF t, no
<1>13. DOMAIN y = DOMAIN x /\ y.s = t /\ y.h = [obj |-> t.r, root |-> FALSE] /\ y.type = x.type
  BY <1>11
<1> HIDE DEF y
<1>14. Found(d0, s, y)
  BY <1>10, <1>12, <1>13, FoundInto
<1> QED BY <1>9, <1>10, <1>14

-----------------------------------------------------------------------------
(* fs.c: the calls on a path *)

\* The return value is set.
LEMMA Returned ==
  ASSUME NEW d0, NEW s, NEW v, NEW L, Fine(d0, s, L)
  PROVE  Fine(d0, [s EXCEPT !.r = v], L) /\ [s EXCEPT !.r = v].err = s.err
<1> DEFINE t == [s EXCEPT !.r = v]
<1>1. DOMAIN s = Fields /\ Good(d0, s)
  BY DEF Fine, Good, Shape
<1>2. Only({"r", "all"}, s, t) /\ t.err = s.err
  BY <1>1 DEF Only, Fields
<1> HIDE DEF t
<1>3. Good(d0, t) /\ Same(s, t)
  BY <1>1, <1>2, Touched
<1>4. Fine(d0, t, L)
  BY <1>3, SameFine
<1> QED BY <1>2, <1>4 DEF t

\* A call that ends by closing the handle and returning v.
LEMMA Ended ==
  ASSUME NEW d0, NEW s, NEW h, NEW v, Fine(d0, s, Ref(h)), Handle(s, h)
  PROVE  Fine(d0, [dir_close(s, h) EXCEPT !.r = v], Zero)
<1> DEFINE t == dir_close(s, h)
<1>1. Fine(d0, t, Zero)
  BY HandleClosed
<1> HIDE DEF t
<1>2. Fine(d0, [t EXCEPT !.r = v], Zero)
  BY <1>1, Returned
<1> QED BY <1>2 DEF t

\* A call that fails.
LEMMA FailOK ==
  ASSUME NEW d0, NEW s0, NEW x, Found(d0, s0, x)
  PROVE  Fine(d0, Fail(x), Zero)
<1> DEFINE s == x.s
           h == x.h
<1>1. Fine(d0, s, Ref(h)) /\ Handle(s, h) /\ Fail(x) = [dir_close(s, h) EXCEPT !.r = -1]
  BY DEF Found, Fail
<1> HIDE DEF s, h
<1> QED BY <1>1, Ended

\* sys_open; without O_CREAT the reference to the directory is not given back.
LEMMA OpenPathOK ==
  ASSUME NEW d0, NEW s0, NEW x, NEW path, NEW create \in BOOLEAN, NEW w \in BOOLEAN, Found(d0, s0, x)
  PROVE  Fine(d0, open_path(x, path, create, w), Zero)
<1> DEFINE s == x.s
           h == x.h
           o == h.obj
           name == Last(path)
           no == x.e.ino
           a == file_create(s, o, name, w)
           c == IF a.err # "none" THEN a ELSE dir_close(a, h)
           b == file_open(s, no, w)
           f == Fail(x)
           t == open_path(x, path, create, w)
<1>1. x.type \in FileTypes /\ Fine(d0, s, Ref(h)) /\ Handle(s, h)
  BY DEF Found
<1>2. t = f \/ t = c \/ t = b
  <2>1. t = CASE \/ x.type = "FT_DIRECTORY" \/ x.depth # Len(path)
                 \/ (x.type = "FT_REGULAR") = create -> f
              [] x.type = "FT_UNKNOWN" /\ x.depth = Len(path) /\ create -> c
              [] x.type = "FT_REGULAR" /\ x.depth = Len(path) /\ ~create -> b
    BY Zenon DEF open_path
  <2> DEFINE len == Len(path)
             type == x.type
  <2>2. \/ type = "FT_DIRECTORY" \/ x.depth # len \/ (type = "FT_REGULAR") = create
        \/ type = "FT_UNKNOWN" /\ x.depth = len /\ create
        \/ type = "FT_REGULAR" /\ x.depth = len /\ ~create
    <3> HIDE DEF len
    <3>1. type \in FileTypes
      BY <1>1
    <3> HIDE DEF type
    <3> QED BY <3>1 DEF FileTypes
  <2> HIDE DEF t, f, c, b
  <2> QED BY <2>1, <2>2
<1> HIDE DEF t
<1>3. Ref(h) \in Local /\ (s.err = "none" => o \in Objs)
  BY <1>1, RefFacts DEF Handle
<1>4. Fine(d0, f, Zero)
  BY FailOK
<1> HIDE DEF f, s, o, no, name
<1>5. Fine(d0, a, Ref(h))
  BY <1>1, <1>3, FileCreateOK
<1>6. Fine(d0, b, Zero)
  <2>1. Fine(d0, b, Ref(h))
    BY <1>1, <1>3, FileOpenOK
  <2> HIDE DEF b
  <2> QED BY <1>3, <2>1, RefsLeaked
<1>7. a.err = "none" => o \in Objs
  <2>1. s.err # "none" => a.err # "none"
    <3> DEFINE y == inode_bitmap_alloc(s)
    <3>1. s.err # "none" => y.err # "none"
      <4>1. Good(d0, s)
        BY <1>1 DEF Fine
      <4> QED BY <4>1, AllocInode
    <3>2. y.err # "none" => a = y
      <4> HIDE DEF y
      <4> QED BY DEF file_create, y
    <3> HIDE DEF y, a
    <3> QED BY <3>1, <3>2
  <2> QED BY <1>3, <2>1
<1> HIDE DEF a
<1>8. Fine(d0, c, Zero)
  <2>1. CASE a.err # "none"
    BY <1>5, <2>1, ErrFine DEF Fine
  <2>2. CASE a.err = "none"
    <3>1. Handle(a, h)
      BY <1>7, <2>2 DEF Handle, o
    <3> QED BY <1>5, <2>2, <3>1, HandleClosed
  <2> QED BY <2>1, <2>2
<1> HIDE DEF b, c
<1> QED BY <1>2, <1>4, <1>6, <1>8 DEF t

\* sys_unlink
LEMMA UnlinkOK ==
  ASSUME NEW d0, NEW s0, NEW x, Found(d0, s0, x)
  PROVE  Fine(d0, unlink(x), Zero)
<1> DEFINE s == x.s
           h == x.h
           o == h.obj
           no == x.e.ino
           a == delete_dir_entry(s, o, no)
           b == inode_release(a, no)
           c == [dir_close(b, h) EXCEPT !.r = 0]
           f == Fail(x)
           t == unlink(x)
<1>1. t = f \/ (a.err # "none" /\ t = a) \/ t = c
  BY DEF unlink
<1> HIDE DEF t
<1>2. Fine(d0, s, Ref(h)) /\ Handle(s, h) /\ Ref(h) \in Local
  BY RefFacts DEF Found
<1>3. Good(d0, s) /\ (s.err = "none" => o \in Objs)
  BY <1>2 DEF Fine, Handle
<1>4. Fine(d0, f, Zero)
  BY FailOK
<1> HIDE DEF f, s, o, no
<1>5. Content(d0, s, a)
  BY <1>3, DeleteEntryOK
<1> HIDE DEF a
<1>6. Fine(d0, a, Ref(h)) /\ Step(s, a)
  BY <1>2, <1>5, ContentFine
<1>7. Fine(d0, b, Ref(h)) /\ Step(a, b)
  BY <1>2, <1>6, ReleaseOK
<1> HIDE DEF b
<1>8. Handle(b, h)
  BY <1>3, <1>6, <1>7 DEF Step, Handle, o
<1>9. Fine(d0, c, Zero)
  BY <1>7, <1>8, Ended
<1>10. a.err # "none" => Fine(d0, a, Zero)
  BY <1>6, ErrFine DEF Fine
<1> HIDE DEF c
<1> QED BY <1>1, <1>4, <1>9, <1>10 DEF t

\* sys_mkdir
LEMMA MkdirOK ==
  ASSUME NEW d0, NEW s0, NEW x, NEW path, Found(d0, s0, x)
  PROVE  Fine(d0, mkdir(x, path), Zero)
<1> DEFINE s == x.s
           h == x.h
           o == h.obj
           up == s.obj[o].no
           a == inode_bitmap_alloc(s)
           no == a.r
           b == NewBlock(a)
           blk == b.r
           dots == Dots(no, up)
           c == ide_write(b, Write("block", blk, dots))
           e == Entry(Last(path), no, "FT_DIRECTORY")
           i == [no |-> no, size |-> 2, sect |-> [Zeros(TableIdx) EXCEPT ![1] = blk]]
           g == NewEntry(c, o, e, i)
           f == Fail(x)
           u == [dir_close(g, h) EXCEPT !.r = 0]
           t == mkdir(x, path)
<1>1. t = f \/ (b.err # "none" /\ t = b) \/ (b.err = "none" /\ t = u)
  BY DEF mkdir
<1> HIDE DEF t
<1>2. Fine(d0, s, Ref(h)) /\ Handle(s, h)
  BY DEF Found
<1>3. Good(d0, s) /\ (s.err = "none" => o \in Objs)
  BY <1>2 DEF Fine, Handle
<1>4. Fine(d0, f, Zero)
  BY FailOK
<1>5. no = e.ino
  BY DEF Entry
<1> HIDE DEF f, s, up, dots
<1>6. /\ Good(d0, a) /\ Only({"ibits", "r", "err"}, s, a)
      /\ a.err = "none" => /\ s.err = "none" /\ no \in Inodes /\ no \notin s.ibits
                           /\ a.ibits = s.ibits \cup {no}
  BY <1>3, AllocInode
<1> HIDE DEF a
<1>7. /\ Good(d0, b) /\ Same(a, b) /\ Only({"d", "out", "bbits", "r", "err"}, a, b)
      /\ b.err = "none" => blk \in Blocks /\ Exact(b)
  BY <1>6, NewBlockOK
<1> HIDE DEF b
<1>8. Good(d0, c) /\ Same(b, c) /\ Only({"d", "out"}, b, c)
  <2> HIDE DEF blk
  <2> QED BY <1>7, WriteBlock
<1>9. CASE b.err # "none"
  <2>1. Fine(d0, b, Zero)
    BY <1>7, <1>9, ErrFine
  <2> QED BY <1>1, <1>4, <1>9, <2>1 DEF t
<1>10. CASE b.err = "none"
  <2>1. a.err = "none" /\ s.err = "none" /\ b.ibits = a.ibits /\ b.d.ibits = a.d.ibits
    BY <1>6, <1>7, <1>10 DEF Same, SameBits
  <2>2. s.ibits = s.d.ibits /\ Exact(s)
    BY <1>2, <2>1 DEF Fine
  <2>3. a.d = s.d /\ SameRefs(s, a)
    BY <1>6 DEF Only, Fields, SameRefs
  <2>4. i \in DiskInodes /\ i = [no |-> i.no, size |-> i.size, sect |-> i.sect]
    <3> DEFINE z == Zeros(TableIdx)
    <3>1. z \in [1..TableIdx -> {0}]
      BY Sizes, ZerosType
    <3> HIDE DEF z
    <3>2. [z EXCEPT ![1] = blk] \in [1..TableIdx -> Blocks \cup {0}]
      BY <1>7, <1>10, <3>1
    <3>3. no \in Inodes
      BY <1>6, <2>1
    <3> QED BY <3>2, <3>3 DEF DiskInodes, z
  <2>5. no \in Inodes /\ o \in Objs
    BY <1>3, <1>6, <2>1
  <2> HIDE DEF c, i, e, o, no
  <2>6. c.err = "none" => c.ibits = a.ibits /\ c.d.ibits = a.d.ibits /\ Exact(c)
    BY <1>7, <1>8, <1>10, <2>1 DEF Same, SameBits
  <2>7. c.err = "none" => c.d.ibits \ {no} = c.ibits \ {no}
    BY <1>6, <2>1, <2>2, <2>3, <2>6
  <2>8. /\ Good(d0, g) /\ SameRefs(c, g) /\ Step(c, g)
        /\ g.err = "none" => g.d.ibits = g.ibits /\ (Exact(c) => Exact(g))
    BY <1>5, <1>8, <2>4, <2>5, <2>7, NewEntryOK
  <2> HIDE DEF g
  <2>9. g.err = "none" => c.err = "none"
    BY <2>8 DEF Step
  <2>10. SameRefs(s, g)
    <3>1. SameRefs(a, b) /\ SameRefs(b, c) /\ SameRefs(c, g)
      BY <1>7, <1>8, <2>8 DEF Same
    <3> QED BY <1>10, <2>1, <2>3, <2>9, <3>1 DEF SameRefs
  <2>11. Fine(d0, g, Ref(h))
    BY <1>2, <2>1, <2>6, <2>8, <2>9, <2>10, BitsFine
  <2>12. Handle(g, h)
    BY <2>5 DEF Handle, o
  <2>13. Fine(d0, u, Zero)
    BY <2>11, <2>12, Ended
  <2> HIDE DEF u
  <2> QED BY <1>1, <1>4, <1>10, <2>13 DEF t
<1> QED BY <1>9, <1>10

\* An inode opened besides the handle, and both closed.
LEMMA BothClosed ==
  ASSUME NEW d0, NEW s, NEW o, NEW h, Fine(d0, s, Plus(Ref(h), o)), Handle(s, h),
         s.err = "none" => o \in Objs
  PROVE  LET t == inode_close(s, o)
         IN  Fine(d0, t, Ref(h)) /\ Handle(t, h) /\ Step(s, t)
<1> DEFINE t == inode_close(s, o)
           L == Ref(h)
<1>1. L \in Local /\ Plus(L, o) \in Local
  BY RefFacts
<1> HIDE DEF L
<1>2. o \in Objs => Plus(L, o)[o] >= 1 /\ Minus(Plus(L, o), o) = L
  BY <1>1, LocalFacts
<1> DEFINE M == Plus(L, o)
<1>3. Fine(d0, s, M)
  BY DEF L
<1> HIDE DEF M
<1>4. /\ Fine(d0, t, Minus(M, o)) /\ t.err = s.err /\ Only({"obj", "list"}, s, t)
  BY <1>1, <1>2, <1>3, CloseOK DEF M
<1> HIDE DEF t
<1>5. Fine(d0, t, L)
  <2>1. CASE s.err # "none"
    BY <1>4, <2>1, ErrFine DEF Fine
  <2>2. CASE s.err = "none"
    BY <1>2, <1>4, <2>2 DEF M
  <2> QED BY <2>1, <2>2
<1>6. Step(s, t)
  BY <1>4, StepOnly
<1>7. Handle(t, h)
  BY <1>4 DEF Handle
<1> QED BY <1>5, <1>6, <1>7 DEF t, L

\* sys_stat
LEMMA StatOK ==
  ASSUME NEW d0, NEW s0, NEW x, Found(d0, s0, x)
  PROVE  Fine(d0, stat(x), Zero)
<1> DEFINE s == x.s
           h == x.h
           no == x.e.ino
           a == inode_open(s, no)
           o == a.r
           b == inode_close(a, o)
           v == [type |-> x.type, size |-> a.obj[o].size]
           u == [dir_close(b, h) EXCEPT !.r = v]
           f == Fail(x)
           t == stat(x)
<1>1. t = f \/ t = u
  BY DEF stat
<1> HIDE DEF t
<1>2. Fine(d0, s, Ref(h)) /\ Handle(s, h) /\ Ref(h) \in Local
  BY RefFacts DEF Found
<1>3. Fine(d0, f, Zero)
  BY FailOK
<1> HIDE DEF f, s, no
<1>4. /\ Fine(d0, a, Plus(Ref(h), o))
      /\ a.err = "none" => s.err = "none" /\ o \in Objs
  BY <1>2, OpenOK
<1> HIDE DEF a
<1>5. Handle(a, h)
  BY <1>2, <1>4 DEF Handle
<1> HIDE DEF o
<1>6. Fine(d0, b, Ref(h)) /\ Handle(b, h)
  BY <1>4, <1>5, BothClosed
<1> HIDE DEF b, v
<1>7. Fine(d0, u, Zero)
  BY <1>6, Ended
<1> HIDE DEF u
<1> QED BY <1>1, <1>3, <1>7 DEF t

\* sys_rmdir
LEMMA RmdirOK ==
  ASSUME NEW d0, NEW s0, NEW x, Found(d0, s0, x)
  PROVE  Fine(d0, rmdir(x), Zero)
<1> DEFINE s == x.s
           h == x.h
           p == h.obj
           no == x.e.ino
           a == inode_open(s, no)
           o == a.r
           b == dir_remove(a, p, o)
           c == inode_close(b, o)
           u == [dir_close(c, h) EXCEPT !.r = 0]
           b1 == inode_close(a, o)
           u1 == [dir_close(b1, h) EXCEPT !.r = -1]
           f == Fail(x)
           t == rmdir(x)
<1>1. t = f \/ (b.err # "none" /\ t = b) \/ t = u \/ t = u1
  <2>1. DOMAIN x = {"s", "h", "up", "e", "type", "depth"}
    BY DEF Found
  <2> DEFINE y == [x EXCEPT !.s = b1]
  <2>2. t = f \/ (b.err # "none" /\ t = b) \/ t = u \/ t = Fail(y)
    BY DEF rmdir, dir_open
  <2>3. y.s = b1 /\ y.h = h
    BY <2>1
  <2> HIDE DEF y, b1, t, f, u, b, h
  <2>4. Fail(y) = u1
    BY <2>3 DEF Fail
  <2> QED BY <2>2, <2>4
<1> HIDE DEF t
<1>2. Fine(d0, s, Ref(h)) /\ Handle(s, h) /\ Ref(h) \in Local
  BY RefFacts DEF Found
<1>3. Fine(d0, f, Zero)
  BY FailOK
<1> HIDE DEF f, s, no
<1>4. /\ Fine(d0, a, Plus(Ref(h), o))
      /\ a.err = "none" => s.err = "none" /\ o \in Objs
  BY <1>2, OpenOK
<1> HIDE DEF a
<1>5. Handle(a, h) /\ (a.err = "none" => p \in Objs)
  BY <1>2, <1>4 DEF Handle
<1> HIDE DEF o, p
<1> DEFINE L == Plus(Ref(h), o)
<1>6. L \in Local /\ Fine(d0, a, L)
  BY <1>2, <1>4, RefFacts
<1> HIDE DEF L
<1>7. Fine(d0, b, L) /\ Step(a, b)
  BY <1>5, <1>6, DirRemoveOK
<1> HIDE DEF b
<1>8. Handle(b, h) /\ (b.err = "none" => o \in Objs)
  BY <1>4, <1>5, <1>7 DEF Handle, Step
<1>9. Fine(d0, c, Ref(h)) /\ Handle(c, h)
  BY <1>7, <1>8, BothClosed DEF L
<1> HIDE DEF c
<1>10. Fine(d0, u, Zero)
  BY <1>9, Ended
<1>11. Fine(d0, b1, Ref(h)) /\ Handle(b1, h)
  BY <1>4, <1>5, BothClosed
<1> HIDE DEF b1
<1>12. Fine(d0, u1, Zero)
  BY <1>11, Ended
<1>13. b.err # "none" => Fine(d0, b, Zero)
  BY <1>7, ErrFine DEF Fine
<1> HIDE DEF u, u1
<1> QED BY <1>1, <1>3, <1>10, <1>12, <1>13 DEF t

\* Opening one and closing another leaves the first.
LEMMA Swapped ==
  ASSUME NEW p \in Objs, NEW q \in Objs
  PROVE  Minus(Plus(One(p), q), p) = One(q)
<1> DEFINE K == One(p)
           L == Plus(K, q)
           M == Minus(L, p)
<1>1. DOMAIN K = Objs /\ \A r \in Objs : K[r] = IF r = p THEN 1 ELSE 0
  BY DEF One
<1> HIDE DEF K
<1>2. DOMAIN L = Objs /\ \A r \in Objs : L[r] = K[r] + (IF r = q THEN 1 ELSE 0)
  BY <1>1 DEF Plus
<1>3. M = [r \in DOMAIN L |-> IF r = p THEN L[p] - 1 ELSE L[r]]
  <2> HIDE DEF L
  <2> QED BY <1>2 DEF Minus
<1> HIDE DEF L
<1>4. \A r \in Objs : M[r] = IF r = q THEN 1 ELSE 0
  BY <1>1, <1>2, <1>3
<1>5. M = [r \in Objs |-> M[r]]
  BY <1>2, <1>3
<1> HIDE DEF M
<1>6. M = One(q)
  BY <1>4, <1>5 DEF One
<1> QED BY <1>6 DEF M, L, K

\* sys_opendir
LEMMA OpendirOK ==
  ASSUME NEW d0, NEW s0, NEW x, NEW k \in Dirs, Found(d0, s0, x), s0.dirs[k].obj = NoObj
  PROVE  Fine(d0, opendir(x, k), Zero)
<1> DEFINE s == x.s
           h == x.h
           p == h.obj
           no == x.e.ino
           a == inode_open(s, no)
           q == a.r
           b == dir_close(a, h)
           u == [b EXCEPT !.dirs[k] = [obj |-> q, pos |-> 0]]
           f == Fail(x)
           t == opendir(x, k)
<1>1. t = f \/ t = u
  BY DEF opendir, dir_open
<1> HIDE DEF t
<1>2. Fine(d0, s, Ref(h)) /\ Handle(s, h) /\ Ref(h) \in Local /\ Step(s0, s)
  BY RefFacts DEF Found
<1>3. Fine(d0, f, Zero)
  BY FailOK
<1> HIDE DEF f, s, no
<1>4. /\ Fine(d0, a, Plus(Ref(h), q)) /\ Only({"obj", "list", "r", "err"}, s, a)
      /\ a.err = "none" => s.err = "none" /\ q \in Objs
  BY <1>2, OpenOK
<1> HIDE DEF a
<1>5. Step(s0, a)
  <2>1. Step(s, a)
    BY <1>4, StepOnly
  <2> QED BY <1>2, <2>1, StepTrans
<1>6. a.err = "none" => p \in Objs
  BY <1>2, <1>4 DEF Handle
<1> HIDE DEF q
<1> DEFINE L == Plus(Ref(h), q)
<1>7. L \in Local /\ Fine(d0, a, L)
  BY <1>2, <1>4, RefFacts
<1>8. a.err = "none" => h.root \/ (p \in Objs /\ L[p] >= 1)
  <2> SUFFICES ASSUME a.err = "none", ~h.root PROVE L[p] >= 1
    BY <1>6
  <2>1. L = Plus(One(p), q) /\ p \in Objs /\ q \in Objs
    BY <1>4, <1>6 DEF Ref
  <2> HIDE DEF L, p
  <2> QED BY <2>1 DEF Plus, One
<1> HIDE DEF L
<1>9. Fine(d0, b, IF h.root THEN L ELSE Minus(L, p)) /\ Step(a, b) /\ b.err = a.err
  BY <1>7, <1>8, DirCloseOK
<1> HIDE DEF b
<1>10. Step(s0, b)
  BY <1>5, <1>9, StepTrans
<1>11. b.dirs[k].obj = NoObj /\ DOMAIN b = Fields
  BY <1>10, StepKeeps
<1>12. Fine(d0, u, Zero)
  <2>1. CASE b.err # "none"
    <3>1. u.err # "none" /\ u.d = b.d /\ u.out = b.out /\ DOMAIN u = Fields
      BY <1>11, <2>1 DEF Fields
    <3>2. Good(d0, b)
      BY <1>9 DEF Fine
    <3> HIDE DEF u
    <3>3. Good(d0, u)
      BY <3>1, <3>2, Failed
    <3> QED BY <3>1, <3>3, ErrFine
  <2>2. CASE b.err = "none"
    <3>1. p \in Objs /\ q \in Objs
      BY <1>4, <1>6, <1>9, <2>2
    <3>2. Fine(d0, b, One(q))
      <4>1. CASE h.root
        <5>1. L = One(q)
          BY <3>1, <4>1, LocalFacts DEF L, Ref
        <5> QED BY <1>9, <4>1, <5>1
      <4>2. CASE ~h.root
        <5>1. L = Plus(One(p), q)
          BY <4>2 DEF L, Ref
        <5> HIDE DEF p
        <5>2. Minus(L, p) = One(q)
          BY <3>1, <5>1, Swapped
        <5> QED BY <1>9, <4>2, <5>2
      <4> QED BY <4>1, <4>2
    <3> QED BY <1>11, <2>2, <3>1, <3>2, DirTaken
  <2> QED BY <2>1, <2>2
<1> HIDE DEF u
<1> QED BY <1>1, <1>3, <1>12 DEF t

\* The working directory does not matter.
LEMMA Moved ==
  ASSUME NEW d0, NEW s, NEW t, NEW L, Fine(d0, s, L), Only({"cwd"}, s, t)
  PROVE  Fine(d0, t, L)
<1>1. /\ t.bbits = s.bbits /\ t.ibits = s.ibits /\ t.obj = s.obj /\ t.list = s.list /\ t.fds = s.fds
      /\ t.slot = s.slot /\ t.dirs = s.dirs /\ t.d = s.d /\ t.out = s.out /\ t.err = s.err
      /\ DOMAIN t = Fields
  BY DEF Only, Fields
<1>2. Good(d0, s)
  BY DEF Fine
<1>3. Good(d0, t)
  BY <1>1, <1>2 DEF Good, Shape, MemTyped
<1>4. Same(s, t)
  BY <1>1 DEF Same, SameBits, SameRefs, Exact
<1> QED BY <1>3, <1>4, SameFine

\* sys_chdir
LEMMA ChdirOK ==
  ASSUME NEW d0, NEW s0, NEW x, Found(d0, s0, x)
  PROVE  Fine(d0, chdir(x), Zero)
<1> DEFINE s == x.s
           h == x.h
           a == dir_close(s, h)
           u == [a EXCEPT !.cwd = x.e.ino]
           t == chdir(x)
<1>1. t = a \/ t = u
  BY DEF chdir
<1> HIDE DEF t
<1>2. Fine(d0, s, Ref(h)) /\ Handle(s, h)
  BY DEF Found
<1> HIDE DEF s, h
<1>3. Fine(d0, a, Zero)
  BY <1>2, HandleClosed
<1> HIDE DEF a
<1>4. DOMAIN a = Fields
  BY <1>3 DEF Fine, Good, Shape
<1>5. Only({"cwd"}, a, u)
  BY <1>4 DEF Only, Fields
<1> HIDE DEF u
<1>6. Fine(d0, u, Zero)
  BY <1>3, <1>5, Moved
<1> QED BY <1>1, <1>3, <1>6 DEF t

-----------------------------------------------------------------------------
(* fs.c: sys_getcwd *)

\* An inode is opened and closed again.
LEMMA Visited ==
  ASSUME NEW d0, NEW s, NEW no, Fine(d0, s, Zero)
  PROVE  LET a == inode_open(s, no)
             t == inode_close(a, a.r)
         IN  Fine(d0, t, Zero) /\ Good(d0, a)
<1> DEFINE a == inode_open(s, no)
           o == a.r
           t == inode_close(a, o)
<1>1. Zero \in Local
  BY LocalFacts
<1>2. /\ Fine(d0, a, Plus(Zero, o))
      /\ a.err = "none" => o \in Objs
  BY <1>1, OpenOK
<1> HIDE DEF a, o
<1> DEFINE L == Plus(Zero, o)
<1>3. /\ L \in Local /\ Fine(d0, a, L)
      /\ o \in Objs => L[o] >= 1 /\ Minus(L, o) = Zero
  BY <1>1, <1>2, LocalFacts, RefFacts
<1> HIDE DEF L
<1>4. Fine(d0, t, Minus(L, o)) /\ t.err = a.err
  BY <1>2, <1>3, CloseOK
<1> HIDE DEF t
<1>5. Fine(d0, t, Zero)
  <2>1. CASE a.err # "none"
    BY <1>4, <2>1, ErrFine DEF Fine
  <2>2. CASE a.err = "none"
    BY <1>2, <1>3, <1>4, <2>2
  <2> QED BY <2>1, <2>2
<1>6. Good(d0, a)
  BY <1>2 DEF Fine
<1> QED BY <1>5, <1>6 DEF t, a, o

\* What sys_getcwd has found so far.
Climbed(d0, x) == DOMAIN x = {"s", "child", "path"} /\ Fine(d0, x.s, Zero)

\* One level up.
LEMMA CwdStepOK ==
  ASSUME NEW d0, NEW x, NEW k, Climbed(d0, x)
  PROVE  Climbed(d0, CwdStep(x, k))
<1> DEFINE s == x.s
           child == x.child
           a == inode_open(s, child)
           b == inode_close(a, a.r)
           blk == a.obj[a.r].sect[1]
           up == a.d.block[blk].c[2].ino
           c == inode_open(b, up)
           e == inode_close(c, c.r)
           in == Entries(c.d, c.obj[c.r])
           at == SelectInSeq(in, LAMBDA y : y.ino = child)
           t2 == [x EXCEPT !.s = [e EXCEPT !.r = -1], !.child = 0, !.path = NULL]
           t3 == [x EXCEPT !.s = e, !.child = up, !.path = Cons(in[at].name, @)]
           t == CwdStep(x, k)
<1>1. t = x \/ t = [x EXCEPT !.s.err = "block_lba"] \/ t = t2 \/ t = t3
  BY DEF CwdStep
<1> HIDE DEF t
<1>2. DOMAIN x = {"s", "child", "path"} /\ Fine(d0, s, Zero)
  BY DEF Climbed
<1> DEFINE s1 == [s EXCEPT !.err = "block_lba"]
           t1 == [x EXCEPT !.s = s1]
<1>3. [x EXCEPT !.s.err = "block_lba"] = t1
  BY <1>2
<1> HIDE DEF s, child
<1>4. DOMAIN s = Fields /\ Good(d0, s)
  BY <1>2 DEF Fine, Good, Shape
<1>5. Fine(d0, s1, Zero)
  <2>1. s1.err # "none" /\ s1.d = s.d /\ s1.out = s.out /\ DOMAIN s1 = Fields
    BY <1>4 DEF Fields
  <2> HIDE DEF s1
  <2>2. Good(d0, s1)
    BY <1>4, <2>1, Failed
  <2> QED BY <2>1, <2>2, ErrFine
<1>6. Fine(d0, b, Zero)
  BY <1>2, Visited
<1> HIDE DEF b, up
<1>7. Fine(d0, e, Zero)
  BY <1>6, Visited
<1> HIDE DEF e, in, at
<1> DEFINE e1 == [e EXCEPT !.r = -1]
<1>8. Fine(d0, e1, Zero)
  BY <1>7, Returned
<1> HIDE DEF e1, s1
<1>9. DOMAIN t1 = DOMAIN x /\ t1.s = s1
  BY <1>2
<1>10. DOMAIN t2 = DOMAIN x /\ t2.s = e1
  BY <1>2 DEF e1
<1>11. DOMAIN t3 = DOMAIN x /\ t3.s = e
  BY <1>2
<1> HIDE DEF t1, t2, t3
<1>12. Climbed(d0, t1) /\ Climbed(d0, t2) /\ Climbed(d0, t3)
  BY <1>2, <1>5, <1>7, <1>8, <1>9, <1>10, <1>11 DEF Climbed
<1> QED BY <1>1, <1>3, <1>12 DEF t

\* At the working directory.
Down(s) == [s |-> s, child |-> s.cwd, path |-> <<>>]

\* The loop of sys_getcwd: what it has found round by round.
LEMMA CwdRuns ==
  ASSUME NEW s
  PROVE  \E F : /\ F[0] = Down(s) /\ CwdSteps(s) = F[NInodes]
               /\ \A k \in 1..NInodes : F[k] = CwdStep(F[k - 1], k)
<1> DEFINE Rec(f, m) == f = [k \in 0..m |-> IF k = 0 THEN Down(s) ELSE CwdStep(f[k - 1], k)]
           T == {m \in Nat : ~ \E f : Rec(f, m)}
<1>1. T = {}
  <2>1. SUFFICES ASSUME T # {} PROVE FALSE
    OBVIOUS
  <2>2. PICK m \in T : \A y \in T : m <= y
    <3> HIDE DEF T
    <3>1. T \in SUBSET Nat
      BY DEF T
    <3> QED BY <2>1, <3>1, LeastExists
  <2>3. m # 0
    <3> DEFINE g == [k \in 0..0 |-> Down(s)]
    <3>1. Rec(g, 0)
      OBVIOUS
    <3> QED BY <2>2, <3>1
  <2>4. PICK f : Rec(f, m - 1)
    <3>1. m - 1 \in Nat /\ m - 1 \notin T
      <4> HIDE DEF T
      <4>1. m \in Nat
        BY DEF T
      <4> QED BY <2>2, <2>3, <4>1
    <3> HIDE DEF Rec
    <3> QED BY <3>1
  <2> DEFINE g == [k \in 0..m |-> IF k < m THEN f[k] ELSE CwdStep(f[m - 1], m)]
  <2>5. Rec(g, m)
    BY <2>2, <2>3, <2>4
  <2> QED BY <2>2, <2>5
<1> DEFINE E == CHOOSE f : Rec(f, NInodes)
<1>2. Rec(E, NInodes)
  <2>1. NInodes \in Nat
    BY Sizes
  <2> HIDE DEF Rec
  <2>2. \E f : Rec(f, NInodes)
    BY <1>1, <2>1
  <2> QED BY <2>2, Zenon DEF E
<1>3. CwdSteps(s) = E[NInodes]
  BY Zenon DEF CwdSteps, Down, Loop, E, Rec
<1> HIDE DEF E
<1>4. E[0] = Down(s) /\ \A k \in 1..NInodes : E[k] = CwdStep(E[k - 1], k)
  BY <1>2, Sizes
<1> HIDE DEF Rec
<1> QED BY <1>3, <1>4

\* sys_getcwd
LEMMA GetcwdOK ==
  ASSUME NEW d0, NEW s, Fine(d0, s, Zero)
  PROVE  Fine(d0, getcwd(s), Zero)
<1> DEFINE m == NInodes
<1>1. m \in Nat
  BY Sizes
<1>2. PICK F : /\ F[0] = Down(s) /\ CwdSteps(s) = F[m]
               /\ \A k \in 1..m : F[k] = CwdStep(F[k - 1], k)
  BY CwdRuns
<1> HIDE DEF m
<1> DEFINE T == {k \in 0..m : Climbed(d0, F[k])}
<1>3. Climbed(d0, Down(s))
  BY DEF Climbed, Down
<1>4. ASSUME NEW k \in 1..m, Climbed(d0, F[k - 1])
      PROVE  Climbed(d0, F[k])
  <2> DEFINE x == F[k - 1]
  <2>1. Climbed(d0, x) /\ F[k] = CwdStep(x, k)
    BY <1>2, <1>4
  <2> HIDE DEF x
  <2> QED BY <2>1, CwdStepOK
<1>5. 0 \in T
  BY <1>1, <1>2, <1>3
<1>6. \A k \in 1..m : k - 1 \in T => k \in T
  BY <1>1, <1>4
<1>7. m \in T
  <2> HIDE DEF T
  <2> QED BY <1>1, <1>5, <1>6, AllRounds
<1> DEFINE x == CwdSteps(s)
           a == x.s
           v == x.path
<1>8. getcwd(s) = [a EXCEPT !.r = v]
  BY DEF getcwd
<1>9. Fine(d0, a, Zero)
  BY <1>2, <1>7 DEF Climbed
<1> HIDE DEF x, a, v
<1>10. Fine(d0, [a EXCEPT !.r = v], Zero)
  BY <1>9, Returned
<1> QED BY <1>8, <1>10

-----------------------------------------------------------------------------
(* fs.c: the calls on an open directory *)

\* dir_pos of an open directory is set.
LEMMA DirMoved ==
  ASSUME NEW d0, NEW s, NEW t, NEW h \in Dirs, NEW v \in Nat, Fine(d0, s, Zero), s.err = "none",
         Only({"dirs"}, s, t), t.dirs = [s.dirs EXCEPT ![h] = [s.dirs[h] EXCEPT !.pos = v]]
  PROVE  Fine(d0, t, Zero)
<1>1. /\ t.bbits = s.bbits /\ t.ibits = s.ibits /\ t.obj = s.obj /\ t.list = s.list /\ t.fds = s.fds
      /\ t.slot = s.slot
  BY DEF Only, Fields
<1>2. MemTyped(s)
  BY DEF Fine, Good
<1>3. s.dirs \in [Dirs -> [obj : Objs \cup {NoObj}, pos : Nat]]
  BY <1>2 DEF MemTyped
<1> DEFINE a == s.dirs[h]
<1>4. a \in [obj : Objs \cup {NoObj}, pos : Nat]
  BY <1>3
<1> HIDE DEF a
<1>5. [a EXCEPT !.pos = v] \in [obj : Objs \cup {NoObj}, pos : Nat] /\ [a EXCEPT !.pos = v].obj = a.obj
  BY <1>4
<1>6. /\ t.dirs \in [Dirs -> [obj : Objs \cup {NoObj}, pos : Nat]]
      /\ \A g \in Dirs : t.dirs[g].obj = s.dirs[g].obj
  BY <1>3, <1>5 DEF a
<1>7. MemTyped(t)
  BY <1>1, <1>2, <1>6 DEF MemTyped
<1>8. \A p \in Objs : UsersOf(t.slot, t.dirs, p) + Zero[p] = UsersOf(s.slot, s.dirs, p) + Zero[p]
  BY <1>1, <1>6, UsersSame
<1>9. Only({"slot", "fds", "dirs"}, s, t)
  BY DEF Only
<1> QED BY <1>7, <1>8, <1>9, Repointed

\* sys_closedir: dir_close gives the reference back and the struct dir is freed.
LEMMA ClosedirOK ==
  ASSUME NEW d0, NEW s, NEW h \in Dirs, NEW o \in Objs, Fine(d0, s, Zero), s.err = "none",
         s.dirs[h].obj = o
  PROVE  Fine(d0, [inode_close(s, o) EXCEPT !.dirs[h] = NoDir], Zero)
<1> DEFINE y == [s EXCEPT !.dirs[h] = NoDir]
           c == inode_close(s, o)
           t == [c EXCEPT !.dirs[h] = NoDir]
<1>1. DOMAIN s = Fields
  BY DEF Fine, Good, Shape
<1>2. Fine(d0, y, One(o))
  BY DirFreed
<1>3. One(o) \in Local /\ One(o)[o] = 1 /\ Minus(One(o), o) = Zero
  BY LocalFacts DEF One
<1>4. DOMAIN c = Fields /\ c.slot = s.slot /\ c.fds = s.fds /\ c.dirs = s.dirs
  <2>1. Only({"obj", "list"}, s, c)
    BY <1>1, CloseOnly
  <2> HIDE DEF c
  <2> QED BY <2>1 DEF Only, Fields
<1>5. /\ Only({"slot", "fds", "dirs"}, s, y)
      /\ y.slot = s.slot /\ y.fds = s.fds /\ y.dirs = [s.dirs EXCEPT ![h] = NoDir]
  BY <1>1 DEF Only, Fields
<1> HIDE DEF y
<1>6. Fine(d0, inode_close(y, o), Zero)
  BY <1>2, <1>3, CloseOK
<1>7. /\ Only({"slot", "fds", "dirs"}, c, t)
      /\ t.slot = c.slot /\ t.fds = c.fds /\ t.dirs = [c.dirs EXCEPT ![h] = NoDir]
  <2> HIDE DEF c
  <2> QED BY <1>4 DEF Only, Fields
<1>8. t.slot = y.slot /\ t.fds = y.fds /\ t.dirs = y.dirs
  BY <1>4, <1>5, <1>7
<1> HIDE DEF t
<1>9. Fine(d0, t, Zero)
  BY <1>1, <1>5, <1>6, <1>7, <1>8, CloseCommutes
<1> QED BY <1>9 DEF t

-----------------------------------------------------------------------------
(* The inductive invariant *)

\* The bitmaps of memory m are those of disk d.
BitsAgree(m, d) ==
    /\ m.ibits = d.ibits /\ d.bbits \subseteq m.bbits
    /\ NBlocks < BITS_PER_SECTOR => m.bbits = d.bbits

\* The call in progress, if any, has met no ASSERT that fails.
Sound == on /\ panic = "none" /\ (call # NoCall => call.err = "none")

\* Memory is well formed and counts its references, and the writes on their way
\* lead to a disk whose bitmaps are those in memory.
Inv ==
    /\ DiskOK(disk) /\ MemTyped(mem) /\ Refs(mem, Zero)
    /\ on \in BOOLEAN /\ clean \in BOOLEAN /\ calls \in 0..MaxCalls
    /\ call = NoCall => out = <<>>
    /\ ~on => call = NoCall
    /\ call # NoCall => panic = "none"
    /\ \E d : Chain(disk, out, d) /\ (Sound => BitsAgree(mem, d))

\* Nothing is on its way: the disk stays as it is.
LEMMA ChainEmpty ==
  ASSUME NEW d0, NEW d1, Chain(d0, <<>>, d1)
  PROVE  d1 = d0
<1>1. PICK T, ds : /\ <<>> \in Seq(T)
                   /\ ds[1] = d0 /\ ds[Len(<<>>) + 1] = d1
  BY Zenon DEF Chain
<1> QED BY <1>1

\* partition_format leaves a disk that can be mounted.
LEMMA FormattedOK ==
  DiskOK(Formatted)
<1> DEFINE z == Zeros(TableIdx)
           i == [no |-> 0, size |-> 2, sect |-> [z EXCEPT ![1] = 1]]
<1>1. z \in [1..TableIdx -> {0}] /\ 1 \in Blocks
  BY Sizes, ZerosType DEF Blocks
<1>2. i \in DiskInodes
  <2> HIDE DEF z
  <2>1. [z EXCEPT ![1] = 1] \in [1..TableIdx -> Blocks \cup {0}]
    BY <1>1
  <2> QED BY <2>1, Numbers DEF DiskInodes
<1>3. Formatted.inode = [j \in Inodes |-> IF j # 0 THEN ZeroInode ELSE i]
  BY DEF Formatted
<1> HIDE DEF i
<1>4. Formatted.inode \in [Inodes -> DiskInodes]
  BY <1>2, <1>3, ZeroInodes
<1>5. /\ DOMAIN Formatted = {"bbits", "ibits", "inode", "block"}
      /\ Formatted.bbits = {1} /\ Formatted.ibits = {0} /\ DOMAIN Formatted.block = Blocks
  BY DEF Formatted
<1> QED BY <1>1, <1>4, <1>5, Numbers DEF DiskOK

\* Mounting a disk: only the root directory is open.
LEMMA MountedOK ==
  ASSUME NEW d, DiskOK(d)
  PROVE  MemTyped(Mounted(d)) /\ Refs(Mounted(d), Zero) /\ BitsAgree(Mounted(d), d)
<1> DEFINE m == Mounted(d)
           j == d.inode[0]
           i == [no |-> j.no, size |-> j.size, sect |-> j.sect, cnt |-> 1, deny |-> FALSE]
<1>1. /\ m.bbits = d.bbits /\ m.ibits = d.ibits
      /\ m.obj = [o \in Objs |-> IF o # 1 THEN NoInode ELSE i]
      /\ m.list = <<1>> /\ m.slot = [f \in Slots |-> NoFile] /\ m.fds = {}
      /\ m.dirs = [h \in Dirs |-> IF h = 0 THEN [obj |-> 1, pos |-> 0] ELSE NoDir]
  BY DEF Mounted
<1> HIDE DEF m
<1>2. i \in OpenInodes /\ i.cnt = 1
  <2>1. j \in DiskInodes
    BY Numbers DEF DiskOK
  <2> HIDE DEF j
  <2> QED BY <2>1 DEF DiskInodes, OpenInodes
<1> HIDE DEF i
<1>3. m.obj \in [Objs -> OpenInodes]
  BY <1>1, <1>2, ZeroInodes
<1>4. m.slot \in [Slots -> [obj : Objs \cup {NoObj}, w : BOOLEAN, pos : Int]]
  BY <1>1 DEF NoFile
<1>5. m.dirs \in [Dirs -> [obj : Objs \cup {NoObj}, pos : Nat]]
  BY <1>1, Numbers DEF NoDir
<1>6. m.list \in Seq(Objs) /\ Len(m.list) = 1 /\ m.list[1] = 1
  BY <1>1, Numbers
<1>7. MemTyped(m)
  BY <1>1, <1>3, <1>4, <1>5, <1>6 DEF MemTyped, DiskOK
<1>8. Distinct(m.list) /\ \A o \in Objs : elem_find(m.list, o) <=> o = 1
  BY <1>6 DEF Distinct, elem_find
<1>9. \A o \in Objs : m.obj[o].cnt = IF o = 1 THEN 1 ELSE 0
  BY <1>1, <1>2 DEF NoInode
<1>10. \A o \in Objs : UsersOf(m.slot, m.dirs, o) = IF o = 1 THEN 1 ELSE 0
  <2> SUFFICES ASSUME NEW o \in Objs PROVE UsersOf(m.slot, m.dirs, o) = IF o = 1 THEN 1 ELSE 0
    OBVIOUS
  <2>1. o # 0
    BY Numbers
  <2>2. {f \in Slots : m.slot[f].obj = o} = {}
    BY <1>1, <2>1 DEF NoFile
  <2>3. {h \in Dirs : m.dirs[h].obj = o} = IF o = 1 THEN {0} ELSE {}
    BY <1>1, <2>1, Numbers DEF NoDir
  <2>4. Cardinality({}) = 0
    BY FS_EmptySet
  <2>5. Cardinality({0}) = 1
    BY FS_Singleton
  <2>6. Cardinality({h \in Dirs : m.dirs[h].obj = o}) = IF o = 1 THEN 1 ELSE 0
    <3>1. CASE o = 1
      BY <2>3, <2>5, <3>1, Zenon
    <3>2. CASE o # 1
      BY <2>3, <2>4, <3>2, Zenon
    <3> QED BY <3>1, <3>2
  <2>7. Cardinality({f \in Slots : m.slot[f].obj = o}) = 0
    BY <2>2, <2>4, Zenon
  <2> QED BY <2>6, <2>7 DEF UsersOf
<1>11. Refs(m, Zero)
  BY <1>8, <1>9, <1>10 DEF Refs, Zero
<1> QED BY <1>1, <1>7, <1>11 DEF BitsAgree, m

\* It holds when the system starts.
LEMMA InvInit ==
  Init => Inv
<1> SUFFICES ASSUME Init PROVE Inv
  OBVIOUS
<1> DEFINE d == Formatted
<1>1. disk = d /\ mem = Mounted(d) /\ out = <<>> /\ call = NoCall /\ on = TRUE /\ clean = TRUE /\ calls = 0
  BY DEF Init
<1>2. DiskOK(d)
  BY FormattedOK
<1> HIDE DEF d
<1>3. MemTyped(mem) /\ Refs(mem, Zero) /\ BitsAgree(mem, d)
  BY <1>1, <1>2, MountedOK
<1>4. Chain(disk, out, d)
  BY <1>1, <1>2, ChainNil
<1> QED BY <1>1, <1>2, <1>3, <1>4, Sizes DEF Inv

\* A call begins with memory and disk in order.
LEMMA Starts ==
  ASSUME Inv, Idle
  PROVE  Fine(disk, S, Zero) /\ S.err = "none" /\ S.slot = mem.slot /\ S.fds = mem.fds /\ S.dirs = mem.dirs
<1>1. /\ S.d = disk /\ S.out = <<>> /\ S.err = "none" /\ S.bbits = mem.bbits /\ S.ibits = mem.ibits
      /\ S.obj = mem.obj /\ S.list = mem.list /\ S.slot = mem.slot /\ S.fds = mem.fds
      /\ S.dirs = mem.dirs /\ DOMAIN S = Fields
  BY DEF S, Fields
<1>2. DiskOK(disk) /\ MemTyped(mem) /\ Refs(mem, Zero) /\ out = <<>> /\ Sound
  BY DEF Inv, Idle, Sound
<1>3. BitsAgree(mem, disk)
  <2>1. PICK d : Chain(disk, out, d) /\ (Sound => BitsAgree(mem, d))
    BY DEF Inv
  <2>2. d = disk
    BY <1>2, <2>1, ChainEmpty
  <2> QED BY <1>2, <2>1, <2>2
<1> HIDE DEF S
<1>4. Shape(disk, S)
  BY <1>1, <1>2, ChainNil DEF Shape
<1>5. MemTyped(S) /\ Refs(S, Zero)
  BY <1>1, <1>2 DEF MemTyped, Refs
<1>6. Good(disk, S)
  BY <1>1, <1>3, <1>4, <1>5 DEF Good, BitsAgree
<1>7. Fine(disk, S, Zero)
  BY <1>1, <1>3, <1>5, <1>6 DEF Fine, BitsAgree, Exact
<1> QED BY <1>1, <1>7

\* A call that leaves the references it took behind it keeps the invariant.
LEMMA DoOK ==
  ASSUME Inv, NEW c, NEW s, Do(c, s), Idle => Fine(disk, s, Zero)
  PROVE  Inv'
<1>1. Idle /\ Fine(disk, s, Zero)
  BY DEF Do
<1>2. /\ calls < MaxCalls /\ mem' = (IF s.err = "none" THEN Memory(s) ELSE mem)
      /\ calls' \in {calls, calls + 1} /\ out' = s.out
      /\ call' = IF s.out = <<>> THEN NoCall
                 ELSE [op |-> c.op, path |-> c.path, data |-> c.data,
                       ok |-> s.err = "none" /\ s.r = 0, err |-> s.err, old |-> tree]
      /\ panic' = (IF s.out = <<>> THEN s.err ELSE "none")
      /\ disk' = disk /\ on' = on /\ clean' = clean
  BY DEF Do
<1>3. /\ DiskOK(disk) /\ MemTyped(mem) /\ Refs(mem, Zero) /\ on = TRUE /\ clean \in BOOLEAN
      /\ calls \in 0..MaxCalls
  BY <1>1 DEF Inv, Idle
<1>4. Chain(disk, s.out, s.d) /\ DOMAIN s = Fields
  BY <1>1 DEF Fine, Good, Shape
<1>5. MemTyped(mem') /\ Refs(mem', Zero) /\ (s.err = "none" => BitsAgree(mem', s.d))
  <2>1. CASE s.err # "none"
    BY <1>2, <1>3, <2>1
  <2>2. CASE s.err = "none"
    <3>1. MemTyped(s) /\ Refs(s, Zero) /\ s.d.bbits \subseteq s.bbits /\ s.ibits = s.d.ibits /\ Exact(s)
      BY <1>1, <2>2 DEF Fine, Good
    <3> DEFINE m == Memory(s)
    <3>2. /\ m.bbits = s.bbits /\ m.ibits = s.ibits /\ m.obj = s.obj /\ m.list = s.list
          /\ m.slot = s.slot /\ m.fds = s.fds /\ m.dirs = s.dirs
      BY DEF Memory
    <3>3. mem' = m
      BY <1>2, <2>2
    <3> HIDE DEF m
    <3>4. MemTyped(m)
      BY <3>1, <3>2 DEF MemTyped
    <3>5. Refs(m, Zero)
      BY <3>1, <3>2 DEF Refs
    <3>6. BitsAgree(m, s.d)
      BY <3>1, <3>2 DEF BitsAgree, Exact
    <3> QED BY <3>3, <3>4, <3>5, <3>6
  <2> QED BY <2>1, <2>2
<1>6. calls' \in 0..MaxCalls
  BY <1>2, <1>3, Sizes
<1>7. s.out # <<>> => call' # NoCall /\ call'.err = s.err
  <2>1. SUFFICES ASSUME s.out # <<>> PROVE call' # NoCall /\ call'.err = s.err
    OBVIOUS
  <2> DEFINE k == [op |-> c.op, path |-> c.path, data |-> c.data,
                   ok |-> s.err = "none" /\ s.r = 0, err |-> s.err, old |-> tree]
  <2>2. call' = k
    BY <1>2, <2>1
  <2>3. "err" \in DOMAIN k /\ k.err = s.err
    OBVIOUS
  <2>4. "err" \notin DOMAIN NoCall
    BY DEF NoCall
  <2> HIDE DEF k
  <2> QED BY <2>2, <2>3, <2>4
<1>8. Sound' => s.err = "none"
  BY <1>2, <1>7 DEF Sound
<1>9. Chain(disk', out', s.d) /\ (Sound' => BitsAgree(mem', s.d))
  BY <1>2, <1>4, <1>5, <1>8
<1>10. call' = NoCall => out' = <<>>
  BY <1>2, <1>7
<1>11. call' # NoCall => panic' = "none"
  BY <1>2, <1>7
<1> QED BY <1>2, <1>3, <1>5, <1>6, <1>9, <1>10, <1>11 DEF Inv

\* Every call on a path.
LEMMA PathCallsOK ==
  ASSUME Inv, NEW p \in Paths,
         \/ \E create, w \in BOOLEAN : sys_open(p, create, w)
         \/ sys_unlink(p) \/ sys_mkdir(p) \/ sys_rmdir(p)
         \/ sys_opendir(p) \/ sys_chdir(p) \/ sys_stat(p)
  PROVE  Inv'
<1> DEFINE x == search_file(S, p)
<1>1. Idle => Found(disk, S, x) /\ S.dirs = mem.dirs
  <2>1. SUFFICES ASSUME Idle PROVE Found(disk, S, x) /\ S.dirs = mem.dirs
    OBVIOUS
  <2>2. Fine(disk, S, Zero) /\ S.dirs = mem.dirs
    BY <2>1, Starts
  <2> DEFINE s == S
  <2>3. Fine(disk, s, Zero)
    BY <2>2
  <2> HIDE DEF s
  <2>4. Found(disk, s, search_file(s, p))
    BY <2>3, SearchOK
  <2> QED BY <2>2, <2>4 DEF s
<1> HIDE DEF x
<1>2. ASSUME NEW create \in BOOLEAN, NEW w \in BOOLEAN, sys_open(p, create, w)
      PROVE  Inv'
  <2> DEFINE s == open_path(x, p, create, w)
             c == PathCall("create", p)
  <2>1. Do(c, s)
    BY <1>2, Zenon DEF sys_open, x
  <2>2. Idle => Fine(disk, s, Zero)
    BY <1>1, OpenPathOK
  <2> HIDE DEF s, c
  <2> QED BY <2>1, <2>2, DoOK
<1>3. ASSUME sys_unlink(p) PROVE Inv'
  <2> DEFINE s == unlink(x)
             c == PathCall("unlink", p)
  <2>1. Do(c, s)
    BY <1>3, Zenon DEF sys_unlink, x
  <2>2. Idle => Fine(disk, s, Zero)
    BY <1>1, UnlinkOK
  <2> HIDE DEF s, c
  <2> QED BY <2>1, <2>2, DoOK
<1>4. ASSUME sys_mkdir(p) PROVE Inv'
  <2> DEFINE s == mkdir(x, p)
             c == PathCall("mkdir", p)
  <2>1. Do(c, s)
    BY <1>4, Zenon DEF sys_mkdir, x
  <2>2. Idle => Fine(disk, s, Zero)
    BY <1>1, MkdirOK
  <2> HIDE DEF s, c
  <2> QED BY <2>1, <2>2, DoOK
<1>5. ASSUME sys_rmdir(p) PROVE Inv'
  <2> DEFINE s == rmdir(x)
             c == PathCall("rmdir", p)
  <2>1. Do(c, s)
    BY <1>5, Zenon DEF sys_rmdir, x
  <2>2. Idle => Fine(disk, s, Zero)
    BY <1>1, RmdirOK
  <2> HIDE DEF s, c
  <2> QED BY <2>1, <2>2, DoOK
<1>6. ASSUME sys_opendir(p) PROVE Inv'
  <2> DEFINE free == {h \in Dirs : mem.dirs[h].obj = NoObj}
             k == Min(free)
             s == opendir(x, k)
             c == PathCall("opendir", p)
  <2>1. Do(c, s)
    BY <1>6, Zenon DEF sys_opendir, x
  <2>2. free # {}
    BY <1>6 DEF sys_opendir
  <2>3. k \in free
    <3>1. free \in SUBSET Nat
      BY Numbers
    <3> HIDE DEF free
    <3> QED BY <2>2, <3>1, MinIn
  <2>4. k \in Dirs /\ mem.dirs[k].obj = NoObj
    BY <2>3
  <2> HIDE DEF k
  <2>5. Idle => Fine(disk, s, Zero)
    BY <1>1, <2>4, OpendirOK
  <2> HIDE DEF s, c
  <2> QED BY <2>1, <2>5, DoOK
<1>7. ASSUME sys_chdir(p) PROVE Inv'
  <2> DEFINE s == chdir(x)
             c == PathCall("chdir", p)
  <2>1. Do(c, s)
    BY <1>7, Zenon DEF sys_chdir, x
  <2>2. Idle => Fine(disk, s, Zero)
    BY <1>1, ChdirOK
  <2> HIDE DEF s, c
  <2> QED BY <2>1, <2>2, DoOK
<1>8. ASSUME sys_stat(p) PROVE Inv'
  <2> DEFINE s == stat(x)
             c == PathCall("stat", p)
  <2>1. Do(c, s)
    BY <1>8, Zenon DEF sys_stat, x
  <2>2. Idle => Fine(disk, s, Zero)
    BY <1>1, StatOK
  <2> HIDE DEF s, c
  <2> QED BY <2>1, <2>2, DoOK
<1> QED BY <1>2, <1>3, <1>4, <1>5, <1>6, <1>7, <1>8

\* Every call on a descriptor.
LEMMA FileCallsOK ==
  ASSUME Inv, NEW f \in Slots,
         \/ sys_close(f)
         \/ \E n \in Transfers : sys_write(f, n) \/ sys_read(f, n)
         \/ \E pos \in Transfers : sys_lseek(f, pos)
  PROVE  Inv'
<1> DEFINE s == S
<1>1. Idle => Fine(disk, s, Zero) /\ s.err = "none" /\ s.fds = mem.fds
  BY Starts
<1>2. Transfers \subseteq Nat
  BY Sizes
<1> HIDE DEF s
<1>3. ASSUME sys_close(f) PROVE Inv'
  <2> DEFINE t == [disk_file_release(s, f) EXCEPT !.slot[f] = NoFile, !.fds = @ \ {f}]
             c == PathCall("close", <<>>)
  <2>1. Do(c, t) /\ f \in mem.fds
    BY <1>3 DEF sys_close, s
  <2>2. Idle => Fine(disk, t, Zero)
    BY <1>1, <2>1, CloseFileOK
  <2> HIDE DEF t, c
  <2> QED BY <2>1, <2>2, DoOK
<1>4. ASSUME NEW n \in Transfers, sys_write(f, n) PROVE Inv'
  <2> DEFINE t == file_write(s, f, n)
             i == mem.obj[mem.slot[f].obj]
             c == WriteCall(NameOf(f), Units(i.no, i.size, n))
  <2>1. Do(c, t) /\ f \in mem.fds
    BY <1>4, Zenon DEF sys_write, s
  <2>2. Idle => Fine(disk, t, Zero)
    BY <1>1, <1>2, <2>1, FileWriteOK
  <2> HIDE DEF t, c
  <2> QED BY <2>1, <2>2, DoOK
<1>5. ASSUME NEW n \in Transfers, sys_read(f, n) PROVE Inv'
  <2> DEFINE t == file_read(s, f, n)
             c == PathCall("read", <<>>)
  <2>1. Do(c, t) /\ f \in mem.fds
    BY <1>5, Zenon DEF sys_read, s
  <2>2. Idle => Fine(disk, t, Zero)
    BY <1>1, <1>2, <2>1, FileReadOK
  <2> HIDE DEF t, c
  <2> QED BY <2>1, <2>2, DoOK
<1>6. ASSUME NEW pos \in Transfers, sys_lseek(f, pos) PROVE Inv'
  <2> DEFINE t == disk_file_lseek(s, f, pos)
             c == PathCall("lseek", <<>>)
  <2>1. Do(c, t) /\ f \in mem.fds
    BY <1>6, Zenon DEF sys_lseek, s
  <2>2. Idle => Fine(disk, t, Zero)
    BY <1>1, <1>2, <2>1, LseekOK
  <2> HIDE DEF t, c
  <2> QED BY <2>1, <2>2, DoOK
<1> QED BY <1>3, <1>4, <1>5, <1>6

\* Every call on an open directory, and sys_getcwd.
LEMMA DirCallsOK ==
  ASSUME Inv, (\E h \in Dirs : sys_readdir(h) \/ sys_rewinddir(h) \/ sys_closedir(h)) \/ sys_getcwd
  PROVE  Inv'
<1> DEFINE s == S
<1>1. Idle => /\ Fine(disk, s, Zero) /\ s.err = "none" /\ s.dirs = mem.dirs /\ DOMAIN s = Fields
              /\ s.dirs \in [Dirs -> [obj : Objs \cup {NoObj}, pos : Nat]]
  BY Starts DEF Fine, Good, Shape, MemTyped
<1>2. ASSUME NEW h \in Dirs, NEW t, NEW v, Idle, v \in Nat, t = [s EXCEPT !.dirs[h].pos = v]
      PROVE  Fine(disk, t, Zero)
  <2> HIDE DEF s
  <2>1. DOMAIN s = Fields
    BY <1>1, <1>2
  <2>2. Only({"dirs"}, s, t) /\ t.dirs = [s.dirs EXCEPT ![h] = [s.dirs[h] EXCEPT !.pos = v]]
    BY <1>2, <2>1 DEF Only, Fields
  <2>3. Fine(disk, s, Zero) /\ s.err = "none" /\ v \in Nat
    BY <1>1, <1>2
  <2> QED BY <2>2, <2>3, DirMoved
<1>3. ASSUME NEW h \in Dirs, sys_readdir(h) PROVE Inv'
  <2> DEFINE v == s.dirs[h].pos + 1
             t == [s EXCEPT !.dirs[h].pos = v]
             u == IF dir_read(S, mem.dirs[h]) = NULL THEN s ELSE t
             c == PathCall("readdir", <<>>)
  <2>1. Do(c, u)
    <3>1. Do(c, IF dir_read(S, mem.dirs[h]) = NULL THEN S ELSE [S EXCEPT !.dirs[h].pos = @ + 1])
      BY <1>3, Zenon DEF sys_readdir
    <3> QED BY <3>1, Zenon
  <2>2. Idle => v \in Nat
    <3> HIDE DEF s
    <3> QED BY <1>1
  <2> HIDE DEF v, s
  <2>3. Idle => Fine(disk, t, Zero)
    BY <1>2, <2>2
  <2>4. Idle => Fine(disk, u, Zero)
    <3> HIDE DEF t
    <3> QED BY <1>1, <2>3
  <2> HIDE DEF u, c
  <2> QED BY <2>1, <2>4, DoOK
<1>4. ASSUME NEW h \in Dirs, sys_rewinddir(h) PROVE Inv'
  <2> DEFINE t == [s EXCEPT !.dirs[h].pos = 0]
             c == PathCall("rewinddir", <<>>)
  <2>1. Do(c, t)
    BY <1>4, Zenon DEF sys_rewinddir
  <2> HIDE DEF s
  <2>2. Idle => Fine(disk, t, Zero)
    BY <1>2
  <2> HIDE DEF t, c
  <2> QED BY <2>1, <2>2, DoOK
<1>5. ASSUME NEW h \in Dirs, sys_closedir(h) PROVE Inv'
  <2> DEFINE o == mem.dirs[h].obj
             t == [inode_close(s, o) EXCEPT !.dirs[h] = NoDir]
             c == PathCall("closedir", <<>>)
  <2>1. Do(c, t) /\ o # NoObj
    BY <1>5, Zenon DEF sys_closedir
  <2> HIDE DEF s
  <2>2. Idle => o \in Objs /\ s.dirs[h].obj = o
    BY <1>1, <2>1
  <2> HIDE DEF o
  <2>3. Idle => Fine(disk, t, Zero)
    BY <1>1, <2>2, ClosedirOK
  <2> HIDE DEF t, c
  <2> QED BY <2>1, <2>3, DoOK
<1>6. ASSUME sys_getcwd PROVE Inv'
  <2> DEFINE t == getcwd(s)
             c == PathCall("getcwd", <<>>)
  <2>1. Do(c, t)
    BY <1>6, Zenon DEF sys_getcwd
  <2> HIDE DEF s
  <2>2. Idle => Fine(disk, t, Zero)
    BY <1>1, GetcwdOK
  <2> HIDE DEF t, c
  <2> QED BY <2>1, <2>2, DoOK
<1> QED BY <1>3, <1>4, <1>5, <1>6

\* The writes reach the disk, the call returns, the power goes, the disk is mounted.
LEMMA MachineOK ==
  ASSUME Inv, DiskWrite \/ Return \/ PowerCut \/ Mount
  PROVE  Inv'
<1>1. /\ DiskOK(disk) /\ MemTyped(mem) /\ Refs(mem, Zero) /\ on \in BOOLEAN /\ clean \in BOOLEAN
      /\ calls \in 0..MaxCalls /\ (call = NoCall => out = <<>>) /\ (~on => call = NoCall)
      /\ (call # NoCall => panic = "none")
  BY DEF Inv
<1>2. PICK d : Chain(disk, out, d) /\ (Sound => BitsAgree(mem, d))
  BY DEF Inv
<1>3. ASSUME DiskWrite PROVE Inv'
  <2>1. /\ on /\ out # <<>> /\ disk' = Apply(disk, Head(out)) /\ out' = Tail(out)
        /\ mem' = mem /\ call' = call /\ on' = on /\ clean' = clean /\ calls' = calls /\ panic' = panic
    BY <1>3 DEF DiskWrite
  <2>2. DiskOK(disk') /\ Chain(disk', out', d)
    BY <1>2, <2>1, ChainHead
  <2>3. Sound' => BitsAgree(mem', d)
    BY <1>2, <2>1 DEF Sound
  <2> QED BY <1>1, <2>1, <2>2, <2>3 DEF Inv
<1>4. ASSUME Return PROVE Inv'
  <2>1. /\ on /\ out = <<>> /\ call # NoCall /\ call' = NoCall /\ panic' = call.err /\ disk' = disk
        /\ out' = out /\ mem' = mem /\ on' = on /\ clean' = clean /\ calls' = calls
    BY <1>4 DEF Return
  <2>2. Sound' => BitsAgree(mem', d)
    BY <1>1, <1>2, <2>1 DEF Sound
  <2> QED BY <1>1, <1>2, <2>1, <2>2 DEF Inv
<1>5. ASSUME PowerCut PROVE Inv'
  <2>1. /\ on' = FALSE /\ clean' \in BOOLEAN /\ call' = NoCall /\ out' = <<>>
        /\ mem' = Mounted(Formatted) /\ disk' = disk /\ calls' = calls
    BY <1>5 DEF PowerCut
  <2> DEFINE f == Formatted
  <2>2. DiskOK(f)
    BY FormattedOK
  <2> HIDE DEF f
  <2>3. MemTyped(Mounted(f)) /\ Refs(Mounted(f), Zero)
    BY <2>2, MountedOK
  <2>4. Chain(disk', out', disk) /\ ~Sound'
    BY <1>1, <2>1, ChainNil DEF Sound
  <2> QED BY <1>1, <2>1, <2>3, <2>4 DEF Inv, f
<1>6. ASSUME Mount PROVE Inv'
  <2>1. /\ ~on /\ on' = TRUE /\ mem' = Mounted(disk) /\ disk' = disk /\ out' = out /\ call' = call
        /\ clean' = clean /\ calls' = calls
    BY <1>6 DEF Mount
  <2>2. MemTyped(mem') /\ Refs(mem', Zero) /\ BitsAgree(mem', disk)
    BY <1>1, <2>1, MountedOK
  <2>3. Chain(disk', out', disk)
    BY <1>1, <2>1, ChainNil
  <2> QED BY <1>1, <2>1, <2>2, <2>3 DEF Inv
<1> QED BY <1>3, <1>4, <1>5, <1>6

\* Every step keeps the invariant.
LEMMA InvNext ==
  Inv /\ [Next]_vars => Inv'
<1> SUFFICES ASSUME Inv, [Next]_vars PROVE Inv'
  OBVIOUS
<1>1. CASE UNCHANGED vars
  BY <1>1 DEF vars, Inv, Sound
<1>2. CASE Next
  <2>1. \/ \E p \in Paths : \/ \E create, w \in BOOLEAN : sys_open(p, create, w)
                            \/ sys_unlink(p) \/ sys_mkdir(p) \/ sys_rmdir(p)
                            \/ sys_opendir(p) \/ sys_chdir(p) \/ sys_stat(p)
        \/ \E f \in Slots : \/ sys_close(f)
                            \/ \E n \in Transfers : sys_write(f, n) \/ sys_read(f, n)
                            \/ \E pos \in Transfers : sys_lseek(f, pos)
        \/ (\E h \in Dirs : sys_readdir(h) \/ sys_rewinddir(h) \/ sys_closedir(h)) \/ sys_getcwd
        \/ DiskWrite \/ Return \/ PowerCut \/ Mount
    BY <1>2, Zenon DEF Next
  <2> QED BY <2>1, PathCallsOK, FileCallsOK, DirCallsOK, MachineOK, Zenon
<1> QED BY <1>1, <1>2

\* So it always holds.
LEMMA InvAlways ==
  Spec => []Inv
<1> QED BY InvInit, InvNext, PTL DEF Spec

\* Types: whatever the calls and wherever the power goes, what a mount would
\* read and what is in memory is well formed, and no descriptor is left with a
\* slot of file_table that is not in use.
THEOREM FileSystemTypeCorrect == Spec => []TypeOK
<1>1. Inv => TypeOK
  BY DEF Inv, DiskOK, MemTyped, TypeOK
<1> QED BY <1>1, InvAlways, PTL

\* Between calls the bitmaps in memory are those on disk, although a call writes
\* them one by one and the power may go between any two writes; and no slot of
\* file_table and no open directory is left with an inode object that was freed.
THEOREM MemoryAlwaysMatchesDisk == Spec => []MemoryMatchesDisk
<1>1. Inv => BitmapsMatch
  <2> SUFFICES ASSUME Inv, on, call = NoCall, panic = "none" PROVE BitsAgree(mem, disk)
    BY DEF BitmapsMatch, BitsAgree
  <2>1. PICK d : Chain(disk, out, d) /\ (Sound => BitsAgree(mem, d))
    BY DEF Inv
  <2>2. out = <<>> /\ Sound
    BY DEF Inv, Sound
  <2>3. d = disk
    BY <2>1, <2>2, ChainEmpty
  <2> QED BY <2>1, <2>2, <2>3
<1>2. Inv => InodesCounted
  <2> SUFFICES ASSUME Inv PROVE InodesCounted
    OBVIOUS
  <2>1. MemTyped(mem) /\ Refs(mem, Zero)
    BY DEF Inv
  <2>2. ToSet(mem.list) = {o \in Objs : mem.obj[o].cnt > 0}
    <3>1. mem.list \in Seq(Objs)
      BY <2>1 DEF MemTyped
    <3>2. ToSet(mem.list) = {mem.list[i] : i \in 1..Len(mem.list)}
      BY <3>1 DEF ToSet
    <3>3. \A i \in 1..Len(mem.list) : mem.list[i] \in Objs
      BY <3>1
    <3>4. \A o \in Objs : o \in ToSet(mem.list) <=> mem.obj[o].cnt > 0
      BY <2>1, <3>2, Zenon DEF Refs, elem_find
    <3> QED BY <3>2, <3>3, <3>4, Zenon
  <2>3. \A o \in Objs : mem.obj[o].cnt >= UsersOf(mem.slot, mem.dirs, o)
    <3> SUFFICES ASSUME NEW o \in Objs PROVE mem.obj[o].cnt >= UsersOf(mem.slot, mem.dirs, o)
      OBVIOUS
    <3>1. mem.obj[o].cnt >= UsersOf(mem.slot, mem.dirs, o) + Zero[o] /\ Zero[o] = 0
      BY <2>1 DEF Refs, Zero
    <3>2. UsersOf(mem.slot, mem.dirs, o) \in Nat
      BY UsersNat
    <3> QED BY <3>1, <3>2
  <2> QED BY <2>1, <2>2, <2>3, Zenon DEF InodesCounted, UsersOf, Refs
<1> QED BY <1>1, <1>2, InvAlways, PTL DEF MemoryMatchesDisk
=============================================================================
