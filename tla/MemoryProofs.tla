---------------------------- MODULE MemoryProofs ----------------------------
(***************************************************************************)
(* Page allocation for any number of processes, frames and pages: a user   *)
(* frame has one owner, the virtual bitmap and the page tables agree, and  *)
(* a fork copies the address space of the parent.                          *)
(***************************************************************************)
EXTENDS Memory, FiniteSetTheorems, WellFoundedInduction, TLAPS

USE MemoryAssumption

\* A set of numbers that is not empty has a least one: the searches from the
\* front of a list and for the lowest free bit find what they look for.
LEMMA LeastExists ==
  ASSUME NEW T \in SUBSET Nat, T # {}
  PROVE  \E x \in T : \A y \in T : x <= y
<1> DEFINE R == OpToRel(<, Nat)
<1>1. IsWellFoundedOn(R, Nat)
  BY NatLessThanWellFounded
<1>2. \A x, y \in Nat : <<x, y>> \in R <=> x < y
  BY DEF OpToRel
<1> HIDE DEF R
<1>3. PICK x \in T : \A y \in T : ~(<<y, x>> \in R)
  BY <1>1, WFMin, Zenon
<1>4. \A y \in T : x \in Nat /\ y \in Nat /\ ~(y < x)
  BY <1>2, <1>3
<1>5. \A y \in T : x <= y
  BY <1>4
<1> QED BY <1>5

-----------------------------------------------------------------------------
(* Bitmaps *)

\* The least element of a set of numbers is one of its elements: the searches
\* of bitmap_scan find a free bit when there is one.
LEMMA MinFacts ==
  ASSUME NEW S \in SUBSET Nat, S # {}
  PROVE  Min(S) \in S /\ \A y \in S : Min(S) <= y
<1>1. \E x \in S : \A y \in S : x <= y
  BY LeastExists
<1> QED BY <1>1 DEF Min

\* A run of bits that bitmap_scan finds is free, begins in the bitmap and ends at
\* most one bit past its end.
LEMMA ScanFacts ==
  ASSUME NEW b, NEW len \in Nat \ {0}, NEW n \in Nat \ {0}, ~BitmapFull(b, len),
         bitmap_scan(b, len, n) # -1
  PROVE  LET at == bitmap_scan(b, len, n)
         IN /\ at \in Nat /\ at + n - 1 <= len /\ at <= len - 1
            /\ \A v \in at..(at + n - 1) : v \notin b
<1> DEFINE free  == (0..(len - 1)) \ b
           first == Min(free)
           ends  == {e \in (first + n - 1)..len : ((e - n + 1)..e) \cap b = {}}
<1>1. free # {} /\ free \in SUBSET Nat
  BY DEF BitmapFull
<1>2. first \in free
  BY <1>1, MinFacts
<1>3. CASE n = 1
  <2>1. bitmap_scan(b, len, n) = first
    BY <1>3 DEF bitmap_scan
  <2>2. first \in Nat /\ first <= len - 1 /\ first \notin b /\ first + n - 1 = first
    BY <1>2, <1>3
  <2>3. \A v \in first..(first + n - 1) : v = first
    BY <2>2
  <2> QED BY <2>1, <2>2, <2>3
<1>4. CASE n # 1
  <2>1. n > 1 /\ first \in Nat
    BY <1>2, <1>4
  <2>2. ends # {} /\ bitmap_scan(b, len, n) = Min(ends) - n + 1
    <3> HIDE DEF free
    <3>1. bitmap_scan(b, len, n) = IF ends = {} THEN -1 ELSE Min(ends) - n + 1
      BY <2>1, SMTT(20) DEF bitmap_scan, free
    <3> QED BY <3>1
  <2>3. ends \in SUBSET Nat
    BY <2>1
  <2>4. Min(ends) \in ends
    BY <2>2, <2>3, MinFacts
  <2>5. PICK e \in ends : e = Min(ends)
    BY <2>4
  <2> HIDE DEF first
  <2>6. e \in Nat /\ e >= first + n - 1 /\ e <= len /\ ((e - n + 1)..e) \cap b = {}
    BY <2>1, <2>5
  <2>7. (e - n + 1) + n - 1 = e /\ e - n + 1 \in Nat /\ e - n + 1 <= len - 1
    BY <2>1, <2>6
  <2>8. bitmap_scan(b, len, n) = e - n + 1
    BY <2>2, <2>5
  <2> HIDE DEF ends
  <2> QED BY <2>6, <2>7, <2>8
<1> QED BY <1>3, <1>4

\* In a finite set of numbers there is one with just i smaller ones, for each i
\* below the size of the set: Nth names the frames palloc takes one by one.
LEMMA NthFacts ==
  ASSUME NEW S \in SUBSET Nat, IsFiniteSet(S), NEW i \in Nat, i < Cardinality(S)
  PROVE  Nth(S, i) \in S
<1> DEFINE Below(f) == {g \in S : g < f}
           Has(j)   == \E f \in S : Cardinality(Below(f)) = j
           bad      == {j \in Nat : j < Cardinality(S) /\ ~Has(j)}
<1>0. Cardinality(S) \in Nat
  BY FS_CardinalityType
<1>1. \A f \in S : IsFiniteSet(Below(f))
  BY FS_Subset
<1>2. ASSUME bad # {} PROVE FALSE
  <2>1. PICK j \in bad : \A k \in bad : j <= k
    BY <1>2, LeastExists
  <2>2. CASE j = 0
    <3>1. S # {}
      BY <2>1, <2>2, FS_EmptySet
    <3>2. PICK f \in S : \A y \in S : f <= y
      BY <3>1, LeastExists
    <3>3. Below(f) = {}
      <4>1. \A y \in S : f \in Nat /\ y \in Nat /\ ~(y < f)
        BY <3>2
      <4> QED BY <4>1
    <3>4. Cardinality(Below(f)) = 0
      BY <3>3, FS_EmptySet
    <3> QED BY <2>1, <2>2, <3>4
  <2>3. CASE j # 0
    <3>1. j - 1 \in Nat /\ j - 1 < Cardinality(S) /\ ~(j <= j - 1)
      BY <1>0, <2>1, <2>3
    <3>2. Has(j - 1)
      BY <2>1, <3>1
    <3>3. PICK f \in S : Cardinality(Below(f)) = j - 1
      BY <3>2
    <3> DEFINE upto  == Below(f) \cup {f}
               above == S \ upto
    <3>4. f \notin Below(f) /\ f \in Nat /\ IsFiniteSet(Below(f))
      BY <1>1
    <3>5. IsFiniteSet(upto) /\ Cardinality(upto) = j
      <4>1. IsFiniteSet(upto) /\ Cardinality(upto) = Cardinality(Below(f)) + 1
        BY <3>4, FS_AddElement
      <4> QED BY <3>1, <3>3, <4>1
    <3>6. above # {}
      <4>1. SUFFICES ASSUME above = {} PROVE FALSE
        OBVIOUS
      <4>2. S = upto
        BY <4>1
      <4>3. Cardinality(S) = j
        BY <3>5, <4>2
      <4> QED BY <1>0, <2>1, <4>3
    <3>7. PICK g \in above : \A y \in above : g <= y
      BY <3>6, LeastExists
    <3>8. g \in S /\ g \in Nat /\ f < g
      BY <3>4, <3>7
    <3>9. Below(g) = upto
      <4>1. ASSUME NEW y \in S PROVE y < g <=> y \in upto
        <5>1. y \in Nat /\ (y \in upto <=> y < f \/ y = f)
          OBVIOUS
        <5>2. y \notin upto => g <= y
          BY <3>7
        <5> QED BY <3>4, <3>8, <5>1, <5>2
      <4>2. upto \subseteq S
        OBVIOUS
      <4> QED BY <4>1, <4>2
    <3> QED BY <2>1, <3>5, <3>8, <3>9
  <2> QED BY <2>2, <2>3
<1>3. Has(i)
  BY <1>2
<1> QED BY <1>3 DEF Nth

-----------------------------------------------------------------------------
(* Kernel pages *)

\* The well formed states of the kernel's own pages.
KPagesState == [used : SUBSET Frames, map : [KVirt -> KFrames \cup {NoFrame}],
                reg : [Roles -> Region], err : {"none", "full", "NULL"}]

\* The frames of the two pools are separate, and none is 0.
LEMMA FrameFacts ==
  /\ KFrames \in SUBSET Nat /\ UFrames \in SUBSET Nat /\ KFrames \cap UFrames = {}
  /\ NoFrame \notin KFrames /\ NoFrame \notin UFrames /\ UFrames # {}
  /\ IsFiniteSet(KFrames) /\ IsFiniteSet(UFrames) /\ IsFiniteSet(UVirt)
<1>1. NKernel \in Nat /\ NUser \in Nat \ {0} /\ UPages \in Nat
  OBVIOUS
<1>2. KFrames \in SUBSET Nat /\ UFrames \in SUBSET Nat /\ KFrames \cap UFrames = {}
  BY <1>1 DEF KFrames, UFrames
<1>3. NoFrame \notin KFrames /\ NoFrame \notin UFrames
  BY <1>1 DEF KFrames, UFrames, NoFrame
<1>4. NKernel + 1 \in UFrames
  BY <1>1 DEF UFrames
<1>5. IsFiniteSet(KFrames) /\ IsFiniteSet(UFrames) /\ IsFiniteSet(UVirt)
  <2>1. \A a, b \in Int : IsFiniteSet(a..b)
    BY FS_Interval
  <2>2. IsFiniteSet(1..NKernel)
    BY <1>1, <2>1
  <2>3. IsFiniteSet((NKernel + 1)..(NKernel + NUser)) /\ IsFiniteSet(0..(UPages - 1))
    BY <1>1, <2>1
  <2> QED BY <2>2, <2>3 DEF KFrames, UFrames, UVirt
<1> QED BY <1>2, <1>3, <1>4, <1>5

\* get_kernel_pages takes frames of the kernel pool only, and the pages it
\* returns are pages of the kernel.
LEMMA GetKernelPages ==
  ASSUME NEW k \in KPagesState, NEW role \in Roles, NEW n \in Nat \ {0}
  PROVE  LET r == get_kernel_pages(k, role, n)
         IN /\ r \in KPagesState
            /\ r.used \cap UFrames = k.used \cap UFrames
            /\ r.err = "none" =>
                 /\ k.err = "none"
                 /\ \A o \in Roles \ {role} : r.reg[o] = k.reg[o]
                 /\ r.reg[role].n = n
                 /\ r.reg[role].at \in Nat /\ r.reg[role].at + n - 1 <= KPages
<1> DEFINE r     == get_kernel_pages(k, role, n)
           kbits == {v \in KVirt : k.map[v] # NoFrame}
           free  == KFrames \ k.used
           at    == bitmap_scan(kbits, KPages, n)
           more  == map_kernel_pages(k, role, at, n)
           fits  == /\ k.err = "none" /\ ~BitmapFull(kbits, KPages) /\ at # -1
                    /\ ~(Cardinality(free) < n)
<1>1. \/ r = k /\ k.err # "none"
      \/ r = [k EXCEPT !.err = "full"]
      \/ r = [k EXCEPT !.err = "NULL"]
      \/ fits /\ r = more
  <2> DEFINE full  == BitmapFull(kbits, KPages)
             short == Cardinality(free) < n
  <2>1. r = CASE k.err # "none" -> k
              [] k.err = "none" /\ full -> [k EXCEPT !.err = "full"]
              [] k.err = "none" /\ ~full /\ at = -1 -> [k EXCEPT !.err = "NULL"]
              [] k.err = "none" /\ ~full /\ at # -1 /\ short -> [k EXCEPT !.err = "full"]
              [] OTHER -> more
    BY Zenon DEF get_kernel_pages
  <2> HIDE DEF r, full, short, at, more
  <2>2. CASE k.err # "none"
    BY <2>1, <2>2
  <2>3. CASE k.err = "none" /\ full
    BY <2>1, <2>3
  <2>4. CASE k.err = "none" /\ ~full /\ at = -1
    BY <2>1, <2>4
  <2>5. CASE k.err = "none" /\ ~full /\ at # -1 /\ short
    BY <2>1, <2>5
  <2>6. CASE k.err = "none" /\ ~full /\ at # -1 /\ ~short
    BY <2>1, <2>6 DEF full, short
  <2> QED BY <2>2, <2>3, <2>4, <2>5, <2>6
<1>2. CASE r = k /\ k.err # "none"
  BY <1>2
<1>3. ASSUME NEW e \in {"full", "NULL"}, r = [k EXCEPT !.err = e]
      PROVE  r \in KPagesState /\ r.used = k.used /\ r.err # "none"
  <2> HIDE DEF r
  <2> QED BY <1>3 DEF KPagesState
<1>4. CASE fits /\ r = more
  <2>1. free \in SUBSET Nat /\ IsFiniteSet(free)
    BY FrameFacts, FS_Subset
  <2>2. Cardinality(free) \in Nat
    BY <2>1, FS_CardinalityType
  <2>3. ASSUME NEW i \in 0..(n - 1) PROVE Nth(free, i) \in KFrames
    <3>1. i \in Nat /\ i < Cardinality(free)
      BY <1>4, <2>2
    <3>2. Nth(free, i) \in free
      BY <2>1, <3>1, NthFacts
    <3> QED BY <3>2
  <2>4. at \in Nat /\ at + n - 1 <= KPages
    <3> HIDE DEF kbits
    <3> QED BY <1>4, ScanFacts
  <2>5. ASSUME NEW v \in at..(at + n - 1) PROVE Nth(free, v - at) \in KFrames
    <3>1. v - at \in 0..(n - 1)
      BY <2>4
    <3> QED BY <2>3, <3>1
  <2> HIDE DEF free, at
  <2> DEFINE U == k.used \cup {Nth(free, i) : i \in 0..(n - 1)}
             M == [v \in KVirt |-> IF v \in at..(at + n - 1)
                                     THEN Nth(free, v - at) ELSE k.map[v]]
             R == [k.reg EXCEPT ![role] = [at |-> at, n |-> n]]
  <2>6. r = [used |-> U, map |-> M, reg |-> R, err |-> "none"]
    BY <1>4 DEF map_kernel_pages, free
  <2>7. U \subseteq Frames /\ U \cap UFrames = k.used \cap UFrames
    <3>1. k.used \subseteq Frames
      BY DEF KPagesState
    <3>2. {Nth(free, i) : i \in 0..(n - 1)} \subseteq KFrames
      BY <2>3
    <3> QED BY <3>1, <3>2, FrameFacts DEF Frames
  <2>8. M \in [KVirt -> KFrames \cup {NoFrame}]
    BY <2>5 DEF KPagesState
  <2>9. R \in [Roles -> Region]
    BY <2>4 DEF KPagesState, Region
  <2>10. R[role].n = n /\ R[role].at = at /\ \A o \in Roles \ {role} : R[o] = k.reg[o]
    BY DEF KPagesState
  <2> HIDE DEF r, U, M, R
  <2>11. r \in KPagesState /\ r.used = U /\ r.reg = R
    BY <2>6, <2>7, <2>8, <2>9 DEF KPagesState
  <2>12. r.reg[role].n = n /\ r.reg[role].at = at
         /\ \A o \in Roles \ {role} : r.reg[o] = k.reg[o]
    BY <2>10, <2>11
  <2> QED BY <1>4, <2>4, <2>7, <2>11, <2>12 DEF r
<1> HIDE DEF r
<1> QED BY <1>1, <1>2, <1>3, <1>4 DEF r

\* mfree_page of kernel pages gives back frames of the kernel pool only.
LEMMA FreeKernelPages ==
  ASSUME NEW k \in KPagesState, NEW at, NEW n, \A v \in at..(at + n - 1) : v \in KVirt
  PROVE  LET r == mfree_kernel_pages(k, at, n)
         IN r \in KPagesState /\ r.used \subseteq k.used /\ r.used \cap UFrames = k.used \cap UFrames
<1> DEFINE r == mfree_kernel_pages(k, at, n)
           U == k.used \ {k.map[v] : v \in at..(at + n - 1)}
           M == [v \in KVirt |-> IF v \in at..(at + n - 1) THEN NoFrame ELSE k.map[v]]
<1>1. r = [used |-> U, map |-> M, reg |-> k.reg, err |-> k.err]
  BY DEF mfree_kernel_pages
<1>2. U \subseteq k.used /\ U \cap UFrames = k.used \cap UFrames
  <2>1. k.map \in [KVirt -> KFrames \cup {NoFrame}]
    BY DEF KPagesState
  <2>2. ASSUME NEW v \in at..(at + n - 1) PROVE k.map[v] \notin UFrames
    <3>1. v \in KVirt
      OBVIOUS
    <3>2. k.map[v] \in KFrames \cup {NoFrame}
      BY <2>1, <3>1
    <3> QED BY <3>2, FrameFacts
  <2> QED BY <2>2
<1>3. M \in [KVirt -> KFrames \cup {NoFrame}]
  BY DEF KPagesState
<1> HIDE DEF r, U, M
<1>4. r \in KPagesState /\ r.used = U
  BY <1>1, <1>2, <1>3 DEF KPagesState
<1> QED BY <1>2, <1>4 DEF r

\* The regions of a process are pages of the kernel.
RegionsOK(reg) ==
    /\ reg["pcb"].at \in KVirt /\ reg["pgdir"].at \in KVirt
    /\ reg["bitmap"].at + BitmapPages - 1 \in KVirt

\* The kernel pages of a new process: fork_pages.
LEMMA ForkPages ==
  ASSUME TypeOK
  PROVE  LET k == fork_pages(Kernel)
         IN /\ k \in KPagesState
            /\ k.used \cap UFrames = used \cap UFrames
            /\ k.err = "none" => RegionsOK(k.reg) /\ Run(k.reg["buf"]) \subseteq KVirt
<1> DEFINE k1 == get_kernel_pages(Kernel, "pcb", 1)
           k2 == get_kernel_pages(k1, "buf", 1)
           k3 == get_kernel_pages(k2, "bitmap", BitmapPages)
           k4 == get_kernel_pages(k3, "pgdir", 1)
<1>0. /\ BitmapPages \in Nat \ {0} /\ 1 \in Nat \ {0} /\ KPages \in Nat
      /\ "pcb" \in Roles /\ "buf" \in Roles /\ "bitmap" \in Roles /\ "pgdir" \in Roles
  BY DEF Roles
<1>1. Kernel \in KPagesState /\ Kernel.used = used
  <2>1. NoKernelPages \in [Roles -> Region]
    BY DEF NoKernelPages, NoRegion, Region
  <2> QED BY <2>1 DEF Kernel, KPagesState, TypeOK, Frames
<1>2. /\ k1 \in KPagesState /\ k1.used \cap UFrames = used \cap UFrames
      /\ k1.err = "none" => k1.reg["pcb"].at \in Nat /\ k1.reg["pcb"].at + 1 - 1 <= KPages
  BY <1>0, <1>1, GetKernelPages
<1> HIDE DEF k1
<1>3. /\ k2 \in KPagesState /\ k2.used \cap UFrames = k1.used \cap UFrames
      /\ k2.err = "none" =>
           /\ k1.err = "none" /\ k2.reg["pcb"] = k1.reg["pcb"] /\ k2.reg["buf"].n = 1
           /\ k2.reg["buf"].at \in Nat /\ k2.reg["buf"].at + 1 - 1 <= KPages
  <2>1. /\ k2 \in KPagesState /\ k2.used \cap UFrames = k1.used \cap UFrames
        /\ k2.err = "none" =>
             /\ k1.err = "none"
             /\ \A o \in Roles \ {"buf"} : k2.reg[o] = k1.reg[o]
             /\ k2.reg["buf"].n = 1
             /\ k2.reg["buf"].at \in Nat /\ k2.reg["buf"].at + 1 - 1 <= KPages
    BY <1>0, <1>2, GetKernelPages, SMTT(20)
  <2> HIDE DEF k2
  <2> QED BY <1>0, <2>1 DEF Roles
<1> HIDE DEF k2
<1>4. /\ k3 \in KPagesState /\ k3.used \cap UFrames = k2.used \cap UFrames
      /\ k3.err = "none" =>
           /\ k2.err = "none" /\ k3.reg["pcb"] = k2.reg["pcb"] /\ k3.reg["buf"] = k2.reg["buf"]
           /\ k3.reg["bitmap"].at \in Nat /\ k3.reg["bitmap"].at + BitmapPages - 1 <= KPages
  <2>1. /\ k3 \in KPagesState /\ k3.used \cap UFrames = k2.used \cap UFrames
        /\ k3.err = "none" =>
             /\ k2.err = "none"
             /\ \A o \in Roles \ {"bitmap"} : k3.reg[o] = k2.reg[o]
             /\ k3.reg["bitmap"].n = BitmapPages
             /\ k3.reg["bitmap"].at \in Nat /\ k3.reg["bitmap"].at + BitmapPages - 1 <= KPages
    BY <1>0, <1>3, GetKernelPages, SMTT(20)
  <2> HIDE DEF k3
  <2> QED BY <1>0, <2>1 DEF Roles
<1> HIDE DEF k3
<1>5. /\ k4 \in KPagesState /\ k4.used \cap UFrames = k3.used \cap UFrames
      /\ k4.err = "none" =>
           /\ k3.err = "none" /\ k4.reg["pcb"] = k3.reg["pcb"] /\ k4.reg["buf"] = k3.reg["buf"]
           /\ k4.reg["bitmap"] = k3.reg["bitmap"]
           /\ k4.reg["pgdir"].at \in Nat /\ k4.reg["pgdir"].at + 1 - 1 <= KPages
  <2>1. /\ k4 \in KPagesState /\ k4.used \cap UFrames = k3.used \cap UFrames
        /\ k4.err = "none" =>
             /\ k3.err = "none"
             /\ \A o \in Roles \ {"pgdir"} : k4.reg[o] = k3.reg[o]
             /\ k4.reg["pgdir"].n = 1
             /\ k4.reg["pgdir"].at \in Nat /\ k4.reg["pgdir"].at + 1 - 1 <= KPages
    BY <1>0, <1>4, GetKernelPages, SMTT(30)
  <2> HIDE DEF k4
  <2> QED BY <1>0, <2>1 DEF Roles
<1>6. fork_pages(Kernel) = k4
  BY DEF fork_pages, k1, k2, k3
<1> HIDE DEF k4
<1>7. ASSUME k4.err = "none"
      PROVE  RegionsOK(k4.reg) /\ Run(k4.reg["buf"]) \subseteq KVirt
  <2>1. /\ k4.reg["pcb"].at \in Nat /\ k4.reg["pcb"].at <= KPages
        /\ k4.reg["pgdir"].at \in Nat /\ k4.reg["pgdir"].at <= KPages
        /\ k4.reg["bitmap"].at \in Nat /\ k4.reg["bitmap"].at + BitmapPages - 1 <= KPages
        /\ k4.reg["buf"].at \in Nat /\ k4.reg["buf"].at <= KPages /\ k4.reg["buf"].n = 1
    BY <1>0, <1>2, <1>3, <1>4, <1>5, <1>7
  <2> QED BY <1>0, <2>1 DEF RegionsOK, Run, KVirt
<1> QED BY <1>2, <1>3, <1>4, <1>5, <1>6, <1>7

\* The kernel pages of the first process: boot_pages.
LEMMA BootPages ==
  /\ boot_pages \in KPagesState /\ boot_pages.used \cap UFrames = {}
  /\ RegionsOK(boot_pages.reg)
<1> DEFINE k0 == [used |-> {}, map |-> [v \in KVirt |-> NoFrame],
                  reg |-> NoKernelPages, err |-> "none"]
           k1 == get_kernel_pages(k0, "pcb", 1)
           k2 == get_kernel_pages(k1, "bitmap", BitmapPages)
           k3 == get_kernel_pages(k2, "pgdir", 1)
<1>0. /\ BitmapPages \in Nat \ {0} /\ 1 \in Nat \ {0} /\ KPages \in Nat
      /\ "pcb" \in Roles /\ "bitmap" \in Roles /\ "pgdir" \in Roles
  BY DEF Roles
<1>1. k0 \in KPagesState /\ k0.used = {}
  <2>1. NoKernelPages \in [Roles -> Region]
    BY DEF NoKernelPages, NoRegion, Region
  <2> QED BY <2>1 DEF KPagesState
<1> HIDE DEF k0
<1>2. /\ k1 \in KPagesState /\ k1.used \cap UFrames = {}
      /\ k1.err = "none" => k1.reg["pcb"].at \in Nat /\ k1.reg["pcb"].at + 1 - 1 <= KPages
  <2>0. k0 \in KPagesState
    BY <1>1
  <2>1. k1 \in KPagesState /\ k1.used \cap UFrames = k0.used \cap UFrames
    BY <1>0, <2>0, GetKernelPages
  <2>2. k1.err = "none" => k1.reg["pcb"].at \in Nat /\ k1.reg["pcb"].at + 1 - 1 <= KPages
    BY <1>0, <1>1, GetKernelPages
  <2> QED BY <1>1, <2>1, <2>2
<1> HIDE DEF k1
<1>3. /\ k2 \in KPagesState /\ k2.used \cap UFrames = k1.used \cap UFrames
      /\ k2.err = "none" =>
           /\ k1.err = "none" /\ k2.reg["pcb"] = k1.reg["pcb"]
           /\ k2.reg["bitmap"].at \in Nat /\ k2.reg["bitmap"].at + BitmapPages - 1 <= KPages
  <2>1. /\ k2 \in KPagesState /\ k2.used \cap UFrames = k1.used \cap UFrames
        /\ k2.err = "none" =>
             /\ k1.err = "none"
             /\ \A o \in Roles \ {"bitmap"} : k2.reg[o] = k1.reg[o]
             /\ k2.reg["bitmap"].n = BitmapPages
             /\ k2.reg["bitmap"].at \in Nat /\ k2.reg["bitmap"].at + BitmapPages - 1 <= KPages
    BY <1>0, <1>2, GetKernelPages
  <2> HIDE DEF k2
  <2> QED BY <1>0, <2>1 DEF Roles
<1> HIDE DEF k2
<1>4. /\ k3 \in KPagesState /\ k3.used \cap UFrames = k2.used \cap UFrames
      /\ k3.err = "none" =>
           /\ k2.err = "none" /\ k3.reg["pcb"] = k2.reg["pcb"]
           /\ k3.reg["bitmap"] = k2.reg["bitmap"]
           /\ k3.reg["pgdir"].at \in Nat /\ k3.reg["pgdir"].at + 1 - 1 <= KPages
  <2>1. /\ k3 \in KPagesState /\ k3.used \cap UFrames = k2.used \cap UFrames
        /\ k3.err = "none" =>
             /\ k2.err = "none"
             /\ \A o \in Roles \ {"pgdir"} : k3.reg[o] = k2.reg[o]
             /\ k3.reg["pgdir"].n = 1
             /\ k3.reg["pgdir"].at \in Nat /\ k3.reg["pgdir"].at + 1 - 1 <= KPages
    BY <1>0, <1>3, GetKernelPages
  <2> HIDE DEF k3
  <2> QED BY <1>0, <2>1 DEF Roles
<1>5. boot_pages = k3
  BY DEF boot_pages, k0, k1, k2
<1> HIDE DEF k3
<1>6. k3.err = "none"
  BY <1>5, BootAssumption
<1>7. /\ k3.reg["pcb"].at \in Nat /\ k3.reg["pcb"].at <= KPages
      /\ k3.reg["pgdir"].at \in Nat /\ k3.reg["pgdir"].at <= KPages
      /\ k3.reg["bitmap"].at \in Nat /\ k3.reg["bitmap"].at + BitmapPages - 1 <= KPages
  BY <1>0, <1>2, <1>3, <1>4, <1>6
<1>8. RegionsOK(k3.reg)
  BY <1>0, <1>7 DEF RegionsOK, KVirt
<1> QED BY <1>2, <1>3, <1>4, <1>5, <1>8

-----------------------------------------------------------------------------
(* What the invariant says *)

\* Frames without two pages that share one are given once, in the sense of
\* counting owners.
LEMMA OneOwner ==
  ASSUME TypeOK, FramesApart
  PROVE  GivenOnce(UFrames)
<1> DEFINE S == PageOwners(UFrames)
           T == {pte[x[1]][x[2]] : x \in S}
           f == [x \in S |-> pte[x[1]][x[2]]]
<1>1. KernelOwners(UFrames) = {}
  <2>1. \A v \in KVirt : kmap[v] \in KFrames \cup {NoFrame}
    BY DEF TypeOK
  <2>2. \A v \in KVirt : kmap[v] \notin UFrames
    BY <2>1, FrameFacts
  <2> QED BY <2>2 DEF KernelOwners
<1>2. TableOwners(UFrames) = {}
  <2>1. \A p \in Procs, t \in Tables : pde[p][t] \in KFrames \cup {NoFrame}
    BY DEF TypeOK
  <2>2. \A x \in Procs \X Tables : x[1] \in Procs /\ x[2] \in Tables
    OBVIOUS
  <2>3. \A x \in Procs \X Tables : pde[x[1]][x[2]] \notin UFrames
    BY <2>1, <2>2, FrameFacts, Zenon
  <2> QED BY <2>3, Zenon DEF TableOwners
<1>3. IsFiniteSet(S)
  <2>1. IsFiniteSet(Procs \X UVirt)
    BY FrameFacts, FS_Product
  <2>2. S \subseteq Procs \X UVirt
    BY DEF PageOwners
  <2> QED BY <2>1, <2>2, FS_Subset
<1>4. ASSUME NEW x \in S, NEW y \in S, pte[x[1]][x[2]] = pte[y[1]][y[2]]
      PROVE  x = y
  <2>1. x \in Procs \X UVirt /\ y \in Procs \X UVirt /\ pte[x[1]][x[2]] # NoFrame
    BY FrameFacts DEF PageOwners
  <2>2. x[1] = y[1] /\ x[2] = y[2]
    BY <1>4, <2>1 DEF FramesApart
  <2> QED BY <2>1, <2>2
<1>5. f \in Bijection(S, T)
  BY <1>4 DEF Bijection, Injection, Surjection, IsInjective
<1>6. ExistsBijection(S, T)
  BY <1>5 DEF ExistsBijection
<1>7. Cardinality(T) = Cardinality(S) /\ Cardinality(S) \in Nat
  BY <1>3, <1>6, FS_Bijection, FS_CardinalityType
<1>8. Cardinality({}) = 0
  BY FS_EmptySet
<1>9. {kmap[v] : v \in {}} = {} /\ {pde[x[1]][x[2]] : x \in {}} = {}
  OBVIOUS
<1> QED BY <1>1, <1>2, <1>7, <1>8, <1>9 DEF GivenOnce

\* The properties that the runs check follow from the invariant.
LEMMA InvImplies ==
  ASSUME MemInv
  PROVE  TypeOK /\ UserFrameOwned /\ BitsMatchMap
<1>1. TypeOK /\ FramesApart /\ MappedUsed /\ \A p \in Procs : ProcessOK(p)
  BY DEF MemInv
<1>2. UserFrameOwned
  BY <1>1, OneOwner DEF UserFrameOwned, MappedUsed
<1>3. BitsMatchMap
  BY <1>1 DEF BitsMatchMap, ProcessOK, SpaceOK, Mapped, Allocating, Freeing
<1> QED BY <1>1, <1>2, <1>3

\* The state after boot.
LEMMA InitInv ==
  ASSUME Init
  PROVE  MemInv
<1> DEFINE k == boot_pages
           page == Min(UFrames)
           table == Min(KFrames \ k.used)
<1>1. page \in UFrames /\ table \in KFrames
  BY FrameFacts, MinFacts, BootAssumption
<1>2. /\ k.used \subseteq Frames /\ k.map \in [KVirt -> KFrames \cup {NoFrame}]
      /\ k.reg \in [Roles -> Region] /\ RegionsOK(k.reg)
  BY BootPages DEF KPagesState
<1>3. STACK3 \in UVirt /\ PDE_IDX(STACK3) \in Tables /\ STACK3 \in Nat
  BY DEF STACK3, UVirt, Tables
<1> HIDE DEF page, table, k
<1>4. /\ used = k.used \cup {page, table} /\ kmap = k.map
      /\ status = [[p \in Procs |-> "none"] EXCEPT ![InitProc] = "live"]
      /\ bits = [[p \in Procs |-> {}] EXCEPT ![InitProc] = {STACK3}]
      /\ pte = [[p \in Procs |-> NoPages] EXCEPT ![InitProc] = [NoPages EXCEPT ![STACK3] = page]]
      /\ pde = [[p \in Procs |-> NoTables] EXCEPT
                  ![InitProc] = [NoTables EXCEPT ![PDE_IDX(STACK3)] = table]]
      /\ kreg = [[p \in Procs |-> NoKernelPages] EXCEPT ![InitProc] = k.reg]
      /\ heap = [p \in Procs |-> {}] /\ lock = None
      /\ pc = [p \in Procs |-> "user"] /\ loc = [p \in Procs |-> Idle] /\ panic = "none"
  BY DEF Init, page, table, k
<1>5. /\ NoPages \in [UVirt -> {NoFrame}] /\ NoTables \in [Tables -> {NoFrame}]
      /\ NoKernelPages \in [Roles -> Region] /\ \A r \in Roles : NoKernelPages[r].at = 0
  BY DEF NoPages, NoTables, NoKernelPages, NoRegion, Region
<1>6. Idle \in Locals /\ Idle.call = "none" /\ Run(Idle.buf) = {}
  <2>1. NoRegion \in Region /\ Run(NoRegion) = {}
    BY DEF NoRegion, Region, Run
  <2> QED BY <2>1 DEF Idle, Locals, Frames
<1>7. TypeOK
  <2>1. used \subseteq Frames
    BY <1>1, <1>2, <1>4 DEF Frames
  <2>2. bits \in [Procs -> SUBSET UVirt] /\ status \in [Procs -> {"none", "live"}]
    BY <1>3, <1>4
  <2>3. pte \in [Procs -> [UVirt -> UFrames \cup {NoFrame}]]
    BY <1>1, <1>3, <1>4, <1>5
  <2>4. pde \in [Procs -> [Tables -> KFrames \cup {NoFrame}]]
    BY <1>1, <1>3, <1>4, <1>5
  <2>5. kreg \in [Procs -> [Roles -> Region]] /\ heap \in [Procs -> SUBSET Region]
    BY <1>2, <1>4, <1>5
  <2> QED BY <1>2, <1>4, <2>1, <2>2, <2>3, <2>4, <2>5 DEF TypeOK, Frames
<1>8. LocalsOK
  BY <1>4, <1>6 DEF LocalsOK, Labels
<1>9. \A p \in Procs, v \in UVirt :
        pte[p][v] = IF p = InitProc /\ v = STACK3 THEN page ELSE NoFrame
  BY <1>3, <1>4, <1>5
<1>10. \A p \in Procs : Mapped(p) = IF p = InitProc THEN {STACK3} ELSE {}
  BY <1>1, <1>3, <1>9, FrameFacts DEF Mapped
<1>11. ChildrenApart /\ FramesApart /\ MappedUsed
  <2>1. ChildrenApart
    BY <1>4, <1>6 DEF ChildrenApart
  <2>2. FramesApart
    BY <1>9 DEF FramesApart
  <2>3. page \in used /\ NoFrame \notin UFrames
    BY <1>4, FrameFacts
  <2>4. MappedUsed
    BY <1>9, <2>3 DEF MappedUsed
  <2> QED BY <2>1, <2>2, <2>4
<1>12. ASSUME NEW p \in Procs PROVE ProcessOK(p)
  <2>1. /\ pc[p] = "user" /\ loc[p] = Idle /\ lock = None /\ heap[p] = {}
        /\ status[p] = (IF p = InitProc THEN "live" ELSE "none")
        /\ bits[p] = (IF p = InitProc THEN {STACK3} ELSE {})
        /\ kreg[p] = (IF p = InitProc THEN k.reg ELSE NoKernelPages)
    BY <1>4
  <2>2. LockOK(p) /\ CallOK(p)
    BY <2>1 DEF LockOK, CallOK, Held, Allocating, Freeing
  <2>3. SpaceOK(p)
    BY <1>10, <2>1 DEF SpaceOK, Allocating, Freeing
  <2>4. HeapOK(p)
    BY <2>1 DEF HeapOK, Allocating
  <2>5. ArgOK(p) /\ ForkOK(p)
    BY <1>6, <2>1 DEF ArgOK, ForkOK
  <2>6. FrameOK(p)
    BY <2>1 DEF FrameOK, Allocating
  <2>7. TablesOK(p)
    <3>1. \A v \in UVirt : pte[p][v] # NoFrame => pde[p][PDE_IDX(v)] # NoFrame
      BY <1>1, <1>3, <1>4, <1>5, <1>9, FrameFacts
    <3>2. 0 \in KVirt
      BY DEF KVirt
    <3> QED BY <1>2, <1>5, <1>6, <1>10, <2>1, <3>1, <3>2 DEF TablesOK, RegionsOK, Roles
  <2> QED BY <2>2, <2>3, <2>4, <2>5, <2>6, <2>7 DEF ProcessOK
<1> QED BY <1>7, <1>8, <1>11, <1>12 DEF MemInv

-----------------------------------------------------------------------------
(* What a step leaves alone *)

\* The slot of q, and where q is in its call, stay as they are.
Kept(q) == /\ pc'[q] = pc[q] /\ loc'[q] = loc[q] /\ status'[q] = status[q]
           /\ bits'[q] = bits[q] /\ pte'[q] = pte[q] /\ pde'[q] = pde[q]
           /\ kreg'[q] = kreg[q] /\ heap'[q] = heap[q]

\* An ASSERT that fails stops the kernel with everything as it was.
LEMMA PanicInv ==
  ASSUME MemInv, NEW why \in {"full", "pte_repeat"}, Panic(why)
  PROVE  MemInv'
<1>1. /\ UNCHANGED <<used, kmap, status, bits, pte, pde, kreg, heap, lock, pc, loc>>
      /\ panic' = why
  BY DEF Panic, spaces
<1>2. TypeOK' /\ LocalsOK'
  BY <1>1 DEF MemInv, TypeOK, LocalsOK
<1>3. ChildrenApart' /\ FramesApart' /\ MappedUsed'
  BY <1>1 DEF MemInv, ChildrenApart, FramesApart, MappedUsed
<1>4. ASSUME NEW p \in Procs PROVE ProcessOK(p)'
  <2>1. LockOK(p)' /\ CallOK(p)' /\ ArgOK(p)'
    BY <1>1 DEF MemInv, ProcessOK, LockOK, CallOK, ArgOK
  <2>2. SpaceOK(p)' /\ HeapOK(p)'
    BY <1>1 DEF MemInv, ProcessOK, SpaceOK, HeapOK, Mapped, Block, Rest
  <2>3. ForkOK(p)' /\ TablesOK(p)'
    BY <1>1 DEF MemInv, ProcessOK, ForkOK, TablesOK, Mapped
  <2>4. FrameOK(p)'
    BY <1>1 DEF MemInv, ProcessOK, FrameOK
  <2> QED BY <2>1, <2>2, <2>3, <2>4 DEF ProcessOK
<1> QED BY <1>2, <1>3, <1>4 DEF MemInv

\* A process whose slot is kept, and the slot of the child it may be building,
\* keeps its part of the invariant; what it knows of frames is apart.
LEMMA KeptInv ==
  ASSUME MemInv, NEW q \in Procs, Kept(q), lock' = q <=> lock = q,
         loc[q].call = "fork" => /\ status'[loc[q].child] = status[loc[q].child]
                                 /\ bits'[loc[q].child] = bits[loc[q].child]
                                 /\ pte'[loc[q].child] = pte[loc[q].child],
         FrameOK(q)'
  PROVE  ProcessOK(q)'
<1>1. ProcessOK(q)
  BY DEF MemInv
<1>2. LockOK(q)' /\ CallOK(q)' /\ ArgOK(q)'
  BY <1>1 DEF ProcessOK, LockOK, CallOK, ArgOK, Kept
<1>3. SpaceOK(q)' /\ HeapOK(q)'
  BY <1>1 DEF ProcessOK, SpaceOK, HeapOK, Mapped, Block, Rest, Kept
<1>4. TablesOK(q)'
  BY <1>1 DEF ProcessOK, TablesOK, Mapped, Kept
<1>5. ForkOK(q)'
  BY <1>1 DEF ProcessOK, ForkOK, Mapped, Kept
<1> QED BY <1>2, <1>3, <1>4, <1>5 DEF ProcessOK

\* A process that does not hold the lock knows nothing of frames.
LEMMA FrameNone ==
  ASSUME NEW q \in Procs, pc'[q] \notin Held
  PROVE  FrameOK(q)'
BY DEF FrameOK, Held, Allocating, Freeing

\* What the holder of the lock knows of frames stays true when others unmap pages
\* and give back their frames: nobody else takes a frame of the user pool.
LEMMA FrameKept ==
  ASSUME MemInv, NEW q \in Procs, Kept(q), pde'[loc[q].view] = pde[loc[q].view],
         \A r \in Procs, v \in UVirt : pte'[r][v] = pte[r][v] \/ pte'[r][v] = NoFrame,
         used' \cap UFrames \subseteq used,
         \A f \in UFrames \cap used :
            f \in used' \/ \E r \in Procs, v \in UVirt : pte[r][v] = f
  PROVE  FrameOK(q)'
<1>1. FrameOK(q)
  BY DEF MemInv, ProcessOK
<1>2. \A f \in UFrames : ByteOf(f) \subseteq UFrames
  BY DEF ByteOf, Pool
<1>3. NoFrame \notin UFrames
  BY FrameFacts
<1> QED BY <1>1, <1>2, <1>3 DEF FrameOK, Kept

\* A step that moves p on in its call and leaves the address spaces alone keeps
\* the invariant if it keeps the part of p; only the holder of the lock marks or
\* clears frames in such a step.
LEMMA MoveInv ==
  ASSUME MemInv, NEW p \in Procs, NEW label \in Labels, NEW l \in Locals,
         Goto(p, label, l), UNCHANGED <<kmap, spaces, panic>>,
         used' \in SUBSET Frames, lock' \in Procs \cup {None},
         \A q \in Procs \ {p} : lock' = q <=> lock = q,
         used' = used \/ lock = p,
         l.call = "fork" => loc[p].call = "fork" /\ l.child = loc[p].child,
         MappedUsed', ProcessOK(p)'
  PROVE  MemInv'
<1>1. /\ UNCHANGED <<kmap, status, bits, pte, pde, kreg, heap, panic>>
      /\ pc' = [pc EXCEPT ![p] = label] /\ loc' = [loc EXCEPT ![p] = l]
  BY DEF Goto, spaces
<1>2. TypeOK /\ LocalsOK /\ ChildrenApart /\ FramesApart
  BY DEF MemInv
<1>3. TypeOK'
  BY <1>1, <1>2 DEF TypeOK, Frames
<1>4. LocalsOK'
  BY <1>1, <1>2 DEF LocalsOK
<1>5. loc'[p] = l /\ \A q \in Procs \ {p} : loc'[q] = loc[q] /\ pc'[q] = pc[q]
  BY <1>1, <1>2 DEF LocalsOK
<1>6. ChildrenApart'
  BY <1>2, <1>5 DEF ChildrenApart
<1>7. FramesApart'
  BY <1>1, <1>2 DEF FramesApart
<1>8. ASSUME NEW q \in Procs \ {p} PROVE ProcessOK(q)'
  <2>1. Kept(q)
    BY <1>1, <1>5 DEF Kept
  <2>2. FrameOK(q)'
    <3>1. CASE used' = used
      <4>1. \A r \in Procs, v \in UVirt : pte'[r][v] = pte[r][v]
        BY <1>1
      <4> QED BY <1>1, <2>1, <3>1, <4>1, FrameKept
    <3>2. CASE lock = p
      <4>1. pc[q] \notin Held
        BY <3>2 DEF MemInv, ProcessOK, LockOK
      <4> QED BY <1>5, <4>1, FrameNone
    <3> QED BY <3>1, <3>2
  <2> QED BY <1>1, <2>1, <2>2, KeptInv
<1> QED BY <1>3, <1>4, <1>6, <1>7, <1>8 DEF MemInv

\* What holds of p before it moves, in one place.
LEMMA Before ==
  ASSUME MemInv, NEW p \in Procs
  PROVE  /\ loc[p] \in Locals /\ pc[p] \in Labels /\ ProcessOK(p)
         /\ used \subseteq Frames /\ bits[p] \subseteq UVirt /\ heap[p] \subseteq Region
         /\ LockOK(p) /\ CallOK(p) /\ SpaceOK(p) /\ HeapOK(p) /\ ArgOK(p)
         /\ ForkOK(p) /\ FrameOK(p) /\ TablesOK(p) /\ MappedUsed
         /\ \A v \in UVirt : pte[p][v] \in UFrames \cup {NoFrame}
BY DEF MemInv, TypeOK, LocalsOK, ProcessOK, Frames

\* What p has after a move that leaves the address spaces alone.
LEMMA After ==
  ASSUME MemInv, NEW p \in Procs, NEW label, NEW l,
         Goto(p, label, l), UNCHANGED <<kmap, spaces, panic>>
  PROVE  /\ pc'[p] = label /\ loc'[p] = l /\ Mapped(p)' = Mapped(p)
         /\ \A q \in Procs \ {p} : loc'[q] = loc[q] /\ pc'[q] = pc[q]
         /\ UNCHANGED <<kmap, status, bits, pte, pde, kreg, heap, panic>>
         /\ \A c \in Procs : Mapped(c)' = Mapped(c)
BY DEF MemInv, LocalsOK, Goto, spaces, Mapped

-----------------------------------------------------------------------------
(* The calls begin *)

\* Between two calls there is nothing in the locals.
LEMMA IdleFacts ==
  /\ Idle \in Locals /\ Idle.call = "none" /\ Run(Idle.buf) = {} /\ Idle.pf = "user"
  /\ Idle.view = None /\ Idle.child = None /\ Idle.buf \in Region
<1>1. NoRegion \in Region /\ Run(NoRegion) = {}
  BY DEF NoRegion, Region, Run
<1> QED BY <1>1 DEF Idle, Locals, Frames

\* A call that is about to take the lock has still to do all it was asked for.
LEMMA BeginInv ==
  ASSUME MemInv, NEW p \in Procs, NEW l \in Locals, Goto(p, "lock", l),
         UNCHANGED <<used, kmap, spaces, lock, panic>>,
         pc[p] = "user", status[p] = "live",
         l.call \in {"malloc", "free", "get_a_page"}, l.view = p, l.pf = "user",
         l.buf = NoRegion,
         l.call = "malloc" => l.n > 0,
         l.call = "free" => [at |-> l.at, n |-> l.n] \in heap[p] /\ l.v = l.at,
         l.call = "get_a_page" => l.v \in UVirt \ Mapped(p) /\ l.at = l.v /\ l.n = 1
  PROVE  MemInv'
<1>1. /\ pc'[p] = "lock" /\ loc'[p] = l /\ Mapped(p)' = Mapped(p)
      /\ \A q \in Procs \ {p} : loc'[q] = loc[q] /\ pc'[q] = pc[q]
      /\ UNCHANGED <<kmap, status, bits, pte, pde, kreg, heap, panic, used, lock>>
  BY After
<1>2. /\ LockOK(p) /\ SpaceOK(p) /\ HeapOK(p) /\ TablesOK(p) /\ MappedUsed
      /\ used \in SUBSET Frames /\ lock \in Procs \cup {None}
  BY Before DEF MemInv, TypeOK
<1>3. Mapped(p) = bits[p]
  BY <1>2 DEF SpaceOK, Allocating, Freeing
<1>4. MappedUsed'
  BY <1>1, <1>2 DEF MappedUsed
<1>5. LockOK(p)' /\ CallOK(p)'
  BY <1>1, <1>2 DEF LockOK, CallOK, Held, Allocating, Freeing
<1>6. SpaceOK(p)' /\ HeapOK(p)'
  BY <1>1, <1>2, <1>3 DEF SpaceOK, HeapOK, Allocating, Freeing
<1>7. ArgOK(p)' /\ ForkOK(p)'
  BY <1>1, <1>3 DEF ArgOK, ForkOK
<1>8. FrameOK(p)'
  BY <1>1, FrameNone DEF Held, Allocating, Freeing
<1>9. TablesOK(p)'
  BY <1>1, <1>2 DEF TablesOK, NoRegion, Run
<1>10. ProcessOK(p)'
  BY <1>5, <1>6, <1>7, <1>8, <1>9 DEF ProcessOK
<1>11. "lock" \in Labels
  BY DEF Labels
<1> QED BY <1>1, <1>2, <1>4, <1>10, <1>11, MoveInv

\* sys_malloc begins: it has asked for at least one page.
LEMMA SysMalloc ==
  ASSUME MemInv, NEW p \in Procs, NEW n \in 1..MaxPages, sys_malloc(p, n)
  PROVE  MemInv'
<1> DEFINE l == [Idle EXCEPT !.call = "malloc", !.view = p, !.n = n]
<1>1. /\ Goto(p, "lock", l) /\ UNCHANGED <<used, kmap, spaces, lock, panic>>
      /\ pc[p] = "user" /\ status[p] = "live"
  BY DEF sys_malloc
<1>2. n \in Nat /\ n > 0 /\ MaxPages \in Nat
  OBVIOUS
<1>3. /\ l \in Locals /\ l.call = "malloc" /\ l.view = p /\ l.pf = "user" /\ l.n = n
      /\ l.buf = NoRegion
  BY <1>2, IdleFacts DEF Idle, Locals
<1> HIDE DEF l
<1> QED BY <1>1, <1>2, <1>3, BeginInv

\* sys_free begins, with a block that sys_malloc gave out.
LEMMA SysFree ==
  ASSUME MemInv, NEW p \in Procs, NEW b \in heap[p], sys_free(p, b)
  PROVE  MemInv'
<1> DEFINE l == [Idle EXCEPT !.call = "free", !.view = p,
                             !.at = b.at, !.v = b.at, !.n = b.n]
<1>1. /\ Goto(p, "lock", l) /\ UNCHANGED <<used, kmap, spaces, lock, panic>>
      /\ pc[p] = "user" /\ status[p] = "live"
  BY DEF sys_free
<1>2. b \in Region
  BY Before
<1>3. b.at \in Nat /\ b.n \in Nat /\ b = [at |-> b.at, n |-> b.n]
  BY <1>2 DEF Region
<1>4. /\ l \in Locals /\ l.call = "free" /\ l.view = p /\ l.pf = "user" /\ l.n = b.n
      /\ l.at = b.at /\ l.v = b.at /\ l.buf = NoRegion
  BY <1>3, IdleFacts DEF Idle, Locals
<1> HIDE DEF l
<1> QED BY <1>1, <1>3, <1>4, BeginInv

\* segment_load begins, with a page that is not mapped and so not marked.
LEMMA SegmentLoad ==
  ASSUME MemInv, NEW p \in Procs, NEW v \in UVirt, segment_load(p, v)
  PROVE  MemInv'
<1> DEFINE l == [Idle EXCEPT !.call = "get_a_page", !.view = p,
                             !.at = v, !.v = v, !.n = 1]
<1>1. /\ Goto(p, "lock", l) /\ UNCHANGED <<used, kmap, spaces, lock, panic>>
      /\ pc[p] = "user" /\ status[p] = "live" /\ pte[p][v] = NoFrame
  BY DEF segment_load
<1>2. v \in Nat /\ v \notin Mapped(p)
  BY <1>1 DEF Mapped, UVirt
<1>3. /\ l \in Locals /\ l.call = "get_a_page" /\ l.view = p /\ l.pf = "user" /\ l.n = 1
      /\ l.at = v /\ l.v = v /\ l.buf = NoRegion
  BY <1>2, IdleFacts DEF Idle, Locals
<1> HIDE DEF l
<1> QED BY <1>1, <1>2, <1>3, BeginInv

-----------------------------------------------------------------------------
(* The lock *)

\* A call that gets the lock goes to its body, whether it waited or not.
LEMMA EnterInv ==
  ASSUME MemInv, NEW p \in Procs, pc[p] \in {"lock", "blocked"}, lock = None, lock' = p,
         pc' = [pc EXCEPT ![p] = Body(loc[p].call)],
         UNCHANGED <<used, kmap, spaces, loc, panic>>
  PROVE  MemInv'
<1> DEFINE l == loc[p]
           label == Body(loc[p].call)
<1>1. Goto(p, label, l)
  BY DEF Goto, MemInv, LocalsOK
<1>2. /\ l \in Locals /\ LockOK(p) /\ CallOK(p) /\ SpaceOK(p) /\ HeapOK(p) /\ ArgOK(p)
      /\ ForkOK(p) /\ TablesOK(p) /\ MappedUsed /\ used \in SUBSET Frames
      /\ heap[p] \subseteq Region
  BY Before
<1>3. l.call \in {"malloc", "free", "get_a_page", "fork"} /\ status[p] = "live" /\ l.pf = "user"
  BY <1>2 DEF CallOK, LockOK, Locals
<1>4. label = CASE l.call = "malloc" -> "vaddr_get"
                [] l.call = "get_a_page" -> "vaddr_set"
                [] l.call = "free" -> "pfree"
                [] l.call = "fork" -> "scan"
  BY <1>3 DEF Body
<1>5. label \in Held /\ label \in Labels /\ label \notin {"user", "lock", "blocked", "copy", "unlock"}
  BY <1>3, <1>4 DEF Held, Labels, Allocating, Freeing
<1>6. /\ pc'[p] = label /\ loc'[p] = l /\ \A c \in Procs : Mapped(c)' = Mapped(c)
      /\ \A q \in Procs \ {p} : loc'[q] = loc[q] /\ pc'[q] = pc[q]
      /\ UNCHANGED <<kmap, status, bits, pte, pde, kreg, heap, panic, used>>
  BY <1>1, After
<1>7. Mapped(p) = bits[p] /\ Mapped(p)' = bits'[p]
  BY <1>2, <1>3, <1>6 DEF SpaceOK, Allocating, Freeing
<1> HIDE DEF l, label
<1>8. MappedUsed'
  BY <1>2, <1>6 DEF MappedUsed
<1>9. LockOK(p)' /\ CallOK(p)'
  BY <1>2, <1>3, <1>4, <1>5, <1>6 DEF LockOK, CallOK, Held, Allocating, Freeing, l
<1>10. SpaceOK(p)'
  <2>1. CASE l.call = "free"
    <3>1. [at |-> l.at, n |-> l.n] \in heap[p] /\ l.v = l.at /\ l.at \in Nat /\ l.n \in Nat
      BY <1>2, <2>1 DEF ArgOK, l, Locals
    <3>2. l.n > 0
      BY <1>2, <1>3, <3>1 DEF HeapOK
    <3>3. l.v \in l.at..(l.at + l.n - 1) /\ l.v..(l.at + l.n - 1) = l.at..(l.at + l.n - 1)
      BY <3>1, <3>2
    <3>4. Block(p)' = l.at..(l.at + l.n - 1) /\ Rest(p)' = Block(p)' /\ loc'[p].v \in Block(p)'
      BY <1>6, <3>3 DEF Block, Rest
    <3> QED BY <1>4, <1>6, <1>7, <2>1, <3>4 DEF SpaceOK, Allocating, Freeing
  <2>2. CASE l.call # "free"
    BY <1>3, <1>4, <1>6, <1>7, <2>2 DEF SpaceOK, Allocating, Freeing
  <2> QED BY <2>1, <2>2
<1>11. HeapOK(p)'
  BY <1>2, <1>3, <1>4, <1>6 DEF HeapOK, Allocating
<1>12. ArgOK(p)'
  BY <1>2, <1>3, <1>4, <1>6 DEF ArgOK, l, Freeing
<1>13. ForkOK(p)'
  <2>1. ASSUME l.call = "fork"
        PROVE  loc[p].child \in Procs /\ pc[p] # "unlock" /\ pc[p] # "copy"
    BY <1>2, <2>1 DEF ForkOK, l
  <2> QED BY <1>2, <1>3, <1>5, <1>6, <2>1 DEF ForkOK, l
<1>14. FrameOK(p)'
  BY <1>3, <1>4, <1>6 DEF FrameOK, Allocating
<1>15. TablesOK(p)'
  BY <1>2, <1>6 DEF TablesOK, l
<1>16. ProcessOK(p)'
  BY <1>9, <1>10, <1>11, <1>12, <1>13, <1>14, <1>15 DEF ProcessOK
<1>17. /\ used' = used /\ used' \in SUBSET Frames /\ lock' \in Procs \cup {None}
       /\ \A q \in Procs \ {p} : lock' = q <=> lock = q
       /\ l.call = "fork" => loc[p].call = "fork" /\ l.child = loc[p].child
  BY <1>2 DEF l
<1> QED BY <1>1, <1>2, <1>5, <1>8, <1>16, <1>17, MoveInv

\* lock_acquire, whether the lock is free at once or after a wait.
LEMMA LockAcquire ==
  ASSUME MemInv, NEW p \in Procs, lock_acquire(p) \/ lock_wakeup(p)
  PROVE  MemInv'
BY EnterInv DEF lock_acquire, lock_wakeup

\* sema_down blocks: only a fork notices, whose page directory is then its own.
LEMMA LockBlock ==
  ASSUME MemInv, NEW p \in Procs, lock_block(p)
  PROVE  MemInv'
<1> DEFINE l == [loc[p] EXCEPT !.view = p]
<1>1. Goto(p, "blocked", l) /\ UNCHANGED <<used, kmap, spaces, lock, panic>> /\ pc[p] = "lock"
  BY DEF lock_block
<1>2. /\ loc[p] \in Locals /\ LockOK(p) /\ CallOK(p) /\ SpaceOK(p) /\ HeapOK(p) /\ ArgOK(p)
      /\ ForkOK(p) /\ TablesOK(p) /\ MappedUsed /\ used \in SUBSET Frames
      /\ lock \in Procs \cup {None}
  BY Before DEF MemInv, TypeOK
<1>3. /\ l \in Locals /\ l.view = p /\ l.call = loc[p].call /\ l.at = loc[p].at
      /\ l.v = loc[p].v /\ l.n = loc[p].n /\ l.pf = loc[p].pf /\ l.child = loc[p].child
      /\ l.todo = loc[p].todo /\ l.buf = loc[p].buf
  BY <1>2 DEF Locals
<1> HIDE DEF l
<1>4. /\ pc'[p] = "blocked" /\ loc'[p] = l /\ \A c \in Procs : Mapped(c)' = Mapped(c)
      /\ \A q \in Procs \ {p} : loc'[q] = loc[q] /\ pc'[q] = pc[q]
      /\ UNCHANGED <<kmap, status, bits, pte, pde, kreg, heap, panic, used, lock>>
  BY <1>1, After
<1>5. MappedUsed'
  BY <1>1, <1>2, <1>4 DEF MappedUsed
<1>6. LockOK(p)' /\ CallOK(p)'
  BY <1>1, <1>2, <1>3, <1>4 DEF LockOK, CallOK, Held, Allocating, Freeing
<1>7. SpaceOK(p)'
  BY <1>1, <1>2, <1>3, <1>4 DEF SpaceOK, Allocating, Freeing
<1>8. HeapOK(p)'
  BY <1>1, <1>2, <1>4 DEF HeapOK, Allocating
<1>9. ArgOK(p)'
  BY <1>1, <1>2, <1>3, <1>4 DEF ArgOK, Freeing
<1>10. ForkOK(p)'
  BY <1>1, <1>2, <1>3, <1>4 DEF ForkOK
<1>11. FrameOK(p)'
  BY <1>4, FrameNone DEF Held, Allocating, Freeing
<1>12. TablesOK(p)'
  BY <1>2, <1>3, <1>4 DEF TablesOK
<1>13. ProcessOK(p)'
  BY <1>6, <1>7, <1>8, <1>9, <1>10, <1>11, <1>12 DEF ProcessOK
<1>14. "blocked" \in Labels
  BY DEF Labels
<1> QED BY <1>1, <1>2, <1>3, <1>4, <1>5, <1>13, <1>14, MoveInv

-----------------------------------------------------------------------------
(* palloc and pfree, under the lock *)

\* While the holder of the lock is not about to unmap a page, every mapped frame
\* is marked.
LEMMA AllMarked ==
  ASSUME MemInv, NEW p \in Procs, pc[p] \in Held, pc[p] # "pte_remove"
  PROVE  /\ lock = p
         /\ \A q \in Procs, v \in UVirt : pte[q][v] \in UFrames => pte[q][v] \in used
<1>1. lock = p /\ \A q \in Procs : pc[q] \in Held => q = p
  BY DEF MemInv, ProcessOK, LockOK
<1>2. \A q \in Procs : pc[q] # "pte_remove"
  BY <1>1 DEF Held, Freeing
<1> QED BY <1>1, <1>2 DEF MemInv, MappedUsed

\* The labels of malloc_page and of mfree_page: nothing but the frame, the byte,
\* the page and the pool changes from one to the next.
LEMMA InsideInv ==
  ASSUME MemInv, NEW p \in Procs, NEW label, NEW l \in Locals, Goto(p, label, l),
         UNCHANGED <<kmap, spaces, lock, panic>>,
         \/ pc[p] \in Allocating /\ label \in Allocating
         \/ pc[p] \in Freeing /\ label \in Freeing,
         l.call = loc[p].call, l.view = loc[p].view, l.at = loc[p].at, l.n = loc[p].n,
         l.v = loc[p].v, l.child = loc[p].child, l.todo = loc[p].todo, l.buf = loc[p].buf,
         used' \in SUBSET Frames, FrameOK(p)', MappedUsed'
  PROVE  MemInv'
<1>1. /\ pc'[p] = label /\ loc'[p] = l /\ \A c \in Procs : Mapped(c)' = Mapped(c)
      /\ UNCHANGED <<kmap, status, bits, pte, pde, kreg, heap, panic, lock>>
  BY After
<1>2. /\ LockOK(p) /\ CallOK(p) /\ SpaceOK(p) /\ HeapOK(p) /\ ArgOK(p) /\ ForkOK(p)
      /\ TablesOK(p) /\ lock \in Procs \cup {None}
  BY Before DEF MemInv, TypeOK
<1>3. label \in Held /\ pc[p] \in Held /\ label \in Labels /\ lock = p
  BY <1>2 DEF Held, Labels, Allocating, Freeing, LockOK
<1>4. LockOK(p)'
  BY <1>1, <1>2, <1>3 DEF LockOK, Held, Allocating, Freeing
<1>5. CallOK(p)'
  BY <1>1, <1>2 DEF CallOK, Allocating, Freeing
<1>6. Block(p)' = Block(p) /\ Rest(p)' = Rest(p)
  BY <1>1 DEF Block, Rest
<1>7. SpaceOK(p)'
  BY <1>1, <1>2, <1>6 DEF SpaceOK, Allocating, Freeing
<1>8. HeapOK(p)'
  BY <1>1, <1>2, <1>6 DEF HeapOK, Allocating, Freeing
<1>9. ArgOK(p)'
  BY <1>1, <1>2 DEF ArgOK, Allocating, Freeing
<1>10. ForkOK(p)'
  BY <1>1, <1>2 DEF ForkOK, Allocating, Freeing
<1>11. TablesOK(p)'
  BY <1>1, <1>2 DEF TablesOK
<1>12. ProcessOK(p)'
  BY <1>4, <1>5, <1>7, <1>8, <1>9, <1>10, <1>11 DEF ProcessOK
<1> QED BY <1>1, <1>2, <1>3, <1>12, MoveInv

\* A byte of a bitmap holds frames of one pool.
LEMMA ByteFacts ==
  /\ \A f \in UFrames : ByteOf(f) \subseteq UFrames
  /\ \A f \in KFrames : ByteOf(f) \cap UFrames = {}
BY FrameFacts DEF ByteOf, Pool

\* palloc finds a frame that is not marked, of the pool it was asked for.
LEMMA PallocScan ==
  ASSUME MemInv, NEW p \in Procs, palloc_scan(p)
  PROVE  MemInv'
<1> DEFINE free == PoolOf(loc[p].pf) \ used
           f == Min(free)
           l == [loc[p] EXCEPT !.frame = f]
<1>1. CASE Panic("full")
  BY <1>1, PanicInv
<1>2. CASE /\ pc[p] = "scan" /\ free # {} /\ Goto(p, "set", l)
           /\ UNCHANGED <<used, kmap, spaces, lock, panic>>
  <2>1. /\ loc[p] \in Locals /\ FrameOK(p) /\ MappedUsed /\ used \in SUBSET Frames
    BY Before
  <2>2. f \in free /\ f \in Frames
    <3>1. free \in SUBSET Nat /\ free \subseteq Frames
      BY FrameFacts DEF PoolOf, Frames
    <3> QED BY <1>2, <3>1, MinFacts
  <2>3. f \notin used /\ (loc[p].pf = "user" => f \in UFrames) /\ (loc[p].pf = "kernel" => f \in KFrames)
    BY <2>2 DEF PoolOf
  <2> HIDE DEF f, free
  <2>4. /\ l \in Locals /\ l.call = loc[p].call /\ l.view = loc[p].view /\ l.at = loc[p].at
        /\ l.n = loc[p].n /\ l.v = loc[p].v /\ l.child = loc[p].child /\ l.todo = loc[p].todo
        /\ l.buf = loc[p].buf /\ l.frame = f /\ l.pf = loc[p].pf /\ l.page = loc[p].page
    BY <2>1, <2>2 DEF Locals
  <2> HIDE DEF l
  <2>5. /\ pc'[p] = "set" /\ loc'[p] = l /\ \A q \in Procs \ {p} : loc'[q] = loc[q] /\ pc'[q] = pc[q]
        /\ UNCHANGED <<kmap, status, bits, pte, pde, kreg, heap, panic, lock, used>>
    BY <1>2, After
  <2>6. FrameOK(p)'
    BY <1>2, <2>1, <2>3, <2>4, <2>5 DEF FrameOK, Allocating
  <2>7. MappedUsed'
    BY <1>2, <2>1, <2>5 DEF MappedUsed
  <2>8. pc[p] \in Allocating /\ "set" \in Allocating
    BY <1>2 DEF Allocating
  <2> QED BY <1>2, <2>1, <2>4, <2>5, <2>6, <2>7, <2>8, InsideInv
<1> QED BY <1>1, <1>2 DEF palloc_scan

\* The byte that bitmap_set loads holds the marks of all the frames it covers.
LEMMA BitmapLoad ==
  ASSUME MemInv, NEW p \in Procs, bitmap_load(p)
  PROVE  MemInv'
<1> DEFINE byte == used \cap ByteOf(loc[p].frame)
           label == IF pc[p] = "set" THEN "store" ELSE "cleared"
           l == [loc[p] EXCEPT !.byte = byte]
<1>1. /\ pc[p] \in {"set", "clear"} /\ Goto(p, label, l)
      /\ UNCHANGED <<used, kmap, spaces, lock, panic>>
  BY DEF bitmap_load
<1>2. /\ loc[p] \in Locals /\ FrameOK(p) /\ MappedUsed /\ used \in SUBSET Frames
  BY Before
<1>3. /\ l \in Locals /\ l.call = loc[p].call /\ l.view = loc[p].view /\ l.at = loc[p].at
      /\ l.n = loc[p].n /\ l.v = loc[p].v /\ l.child = loc[p].child /\ l.todo = loc[p].todo
      /\ l.buf = loc[p].buf /\ l.frame = loc[p].frame /\ l.pf = loc[p].pf
      /\ l.page = loc[p].page /\ l.byte = byte
  <2>1. byte \in SUBSET Frames
    BY <1>2
  <2> HIDE DEF byte
  <2> QED BY <1>2, <2>1 DEF Locals
<1> HIDE DEF l
<1>4. /\ pc'[p] = label /\ loc'[p] = l /\ \A q \in Procs \ {p} : loc'[q] = loc[q] /\ pc'[q] = pc[q]
      /\ UNCHANGED <<kmap, status, bits, pte, pde, kreg, heap, panic, lock, used>>
  BY <1>1, After
<1>5. FrameOK(p)'
  BY <1>1, <1>2, <1>3, <1>4 DEF FrameOK, Allocating
<1>6. MappedUsed'
  BY <1>1, <1>2, <1>4 DEF MappedUsed
<1>7. \/ pc[p] \in Allocating /\ label \in Allocating
      \/ pc[p] \in Freeing /\ label \in Freeing
  BY <1>1 DEF Allocating, Freeing
<1> HIDE DEF label
<1> QED BY <1>1, <1>2, <1>3, <1>4, <1>5, <1>6, <1>7, InsideInv

\* The byte that palloc writes back marks the frame found and loses no other mark,
\* since nobody else has written the byte since it was loaded.
LEMMA PallocStore ==
  ASSUME MemInv, NEW p \in Procs, palloc_store(p)
  PROVE  MemInv'
<1> DEFINE f == loc[p].frame
           l == IF loc[p].pf = "user" THEN [loc[p] EXCEPT !.page = f] ELSE loc[p]
           label == IF loc[p].pf = "user" THEN "table" ELSE "install"
<1>1. /\ pc[p] = "store" /\ Goto(p, label, l) /\ UNCHANGED <<kmap, spaces, lock, panic>>
      /\ used' = (used \ ByteOf(f)) \cup (loc[p].byte \cup {f})
  BY DEF palloc_store, Store
<1>2. /\ loc[p] \in Locals /\ FrameOK(p) /\ used \in SUBSET Frames /\ loc[p].pf \in {"user", "kernel"}
      /\ loc[p].byte \subseteq Frames
  BY Before DEF Locals
<1>3. pc[p] \in Held /\ pc[p] \in Allocating /\ label \in Allocating
  BY <1>1 DEF Held, Allocating
<1>4. \A q \in Procs, v \in UVirt : pte[q][v] \in UFrames => pte[q][v] \in used
  BY <1>1, <1>3, AllMarked
<1>5. /\ loc[p].pf = "user" => f \in UFrames \ used /\ used \cap ByteOf(f) \subseteq loc[p].byte
      /\ loc[p].pf = "kernel" => f \in KFrames
  BY <1>1, <1>2 DEF FrameOK
<1>6. used \cap UFrames \subseteq used' /\ used' \in SUBSET Frames /\ f \in used'
  BY <1>1, <1>2, <1>5, ByteFacts, FrameFacts DEF Frames
<1>7. /\ l \in Locals /\ l.call = loc[p].call /\ l.view = loc[p].view /\ l.at = loc[p].at
      /\ l.n = loc[p].n /\ l.v = loc[p].v /\ l.child = loc[p].child /\ l.todo = loc[p].todo
      /\ l.buf = loc[p].buf /\ l.frame = f /\ l.pf = loc[p].pf
      /\ l.page = IF loc[p].pf = "user" THEN f ELSE loc[p].page
  BY <1>2, <1>5 DEF Locals
<1> HIDE DEF l
<1>8. /\ pc'[p] = label /\ loc'[p] = l /\ \A q \in Procs \ {p} : loc'[q] = loc[q] /\ pc'[q] = pc[q]
      /\ UNCHANGED <<kmap, status, bits, pte, pde, kreg, heap, panic, lock>>
  BY <1>1, After
<1>9. MappedUsed'
  BY <1>4, <1>6, <1>8 DEF MappedUsed
<1>10. FrameOK(p)'
  <2>1. CASE loc[p].pf = "user"
    <3>1. \A q \in Procs, v \in UVirt : pte[q][v] # f
      BY <1>4, <1>5, <2>1
    <3> QED BY <1>5, <1>6, <1>7, <1>8, <2>1, <3>1 DEF FrameOK, Allocating
  <2>2. CASE loc[p].pf = "kernel"
    <3>1. loc[p].page \in UFrames \cap used' /\ \A q \in Procs, v \in UVirt : pte[q][v] # loc[p].page
      BY <1>1, <1>2, <1>6, <2>2 DEF FrameOK, Allocating
    <3>2. pde[loc[p].view][PDE_IDX(loc[p].v)] = NoFrame
      BY <1>1, <1>2, <2>2 DEF FrameOK, Allocating
    <3> QED BY <1>5, <1>7, <1>8, <2>2, <3>1, <3>2 DEF FrameOK, Allocating
  <2> QED BY <1>2, <2>1, <2>2
<1> HIDE DEF label, f
<1> QED BY <1>1, <1>3, <1>6, <1>7, <1>8, <1>9, <1>10, InsideInv

\* mfree_page works on a block of the heap, and on a page that is mapped.
LEMMA FreeingFacts ==
  ASSUME MemInv, NEW p \in Procs, pc[p] \in Freeing
  PROVE  /\ lock = p /\ status[p] = "live" /\ loc[p].v \in UVirt
         /\ [at |-> loc[p].at, n |-> loc[p].n] \in heap[p] /\ Block(p) \subseteq bits[p] \ {STACK3}
         /\ loc[p].v \in Block(p) /\ loc[p].v \in Mapped(p) /\ pte[p][loc[p].v] \in UFrames
<1>1. /\ loc[p] \in Locals /\ LockOK(p) /\ CallOK(p) /\ SpaceOK(p) /\ HeapOK(p) /\ ArgOK(p)
      /\ bits[p] \subseteq UVirt
      /\ \A v \in UVirt : pte[p][v] \in UFrames \cup {NoFrame}
  BY Before
<1>2. lock = p /\ status[p] = "live"
  BY <1>1 DEF LockOK, Held, Freeing
<1>3. [at |-> loc[p].at, n |-> loc[p].n] \in heap[p]
  BY <1>1 DEF CallOK, ArgOK
<1>4. Run([at |-> loc[p].at, n |-> loc[p].n]) = Block(p)
  BY DEF Run, Block
<1>5. Block(p) \subseteq bits[p] \ {STACK3}
  BY <1>1, <1>2, <1>3, <1>4 DEF HeapOK
<1>6. loc[p].v \in Block(p) /\ Mapped(p) = bits[p] \ (Block(p) \ Rest(p))
  BY <1>1 DEF SpaceOK
<1>7. loc[p].v \in Rest(p)
  <2>1. loc[p].v \in Nat /\ loc[p].at \in Nat /\ loc[p].n \in Nat
    BY <1>1 DEF Locals
  <2> QED BY <1>6, <2>1 DEF Block, Rest
<1>8. loc[p].v \in Mapped(p)
  BY <1>5, <1>6, <1>7
<1> QED BY <1>1, <1>2, <1>3, <1>5, <1>6, <1>8 DEF Mapped

\* mfree_page looks up the frame of the next page of the block.
LEMMA Pfree ==
  ASSUME MemInv, NEW p \in Procs, pfree(p)
  PROVE  MemInv'
<1> DEFINE f == pte[p][loc[p].v]
           l == [loc[p] EXCEPT !.frame = f]
<1>1. /\ pc[p] = "pfree" /\ Goto(p, "clear", l)
      /\ UNCHANGED <<used, kmap, spaces, lock, panic>>
  BY DEF pfree
<1>2. /\ loc[p] \in Locals /\ MappedUsed /\ used \in SUBSET Frames
  BY Before
<1>3. f \in UFrames
  BY <1>1, FreeingFacts DEF Freeing
<1>4. /\ l \in Locals /\ l.call = loc[p].call /\ l.view = loc[p].view /\ l.at = loc[p].at
      /\ l.n = loc[p].n /\ l.v = loc[p].v /\ l.child = loc[p].child /\ l.todo = loc[p].todo
      /\ l.buf = loc[p].buf /\ l.frame = f
  <2> HIDE DEF f
  <2> QED BY <1>2, <1>3 DEF Locals, Frames
<1> HIDE DEF l
<1>5. /\ pc'[p] = "clear" /\ loc'[p] = l /\ \A q \in Procs \ {p} : loc'[q] = loc[q] /\ pc'[q] = pc[q]
      /\ UNCHANGED <<kmap, status, bits, pte, pde, kreg, heap, panic, lock, used>>
  BY <1>1, After
<1>6. FrameOK(p)'
  BY <1>4, <1>5 DEF FrameOK, Allocating
<1>7. MappedUsed'
  BY <1>1, <1>2, <1>5 DEF MappedUsed
<1>8. pc[p] \in Freeing /\ "clear" \in Freeing
  BY <1>1 DEF Freeing
<1> QED BY <1>1, <1>2, <1>4, <1>5, <1>6, <1>7, <1>8, InsideInv

\* The byte that pfree writes back clears the one frame and loses no other mark.
LEMMA PfreeStore ==
  ASSUME MemInv, NEW p \in Procs, pfree_store(p)
  PROVE  MemInv'
<1> DEFINE f == loc[p].frame
<1>1. /\ pc[p] = "cleared" /\ Goto(p, "pte_remove", loc[p]) /\ UNCHANGED <<kmap, spaces, lock, panic>>
      /\ used' = (used \ ByteOf(f)) \cup (loc[p].byte \ {f})
  BY DEF pfree_store, Store
<1>2. /\ loc[p] \in Locals /\ FrameOK(p) /\ used \in SUBSET Frames /\ loc[p].byte \subseteq Frames
      /\ FramesApart
  BY Before DEF Locals, MemInv
<1>3. pc[p] \in Held /\ pc[p] \in Freeing /\ "pte_remove" \in Freeing
  BY <1>1 DEF Held, Freeing
<1>4. \A q \in Procs, v \in UVirt : pte[q][v] \in UFrames => pte[q][v] \in used
  BY <1>1, <1>3, AllMarked
<1>5. f = pte[p][loc[p].v] /\ f \in UFrames /\ loc[p].v \in UVirt /\ f # NoFrame
  <2>1. f = pte[p][loc[p].v]
    BY <1>1, <1>2 DEF FrameOK
  <2>2. pte[p][loc[p].v] \in UFrames /\ loc[p].v \in UVirt
    BY <1>3, FreeingFacts
  <2> QED BY <2>1, <2>2, FrameFacts
<1>6. used \cap ByteOf(f) \subseteq loc[p].byte
  BY <1>1, <1>2, <1>5 DEF FrameOK
<1>7. used \ {f} \subseteq used' /\ used' \in SUBSET Frames
  BY <1>1, <1>2, <1>6
<1>8. /\ pc'[p] = "pte_remove" /\ loc'[p] = loc[p]
      /\ \A q \in Procs \ {p} : loc'[q] = loc[q] /\ pc'[q] = pc[q]
      /\ UNCHANGED <<kmap, status, bits, pte, pde, kreg, heap, panic, lock>>
  BY <1>1, After
<1>9. MappedUsed'
  <2>1. SUFFICES ASSUME NEW q \in Procs, NEW v \in UVirt, pte[q][v] \in UFrames \ used'
                 PROVE  q = p /\ v = loc[p].v
    BY <1>8 DEF MappedUsed
  <2>2. pte[q][v] = f
    BY <1>4, <1>7, <2>1
  <2> QED BY <1>2, <1>5, <2>2 DEF FramesApart
<1>10. FrameOK(p)'
  BY <1>5, <1>8 DEF FrameOK, Allocating
<1> HIDE DEF f
<1> QED BY <1>1, <1>2, <1>3, <1>7, <1>8, <1>9, <1>10, InsideInv

-----------------------------------------------------------------------------
(* page_table_add *)

\* The pages that are left of a block, from v on.
LEMMA RunFacts ==
  ASSUME NEW at \in Nat, NEW n \in Nat, NEW v \in Nat, v \in at..(at + n - 1)
  PROVE  /\ v \in v..(at + n - 1)
         /\ (v + 1)..(at + n - 1) = (v..(at + n - 1)) \ {v}
         /\ v + 1 < at + n => v + 1 \in at..(at + n - 1)
         /\ ~(v + 1 < at + n) => v..(at + n - 1) = {v} /\ v = at + n - 1
<1>1. \A u : u \in (v + 1)..(at + n - 1) <=> u \in (v..(at + n - 1)) \ {v}
  OBVIOUS
<1>2. ~(v + 1 < at + n) => \A u : u \in v..(at + n - 1) <=> u = v
  OBVIOUS
<1> QED BY <1>1, <1>2

\* Where a loop over pages goes on: with the next page, or to lock_release.
LEMMA NextPageFacts ==
  ASSUME MemInv, NEW p \in Procs, NEW label, NextPage(p, label)
  PROVE  LET l == [loc[p] EXCEPT !.v = @ + 1, !.pf = "user"]
         IN /\ l \in Locals /\ l.call = loc[p].call /\ l.view = loc[p].view /\ l.at = loc[p].at
            /\ l.n = loc[p].n /\ l.v = loc[p].v + 1 /\ l.child = loc[p].child
            /\ l.todo = loc[p].todo /\ l.buf = loc[p].buf /\ l.pf = "user"
            /\ \A q \in Procs \ {p} : loc'[q] = loc[q] /\ pc'[q] = pc[q]
            /\ \/ /\ loc[p].v + 1 < loc[p].at + loc[p].n
                  /\ pc'[p] = label /\ loc'[p] = l
               \/ /\ ~(loc[p].v + 1 < loc[p].at + loc[p].n)
                  /\ pc'[p] = "unlock" /\ loc'[p] = loc[p]
            /\ label \in Labels => LocalsOK'
<1> DEFINE l == [loc[p] EXCEPT !.v = @ + 1, !.pf = "user"]
<1>1. loc[p] \in Locals /\ LocalsOK
  BY Before DEF MemInv
<1>2. /\ l \in Locals /\ l.call = loc[p].call /\ l.view = loc[p].view /\ l.at = loc[p].at
      /\ l.n = loc[p].n /\ l.v = loc[p].v + 1 /\ l.child = loc[p].child
      /\ l.todo = loc[p].todo /\ l.buf = loc[p].buf /\ l.pf = "user"
  <2> DEFINE m == loc[p]
             w == m.v + 1
  <2>1. m \in Locals /\ w \in Nat /\ l = [m EXCEPT !.v = w, !.pf = "user"]
    BY <1>1 DEF Locals
  <2> HIDE DEF m, w, l
  <2>2. /\ l \in Locals /\ l.call = m.call /\ l.view = m.view /\ l.at = m.at
        /\ l.n = m.n /\ l.v = w /\ l.child = m.child
        /\ l.todo = m.todo /\ l.buf = m.buf /\ l.pf = "user"
    BY <2>1 DEF Locals
  <2> QED BY <2>2 DEF m, w
<1>3. \/ loc[p].v + 1 < loc[p].at + loc[p].n /\ Goto(p, label, l)
      \/ ~(loc[p].v + 1 < loc[p].at + loc[p].n) /\ Goto(p, "unlock", loc[p])
  BY DEF NextPage
<1> HIDE DEF l
<1>4. "unlock" \in Labels
  BY DEF Labels, Held
<1>5. label \in Labels => LocalsOK'
  BY <1>1, <1>2, <1>3, <1>4 DEF LocalsOK, Goto
<1>6. /\ \A q \in Procs \ {p} : loc'[q] = loc[q] /\ pc'[q] = pc[q]
      /\ \/ /\ loc[p].v + 1 < loc[p].at + loc[p].n
            /\ pc'[p] = label /\ loc'[p] = l
         \/ /\ ~(loc[p].v + 1 < loc[p].at + loc[p].n)
            /\ pc'[p] = "unlock" /\ loc'[p] = loc[p]
  BY <1>1, <1>3 DEF LocalsOK, Goto
<1> QED BY <1>2, <1>5, <1>6 DEF l

\* The page tables get frame f for page v of address space s, and no other change.
Entered(s, v, f) ==
    /\ pte' \in [Procs -> [UVirt -> UFrames \cup {NoFrame}]]
    /\ \A q \in Procs, u \in UVirt : pte'[q][u] = IF q = s /\ u = v THEN f ELSE pte[q][u]

\* Page v of address space s has a page table, and no page table is lost.
TableThere(s, v) ==
    /\ pde' \in [Procs -> [Tables -> KFrames \cup {NoFrame}]]
    /\ \A q \in Procs \ {s} : pde'[q] = pde[q]
    /\ \A u \in UVirt : pde'[s][PDE_IDX(u)] = pde[s][PDE_IDX(u)] \/ pde'[s][PDE_IDX(u)] # NoFrame
    /\ pde'[s][PDE_IDX(v)] # NoFrame

\* A new entry for page v of address space s: the call has marked its frame and
\* nobody has mapped it, so that frames stay apart.
LEMMA NewEntry ==
  ASSUME MemInv, NEW p \in Procs, pc[p] \in {"table", "install"},
         loc[p].view \in Procs, loc[p].v \in UVirt, pte[loc[p].view][loc[p].v] = NoFrame,
         Entered(loc[p].view, loc[p].v, loc[p].page), used' = used
  PROVE  /\ lock = p /\ loc[p].page \in UFrames /\ loc[p].page # NoFrame
         /\ FramesApart' /\ MappedUsed'
         /\ {u \in UVirt : pte'[loc[p].view][u] # NoFrame} = Mapped(loc[p].view) \cup {loc[p].v}
         /\ \A q \in Procs \ {loc[p].view} : pte'[q] = pte[q]
<1> DEFINE s == loc[p].view
           v == loc[p].v
<1>0. /\ pte' \in [Procs -> [UVirt -> UFrames \cup {NoFrame}]]
      /\ \A q \in Procs, u \in UVirt :
            pte'[q][u] = IF q = s /\ u = v THEN loc[p].page ELSE pte[q][u]
  BY DEF Entered
<1>1. FrameOK(p) /\ FramesApart /\ pc[p] \in Allocating /\ pc[p] \in Held
  BY Before DEF MemInv, Allocating, Held
<1>2. loc[p].page \in UFrames \cap used /\ \A q \in Procs, u \in UVirt : pte[q][u] # loc[p].page
  BY <1>1 DEF FrameOK
<1>3. lock = p /\ \A q \in Procs, u \in UVirt : pte[q][u] \in UFrames => pte[q][u] \in used
  BY <1>1, AllMarked
<1>4. loc[p].page # NoFrame
  BY <1>2, FrameFacts
<1>5. FramesApart'
  BY <1>0, <1>1, <1>2 DEF FramesApart
<1>6. MappedUsed'
  BY <1>0, <1>2, <1>3 DEF MappedUsed
<1>7. {u \in UVirt : pte'[s][u] # NoFrame} = Mapped(s) \cup {v}
  BY <1>0, <1>4 DEF Mapped
<1>8. ASSUME NEW q \in Procs \ {s} PROVE pte'[q] = pte[q]
  <2>1. pte \in [Procs -> [UVirt -> UFrames \cup {NoFrame}]]
    BY DEF MemInv, TypeOK
  <2>2. pte'[q] \in [UVirt -> UFrames \cup {NoFrame}] /\ pte[q] \in [UVirt -> UFrames \cup {NoFrame}]
    BY <1>0, <2>1
  <2>3. \A u \in UVirt : pte'[q][u] = pte[q][u]
    BY <1>0
  <2> QED BY <2>2, <2>3
<1> QED BY <1>2, <1>3, <1>4, <1>5, <1>6, <1>7, <1>8

\* malloc_page and get_a_page map a page of their own process.
LEMMA MapOwn ==
  ASSUME MemInv, NEW p \in Procs, pc[p] \in {"table", "install"}, loc[p].call # "fork",
         NEW v \in UVirt, v = loc[p].v, p = loc[p].view,
         pte[p][v] = NoFrame, Entered(p, v, loc[p].page),
         TableThere(p, v),
         NextPage(p, "scan"), UNCHANGED <<used, kmap, status, bits, kreg, heap, lock, panic>>
  PROVE  MemInv'
<1>0. /\ pde' \in [Procs -> [Tables -> KFrames \cup {NoFrame}]]
      /\ \A q \in Procs \ {p} : pde'[q] = pde[q]
      /\ \A u \in UVirt : pde'[p][PDE_IDX(u)] = pde[p][PDE_IDX(u)] \/ pde'[p][PDE_IDX(u)] # NoFrame
      /\ pde'[p][PDE_IDX(v)] # NoFrame
  BY DEF TableThere
<1> USE <1>0
<1>1. /\ lock = p /\ FramesApart' /\ MappedUsed' /\ Mapped(p)' = Mapped(p) \cup {v}
      /\ \A q \in Procs \ {p} : pte'[q] = pte[q]
  <2>1. used' = used
    OBVIOUS
  <2>2. /\ loc[p].view \in Procs /\ loc[p].v \in UVirt /\ pte[loc[p].view][loc[p].v] = NoFrame
        /\ Entered(loc[p].view, loc[p].v, loc[p].page)
    OBVIOUS
  <2>3. /\ lock = p /\ FramesApart' /\ MappedUsed'
        /\ {u \in UVirt : pte'[loc[p].view][u] # NoFrame} = Mapped(loc[p].view) \cup {loc[p].v}
        /\ \A q \in Procs \ {loc[p].view} : pte'[q] = pte[q]
    BY <2>1, <2>2, NewEntry
  <2> QED BY <2>3 DEF Mapped
<1>2. /\ loc[p] \in Locals /\ LockOK(p) /\ CallOK(p) /\ SpaceOK(p) /\ HeapOK(p) /\ ArgOK(p)
      /\ TablesOK(p) /\ TypeOK /\ ChildrenApart /\ loc[p].call \notin {"fork", "free", "none", "failed"}
      /\ status[p] = "live"
  <2>1. /\ loc[p] \in Locals /\ LockOK(p) /\ CallOK(p) /\ SpaceOK(p) /\ HeapOK(p) /\ ArgOK(p)
        /\ TablesOK(p)
    BY Before
  <2>2. TypeOK /\ ChildrenApart
    BY DEF MemInv
  <2>3. loc[p].call \notin {"fork", "free", "none", "failed"} /\ status[p] = "live"
    BY <2>1 DEF CallOK, LockOK, Allocating
  <2> QED BY <2>1, <2>2, <2>3
<1> DEFINE l == [loc[p] EXCEPT !.v = @ + 1, !.pf = "user"]
<1>3. /\ l.call = loc[p].call /\ l.view = loc[p].view /\ l.at = loc[p].at
      /\ l.n = loc[p].n /\ l.v = loc[p].v + 1 /\ l.child = loc[p].child
      /\ l.buf = loc[p].buf /\ l.pf = "user"
      /\ \A q \in Procs \ {p} : loc'[q] = loc[q] /\ pc'[q] = pc[q]
      /\ \/ /\ loc[p].v + 1 < loc[p].at + loc[p].n
            /\ pc'[p] = "scan" /\ loc'[p] = l
         \/ /\ ~(loc[p].v + 1 < loc[p].at + loc[p].n)
            /\ pc'[p] = "unlock" /\ loc'[p] = loc[p]
      /\ LocalsOK'
  <2>1. "scan" \in Labels
    BY DEF Labels, Held, Allocating
  <2> QED BY <2>1, NextPageFacts
<1> HIDE DEF l
<1>4. TypeOK'
  BY <1>2 DEF TypeOK, Entered
<1>5. /\ loc'[p].call = loc[p].call /\ loc'[p].view = loc[p].view /\ loc'[p].at = loc[p].at
      /\ loc'[p].n = loc[p].n /\ loc'[p].child = loc[p].child /\ loc'[p].buf = loc[p].buf
      /\ pc'[p] \in {"scan", "unlock"} /\ (pc'[p] = "scan" => loc'[p].pf = "user")
  BY <1>3
<1>6. ChildrenApart'
  BY <1>2, <1>3, <1>5 DEF ChildrenApart
<1>7. ASSUME NEW q \in Procs \ {p} PROVE ProcessOK(q)'
  <2>1. Kept(q)
    BY <1>1, <1>3 DEF Kept
  <2>2. pc'[q] \notin Held
    BY <1>1, <1>3 DEF MemInv, ProcessOK, LockOK
  <2>3. FrameOK(q)'
    BY <2>2, FrameNone
  <2>4. loc[q].call = "fork" => loc[q].child \in Procs \ {p}
    BY <1>2 DEF MemInv, ProcessOK, ForkOK
  <2> QED BY <1>1, <2>1, <2>3, <2>4, KeptInv
<1>8. ProcessOK(p)'
  <2>1. LockOK(p)' /\ CallOK(p)'
    BY <1>1, <1>2, <1>5 DEF LockOK, CallOK, Held, Allocating, Freeing
  <2>2. /\ v \in Block(p) /\ Rest(p) \subseteq bits[p] /\ Mapped(p) = bits[p] \ Rest(p)
    BY <1>2 DEF SpaceOK, Allocating
  <2>3. loc[p].v \in Nat /\ loc[p].at \in Nat /\ loc[p].n \in Nat
    BY <1>2 DEF Locals
  <2>4. SpaceOK(p)'
    <3>1. CASE pc'[p] = "scan"
      <4>1. /\ loc'[p].v = v + 1 /\ v + 1 < loc[p].at + loc[p].n
        BY <1>3, <3>1
      <4>2. /\ loc'[p].v \in Block(p)' /\ Rest(p)' = Rest(p) \ {v} /\ v \in Rest(p)
        <5>1. v \in loc[p].at..(loc[p].at + loc[p].n - 1) /\ v \in Nat
          BY <2>2, <2>3 DEF Block
        <5>2. /\ v \in v..(loc[p].at + loc[p].n - 1)
              /\ (v + 1)..(loc[p].at + loc[p].n - 1) = (v..(loc[p].at + loc[p].n - 1)) \ {v}
              /\ v + 1 \in loc[p].at..(loc[p].at + loc[p].n - 1)
          BY <2>3, <4>1, <5>1, RunFacts
        <5> QED BY <1>5, <4>1, <5>2 DEF Block, Rest
      <4>3. Rest(p)' \subseteq bits'[p] /\ Mapped(p)' = bits'[p] \ Rest(p)'
        BY <1>1, <2>2, <4>2
      <4> QED BY <1>2, <1>5, <3>1, <4>2, <4>3 DEF SpaceOK, Allocating, Freeing
    <3>2. CASE pc'[p] = "unlock"
      <4>1. Rest(p) = {v}
        BY <1>3, <2>2, <2>3, <3>2, RunFacts DEF Block, Rest
      <4>2. Mapped(p)' = bits[p]
        BY <1>1, <2>2, <4>1
      <4> QED BY <3>2, <4>2 DEF SpaceOK, Allocating, Freeing
    <3> QED BY <1>5, <3>1, <3>2
  <2>5. HeapOK(p)'
    <3>1. Block(p)' = Block(p)
      BY <1>5 DEF Block
    <3> QED BY <1>2, <1>5, <3>1 DEF HeapOK, Allocating
  <2>6. ArgOK(p)' /\ ForkOK(p)'
    BY <1>2, <1>5 DEF ArgOK, ForkOK, Freeing
  <2>7. FrameOK(p)'
    BY <1>5 DEF FrameOK, Allocating
  <2>8. TablesOK(p)'
    <3>1. \A u \in UVirt : pte'[p][u] # NoFrame => pde'[p][PDE_IDX(u)] # NoFrame
      BY <1>2 DEF TablesOK, Entered
    <3> QED BY <1>2, <1>5, <3>1 DEF TablesOK
  <2> QED BY <2>1, <2>4, <2>5, <2>6, <2>7, <2>8 DEF ProcessOK
<1> QED BY <1>1, <1>3, <1>4, <1>6, <1>7, <1>8 DEF MemInv

\* While a fork has the lock, the page it is about is one of its own process: a new
\* entry can only be for the child.
LEMMA ForkFacts ==
  ASSUME MemInv, NEW p \in Procs, pc[p] \in Allocating, loc[p].call = "fork"
  PROVE  /\ loc[p].child \in Procs \ {p} /\ status[loc[p].child] = "fork" /\ status[p] = "live"
         /\ pc[loc[p].child] = "user" /\ loc[loc[p].child] = Idle
         /\ bits[loc[p].child] = bits[p] /\ loc[p].todo \subseteq bits[p] /\ Mapped(p) = bits[p]
         /\ Mapped(loc[p].child) = bits[p] \ loc[p].todo
         /\ loc[p].v \in loc[p].todo /\ loc[p].v \in UVirt
         /\ loc[p].at = loc[p].v /\ loc[p].n = 1 /\ loc[p].view \in {p, loc[p].child}
         /\ pte[p][loc[p].v] # NoFrame /\ pde[p][PDE_IDX(loc[p].v)] # NoFrame
         /\ pte[loc[p].view][loc[p].v] = NoFrame => loc[p].view = loc[p].child
<1>1. /\ loc[p] \in Locals /\ LockOK(p) /\ ForkOK(p) /\ SpaceOK(p) /\ TablesOK(p)
  BY Before
<1>2. status[p] = "live"
  BY <1>1 DEF LockOK, Allocating
<1>3. pc[p] # "unlock" /\ pc[p] # "copy"
  BY DEF Allocating
<1> DEFINE c == loc[p].child
<1>4. /\ c \in Procs /\ status[c] = "fork" /\ bits[c] = bits[p] /\ loc[p].todo \subseteq bits[p]
      /\ Mapped(c) = bits[c] \ loc[p].todo /\ loc[p].v \in loc[p].todo
      /\ loc[p].at = loc[p].v /\ loc[p].n = 1 /\ loc[p].view \in {p, c}
  BY <1>1, <1>3 DEF ForkOK
<1>5. LockOK(c)
  BY <1>4, Before
<1>6. pc[c] = "user" /\ loc[c] = Idle /\ c # p
  BY <1>2, <1>4, <1>5 DEF LockOK
<1>7. Mapped(p) = bits[p]
  BY <1>1, <1>2 DEF SpaceOK
<1>8. loc[p].v \in Mapped(p)
  BY <1>4, <1>7
<1>9. loc[p].v \in UVirt /\ pte[p][loc[p].v] # NoFrame
  BY <1>8 DEF Mapped
<1>10. pde[p][PDE_IDX(loc[p].v)] # NoFrame
  BY <1>1, <1>9 DEF TablesOK
<1> QED BY <1>2, <1>4, <1>6, <1>7, <1>9, <1>10

\* fork maps a page of the child.
LEMMA MapChild ==
  ASSUME MemInv, NEW p \in Procs, pc[p] \in {"table", "install"}, loc[p].call = "fork",
         NEW c \in Procs, c = loc[p].child, NEW v \in UVirt, v = loc[p].v, c = loc[p].view,
         pte[c][v] = NoFrame, Entered(c, v, loc[p].page),
         TableThere(c, v),
         NextPage(p, "scan"), UNCHANGED <<used, kmap, status, bits, kreg, heap, lock, panic>>
  PROVE  MemInv'
<1>0. /\ pde' \in [Procs -> [Tables -> KFrames \cup {NoFrame}]]
      /\ \A q \in Procs \ {c} : pde'[q] = pde[q]
      /\ \A u \in UVirt : pde'[c][PDE_IDX(u)] = pde[c][PDE_IDX(u)] \/ pde'[c][PDE_IDX(u)] # NoFrame
      /\ pde'[c][PDE_IDX(v)] # NoFrame
  BY DEF TableThere
<1> USE <1>0
<1>1. /\ lock = p /\ FramesApart' /\ MappedUsed' /\ Mapped(c)' = Mapped(c) \cup {v}
      /\ \A q \in Procs \ {c} : pte'[q] = pte[q]
  <2>1. used' = used
    OBVIOUS
  <2>2. /\ loc[p].view \in Procs /\ loc[p].v \in UVirt /\ pte[loc[p].view][loc[p].v] = NoFrame
        /\ Entered(loc[p].view, loc[p].v, loc[p].page)
    OBVIOUS
  <2>3. /\ lock = p /\ FramesApart' /\ MappedUsed'
        /\ {u \in UVirt : pte'[loc[p].view][u] # NoFrame} = Mapped(loc[p].view) \cup {loc[p].v}
        /\ \A q \in Procs \ {loc[p].view} : pte'[q] = pte[q]
    BY <2>1, <2>2, NewEntry
  <2> QED BY <2>3 DEF Mapped
<1>2. /\ c # p /\ status[c] = "fork" /\ status[p] = "live" /\ pc[c] = "user" /\ loc[c] = Idle
      /\ bits[c] = bits[p] /\ loc[p].todo \subseteq bits[p]
      /\ Mapped(c) = bits[p] \ loc[p].todo /\ v \in loc[p].todo
      /\ loc[p].at = v /\ loc[p].n = 1 /\ v \in Nat
  BY ForkFacts DEF Allocating, UVirt
<1>3. /\ \A q \in Procs \ {p} : loc'[q] = loc[q] /\ pc'[q] = pc[q]
      /\ pc'[p] = "unlock" /\ loc'[p] = loc[p] /\ LocalsOK'
  <2>1. "scan" \in Labels
    BY DEF Labels, Held, Allocating
  <2>2. ~(loc[p].v + 1 < loc[p].at + loc[p].n)
    BY <1>2
  <2> QED BY <2>1, <2>2, NextPageFacts
<1>4. TypeOK'
  BY DEF MemInv, TypeOK, Entered
<1>5. ChildrenApart /\ ChildrenApart'
  BY <1>3 DEF MemInv, ChildrenApart
<1>6. ASSUME NEW q \in Procs \ {p, c} PROVE ProcessOK(q)'
  <2>1. Kept(q)
    BY <1>1, <1>3 DEF Kept
  <2>2. pc'[q] \notin Held
    BY <1>1, <1>3 DEF MemInv, ProcessOK, LockOK
  <2>3. FrameOK(q)'
    BY <2>2, FrameNone
  <2>4. loc[q].call = "fork" => loc[q].child \in Procs \ {c}
    <3>1. ForkOK(q)
      BY Before
    <3> QED BY <1>5, <3>1 DEF ForkOK, ChildrenApart
  <2> QED BY <1>1, <2>1, <2>3, <2>4, KeptInv
<1>7. ProcessOK(p)'
  <2>1. /\ LockOK(p) /\ CallOK(p) /\ SpaceOK(p) /\ HeapOK(p) /\ ArgOK(p) /\ TablesOK(p)
    BY Before
  <2>2. pte'[p] = pte[p] /\ pde'[p] = pde[p] /\ Mapped(p)' = Mapped(p)
    BY <1>1, <1>2 DEF Mapped
  <2>3. LockOK(p)' /\ CallOK(p)'
    BY <1>1, <1>2, <1>3, <2>1 DEF LockOK, CallOK, Held, Allocating, Freeing
  <2>4. SpaceOK(p)' /\ HeapOK(p)' /\ ArgOK(p)'
    BY <1>3, <2>1, <2>2 DEF SpaceOK, HeapOK, ArgOK, Allocating, Freeing
  <2>5. Mapped(c)' = bits[c] \ (loc[p].todo \ {v})
    BY <1>1, <1>2
  <2>6. ForkOK(p)'
    BY <1>2, <1>3, <2>5 DEF ForkOK
  <2>7. FrameOK(p)'
    BY <1>3 DEF FrameOK, Allocating
  <2>8. TablesOK(p)'
    BY <1>3, <2>1, <2>2 DEF TablesOK
  <2> QED BY <2>3, <2>4, <2>6, <2>7, <2>8 DEF ProcessOK
<1>8. ProcessOK(c)'
  <2>1. /\ LockOK(c) /\ CallOK(c) /\ HeapOK(c) /\ ArgOK(c) /\ TablesOK(c)
    BY Before
  <2>2. pc'[c] = "user" /\ loc'[c] = Idle /\ status'[c] = "fork"
    BY <1>2, <1>3
  <2>3. LockOK(c)' /\ CallOK(c)'
    BY <1>1, <1>2, <2>2 DEF LockOK, CallOK, Held, Allocating, Freeing
  <2>4. SpaceOK(c)' /\ HeapOK(c)'
    BY <1>2, <2>1, <2>2 DEF SpaceOK, HeapOK, Allocating, Freeing
  <2>5. ArgOK(c)' /\ ForkOK(c)'
    BY <2>2, IdleFacts DEF ArgOK, ForkOK
  <2>6. FrameOK(c)'
    BY <2>2, FrameNone DEF Held, Allocating, Freeing
  <2>7. TablesOK(c)'
    <3>1. \A u \in UVirt : pte[c][u] # NoFrame => pde[c][PDE_IDX(u)] # NoFrame
      BY <2>1 DEF TablesOK
    <3>2. \A u \in UVirt : pte'[c][u] # NoFrame => u = v \/ pte[c][u] # NoFrame
      BY DEF Entered
    <3>3. \A u \in UVirt : pte'[c][u] # NoFrame => pde'[c][PDE_IDX(u)] # NoFrame
      BY <3>1, <3>2
    <3> QED BY <1>2, <2>1, <2>2, <3>3 DEF TablesOK
  <2> QED BY <2>3, <2>4, <2>5, <2>6, <2>7 DEF ProcessOK
<1> QED BY <1>1, <1>3, <1>4, <1>5, <1>6, <1>7, <1>8 DEF MemInv

\* The page that malloc_page is about is a user page, in the loaded address space.
LEMMA ViewFacts ==
  ASSUME MemInv, NEW p \in Procs, pc[p] \in Allocating
  PROVE  /\ loc[p].view \in Procs /\ loc[p].v \in UVirt
         /\ PDE_IDX(loc[p].v) \in Tables
         /\ loc[p].call # "fork" => loc[p].view = p
<1>1. /\ loc[p] \in Locals /\ CallOK(p) /\ SpaceOK(p) /\ bits[p] \subseteq UVirt
  BY Before
<1>2. CASE loc[p].call = "fork"
  <2>1. loc[p].view \in Procs /\ loc[p].v \in UVirt
    BY <1>2, ForkFacts
  <2> QED BY <1>2, <2>1 DEF Tables
<1>3. CASE loc[p].call # "fork"
  <2>1. loc[p].view = p
    BY <1>1, <1>3 DEF CallOK, Allocating
  <2>2. loc[p].v \in Block(p) /\ Rest(p) \subseteq bits[p]
    BY <1>1, <1>3 DEF SpaceOK
  <2>3. loc[p].v \in Rest(p)
    <3>1. loc[p].v \in Nat /\ loc[p].at \in Nat /\ loc[p].n \in Nat
      BY <1>1 DEF Locals
    <3> QED BY <2>2, <3>1 DEF Block, Rest
  <2> QED BY <1>1, <2>1, <2>2, <2>3 DEF Tables
<1> QED BY <1>2, <1>3

\* page_table_add: a page that is there already stops the kernel, a page table that
\* is not there has to be allocated first.
LEMMA PageTableAdd ==
  ASSUME MemInv, NEW p \in Procs, page_table_add(p)
  PROVE  MemInv'
<1> DEFINE s == loc[p].view
           v == loc[p].v
<1>1. /\ pc[p] = "table"
      /\ \/ Panic("pte_repeat")
         \/ /\ pde[s][PDE_IDX(v)] # NoFrame /\ pte[s][v] = NoFrame
            /\ pte' = [pte EXCEPT ![s][v] = loc[p].page] /\ NextPage(p, "scan")
            /\ UNCHANGED <<used, kmap, status, bits, pde, kreg, heap, lock, panic>>
         \/ /\ pde[s][PDE_IDX(v)] = NoFrame
            /\ Goto(p, "scan", [loc[p] EXCEPT !.pf = "kernel"])
            /\ UNCHANGED <<used, kmap, spaces, lock, panic>>
  BY DEF page_table_add
<1>2. /\ loc[p] \in Locals /\ FrameOK(p) /\ MappedUsed /\ used \in SUBSET Frames
  BY Before
<1>3. pc[p] \in Allocating
  BY <1>1 DEF Allocating
<1>4. s \in Procs /\ v \in UVirt /\ PDE_IDX(v) \in Tables /\ (loc[p].call # "fork" => s = p)
  BY <1>3, ViewFacts
<1>5. pte \in [Procs -> [UVirt -> UFrames \cup {NoFrame}]]
      /\ pde \in [Procs -> [Tables -> KFrames \cup {NoFrame}]]
  BY DEF MemInv, TypeOK
<1>6. CASE Panic("pte_repeat")
  BY <1>6, PanicInv
<1>7. CASE /\ pde[s][PDE_IDX(v)] # NoFrame /\ pte[s][v] = NoFrame
           /\ pte' = [pte EXCEPT ![s][v] = loc[p].page] /\ NextPage(p, "scan")
           /\ UNCHANGED <<used, kmap, status, bits, pde, kreg, heap, lock, panic>>
  <2>1. loc[p].page \in UFrames \cup {NoFrame}
    BY <1>2 DEF Locals
  <2>2. Entered(s, v, loc[p].page)
    BY <1>4, <1>5, <1>7, <2>1 DEF Entered
  <2>3. TableThere(s, v)
    BY <1>5, <1>7 DEF TableThere
  <2>4. CASE loc[p].call = "fork"
    <3>1. s = loc[p].child
      BY <1>3, <1>7, <2>4, ForkFacts
    <3> QED BY <1>1, <1>4, <1>7, <2>2, <2>4, <2>3, <3>1, MapChild
  <2>5. CASE loc[p].call # "fork"
    <3>1. s = p
      BY <1>4, <2>5
    <3>2. Entered(p, v, loc[p].page) /\ pte[p][v] = NoFrame /\ TableThere(p, v) /\ p = loc[p].view
      BY <1>7, <2>2, <2>3, <3>1
    <3> QED BY <1>1, <1>4, <1>7, <2>5, <3>2, MapOwn
  <2> QED BY <2>4, <2>5
<1>8. CASE /\ pde[s][PDE_IDX(v)] = NoFrame
           /\ Goto(p, "scan", [loc[p] EXCEPT !.pf = "kernel"])
           /\ UNCHANGED <<used, kmap, spaces, lock, panic>>
  <2> DEFINE l == [loc[p] EXCEPT !.pf = "kernel"]
  <2>1. /\ l \in Locals /\ l.call = loc[p].call /\ l.view = loc[p].view /\ l.at = loc[p].at
        /\ l.n = loc[p].n /\ l.v = loc[p].v /\ l.child = loc[p].child /\ l.todo = loc[p].todo
        /\ l.buf = loc[p].buf /\ l.pf = "kernel" /\ l.page = loc[p].page
    BY <1>2 DEF Locals
  <2>2. Goto(p, "scan", l)
    BY <1>8
  <2> HIDE DEF l
  <2>3. /\ pc'[p] = "scan" /\ loc'[p] = l
        /\ \A q \in Procs \ {p} : loc'[q] = loc[q] /\ pc'[q] = pc[q]
        /\ UNCHANGED <<kmap, status, bits, pte, pde, kreg, heap, panic, lock, used>>
    BY <1>8, <2>2, After
  <2>4. FrameOK(p)'
    BY <1>1, <1>2, <1>8, <2>1, <2>3 DEF FrameOK, Allocating
  <2>5. MappedUsed'
    BY <1>1, <1>2, <2>3 DEF MappedUsed
  <2>6. "scan" \in Allocating
    BY DEF Allocating
  <2> QED BY <1>2, <1>3, <1>8, <2>1, <2>2, <2>3, <2>4, <2>5, <2>6, InsideInv
<1> QED BY <1>1, <1>6, <1>7, <1>8

\* The rest of page_table_add: the new page table holds the one page, and no page
\* of the address space was in that table before.
LEMMA PageTableInstall ==
  ASSUME MemInv, NEW p \in Procs, page_table_install(p)
  PROVE  MemInv'
<1> DEFINE s == loc[p].view
           v == loc[p].v
           f == loc[p].page
           row == [u \in UVirt |-> CASE u = v -> f
                                     [] u # v /\ PDE_IDX(u) = PDE_IDX(v) -> NoFrame
                                     [] OTHER -> pte[s][u]]
<1>1. /\ pc[p] = "install" /\ pde' = [pde EXCEPT ![s][PDE_IDX(v)] = loc[p].frame]
      /\ NextPage(p, "scan") /\ UNCHANGED <<used, kmap, status, bits, kreg, heap, lock, panic>>
  BY DEF page_table_install
<1>2. pte \in [Procs -> [UVirt -> UFrames \cup {NoFrame}]]
      /\ pde \in [Procs -> [Tables -> KFrames \cup {NoFrame}]]
  BY DEF MemInv, TypeOK
<1>3. pc[p] \in Allocating
  BY <1>1 DEF Allocating
<1>4. s \in Procs /\ v \in UVirt /\ PDE_IDX(v) \in Tables /\ (loc[p].call # "fork" => s = p)
  BY <1>3, ViewFacts
<1>5. pte' = [pte EXCEPT ![s] = row]
  BY <1>2, <1>4 DEF page_table_install
<1>6. FrameOK(p) /\ f \in UFrames \cup {NoFrame}
  <2>1. FrameOK(p) /\ loc[p] \in Locals
    BY Before
  <2> QED BY <2>1 DEF Locals
<1>7. loc[p].frame \in KFrames /\ loc[p].frame # NoFrame /\ pde[s][PDE_IDX(v)] = NoFrame
  BY <1>1, <1>3, <1>6, FrameFacts DEF FrameOK
<1>8. \A u \in UVirt : PDE_IDX(u) = PDE_IDX(v) => pte[s][u] = NoFrame
  <2>1. TablesOK(s)
    BY <1>4, Before
  <2> QED BY <1>7, <2>1 DEF TablesOK
<1>9. pte[s][v] = NoFrame /\ \A u \in UVirt : row[u] = IF u = v THEN f ELSE pte[s][u]
  BY <1>4, <1>8
<1>10. row \in [UVirt -> UFrames \cup {NoFrame}]
  BY <1>2, <1>4, <1>6
<1> HIDE DEF row
<1>11. Entered(s, v, f)
  BY <1>2, <1>4, <1>5, <1>9, <1>10 DEF Entered
<1>12. TableThere(s, v)
  <2>1. \A u \in UVirt : PDE_IDX(u) \in Tables
    BY DEF Tables
  <2> DEFINE t == PDE_IDX(v)
             g == loc[p].frame
  <2>2. t \in Tables /\ g \in KFrames /\ g # NoFrame /\ pde' = [pde EXCEPT ![s][t] = g]
    BY <1>1, <1>4, <1>7
  <2> HIDE DEF t, g, s, v
  <2>3. /\ pde' \in [Procs -> [Tables -> KFrames \cup {NoFrame}]]
        /\ \A q \in Procs \ {s} : pde'[q] = pde[q]
        /\ pde'[s][t] = g /\ \A u \in Tables \ {t} : pde'[s][u] = pde[s][u]
    BY <1>2, <1>4, <2>2
  <2> QED BY <2>1, <2>2, <2>3 DEF t, TableThere
<1>13. CASE loc[p].call = "fork"
  <2>1. s = loc[p].child
    BY <1>3, <1>9, <1>13, ForkFacts
  <2>2. PICK c \in Procs, u \in UVirt : c = s /\ u = v
    BY <1>4
  <2>3. c = loc[p].child /\ c = loc[p].view /\ u = loc[p].v
    BY <2>1, <2>2
  <2>4. pte[c][u] = NoFrame /\ Entered(c, u, loc[p].page) /\ TableThere(c, u)
    BY <1>9, <1>11, <1>12, <2>2
  <2> HIDE DEF s, v, f
  <2> QED BY <1>1, <1>13, <2>2, <2>3, <2>4, MapChild
<1>14. CASE loc[p].call # "fork"
  <2>1. s = p
    BY <1>4, <1>14
  <2> QED BY <1>1, <1>4, <1>9, <1>11, <1>12, <1>14, <2>1, MapOwn
<1> QED BY <1>13, <1>14

-----------------------------------------------------------------------------
(* Steps of the holder of the lock that change its own address space *)

\* Such a step keeps the invariant if it keeps the part of the holder.
LEMMA OwnInv ==
  ASSUME MemInv, NEW p \in Procs, pc[p] \in Held, TypeOK', LocalsOK',
         \A q \in Procs \ {p} : Kept(q), status' = status,
         \A q \in Procs \ {p} : lock' # q,
         loc'[p].call = "fork" => loc[p].call = "fork" /\ loc'[p].child = loc[p].child,
         FramesApart', MappedUsed', ProcessOK(p)'
  PROVE  MemInv'
<1>1. LockOK(p) /\ ChildrenApart
  BY Before DEF MemInv
<1>2. lock = p /\ status[p] = "live"
  BY <1>1 DEF LockOK, Held, Allocating, Freeing
<1>3. ChildrenApart'
  BY <1>1 DEF ChildrenApart, Kept
<1>4. ASSUME NEW q \in Procs \ {p} PROVE ProcessOK(q)'
  <2>1. Kept(q) /\ (lock' = q <=> lock = q)
    BY <1>2
  <2>2. LockOK(q) /\ ForkOK(q)
    BY Before
  <2>3. pc'[q] \notin Held
    BY <1>2, <2>1, <2>2 DEF LockOK, Kept
  <2>4. FrameOK(q)'
    BY <2>3, FrameNone
  <2>5. loc[q].call = "fork" => loc[q].child \in Procs \ {p}
    BY <1>2, <2>2 DEF ForkOK
  <2>6. loc[q].call = "fork" => Kept(loc[q].child)
    BY <2>5
  <2>7. loc[q].call = "fork" => /\ status'[loc[q].child] = status[loc[q].child]
                                /\ bits'[loc[q].child] = bits[loc[q].child]
                                /\ pte'[loc[q].child] = pte[loc[q].child]
    BY <2>6 DEF Kept
  <2> QED BY <2>1, <2>4, <2>7, KeptInv
<1> QED BY <1>3, <1>4 DEF MemInv

\* vaddr_get and get_a_page mark pages that were not marked, and go on to map them.
LEMMA MarkInv ==
  ASSUME MemInv, NEW p \in Procs, pc[p] \in {"vaddr_get", "vaddr_set"}, NEW l \in Locals,
         Goto(p, "scan", l), l.call = loc[p].call, l.view = loc[p].view, l.child = loc[p].child,
         l.buf = loc[p].buf, l.pf = loc[p].pf, l.n > 0, l.v = l.at,
         l.at..(l.at + l.n - 1) \subseteq UVirt \ bits[p],
         bits' = [bits EXCEPT ![p] = bits[p] \cup l.at..(l.at + l.n - 1)],
         UNCHANGED <<used, kmap, status, pte, pde, kreg, heap, lock, panic>>
  PROVE  MemInv'
<1> DEFINE R == l.at..(l.at + l.n - 1)
<1>1. /\ LockOK(p) /\ CallOK(p) /\ SpaceOK(p) /\ HeapOK(p) /\ ArgOK(p) /\ TablesOK(p)
      /\ MappedUsed /\ FramesApart /\ TypeOK /\ LocalsOK
  BY Before DEF MemInv
<1>2. lock = p /\ status[p] = "live" /\ loc[p].call \in {"malloc", "get_a_page"} /\ l.pf = "user"
  BY <1>1 DEF LockOK, CallOK, Held, Allocating, Freeing
<1>3. Mapped(p) = bits[p] /\ Mapped(p)' = Mapped(p)
  BY <1>1, <1>2 DEF SpaceOK, Mapped, Allocating, Freeing
<1>4. /\ pc'[p] = "scan" /\ loc'[p] = l /\ \A q \in Procs \ {p} : loc'[q] = loc[q] /\ pc'[q] = pc[q]
  BY <1>1 DEF Goto, LocalsOK
<1>5. bits'[p] = bits[p] \cup R /\ \A q \in Procs \ {p} : bits'[q] = bits[q]
  BY <1>1 DEF TypeOK
<1>6. \A q \in Procs \ {p} : Kept(q)
  BY <1>4, <1>5 DEF Kept
<1>7. bits[p] \subseteq UVirt
  BY <1>1 DEF TypeOK
<1>8. TypeOK'
  BY <1>1, <1>7 DEF TypeOK
<1>9. LocalsOK'
  <2>1. "scan" \in Labels
    BY DEF Labels, Held, Allocating
  <2> QED BY <1>1, <2>1 DEF LocalsOK, Goto
<1>10. FramesApart' /\ MappedUsed'
  BY <1>1, <1>4 DEF FramesApart, MappedUsed
<1>11. Block(p)' = R /\ Rest(p)' = R
  BY <1>4 DEF Block, Rest
<1>12. l.at \in Nat /\ l.n \in Nat /\ l.v \in R
  BY DEF Locals
<1>13. STACK3 \in bits[p]
  BY <1>1, <1>2 DEF HeapOK
<1> HIDE DEF R
<1>14. R \cap bits[p] = {} /\ STACK3 \notin R
  BY <1>13 DEF R
<1>15. LockOK(p)' /\ CallOK(p)'
  BY <1>1, <1>2, <1>4 DEF LockOK, CallOK, Held, Allocating, Freeing
<1>16. SpaceOK(p)'
  BY <1>2, <1>3, <1>4, <1>5, <1>11, <1>12, <1>14 DEF SpaceOK, Allocating, Freeing
<1>17. HeapOK(p)'
  <2>1. ASSUME NEW b \in heap[p]
        PROVE  b.n > 0 /\ Run(b) \subseteq bits[p] \ {STACK3}
    BY <1>1, <1>2 DEF HeapOK
  <2>2. \A b \in heap[p] : b.n > 0 /\ Run(b) \subseteq bits'[p] \ {STACK3} /\ Run(b) \cap R = {}
    BY <1>5, <1>14, <2>1
  <2>3. \A b, d \in heap[p] : b = d \/ Run(b) \cap Run(d) = {}
    BY <1>1, <1>2 DEF HeapOK
  <2> QED BY <1>4, <1>5, <1>11, <1>13, <1>14, <2>2, <2>3 DEF HeapOK
<1>18. ArgOK(p)' /\ ForkOK(p)'
  BY <1>1, <1>2, <1>4 DEF ArgOK, ForkOK, Freeing
<1>19. FrameOK(p)'
  BY <1>2, <1>4 DEF FrameOK
<1>20. TablesOK(p)'
  BY <1>1, <1>2, <1>3, <1>4 DEF TablesOK
<1>21. ProcessOK(p)'
  BY <1>15, <1>16, <1>17, <1>18, <1>19, <1>20 DEF ProcessOK
<1>22. pc[p] \in Held /\ \A q \in Procs \ {p} : lock' # q
  BY <1>2 DEF Held
<1> QED BY <1>2, <1>4, <1>6, <1>8, <1>9, <1>10, <1>21, <1>22, OwnInv

\* get_a_page marks the page it was asked for.
LEMMA VaddrSet ==
  ASSUME MemInv, NEW p \in Procs, vaddr_set(p)
  PROVE  MemInv'
<1>1. /\ pc[p] = "vaddr_set" /\ Goto(p, "scan", loc[p])
      /\ bits' = [bits EXCEPT ![p] = bits[p] \cup {loc[p].v}]
      /\ UNCHANGED <<used, kmap, status, pte, pde, kreg, heap, lock, panic>>
  BY DEF vaddr_set
<1>2. loc[p] \in Locals /\ CallOK(p) /\ ArgOK(p)
  BY Before
<1>3. loc[p].v \in UVirt \ bits[p] /\ loc[p].at = loc[p].v /\ loc[p].n = 1 /\ loc[p].v \in Nat
  BY <1>1, <1>2 DEF CallOK, ArgOK, Locals
<1> DEFINE R == loc[p].at..(loc[p].at + loc[p].n - 1)
           v == loc[p].v
<1>4. R = {v}
  BY <1>3
<1>5. bits' = [bits EXCEPT ![p] = bits[p] \cup {v}] /\ v \in UVirt \ bits[p]
  BY <1>1, <1>3
<1>6. /\ loc[p].n > 0 /\ loc[p].v = loc[p].at /\ pc[p] \in {"vaddr_get", "vaddr_set"}
  BY <1>1, <1>3
<1> HIDE DEF R, v
<1>7. R \subseteq UVirt \ bits[p] /\ bits' = [bits EXCEPT ![p] = bits[p] \cup R]
  BY <1>4, <1>5
<1> QED BY <1>1, <1>2, <1>6, <1>7, MarkInv DEF R

\* vaddr_get never gives out the page past the end of the bitmap, which the loop of
\* bitmap_scan looks at: the page of the stack, the last one, is always marked.
LEMMA VaddrGet ==
  ASSUME MemInv, NEW p \in Procs, vaddr_get(p)
  PROVE  MemInv'
<1> DEFINE n == loc[p].n
           at == bitmap_scan(bits[p], UPages, n)
<1>1. /\ pc[p] = "vaddr_get"
      /\ \/ Panic("full")
         \/ /\ Goto(p, "unlock", [loc[p] EXCEPT !.call = "failed"])
            /\ UNCHANGED <<used, kmap, spaces, lock, panic>>
         \/ /\ ~BitmapFull(bits[p], UPages) /\ at # -1
            /\ bits' = [bits EXCEPT ![p] = bits[p] \cup at..(at + n - 1)]
            /\ Goto(p, "scan", [loc[p] EXCEPT !.at = at, !.v = at])
            /\ UNCHANGED <<used, kmap, status, pte, pde, kreg, heap, lock, panic>>
  BY DEF vaddr_get
<1>2. /\ loc[p] \in Locals /\ LockOK(p) /\ CallOK(p) /\ SpaceOK(p) /\ HeapOK(p) /\ ArgOK(p)
      /\ TablesOK(p) /\ MappedUsed /\ used \in SUBSET Frames /\ lock \in Procs \cup {None}
  BY Before DEF MemInv, TypeOK
<1>3. /\ lock = p /\ status[p] = "live" /\ loc[p].call = "malloc" /\ n > 0 /\ n \in Nat
      /\ STACK3 \in bits[p]
  BY <1>1, <1>2 DEF LockOK, CallOK, ArgOK, HeapOK, Held, Locals
<1>4. CASE Panic("full")
  BY <1>4, PanicInv
<1>5. CASE /\ Goto(p, "unlock", [loc[p] EXCEPT !.call = "failed"])
           /\ UNCHANGED <<used, kmap, spaces, lock, panic>>
  <2> DEFINE l == [loc[p] EXCEPT !.call = "failed"]
  <2>1. /\ l \in Locals /\ l.call = "failed" /\ l.view = loc[p].view /\ l.buf = loc[p].buf
    BY <1>2 DEF Locals
  <2>2. Goto(p, "unlock", l)
    BY <1>5
  <2> HIDE DEF l
  <2>3. /\ pc'[p] = "unlock" /\ loc'[p] = l /\ Mapped(p)' = Mapped(p)
        /\ \A q \in Procs \ {p} : loc'[q] = loc[q] /\ pc'[q] = pc[q]
        /\ UNCHANGED <<kmap, status, bits, pte, pde, kreg, heap, panic, lock, used>>
    BY <1>5, <2>2, After
  <2>4. LockOK(p)' /\ CallOK(p)'
    BY <1>1, <1>2, <1>3, <2>1, <2>3 DEF LockOK, CallOK, Held, Allocating, Freeing
  <2>5. SpaceOK(p)' /\ HeapOK(p)'
    BY <1>1, <1>2, <1>3, <2>1, <2>3 DEF SpaceOK, HeapOK, Allocating, Freeing
  <2>6. ArgOK(p)' /\ ForkOK(p)' /\ FrameOK(p)'
    BY <2>1, <2>3 DEF ArgOK, ForkOK, FrameOK, Allocating, Freeing
  <2>7. TablesOK(p)'
    BY <1>2, <2>1, <2>3 DEF TablesOK
  <2>8. ProcessOK(p)'
    BY <2>4, <2>5, <2>6, <2>7 DEF ProcessOK
  <2>9. MappedUsed'
    BY <1>1, <1>2, <2>3 DEF MappedUsed
  <2>10. "unlock" \in Labels
    BY DEF Labels, Held
  <2> QED BY <1>2, <1>5, <2>1, <2>2, <2>3, <2>8, <2>9, <2>10, MoveInv
<1>6. CASE /\ ~BitmapFull(bits[p], UPages) /\ at # -1
           /\ bits' = [bits EXCEPT ![p] = bits[p] \cup at..(at + n - 1)]
           /\ Goto(p, "scan", [loc[p] EXCEPT !.at = at, !.v = at])
           /\ UNCHANGED <<used, kmap, status, pte, pde, kreg, heap, lock, panic>>
  <2>1. UPages \in Nat \ {0} /\ n \in Nat \ {0}
    BY <1>3
  <2>2. /\ at \in Nat /\ at + n - 1 <= UPages /\ at <= UPages - 1
        /\ \A v \in at..(at + n - 1) : v \notin bits[p]
    <3> HIDE DEF n
    <3> QED BY <1>6, <2>1, ScanFacts
  <2> DEFINE l == [loc[p] EXCEPT !.at = at, !.v = at]
  <2>3. Goto(p, "scan", l)
    BY <1>6
  <2> HIDE DEF at
  <2>4. /\ l \in Locals /\ l.call = loc[p].call /\ l.view = loc[p].view /\ l.child = loc[p].child
        /\ l.buf = loc[p].buf /\ l.pf = loc[p].pf /\ l.n = n /\ l.at = at /\ l.v = at
    BY <1>2, <2>2 DEF Locals
  <2>5. at..(at + n - 1) \subseteq UVirt \ bits[p]
    <3>1. STACK3 \notin at..(at + n - 1)
      BY <1>3, <2>2
    <3>2. at + n - 1 < UPages
      BY <2>1, <2>2, <3>1 DEF STACK3
    <3> QED BY <2>1, <2>2, <3>2 DEF UVirt
  <2> HIDE DEF l
  <2> QED BY <1>1, <1>3, <1>6, <2>3, <2>4, <2>5, MarkInv
<1> QED BY <1>1, <1>4, <1>5, <1>6

\* page_table_pte_remove unmaps the page; with the last page of the block go its
\* marks and the block itself, and the other blocks keep theirs.
LEMMA PteRemove ==
  ASSUME MemInv, NEW p \in Procs, page_table_pte_remove(p)
  PROVE  MemInv'
<1> DEFINE b == [at |-> loc[p].at, n |-> loc[p].n]
           v == loc[p].v
           last == v = b.at + b.n - 1
<1>1. /\ pc[p] = "pte_remove" /\ pte' = [pte EXCEPT ![p][v] = NoFrame]
      /\ bits' = [bits EXCEPT ![p] = IF last THEN bits[p] \ Run(b) ELSE bits[p]]
      /\ heap' = [heap EXCEPT ![p] = IF last THEN heap[p] \ {b} ELSE heap[p]]
      /\ NextPage(p, "pfree") /\ UNCHANGED <<used, kmap, status, pde, kreg, lock, panic>>
  BY DEF page_table_pte_remove
<1>2. /\ loc[p] \in Locals /\ LockOK(p) /\ CallOK(p) /\ SpaceOK(p) /\ HeapOK(p)
      /\ TablesOK(p) /\ MappedUsed /\ FramesApart /\ TypeOK
  BY Before DEF MemInv
<1>3. pc[p] \in Freeing /\ pc[p] \in Held /\ loc[p].call = "free"
  BY <1>1, <1>2 DEF CallOK, Freeing, Held
<1>4. /\ lock = p /\ status[p] = "live" /\ v \in UVirt /\ b \in heap[p]
      /\ Block(p) \subseteq bits[p] \ {STACK3} /\ v \in Block(p) /\ v \in Mapped(p)
  BY <1>3, FreeingFacts
<1>5. Mapped(p) = bits[p] \ (Block(p) \ Rest(p)) /\ Run(b) = Block(p)
  BY <1>2, <1>3 DEF SpaceOK, Run, Block
<1>6. loc[p].v \in Nat /\ loc[p].at \in Nat /\ loc[p].n \in Nat
  BY <1>2 DEF Locals
<1>7. /\ bits'[p] = (IF last THEN bits[p] \ Block(p) ELSE bits[p])
      /\ heap'[p] = (IF last THEN heap[p] \ {b} ELSE heap[p])
      /\ \A q \in Procs \ {p} : bits'[q] = bits[q] /\ heap'[q] = heap[q] /\ pte'[q] = pte[q]
  BY <1>1, <1>2, <1>5 DEF TypeOK
<1>8. /\ pte' \in [Procs -> [UVirt -> UFrames \cup {NoFrame}]]
      /\ \A q \in Procs, u \in UVirt : pte'[q][u] = IF q = p /\ u = v THEN NoFrame ELSE pte[q][u]
  BY <1>1, <1>2, <1>4 DEF TypeOK
<1>9. TypeOK'
  <2>1. bits'[p] \subseteq UVirt /\ heap'[p] \subseteq Region
    BY <1>2, <1>7 DEF TypeOK
  <2>2. bits' \in [Procs -> SUBSET UVirt] /\ heap' \in [Procs -> SUBSET Region]
    BY <1>1, <1>2, <1>7, <2>1 DEF TypeOK
  <2> QED BY <1>1, <1>2, <1>8, <2>2 DEF TypeOK
<1> DEFINE l == [loc[p] EXCEPT !.v = @ + 1, !.pf = "user"]
<1>10. /\ l.call = loc[p].call /\ l.view = loc[p].view /\ l.at = loc[p].at
       /\ l.n = loc[p].n /\ l.v = loc[p].v + 1 /\ l.child = loc[p].child
       /\ l.buf = loc[p].buf
       /\ \A q \in Procs \ {p} : loc'[q] = loc[q] /\ pc'[q] = pc[q]
       /\ \/ /\ loc[p].v + 1 < loc[p].at + loc[p].n
             /\ pc'[p] = "pfree" /\ loc'[p] = l
          \/ /\ ~(loc[p].v + 1 < loc[p].at + loc[p].n)
             /\ pc'[p] = "unlock" /\ loc'[p] = loc[p]
       /\ LocalsOK'
  <2>1. "pfree" \in Labels
    BY DEF Labels, Held, Freeing
  <2> QED BY <1>1, <2>1, NextPageFacts
<1> HIDE DEF l
<1>11. /\ loc'[p].call = "free" /\ loc'[p].view = loc[p].view /\ loc'[p].at = loc[p].at
       /\ loc'[p].n = loc[p].n /\ loc'[p].child = loc[p].child /\ loc'[p].buf = loc[p].buf
       /\ pc'[p] \in {"pfree", "unlock"}
  BY <1>3, <1>10
<1>12. \A q \in Procs \ {p} : Kept(q)
  BY <1>1, <1>7, <1>10 DEF Kept
<1>13. FramesApart' /\ MappedUsed'
  <2>1. FramesApart'
    BY <1>2, <1>8 DEF FramesApart
  <2>2. NoFrame \notin UFrames
    BY FrameFacts
  <2>3. \A q \in Procs \ {p} : pc[q] # "pte_remove"
    BY <1>4 DEF MemInv, ProcessOK, LockOK, Held, Freeing
  <2>4. MappedUsed'
    BY <1>1, <1>2, <1>8, <1>10, <2>2, <2>3 DEF MappedUsed
  <2> QED BY <2>1, <2>4
<1>14. Mapped(p)' = Mapped(p) \ {v}
  BY <1>8 DEF Mapped
<1>15. /\ STACK3 \in bits[p] /\ STACK3 \in bits'[p]
       /\ \A d \in heap[p] : d.n > 0 /\ Run(d) \subseteq bits[p] \ {STACK3}
       /\ \A d, e \in heap[p] : d = e \/ Run(d) \cap Run(e) = {}
  BY <1>2, <1>4, <1>7 DEF HeapOK
<1>16. LockOK(p)' /\ CallOK(p)'
  BY <1>1, <1>2, <1>3, <1>4, <1>11 DEF LockOK, CallOK, Held, Allocating, Freeing
<1>17. /\ v \in Rest(p)
       /\ (v + 1)..(loc[p].at + loc[p].n - 1) = Rest(p) \ {v}
       /\ v + 1 < loc[p].at + loc[p].n => v + 1 \in Block(p)
       /\ ~(v + 1 < loc[p].at + loc[p].n) => Rest(p) = {v} /\ last
       /\ v + 1 < loc[p].at + loc[p].n => ~last
  <2>1. v \in loc[p].at..(loc[p].at + loc[p].n - 1)
    BY <1>4 DEF Block
  <2>2. /\ v \in v..(loc[p].at + loc[p].n - 1)
        /\ (v + 1)..(loc[p].at + loc[p].n - 1) = (v..(loc[p].at + loc[p].n - 1)) \ {v}
        /\ v + 1 < loc[p].at + loc[p].n => v + 1 \in loc[p].at..(loc[p].at + loc[p].n - 1)
        /\ ~(v + 1 < loc[p].at + loc[p].n) =>
              v..(loc[p].at + loc[p].n - 1) = {v} /\ v = loc[p].at + loc[p].n - 1
    BY <1>6, <2>1, RunFacts
  <2> QED BY <1>6, <2>2 DEF Block, Rest
<1>18. Block(p)' = Block(p)
  BY <1>11 DEF Block
<1> HIDE DEF v, b
<1>19. SpaceOK(p)' /\ ArgOK(p)'
  <2>1. CASE pc'[p] = "pfree"
    <3>1. loc'[p].v = v + 1 /\ v + 1 < loc[p].at + loc[p].n
      BY <1>10, <2>1 DEF v
    <3>2. Rest(p)' = Rest(p) \ {v} /\ loc'[p].v \in Block(p)' /\ ~last
      BY <1>11, <1>17, <1>18, <3>1 DEF Rest
    <3>3. Mapped(p)' = bits'[p] \ (Block(p)' \ Rest(p)')
      BY <1>4, <1>5, <1>7, <1>14, <1>17, <1>18, <3>2
    <3>4. SpaceOK(p)'
      BY <1>11, <2>1, <3>2, <3>3 DEF SpaceOK, Allocating, Freeing
    <3>5. ArgOK(p)'
      BY <1>4, <1>7, <1>11, <2>1, <3>2 DEF ArgOK, Freeing, b
    <3> QED BY <3>4, <3>5
  <2>2. CASE pc'[p] = "unlock"
    <3>1. Rest(p) = {v} /\ last
      BY <1>10, <1>17, <2>2 DEF v
    <3>2. Mapped(p)' = bits'[p]
      BY <1>4, <1>5, <1>7, <1>14, <3>1
    <3> QED BY <1>11, <2>2, <3>2 DEF SpaceOK, ArgOK, Allocating, Freeing
  <2> QED BY <1>11, <2>1, <2>2
<1>20. HeapOK(p)'
  <2>1. ASSUME NEW d \in heap'[p]
        PROVE  d.n > 0 /\ Run(d) \subseteq bits'[p] \ {STACK3}
    <3>1. d \in heap[p]
      BY <1>7
    <3>2. last => Run(d) \cap Block(p) = {}
      BY <1>4, <1>5, <1>7, <1>15, <3>1
    <3> QED BY <1>7, <1>15, <3>1, <3>2
  <2>2. \A d, e \in heap'[p] : d = e \/ Run(d) \cap Run(e) = {}
    BY <1>7, <1>15
  <2> QED BY <1>11, <1>15, <2>1, <2>2 DEF HeapOK
<1>21. ForkOK(p)' /\ FrameOK(p)'
  BY <1>11 DEF ForkOK, FrameOK, Allocating
<1>22. TablesOK(p)'
  BY <1>1, <1>2, <1>4, <1>8, <1>11 DEF TablesOK
<1>23. ProcessOK(p)'
  BY <1>16, <1>19, <1>20, <1>21, <1>22 DEF ProcessOK
<1>24. status' = status /\ \A q \in Procs \ {p} : lock' # q
  BY <1>1, <1>4
<1> QED BY <1>3, <1>9, <1>10, <1>11, <1>12, <1>13, <1>23, <1>24, OwnInv

\* lock_release gives sys_malloc its block, which is marked, mapped and apart from
\* the other blocks; a fork has one page less to copy.
LEMMA LockRelease ==
  ASSUME MemInv, NEW p \in Procs, lock_release(p)
  PROVE  MemInv'
<1> DEFINE b == [at |-> loc[p].at, n |-> loc[p].n]
           m == [loc[p] EXCEPT !.view = p, !.todo = loc[p].todo \ {loc[p].v}]
           l == IF loc[p].call = "fork" THEN m ELSE Idle
           label == IF loc[p].call = "fork" THEN "copy" ELSE "user"
           H == IF loc[p].call = "malloc" THEN heap[p] \cup {b} ELSE heap[p]
<1>1. /\ pc[p] = "unlock" /\ lock' = None /\ Goto(p, label, l)
      /\ heap' = [heap EXCEPT ![p] = H]
      /\ UNCHANGED <<used, kmap, status, bits, pte, pde, kreg, panic>>
  BY DEF lock_release
<1>2. /\ loc[p] \in Locals /\ LockOK(p) /\ CallOK(p) /\ SpaceOK(p) /\ HeapOK(p) /\ ForkOK(p)
      /\ TablesOK(p) /\ MappedUsed /\ FramesApart /\ TypeOK /\ LocalsOK
  BY Before DEF MemInv
<1>3. pc[p] \in Held /\ lock = p /\ status[p] = "live"
  BY <1>1, <1>2 DEF LockOK, Held
<1>4. /\ m \in Locals /\ m.call = loc[p].call /\ m.view = p /\ m.child = loc[p].child
      /\ m.todo = loc[p].todo \ {loc[p].v} /\ m.buf = loc[p].buf
  <2> DEFINE T == loc[p].todo \ {loc[p].v}
  <2>1. T \in SUBSET UVirt
    BY <1>2 DEF Locals
  <2> HIDE DEF T
  <2>2. /\ [loc[p] EXCEPT !.view = p, !.todo = T] \in Locals
        /\ [loc[p] EXCEPT !.view = p, !.todo = T].call = loc[p].call
        /\ [loc[p] EXCEPT !.view = p, !.todo = T].view = p
        /\ [loc[p] EXCEPT !.view = p, !.todo = T].child = loc[p].child
        /\ [loc[p] EXCEPT !.view = p, !.todo = T].todo = T
        /\ [loc[p] EXCEPT !.view = p, !.todo = T].buf = loc[p].buf
    BY <1>2, <2>1 DEF Locals
  <2> QED BY <2>2 DEF T
<1>5. H \subseteq Region /\ b \in Region
  BY <1>2 DEF TypeOK, Locals, Region
<1> HIDE DEF m, H
<1>6. l \in Locals /\ label \in Labels /\ label \notin Held
  BY <1>4, IdleFacts DEF Labels, Held, Allocating, Freeing
<1>7. /\ pc'[p] = label /\ loc'[p] = l /\ heap'[p] = H
      /\ \A q \in Procs \ {p} : loc'[q] = loc[q] /\ pc'[q] = pc[q] /\ heap'[q] = heap[q]
  BY <1>1, <1>2 DEF Goto, LocalsOK, TypeOK
<1>8. TypeOK'
  BY <1>1, <1>2, <1>5 DEF TypeOK
<1>9. LocalsOK'
  <2> HIDE DEF l, label
  <2> QED BY <1>1, <1>2, <1>6 DEF LocalsOK, Goto
<1>10. \A q \in Procs \ {p} : Kept(q)
  BY <1>1, <1>7 DEF Kept
<1>11. FramesApart' /\ MappedUsed'
  BY <1>1, <1>2, <1>7 DEF FramesApart, MappedUsed
<1>12. \A c \in Procs : Mapped(c)' = Mapped(c)
  BY <1>1 DEF Mapped
<1>13. Mapped(p) = bits[p]
  BY <1>1, <1>2, <1>3 DEF SpaceOK, Allocating, Freeing
<1>14. LockOK(p)'
  BY <1>1, <1>3, <1>6, <1>7, MemoryAssumption DEF LockOK
<1>15. CallOK(p)'
  BY <1>4, <1>7 DEF CallOK, Allocating, Freeing
<1>16. SpaceOK(p)'
  BY <1>1, <1>7, <1>12, <1>13 DEF SpaceOK, Allocating, Freeing
<1>17. HeapOK(p)'
  <2>1. /\ STACK3 \in bits[p]
        /\ \A d \in heap[p] : d.n > 0 /\ Run(d) \subseteq bits[p] \ {STACK3}
        /\ \A d, e \in heap[p] : d = e \/ Run(d) \cap Run(e) = {}
    BY <1>2, <1>3 DEF HeapOK
  <2>2. CASE loc[p].call = "malloc"
    <3>1. b.n > 0 /\ Run(b) = Block(p)
      BY <1>1, <1>2, <2>2 DEF HeapOK, Run, Block
    <3>2. Run(b) \subseteq bits[p] \ {STACK3} /\ \A d \in heap[p] : Run(d) \cap Run(b) = {}
      BY <1>1, <1>2, <2>2, <3>1 DEF HeapOK
    <3>3. H = heap[p] \cup {b}
      BY <2>2 DEF H
    <3> HIDE DEF b
    <3>4. /\ \A d \in H : d.n > 0 /\ Run(d) \subseteq bits[p] \ {STACK3}
          /\ \A d, e \in H : d = e \/ Run(d) \cap Run(e) = {}
      BY <2>1, <3>1, <3>2, <3>3
    <3> QED BY <1>1, <1>7, <2>1, <3>4 DEF HeapOK, Allocating
  <2>3. CASE loc[p].call # "malloc"
    <3>1. H = heap[p]
      BY <2>3 DEF H
    <3> QED BY <1>1, <1>7, <2>1, <3>1 DEF HeapOK, Allocating
  <2> QED BY <2>2, <2>3
<1>18. ArgOK(p)'
  BY <1>4, <1>7, IdleFacts DEF ArgOK, Freeing
<1>19. ForkOK(p)'
  <2>1. CASE loc[p].call = "fork"
    <3>1. /\ loc[p].child \in Procs /\ status[loc[p].child] = "fork"
          /\ bits[loc[p].child] = bits[p] /\ loc[p].todo \subseteq bits[p]
          /\ Mapped(loc[p].child) = bits[loc[p].child] \ (loc[p].todo \ {loc[p].v})
      BY <1>1, <1>2, <2>1 DEF ForkOK
    <3> QED BY <1>1, <1>4, <1>7, <1>12, <2>1, <3>1 DEF ForkOK
  <2>2. CASE loc[p].call # "fork"
    BY <1>7, <2>2, IdleFacts DEF ForkOK
  <2> QED BY <2>1, <2>2
<1>20. FrameOK(p)'
  BY <1>6, <1>7, FrameNone
<1>21. TablesOK(p)'
  <2>1. Run(l.buf) \subseteq KVirt
    BY <1>2, <1>4, IdleFacts DEF TablesOK
  <2> QED BY <1>1, <1>2, <1>7, <1>12, <2>1 DEF TablesOK
<1>22. ProcessOK(p)'
  BY <1>14, <1>15, <1>16, <1>17, <1>18, <1>19, <1>20, <1>21 DEF ProcessOK
<1>23. /\ loc'[p].call = "fork" => loc[p].call = "fork" /\ loc'[p].child = loc[p].child
       /\ status' = status /\ \A q \in Procs \ {p} : lock' # q
  BY <1>1, <1>4, <1>7, IdleFacts
<1> QED BY <1>3, <1>8, <1>9, <1>10, <1>11, <1>22, <1>23, OwnInv

-----------------------------------------------------------------------------
(* fork *)

\* copy_body_stack3 begins with the next page of the parent, which the child does
\* not have.
LEMMA CopyPage ==
  ASSUME MemInv, NEW p \in Procs, copy_page(p)
  PROVE  MemInv'
<1> DEFINE v == Min(loc[p].todo)
           c == loc[p].child
           l == [loc[p] EXCEPT !.view = c, !.at = v, !.v = v, !.n = 1, !.pf = "user"]
<1>1. /\ pc[p] = "copy" /\ loc[p].todo # {} /\ Goto(p, "lock", l)
      /\ UNCHANGED <<used, kmap, spaces, lock, panic>>
  BY DEF copy_page
<1>2. /\ loc[p] \in Locals /\ LockOK(p) /\ CallOK(p) /\ SpaceOK(p) /\ HeapOK(p) /\ ForkOK(p)
      /\ TablesOK(p) /\ MappedUsed /\ used \in SUBSET Frames /\ lock \in Procs \cup {None}
  BY Before DEF MemInv, TypeOK
<1>3. loc[p].call = "fork" /\ status[p] = "live"
  BY <1>1, <1>2 DEF CallOK, LockOK
<1>4. /\ c \in Procs /\ status[c] = "fork" /\ bits[c] = bits[p] /\ loc[p].todo \subseteq bits[p]
      /\ Mapped(c) = bits[c] \ loc[p].todo
  BY <1>1, <1>2, <1>3 DEF ForkOK
<1>5. v \in loc[p].todo /\ v \in Nat
  <2>1. loc[p].todo \in SUBSET UVirt
    BY <1>2 DEF Locals
  <2>2. loc[p].todo \in SUBSET Nat
    BY <2>1 DEF UVirt
  <2> QED BY <1>1, <2>2, MinFacts
<1> HIDE DEF v
<1>6. /\ l \in Locals /\ l.view = c /\ l.at = v /\ l.v = v /\ l.n = 1 /\ l.pf = "user"
      /\ l.call = "fork" /\ l.child = loc[p].child /\ l.todo = loc[p].todo /\ l.buf = loc[p].buf
  <2> HIDE DEF c
  <2> QED BY <1>2, <1>3, <1>4, <1>5 DEF Locals
<1> HIDE DEF l
<1>7. /\ pc'[p] = "lock" /\ loc'[p] = l /\ \A d \in Procs : Mapped(d)' = Mapped(d)
      /\ \A q \in Procs \ {p} : loc'[q] = loc[q] /\ pc'[q] = pc[q]
      /\ UNCHANGED <<kmap, status, bits, pte, pde, kreg, heap, panic, used, lock>>
  BY <1>1, After
<1>8. MappedUsed'
  BY <1>1, <1>2, <1>7 DEF MappedUsed
<1>9. LockOK(p)' /\ CallOK(p)'
  BY <1>1, <1>2, <1>3, <1>6, <1>7 DEF LockOK, CallOK, Held, Allocating, Freeing
<1>10. SpaceOK(p)' /\ HeapOK(p)'
  BY <1>1, <1>2, <1>6, <1>7 DEF SpaceOK, HeapOK, Allocating, Freeing
<1>11. ArgOK(p)'
  BY <1>6, <1>7 DEF ArgOK
<1>12. ForkOK(p)'
  BY <1>4, <1>5, <1>6, <1>7 DEF ForkOK
<1>13. FrameOK(p)'
  BY <1>7, FrameNone DEF Held, Allocating, Freeing
<1>14. TablesOK(p)'
  BY <1>2, <1>6, <1>7 DEF TablesOK
<1>15. ProcessOK(p)'
  BY <1>9, <1>10, <1>11, <1>12, <1>13, <1>14 DEF ProcessOK
<1>16. "lock" \in Labels
  BY DEF Labels
<1> QED BY <1>1, <1>2, <1>3, <1>6, <1>7, <1>8, <1>15, <1>16, MoveInv

\* fork, exit and wait change the slot of one process c with interrupts off, while
\* another process may be inside palloc or pfree: what that one knows stays true.
LEMMA OtherInv ==
  ASSUME MemInv, NEW c \in Procs, NEW q \in Procs \ {c}, Kept(q), lock' = lock,
         loc[q].call = "fork" => loc[q].child # c,
         \A r \in Procs \ {c} : /\ status'[r] = status[r] /\ bits'[r] = bits[r]
                                /\ pte'[r] = pte[r] /\ pde'[r] = pde[r],
         \A v \in UVirt : pte'[c][v] = pte[c][v] \/ pte'[c][v] = NoFrame,
         used' \cap UFrames \subseteq used,
         \A f \in UFrames \cap used : f \in used' \/ \E v \in UVirt : pte[c][v] = f
  PROVE  ProcessOK(q)'
<1>1. LockOK(q) /\ CallOK(q) /\ ForkOK(q)
  BY Before
<1>2. FrameOK(q)'
  <2>1. CASE pc[q] \notin Held
    <3>1. pc'[q] \notin Held
      BY <2>1 DEF Kept
    <3> QED BY <3>1, FrameNone
  <2>2. CASE pc[q] \in Held
    <3>1. pc[q] # "user" /\ pc[q] # "copy"
      BY <2>2 DEF Held, Allocating, Freeing
    <3>2. loc[q].view \in Procs \ {c}
      BY <1>1, <3>1 DEF CallOK, ForkOK
    <3>3. pde'[loc[q].view] = pde[loc[q].view]
      BY <3>2
    <3>4. \A r \in Procs, v \in UVirt : pte'[r][v] = pte[r][v] \/ pte'[r][v] = NoFrame
      OBVIOUS
    <3>5. \A f \in UFrames \cap used :
             f \in used' \/ \E r \in Procs, v \in UVirt : pte[r][v] = f
      OBVIOUS
    <3> QED BY <3>3, <3>4, <3>5, FrameKept
  <2> QED BY <2>1, <2>2
<1>3. loc[q].call = "fork" => loc[q].child \in Procs \ {c}
  BY <1>1 DEF ForkOK
<1>4. loc[q].call = "fork" => /\ status'[loc[q].child] = status[loc[q].child]
                              /\ bits'[loc[q].child] = bits[loc[q].child]
                              /\ pte'[loc[q].child] = pte[loc[q].child]
  BY <1>3
<1> QED BY <1>2, <1>4, KeptInv

\* The kernel's own pages are well formed.
LEMMA KernelState ==
  ASSUME TypeOK
  PROVE  /\ Kernel \in KPagesState /\ Kernel.used = used /\ Kernel.map = kmap
         /\ NoKernelPages \in [Roles -> Region]
<1>1. NoKernelPages \in [Roles -> Region]
  BY DEF NoKernelPages, NoRegion, Region
<1> QED BY <1>1 DEF Kernel, KPagesState, TypeOK, Frames

\* The end of fork: the child has every page of the parent and goes its own way.
LEMMA ForkDone ==
  ASSUME MemInv, NEW p \in Procs, fork_done(p)
  PROVE  MemInv'
<1> DEFINE k == mfree_kernel_pages(Kernel, loc[p].buf.at, loc[p].buf.n)
<1>1. /\ pc[p] = "copy" /\ loc[p].todo = {} /\ used' = k.used /\ kmap' = k.map
      /\ status' = [status EXCEPT ![loc[p].child] = "live"] /\ Goto(p, "user", Idle)
      /\ UNCHANGED <<bits, pte, pde, kreg, heap, lock, panic>>
  BY DEF fork_done
<1>2. /\ loc[p] \in Locals /\ LockOK(p) /\ CallOK(p) /\ SpaceOK(p) /\ HeapOK(p) /\ ForkOK(p)
      /\ TablesOK(p) /\ MappedUsed /\ FramesApart /\ ChildrenApart /\ TypeOK /\ LocalsOK
  BY Before DEF MemInv
<1>3. loc[p].call = "fork" /\ status[p] = "live"
  BY <1>1, <1>2 DEF CallOK, LockOK
<1>4. PICK c \in Procs \ {p} : c = loc[p].child /\ status[c] = "fork" /\ Mapped(c) = bits[c]
  BY <1>1, <1>2, <1>3 DEF ForkOK
<1>5. k \in KPagesState /\ k.used \cap UFrames = used \cap UFrames
  <2>1. Kernel \in KPagesState /\ Kernel.used = used
    BY <1>2, KernelState
  <2>2. \A v \in loc[p].buf.at..(loc[p].buf.at + loc[p].buf.n - 1) : v \in KVirt
    BY <1>2 DEF TablesOK, Run
  <2> QED BY <2>1, <2>2, FreeKernelPages
<1> HIDE DEF k
<1>6. /\ pc'[p] = "user" /\ loc'[p] = Idle /\ status'[c] = "live"
      /\ \A q \in Procs \ {p} : loc'[q] = loc[q] /\ pc'[q] = pc[q]
      /\ \A q \in Procs \ {c} : status'[q] = status[q]
  BY <1>1, <1>2, <1>4 DEF Goto, LocalsOK, TypeOK
<1>7. TypeOK'
  <2>1. used' \subseteq Frames /\ kmap' \in [KVirt -> KFrames \cup {NoFrame}]
    BY <1>1, <1>5 DEF KPagesState
  <2> QED BY <1>1, <1>2, <2>1 DEF TypeOK, Frames
<1>8. LocalsOK'
  <2>1. "user" \in Labels
    BY DEF Labels
  <2> QED BY <1>1, <1>2, <2>1, IdleFacts DEF LocalsOK, Goto
<1>9. ChildrenApart'
  BY <1>2, <1>6, IdleFacts DEF ChildrenApart
<1>10. FramesApart' /\ MappedUsed'
  BY <1>1, <1>2, <1>5, <1>6 DEF FramesApart, MappedUsed
<1>11. \A q \in Procs : Mapped(q)' = Mapped(q)
  BY <1>1 DEF Mapped
<1>12. ASSUME NEW q \in Procs \ {p, c} PROVE ProcessOK(q)'
  <2>1. Kept(q)
    BY <1>1, <1>6 DEF Kept
  <2>2. loc[q].call = "fork" => loc[q].child # c
    BY <1>2, <1>3, <1>4 DEF ChildrenApart
  <2>3. /\ \A r \in Procs \ {c} : /\ status'[r] = status[r] /\ bits'[r] = bits[r]
                                  /\ pte'[r] = pte[r] /\ pde'[r] = pde[r]
        /\ \A v \in UVirt : pte'[c][v] = pte[c][v]
        /\ used' \cap UFrames \subseteq used /\ \A f \in UFrames \cap used : f \in used'
        /\ lock' = lock /\ c \in Procs /\ q \in Procs \ {c}
    BY <1>1, <1>4, <1>5, <1>6
  <2> QED BY <2>1, <2>2, <2>3, OtherInv
<1>13. ProcessOK(p)'
  <2>1. Mapped(p) = bits[p] /\ pc[p] \notin Held
    BY <1>1, <1>2, <1>3 DEF SpaceOK, Held, Allocating, Freeing
  <2>2. status'[p] = "live" /\ lock # p
    BY <1>2, <1>3, <1>4, <1>6, <2>1 DEF LockOK
  <2>3. LockOK(p)' /\ CallOK(p)'
    BY <1>1, <1>6, <2>2 DEF LockOK, CallOK, Held, Allocating, Freeing
  <2>4. SpaceOK(p)'
    BY <1>1, <1>6, <1>11, <2>1 DEF SpaceOK, Allocating, Freeing
  <2>5. HeapOK(p)'
    BY <1>1, <1>2, <1>3, <1>6 DEF HeapOK, Allocating
  <2>6. ArgOK(p)' /\ ForkOK(p)' /\ FrameOK(p)'
    BY <1>6, IdleFacts DEF ArgOK, ForkOK, FrameOK, Allocating
  <2>7. TablesOK(p)'
    BY <1>1, <1>2, <1>3, <1>6, <1>11, <2>2, IdleFacts DEF TablesOK
  <2> QED BY <2>3, <2>4, <2>5, <2>6, <2>7 DEF ProcessOK
<1>14. ProcessOK(c)'
  <2>1. LockOK(c) /\ HeapOK(c) /\ TablesOK(c)
    BY <1>4, Before
  <2>2. pc[c] = "user" /\ loc[c] = Idle /\ lock # c
    BY <1>4, <2>1 DEF LockOK, Held, Allocating, Freeing
  <2>3. pc'[c] = "user" /\ loc'[c] = Idle /\ lock' # c /\ status'[c] = "live"
    BY <1>1, <1>4, <1>6, <2>2
  <2>4. LockOK(c)' /\ CallOK(c)'
    BY <2>3 DEF LockOK, CallOK, Held, Allocating, Freeing
  <2>5. SpaceOK(c)'
    BY <1>1, <1>4, <1>11, <2>3 DEF SpaceOK, Allocating, Freeing
  <2>6. HeapOK(c)'
    BY <1>1, <1>4, <2>1, <2>3 DEF HeapOK, Allocating
  <2>7. ArgOK(c)' /\ ForkOK(c)' /\ FrameOK(c)'
    BY <2>3, IdleFacts DEF ArgOK, ForkOK, FrameOK, Allocating
  <2>8. TablesOK(c)'
    BY <1>1, <1>4, <1>11, <2>1, <2>3, IdleFacts DEF TablesOK
  <2> QED BY <2>4, <2>5, <2>6, <2>7, <2>8 DEF ProcessOK
<1> QED BY <1>7, <1>8, <1>9, <1>10, <1>12, <1>13, <1>14 DEF MemInv

\* sys_fork: a child that does not exist yet gets kernel pages, and the marks and
\* the blocks of its parent; the frames of the user pool are not touched.
LEMMA SysFork ==
  ASSUME MemInv, NEW p \in Procs, NEW c \in Procs, sys_fork(p, c)
  PROVE  MemInv'
<1> DEFINE k == fork_pages(Kernel)
           R == [k.reg EXCEPT !["buf"] = NoRegion]
           l == [Idle EXCEPT !.call = "fork", !.view = p, !.child = c,
                             !.todo = bits[p], !.buf = k.reg["buf"]]
<1>1. /\ pc[p] = "user" /\ status[p] = "live" /\ status[c] = "none"
      /\ \/ Panic("full")
         \/ /\ used' = k.used /\ kmap' = k.map /\ UNCHANGED <<spaces, lock, pc, loc, panic>>
         \/ /\ k.err = "none" /\ used' = k.used /\ kmap' = k.map
            /\ status' = [status EXCEPT ![c] = "fork"]
            /\ bits' = [bits EXCEPT ![c] = bits[p]] /\ heap' = [heap EXCEPT ![c] = heap[p]]
            /\ kreg' = [kreg EXCEPT ![c] = R] /\ Goto(p, "copy", l)
            /\ UNCHANGED <<pte, pde, lock, panic>>
  BY DEF sys_fork
<1>2. /\ LockOK(p) /\ SpaceOK(p) /\ HeapOK(p) /\ TablesOK(p) /\ LockOK(c) /\ TablesOK(c)
      /\ MappedUsed /\ FramesApart /\ ChildrenApart /\ TypeOK /\ LocalsOK /\ p # c
      /\ bits[p] \subseteq UVirt /\ heap[p] \subseteq Region
  BY <1>1, Before DEF MemInv
<1>3. /\ k \in KPagesState /\ k.used \cap UFrames = used \cap UFrames
      /\ k.err = "none" => RegionsOK(k.reg) /\ Run(k.reg["buf"]) \subseteq KVirt
  BY <1>2, ForkPages
<1>4. k.used \subseteq Frames /\ k.map \in [KVirt -> KFrames \cup {NoFrame}]
      /\ k.reg \in [Roles -> Region]
  BY <1>3 DEF KPagesState
<1>5. /\ R \in [Roles -> Region] /\ R["pcb"] = k.reg["pcb"] /\ R["pgdir"] = k.reg["pgdir"]
      /\ R["bitmap"] = k.reg["bitmap"]
  <2>1. NoRegion \in Region
    BY DEF NoRegion, Region
  <2> QED BY <1>4, <2>1 DEF Roles
<1>6. /\ l \in Locals /\ l.call = "fork" /\ l.view = p /\ l.child = c /\ l.todo = bits[p]
      /\ l.buf = k.reg["buf"]
  <2> DEFINE b == k.reg["buf"]
  <2>1. b \in Region
    BY <1>4 DEF Roles
  <2> HIDE DEF k, b
  <2>2. l = [Idle EXCEPT !.call = "fork", !.view = p, !.child = c, !.todo = bits[p], !.buf = b]
    BY DEF b
  <2> HIDE DEF l
  <2>3. /\ l \in Locals /\ l.call = "fork" /\ l.view = p /\ l.child = c /\ l.todo = bits[p]
        /\ l.buf = b
    BY <1>2, <2>1, <2>2, IdleFacts DEF Idle, Locals
  <2> QED BY <2>3 DEF b
<1> HIDE DEF k, R, l
<1>7. pc[c] = "user" /\ loc[c] = Idle /\ lock # c /\ lock # p /\ loc[p] = Idle
  BY <1>1, <1>2 DEF LockOK, Held, Allocating, Freeing
<1>8. \A q \in Procs : loc[q].call = "fork" => loc[q].child # c
  BY <1>1 DEF MemInv, ProcessOK, ForkOK
<1>9. Mapped(p) = bits[p] /\ Mapped(c) = {}
  BY <1>1, <1>2 DEF SpaceOK, TablesOK, Allocating, Freeing
<1>10. CASE Panic("full")
  BY <1>10, PanicInv
<1>11. CASE used' = k.used /\ kmap' = k.map /\ UNCHANGED <<spaces, lock, pc, loc, panic>>
  <2>1. UNCHANGED <<status, bits, pte, pde, kreg, heap, lock, pc, loc, panic>>
    BY <1>11 DEF spaces
  <2>2. TypeOK' /\ LocalsOK'
    BY <1>2, <1>4, <1>11, <2>1 DEF TypeOK, LocalsOK, Frames
  <2>3. ChildrenApart' /\ FramesApart' /\ MappedUsed'
    BY <1>2, <1>3, <1>11, <2>1 DEF ChildrenApart, FramesApart, MappedUsed
  <2>4. ASSUME NEW q \in Procs PROVE ProcessOK(q)'
    <3>1. Kept(q)
      BY <2>1 DEF Kept
    <3>2. FrameOK(q)'
      BY <1>3, <1>11, <2>1, <3>1, FrameKept
    <3> QED BY <2>1, <3>1, <3>2, KeptInv
  <2> QED BY <2>2, <2>3, <2>4 DEF MemInv
<1>12. CASE /\ k.err = "none" /\ used' = k.used /\ kmap' = k.map
            /\ status' = [status EXCEPT ![c] = "fork"]
            /\ bits' = [bits EXCEPT ![c] = bits[p]] /\ heap' = [heap EXCEPT ![c] = heap[p]]
            /\ kreg' = [kreg EXCEPT ![c] = R] /\ Goto(p, "copy", l)
            /\ UNCHANGED <<pte, pde, lock, panic>>
  <2>1. /\ pc'[p] = "copy" /\ loc'[p] = l /\ status'[c] = "fork" /\ bits'[c] = bits[p]
        /\ heap'[c] = heap[p] /\ kreg'[c] = R
        /\ \A q \in Procs \ {p} : loc'[q] = loc[q] /\ pc'[q] = pc[q]
        /\ \A q \in Procs \ {c} : /\ status'[q] = status[q] /\ bits'[q] = bits[q]
                                  /\ heap'[q] = heap[q] /\ kreg'[q] = kreg[q]
    BY <1>2, <1>12 DEF Goto, LocalsOK, TypeOK
  <2>2. TypeOK'
    <3>1. used' \subseteq Frames /\ kmap' \in [KVirt -> KFrames \cup {NoFrame}]
      BY <1>4, <1>12
    <3>2. status' \in [Procs -> {"none", "fork", "live", "hanging", "dead"}]
      BY <1>2, <1>12 DEF TypeOK
    <3>3. bits' \in [Procs -> SUBSET UVirt] /\ heap' \in [Procs -> SUBSET Region]
      BY <1>2, <1>12 DEF TypeOK
    <3>4. kreg' \in [Procs -> [Roles -> Region]]
      BY <1>2, <1>5, <1>12 DEF TypeOK
    <3> QED BY <1>2, <1>12, <3>1, <3>2, <3>3, <3>4 DEF TypeOK, Frames
  <2>3. LocalsOK'
    <3>1. "copy" \in Labels
      BY DEF Labels
    <3> QED BY <1>2, <1>6, <1>12, <3>1 DEF LocalsOK, Goto
  <2>4. ChildrenApart'
    BY <1>2, <1>6, <1>8, <2>1 DEF ChildrenApart
  <2>5. FramesApart' /\ MappedUsed'
    BY <1>1, <1>2, <1>3, <1>12, <2>1 DEF FramesApart, MappedUsed
  <2>6. \A q \in Procs : Mapped(q)' = Mapped(q)
    BY <1>12 DEF Mapped
  <2>7. ASSUME NEW q \in Procs \ {p, c} PROVE ProcessOK(q)'
    <3>1. Kept(q)
      BY <1>12, <2>1 DEF Kept
    <3>2. /\ \A r \in Procs \ {c} : /\ status'[r] = status[r] /\ bits'[r] = bits[r]
                                    /\ pte'[r] = pte[r] /\ pde'[r] = pde[r]
          /\ \A v \in UVirt : pte'[c][v] = pte[c][v]
          /\ used' \cap UFrames \subseteq used /\ \A f \in UFrames \cap used : f \in used'
          /\ lock' = lock /\ (loc[q].call = "fork" => loc[q].child # c)
      BY <1>3, <1>8, <1>12, <2>1
    <3> QED BY <3>1, <3>2, OtherInv
  <2>8. ProcessOK(p)'
    <3>1. /\ status'[p] = "live" /\ lock' # p /\ bits'[p] = bits[p] /\ heap'[p] = heap[p]
          /\ kreg'[p] = kreg[p] /\ pte'[p] = pte[p] /\ pde'[p] = pde[p]
      BY <1>1, <1>2, <1>7, <1>12, <2>1
    <3>2. LockOK(p)' /\ CallOK(p)'
      BY <1>6, <2>1, <3>1 DEF LockOK, CallOK, Held, Allocating, Freeing
    <3>3. SpaceOK(p)'
      BY <1>9, <2>1, <2>6, <3>1 DEF SpaceOK, Allocating, Freeing
    <3>4. HeapOK(p)'
      BY <1>1, <1>2, <2>1, <3>1 DEF HeapOK, Allocating
    <3>5. ArgOK(p)' /\ FrameOK(p)'
      BY <1>6, <2>1 DEF ArgOK, FrameOK, Allocating
    <3>6. ForkOK(p)'
      BY <1>6, <1>9, <2>1, <2>6, <3>1 DEF ForkOK
    <3>7. TablesOK(p)'
      BY <1>1, <1>2, <1>3, <1>6, <1>12, <2>1, <2>6, <3>1 DEF TablesOK
    <3> QED BY <3>2, <3>3, <3>4, <3>5, <3>6, <3>7 DEF ProcessOK
  <2>9. ProcessOK(c)'
    <3>1. pc'[c] = "user" /\ loc'[c] = Idle /\ lock' # c /\ pte'[c] = pte[c] /\ pde'[c] = pde[c]
      BY <1>2, <1>7, <1>12, <2>1
    <3>2. LockOK(c)' /\ CallOK(c)'
      BY <3>1 DEF LockOK, CallOK, Held, Allocating, Freeing
    <3>3. SpaceOK(c)'
      BY <2>1, <3>1 DEF SpaceOK, Allocating, Freeing
    <3>4. HeapOK(c)'
      BY <1>1, <1>2, <2>1, <3>1 DEF HeapOK, Allocating
    <3>5. ArgOK(c)' /\ ForkOK(c)' /\ FrameOK(c)'
      BY <3>1, IdleFacts DEF ArgOK, ForkOK, FrameOK, Allocating
    <3>6. TablesOK(c)'
      BY <1>2, <1>3, <1>5, <1>12, <2>1, <2>6, <3>1, IdleFacts DEF TablesOK, RegionsOK
    <3> QED BY <3>2, <3>3, <3>4, <3>5, <3>6 DEF ProcessOK
  <2> QED BY <2>2, <2>3, <2>4, <2>5, <2>7, <2>8, <2>9 DEF MemInv
<1> QED BY <1>1, <1>10, <1>11, <1>12

-----------------------------------------------------------------------------
(* The end of a process *)

\* release_prog_resource gives back the frames of p and no frame that another
\* process has mapped.
LEMMA ReleaseResource ==
  ASSUME MemInv, NEW p \in Procs, release_prog_resource(p)
  PROVE  MemInv'
<1> DEFINE freed == {pte[p][v] : v \in UVirt} \cup {pde[p][t] : t \in Tables}
           at == kreg[p]["bitmap"].at
           k == mfree_kernel_pages(Kernel, at, BitmapPages - 1)
<1>1. /\ pc[p] = "user" /\ status[p] = "live" /\ used' = k.used \ freed /\ kmap' = k.map
      /\ status' = [status EXCEPT ![p] = "hanging"]
      /\ pte' = [pte EXCEPT ![p] = NoPages] /\ pde' = [pde EXCEPT ![p] = NoTables]
      /\ UNCHANGED <<bits, kreg, heap, lock, pc, loc, panic>>
  BY DEF release_prog_resource
<1>2. /\ LockOK(p) /\ TablesOK(p) /\ MappedUsed /\ FramesApart /\ ChildrenApart
      /\ TypeOK /\ LocalsOK
  BY Before DEF MemInv
<1>3. loc[p] = Idle /\ lock # p
  BY <1>1, <1>2 DEF LockOK, Held, Allocating, Freeing
<1>4. k \in KPagesState /\ k.used \cap UFrames = used \cap UFrames
  <2>1. Kernel \in KPagesState /\ Kernel.used = used
    BY <1>2, KernelState
  <2>2. at \in Nat /\ at + BitmapPages - 1 \in KVirt
    <3>1. kreg[p]["bitmap"] \in Region
      BY <1>2 DEF TypeOK, Roles
    <3>2. at \in Nat
      BY <3>1 DEF Region
    <3>3. kreg[p]["bitmap"].at + BitmapPages - 1 \in KVirt
      BY <1>1, <1>2 DEF TablesOK
    <3> QED BY <3>2, <3>3
  <2>3. BitmapPages \in Nat /\ KPages \in Nat
    OBVIOUS
  <2> HIDE DEF at
  <2>4. \A v \in at..(at + (BitmapPages - 1) - 1) : v \in KVirt
    BY <2>2, <2>3 DEF KVirt
  <2> QED BY <2>1, <2>4, FreeKernelPages
<1> HIDE DEF k
<1>5. ASSUME NEW f \in UFrames \cap used
      PROVE  f \in used' \/ \E v \in UVirt : pte[p][v] = f
  <2>1. pde[p] \in [Tables -> KFrames \cup {NoFrame}]
    BY <1>2 DEF TypeOK
  <2>2. \A t \in Tables : pde[p][t] \notin UFrames
    BY <2>1, FrameFacts
  <2> QED BY <1>1, <1>4, <2>2
<1>6. used' \cap UFrames \subseteq used /\ used' \subseteq Frames
      /\ kmap' \in [KVirt -> KFrames \cup {NoFrame}]
  BY <1>1, <1>4 DEF KPagesState
<1> HIDE DEF freed
<1>7. /\ NoPages \in [UVirt -> UFrames \cup {NoFrame}] /\ \A v \in UVirt : NoPages[v] = NoFrame
      /\ NoTables \in [Tables -> KFrames \cup {NoFrame}]
  BY DEF NoPages, NoTables
<1>8. /\ status'[p] = "hanging" /\ pte'[p] = NoPages
      /\ \A q \in Procs \ {p} : status'[q] = status[q] /\ pte'[q] = pte[q] /\ pde'[q] = pde[q]
  BY <1>1, <1>2 DEF TypeOK
<1>9. TypeOK'
  BY <1>1, <1>2, <1>6, <1>7 DEF TypeOK, Frames
<1>10. LocalsOK' /\ ChildrenApart'
  BY <1>1, <1>2 DEF LocalsOK, ChildrenApart
<1>11. FramesApart'
  BY <1>2, <1>7, <1>8 DEF FramesApart
<1>12. MappedUsed'
  <2>1. SUFFICES ASSUME NEW q \in Procs, NEW v \in UVirt, pte'[q][v] \in UFrames \ used'
                 PROVE  pc[q] = "pte_remove" /\ loc[q].v = v
    BY <1>1 DEF MappedUsed
  <2>2. q # p /\ pte'[q][v] = pte[q][v] /\ pte[q][v] # NoFrame
    BY <1>7, <1>8, <2>1, FrameFacts
  <2>3. pte[q][v] \notin used
    <3>1. SUFFICES ASSUME pte[q][v] \in used PROVE FALSE
      OBVIOUS
    <3>2. PICK w \in UVirt : pte[p][w] = pte[q][v]
      BY <1>5, <2>1, <2>2, <3>1
    <3> QED BY <1>2, <2>2, <3>2 DEF FramesApart
  <2> QED BY <1>2, <2>1, <2>2, <2>3 DEF MappedUsed
<1>13. ASSUME NEW q \in Procs \ {p} PROVE ProcessOK(q)'
  <2>1. Kept(q)
    BY <1>1, <1>8 DEF Kept
  <2>2. ForkOK(q)
    BY Before
  <2>3. loc[q].call = "fork" => loc[q].child # p
    BY <1>1, <2>2 DEF ForkOK
  <2>4. /\ \A r \in Procs \ {p} : /\ status'[r] = status[r] /\ bits'[r] = bits[r]
                                  /\ pte'[r] = pte[r] /\ pde'[r] = pde[r]
        /\ \A v \in UVirt : pte'[p][v] = NoFrame
        /\ lock' = lock
    BY <1>1, <1>7, <1>8
  <2> QED BY <1>5, <1>6, <2>1, <2>3, <2>4, OtherInv
<1>14. ProcessOK(p)'
  <2>1. pc'[p] = "user" /\ loc'[p] = Idle /\ lock' # p /\ kreg'[p] = kreg[p]
    BY <1>1, <1>3
  <2>2. LockOK(p)' /\ CallOK(p)'
    BY <2>1 DEF LockOK, CallOK, Held, Allocating, Freeing
  <2>3. SpaceOK(p)' /\ HeapOK(p)'
    BY <1>8, <2>1 DEF SpaceOK, HeapOK, Allocating, Freeing
  <2>4. ArgOK(p)' /\ ForkOK(p)' /\ FrameOK(p)'
    BY <2>1, IdleFacts DEF ArgOK, ForkOK, FrameOK, Allocating
  <2>5. Mapped(p)' = {}
    BY <1>7, <1>8 DEF Mapped
  <2>6. TablesOK(p)'
    BY <1>2, <1>7, <1>8, <2>1, <2>5, IdleFacts DEF TablesOK
  <2> QED BY <2>2, <2>3, <2>4, <2>6 DEF ProcessOK
<1> QED BY <1>9, <1>10, <1>11, <1>12, <1>13, <1>14 DEF MemInv

\* thread_exit gives back the last kernel pages of a process that has no user page.
LEMMA ThreadExit ==
  ASSUME MemInv, NEW p \in Procs, NEW c \in Procs, thread_exit(p, c)
  PROVE  MemInv'
<1> DEFINE d == kreg[c]["pgdir"].at
           b == kreg[c]["pcb"].at
           k1 == mfree_kernel_pages(Kernel, d, 1)
           k2 == mfree_kernel_pages(k1, b, 1)
<1>1. /\ status[c] = "hanging" /\ used' = k2.used /\ kmap' = k2.map
      /\ status' = [status EXCEPT ![c] = "dead"] /\ bits' = [bits EXCEPT ![c] = {}]
      /\ heap' = [heap EXCEPT ![c] = {}] /\ kreg' = [kreg EXCEPT ![c] = NoKernelPages]
      /\ UNCHANGED <<pte, pde, lock, pc, loc, panic>>
  BY DEF thread_exit
<1>2. /\ LockOK(c) /\ TablesOK(c) /\ MappedUsed /\ FramesApart /\ ChildrenApart
      /\ TypeOK /\ LocalsOK
  BY Before DEF MemInv
<1>3. pc[c] = "user" /\ loc[c] = Idle /\ lock # c
  BY <1>1, <1>2 DEF LockOK, Held, Allocating, Freeing
<1>4. d \in KVirt /\ b \in KVirt /\ d \in Nat /\ b \in Nat
  BY <1>2 DEF TablesOK, TypeOK, Roles, Region
<1> HIDE DEF d, b
<1>5. (\A v \in d..(d + 1 - 1) : v \in KVirt) /\ (\A v \in b..(b + 1 - 1) : v \in KVirt)
  <2>1. \A x \in Nat : x..(x + 1 - 1) = {x}
    OBVIOUS
  <2> QED BY <1>4, <2>1
<1>6. k1 \in KPagesState /\ k1.used \cap UFrames = used \cap UFrames
  <2>1. Kernel \in KPagesState /\ Kernel.used = used
    BY <1>2, KernelState
  <2> QED BY <1>5, <2>1, FreeKernelPages
<1> HIDE DEF k1
<1>7. k2 \in KPagesState /\ k2.used \cap UFrames = used \cap UFrames
  <2>1. k2 \in KPagesState /\ k2.used \cap UFrames = k1.used \cap UFrames
    BY <1>5, <1>6, FreeKernelPages
  <2> QED BY <1>6, <2>1
<1> HIDE DEF k2
<1>8. /\ status'[c] = "dead" /\ kreg'[c] = NoKernelPages
      /\ \A q \in Procs \ {c} : /\ status'[q] = status[q] /\ bits'[q] = bits[q]
                                /\ heap'[q] = heap[q] /\ kreg'[q] = kreg[q]
  BY <1>1, <1>2 DEF TypeOK
<1>9. NoKernelPages \in [Roles -> Region] /\ \A r \in Roles : NoKernelPages[r].at = 0
  BY <1>2, KernelState DEF NoKernelPages, NoRegion
<1>10. TypeOK'
  <2>1. used' \subseteq Frames /\ kmap' \in [KVirt -> KFrames \cup {NoFrame}]
    BY <1>1, <1>7 DEF KPagesState
  <2> QED BY <1>1, <1>2, <1>9, <2>1 DEF TypeOK, Frames
<1>11. LocalsOK' /\ ChildrenApart' /\ FramesApart'
  BY <1>1, <1>2 DEF LocalsOK, ChildrenApart, FramesApart
<1>12. MappedUsed'
  BY <1>1, <1>2, <1>7 DEF MappedUsed
<1>13. ASSUME NEW q \in Procs \ {c} PROVE ProcessOK(q)'
  <2>1. Kept(q)
    BY <1>1, <1>8 DEF Kept
  <2>2. ForkOK(q)
    BY Before
  <2>3. loc[q].call = "fork" => loc[q].child # c
    BY <1>1, <2>2 DEF ForkOK
  <2>4. /\ \A r \in Procs \ {c} : /\ status'[r] = status[r] /\ bits'[r] = bits[r]
                                  /\ pte'[r] = pte[r] /\ pde'[r] = pde[r]
        /\ \A v \in UVirt : pte'[c][v] = pte[c][v]
        /\ used' \cap UFrames \subseteq used /\ \A f \in UFrames \cap used : f \in used'
        /\ lock' = lock
    BY <1>1, <1>7, <1>8
  <2> QED BY <2>1, <2>3, <2>4, OtherInv
<1>14. ProcessOK(c)'
  <2>1. pc'[c] = "user" /\ loc'[c] = Idle /\ lock' # c /\ Mapped(c)' = {}
    BY <1>1, <1>2, <1>3 DEF TablesOK, Mapped
  <2>2. LockOK(c)' /\ CallOK(c)'
    BY <2>1 DEF LockOK, CallOK, Held, Allocating, Freeing
  <2>3. SpaceOK(c)' /\ HeapOK(c)'
    BY <1>8, <2>1 DEF SpaceOK, HeapOK, Allocating, Freeing
  <2>4. ArgOK(c)' /\ ForkOK(c)' /\ FrameOK(c)'
    BY <2>1, IdleFacts DEF ArgOK, ForkOK, FrameOK, Allocating
  <2>5. 0 \in KVirt /\ "pcb" \in Roles /\ "pgdir" \in Roles
    BY DEF KVirt, Roles
  <2>6. TablesOK(c)'
    BY <1>1, <1>2, <1>8, <1>9, <2>1, <2>5, IdleFacts DEF TablesOK
  <2> QED BY <2>2, <2>3, <2>4, <2>6 DEF ProcessOK
<1> QED BY <1>10, <1>11, <1>12, <1>13, <1>14 DEF MemInv

-----------------------------------------------------------------------------
(* The theorems *)

\* Every step keeps the invariant.
LEMMA NextInv ==
  ASSUME MemInv, [Next]_vars
  PROVE  MemInv'
<1>1. CASE UNCHANGED vars
  <2>1. UNCHANGED <<used, kmap, status, bits, pte, pde, kreg, heap, lock, pc, loc, panic>>
    BY <1>1 DEF vars
  <2>2. TypeOK' /\ LocalsOK'
    BY <2>1 DEF MemInv, TypeOK, LocalsOK
  <2>3. ChildrenApart' /\ FramesApart' /\ MappedUsed'
    BY <2>1 DEF MemInv, ChildrenApart, FramesApart, MappedUsed
  <2>4. ASSUME NEW q \in Procs PROVE ProcessOK(q)'
    <3>1. Kept(q)
      BY <2>1 DEF Kept
    <3>2. FrameOK(q)'
      BY <2>1, <3>1, FrameKept
    <3> QED BY <2>1, <3>1, <3>2, KeptInv
  <2> QED BY <2>2, <2>3, <2>4 DEF MemInv
<1>2. ASSUME NEW p \in Procs, Step(p) PROVE MemInv'
  BY <1>2, LockAcquire, LockBlock, VaddrGet, VaddrSet, PallocScan, BitmapLoad, PallocStore,
     PageTableAdd, PageTableInstall, Pfree, PfreeStore, PteRemove, LockRelease, CopyPage,
     ForkDone DEF Step
<1>3. ASSUME NEW p \in Procs, release_prog_resource(p) PROVE MemInv'
  BY <1>3, ReleaseResource
<1>4. ASSUME NEW p \in Workers, NEW n \in 1..MaxPages, sys_malloc(p, n) PROVE MemInv'
  <2>1. p \in Procs
    OBVIOUS
  <2> QED BY <1>4, <2>1, SysMalloc
<1>5. ASSUME NEW p \in Workers, NEW b \in heap[p], sys_free(p, b) PROVE MemInv'
  <2>1. p \in Procs
    OBVIOUS
  <2> QED BY <1>5, <2>1, SysFree
<1>6. ASSUME NEW p \in Workers, NEW v \in UVirt, segment_load(p, v) PROVE MemInv'
  <2>1. p \in Procs
    OBVIOUS
  <2> QED BY <1>6, <2>1, SegmentLoad
<1>7. ASSUME NEW p \in Procs, NEW c \in Procs, sys_fork(p, c) PROVE MemInv'
  BY <1>7, SysFork
<1>8. ASSUME NEW p \in Procs, NEW c \in Procs, thread_exit(p, c) PROVE MemInv'
  BY <1>8, ThreadExit
<1> QED BY <1>1, <1>2, <1>3, <1>4, <1>5, <1>6, <1>7, <1>8 DEF Next

\* The invariant holds in every state that the kernel reaches.
LEMMA AlwaysInv == Spec => []MemInv
<1>1. Init => MemInv
  BY InitInv
<1>2. MemInv /\ [Next]_vars => MemInv'
  BY NextInv
<1> QED BY <1>1, <1>2, PTL DEF Spec

\* Every variable always has its type: no step of memory.c, fork.c, exec.c or
\* wait_exit.c takes a frame, a page or a page table that does not exist.
THEOREM MemoryTypeCorrect == Spec => []TypeOK
<1>1. MemInv => TypeOK
  BY InvImplies
<1> QED BY <1>1, AlwaysInv, PTL

\* palloc never gives a frame of the user pool away twice, and a mapped frame is
\* marked except between pfree and page_table_pte_remove of its owner, for any
\* number of processes and frames.
THEOREM FramesAlwaysOwned == Spec => []UserFrameOwned
<1>1. MemInv => UserFrameOwned
  BY InvImplies
<1> QED BY <1>1, AlwaysInv, PTL

\* Between two calls the virtual bitmap of a process holds exactly the pages that
\* its page tables map (vaddr_get, get_a_page, vaddr_remove, copy_body_stack3).
THEOREM BitsAlwaysMatch == Spec => []BitsMatchMap
<1>1. MemInv => BitsMatchMap
  BY InvImplies
<1> QED BY <1>1, AlwaysInv, PTL

\* Only the end of copy_process takes a parent from copying to its own code.
LEMMA CopyEnds ==
  ASSUME MemInv, Next, NEW p \in Procs, pc[p] = "copy", pc'[p] = "user"
  PROVE  fork_done(p)
<1>0. pc \in [Procs -> Labels]
  BY DEF MemInv, LocalsOK
<1>1. ASSUME NEW q \in Procs, NEW label, NEW l, Goto(q, label, l)
      PROVE  q = p /\ label = "user"
  BY <1>0, <1>1 DEF Goto
<1>2. ASSUME NEW q \in Procs, lock_acquire(q) \/ lock_wakeup(q) PROVE FALSE
  <2>1. pc[q] # "copy" /\ pc' = [pc EXCEPT ![q] = Body(loc[q].call)]
    BY <1>2 DEF lock_acquire, lock_wakeup
  <2> QED BY <1>0, <2>1
<1>3. ASSUME NEW q \in Procs, lock_block(q) PROVE FALSE
  BY <1>1, <1>3 DEF lock_block
<1>4. ASSUME NEW q \in Procs, vaddr_get(q) PROVE FALSE
  BY <1>1, <1>4 DEF vaddr_get, Panic
<1>5. ASSUME NEW q \in Procs, vaddr_set(q) PROVE FALSE
  BY <1>1, <1>5 DEF vaddr_set
<1>6. ASSUME NEW q \in Procs, palloc_scan(q) PROVE FALSE
  BY <1>1, <1>6 DEF palloc_scan, Panic
<1>7. ASSUME NEW q \in Procs, bitmap_load(q) \/ palloc_store(q) PROVE FALSE
  BY <1>1, <1>7 DEF bitmap_load, palloc_store
<1>8. ASSUME NEW q \in Procs, NEW label, NextPage(q, label) PROVE q = p
  BY <1>1, <1>8 DEF NextPage
<1>9. ASSUME NEW q \in Procs, page_table_add(q) PROVE FALSE
  BY <1>1, <1>8, <1>9 DEF page_table_add, Panic
<1>10. ASSUME NEW q \in Procs, page_table_install(q) \/ page_table_pte_remove(q) PROVE FALSE
  BY <1>8, <1>10 DEF page_table_install, page_table_pte_remove
<1>11. ASSUME NEW q \in Procs, pfree(q) \/ pfree_store(q) PROVE FALSE
  BY <1>1, <1>11 DEF pfree, pfree_store
<1>12. ASSUME NEW q \in Procs, lock_release(q) PROVE FALSE
  BY <1>1, <1>12 DEF lock_release
<1>13. ASSUME NEW q \in Procs, copy_page(q) PROVE FALSE
  BY <1>1, <1>13 DEF copy_page
<1>14. ASSUME NEW q \in Procs, fork_done(q) PROVE fork_done(p)
  BY <1>1, <1>14 DEF fork_done
<1>15. ASSUME NEW q \in Procs, NEW n, sys_malloc(q, n) PROVE FALSE
  BY <1>1, <1>15 DEF sys_malloc
<1>16. ASSUME NEW q \in Procs, NEW b, sys_free(q, b) PROVE FALSE
  BY <1>1, <1>16 DEF sys_free
<1>17. ASSUME NEW q \in Procs, NEW v, segment_load(q, v) PROVE FALSE
  BY <1>1, <1>17 DEF segment_load
<1>18. ASSUME NEW q \in Procs, NEW c, sys_fork(q, c) PROVE FALSE
  BY <1>1, <1>18 DEF sys_fork, Panic
<1>19. ASSUME NEW q \in Procs, NEW c, thread_exit(q, c) PROVE FALSE
  BY <1>19 DEF thread_exit
<1>20. ASSUME NEW q \in Procs, release_prog_resource(q) PROVE FALSE
  BY <1>20 DEF release_prog_resource
<1>21. ASSUME NEW q \in Procs, Step(q) PROVE fork_done(p)
  BY <1>2, <1>3, <1>4, <1>5, <1>6, <1>7, <1>9, <1>10, <1>11, <1>12, <1>13, <1>14, <1>21
     DEF Step
<1> QED BY <1>15, <1>16, <1>17, <1>18, <1>19, <1>20, <1>21 DEF Next

\* The child of a fork starts with exactly the pages of its parent, although the
\* parent is switched out, and the page directory of the child unloaded, whenever
\* the lock of the pool is taken (copy_body_stack3, fork.c): a page that would go
\* to the wrong address space stops the kernel instead.
THEOREM ForkAlwaysCopies == Spec => ForkCopiesSpace
<1> DEFINE Copied == \A p \in Procs : pc[p] = "copy" /\ pc'[p] = "user" =>
             \A v \in UVirt : (pte[p][v] # NoFrame) <=> (pte[loc[p].child][v] # NoFrame)
<1>1. ASSUME MemInv, [Next]_vars PROVE [Copied]_vars
  <2>1. CASE UNCHANGED vars
    BY <2>1
  <2>2. CASE Next
    <3>1. SUFFICES ASSUME NEW p \in Procs, pc[p] = "copy", pc'[p] = "user"
                   PROVE  \A v \in UVirt : (pte[p][v] # NoFrame)
                                              <=> (pte[loc[p].child][v] # NoFrame)
      OBVIOUS
    <3>2. fork_done(p)
      BY <1>1, <2>2, <3>1, CopyEnds
    <3>3. loc[p].todo = {}
      BY <3>2 DEF fork_done
    <3>4. LockOK(p) /\ CallOK(p) /\ SpaceOK(p) /\ ForkOK(p)
      BY <1>1, Before
    <3>5. Mapped(p) = bits[p] /\ Mapped(loc[p].child) = bits[p]
      BY <3>1, <3>3, <3>4 DEF LockOK, CallOK, SpaceOK, ForkOK, Allocating, Freeing
    <3> QED BY <3>5 DEF Mapped
  <2> QED BY <1>1, <2>1, <2>2
<1>2. MemInv /\ [Next]_vars => [Copied]_vars
  BY <1>1
<1>3. Spec => [][Copied]_vars
  BY <1>2, AlwaysInv, PTL DEF Spec
<1> QED BY <1>3 DEF ForkCopiesSpace
=============================================================================
