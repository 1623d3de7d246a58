---------------------------- MODULE FilesProofs -----------------------------
(***************************************************************************)
(* The counts of the file table and the ownership of pipe pages, for any   *)
(* number of processes and pipes and any size of the tables: FilesInv is   *)
(* inductive, provided that no process forks with redirected standard      *)
(* descriptors (ForkRedirected), which update_file_open_cnts does not      *)
(* count.  One lemma per system call and in it one step per part of the    *)
(* invariant.                                                              *)
(***************************************************************************)
EXTENDS Files, FiniteSetTheorems, WellFoundedInduction, TLAPS

USE FilesAssumption DEF Locals, Slots

\* A set of numbers that is not empty has a least one: the searches from the
\* front of a list and for the lowest free bit find what they look for.
LEMMA LeastExists ==
  ASSUME NEW T \in SUBSET Nat, T # {}
  PROVE  \E x \in T : \A y \in T : x <= y
<1> DEFINE R == OpToRel(<, Nat)
<1>1. IsWellFoundedOn(R, Nat)
  BY NatLessThanWellFounded
<1>2. \A x, y \in Nat : <<x, y>> \in R <=> x < y
  BY DEF OpToRel
<1> HIDE DEF R
<1>3. PICK x \in T : \A y \in T : ~(<<y, x>> \in R)
  BY <1>1, WFMin, Zenon
<1>4. \A y \in T : x \in Nat /\ y \in Nat /\ ~(y < x)
  BY <1>2, <1>3
<1>5. \A y \in T : x <= y
  BY <1>4
<1> QED BY <1>5

-----------------------------------------------------------------------------
(* Facts about the operators *)

\* A descriptor refers to a slot if it holds its number and is not the one whose
\* last close is on its way.
LEMMA RefsMember ==
  ASSUME NEW g
  PROVE  /\ \A u, f : <<u, f>> \in Refs(g) <=>
              /\ u \in alive /\ f \in Locals /\ fd_table[u][f] = g
              /\ ~(op[u] = "release" /\ fd[u] = f)
         /\ \A x \in Refs(g) : \E u \in alive, f \in Locals : x = <<u, f>>
BY DEF Refs

\* The same in the next state.
LEMMA RefsMemberNext ==
  ASSUME NEW g
  PROVE  /\ \A u, f : <<u, f>> \in Refs(g)' <=>
              /\ u \in alive' /\ f \in Locals /\ fd_table'[u][f] = g
              /\ ~(op'[u] = "release" /\ fd'[u] = f)
         /\ \A x \in Refs(g)' : \E u \in alive', f \in Locals : x = <<u, f>>
BY DEF Refs

\* Sets of pairs with the same pairs are equal.
LEMMA PairsEqual ==
  ASSUME NEW A, NEW B, \A x \in A \cup B : \E u, f : x = <<u, f>>,
         \A u, f : <<u, f>> \in A <=> <<u, f>> \in B
  PROVE  A = B
OBVIOUS

\* There are finitely many descriptors.
LEMMA RefsFinite ==
  ASSUME IsFiniteSet(alive), NEW g
  PROVE  IsFiniteSet(Refs(g)) /\ Cardinality(Refs(g)) \in Nat
<1>1. IsFiniteSet(Locals)
  BY FS_Interval
<1>2. IsFiniteSet(alive \X Locals)
  BY <1>1, FS_Product
<1>3. Refs(g) \in SUBSET (alive \X Locals)
  BY DEF Refs
<1>4. IsFiniteSet(Refs(g))
  BY <1>2, <1>3, FS_Subset
<1> QED BY <1>4, FS_CardinalityType

\* Lowest finds a number if there is one.
LEMMA LowestFound ==
  ASSUME NEW S \in SUBSET Nat, S # {}
  PROVE  Lowest(S) \in S
BY LeastExists DEF Lowest

\* The table new is old with a descriptor more for some of the slots in G: what
\* was in use is as it was, and each of these slots has at most one.
Installed(old, new, G) ==
    /\ new \in [Locals -> -1..(MaxOpen - 1)]
    /\ \A f \in Locals : new[f] \in {old[f]} \cup G /\ (old[f] # -1 => new[f] = old[f])
    /\ \A f1, f2 \in Locals : new[f1] = new[f2] /\ new[f1] \in G => f1 = f2

\* pcb_fd_install fills one free descriptor, or changes nothing.
LEMMA InstallFacts ==
  ASSUME NEW old \in [Locals -> -1..(MaxOpen - 1)], NEW g \in Slots,
         \A f \in Locals : old[f] # g
  PROVE  Installed(old, pcb_fd_install(old, g), {g})
<1> DEFINE free == {f \in Locals : f >= NStd /\ old[f] = -1}
<1>1. free \in SUBSET Nat
  OBVIOUS
<1>2. CASE free = {}
  BY <1>2 DEF pcb_fd_install, Installed
<1>3. CASE free # {}
  <2>1. Lowest(free) \in free
    BY <1>1, <1>3, LowestFound
  <2>2. PICK f \in Locals : old[f] = -1 /\ pcb_fd_install(old, g) = [old EXCEPT ![f] = g]
    BY <1>3, <2>1 DEF pcb_fd_install
  <2> QED BY <2>2 DEF Installed
<1> QED BY <1>2, <1>3

\* The two calls of sys_pipe.
LEMMA InstallTwo ==
  ASSUME NEW old \in [Locals -> -1..(MaxOpen - 1)], NEW g \in Slots, NEW h \in Slots, g # h,
         \A f \in Locals : old[f] # g /\ old[f] # h
  PROVE  Installed(old, pcb_fd_install(pcb_fd_install(old, g), h), {g, h})
<1> DEFINE mid == pcb_fd_install(old, g)
           new == pcb_fd_install(mid, h)
<1>1. Installed(old, mid, {g})
  BY InstallFacts
<1> HIDE DEF mid
<1>2. mid \in [Locals -> -1..(MaxOpen - 1)] /\ \A f \in Locals : mid[f] # h
  BY <1>1 DEF Installed
<1>3. Installed(mid, new, {h})
  BY <1>2, InstallFacts
<1> HIDE DEF new
<1>4. \A f \in Locals : new[f] \in {old[f], g, h} /\ (old[f] # -1 => new[f] = old[f])
  BY <1>1, <1>3 DEF Installed
<1>5. \A f1, f2 \in Locals : new[f1] = new[f2] /\ new[f1] \in {g, h} => f1 = f2
  BY <1>1, <1>3 DEF Installed
<1>6. Installed(old, new, {g, h})
  BY <1>3, <1>4, <1>5 DEF Installed
<1> QED BY <1>6 DEF new, mid

\* What the invariant says of a process inside a call.
LEMMA CallFacts ==
  ASSUME FilesInv, NEW t \in Procs, op[t] # "none"
  PROVE  /\ t \in alive /\ fd[t] \in Locals
         /\ fd_table[t][fd[t]] \in used /\ fd_table[t][fd[t]] \in Slots
         /\ ThePipe(t) \in Pipes /\ TheFile(t).end \in has[ThePipe(t)]
         /\ TheFile(t) = [pipe |-> ThePipe(t), end |-> TheFile(t).end]
<1> USE DEF FilesInv
<1>1. t \in alive /\ fd[t] \in Locals /\ fd_table[t][fd[t]] >= NStd
  BY DEF TypeOK, CallsOnPipes
<1>2. fd_table[t][fd[t]] \in used /\ fd_table[t][fd[t]] \in Slots
  BY <1>1 DEF TypeOK, PipesOwned
<1>3. TheFile(t) \in [pipe : Pipes, end : Ends]
  BY <1>2 DEF TypeOK, SlotsDistinct, TheFile
<1>4. TheFile(t).end \in has[ThePipe(t)]
  BY <1>1 DEF PipesOwned, TheFile, ThePipe
<1> QED BY <1>1, <1>2, <1>3, <1>4 DEF ThePipe

-----------------------------------------------------------------------------
(* The steps *)

\* A step that leaves the tables and the ends of pipes alone, and neither begins
\* nor ends the last close of a file, keeps the counts and the pipes in order.
LEMMA QuietStep ==
  ASSUME FilesInv, UNCHANGED <<alive, fileVars, has>>, TypeOK',
         \A t \in Procs : op'[t] = "release" <=> op[t] = "release",
         \A t \in Procs : op[t] = "release" => fd'[t] = fd[t],
         \A t \in Procs : op'[t] # "none" => t \in alive /\ fd_table[t][fd'[t]] >= NStd
  PROVE  FilesInv'
<1> USE DEF FilesInv, fileVars
<1>1. ASSUME NEW g PROVE Refs(g)' = Refs(g)
  <2>1. \A u \in alive, f \in Locals :
          (op'[u] = "release" /\ fd'[u] = f) <=> (op[u] = "release" /\ fd[u] = f)
    BY DEF TypeOK
  <2> QED BY <2>1 DEF Refs
<1>2. CountExact'
  BY <1>1 DEF CountExact
<1>3. PipesOwned'
  BY DEF PipesOwned
<1>4. CallsOnPipes' /\ SlotsDistinct'
  BY DEF CallsOnPipes, SlotsDistinct
<1> QED BY <1>2, <1>3, <1>4

\* sys_fork copies the descriptors and counts each of them once.
LEMMA ForkStep ==
  ASSUME FilesInv, ForkRedirected = FALSE, NEW t \in Procs, NEW c \in Procs, sys_fork(t, c)
  PROVE  FilesInv'
<1> USE DEF FilesInv
<1>0. /\ t \in alive /\ c \notin alive /\ op[t] = "none" /\ op[c] = "none"
      /\ alive' = alive \cup {c} /\ count' = Counted(t)
      /\ UNCHANGED <<used, file, lost, has, closed, level, lock, op, fd, todo, exiting>>
  BY DEF sys_fork, InUser, pipeVars, TypeOK, CallsOnPipes
<1>1. /\ fd_table' \in [Procs -> [Locals -> -1..(MaxOpen - 1)]]
      /\ \A u \in Procs : fd_table'[u] = IF u = c THEN fd_table[t] ELSE fd_table[u]
  BY DEF sys_fork, TypeOK
<1>10. \A f \in Locals : f < NStd => fd_table[t][f] < NStd
  BY DEF sys_fork
<1>2. IsFiniteSet(alive')
  BY <1>0, FS_AddElement
<1>3. ASSUME NEW g \in Slots
      PROVE  /\ IsFiniteSet({f \in Locals : fd_table[t][f] = g})
             /\ Refs(g)' = Refs(g) \cup ({c} \X {f \in Locals : fd_table[t][f] = g})
             /\ Cardinality(Refs(g)') =
                   Cardinality(Refs(g)) + Cardinality({f \in Locals : fd_table[t][f] = g})
  <2> DEFINE F == {f \in Locals : fd_table[t][f] = g}
  <2>1. IsFiniteSet(F)
    <3>1. IsFiniteSet(Locals)
      BY FS_Interval
    <3> QED BY <3>1, FS_Subset
  <2>2. Refs(g)' = Refs(g) \cup ({c} \X F)
    <3>1. \A u, f : <<u, f>> \in Refs(g)' <=> <<u, f>> \in Refs(g) \cup ({c} \X F)
      <4>1. ASSUME NEW u, NEW f
            PROVE  <<u, f>> \in Refs(g)' <=> <<u, f>> \in Refs(g) \/ (u = c /\ f \in F)
        <5>1. CASE u = c
          BY <1>0, <1>1, <5>1, RefsMember, RefsMemberNext
        <5>2. CASE u # c
          <6>1. u \in alive => fd_table'[u] = fd_table[u]
            BY <1>1, <5>2 DEF TypeOK
          <6> QED BY <1>0, <5>2, <6>1, RefsMember, RefsMemberNext
        <5> QED BY <5>1, <5>2
      <4> QED BY <4>1
    <3>2. \A x \in Refs(g)' \cup (Refs(g) \cup ({c} \X F)) : \E u, f : x = <<u, f>>
      BY RefsMember, RefsMemberNext
    <3> QED BY <3>1, <3>2, PairsEqual
  <2>3. IsFiniteSet({c}) /\ Cardinality({c}) = 1
    BY FS_Singleton
  <2>4. Cardinality(F) \in Nat
    BY <2>1, FS_CardinalityType
  <2>5. IsFiniteSet({c} \X F) /\ Cardinality({c} \X F) = Cardinality(F)
    BY <2>1, <2>3, <2>4, FS_Product
  <2>6. Refs(g) \cap ({c} \X F) = {}
    BY <1>0, RefsMember
  <2>7. IsFiniteSet(Refs(g)) /\ Cardinality(Refs(g)) \in Nat
    BY RefsFinite
  <2>8. Cardinality(Refs(g) \cup ({c} \X F)) = Cardinality(Refs(g)) + Cardinality(F) - 0
    BY <2>5, <2>6, <2>7, FS_Union, FS_EmptySet
  <2> QED BY <2>1, <2>2, <2>4, <2>7, <2>8
<1>4. ASSUME NEW g \in Slots
      PROVE  count'[g] = count[g] + Cardinality({f \in Locals : fd_table[t][f] = g})
  <2>1. \A f \in Locals : fd_table[t][f] = g => f >= NStd
    BY <1>10
  <2>2. {f \in Locals : f >= NStd /\ fd_table[t][f] = g} = {f \in Locals : fd_table[t][f] = g}
    BY <2>1
  <2> QED BY <1>0, <2>2 DEF Counted
<1>5. CountExact'
  <2>1. SUFFICES ASSUME NEW g \in used
                 PROVE  IF g \in lost THEN count'[g] = 1 /\ Refs(g)' = {}
                                     ELSE count'[g] = Cardinality(Refs(g)')
    BY <1>0 DEF CountExact
  <2>2. g \in Slots
    BY DEF TypeOK
  <2>3. CASE g \notin lost
    BY <1>3, <1>4, <2>1, <2>2, <2>3 DEF CountExact
  <2>4. CASE g \in lost
    <3>1. count[g] = 1 /\ Refs(g) = {}
      BY <2>1, <2>4 DEF CountExact
    <3>2. ASSUME NEW f \in Locals, fd_table[t][f] = g PROVE FALSE
      <4>1. <<t, f>> \in Refs(g)
        BY <1>0, <3>2, RefsMember
      <4> QED BY <3>1, <4>1
    <3>3. {f \in Locals : fd_table[t][f] = g} = {}
      BY <3>2
    <3>4. count'[g] = 1
      BY <1>4, <2>2, <3>1, <3>3, FS_EmptySet
    <3>5. Refs(g)' = {}
      BY <1>3, <2>2, <3>1, <3>3
    <3> QED BY <2>4, <3>4, <3>5
  <2> QED BY <2>3, <2>4
<1>6. TypeOK'
  <2>1. count' \in [Slots -> Nat]
    <3>1. ASSUME NEW g \in Slots PROVE count'[g] \in Nat
      <4>1. Cardinality({f \in Locals : fd_table[t][f] = g}) \in Nat
        BY <1>3, FS_CardinalityType
      <4>2. count[g] \in Nat
        BY DEF TypeOK
      <4>3. \A n \in Nat : count[g] + n \in Nat
        BY <4>2
      <4> QED BY <1>4, <4>1, <4>3
    <3> QED BY <1>0, <3>1 DEF Counted
  <2> QED BY <1>0, <1>1, <2>1 DEF TypeOK
<1>7. PipesOwned'
  <2>1. \A u \in alive' : \E v \in alive : fd_table'[u] = fd_table[v]
    BY <1>0, <1>1 DEF TypeOK
  <2> QED BY <1>0, <2>1 DEF PipesOwned
<1>8. CallsOnPipes'
  <2>1. \A u \in Procs : op[u] # "none" => u # c /\ fd_table'[u] = fd_table[u]
    BY <1>0, <1>1
  <2>2. ASSUME NEW u \in Procs, op[u] = "release", NEW v \in alive', NEW f \in Locals,
               fd_table'[v][f] = fd_table[u][fd[u]]
        PROVE  v = u /\ f = fd[u]
    <3>1. PICK w \in alive : fd_table'[v] = fd_table[w] /\ w = IF v = c THEN t ELSE v
      BY <1>0, <1>1 DEF TypeOK
    <3>2. w = u /\ f = fd[u]
      BY <2>2, <3>1 DEF CallsOnPipes
    <3> QED BY <1>0, <2>2, <3>1, <3>2
  <2> QED BY <1>0, <2>1, <2>2 DEF CallsOnPipes
<1>9. SlotsDistinct'
  BY <1>0 DEF SlotsDistinct
<1> QED BY <1>2, <1>5, <1>6, <1>7, <1>8, <1>9

\* sys_pipe takes two free slots, and gives each to one descriptor or to none.
LEMMA PipeStep ==
  ASSUME FilesInv, NEW t \in Procs, NEW p \in Pipes, sys_pipe(t, p)
  PROVE  FilesInv'
<1> USE DEF FilesInv
<1> DEFINE free == Slots \ used
           g == Lowest(free)
           h == Lowest(free \ {g})
           old == fd_table[t]
           new == pcb_fd_install(pcb_fd_install(old, g), h)
<1>1. /\ t \in alive /\ op[t] = "none" /\ has[p] = {}
      /\ UNCHANGED <<alive, lock, op, fd, todo, exiting>>
  BY DEF sys_pipe, InUser
<1>2. g \in free /\ h \in free /\ g # h
  <2>1. free \in SUBSET Nat /\ IsFiniteSet(free)
    <3>1. IsFiniteSet(Slots)
      BY FS_Interval
    <3> QED BY <3>1, FS_Subset
  <2>2. Cardinality(free) >= 2
    BY DEF sys_pipe
  <2>3. free # {}
    BY <2>2, FS_EmptySet
  <2>4. g \in free
    BY <2>1, <2>3, LowestFound
  <2> HIDE DEF g
  <2>5. free \ {g} # {}
    <3>1. ASSUME free = {g} PROVE FALSE
      <4>1. Cardinality({g}) = 1
        BY FS_Singleton
      <4>2. Cardinality(free) = 1
        BY <3>1, <4>1
      <4> QED BY <2>2, <4>2
    <3> QED BY <2>4, <3>1
  <2>6. h \in free \ {g}
    BY <2>1, <2>5, LowestFound
  <2> QED BY <2>4, <2>6
<1>3. /\ used' = used \cup {g, h}
      /\ count' = [count EXCEPT ![g] = 1, ![h] = 1]
      /\ file' = [file EXCEPT ![g] = [pipe |-> p, end |-> "reader"],
                              ![h] = [pipe |-> p, end |-> "writer"]]
      /\ has' = [has EXCEPT ![p] = Ends]
      /\ closed' = [closed EXCEPT ![p] = FALSE]
      /\ level' = [level EXCEPT ![p] = 0]
      /\ fd_table' = [fd_table EXCEPT ![t] = new]
      /\ lost' = lost \cup {x \in {g, h} : \A f \in Locals : new[f] # x}
  BY DEF sys_pipe
<1>4. old \in [Locals -> -1..(MaxOpen - 1)]
  BY DEF TypeOK
<1>5. \A u \in alive, f \in Locals : fd_table[u][f] # g /\ fd_table[u][f] # h
  BY <1>2 DEF PipesOwned
<1>6. Installed(old, new, {g, h})
  <2>1. g \in Slots /\ h \in Slots /\ g # h /\ \A f \in Locals : old[f] # g /\ old[f] # h
    BY <1>1, <1>2, <1>5
  <2> HIDE DEF g, h, old
  <2> QED BY <1>4, <2>1, InstallTwo
<1> HIDE DEF new, g, h
<1>7. TypeOK'
  <2>1. new \in [Locals -> -1..(MaxOpen - 1)]
    BY <1>6 DEF Installed
  <2>2. fd_table' \in [Procs -> [Locals -> -1..(MaxOpen - 1)]]
    BY <1>3, <2>1 DEF TypeOK
  <2>3. used' \subseteq Slots /\ count' \in [Slots -> Nat]
    BY <1>2, <1>3 DEF TypeOK
  <2>4. file' \in [Slots -> [pipe : Pipes, end : Ends] \cup {NoFile}]
    <3>1. \A e \in Ends : [pipe |-> p, end |-> e] \in [pipe : Pipes, end : Ends] \cup {NoFile}
      OBVIOUS
    <3> QED BY <1>2, <1>3, <3>1 DEF TypeOK, Ends
  <2>5. has' \in [Pipes -> SUBSET Ends]
    BY <1>3 DEF TypeOK
  <2>6. closed' \in [Pipes -> BOOLEAN]
    BY <1>3 DEF TypeOK
  <2>7. level' \in [Pipes -> 0..Capacity]
    BY <1>3 DEF TypeOK
  <2> QED BY <1>1, <2>2, <2>3, <2>4, <2>5, <2>6, <2>7 DEF TypeOK
<1>8. \A u \in alive, f \in Locals :
        /\ fd_table'[u][f] # -1 /\ fd_table'[u][f] \notin {g, h} => fd_table'[u][f] = fd_table[u][f]
        /\ fd_table[u][f] # -1 => fd_table'[u][f] = fd_table[u][f]
        /\ u # t => fd_table'[u][f] = fd_table[u][f]
  <2>1. \A u \in alive : fd_table'[u] = IF u = t THEN new ELSE fd_table[u]
    BY <1>3 DEF TypeOK
  <2> QED BY <1>6, <2>1 DEF Installed
<1>17. /\ used' = used \cup {g, h}
       /\ lost' = lost \cup {x \in {g, h} : \A f \in Locals : new[f] # x}
  BY <1>3
<1>9. fd_table'[t] = new /\ \A x \in Slots \ {g, h} : x \in lost' <=> x \in lost
  BY <1>3 DEF TypeOK
<1>10. CountExact'
  <2>1. lost' \subseteq used'
    BY <1>17 DEF CountExact
  <2>2. ASSUME NEW x \in used
        PROVE  IF x \in lost' THEN count'[x] = 1 /\ Refs(x)' = {} ELSE count'[x] = Cardinality(Refs(x)')
    <3>1. x \in Slots /\ x \notin {g, h} /\ x # -1
      <4>1. x \in Slots /\ x \notin {g, h}
        BY <1>2 DEF TypeOK
      <4> QED BY <4>1
    <3>2. ASSUME NEW u, NEW f PROVE <<u, f>> \in Refs(x)' <=> <<u, f>> \in Refs(x)
      <4>1. u \in alive /\ f \in Locals => (fd_table'[u][f] = x <=> fd_table[u][f] = x)
        BY <1>8, <3>1
      <4> QED BY <1>1, <4>1, RefsMember, RefsMemberNext
    <3>3. \A y \in Refs(x)' \cup Refs(x) : \E u, f : y = <<u, f>>
      BY RefsMember, RefsMemberNext
    <3>4. Refs(x)' = Refs(x)
      BY <3>2, <3>3, PairsEqual
    <3>5. count'[x] = count[x]
      BY <1>3, <3>1 DEF TypeOK
    <3> QED BY <1>9, <3>1, <3>4, <3>5 DEF CountExact
  <2>3. ASSUME NEW x \in {g, h}
        PROVE  IF x \in lost' THEN count'[x] = 1 /\ Refs(x)' = {} ELSE count'[x] = Cardinality(Refs(x)')
    <3>1. count'[x] = 1 /\ x \in Slots
      BY <1>2, <1>3 DEF TypeOK
    <3>2. ASSUME NEW u, NEW f
          PROVE  <<u, f>> \in Refs(x)' <=> u = t /\ f \in Locals /\ new[f] = x
      <4>1. u \in alive /\ f \in Locals /\ fd_table'[u][f] = x => u = t
        BY <1>5, <1>8
      <4> QED BY <1>1, <1>9, <4>1, RefsMemberNext
    <3>3. \A y \in Refs(x)' : \E u, f : y = <<u, f>>
      BY RefsMemberNext
    <3>4. CASE \A f \in Locals : new[f] # x
      <4>1. x \in lost'
        BY <1>17, <3>4
      <4>2. Refs(x)' = {}
        BY <3>2, <3>3, <3>4
      <4> QED BY <3>1, <4>1, <4>2
    <3>5. CASE \E f \in Locals : new[f] = x
      <4>1. PICK f \in Locals : new[f] = x
        BY <3>5
      <4>2. \A e \in Locals : new[e] = x => e = f
        BY <1>6, <2>3, <4>1 DEF Installed
      <4>3. \A u, e : <<u, e>> \in Refs(x)' <=> <<u, e>> \in {<<t, f>>}
        BY <3>2, <4>1, <4>2
      <4>4. \A y \in Refs(x)' \cup {<<t, f>>} : \E u, e : y = <<u, e>>
        BY <3>3
      <4>5. Refs(x)' = {<<t, f>>}
        BY <4>3, <4>4, PairsEqual
      <4>6. Cardinality(Refs(x)') = 1
        BY <4>5, FS_Singleton
      <4>7. x \notin lost'
        BY <1>2, <1>17, <2>3, <4>1 DEF CountExact
      <4> QED BY <3>1, <4>6, <4>7
    <3> QED BY <3>4, <3>5
  <2> QED BY <1>17, <2>1, <2>2, <2>3 DEF CountExact
<1>11. \A x \in Slots : x \notin {g, h} => file'[x] = file[x]
  BY <1>3 DEF TypeOK
<1>12. /\ file'[g] = [pipe |-> p, end |-> "reader"] /\ file'[h] = [pipe |-> p, end |-> "writer"]
       /\ has'[p] = Ends /\ \A q \in Pipes : q # p => has'[q] = has[q]
  BY <1>2, <1>3 DEF TypeOK
<1>13. ASSUME NEW x \in used
       PROVE  /\ x \in Slots /\ x \notin {g, h} /\ file'[x] = file[x] /\ file[x].pipe # p
              /\ file[x] \in [pipe : Pipes, end : Ends]
  <2>1. x \in Slots /\ x \notin {g, h} /\ file[x] \in [pipe : Pipes, end : Ends]
    BY <1>2 DEF TypeOK, SlotsDistinct
  <2>2. file[x].pipe # p
    <3>1. SUFFICES ASSUME file[x].pipe = p PROVE FALSE
      OBVIOUS
    <3>2. file[x] = [pipe |-> p, end |-> file[x].end] /\ file[x].end \in Ends
      BY <2>1, <3>1
    <3> QED BY <1>1, <3>2 DEF PipesOwned
  <2> QED BY <1>11, <2>1, <2>2
<1>14. PipesOwned'
  <2>1. ASSUME NEW u \in alive, NEW f \in Locals, fd_table'[u][f] >= NStd
        PROVE  LET x == fd_table'[u][f]
               IN x \in used' /\ file'[x].pipe # NULL /\ file'[x].end \in has'[file'[x].pipe]
    <3> DEFINE x == fd_table'[u][f]
    <3>1. CASE x \in {g, h}
      BY <1>12, <1>17, <3>1 DEF Ends
    <3>2. CASE x \notin {g, h}
      <4>1. x = fd_table[u][f] /\ x \in used /\ file[x].end \in has[file[x].pipe]
        BY <1>8, <2>1, <3>2 DEF PipesOwned
      <4> HIDE DEF x
      <4>2. x \in used' /\ file'[x] = file[x] /\ file[x].pipe # NULL /\ file[x].pipe \in Pipes \ {p}
        BY <1>13, <1>17, <4>1
      <4>3. file'[x].end \in has'[file'[x].pipe]
        BY <1>12, <4>1, <4>2
      <4> QED BY <4>2, <4>3 DEF x
    <3> QED BY <3>1, <3>2
  <2>2. ASSUME NEW q \in Pipes, NEW e \in Ends
        PROVE  e \in has'[q] <=> \E x \in used' : file'[x] = [pipe |-> q, end |-> e]
    <3>1. CASE q = p
      BY <1>12, <1>17, <3>1 DEF Ends
    <3>2. CASE q # p
      <4>1. \A x \in {g, h} : file'[x] # [pipe |-> q, end |-> e]
        BY <1>12, <3>2
      <4>2. \A x \in used : file'[x] = file[x]
        BY <1>13
      <4>3. has'[q] = has[q]
        BY <1>12, <3>2
      <4> QED BY <1>17, <4>1, <4>2, <4>3 DEF PipesOwned
    <3> QED BY <3>1, <3>2
  <2> QED BY <1>1, <2>1, <2>2 DEF PipesOwned
<1>15. CallsOnPipes'
  <2>1. ASSUME NEW u \in Procs, op[u] # "none"
        PROVE  u \in alive /\ u # t /\ fd[u] \in Locals /\ fd_table'[u][fd[u]] = fd_table[u][fd[u]]
    BY <1>1, <1>8, <2>1 DEF TypeOK, CallsOnPipes
  <2>2. ASSUME NEW u \in Procs, op[u] = "release"
        PROVE  /\ fd_table[u][fd[u]] \notin lost'
               /\ \A v \in alive : \A f \in Locals :
                     fd_table'[v][f] = fd_table[u][fd[u]] => v = u /\ f = fd[u]
    <3>1. fd_table[u][fd[u]] \notin {g, h} /\ fd_table[u][fd[u]] >= NStd
      BY <1>5, <2>1, <2>2 DEF CallsOnPipes
    <3> QED BY <1>8, <1>17, <2>2, <3>1 DEF CallsOnPipes
  <2> QED BY <1>1, <2>1, <2>2 DEF CallsOnPipes
<1>16. SlotsDistinct'
  <2>1. \A x \in used' : file'[x] # NoFile
    <3>1. \A e : [pipe |-> p, end |-> e] # NoFile
      BY DEF NoFile
    <3> QED BY <1>12, <1>13, <1>17, <3>1 DEF SlotsDistinct
  <2>2. ASSUME NEW x \in used', NEW y \in used', file'[x] = file'[y] PROVE x = y
    <3>1. CASE x \in used /\ y \in used
      BY <1>13, <2>2, <3>1 DEF SlotsDistinct
    <3>2. CASE x \in {g, h} \/ y \in {g, h}
      <4>1. file'[g].pipe = p /\ file'[h].pipe = p /\ file'[g] # file'[h]
        BY <1>12
      <4> QED BY <1>13, <1>17, <2>2, <3>2, <4>1
    <3> QED BY <1>17, <3>1, <3>2
  <2> QED BY <2>1, <2>2 DEF SlotsDistinct
<1> QED BY <1>1, <1>7, <1>10, <1>14, <1>15, <1>16

\* sys_fd_redirect counts the descriptor it copies.
LEMMA RedirectStep ==
  ASSUME FilesInv, NEW t \in Procs, NEW f0 \in Locals, NEW f1 \in Locals,
         sys_fd_redirect(t, f0, f1)
  PROVE  FilesInv'
<1> USE DEF FilesInv
<1> DEFINE g == fd_table[t][f1]
<1>1. /\ t \in alive /\ op[t] = "none" /\ f0 < NStd /\ f1 >= NStd
      /\ fd_table[t][f0] \in 0..(NStd - 1) /\ g # -1
      /\ UNCHANGED <<alive, used, file, lost, has, closed, level, lock, op, fd, todo, exiting>>
  BY DEF sys_fd_redirect, InUser, pipeVars
<1>0. TypeOK
  OBVIOUS
<1>2. g \in -1..(MaxOpen - 1)
  <2>1. fd_table[t] \in [Locals -> -1..(MaxOpen - 1)]
    BY <1>0 DEF TypeOK
  <2> QED BY <2>1
<1>3. /\ fd_table' \in [Procs -> [Locals -> -1..(MaxOpen - 1)]]
      /\ fd_table'[t][f0] = g
      /\ \A u \in Procs, f \in Locals :
            ~(u = t /\ f = f0) => fd_table'[u][f] = fd_table[u][f]
  <2>1. fd_table' = [fd_table EXCEPT ![t][f0] = g]
    BY DEF sys_fd_redirect
  <2> HIDE DEF g, FilesInv
  <2> QED BY <1>0, <1>2, <2>1 DEF TypeOK
<1>4. count' = [count EXCEPT ![g] = @ + 1]
  BY DEF sys_fd_redirect
<1>5. /\ count' \in [Slots -> Nat]
      /\ \A x \in Slots : count'[x] = IF x = g THEN count[x] + 1 ELSE count[x]
  <2> HIDE DEF g
  <2>1. count \in [Slots -> Nat]
    BY <1>0 DEF TypeOK
  <2>2. CASE g \in Slots
    <3>1. count[g] + 1 \in Nat
      BY <2>1, <2>2
    <3> QED BY <1>4, <2>1, <3>1
  <2>3. CASE g \notin Slots
    <3>1. count' = count
      BY <1>4, <2>1, <2>3
    <3> QED BY <2>1, <2>3, <3>1
  <2> QED BY <2>2, <2>3
<1>6. TypeOK'
  BY <1>1, <1>3, <1>5 DEF TypeOK
<1> HIDE DEF g
<1>7. <<t, f1>> \in Refs(g)
  BY <1>1, RefsMember DEF g
<1>8. CountExact'
  <2>1. SUFFICES ASSUME NEW x \in used
                 PROVE  IF x \in lost THEN count'[x] = 1 /\ Refs(x)' = {}
                                     ELSE count'[x] = Cardinality(Refs(x)')
    BY <1>1 DEF CountExact
  <2>2. x \in Slots /\ x >= NStd
    BY DEF TypeOK
  <2>3. \A y \in Refs(x)' \cup Refs(x) \cup {<<t, f0>>} : \E u, f : y = <<u, f>>
    BY RefsMember, RefsMemberNext
  <2>4. CASE x = g
    <3>1. x \notin lost
      BY <1>7, <2>1, <2>4 DEF CountExact
    <3>2. ASSUME NEW u, NEW f
          PROVE  <<u, f>> \in Refs(x)' <=> <<u, f>> \in Refs(x) \cup {<<t, f0>>}
      <4>1. CASE u = t /\ f = f0
        BY <1>1, <1>3, <2>4, <4>1, RefsMemberNext
      <4>2. CASE ~(u = t /\ f = f0)
        <5>1. u \in alive /\ f \in Locals => fd_table'[u][f] = fd_table[u][f]
          BY <1>3, <4>2 DEF TypeOK
        <5> QED BY <1>1, <4>2, <5>1, RefsMember, RefsMemberNext
      <4> QED BY <4>1, <4>2
    <3>3. Refs(x)' = Refs(x) \cup {<<t, f0>>}
      BY <2>3, <3>2, PairsEqual
    <3>4. <<t, f0>> \notin Refs(x)
      BY <1>1, <2>2, RefsMember
    <3>5. IsFiniteSet(Refs(x)) /\ Cardinality(Refs(x)) \in Nat
      BY RefsFinite
    <3>6. Cardinality(Refs(x)') = Cardinality(Refs(x)) + 1
      BY <3>3, <3>4, <3>5, FS_AddElement
    <3>7. count[x] = Cardinality(Refs(x))
      BY <2>1, <3>1 DEF CountExact
    <3> QED BY <1>5, <2>2, <2>4, <3>1, <3>6, <3>7
  <2>5. CASE x # g
    <3>1. ASSUME NEW u, NEW f PROVE <<u, f>> \in Refs(x)' <=> <<u, f>> \in Refs(x)
      <4>1. CASE u = t /\ f = f0
        <5>1. fd_table'[t][f0] # x /\ fd_table[t][f0] # x
          BY <1>1, <1>3, <2>2, <2>5, SMTT(20)
        <5> QED BY <4>1, <5>1, RefsMember, RefsMemberNext
      <4>2. CASE ~(u = t /\ f = f0)
        <5>1. u \in alive /\ f \in Locals => fd_table'[u][f] = fd_table[u][f]
          BY <1>3, <4>2 DEF TypeOK
        <5> QED BY <1>1, <4>2, <5>1, RefsMember, RefsMemberNext
      <4> QED BY <4>1, <4>2
    <3>2. Refs(x)' = Refs(x)
      BY <2>3, <3>1, PairsEqual
    <3>3. count'[x] = count[x]
      BY <1>5, <2>2, <2>5
    <3> QED BY <2>1, <3>2, <3>3 DEF CountExact
  <2> QED BY <2>4, <2>5
<1>9. \A u \in alive, f \in Locals : \E e \in Locals :
        /\ fd_table'[u][f] = fd_table[u][e]
        /\ ~(u = t /\ f = f0) => e = f
  <2>1. \A u \in alive : u \in Procs
    BY DEF TypeOK
  <2> QED BY <1>3, <2>1 DEF g
<1>10. PipesOwned'
  <2>1. ASSUME NEW u \in alive, NEW f \in Locals, fd_table'[u][f] >= NStd
        PROVE  LET x == fd_table'[u][f]
               IN x \in used /\ file[x].pipe # NULL /\ file[x].end \in has[file[x].pipe]
    <3>1. PICK e \in Locals : fd_table'[u][f] = fd_table[u][e]
      BY <1>9
    <3> QED BY <2>1, <3>1 DEF PipesOwned
  <2> QED BY <1>1, <2>1 DEF PipesOwned
<1>11. CallsOnPipes'
  <2>1. \A u \in Procs : op[u] # "none" =>
           u \in alive /\ u # t /\ fd_table'[u][fd[u]] = fd_table[u][fd[u]]
    BY <1>1, <1>3, ZenonT(40) DEF TypeOK, CallsOnPipes
  <2>2. ASSUME NEW u \in Procs, op[u] = "release", NEW v \in alive, NEW f \in Locals,
               fd_table'[v][f] = fd_table[u][fd[u]]
        PROVE  v = u /\ f = fd[u]
    <3>1. PICK e \in Locals : /\ fd_table'[v][f] = fd_table[v][e]
                              /\ ~(v = t /\ f = f0) => e = f
      BY <1>9
    <3>2. v = u /\ e = fd[u]
      BY <2>2, <3>1, ZenonT(40) DEF CallsOnPipes
    <3> QED BY <2>1, <2>2, <3>1, <3>2
  <2> QED BY <1>1, <2>1, <2>2 DEF CallsOnPipes
<1>12. SlotsDistinct'
  BY <1>1 DEF SlotsDistinct
<1> QED BY <1>1, <1>6, <1>8, <1>10, <1>11, <1>12

\* Closing a descriptor: the count goes down with the references, and if it was
\* the last one, it is the only one whose close releases the slot.
LEMMA CloseStep ==
  ASSUME FilesInv, NEW t \in alive, NEW f0 \in Locals,
         op[t] = "none", fd_table[t][f0] # -1, Close(t, f0),
         UNCHANGED <<alive, used, file, lost, has, closed, level, lock, todo, exiting>>
  PROVE  FilesInv'
<1> USE DEF FilesInv
<1> DEFINE g == fd_table[t][f0]
           Forgotten == /\ fd_table' = [fd_table EXCEPT ![t][f0] = -1]
                        /\ UNCHANGED <<op, fd>>
           Last == /\ g >= NStd /\ count[g] = 1
                   /\ op' = [op EXCEPT ![t] = "release"]
                   /\ fd' = [fd EXCEPT ![t] = f0]
                   /\ UNCHANGED fd_table
<1>0. TypeOK /\ t \in Procs
  BY DEF TypeOK
<1>1. Forgotten \/ Last
  BY DEF Close
<1>2. \/ g < NStd /\ UNCHANGED count
      \/ g >= NStd /\ count' = [count EXCEPT ![g] = @ - 1]
  BY DEF Close
<1>3. g \in 0..(MaxOpen - 1)
  <2>1. fd_table[t] \in [Locals -> -1..(MaxOpen - 1)]
    BY <1>0 DEF TypeOK
  <2> QED BY <2>1
<1>4. <<t, f0>> \in Refs(g)
  BY RefsMember
<1>5. g >= NStd => g \in used /\ g \notin lost /\ g \in Slots
  <2>1. g >= NStd => g \in used
    BY DEF PipesOwned
  <2>2. g \in used => g \notin lost
    BY <1>4 DEF CountExact
  <2> QED BY <1>3, <2>1, <2>2
<1>6. g >= NStd => /\ IsFiniteSet(Refs(g)) /\ count[g] = Cardinality(Refs(g))
                   /\ Cardinality(Refs(g)) \in Nat \ {0}
  <2>1. IsFiniteSet(Refs(g)) /\ Cardinality(Refs(g)) \in Nat
    BY RefsFinite
  <2>2. Cardinality(Refs(g)) # 0
    BY <1>4, <2>1, FS_EmptySet
  <2>3. g >= NStd => count[g] = Cardinality(Refs(g))
    BY <1>5 DEF CountExact
  <2> QED BY <2>1, <2>2, <2>3
<1>7. ASSUME Forgotten
      PROVE  /\ fd_table' \in [Procs -> [Locals -> -1..(MaxOpen - 1)]]
             /\ fd_table'[t][f0] = -1
             /\ \A u \in Procs, f \in Locals :
                   ~(u = t /\ f = f0) => fd_table'[u][f] = fd_table[u][f]
             /\ op' = op /\ fd' = fd
  <2>1. fd_table' = [fd_table EXCEPT ![t][f0] = -1] /\ op' = op /\ fd' = fd
    BY <1>7
  <2>2. fd_table \in [Procs -> [Locals -> -1..(MaxOpen - 1)]]
    BY <1>0 DEF TypeOK
  <2>3. -1 \in -1..(MaxOpen - 1)
    BY FilesAssumption
  <2> QED BY <1>0, <2>1, <2>2, <2>3
<1>8. ASSUME Last
      PROVE  /\ fd_table' = fd_table /\ g >= NStd /\ count[g] = 1
             /\ op'[t] = "release" /\ fd'[t] = f0
             /\ \A u \in Procs : u # t => op'[u] = op[u] /\ fd'[u] = fd[u]
             /\ op' \in [Procs -> {"none", "read", "lock", "write", "release"}]
             /\ fd' \in [Procs -> Locals]
  BY <1>0, <1>8 DEF TypeOK
<1>9. /\ count' \in [Slots -> Nat]
      /\ \A x \in Slots : count'[x] = IF x = g THEN count[x] - 1 ELSE count[x]
  <2>1. count \in [Slots -> Nat]
    BY <1>0 DEF TypeOK
  <2> HIDE DEF g
  <2>2. CASE g < NStd /\ UNCHANGED count
    BY <1>3, <2>1, <2>2
  <2>3. CASE g >= NStd /\ count' = [count EXCEPT ![g] = @ - 1]
    <3>1. count[g] - 1 \in Nat /\ g \in Slots
      BY <1>5, <1>6, <2>3
    <3> QED BY <2>1, <2>3, <3>1
  <2> QED BY <1>2, <2>2, <2>3
<1> HIDE DEF Forgotten, Last, g
<1>10. TypeOK'
  <2>1. CASE Forgotten
    BY <1>0, <1>7, <1>9, <2>1 DEF TypeOK
  <2>2. CASE Last
    BY <1>0, <1>8, <1>9, <2>2 DEF TypeOK
  <2> QED BY <1>1, <2>1, <2>2
<1>11. ASSUME NEW x \in used
       PROVE  Refs(x)' = Refs(x) \ {<<t, f0>>}
  <2>1. ASSUME NEW u, NEW f
        PROVE  <<u, f>> \in Refs(x)' <=> <<u, f>> \in Refs(x) /\ ~(u = t /\ f = f0)
    <3>1. x # -1
      <4>1. x \in Slots
        BY <1>0 DEF TypeOK
      <4> QED BY <4>1
    <3>2. u \in alive => u \in Procs
      BY <1>0 DEF TypeOK
    <3>3. CASE Forgotten
      <4>1. CASE u = t /\ f = f0
        BY <1>7, <3>1, <3>3, <4>1, RefsMemberNext
      <4>2. CASE ~(u = t /\ f = f0)
        <5>1. u \in alive /\ f \in Locals => fd_table'[u][f] = fd_table[u][f]
          BY <1>7, <3>2, <3>3, <4>2
        <5>2. op' = op /\ fd' = fd
          BY <1>7, <3>3
        <5> QED BY <4>2, <5>1, <5>2, RefsMember, RefsMemberNext
      <4> QED BY <4>1, <4>2
    <3>4. CASE Last
      BY <1>8, <3>2, <3>4, RefsMember, RefsMemberNext
    <3> QED BY <1>1, <3>3, <3>4
  <2>2. \A y \in Refs(x)' \cup (Refs(x) \ {<<t, f0>>}) : \E u, f : y = <<u, f>>
    BY RefsMember, RefsMemberNext
  <2>3. \A u, f : <<u, f>> \in Refs(x)' <=> <<u, f>> \in Refs(x) \ {<<t, f0>>}
    BY <2>1
  <2> QED BY <2>2, <2>3, PairsEqual
<1>12. CountExact'
  <2>1. SUFFICES ASSUME NEW x \in used
                 PROVE  IF x \in lost THEN count'[x] = 1 /\ Refs(x)' = {}
                                     ELSE count'[x] = Cardinality(Refs(x)')
    BY DEF CountExact
  <2>2. x \in Slots
    BY <1>0 DEF TypeOK
  <2>3. CASE x = g
    <3>1. g >= NStd /\ x \notin lost
      BY <1>5, <2>2, <2>3
    <3>2. Cardinality(Refs(x) \ {<<t, f0>>}) = Cardinality(Refs(x)) - 1
      BY <1>4, <1>6, <2>3, <3>1, FS_RemoveElement
    <3> QED BY <1>6, <1>9, <1>11, <2>2, <2>3, <3>1, <3>2
  <2>4. CASE x # g
    <3>1. <<t, f0>> \notin Refs(x)
      BY <2>4, RefsMember DEF g
    <3>2. Refs(x)' = Refs(x)
      BY <1>11, <3>1
    <3> QED BY <1>9, <2>1, <2>2, <2>4, <3>2 DEF CountExact
  <2> QED BY <2>3, <2>4
<1>13. \A u \in alive, f \in Locals : fd_table'[u][f] # -1 => fd_table'[u][f] = fd_table[u][f]
  <2>1. \A u \in alive : u \in Procs
    BY <1>0 DEF TypeOK
  <2>2. CASE Forgotten
    BY <1>7, <2>1, <2>2
  <2>3. CASE Last
    BY <1>8, <2>3
  <2> QED BY <1>1, <2>2, <2>3
<1>14. PipesOwned'
  <2>1. ASSUME NEW u \in alive, NEW f \in Locals, fd_table'[u][f] >= NStd
        PROVE  LET x == fd_table'[u][f]
               IN x \in used /\ file[x].pipe # NULL /\ file[x].end \in has[file[x].pipe]
    <3>1. fd_table'[u][f] = fd_table[u][f]
      BY <1>13, <2>1
    <3> QED BY <2>1, <3>1 DEF PipesOwned
  <2> QED BY <2>1 DEF PipesOwned
<1>15. CallsOnPipes'
  <2>1. ASSUME NEW u \in Procs, u # t
        PROVE  op'[u] = op[u] /\ fd'[u] = fd[u] /\ fd'[u] \in Locals
               /\ \A f \in Locals : fd_table'[u][f] = fd_table[u][f]
    <3>1. fd[u] \in Locals
      BY <1>0 DEF TypeOK
    <3>2. CASE Forgotten
      BY <1>7, <2>1, <3>1, <3>2
    <3>3. CASE Last
      BY <1>8, <2>1, <3>1, <3>3
    <3> QED BY <1>1, <3>2, <3>3
  <2>2. ASSUME NEW u \in Procs, u # t, op[u] = "release"
        PROVE  /\ fd_table[u][fd[u]] \notin lost /\ fd_table[u][fd[u]] # -1
               /\ \A v \in alive : \A f \in Locals :
                     fd_table'[v][f] = fd_table[u][fd[u]] => v = u /\ f = fd[u]
    <3>1. fd_table[u][fd[u]] # -1
      BY <2>2 DEF CallsOnPipes
    <3> QED BY <1>13, <2>2, <3>1 DEF CallsOnPipes
  <2>3. ASSUME NEW u \in Procs, u # t
        PROVE  /\ op'[u] # "none" => u \in alive' /\ fd_table'[u][fd'[u]] >= NStd
               /\ op'[u] = "release" =>
                    /\ fd_table'[u][fd'[u]] \notin lost'
                    /\ \A v \in alive' : \A f \in Locals :
                          fd_table'[v][f] = fd_table'[u][fd'[u]] => v = u /\ f = fd'[u]
    <3>1. op[u] # "none" => u \in alive /\ fd_table[u][fd[u]] >= NStd
      BY DEF CallsOnPipes
    <3> QED BY <2>1, <2>2, <2>3, <3>1
  <2>4. /\ op'[t] # "none" => t \in alive' /\ fd_table'[t][fd'[t]] >= NStd
        /\ op'[t] = "release" =>
             /\ fd_table'[t][fd'[t]] \notin lost'
             /\ \A v \in alive' : \A f \in Locals :
                   fd_table'[v][f] = fd_table'[t][fd'[t]] => v = t /\ f = fd'[t]
    <3>1. CASE Forgotten
      BY <1>7, <3>1
    <3>2. CASE Last
      <4>1. fd_table'[t][fd'[t]] = g /\ g >= NStd /\ fd'[t] = f0 /\ g \notin lost
        BY <1>5, <1>8, <3>2 DEF g
      <4>2. ASSUME NEW v \in alive, NEW f \in Locals, fd_table[v][f] = g
            PROVE  v = t /\ f = f0
        <5>1. ~(op[v] = "release" /\ fd[v] = f)
          <6>1. SUFFICES ASSUME op[v] = "release", fd[v] = f PROVE FALSE
            OBVIOUS
          <6>2. v \in Procs
            BY <1>0 DEF TypeOK
          <6>3. t = v
            BY <4>2, <6>1, <6>2 DEF CallsOnPipes, g
          <6> QED BY <6>1, <6>3
        <5>2. <<v, f>> \in Refs(g)
          BY <4>2, <5>1, RefsMember
        <5>3. Cardinality(Refs(g)) = 1 /\ IsFiniteSet(Refs(g))
          BY <1>6, <1>8, <3>2
        <5>4. \E y : Refs(g) = {y}
          BY <5>3, FS_Singleton
        <5> QED BY <1>4, <5>2, <5>4
      <4>3. fd_table' = fd_table
        BY <1>8, <3>2
      <4> QED BY <4>1, <4>2, <4>3
    <3> QED BY <1>1, <3>1, <3>2
  <2> QED BY <2>3, <2>4 DEF CallsOnPipes
<1>16. SlotsDistinct'
  BY DEF SlotsDistinct
<1> QED BY <1>10, <1>12, <1>14, <1>15, <1>16

\* The release gives back the slot, which no other descriptor refers to, and the
\* end of the pipe, which no other slot is.
LEMMA ReleaseStep ==
  ASSUME FilesInv, NEW t \in Procs, release(t)
  PROVE  FilesInv'
<1> USE DEF FilesInv
<1> DEFINE f0 == fd[t]
           g == fd_table[t][f0]
           p == ThePipe(t)
           e == TheFile(t).end
<1>0. TypeOK /\ op[t] = "release"
  BY DEF release
<1>1. /\ t \in alive /\ f0 \in Locals /\ g \in used /\ g \in Slots
      /\ p \in Pipes /\ e \in has[p] /\ file[g] = [pipe |-> p, end |-> e]
  <2>1. op[t] # "none"
    BY <1>0
  <2> QED BY <2>1, CallFacts DEF TheFile
<1>2. /\ g \notin lost
      /\ \A u \in alive : \A f \in Locals : fd_table[u][f] = g => u = t /\ f = f0
  BY <1>0 DEF CallsOnPipes
<1>3. /\ has' = [has EXCEPT ![p] = @ \ {e}]
      /\ closed' = [closed EXCEPT ![p] = TRUE]
      /\ used' = used \ {g}
      /\ file' = [file EXCEPT ![g] = NoFile]
      /\ UNCHANGED <<alive, count, lost, level, lock, exiting>>
  BY DEF release
<1>4. fd_table' = [fd_table EXCEPT ![t][f0] = -1]
  BY DEF release
<1>5. /\ op' = [op EXCEPT ![t] = "none"]
      /\ fd' = [fd EXCEPT ![t] = 0]
      /\ todo' = [todo EXCEPT ![t] = 0]
  BY DEF release, Return
<1> HIDE DEF f0, g, p, e
<1>6. /\ fd_table' \in [Procs -> [Locals -> -1..(MaxOpen - 1)]]
      /\ fd_table'[t][f0] = -1
      /\ \A u \in Procs, f \in Locals :
            ~(u = t /\ f = f0) => fd_table'[u][f] = fd_table[u][f]
  <2>1. fd_table \in [Procs -> [Locals -> -1..(MaxOpen - 1)]]
    BY <1>0 DEF TypeOK
  <2>2. -1 \in -1..(MaxOpen - 1)
    BY FilesAssumption
  <2> QED BY <1>1, <1>4, <2>1, <2>2
<1>7. /\ op' \in [Procs -> {"none", "read", "lock", "write", "release"}]
      /\ fd' \in [Procs -> Locals]
      /\ todo' \in [Procs -> 0..MaxTransfer]
      /\ op'[t] = "none"
      /\ \A u \in Procs : u # t => op'[u] = op[u] /\ fd'[u] = fd[u]
  BY <1>0, <1>5, SMTT(20) DEF TypeOK
<1>8. /\ has' \in [Pipes -> SUBSET Ends]
      /\ has'[p] = has[p] \ {e} /\ \A q \in Pipes : q # p => has'[q] = has[q]
  BY <1>0, <1>1, <1>3 DEF TypeOK
<1>9. /\ file' \in [Slots -> [pipe : Pipes, end : Ends] \cup {NoFile}]
      /\ \A x \in used \ {g} : x \in Slots /\ file'[x] = file[x]
  BY <1>0, <1>1, <1>3 DEF TypeOK
<1>10. TypeOK'
  <2>1. closed' \in [Pipes -> BOOLEAN]
    BY <1>0, <1>3 DEF TypeOK
  <2> QED BY <1>0, <1>3, <1>6, <1>7, <1>8, <1>9, <2>1 DEF TypeOK
<1>20. used' = used \ {g} /\ UNCHANGED <<alive, count, lost, exiting>>
  BY <1>3
<1>11. \A u \in alive : u \in Procs
  BY <1>0 DEF TypeOK
<1>12. ASSUME NEW x \in used \ {g}
       PROVE  Refs(x)' = Refs(x)
  <2>1. ASSUME NEW u, NEW f
        PROVE  <<u, f>> \in Refs(x)' <=> <<u, f>> \in Refs(x)
    <3>1. x # -1 /\ x # g
      <4>1. x \in Slots
        BY <1>0 DEF TypeOK
      <4> QED BY <4>1
    <3>2. CASE u = t /\ f = f0
      <4>1. fd_table[u][f] # x /\ fd_table'[u][f] # x
        BY <1>6, <3>1, <3>2 DEF g
      <4> QED BY <4>1, RefsMember, RefsMemberNext
    <3>3. CASE u = t /\ f # f0
      <4>1. ~(op[u] = "release" /\ fd[u] = f) /\ ~(op'[u] = "release" /\ fd'[u] = f)
        BY <1>7, <3>3 DEF f0
      <4>2. f \in Locals => fd_table'[u][f] = fd_table[u][f]
        BY <1>6, <3>3
      <4> QED BY <1>20, <4>1, <4>2, RefsMember, RefsMemberNext
    <3>4. CASE u # t
      <4>1. u \in alive => op'[u] = op[u] /\ fd'[u] = fd[u]
        BY <1>7, <1>11, <3>4
      <4>2. u \in alive /\ f \in Locals => fd_table'[u][f] = fd_table[u][f]
        BY <1>6, <1>11, <3>4
      <4> QED BY <1>20, <4>1, <4>2, RefsMember, RefsMemberNext
    <3> QED BY <3>2, <3>3, <3>4
  <2>2. \A y \in Refs(x)' \cup Refs(x) : \E u, f : y = <<u, f>>
    BY RefsMember, RefsMemberNext
  <2> QED BY <2>1, <2>2, PairsEqual
<1>13. CountExact'
  BY <1>2, <1>12, <1>20 DEF CountExact
<1>14. \A u \in alive, f \in Locals : fd_table'[u][f] # -1 =>
          fd_table'[u][f] = fd_table[u][f] /\ fd_table[u][f] # g
  <2>1. ASSUME NEW u \in alive, NEW f \in Locals, fd_table'[u][f] # -1
        PROVE  fd_table'[u][f] = fd_table[u][f] /\ fd_table[u][f] # g
    <3>1. ~(u = t /\ f = f0)
      BY <1>6, <2>1
    <3> QED BY <1>2, <1>6, <1>11, <3>1
  <2> QED BY <2>1
<1>15. ASSUME NEW x \in used \ {g}
       PROVE  file[x] \in [pipe : Pipes, end : Ends] /\ file[x] # [pipe |-> p, end |-> e]
  <2>1. file[x] \in [pipe : Pipes, end : Ends]
    BY <1>0, <1>9 DEF TypeOK, SlotsDistinct
  <2> QED BY <1>1, <2>1 DEF SlotsDistinct
<1>16. PipesOwned'
  <2>1. ASSUME NEW u \in alive, NEW f \in Locals, fd_table'[u][f] >= NStd
        PROVE  LET x == fd_table'[u][f]
               IN x \in used' /\ file'[x].pipe # NULL /\ file'[x].end \in has'[file'[x].pipe]
    <3> DEFINE x == fd_table[u][f]
    <3>1. fd_table'[u][f] = x /\ x # g
      BY <1>14, <2>1
    <3>2. x \in used \ {g} /\ file[x].end \in has[file[x].pipe]
      BY <2>1, <3>1 DEF PipesOwned
    <3> HIDE DEF x
    <3>3. file'[x] = file[x]
      BY <1>9, <3>2
    <3>4. file[x].pipe \in Pipes /\ (file[x].pipe = p => file[x].end # e)
      BY <1>15, <3>2
    <3>5. file[x].end \in has'[file[x].pipe]
      BY <1>8, <3>2, <3>4
    <3> QED BY <1>20, <3>1, <3>2, <3>3, <3>4, <3>5
  <2>2. ASSUME NEW q \in Pipes, NEW d \in Ends
        PROVE  d \in has'[q] <=> \E x \in used' : file'[x] = [pipe |-> q, end |-> d]
    <3>1. d \in has[q] <=> \E x \in used : file[x] = [pipe |-> q, end |-> d]
      BY DEF PipesOwned
    <3>2. CASE q = p /\ d = e
      <4>1. d \notin has'[q]
        BY <1>8, <3>2
      <4>2. \A x \in used' : file'[x] # [pipe |-> q, end |-> d]
        BY <1>9, <1>15, <1>20, <3>2
      <4> QED BY <4>1, <4>2
    <3>3. CASE ~(q = p /\ d = e)
      <4>1. d \in has'[q] <=> d \in has[q]
        BY <1>8, <3>3
      <4>2. file[g] # [pipe |-> q, end |-> d]
        BY <1>1, <3>3
      <4>3. \A x \in used' : file'[x] = file[x]
        BY <1>9, <1>20
      <4> QED BY <1>20, <3>1, <4>1, <4>2, <4>3
    <3> QED BY <3>2, <3>3
  <2> QED BY <1>20, <2>1, <2>2 DEF PipesOwned
<1>17. CallsOnPipes'
  <2>1. ASSUME NEW u \in Procs, op'[u] # "none"
        PROVE  /\ u \in alive /\ fd_table[u][fd[u]] >= NStd /\ op'[u] = op[u] /\ fd'[u] = fd[u]
               /\ fd_table'[u][fd[u]] = fd_table[u][fd[u]]
    <3>1. u # t
      BY <1>7, <2>1
    <3>2. op'[u] = op[u] /\ fd'[u] = fd[u]
      BY <1>7, <3>1
    <3>3. u \in alive /\ fd_table[u][fd[u]] >= NStd
      BY <2>1, <3>2 DEF CallsOnPipes
    <3>4. fd[u] \in Locals
      BY <1>0 DEF TypeOK
    <3> QED BY <1>6, <3>1, <3>2, <3>3, <3>4
  <2>2. ASSUME NEW u \in Procs, op'[u] = "release"
        PROVE  /\ fd_table[u][fd[u]] \notin lost
               /\ \A v \in alive : \A f \in Locals :
                     fd_table'[v][f] = fd_table[u][fd[u]] => v = u /\ f = fd[u]
    <3>1. op[u] = "release" /\ fd_table[u][fd[u]] # -1
      BY <2>1, <2>2
    <3> QED BY <1>14, <3>1 DEF CallsOnPipes
  <2> QED BY <1>20, <2>1, <2>2 DEF CallsOnPipes
<1>18. SlotsDistinct'
  BY <1>9, <1>20 DEF SlotsDistinct
<1> QED BY <1>10, <1>13, <1>16, <1>17, <1>18, <1>20

\* The end of sys_exit: the process has no descriptor left.
LEMMA ExitEndStep ==
  ASSUME FilesInv, NEW t \in exiting, op[t] = "none",
         \A f \in Locals : fd_table[t][f] = -1,
         alive' = alive \ {t}, exiting' = exiting \ {t},
         UNCHANGED <<fd_table, count, op, fd, used, file, lost, pipeVars, todo>>
  PROVE  FilesInv'
<1> USE DEF FilesInv, pipeVars
<1>1. TypeOK'
  BY DEF TypeOK
<1>2. IsFiniteSet(alive')
  BY FS_RemoveElement
<1>3. ASSUME NEW x \in used PROVE Refs(x)' = Refs(x)
  <2>1. x # -1
    <3>1. x \in Slots
      BY DEF TypeOK
    <3> QED BY <3>1
  <2>2. ASSUME NEW u, NEW f PROVE <<u, f>> \in Refs(x)' <=> <<u, f>> \in Refs(x)
    BY <2>1, RefsMember, RefsMemberNext
  <2>3. \A y \in Refs(x)' \cup Refs(x) : \E u, f : y = <<u, f>>
    BY RefsMember, RefsMemberNext
  <2> QED BY <2>2, <2>3, PairsEqual
<1>4. CountExact'
  BY <1>3 DEF CountExact
<1>5. PipesOwned'
  BY DEF PipesOwned
<1>6. CallsOnPipes' /\ SlotsDistinct'
  BY DEF CallsOnPipes, SlotsDistinct
<1> QED BY <1>1, <1>2, <1>4, <1>5, <1>6

\* sys_read and sys_write begin a call on a descriptor of a pipe.
LEMMA CallStep ==
  ASSUME FilesInv, NEW t \in Procs, NEW f \in Locals, NEW end, NEW call \in {"read", "lock", "write"},
         Call(t, f, end, call), lock' \in [Pipes -> Procs \cup {NULL}]
  PROVE  FilesInv'
<1> USE DEF FilesInv
<1>1. /\ t \in alive /\ op[t] = "none" /\ fd_table[t][f] >= NStd
      /\ UNCHANGED <<alive, fileVars, has, closed, level, exiting>>
  BY DEF Call, InUser
<1>2. /\ op' = [op EXCEPT ![t] = call] /\ fd' = [fd EXCEPT ![t] = f]
      /\ \E n \in 1..MaxTransfer : todo' = [todo EXCEPT ![t] = n]
  BY DEF Call
<1>3. /\ op' \in [Procs -> {"none", "read", "lock", "write", "release"}]
      /\ fd' \in [Procs -> Locals] /\ todo' \in [Procs -> 0..MaxTransfer]
      /\ op'[t] = call /\ fd'[t] = f
      /\ \A u \in Procs : u # t => op'[u] = op[u] /\ fd'[u] = fd[u]
  <2>1. /\ op \in [Procs -> {"none", "read", "lock", "write", "release"}]
        /\ fd \in [Procs -> Locals] /\ todo \in [Procs -> 0..MaxTransfer]
    BY DEF TypeOK
  <2>2. todo' \in [Procs -> 0..MaxTransfer]
    <3>1. PICK n \in 1..MaxTransfer : todo' = [todo EXCEPT ![t] = n]
      BY <1>2
    <3> QED BY <2>1, <3>1
  <2>3. op' = [op EXCEPT ![t] = call] /\ fd' = [fd EXCEPT ![t] = f]
    BY <1>2
  <2>4. call \in {"none", "read", "lock", "write", "release"}
    OBVIOUS
  <2> QED BY <2>1, <2>2, <2>3, <2>4
<1>4. TypeOK'
  BY <1>1, <1>3 DEF TypeOK, fileVars
<1>5. \A u \in Procs : op'[u] # "none" => u \in alive /\ fd_table[u][fd'[u]] >= NStd
  BY <1>1, <1>3 DEF CallsOnPipes
<1>6. \A u \in Procs : /\ op'[u] = "release" <=> op[u] = "release"
                       /\ op[u] = "release" => fd'[u] = fd[u]
  BY <1>1, <1>3
<1> QED BY <1>1, <1>4, <1>5, <1>6, QuietStep

\* What goes on inside a read or a write: the call of one process advances or
\* returns, and the queue and the lock of its pipe change.
LEMMA TransferStep ==
  ASSUME FilesInv, NEW t \in Procs,
         op[t] \in {"read", "lock", "write"},
         anon_pipe_read(t) \/ write_lock(t) \/ anon_pipe_write(t)
  PROVE  FilesInv'
<1> USE DEF FilesInv
<1>0. TypeOK
  OBVIOUS
<1> DEFINE p == ThePipe(t)
<1>1. p \in Pipes /\ t \in alive
  <2>1. op[t] # "none"
    OBVIOUS
  <2> QED BY <2>1, CallFacts
<1>2. UNCHANGED <<alive, fileVars, has, closed, exiting>>
  BY DEF anon_pipe_read, write_lock, anon_pipe_write
<1>3. \/ Return(t)
      \/ \E n \in Nat : 0 < n /\ n < todo[t] /\ todo' = [todo EXCEPT ![t] = @ - n] /\ UNCHANGED <<op, fd>>
      \/ op' = [op EXCEPT ![t] = "write"] /\ UNCHANGED <<fd, todo>>
  <2>1. todo[t] \in Nat /\ level[p] \in Nat /\ Capacity - level[p] \in Nat
    <3> HIDE DEF p
    <3>1. todo[t] \in 0..MaxTransfer /\ level[p] \in 0..Capacity
      BY <1>0, <1>1 DEF TypeOK
    <3> QED BY <3>1
  <2>2. CASE anon_pipe_read(t)
    BY <2>1, <2>2 DEF anon_pipe_read
  <2>3. CASE write_lock(t)
    BY <2>3 DEF write_lock
  <2>4. CASE anon_pipe_write(t)
    BY <2>1, <2>4 DEF anon_pipe_write
  <2> QED BY <2>2, <2>3, <2>4
<1>4. /\ op' \in [Procs -> {"none", "read", "lock", "write", "release"}]
      /\ fd' \in [Procs -> Locals] /\ todo' \in [Procs -> 0..MaxTransfer]
      /\ op'[t] \in {"none", "read", "lock", "write"}
      /\ op'[t] # "none" => fd'[t] = fd[t]
      /\ \A u \in Procs : u # t => op'[u] = op[u] /\ fd'[u] = fd[u]
  <2>0. /\ op \in [Procs -> {"none", "read", "lock", "write", "release"}]
        /\ fd \in [Procs -> Locals] /\ todo \in [Procs -> 0..MaxTransfer]
        /\ todo[t] \in 0..MaxTransfer /\ 0 \in Locals
    BY <1>0, SMTT(20) DEF TypeOK
  <2>1. CASE Return(t)
    BY <2>0, <2>1 DEF Return
  <2>2. CASE \E n \in Nat : /\ 0 < n /\ n < todo[t] /\ todo' = [todo EXCEPT ![t] = @ - n]
                            /\ UNCHANGED <<op, fd>>
    <3>1. PICK n \in Nat : /\ 0 < n /\ n < todo[t] /\ todo' = [todo EXCEPT ![t] = @ - n]
                           /\ UNCHANGED <<op, fd>>
      BY <2>2
    <3>2. todo[t] - n \in 0..MaxTransfer
      BY <2>0, <3>1
    <3>3. todo' \in [Procs -> 0..MaxTransfer]
      BY <2>0, <3>1, <3>2
    <3> QED BY <2>0, <3>1, <3>3
  <2>3. CASE op' = [op EXCEPT ![t] = "write"] /\ UNCHANGED <<fd, todo>>
    BY <2>0, <2>3
  <2> QED BY <1>3, <2>1, <2>2, <2>3
<1>5. level' \in [Pipes -> 0..Capacity] /\ lock' \in [Pipes -> Procs \cup {NULL}]
  <2>1. /\ level \in [Pipes -> 0..Capacity] /\ lock \in [Pipes -> Procs \cup {NULL}]
        /\ todo[t] \in Nat /\ level[p] \in 0..Capacity
    <3> HIDE DEF p
    <3>1. todo[t] \in 0..MaxTransfer
      BY <1>0 DEF TypeOK
    <3>2. level \in [Pipes -> 0..Capacity] /\ lock \in [Pipes -> Procs \cup {NULL}]
      BY <1>0 DEF TypeOK
    <3> QED BY <1>1, <3>1, <3>2
  <2>2. CASE anon_pipe_read(t)
    <3> DEFINE m == IF todo[t] < level[p] THEN todo[t] ELSE level[p]
    <3>1. m \in Nat /\ m <= level[p]
      BY <2>1
    <3>2. level' = [level EXCEPT ![p] = @ - m]
      BY <2>2 DEF anon_pipe_read
    <3>3. PICK n \in Nat : n <= level[p] /\ level' = [level EXCEPT ![p] = @ - n]
      BY <3>1, <3>2
    <3>4. lock' = lock
      BY <2>2 DEF anon_pipe_read
    <3> HIDE DEF p
    <3> QED BY <1>1, <2>1, <3>3, <3>4
  <2>3. CASE write_lock(t)
    BY <2>1, <2>3 DEF write_lock
  <2>4. CASE anon_pipe_write(t)
    <3> DEFINE room == IF closed[p] THEN 0 ELSE Capacity - level[p]
               m == IF todo[t] < room THEN todo[t] ELSE room
    <3>1. m \in Nat /\ m <= Capacity - level[p]
      BY <2>1
    <3>2. level' = [level EXCEPT ![p] = @ + m]
      BY <2>4 DEF anon_pipe_write
    <3>3. PICK n \in Nat : n <= Capacity - level[p] /\ level' = [level EXCEPT ![p] = @ + n]
      BY <3>1, <3>2
    <3>4. lock' = lock \/ lock' = [lock EXCEPT ![p] = NULL]
      BY <2>4 DEF anon_pipe_write
    <3> HIDE DEF p
    <3> QED BY <1>1, <2>1, <3>3, <3>4
  <2> QED BY <2>2, <2>3, <2>4
<1>6. TypeOK'
  BY <1>0, <1>2, <1>4, <1>5 DEF TypeOK, fileVars
<1>7. \A u \in Procs : op'[u] # "none" => u \in alive /\ fd_table[u][fd'[u]] >= NStd
  <2>1. \A u \in Procs : op[u] # "none" => u \in alive /\ fd_table[u][fd[u]] >= NStd
    BY DEF CallsOnPipes
  <2>2. \A u \in Procs : op'[u] # "none" => op[u] # "none" /\ fd'[u] = fd[u]
    BY <1>4
  <2> QED BY <2>1, <2>2
<1>8. \A u \in Procs : /\ op'[u] = "release" <=> op[u] = "release"
                       /\ op[u] = "release" => fd'[u] = fd[u]
  BY <1>4
<1> QED BY <1>2, <1>6, <1>7, <1>8, QuietStep

-----------------------------------------------------------------------------
(* The invariant *)

\* At the start there is one process, with the descriptors of the terminal.
LEMMA InitInv ==
  ASSUME Init
  PROVE  FilesInv
<1>1. TypeOK
  BY DEF Init, TypeOK
<1>2. CountExact /\ SlotsDistinct
  BY DEF Init, CountExact, SlotsDistinct
<1>3. PipesOwned
  BY DEF Init, PipesOwned
<1>4. CallsOnPipes
  BY DEF Init, CallsOnPipes
<1>5. IsFiniteSet(alive)
  BY FS_Singleton DEF Init
<1> QED BY <1>1, <1>2, <1>3, <1>4, <1>5 DEF FilesInv

\* Every step keeps the invariant.
LEMMA StepInv ==
  ASSUME ForkRedirected = FALSE, FilesInv, [Next]_vars
  PROVE  FilesInv'
<1>0. TypeOK
  BY DEF FilesInv
<1>1. CASE UNCHANGED vars
  <2>1. UNCHANGED <<alive, fileVars, has, closed, level, lock, op, fd, todo, exiting>>
    BY <1>1 DEF vars, pipeVars
  <2>2. TypeOK'
    BY <1>0, <2>1 DEF TypeOK, fileVars
  <2>3. \A t \in Procs : op[t] # "none" => t \in alive /\ fd_table[t][fd[t]] >= NStd
    BY DEF FilesInv, CallsOnPipes
  <2> QED BY <2>1, <2>2, <2>3, QuietStep
<1>2. ASSUME NEW t \in Procs, NEW p \in Pipes, sys_pipe(t, p) PROVE FilesInv'
  BY <1>2, PipeStep
<1>3. ASSUME NEW t \in Procs, NEW c \in Procs, sys_fork(t, c) PROVE FilesInv'
  BY <1>3, ForkStep
<1>4. ASSUME NEW t \in Procs, NEW old \in Locals, NEW new \in Locals, sys_fd_redirect(t, old, new)
      PROVE  FilesInv'
  BY <1>4, RedirectStep
<1>5. ASSUME NEW t \in Procs, NEW f \in Locals, sys_close(t, f) PROVE FilesInv'
  <2>1. /\ t \in alive /\ op[t] = "none" /\ fd_table[t][f] # -1 /\ Close(t, f)
        /\ UNCHANGED <<alive, used, file, lost, has, closed, level, lock, todo, exiting>>
    BY <1>5 DEF sys_close, InUser, pipeVars
  <2> QED BY <2>1, CloseStep
<1>6. ASSUME NEW t \in Procs, NEW f \in Locals, sys_read(t, f) PROVE FilesInv'
  <2>1. Call(t, f, "reader", "read") /\ lock' \in [Pipes -> Procs \cup {NULL}]
    BY <1>0, <1>6 DEF sys_read, TypeOK
  <2> QED BY <2>1, CallStep
<1>7. ASSUME NEW t \in Procs, NEW f \in Locals, sys_write(t, f) PROVE FilesInv'
  <2>1. /\ Call(t, f, "writer", "write") \/ Call(t, f, "writer", "lock")
        /\ lock' \in [Pipes -> Procs \cup {NULL}]
    BY <1>0, <1>7 DEF sys_write, TypeOK
  <2> QED BY <2>1, CallStep
<1>8. ASSUME NEW t \in Procs, sys_exit(t) PROVE FilesInv'
  <2>1. /\ t \in alive /\ exiting' = exiting \cup {t}
        /\ UNCHANGED <<alive, fileVars, has, closed, level, lock, op, fd, todo>>
    BY <1>8 DEF sys_exit, InUser, pipeVars
  <2>2. TypeOK'
    BY <1>0, <2>1 DEF TypeOK, fileVars
  <2>3. \A u \in Procs : op[u] # "none" => u \in alive /\ fd_table[u][fd[u]] >= NStd
    BY DEF FilesInv, CallsOnPipes
  <2> QED BY <2>1, <2>2, <2>3, QuietStep
<1>9. ASSUME NEW t \in Procs, anon_pipe_read(t) \/ write_lock(t) \/ anon_pipe_write(t)
      PROVE  FilesInv'
  <2>1. op[t] \in {"read", "lock", "write"}
    BY <1>9 DEF anon_pipe_read, write_lock, anon_pipe_write
  <2> QED BY <1>9, <2>1, TransferStep
<1>10. ASSUME NEW t \in Procs, release(t) PROVE FilesInv'
  BY <1>10, ReleaseStep
<1>11. ASSUME NEW t \in Procs, exit_next(t) PROVE FilesInv'
  <2> DEFINE open == {f \in Locals : fd_table[t][f] # -1}
  <2>1. /\ t \in exiting /\ op[t] = "none" /\ t \in alive
        /\ UNCHANGED <<used, file, lost, has, closed, level, lock, todo>>
    BY <1>0, <1>11 DEF exit_next, TypeOK, pipeVars
  <2>2. CASE open # {}
    <3>1. Lowest(open) \in open
      <4>1. open \in SUBSET Nat
        OBVIOUS
      <4> QED BY <2>2, <4>1, LowestFound
    <3>2. Close(t, Lowest(open)) /\ UNCHANGED <<alive, exiting>>
      BY <1>11, <2>2 DEF exit_next
    <3> QED BY <2>1, <3>1, <3>2, CloseStep
  <2>3. CASE open = {}
    <3>1. /\ alive' = alive \ {t} /\ exiting' = exiting \ {t}
          /\ UNCHANGED <<fd_table, count, op, fd, used, file, lost, pipeVars, todo>>
      BY <1>11, <2>3 DEF exit_next
    <3> QED BY <2>1, <2>3, <3>1, ExitEndStep
  <2> QED BY <2>2, <2>3
<1> QED BY <1>1, <1>2, <1>3, <1>4, <1>5, <1>6, <1>7, <1>8, <1>9, <1>10, <1>11 DEF Next, Continue

\* FilesInv holds all the time if nobody forks with redirected descriptors.
LEMMA FilesInvAlways ==
  ASSUME ForkRedirected = FALSE
  PROVE  Spec => []FilesInv
<1>1. Init => FilesInv
  BY InitInv
<1>2. FilesInv /\ [Next]_vars => FilesInv'
  BY StepInv
<1> QED BY <1>1, <1>2, PTL DEF Spec

\* The variables of the file table, the pipes and the calls keep their types: the
\* queue of a pipe never holds more than its size, a count is never negative.
THEOREM FilesTypeCorrect ==
  ASSUME ForkRedirected = FALSE
  PROVE  Spec => []TypeOK
<1>1. FilesInv => TypeOK
  BY DEF FilesInv
<1> QED BY <1>1, FilesInvAlways, PTL

\* Through every order of sys_pipe, sys_fork, sys_fd_redirect, sys_close and
\* sys_exit, file.count is the number of descriptors of the file.
THEOREM CountsAlwaysExact ==
  ASSUME ForkRedirected = FALSE
  PROVE  Spec => []CountExact
<1>1. FilesInv => CountExact
  BY DEF FilesInv
<1> QED BY <1>1, FilesInvAlways, PTL

\* No descriptor outlives its slot or the page of its pipe, and the page is in use
\* exactly as long as a slot is one of its ends.
THEOREM PipesAlwaysOwned ==
  ASSUME ForkRedirected = FALSE
  PROVE  Spec => []PipesOwned
<1>1. FilesInv => PipesOwned
  BY DEF FilesInv
<1> QED BY <1>1, FilesInvAlways, PTL
=============================================================================
