--------------------------- MODULE ProcessProofs ----------------------------
(***************************************************************************)
(* The safety of fork, wait, exit and kill for any number of processes,    *)
(* any size of the pid pool and any signals: ProcInv is inductive.  First  *)
(* what the searches of the code find, then one lemma per system call and  *)
(* in it one step per part of the invariant.                               *)
(***************************************************************************)
EXTENDS Process, WellFoundedInduction, TLAPS

USE ProcessAssumption

-----------------------------------------------------------------------------
(* Kernel lists *)

\* Appending an element that is not in a list keeps the list free of
\* duplicates, and adds just that element: list_append.
LEMMA AppendFacts ==
  ASSUME NEW S, NEW q \in Seq(S), NEW t \in S
  PROVE  /\ list_append(q, t) \in Seq(S)
         /\ list_append(q, t) # <<>>
         /\ \A u \in S : elem_find(list_append(q, t), u) <=> elem_find(q, u) \/ u = t
         /\ Distinct(q) /\ ~elem_find(q, t) => Distinct(list_append(q, t))
<1> USE DEF list_append
<1>1. list_append(q, t) \in Seq(S) /\ Len(list_append(q, t)) = Len(q) + 1
  OBVIOUS
<1>2. \A i \in 1..Len(q) : list_append(q, t)[i] = q[i]
  OBVIOUS
<1>3. list_append(q, t)[Len(q) + 1] = t
  OBVIOUS
<1>4. \A u \in S : elem_find(list_append(q, t), u) <=> elem_find(q, u) \/ u = t
  BY <1>1, <1>2, <1>3 DEF elem_find
<1>5. Distinct(q) /\ ~elem_find(q, t) => Distinct(list_append(q, t))
  BY <1>1, <1>2, <1>3 DEF elem_find, Distinct
<1> QED BY <1>1, <1>4, <1>5

\* Unlinking an element of a list without duplicates takes just that element
\* out: list_remove.
LEMMA RemoveFacts ==
  ASSUME NEW S, NEW q \in Seq(S), NEW t \in S, Distinct(q), elem_find(q, t)
  PROVE  /\ list_remove(q, t) \in Seq(S)
         /\ Distinct(list_remove(q, t))
         /\ \A u \in S : elem_find(list_remove(q, t), u) <=> elem_find(q, u) /\ u # t
<1> DEFINE i == CHOOSE i \in 1..Len(q) : q[i] = t
           p == SubSeq(q, 1, i - 1)
           s == SubSeq(q, i + 1, Len(q))
<1>1. i \in 1..Len(q) /\ q[i] = t
  BY DEF elem_find
<1>2. list_remove(q, t) = p \o s
  BY DEF list_remove
<1> HIDE DEF i
<1>3. p \in Seq(S) /\ Len(p) = i - 1 /\ \A j \in 1..(i - 1) : p[j] = q[j]
  BY <1>1
<1>4. s \in Seq(S) /\ Len(s) = Len(q) - i /\ \A j \in 1..(Len(q) - i) : s[j] = q[i + j]
  BY <1>1
<1> HIDE DEF p, s
<1> DEFINE rest == p \o s
<1>5. rest \in Seq(S) /\ Len(rest) = Len(q) - 1
  <2>1. rest \in Seq(S) /\ Len(rest) = Len(p) + Len(s)
    BY <1>3, <1>4, SMTT(20)
  <2> QED BY <1>1, <1>3, <1>4, <2>1
<1>6. \A j \in 1..(Len(q) - 1) : rest[j] = q[IF j < i THEN j ELSE j + 1]
  <2>1. /\ \A j \in 1..Len(p) : rest[j] = p[j]
        /\ \A j \in (Len(p) + 1)..(Len(p) + Len(s)) : rest[j] = s[j - Len(p)]
    BY <1>3, <1>4
  <2> SUFFICES ASSUME NEW j \in 1..(Len(q) - 1)
               PROVE  rest[j] = q[IF j < i THEN j ELSE j + 1]
    OBVIOUS
  <2> HIDE DEF rest
  <2>2. CASE j < i
    BY <1>1, <1>3, <2>1, <2>2
  <2>3. CASE ~(j < i)
    <3>1. j - (i - 1) \in 1..(Len(q) - i) /\ i + (j - (i - 1)) = j + 1
      BY <1>1, <2>3
    <3>2. rest[j] = s[j - (i - 1)]
      BY <1>1, <1>3, <1>4, <2>1, <2>3
    <3> QED BY <1>4, <2>3, <3>1, <3>2
  <2> QED BY <2>2, <2>3
<1> HIDE DEF rest
<1> DEFINE at(j) == IF j < i THEN j ELSE j + 1
<1>7. \A j \in 1..Len(rest) : at(j) \in 1..Len(q) /\ at(j) # i /\ rest[j] = q[at(j)]
  BY <1>1, <1>5, <1>6
<1>8. \A j, k \in 1..Len(rest) : at(j) = at(k) => j = k
  BY <1>1, <1>5
<1> HIDE DEF at
<1>9. Distinct(rest)
  BY <1>7, <1>8 DEF Distinct
<1>10. ASSUME NEW u \in S, elem_find(rest, u)
      PROVE  elem_find(q, u) /\ u # t
  <2>1. PICK j \in 1..Len(rest) : rest[j] = u
    BY <1>10 DEF elem_find
  <2> QED BY <1>1, <1>7, <2>1 DEF elem_find, Distinct
<1>11. ASSUME NEW u \in S, elem_find(q, u), u # t
      PROVE  elem_find(rest, u)
  <2>1. PICK k \in 1..Len(q) : q[k] = u
    BY <1>11 DEF elem_find
  <2>2. CASE k < i
    BY <1>1, <1>5, <1>6, <2>1, <2>2 DEF elem_find
  <2>3. CASE k > i
    <3>1. k - 1 \in 1..(Len(q) - 1) /\ ~(k - 1 < i) /\ (k - 1) + 1 = k
      BY <1>1, <2>1, <2>3
    <3> QED BY <1>5, <1>6, <2>1, <3>1 DEF elem_find
  <2> QED BY <1>1, <1>11, <2>1, <2>2, <2>3
<1> QED BY <1>2, <1>5, <1>9, <1>10, <1>11 DEF rest

\* A set of numbers that is not empty has a least one: the searches from the
\* front of a list and for the lowest free bit find what they look for.
LEMMA LeastExists ==
  ASSUME NEW T \in SUBSET Nat, T # {}
  PROVE  \E x \in T : \A y \in T : x <= y
<1> DEFINE R == OpToRel(<, Nat)
<1>1. IsWellFoundedOn(R, Nat)
  BY NatLessThanWellFounded
<1>2. \A x, y \in Nat : <<x, y>> \in R <=> x < y
  BY DEF OpToRel
<1> HIDE DEF R
<1>3. PICK x \in T : \A y \in T : ~(<<y, x>> \in R)
  BY <1>1, WFMin, Zenon
<1>4. \A y \in T : x \in Nat /\ y \in Nat /\ ~(y < x)
  BY <1>2, <1>3
<1>5. \A y \in T : x <= y
  BY <1>4
<1> QED BY <1>5

-----------------------------------------------------------------------------

\* list_traversal finds a process that passes the test if there is one.
LEMMA FirstFound ==
  ASSUME TypeOK, NEW S, \E u \in Range(all) : u \in S
  PROVE  First(S) \in Range(all) /\ First(S) \in S
<1> DEFINE T == {i \in 1..Len(all) : all[i] \in S}
<1>1. all \in Seq(Procs)
  BY DEF TypeOK
<1>2. T \in SUBSET Nat /\ T # {}
  BY <1>1 DEF Range
<1>3. PICK i \in T : \A j \in T : i <= j
  BY <1>2, LeastExists
<1>4. /\ i \in 1..Len(all) /\ all[i] \in S
      /\ \A j \in 1..(i - 1) : all[j] \notin S
  BY <1>1, <1>3
<1> QED BY <1>4 DEF First, Range

\* allocate_pid finds a bit that is clear if there is one.
LEMMA AllocateFound ==
  ASSUME FreePids # {}
  PROVE  allocate_pid \in FreePids
<1>1. FreePids \in SUBSET Nat
  BY DEF FreePids
<1>2. \E p \in FreePids : \A q \in FreePids : p <= q
  BY <1>1, LeastExists
<1> QED BY <1>2 DEF allocate_pid

\* The processes on thread_all_list are those in use, and they have a real pid.
LEMMA InUseFacts ==
  ASSUME ProcInv
  PROVE  /\ \A t \in Procs : t \in Range(all) <=> InUse(t)
         /\ Range(all) \subseteq Procs
         /\ \A t \in Procs : InUse(t) => pid[t] \in 1..MaxPid /\ pid[t] # NoParent
<1>1. all \in Seq(Procs) /\ pid_pool \in SUBSET (1..MaxPid)
  BY DEF ProcInv, TypeOK
<1>2. \A t \in Procs : t \in Range(all) <=> elem_find(all, t)
  BY DEF Range, elem_find
<1>3. Range(all) \subseteq Procs
  BY <1>1 DEF Range
<1>4. \A t \in Procs : InUse(t) => pid[t] \in 1..MaxPid
  BY <1>1 DEF ProcInv, PidsUnique
<1> QED BY <1>2, <1>3, <1>4 DEF ProcInv, PidsUnique, NoParent

\* The processes that find_child selects for a process are those it is father of.
LEMMA ChildIsSon ==
  ASSUME ProcInv, NEW t \in Procs, InUse(t), NEW u \in Procs
  PROVE  u \in Range(all) /\ find_child(u, pid[t]) <=> InUse(u) /\ u # InitProc /\ father[u] = t
<1>1. father[u] \in Procs
  BY DEF ProcInv, TypeOK
<1> QED BY <1>1, InUseFacts DEF ProcInv, PidsUnique, ParentIsFather, InitStays, find_child

\* The pid2thread(parent_pid) of sys_exit finds the father.
LEMMA ParentFound ==
  ASSUME ProcInv, NEW t \in Procs, InUse(t), t # InitProc
  PROVE  pid2thread(parent_pid[t]) = father[t]
<1> DEFINE S == {u \in Procs : pid[u] = parent_pid[t]}
<1>1. father[t] \in Procs /\ InUse(father[t]) /\ pid[father[t]] = parent_pid[t]
  BY DEF ProcInv, TypeOK, ParentIsFather
<1>2. father[t] \in Range(all) /\ father[t] \in S
  BY <1>1, InUseFacts
<1>3. First(S) \in Range(all) /\ First(S) \in S
  BY <1>2, FirstFound DEF ProcInv
<1>4. First(S) \in Procs /\ InUse(First(S)) /\ pid[First(S)] = pid[father[t]]
  BY <1>1, <1>3, InUseFacts
<1>5. First(S) = father[t]
  BY <1>1, <1>4 DEF ProcInv, PidsUnique
<1> QED BY <1>5 DEF pid2thread

-----------------------------------------------------------------------------
\* The steps that touch only signals, signal handlers and panic.
LEMMA SignalStep ==
  ASSUME ProcInv, UNCHANGED <<status, familyVars, pc>>,
         signal_bits' \in [Procs -> SUBSET Signals],
         sighandlers' \in [Procs -> [Signals -> Handlers]],
         panic' \in BOOLEAN
  PROVE  ProcInv'
<1> USE DEF ProcInv, familyVars
<1>1. TypeOK'
  BY DEF TypeOK
<1>2. PidsUnique'
  BY DEF PidsUnique, InUse
<1>3. ParentIsFather' /\ WaitMissesNoExit' /\ PcMatchesStatus' /\ InitStays'
  BY DEF ParentIsFather, WaitMissesNoExit, PcMatchesStatus, InitStays, InUse
<1> QED BY <1>1, <1>2, <1>3

\* sys_fork: the child gets a pid nobody has, and its father runs.
LEMMA ForkStep ==
  ASSUME ProcInv, NEW t \in Procs, NEW c \in Procs, sys_fork(t, c)
  PROVE  ProcInv'
<1> USE DEF ProcInv, sys_fork, InUser, CanRun
<1>0. allocate_pid \in 1..MaxPid /\ allocate_pid \notin pid_pool
  BY AllocateFound DEF FreePids
<1>1. /\ InUse(t) /\ ~InUse(c) /\ t # c /\ c # InitProc
      /\ \A u \in Procs : InUse(u)' <=> InUse(u) \/ u = c
  BY DEF TypeOK, InUse, InitStays
<1>2. TypeOK'
  <2>1. all' \in Seq(Procs)
    BY AppendFacts DEF TypeOK
  <2>2. pid[t] \in 1..MaxPid
    BY <1>1, InUseFacts
  <2> QED BY <1>0, <2>1, <2>2 DEF TypeOK
<1>3. PidsUnique'
  <2>1. Distinct(all') /\ \A u \in Procs : elem_find(all', u) <=> InUse(u)'
    BY <1>1, AppendFacts DEF TypeOK, PidsUnique
  <2>2. \A u \in Procs : InUse(u)' => pid'[u] \in pid_pool' \ KernelPids
    BY <1>0, <1>1 DEF TypeOK, PidsUnique, InitStays
  <2>3. \A u, v \in Procs : InUse(u)' /\ InUse(v)' /\ pid'[u] = pid'[v] => u = v
    BY <1>0, <1>1 DEF TypeOK, PidsUnique
  <2> QED BY <2>1, <2>2, <2>3 DEF PidsUnique
<1>4. ParentIsFather'
  <2>1. SUFFICES ASSUME NEW u \in Procs \ {InitProc}, InUse(u)'
                 PROVE  /\ InUse(father[u])' /\ pid'[father'[u]] = parent_pid'[u]
                        /\ pc'[father'[u]] # "exit"
    BY DEF ParentIsFather, InUse
  <2>2. CASE u = c
    BY <1>1, <2>2 DEF TypeOK, InUse
  <2>3. CASE u # c
    <3>1. /\ InUse(u) /\ father[u] \in Procs /\ InUse(father[u]) /\ father[u] # c
          /\ pid[father[u]] = parent_pid[u] /\ pc[father[u]] # "exit"
      BY <1>1, <2>1, <2>3 DEF TypeOK, ParentIsFather
    <3> QED BY <1>1, <2>3, <3>1 DEF TypeOK, InUse
  <2> QED BY <2>2, <2>3
<1>5. WaitMissesNoExit'
  <2>1. SUFFICES ASSUME NEW w \in Procs \ {InitProc}, status'[w] = "WAITING"
                 PROVE  /\ \E u \in Procs : InUse(u)' /\ father'[u] = w
                        /\ \A u \in Procs : father'[u] = w => status'[u] # "HANGING"
    BY DEF WaitMissesNoExit, InUse
  <2>2. w # c /\ w # t /\ status[w] = "WAITING"
    BY <2>1 DEF TypeOK
  <2>3. PICK u \in Procs : InUse(u) /\ father[u] = w
    BY <2>2 DEF WaitMissesNoExit
  <2>4. InUse(u)' /\ father'[u] = w
    BY <1>1, <2>3 DEF TypeOK
  <2>5. \A v \in Procs : father'[v] = w => status'[v] # "HANGING"
    BY <2>2 DEF TypeOK, WaitMissesNoExit
  <2> QED BY <2>4, <2>5
<1>6. PcMatchesStatus'
  BY <1>1 DEF TypeOK, PcMatchesStatus, InUse
<1>7. InitStays'
  BY <1>1 DEF TypeOK, InitStays
<1> QED BY <1>2, <1>3, <1>4, <1>5, <1>6, <1>7

\* sys_fork without memory: a page and perhaps a pid are lost, nobody is harmed.
LEMMA ForkFailsStep ==
  ASSUME ProcInv, NEW t \in Procs, NEW c \in Procs, fork_fails(t, c)
  PROVE  ProcInv'
<1> USE DEF ProcInv, fork_fails
<1>0. pid_pool \subseteq pid_pool' /\ pid_pool' \in SUBSET (1..MaxPid)
  BY AllocateFound DEF FreePids, TypeOK
<1>1. /\ ~InUse(c) /\ c # InitProc
      /\ \A u \in Procs : (InUse(u)' <=> InUse(u)) /\ (u # c => status'[u] = status[u])
  BY DEF TypeOK, InUse, InitStays
<1>2. TypeOK'
  BY <1>0 DEF TypeOK, signalVars
<1>3. PidsUnique'
  BY <1>0, <1>1 DEF PidsUnique
<1>4. ParentIsFather'
  BY <1>1 DEF TypeOK, ParentIsFather, InUse
<1>5. WaitMissesNoExit'
  BY <1>1 DEF TypeOK, WaitMissesNoExit, InUse
<1>6. PcMatchesStatus'
  BY <1>1 DEF TypeOK, PcMatchesStatus, InUse
<1>7. InitStays'
  BY <1>0, <1>1 DEF InitStays, InUse
<1> QED BY <1>2, <1>3, <1>4, <1>5, <1>6, <1>7

\* sys_wait takes a hanging child: the child has no children itself, and nobody
\* else waits for it.
LEMMA ReapStep ==
  ASSUME ProcInv, NEW t \in Procs, NEW c \in Procs, CanRun(t), pc[t] \in {"user", "wait"},
         status[c] = "HANGING", father[c] = t, thread_exit(c),
         pc' = [pc EXCEPT ![t] = "user", ![c] = "user"], UNCHANGED panic
  PROVE  ProcInv'
<1> USE DEF ProcInv, thread_exit, CanRun
<1>1. /\ InUse(t) /\ InUse(c) /\ t # c /\ c # InitProc /\ pc[c] = "exit"
      /\ \A u \in Procs : InUse(u)' <=> InUse(u) /\ u # c
  BY DEF TypeOK, InUse, InitStays, PcMatchesStatus
<1>2. \A u \in Procs : father[u] # c
  BY <1>1 DEF TypeOK, ParentIsFather, PcMatchesStatus, InitStays
<1>3. TypeOK'
  <2>1. all' \in Seq(Procs)
    BY <1>1, RemoveFacts DEF TypeOK, PidsUnique
  <2>2. sighandlers' \in [Procs -> [Signals -> Handlers]]
    BY DEF TypeOK, Default, Handlers
  <2>3. pid' \in [Procs -> 0..MaxPid] /\ parent_pid' \in [Procs -> {NoParent} \cup 1..MaxPid]
    BY DEF TypeOK
  <2> QED BY <2>1, <2>2, <2>3 DEF TypeOK
<1>4. PidsUnique'
  <2>1. Distinct(all') /\ \A u \in Procs : elem_find(all', u) <=> InUse(u)'
    BY <1>1, RemoveFacts DEF TypeOK, PidsUnique
  <2>2. \A u \in Procs : InUse(u)' => pid'[u] \in pid_pool' \ KernelPids
    BY <1>1 DEF TypeOK, PidsUnique
  <2>3. \A u, v \in Procs : InUse(u)' /\ InUse(v)' /\ pid'[u] = pid'[v] => u = v
    BY <1>1 DEF TypeOK, PidsUnique
  <2> QED BY <2>1, <2>2, <2>3 DEF PidsUnique
<1>5. ParentIsFather'
  <2>1. SUFFICES ASSUME NEW u \in Procs \ {InitProc}, InUse(u)'
                 PROVE  /\ InUse(father[u])' /\ pid'[father'[u]] = parent_pid'[u]
                        /\ pc'[father'[u]] # "exit"
    BY DEF ParentIsFather, InUse
  <2>2. /\ InUse(u) /\ u # c /\ father[u] \in Procs /\ InUse(father[u]) /\ father[u] # c
        /\ pid[father[u]] = parent_pid[u] /\ pc[father[u]] # "exit"
    BY <1>1, <1>2, <2>1 DEF TypeOK, ParentIsFather
  <2> QED BY <1>1, <2>2 DEF TypeOK, InUse
<1>6. WaitMissesNoExit'
  <2>1. SUFFICES ASSUME NEW w \in Procs \ {InitProc}, status'[w] = "WAITING"
                 PROVE  /\ \E u \in Procs : InUse(u)' /\ father'[u] = w
                        /\ \A u \in Procs : father'[u] = w => status'[u] # "HANGING"
    BY DEF WaitMissesNoExit, InUse
  <2>2. w # c /\ status[w] = "WAITING" /\ father[c] # w
    BY <1>1, <2>1 DEF TypeOK
  <2>3. PICK u \in Procs : InUse(u) /\ father[u] = w
    BY <2>2 DEF WaitMissesNoExit
  <2>4. InUse(u)' /\ father'[u] = w
    BY <1>1, <2>2, <2>3 DEF TypeOK
  <2>5. \A v \in Procs : father'[v] = w => status'[v] # "HANGING"
    BY <2>2 DEF TypeOK, WaitMissesNoExit
  <2> QED BY <2>4, <2>5
<1>7. PcMatchesStatus'
  BY <1>1 DEF TypeOK, PcMatchesStatus, InUse
<1>8. InitStays'
  <2>1. pid[c] \notin KernelPids
    BY <1>1 DEF PidsUnique
  <2> QED BY <1>1, <2>1 DEF TypeOK, InitStays
<1> QED BY <1>3, <1>4, <1>5, <1>6, <1>7, <1>8

\* sys_wait, from the call or from the wakeup.
LEMMA WaitStep ==
  ASSUME ProcInv, NEW t \in Procs, sys_wait(t)
  PROVE  ProcInv'
<1> DEFINE children == {u \in Range(all) : find_child(u, pid[t])}
           hanging  == {u \in Range(all) : find_hanging_child(u, pid[t])}
<1>0. CanRun(t) /\ pc[t] \in {"user", "wait"} /\ UNCHANGED panic
  BY DEF sys_wait
<1>1. InUse(t)
  BY <1>0 DEF CanRun, InUse
<1>2. \A u \in Procs : u \in children <=> InUse(u) /\ u # InitProc /\ father[u] = t
  BY <1>1, ChildIsSon
<1>3. \A u \in Procs : u \in hanging <=> u \in children /\ status[u] = "HANGING"
  BY DEF find_child, find_hanging_child
<1>4. CASE /\ hanging # {}
           /\ thread_exit(First(hanging))
           /\ pc' = [pc EXCEPT ![t] = "user", ![First(hanging)] = "user"]
  <2>1. First(hanging) \in Procs /\ First(hanging) \in hanging
    BY <1>4, FirstFound, InUseFacts DEF ProcInv
  <2> QED BY <1>0, <1>2, <1>3, <1>4, <2>1, ReapStep
<1>5. CASE pc' = [pc EXCEPT ![t] = "user"] /\ UNCHANGED <<status, familyVars, signalVars>>
  <2> USE DEF ProcInv, familyVars, signalVars, CanRun
  <2>1. TypeOK'
    BY <1>0, <1>5 DEF TypeOK
  <2>2. PidsUnique'
    BY <1>5 DEF PidsUnique, InUse
  <2>3. ParentIsFather'
    BY <1>5 DEF TypeOK, ParentIsFather, InUse
  <2>4. WaitMissesNoExit' /\ PcMatchesStatus' /\ InitStays'
    BY <1>0, <1>5 DEF TypeOK, WaitMissesNoExit, PcMatchesStatus, InitStays, InUse
  <2> QED BY <2>1, <2>2, <2>3, <2>4
<1>6. CASE /\ children # {} /\ hanging = {}
           /\ status' = [status EXCEPT ![t] = "WAITING"]
           /\ pc' = [pc EXCEPT ![t] = "wait"]
           /\ UNCHANGED <<familyVars, signalVars>>
  <2> USE DEF ProcInv, familyVars, signalVars, CanRun
  <2>0. \A u \in Procs : InUse(u)' <=> InUse(u)
    BY <1>0, <1>6 DEF TypeOK, InUse
  <2>1. TypeOK'
    BY <1>0, <1>6 DEF TypeOK
  <2>2. PidsUnique'
    BY <1>6, <2>0 DEF PidsUnique
  <2>3. ParentIsFather'
    BY <1>6, <2>0 DEF TypeOK, ParentIsFather, InUse
  <2>4. WaitMissesNoExit'
    <3>1. SUFFICES ASSUME NEW w \in Procs \ {InitProc}, status'[w] = "WAITING"
                   PROVE  /\ \E u \in Procs : InUse(u)' /\ father'[u] = w
                          /\ \A u \in Procs : father'[u] = w => status'[u] # "HANGING"
      BY DEF WaitMissesNoExit, InUse
    <3>2. CASE w # t
      BY <1>6, <2>0, <3>1, <3>2 DEF TypeOK, WaitMissesNoExit
    <3>3. CASE w = t
      <4>1. \E u \in Procs : InUse(u) /\ father[u] = t
        BY <1>2, <1>6, InUseFacts
      <4>2. \A u \in Procs : father[u] = t => status[u] # "HANGING"
        BY <1>2, <1>3, <1>6, <3>1, <3>3 DEF InUse, InitStays
      <4> QED BY <1>6, <2>0, <3>3, <4>1, <4>2 DEF TypeOK
    <3> QED BY <3>2, <3>3
  <2>5. PcMatchesStatus'
    BY <1>1, <1>6, <2>0 DEF TypeOK, PcMatchesStatus
  <2>6. InitStays'
    BY <1>6, <2>0 DEF TypeOK, InitStays
  <2> QED BY <2>1, <2>2, <2>3, <2>4, <2>5, <2>6
<1> QED BY <1>4, <1>5, <1>6 DEF sys_wait

\* sys_exit up to the files: the children go over to init.
LEMMA StartExitStep ==
  ASSUME ProcInv, NEW t \in Procs, InUser(t), StartExit(t)
  PROVE  ProcInv'
<1> USE DEF ProcInv, InUser, CanRun
<1>1. InUse(t) /\ status[t] = "READY"
  BY DEF InUse
<1>2. UNCHANGED <<status, pid, all, pid_pool, signalVars>>
  BY DEF StartExit
<1>3. CASE panic' = TRUE /\ UNCHANGED <<parent_pid, pc, father>>
  BY <1>2, <1>3, SignalStep DEF TypeOK, signalVars, familyVars
<1>4. CASE /\ parent_pid[t] # NoParent
           /\ parent_pid' = [u \in Procs |->
                 IF u \in Range(all) /\ find_child(u, pid[t]) THEN 1 ELSE parent_pid[u]]
           /\ pc' = [pc EXCEPT ![t] = "exit"]
           /\ father' = [u \in Procs |-> IF father[u] = t THEN InitProc ELSE father[u]]
           /\ UNCHANGED panic
  <2>0. t # InitProc /\ \A u \in Procs : InUse(u)' <=> InUse(u)
    BY <1>2, <1>4 DEF InitStays, InUse
  <2>1. TypeOK'
    BY <1>2, <1>4 DEF TypeOK, signalVars
  <2>2. PidsUnique'
    BY <1>2, <2>0 DEF PidsUnique
  <2>3. ParentIsFather'
    <3>1. SUFFICES ASSUME NEW u \in Procs \ {InitProc}, InUse(u)'
                   PROVE  /\ InUse(father[u])' /\ pid'[father'[u]] = parent_pid'[u]
                          /\ pc'[father'[u]] # "exit"
      BY DEF ParentIsFather, InUse
    <3>2. /\ InUse(u) /\ father[u] \in Procs /\ InUse(father[u])
          /\ pid[father[u]] = parent_pid[u] /\ pc[father[u]] # "exit"
      BY <2>0, <3>1 DEF TypeOK, ParentIsFather
    <3>3. u \in Range(all) /\ find_child(u, pid[t]) <=> father[u] = t
      BY <1>1, <3>2, ChildIsSon
    <3>4. CASE father[u] = t
      <4>1. father'[u] = InitProc /\ parent_pid'[u] = 1
        BY <1>4, <3>3, <3>4
      <4> QED BY <1>2, <1>4, <2>0, <4>1 DEF TypeOK, InitStays, InUse
    <3>5. CASE father[u] # t
      BY <1>2, <1>4, <3>2, <3>3, <3>5 DEF TypeOK, InUse
    <3> QED BY <3>4, <3>5
  <2>4. WaitMissesNoExit'
    <3>1. ASSUME NEW w \in Procs, status[w] = "WAITING", w # InitProc
          PROVE  w # t /\ \A u \in Procs : father'[u] = w <=> father[u] = w
      BY <1>1, <1>4, <3>1 DEF TypeOK
    <3> QED BY <1>2, <2>0, <3>1 DEF TypeOK, WaitMissesNoExit
  <2>5. PcMatchesStatus'
    BY <1>1, <1>2, <1>4, <2>0 DEF TypeOK, PcMatchesStatus
  <2>6. InitStays'
    <3>1. ~find_child(InitProc, pid[t])
      BY <1>1, InUseFacts DEF InitStays, find_child
    <3> QED BY <1>2, <1>4, <2>0, <3>1 DEF TypeOK, InitStays
  <2> QED BY <2>1, <2>2, <2>3, <2>4, <2>5, <2>6
<1> QED BY <1>3, <1>4 DEF StartExit

\* The end of sys_exit: the father is found, and woken up if it waits.
LEMMA ExitFinishStep ==
  ASSUME ProcInv, NEW t \in Procs, exit_finish(t)
  PROVE  ProcInv'
<1> USE DEF ProcInv, CanRun, familyVars, signalVars
<1>1. /\ InUse(t) /\ status[t] = "READY" /\ pc[t] = "exit" /\ t # InitProc
      /\ UNCHANGED <<familyVars, signalVars, pc, panic>>
  BY DEF exit_finish, InUse, InitStays
<1>2. /\ father[t] \in Procs /\ InUse(father[t]) /\ father[t] # t
      /\ status' = [status EXCEPT ![father[t]] = IF @ = "WAITING" THEN "READY" ELSE @,
                                  ![t] = "HANGING"]
  BY <1>1, ParentFound DEF exit_finish, TypeOK, ParentIsFather
<1>3. \A u \in Procs :
        /\ u = t => status'[u] = "HANGING"
        /\ u = father[t] => status'[u] = IF status[u] = "WAITING" THEN "READY" ELSE status[u]
        /\ u \notin {t, father[t]} => status'[u] = status[u]
  BY <1>2 DEF TypeOK
<1>4. \A u \in Procs : InUse(u)' <=> InUse(u)
  BY <1>1, <1>3 DEF InUse
<1>5. TypeOK'
  BY <1>1, <1>2 DEF TypeOK
<1>6. PidsUnique'
  BY <1>1, <1>4 DEF PidsUnique
<1>7. ParentIsFather'
  BY <1>1, <1>4 DEF TypeOK, ParentIsFather, InUse
<1>8. WaitMissesNoExit'
  <2>1. SUFFICES ASSUME NEW w \in Procs \ {InitProc}, status'[w] = "WAITING"
                 PROVE  /\ \E u \in Procs : InUse(u)' /\ father'[u] = w
                        /\ \A u \in Procs : father'[u] = w => status'[u] # "HANGING"
    BY DEF WaitMissesNoExit, InUse
  <2>2. w \notin {t, father[t]} /\ status[w] = "WAITING"
    BY <1>3, <2>1
  <2>3. \E u \in Procs : InUse(u) /\ father[u] = w
    BY <2>2 DEF WaitMissesNoExit
  <2>4. \A u \in Procs : father[u] = w => status'[u] # "HANGING"
    BY <1>3, <2>2 DEF WaitMissesNoExit
  <2> QED BY <1>1, <1>4, <2>3, <2>4
<1>9. PcMatchesStatus'
  BY <1>1, <1>3, <1>4 DEF PcMatchesStatus
<1>10. InitStays'
  BY <1>1, <1>4 DEF InitStays
<1> QED BY <1>5, <1>6, <1>7, <1>8, <1>9, <1>10

\* sys_kill reaches a process that exists.
LEMMA KillStep ==
  ASSUME ProcInv, NEW p \in 1..MaxPid, NEW s \in Signals, sys_kill(p, s)
  PROVE  ProcInv'
<1>1. signal_bits' \in [Procs -> SUBSET Signals]
  BY DEF sys_kill, ProcInv, TypeOK
<1> QED BY <1>1, SignalStep DEF sys_kill, ProcInv, TypeOK

\* check_signal: a signal handled, or the exit it asks for.
LEMMA CheckSignalStep ==
  ASSUME ProcInv, NEW t \in Procs, check_signal(t)
  PROVE  ProcInv'
<1>1. CASE StartExit(t)
  BY <1>1, StartExitStep DEF check_signal
<1>2. CASE \E s : /\ signal_bits' = [signal_bits EXCEPT ![t] = @ \ {s}]
                  /\ UNCHANGED <<status, familyVars, sighandlers, pc, panic>>
  <2>1. signal_bits' \in [Procs -> SUBSET Signals]
    BY <1>2 DEF ProcInv, TypeOK
  <2> QED BY <1>2, <2>1, SignalStep DEF ProcInv, TypeOK
<1> QED BY <1>1, <1>2 DEF check_signal

-----------------------------------------------------------------------------
\* When init starts, the invariant holds.
LEMMA InitInv == Init => ProcInv
<1> SUFFICES ASSUME Init PROVE ProcInv
  OBVIOUS
<1> USE DEF Init
<1>1. TypeOK
  <2>1. sighandlers \in [Procs -> [Signals -> Handlers]]
    BY DEF Default, Handlers
  <2>2. all \in Seq(Procs)
    OBVIOUS
  <2>3. pid_pool \in SUBSET (1..MaxPid)
    OBVIOUS
  <2>4. /\ status \in [Procs -> {"FREE", "LEAKED", "READY", "WAITING", "HANGING"}]
        /\ pid \in [Procs -> 0..MaxPid]
    OBVIOUS
  <2>5. /\ parent_pid \in [Procs -> {NoParent} \cup 1..MaxPid]
        /\ signal_bits \in [Procs -> SUBSET Signals]
        /\ pc \in [Procs -> {"user", "wait", "exit"}]
    OBVIOUS
  <2> QED BY <2>1, <2>2, <2>3, <2>4, <2>5 DEF TypeOK
<1>2. \A t \in Procs : InUse(t) <=> t = InitProc
  BY DEF InUse
<1>3. PidsUnique
  <2>1. Len(all) = 1 /\ all[1] = InitProc
    OBVIOUS
  <2>2. Distinct(all)
    BY <2>1 DEF Distinct
  <2>3. \A t \in Procs : elem_find(all, t) <=> InUse(t)
    BY <1>2, <2>1 DEF elem_find
  <2> QED BY <1>2, <2>2, <2>3 DEF PidsUnique
<1>4. ParentIsFather /\ PcMatchesStatus /\ InitStays
  BY <1>2 DEF ParentIsFather, PcMatchesStatus, InitStays
<1>5. WaitMissesNoExit
  BY DEF WaitMissesNoExit
<1> QED BY <1>1, <1>3, <1>4, <1>5 DEF ProcInv

\* Every step keeps the invariant.
LEMMA StepInv == ProcInv /\ [Next]_vars => ProcInv'
<1> SUFFICES ASSUME ProcInv, [Next]_vars PROVE ProcInv'
  OBVIOUS
<1>1. ASSUME NEW t \in Procs, NEW c \in Procs, sys_fork(t, c) \/ fork_fails(t, c) PROVE ProcInv'
  BY <1>1, ForkStep, ForkFailsStep
<1>2. ASSUME NEW t \in Procs, sys_wait(t) \/ sys_exit(t) \/ exit_finish(t) \/ check_signal(t)
      PROVE  ProcInv'
  BY <1>2, WaitStep, StartExitStep, ExitFinishStep, CheckSignalStep DEF sys_exit
<1>3. ASSUME NEW t \in Procs, NEW s \in Signals, NEW h \in Handlers, sys_signal(t, s, h)
      PROVE  ProcInv'
  <2>1. sighandlers' \in [Procs -> [Signals -> Handlers]]
    BY <1>3 DEF sys_signal, ProcInv, TypeOK
  <2> QED BY <1>3, <2>1, SignalStep DEF sys_signal, ProcInv, TypeOK
<1>4. ASSUME NEW t \in Procs, sys_execve(t) PROVE ProcInv'
  <2>1. /\ sighandlers' \in [Procs -> [Signals -> Handlers]]
        /\ signal_bits' \in [Procs -> SUBSET Signals]
    BY <1>4 DEF sys_execve, ProcInv, TypeOK, Default, Handlers
  <2> QED BY <1>4, <2>1, SignalStep DEF sys_execve, ProcInv, TypeOK
<1>5. ASSUME NEW p \in 1..MaxPid, NEW s \in Signals, sys_kill(p, s) PROVE ProcInv'
  BY <1>5, KillStep
<1>6. CASE UNCHANGED vars
  BY <1>6, SignalStep DEF vars, familyVars, ProcInv, TypeOK
<1> QED BY <1>1, <1>2, <1>3, <1>4, <1>5, <1>6 DEF Next

\* The state of the processes keeps its types, for any set of PCB pages, any pool
\* of pids and any signals.
THEOREM ProcessTypeCorrect == Spec => []TypeOK
<1>1. ProcInv => TypeOK
  BY DEF ProcInv
<1> QED BY <1>1, InitInv, StepInv, PTL DEF Spec

\* A pid names one process, and thread_all_list holds the processes in use: what
\* pid2thread finds is never ambiguous, however often pids are released and reused.
THEOREM PidNamesOne == Spec => []PidsUnique
<1>1. ProcInv => PidsUnique
  BY DEF ProcInv
<1> QED BY <1>1, InitInv, StepInv, PTL DEF Spec

\* The parent that sys_exit looks up is always there, is the process that forked
\* this one or init, and has not begun to exit.
THEOREM ParentAlwaysThere == Spec => []ParentIsFather
<1>1. ProcInv => ParentIsFather
  BY DEF ProcInv
<1> QED BY <1>1, InitInv, StepInv, PTL DEF Spec

\* No process sleeps in sys_wait beside a child that has exited.
THEOREM WaitSound == Spec => []WaitMissesNoExit
<1>1. ProcInv => WaitMissesNoExit
  BY DEF ProcInv
<1> QED BY <1>1, InitInv, StepInv, PTL DEF Spec
=============================================================================
