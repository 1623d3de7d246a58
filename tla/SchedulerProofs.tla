-------------------------- MODULE SchedulerProofs --------------------------
(***************************************************************************)
(* The safety of the scheduler for every set of threads and all            *)
(* priorities: SchedInv is inductive, and the invariants of the runs       *)
(* follow from it.                                                         *)
(***************************************************************************)
EXTENDS Scheduler, TLAPS

USE SchedulerAssumption

-----------------------------------------------------------------------------
(* Kernel lists *)

\* Appending an element that is not in a list keeps the list free of
\* duplicates, and adds just that element: list_append.
LEMMA AppendFacts ==
  ASSUME NEW S, NEW q \in Seq(S), NEW t \in S
  PROVE  /\ list_append(q, t) \in Seq(S)
         /\ list_append(q, t) # <<>>
         /\ \A u \in S : elem_find(list_append(q, t), u) <=> elem_find(q, u) \/ u = t
         /\ Distinct(q) /\ ~elem_find(q, t) => Distinct(list_append(q, t))
<1> USE DEF list_append
<1>1. list_append(q, t) \in Seq(S) /\ Len(list_append(q, t)) = Len(q) + 1
  OBVIOUS
<1>2. \A i \in 1..Len(q) : list_append(q, t)[i] = q[i]
  OBVIOUS
<1>3. list_append(q, t)[Len(q) + 1] = t
  OBVIOUS
<1>4. \A u \in S : elem_find(list_append(q, t), u) <=> elem_find(q, u) \/ u = t
  BY <1>1, <1>2, <1>3 DEF elem_find
<1>5. Distinct(q) /\ ~elem_find(q, t) => Distinct(list_append(q, t))
  BY <1>1, <1>2, <1>3 DEF elem_find, Distinct
<1> QED BY <1>1, <1>4, <1>5

\* Inserting an element that is not in a list at the front keeps the list free
\* of duplicates, and adds just that element: list_push.
LEMMA PushFacts ==
  ASSUME NEW S, NEW q \in Seq(S), NEW t \in S
  PROVE  /\ list_push(q, t) \in Seq(S)
         /\ \A u \in S : elem_find(list_push(q, t), u) <=> elem_find(q, u) \/ u = t
         /\ Distinct(q) /\ ~elem_find(q, t) => Distinct(list_push(q, t))
<1> USE DEF list_push
<1>1. list_push(q, t) \in Seq(S) /\ Len(list_push(q, t)) = Len(q) + 1
  OBVIOUS
<1>2. \A i \in 1..Len(q) : (list_push(q, t))[i + 1] = q[i]
  OBVIOUS
<1>3. (list_push(q, t))[1] = t
  OBVIOUS
<1>4. \A i \in 2..(Len(q) + 1) : (list_push(q, t))[i] = q[i - 1] /\ i - 1 \in 1..Len(q)
  BY <1>2
<1>5. \A u \in S : elem_find(list_push(q, t), u) <=> elem_find(q, u) \/ u = t
  <2>1. ASSUME NEW u \in S, elem_find(list_push(q, t), u), u # t
        PROVE  elem_find(q, u)
    <3>1. PICK i \in 1..(Len(q) + 1) : (list_push(q, t))[i] = u
      BY <1>1, <2>1 DEF elem_find
    <3>2. i \in 2..(Len(q) + 1)
      BY <1>3, <2>1, <3>1
    <3> QED BY <1>4, <3>1, <3>2 DEF elem_find
  <2>2. ASSUME NEW u \in S, elem_find(q, u)
        PROVE  elem_find(list_push(q, t), u)
    <3>1. PICK i \in 1..Len(q) : q[i] = u
      BY <2>2 DEF elem_find
    <3>2. i + 1 \in 1..Len(list_push(q, t)) /\ (list_push(q, t))[i + 1] = u
      BY <1>1, <1>2, <3>1
    <3> QED BY <3>2 DEF elem_find
  <2>3. elem_find(list_push(q, t), t)
    BY <1>1, <1>3 DEF elem_find
  <2> QED BY <2>1, <2>2, <2>3
<1>6. Distinct(q) /\ ~elem_find(q, t) => Distinct(list_push(q, t))
  <2> DEFINE l == list_push(q, t)
             n == Len(q)
  <2>1. /\ n \in Nat /\ Len(l) = n + 1 /\ l[1] = t
        /\ \A i \in 2..(n + 1) : l[i] = q[i - 1] /\ i - 1 \in 1..n
    BY <1>1, <1>3, <1>4
  <2> HIDE DEF l, n
  <2>2. SUFFICES ASSUME Distinct(q), ~elem_find(q, t), NEW i \in 1..(n + 1), NEW j \in 1..(n + 1),
                        l[i] = l[j]
                 PROVE  i = j
    BY <2>1 DEF Distinct, l
  <2>3. \A k \in 2..(n + 1) : l[k] # t
    BY <2>1, <2>2 DEF elem_find, n
  <2>4. CASE i = 1 \/ j = 1
    <3>1. i \in 2..(n + 1) => l[i] # t
      BY <2>3
    <3>2. j \in 2..(n + 1) => l[j] # t
      BY <2>3
    <3>3. l[i] = l[j] /\ l[1] = t
      BY <2>1, <2>2
    <3> QED BY <2>1, <2>4, <3>1, <3>2, <3>3
  <2>5. CASE i \in 2..(n + 1) /\ j \in 2..(n + 1)
    <3>1. q[i - 1] = q[j - 1] /\ i - 1 \in 1..n /\ j - 1 \in 1..n
      BY <2>1, <2>2, <2>5
    <3>2. i - 1 = j - 1
      BY <2>2, <3>1 DEF Distinct, n
    <3> QED BY <2>1, <2>5, <3>2
  <2> QED BY <2>1, <2>4, <2>5
<1> QED BY <1>1, <1>5, <1>6

\* Popping the head of a list without duplicates takes just that element out.
LEMMA PopFacts ==
  ASSUME NEW S, NEW q \in Seq(S), q # <<>>
  PROVE  /\ Head(q) \in S /\ Tail(q) \in Seq(S) /\ elem_find(q, Head(q))
         /\ Distinct(q) => /\ Distinct(Tail(q))
                           /\ \A u \in S :
                                elem_find(Tail(q), u) <=> elem_find(q, u) /\ u # Head(q)
<1>1. /\ Len(q) \in Nat /\ Len(q) > 0 /\ Head(q) = q[1] /\ Head(q) \in S
      /\ Tail(q) \in Seq(S) /\ Len(Tail(q)) = Len(q) - 1
  OBVIOUS
<1>2. \A i \in 1..Len(Tail(q)) : Tail(q)[i] = q[i + 1]
  OBVIOUS
<1>3. elem_find(q, Head(q))
  BY <1>1 DEF elem_find
<1>4. ASSUME Distinct(q)
      PROVE  /\ Distinct(Tail(q))
             /\ \A u \in S : elem_find(Tail(q), u) <=> elem_find(q, u) /\ u # Head(q)
  <2>1. Distinct(Tail(q))
    BY <1>1, <1>2, <1>4 DEF Distinct
  <2>2. ASSUME NEW u \in S, elem_find(Tail(q), u)
        PROVE  elem_find(q, u) /\ u # Head(q)
    BY <1>1, <1>2, <1>4, <2>2 DEF elem_find, Distinct
  <2>3. ASSUME NEW u \in S, elem_find(q, u), u # Head(q)
        PROVE  elem_find(Tail(q), u)
    <3>1. PICK i \in 1..Len(q) : q[i] = u
      BY <2>3 DEF elem_find
    <3>2. i - 1 \in 1..Len(Tail(q)) /\ Tail(q)[i - 1] = u
      BY <1>1, <1>2, <2>3, <3>1
    <3> QED BY <3>2 DEF elem_find
  <2> QED BY <2>1, <2>2, <2>3
<1> QED BY <1>1, <1>3, <1>4

-----------------------------------------------------------------------------

\* What schedule() relies on: the statuses st and the list q its caller leaves.
Schedulable(st, q) ==
    /\ st \in [Threads -> Status]
    /\ q \in Seq(Threads)
    /\ Distinct(q)
    /\ \A t \in Threads : st[t] = "READY" <=> elem_find(q, t)
    /\ \A t \in Threads : st[t] = "RUNNING" => t = cur
    /\ st[Idle] \in {"RUNNING", "READY", "BLOCKED"}

\* schedule() dispatches exactly one thread and leaves the ready list exact.
LEMMA ScheduleFacts ==
  ASSUME TypeOK, NEW st, NEW q, Schedulable(st, q), schedule(st, q)
  PROVE  /\ cur' \in Threads
         /\ status' \in [Threads -> Status]
         /\ ready' \in Seq(Threads)
         /\ ticks' \in [Threads -> Nat]
         /\ ReadyListExact'
         /\ OneRunning'
         /\ status'[Idle] \in {"RUNNING", "READY", "BLOCKED"}
         /\ \A t \in Threads : status'[t] = "FREE" <=> st[t] = "FREE"
<1> DEFINE preempted == st[cur] = "RUNNING"
           st1       == IF preempted THEN [st EXCEPT ![cur] = "READY"] ELSE st
           queued    == IF preempted THEN list_append(q, cur) ELSE q
           st2       == IF list_empty(queued) THEN [st1 EXCEPT ![Idle] = "READY"] ELSE st1
           runnable  == IF list_empty(queued) THEN list_push(queued, Idle) ELSE queued
<1>0. cur \in Threads /\ ticks \in [Threads -> Nat]
  BY DEF TypeOK
<1>1. /\ cur' = Head(runnable)
      /\ ready' = Tail(runnable)
      /\ status' = [st1 EXCEPT ![Head(runnable)] = "RUNNING"]
      /\ ticks' = IF preempted THEN [ticks EXCEPT ![cur] = Priority[cur]] ELSE ticks
  BY DEF schedule
<1>2. /\ st1 \in [Threads -> Status]
      /\ queued \in Seq(Threads)
      /\ Distinct(queued)
      /\ \A t \in Threads : st1[t] = "READY" <=> elem_find(queued, t)
      /\ \A t \in Threads : st1[t] # "RUNNING"
      /\ st1[Idle] \in {"READY", "BLOCKED"}
      /\ \A t \in Threads : st1[t] = "FREE" <=> st[t] = "FREE"
  <2>1. CASE preempted
    <3>1. ~elem_find(q, cur)
      BY <1>0, <2>1 DEF Schedulable
    <3>2. /\ queued \in Seq(Threads) /\ Distinct(queued)
          /\ \A t \in Threads : elem_find(queued, t) <=> elem_find(q, t) \/ t = cur
      BY <1>0, <2>1, <3>1, AppendFacts DEF Schedulable
    <3> QED BY <1>0, <2>1, <3>2 DEF Schedulable, Status
  <2>2. CASE ~preempted
    BY <1>0, <2>2 DEF Schedulable
  <2> QED BY <2>1, <2>2
<1>3. /\ st2 \in [Threads -> Status]
      /\ runnable \in Seq(Threads) /\ runnable # <<>>
      /\ Distinct(runnable)
      /\ \A t \in Threads : st2[t] = "READY" <=> elem_find(runnable, t)
      /\ \A t \in Threads : st2[t] # "RUNNING"
      /\ st2[Idle] \in {"READY", "BLOCKED"}
      /\ \A t \in Threads : st2[t] = "FREE" <=> st[t] = "FREE"
  <2>1. CASE list_empty(queued)
    <3>1. \A t \in Threads : ~elem_find(queued, t)
      BY <2>1 DEF elem_find, list_empty
    <3>2. /\ runnable \in Seq(Threads) /\ Distinct(runnable)
          /\ \A t \in Threads : elem_find(runnable, t) <=> t = Idle
      BY <1>2, <2>1, <3>1, PushFacts
    <3>3. runnable # <<>>
      BY <3>2 DEF elem_find
    <3>4. st1[Idle] = "BLOCKED"
      BY <1>2, <3>1
    <3> QED BY <1>2, <2>1, <3>1, <3>2, <3>3, <3>4 DEF Status
  <2>2. CASE ~list_empty(queued)
    BY <1>2, <2>2 DEF list_empty
  <2> QED BY <2>1, <2>2
<1> DEFINE next == Head(runnable)
<1>4. /\ next \in Threads /\ elem_find(runnable, next)
      /\ Tail(runnable) \in Seq(Threads)
      /\ Distinct(Tail(runnable))
      /\ \A t \in Threads : elem_find(Tail(runnable), t) <=> elem_find(runnable, t) /\ t # next
  BY <1>3, PopFacts
<1>5. list_empty(queued) => next = Idle
  BY <1>3, <1>4 DEF list_empty, list_push
<1>6. status' = [st2 EXCEPT ![next] = "RUNNING"]
  BY <1>1, <1>2, <1>3, <1>5, ZenonT(40)
<1> HIDE DEF runnable, st2, st1, queued, preempted, next
<1>7. /\ status' \in [Threads -> Status]
      /\ \A t \in Threads : status'[t] = IF t = next THEN "RUNNING" ELSE st2[t]
  BY <1>3, <1>4, <1>6 DEF Status
<1>8. st2[next] = "READY"
  BY <1>3, <1>4
<1>9. cur' = next /\ ready' = Tail(runnable)
  BY <1>1 DEF next
<1>10. ticks' \in [Threads -> Nat]
  BY <1>0, <1>1
<1>11. ReadyListExact'
  BY <1>3, <1>4, <1>7, <1>9 DEF ReadyListExact
<1>12. OneRunning'
  BY <1>3, <1>4, <1>7, <1>9 DEF OneRunning
<1>13. status'[Idle] \in {"RUNNING", "READY", "BLOCKED"}
  BY <1>3, <1>7
<1>14. \A t \in Threads : status'[t] = "FREE" <=> st[t] = "FREE"
  BY <1>3, <1>7, <1>8
<1> QED BY <1>4, <1>7, <1>9, <1>10, <1>11, <1>12, <1>13, <1>14

\* thread_init leaves the scheduler in a state that satisfies the invariant.
LEMMA InitInv == Init => SchedInv
<1> SUFFICES ASSUME Init PROVE SchedInv
  OBVIOUS
<1>1. /\ ready \in Seq(Threads) /\ Len(ready) = 2
      /\ ready[1] = InitProc /\ ready[2] = Idle
  BY DEF Init
<1>2. \A t \in Threads : status[t] = IF t = Main THEN "RUNNING"
                                     ELSE IF t \in {InitProc, Idle} THEN "READY" ELSE "FREE"
  BY DEF Init
<1>3. TypeOK
  BY <1>1 DEF Init, TypeOK, Status
<1>4. \A t \in Threads : elem_find(ready, t) <=> t \in {InitProc, Idle}
  BY <1>1 DEF elem_find
<1>5. Distinct(ready)
  BY <1>1 DEF Distinct
<1>6. ReadyListExact
  BY <1>2, <1>4, <1>5 DEF ReadyListExact
<1>7. OneRunning /\ AllListExact /\ status[Idle] = "READY"
  BY <1>2 DEF Init, OneRunning, AllListExact
<1> QED BY <1>3, <1>6, <1>7 DEF SchedInv

\* Every operation of the scheduler keeps the invariant.
LEMMA StepInv == SchedInv /\ [Next]_vars => SchedInv'
<1> SUFFICES ASSUME SchedInv, [Next]_vars PROVE SchedInv'
  OBVIOUS
<1> USE DEF SchedInv
<1>0. /\ cur \in Threads /\ status \in [Threads -> Status] /\ ready \in Seq(Threads)
      /\ all \in SUBSET Threads /\ ticks \in [Threads -> Nat]
  BY DEF TypeOK
<1>1. ASSUME NEW t \in Threads, thread_start(t) PROVE SchedInv'
  <2>1. ~elem_find(ready, t) /\ t # cur /\ t # Idle
    BY <1>1, <1>0 DEF thread_start, ReadyListExact, OneRunning
  <2>2. /\ ready' \in Seq(Threads) /\ Distinct(ready')
        /\ \A u \in Threads : elem_find(ready', u) <=> elem_find(ready, u) \/ u = t
    BY <1>0, <1>1, <2>1, AppendFacts DEF thread_start, ReadyListExact
  <2>3. /\ status' \in [Threads -> Status]
        /\ \A u \in Threads : status'[u] = IF u = t THEN "READY" ELSE status[u]
    BY <1>0, <1>1 DEF thread_start, Status
  <2>4. TypeOK'
    BY <1>0, <1>1, <2>2, <2>3 DEF thread_start, TypeOK
  <2>5. ReadyListExact' /\ OneRunning'
    BY <1>1, <2>1, <2>2, <2>3 DEF thread_start, ReadyListExact, OneRunning
  <2>6. AllListExact'
    BY <1>1, <2>3 DEF thread_start, AllListExact
  <2> QED BY <2>1, <2>3, <2>4, <2>5, <2>6
<1>2. ASSUME NEW t \in Threads, thread_unblock(t) PROVE SchedInv'
  <2>1. ~elem_find(ready, t) /\ t # cur
    BY <1>2, <1>0 DEF thread_unblock, ReadyListExact, OneRunning
  <2>2. /\ ready' \in Seq(Threads) /\ Distinct(ready')
        /\ \A u \in Threads : elem_find(ready', u) <=> elem_find(ready, u) \/ u = t
    BY <1>0, <1>2, <2>1, PushFacts DEF thread_unblock, ReadyListExact
  <2>3. /\ status' \in [Threads -> Status] /\ status[t] # "FREE"
        /\ \A u \in Threads : status'[u] = IF u = t THEN "READY" ELSE status[u]
    BY <1>0, <1>2 DEF thread_unblock, Status
  <2>4. TypeOK'
    BY <1>0, <1>2, <2>2, <2>3 DEF thread_unblock, TypeOK
  <2>5. ReadyListExact' /\ OneRunning'
    BY <1>2, <2>1, <2>2, <2>3 DEF thread_unblock, ReadyListExact, OneRunning
  <2>6. AllListExact'
    BY <1>2, <2>3 DEF thread_unblock, AllListExact
  <2> QED BY <1>2, <2>3, <2>4, <2>5, <2>6 DEF thread_unblock
<1>3. ASSUME NEW t \in Threads, thread_exit(t) PROVE SchedInv'
  <2>1. ~elem_find(ready, t) /\ t # cur /\ t # Idle
    BY <1>3, <1>0 DEF thread_exit, ReadyListExact, OneRunning
  <2>2. ready' = ready
    BY <1>3, <2>1 DEF thread_exit
  <2>3. /\ status' \in [Threads -> Status]
        /\ \A u \in Threads : status'[u] = IF u = t THEN "FREE" ELSE status[u]
    BY <1>0, <1>3 DEF thread_exit, Status
  <2>4. TypeOK'
    BY <1>0, <1>3, <2>2, <2>3 DEF thread_exit, TypeOK
  <2>5. ReadyListExact' /\ OneRunning'
    BY <1>3, <2>1, <2>2, <2>3 DEF thread_exit, ReadyListExact, OneRunning
  <2>6. AllListExact'
    BY <1>3, <2>3 DEF thread_exit, AllListExact
  <2> QED BY <2>1, <2>3, <2>4, <2>5, <2>6
<1>4. ASSUME NEW st, NEW q, Schedulable(st, q), schedule(st, q), all' = all,
             \A t \in Threads : st[t] = "FREE" <=> status[t] = "FREE"
      PROVE  SchedInv'
  <2>1. /\ cur' \in Threads /\ status' \in [Threads -> Status]
        /\ ready' \in Seq(Threads) /\ ticks' \in [Threads -> Nat]
        /\ ReadyListExact' /\ OneRunning'
        /\ status'[Idle] \in {"RUNNING", "READY", "BLOCKED"}
        /\ \A t \in Threads : status'[t] = "FREE" <=> st[t] = "FREE"
    BY <1>4, ScheduleFacts
  <2>2. TypeOK'
    BY <1>0, <1>4, <2>1 DEF TypeOK
  <2>3. AllListExact'
    BY <1>4, <2>1 DEF AllListExact
  <2> QED BY <2>1, <2>2, <2>3
<1>5. ASSUME NEW stat \in Asleep, thread_block(stat) PROVE SchedInv'
  <2> DEFINE st == [status EXCEPT ![cur] = stat]
  <2>1. status[cur] = "RUNNING"
    BY <1>0 DEF OneRunning
  <2>2. Schedulable(st, ready)
    BY <1>0, <1>5, <2>1 DEF Schedulable, Status, Asleep, ReadyListExact, OneRunning, thread_block
  <2>3. \A t \in Threads : st[t] = "FREE" <=> status[t] = "FREE"
    BY <1>0, <1>5, <2>1 DEF Asleep
  <2>4. schedule(st, ready) /\ all' = all
    BY <1>5 DEF thread_block
  <2> QED BY <1>4, <2>2, <2>3, <2>4
<1>6. ASSUME thread_yield PROVE SchedInv'
  <2> DEFINE st == [status EXCEPT ![cur] = "READY"]
             q  == list_append(ready, cur)
  <2>1. status[cur] = "RUNNING" /\ ~elem_find(ready, cur)
    BY <1>0 DEF OneRunning, ReadyListExact
  <2>2. /\ q \in Seq(Threads) /\ Distinct(q)
        /\ \A u \in Threads : elem_find(q, u) <=> elem_find(ready, u) \/ u = cur
    BY <1>0, <2>1, AppendFacts DEF ReadyListExact
  <2>3. Schedulable(st, q)
    <3> HIDE DEF q
    <3> QED BY <1>0, <2>1, <2>2 DEF Schedulable, Status, ReadyListExact, OneRunning
  <2>4. \A t \in Threads : st[t] = "FREE" <=> status[t] = "FREE"
    BY <1>0, <2>1
  <2>5. schedule(st, q) /\ all' = all
    BY <1>6 DEF thread_yield
  <2> QED BY <1>4, <2>3, <2>4, <2>5
<1>7. ASSUME intr_timer_handler PROVE SchedInv'
  <2>1. CASE ticks[cur] = 0 /\ schedule(status, ready) /\ all' = all
    <3>1. Schedulable(status, ready)
      BY <1>0 DEF Schedulable, ReadyListExact, OneRunning
    <3> QED BY <1>4, <2>1, <3>1
  <2>2. CASE /\ ticks[cur] > 0 /\ ticks' = [ticks EXCEPT ![cur] = @ - 1]
             /\ UNCHANGED <<cur, status, ready, all>>
    BY <1>0, <2>2 DEF TypeOK, ReadyListExact, OneRunning, AllListExact
  <2> QED BY <1>7, <2>1, <2>2 DEF intr_timer_handler
<1>8. CASE UNCHANGED vars
  BY <1>8 DEF vars, TypeOK, ReadyListExact, OneRunning, AllListExact
<1> QED BY <1>1, <1>2, <1>3, <1>5, <1>6, <1>7, <1>8 DEF Next

\* The scheduler keeps its invariant for any threads and any priorities.
THEOREM SchedulerSafe == Spec => []SchedInv
BY InitInv, StepInv, PTL DEF Spec

\* Types, for any threads and any priorities.
THEOREM TypeCorrect == Spec => []TypeOK
<1>1. SchedInv => TypeOK
  BY DEF SchedInv
<1> QED BY <1>1, SchedulerSafe, PTL

\* The ready list is exactly the set of TASK_READY threads, without duplicates.
THEOREM ReadyListCorrect == Spec => []ReadyListExact
<1>1. SchedInv => ReadyListExact
  BY DEF SchedInv
<1> QED BY <1>1, SchedulerSafe, PTL

\* One thread is TASK_RUNNING: the one on the CPU.
THEOREM SingleRunner == Spec => []OneRunning
<1>1. SchedInv => OneRunning
  BY DEF SchedInv
<1> QED BY <1>1, SchedulerSafe, PTL

\* schedule() can always wake idle up when it needs it.
THEOREM IdleAlwaysWakeable == Spec => []IdleWakeable
<1>1. SchedInv => IdleWakeable
  <2> SUFFICES ASSUME SchedInv, ready = <<>>, cur # Idle
               PROVE  status[Idle] = "BLOCKED"
    BY DEF IdleWakeable, list_empty
  <2>1. ~elem_find(ready, Idle)
    BY DEF elem_find
  <2> QED BY <2>1 DEF SchedInv, ReadyListExact, OneRunning
<1> QED BY <1>1, SchedulerSafe, PTL
=============================================================================
