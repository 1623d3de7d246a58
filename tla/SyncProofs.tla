----------------------------- MODULE SyncProofs -----------------------------
(***************************************************************************)
(* The safety of the semaphore, the lock and the condition variable for    *)
(* any number of threads, locks and condition variables: SyncInv is        *)
(* inductive.  One lemma per step of the primitives, and in it one step    *)
(* per part of the invariant.                                              *)
(***************************************************************************)
EXTENDS Sync, TLAPS

USE SyncAssumption

-----------------------------------------------------------------------------
(* Kernel lists *)

\* Appending an element that is not in a list keeps the list free of
\* duplicates, and adds just that element: list_append.
LEMMA AppendFacts ==
  ASSUME NEW S, NEW q \in Seq(S), NEW t \in S
  PROVE  /\ list_append(q, t) \in Seq(S)
         /\ list_append(q, t) # <<>>
         /\ \A u \in S : elem_find(list_append(q, t), u) <=> elem_find(q, u) \/ u = t
         /\ Distinct(q) /\ ~elem_find(q, t) => Distinct(list_append(q, t))
<1> USE DEF list_append
<1>1. list_append(q, t) \in Seq(S) /\ Len(list_append(q, t)) = Len(q) + 1
  OBVIOUS
<1>2. \A i \in 1..Len(q) : list_append(q, t)[i] = q[i]
  OBVIOUS
<1>3. list_append(q, t)[Len(q) + 1] = t
  OBVIOUS
<1>4. \A u \in S : elem_find(list_append(q, t), u) <=> elem_find(q, u) \/ u = t
  BY <1>1, <1>2, <1>3 DEF elem_find
<1>5. Distinct(q) /\ ~elem_find(q, t) => Distinct(list_append(q, t))
  BY <1>1, <1>2, <1>3 DEF elem_find, Distinct
<1> QED BY <1>1, <1>4, <1>5

\* Popping the head of a list without duplicates takes just that element out.
LEMMA PopFacts ==
  ASSUME NEW S, NEW q \in Seq(S), q # <<>>
  PROVE  /\ Head(q) \in S /\ Tail(q) \in Seq(S) /\ elem_find(q, Head(q))
         /\ Distinct(q) => /\ Distinct(Tail(q))
                           /\ \A u \in S :
                                elem_find(Tail(q), u) <=> elem_find(q, u) /\ u # Head(q)
<1>1. /\ Len(q) \in Nat /\ Len(q) > 0 /\ Head(q) = q[1] /\ Head(q) \in S
      /\ Tail(q) \in Seq(S) /\ Len(Tail(q)) = Len(q) - 1
  OBVIOUS
<1>2. \A i \in 1..Len(Tail(q)) : Tail(q)[i] = q[i + 1]
  OBVIOUS
<1>3. elem_find(q, Head(q))
  BY <1>1 DEF elem_find
<1>4. ASSUME Distinct(q)
      PROVE  /\ Distinct(Tail(q))
             /\ \A u \in S : elem_find(Tail(q), u) <=> elem_find(q, u) /\ u # Head(q)
  <2>1. Distinct(Tail(q))
    BY <1>1, <1>2, <1>4 DEF Distinct
  <2>2. ASSUME NEW u \in S, elem_find(Tail(q), u)
        PROVE  elem_find(q, u) /\ u # Head(q)
    BY <1>1, <1>2, <1>4, <2>2 DEF elem_find, Distinct
  <2>3. ASSUME NEW u \in S, elem_find(q, u), u # Head(q)
        PROVE  elem_find(Tail(q), u)
    <3>1. PICK i \in 1..Len(q) : q[i] = u
      BY <2>3 DEF elem_find
    <3>2. i - 1 \in 1..Len(Tail(q)) /\ Tail(q)[i - 1] = u
      BY <1>1, <1>2, <2>3, <3>1
    <3> QED BY <3>2 DEF elem_find
  <2> QED BY <2>1, <2>2, <2>3
<1> QED BY <1>1, <1>3, <1>4

-----------------------------------------------------------------------------

\* A thread inside lock_acquire, lock_release or cv_wait has a lock to work on.
LEMMA LkType ==
  ASSUME TypeOK, PcInv, NEW t \in Threads, pc[t] \notin {"run", "broadcast", "notify_one", "notify_all"}
  PROVE  lk[t] \in Locks
<1>1. lk[t] # NULL
  BY DEF PcInv
<1>2. lk[t] \in Locks \cup {NULL}
  BY DEF TypeOK
<1> QED BY <1>1, <1>2

\* Clearing the holder keeps the type of holder.
LEMMA HolderType ==
  ASSUME NEW h \in [Locks -> Threads \cup {NULL}], NEW l \in Locks
  PROVE  [h EXCEPT ![l] = NULL] \in [Locks -> Threads \cup {NULL}]
OBVIOUS

\* A step that leaves the queues, the popped nodes and the notifiers alone leaves
\* the waiters where they are.
LEMMA PendingSame ==
  ASSUME UNCHANGED <<cvq, popped>>,
         \A u \in Threads : popped[u] # NULL => cv'[u] = cv[u]
  PROVE  \A c \in Cvs, t \in Threads : Pending(c, t)' <=> Pending(c, t)
BY DEF Pending

\* Nothing happens, and nothing is disturbed.
LEMMA SameInv == SyncInv /\ UNCHANGED vars => SyncInv'
BY DEF vars, SyncInv, TypeOK, PcInv, MutualExclusion, Owns, RepeatMatchesHolder,
       WaitersBlocked, NoLostWakeup, At, CvWaitersQueued, Pending

\* The new owner records itself as the holder.
LEMMA SetHolderStep ==
  ASSUME SyncInv, NEW t \in Threads, set_holder(t)
  PROVE  SyncInv'
<1> USE DEF SyncInv, set_holder, At, Goto, cvVars, Labels
<1>0. lk[t] \in Locks
  BY LkType
<1>8. \A l \in Locks : holder'[l] = IF l = lk[t] THEN t ELSE holder[l]
  BY <1>0 DEF TypeOK
<1>9. holder[lk[t]] = NULL
  BY <1>0 DEF TypeOK, PcInv, MutualExclusion, Owns
<1>20. \A c \in Cvs, u \in Threads : Pending(c, u)' <=> Pending(c, u)
  BY PendingSame DEF TypeOK, PcInv
<1>1. TypeOK'
  BY DEF TypeOK, PcInv
<1>2. PcInv'
  <2>1. ASSUME NEW u \in Threads, u # t, pc[u] \in {"sema_down", "got", "clear", "sema_up", "cv_loop", "counted"}
        PROVE  /\ pc[u] # "counted" => holder'[lk[u]] # u
               /\ pc[u] = "counted" => holder'[lk[u]] = u
    <3>1. lk[u] \in Locks
      BY <2>1, LkType
    <3> QED BY <3>1, <1>0, <1>8, <1>9, <2>1 DEF PcInv
  <2>2. pc'[t] = "counted" /\ holder'[lk[t]] = t
    BY <1>0, <1>8 DEF TypeOK
  <2>3. ASSUME NEW u \in Threads, pc[u] \in {"broadcast", "notify_one", "notify_all"}
        PROVE  cv[u] \in Cvs /\ holder'[CvLock[cv[u]]] = u
    BY <1>0, <1>8, <1>9, <2>3 DEF PcInv
  <2> QED BY <1>20, <2>1, <2>2, <2>3 DEF TypeOK, PcInv
<1>3. MutualExclusion'
  BY DEF TypeOK, PcInv, MutualExclusion, Owns
<1>4. RepeatMatchesHolder'
  BY DEF TypeOK, PcInv, MutualExclusion, Owns, RepeatMatchesHolder
<1>5. WaitersBlocked'
  BY DEF TypeOK, PcInv, WaitersBlocked
<1>6. NoLostWakeup'
  BY DEF TypeOK, PcInv, NoLostWakeup
<1>7. CvWaitersQueued'
  BY <1>20 DEF TypeOK, PcInv, CvWaitersQueued
<1> QED BY <1>1, <1>2, <1>3, <1>4, <1>5, <1>6, <1>7

\* lock_acquire returns, and so may cv_wait.
LEMMA SetRepeatStep ==
  ASSUME SyncInv, NEW t \in Threads, set_repeat(t)
  PROVE  SyncInv'
<1> USE DEF SyncInv, set_repeat, At, Goto, cvVars, Labels
<1>0. lk[t] \in Locks
  BY LkType
<1>20. \A c \in Cvs, u \in Threads : Pending(c, u)' <=> Pending(c, u)
  <2>1. popped[t] = NULL
    BY DEF PcInv
  <2>2. \A u \in Threads : u # t => cv'[u] = cv[u]
    BY DEF TypeOK
  <2> QED BY <2>1, <2>2, PendingSame
<1>1. TypeOK'
  BY <1>0 DEF TypeOK, PcInv
<1>2. PcInv'
  BY <1>20 DEF TypeOK, PcInv
<1>3. MutualExclusion'
  BY DEF TypeOK, PcInv, MutualExclusion, Owns
<1>4. RepeatMatchesHolder'
  <2>1. \A l \in Locks : repeat'[l] = IF l = lk[t] THEN 1 ELSE repeat[l]
    BY <1>0 DEF TypeOK
  <2>2. Owns(t, lk[t]) /\ holder[lk[t]] = t /\ value[lk[t]] = 0
    BY <1>0 DEF TypeOK, PcInv, MutualExclusion, Owns
  <2>3. \A u \in Threads : u # t => ~Owns(u, lk[t])
    BY <1>0, <2>2 DEF MutualExclusion
  <2> QED BY <1>0, <2>1, <2>2, <2>3 DEF TypeOK, PcInv, Owns, RepeatMatchesHolder
<1>5. WaitersBlocked'
  BY DEF TypeOK, PcInv, WaitersBlocked
<1>6. NoLostWakeup'
  BY DEF TypeOK, PcInv, NoLostWakeup
<1>7. CvWaitersQueued'
  BY <1>20 DEF TypeOK, PcInv, CvWaitersQueued
<1> QED BY <1>1, <1>2, <1>3, <1>4, <1>5, <1>6, <1>7

\* lock_release resets the nesting count.
LEMMA ClearRepeatStep ==
  ASSUME SyncInv, NEW t \in Threads, clear_repeat(t)
  PROVE  SyncInv'
<1> USE DEF SyncInv, clear_repeat, At, Goto, cvVars, Labels
<1>0. lk[t] \in Locks
  BY LkType
<1>20. \A c \in Cvs, u \in Threads : Pending(c, u)' <=> Pending(c, u)
  BY PendingSame DEF TypeOK, PcInv
<1>1. TypeOK'
  BY <1>0 DEF TypeOK
<1>2. PcInv'
  BY <1>20 DEF TypeOK, PcInv
<1>3. MutualExclusion'
  BY DEF TypeOK, PcInv, MutualExclusion, Owns
<1>4. RepeatMatchesHolder'
  BY DEF TypeOK, PcInv, MutualExclusion, Owns, RepeatMatchesHolder
<1>5. WaitersBlocked'
  BY DEF TypeOK, PcInv, WaitersBlocked
<1>6. NoLostWakeup'
  BY DEF TypeOK, PcInv, NoLostWakeup
<1>7. CvWaitersQueued'
  BY <1>20 DEF TypeOK, PcInv, CvWaitersQueued
<1> QED BY <1>1, <1>2, <1>3, <1>4, <1>5, <1>6, <1>7

\* A nested lock_acquire counts, any other heads for the semaphore.
LEMMA LockAcquireStep ==
  ASSUME SyncInv, NEW t \in Threads, NEW l \in Locks, lock_acquire(t, l)
  PROVE  SyncInv'
<1> USE DEF SyncInv, lock_acquire, At, Goto, cvVars, Labels
<1>8. repeat \in [Locks -> 0..MaxRepeat]
  BY DEF TypeOK
<1>20. \A c \in Cvs, u \in Threads : Pending(c, u)' <=> Pending(c, u)
  BY PendingSame DEF TypeOK, PcInv
<1>1. TypeOK'
  <2>1. repeat[l] < MaxRepeat => repeat[l] + 1 \in 0..MaxRepeat
    BY <1>8
  <2>2. repeat' \in [Locks -> 0..MaxRepeat]
    BY <1>8, <2>1
  <2>3. pc' \in [Threads -> Labels] /\ lk' \in [Threads -> Locks \cup {NULL}]
    <3>1. pc' = pc \/ pc' = [pc EXCEPT ![t] = "sema_down"]
      OBVIOUS
    <3>2. lk' = lk \/ lk' = [lk EXCEPT ![t] = l]
      OBVIOUS
    <3> HIDE DEF lock_acquire
    <3>3. pc' \in [Threads -> Labels]
      BY <3>1 DEF TypeOK
    <3>4. lk' \in [Threads -> Locks \cup {NULL}]
      BY <3>2 DEF TypeOK
    <3> QED BY <3>3, <3>4
  <2>4. UNCHANGED <<value, waiters, holder, cvq, popped, node, blocked, cv>>
    OBVIOUS
  <2> HIDE DEF lock_acquire, Labels
  <2> QED BY <2>2, <2>3, <2>4 DEF TypeOK
<1>2. PcInv'
  BY <1>20 DEF TypeOK, PcInv
<1>3. MutualExclusion'
  <2>1. \A u \in Threads, k \in Locks : Owns(u, k)' <=> Owns(u, k)
    BY DEF TypeOK, PcInv, Owns
  <2> QED BY <2>1 DEF MutualExclusion
<1>4. RepeatMatchesHolder'
  BY DEF TypeOK, PcInv, MutualExclusion, Owns, RepeatMatchesHolder
<1>5. WaitersBlocked'
  BY DEF TypeOK, PcInv, WaitersBlocked
<1>6. NoLostWakeup'
  BY DEF TypeOK, PcInv, NoLostWakeup
<1>7. CvWaitersQueued'
  BY <1>20 DEF TypeOK, PcInv, CvWaitersQueued
<1> QED BY <1>1, <1>2, <1>3, <1>4, <1>5, <1>6, <1>7

\* lock_release counts down, or gives the holder up.
LEMMA LockReleaseStep ==
  ASSUME SyncInv, NEW t \in Threads, NEW l \in Locks, lock_release(t, l)
  PROVE  SyncInv'
<1> USE DEF SyncInv, lock_release, At, Goto, cvVars, Labels
<1>8. repeat \in [Locks -> 0..MaxRepeat]
  BY DEF TypeOK
<1>20. \A c \in Cvs, u \in Threads : Pending(c, u)' <=> Pending(c, u)
  BY PendingSame DEF TypeOK, PcInv
<1>1. TypeOK'
  <2>1. repeat[l] > 1 => repeat[l] - 1 \in 0..MaxRepeat
    BY <1>8
  <2>2. repeat' \in [Locks -> 0..MaxRepeat]
    BY <1>8, <2>1
  <2>6. holder' = holder \/ holder' = [holder EXCEPT ![l] = NULL]
    OBVIOUS
  <2>3. holder' \in [Locks -> Threads \cup {NULL}]
    <3>1. holder \in [Locks -> Threads \cup {NULL}]
      BY DEF TypeOK
    <3>2. [holder EXCEPT ![l] = NULL] \in [Locks -> Threads \cup {NULL}]
      BY <3>1, HolderType
    <3> QED BY <2>6, <3>1, <3>2
  <2>4. pc' \in [Threads -> Labels]
    <3>1. pc' = pc \/ pc' = [pc EXCEPT ![t] = "clear"]
      OBVIOUS
    <3> HIDE DEF lock_release
    <3> QED BY <3>1 DEF TypeOK
  <2>5. lk' \in [Threads -> Locks \cup {NULL}]
    BY ZenonT(40) DEF TypeOK
  <2> QED BY <2>2, <2>3, <2>4, <2>5 DEF TypeOK
<1>2. PcInv'
  BY <1>20 DEF TypeOK, PcInv
<1>3. MutualExclusion'
  <2>1. \A u \in Threads, k \in Locks : Owns(u, k)' <=> Owns(u, k)
    BY DEF TypeOK, PcInv, Owns
  <2> QED BY <2>1 DEF MutualExclusion
<1>4. RepeatMatchesHolder'
  BY DEF TypeOK, PcInv, MutualExclusion, Owns, RepeatMatchesHolder
<1>5. WaitersBlocked'
  BY DEF TypeOK, PcInv, WaitersBlocked
<1>6. NoLostWakeup'
  BY DEF TypeOK, PcInv, NoLostWakeup
<1>7. CvWaitersQueued'
  BY <1>20 DEF TypeOK, PcInv, CvWaitersQueued
<1> QED BY <1>1, <1>2, <1>3, <1>4, <1>5, <1>6, <1>7

\* sema_down queues and blocks the thread, or takes the semaphore.
LEMMA SemaDownStep ==
  ASSUME SyncInv, NEW t \in Threads, sema_down(t)
  PROVE  SyncInv'
<1> USE DEF SyncInv, sema_down, At, Goto, cvVars, Labels
<1>0. lk[t] \in Locks
  BY LkType
<1>8. value[lk[t]] \in {0, 1}
  BY <1>0 DEF TypeOK
<1>9. /\ ~elem_find(waiters[lk[t]], t) /\ waiters[lk[t]] \in Seq(Threads)
      /\ Distinct(waiters[lk[t]])
  BY <1>0 DEF TypeOK, WaitersBlocked
<1>10. LET q == list_append(waiters[lk[t]], t) IN
         /\ q \in Seq(Threads) /\ Distinct(q)
         /\ \A u \in Threads : elem_find(q, u) <=> elem_find(waiters[lk[t]], u) \/ u = t
  BY <1>9, AppendFacts
<1>20. \A c \in Cvs, u \in Threads : Pending(c, u)' <=> Pending(c, u)
  BY PendingSame DEF TypeOK, PcInv
<1>1. TypeOK'
  <2>1. value' = value \/ value' = [value EXCEPT ![lk[t]] = 0]
    BY <1>8
  <2>4. value' \in [Locks -> {0, 1}]
    BY <1>0, <2>1 DEF TypeOK
  <2>2. waiters' \in [Locks -> Seq(Threads)]
    BY <1>0, <1>10 DEF TypeOK
  <2>3. pc' \in [Threads -> Labels] /\ blocked' \in SUBSET Threads
    BY DEF TypeOK
  <2> QED BY <2>2, <2>3, <2>4 DEF TypeOK
<1>2. PcInv'
  BY <1>20 DEF TypeOK, PcInv
<1>3. MutualExclusion'
  BY DEF TypeOK, PcInv, MutualExclusion, Owns
<1>4. RepeatMatchesHolder'
  BY DEF TypeOK, PcInv, MutualExclusion, Owns, RepeatMatchesHolder
<1>5. WaitersBlocked'
  <2>1. CASE value[lk[t]] = 0
    <3>1. /\ \A l \in Locks : waiters'[l] = IF l = lk[t] THEN list_append(waiters[l], t) ELSE waiters[l]
          /\ blocked' = blocked \cup {t} /\ UNCHANGED <<pc, lk>>
      BY <1>0, <2>1 DEF TypeOK
    <3> QED BY <1>0, <1>10, <3>1 DEF WaitersBlocked
  <2>2. CASE value[lk[t]] > 0
    BY <2>2 DEF TypeOK, WaitersBlocked
  <2> QED BY <1>8, <2>1, <2>2
<1>6. NoLostWakeup'
  BY DEF TypeOK, PcInv, NoLostWakeup
<1>7. CvWaitersQueued'
  BY <1>20 DEF TypeOK, PcInv, CvWaitersQueued
<1> QED BY <1>1, <1>2, <1>3, <1>4, <1>5, <1>6, <1>7

\* sema_up wakes the first waiter up and frees the semaphore.
LEMMA SemaUpStep ==
  ASSUME SyncInv, NEW t \in Threads, sema_up(t)
  PROVE  SyncInv'
<1> USE DEF SyncInv, sema_up, At, Goto, Return, cvVars, Labels
<1>0. lk[t] \in Locks
  BY LkType
<1> DEFINE k == lk[t]
           q == waiters[k]
<1>8. /\ value[k] = 0 /\ Owns(t, k) /\ repeat[k] = 0 /\ holder[k] = NULL
      /\ \A u \in Threads : Owns(u, k) => u = t
  BY <1>0 DEF TypeOK, PcInv, MutualExclusion, Owns, RepeatMatchesHolder
<1>9. q \in Seq(Threads) /\ Distinct(q)
  BY <1>0 DEF TypeOK, WaitersBlocked
<1>10. ASSUME ~list_empty(q)
       PROVE  /\ Head(q) \in Threads /\ Tail(q) \in Seq(Threads) /\ Distinct(Tail(q))
              /\ \A u \in Threads : elem_find(Tail(q), u) <=> elem_find(q, u) /\ u # Head(q)
              /\ Head(q) \in blocked /\ pc[Head(q)] = "sema_down" /\ lk[Head(q)] = k
  <2>1. elem_find(q, Head(q))
    BY <1>9, <1>10, PopFacts DEF list_empty
  <2> QED BY <1>0, <1>9, <1>10, <2>1, PopFacts DEF list_empty, WaitersBlocked
<1>11. value' = [value EXCEPT ![k] = 1]
  BY <1>8
<1>12. \/ list_empty(q) /\ waiters' = waiters /\ blocked' = blocked
       \/ /\ ~list_empty(q) /\ waiters' = [waiters EXCEPT ![k] = Tail(q)]
          /\ blocked' = blocked \ {Head(q)}
  OBVIOUS
<1>13. \/ cv[t] = NULL /\ pc' = [pc EXCEPT ![t] = "run"] /\ lk' = [lk EXCEPT ![t] = NULL]
       \/ cv[t] # NULL /\ pc' = [pc EXCEPT ![t] = "cv_loop"] /\ lk' = lk
  OBVIOUS
<1>14. pc[t] = "sema_up" /\ t \notin blocked /\ UNCHANGED <<holder, repeat, cvq, popped, node, cv>>
  OBVIOUS
<1>15. \A u \in Threads : u # t => pc'[u] = pc[u] /\ lk'[u] = lk[u]
  BY <1>13 DEF TypeOK
<1> USE <1>0, <1>8, <1>11, <1>13, <1>14
<1> HIDE DEF sema_up, q
<1>20. \A c \in Cvs, u \in Threads : Pending(c, u)' <=> Pending(c, u)
  BY PendingSame
<1>1. TypeOK'
  <2>1. value' \in [Locks -> {0, 1}]
    BY DEF TypeOK
  <2>2. waiters' \in [Locks -> Seq(Threads)]
    BY <1>10, <1>12 DEF TypeOK
  <2>3. pc' \in [Threads -> Labels] /\ lk' \in [Threads -> Locks \cup {NULL}]
    BY DEF TypeOK
  <2>4. blocked' \in SUBSET Threads
    BY <1>12 DEF TypeOK
  <2> QED BY <2>1, <2>2, <2>3, <2>4 DEF TypeOK
<1>2. PcInv'
  <2>1. ASSUME NEW u \in Threads, u # t, u \in blocked' PROVE u \in blocked
    BY <1>12, <2>1
  <2> QED BY <1>12, <1>15, <1>20, <2>1 DEF TypeOK, PcInv
<1>3. MutualExclusion'
  <2>1. \A u \in Threads, l \in Locks : Owns(u, l)' <=> Owns(u, l) /\ l # k
    BY <1>15 DEF TypeOK, PcInv, Owns
  <2> QED BY <2>1 DEF TypeOK, MutualExclusion
<1>4. RepeatMatchesHolder'
  BY <1>15 DEF TypeOK, PcInv, RepeatMatchesHolder
<1>5. WaitersBlocked'
  <2>1. CASE list_empty(q)
    BY <1>12, <1>15, <2>1 DEF TypeOK, WaitersBlocked
  <2>2. CASE ~list_empty(q)
    <3>1. /\ \A l \in Locks : waiters'[l] = IF l = k THEN Tail(q) ELSE waiters[l]
          /\ blocked' = blocked \ {Head(q)}
      BY <1>12, <2>2 DEF TypeOK
    <3>2. \A u \in Threads : elem_find(waiters[k], u) <=> elem_find(q, u)
      BY DEF q
    <3>3. ASSUME NEW l \in Locks
          PROVE  /\ Distinct(waiters'[l])
                 /\ \A u \in Threads : elem_find(waiters'[l], u) <=>
                       u \in blocked' /\ pc'[u] = "sema_down" /\ lk'[u] = l
      <4>1. ASSUME NEW u \in Threads
            PROVE  elem_find(waiters[l], u) <=> u \in blocked /\ pc[u] = "sema_down" /\ lk[u] = l
        BY DEF WaitersBlocked
      <4>2. t \notin blocked' /\ Distinct(waiters'[l])
        BY <1>10, <2>2, <3>1 DEF WaitersBlocked
      <4>3. CASE l = k
        BY <1>10, <1>15, <2>2, <3>1, <3>2, <4>1, <4>2, <4>3
      <4>4. CASE l # k
        BY <1>10, <1>15, <2>2, <3>1, <4>1, <4>2, <4>4
      <4> QED BY <4>2, <4>3, <4>4
    <3> QED BY <3>3 DEF WaitersBlocked
  <2> QED BY <2>1, <2>2
<1>6. NoLostWakeup'
  <2>1. ASSUME NEW l \in Locks, l # k, value'[l] = 1, waiters'[l] # <<>>
        PROVE  \E u \in Threads : At(u, "sema_down")' /\ lk'[u] = l
    <3>1. value[l] = 1 /\ waiters[l] # <<>>
      BY <1>12, <2>1 DEF TypeOK
    <3>2. PICK u \in Threads : At(u, "sema_down") /\ lk[u] = l
      BY <3>1 DEF NoLostWakeup
    <3> QED BY <1>12, <1>15, <3>2
  <2>2. ASSUME waiters'[k] # <<>>
        PROVE  \E u \in Threads : At(u, "sema_down")' /\ lk'[u] = k
    <3>1. ~list_empty(q)
      BY <1>12, <2>2 DEF list_empty, q
    <3> QED BY <1>10, <1>12, <1>15, <3>1
  <2> QED BY <2>1, <2>2 DEF NoLostWakeup
<1>7. CvWaitersQueued'
  <2>1. \A u \in Threads : pc[u] # "sema_down" => (u \in blocked' <=> u \in blocked)
    BY <1>10, <1>12
  <2>2. pc'[t] \in {"run", "cv_loop"} /\ (pc'[t] = "run" => cv[t] = NULL) /\ t \notin blocked'
    BY <1>12 DEF TypeOK
  <2>3. ASSUME NEW c \in Cvs, NEW u \in Threads
        PROVE  /\ Pending(c, u) =>
                    /\ cv[u] = c
                    /\ \/ /\ node[u] = "QUEUED" /\ u \notin blocked'
                          /\ pc'[u] \in {"clear", "sema_up", "cv_loop"}
                       \/ node[u] = "BLOCKED" /\ u \in blocked' /\ pc'[u] = "cv_loop"
               /\ pc'[u] = "cv_loop" /\ u \in blocked' /\ cv[u] = c => Pending(c, u)
    <3>1. CASE u = t
      BY <2>2, <3>1 DEF CvWaitersQueued
    <3>2. CASE u # t
      BY <1>15, <2>1, <3>2 DEF CvWaitersQueued
    <3> QED BY <3>1, <3>2
  <2> QED BY <1>20, <2>3 DEF CvWaitersQueued
<1> QED BY <1>1, <1>2, <1>3, <1>4, <1>5, <1>6, <1>7

\* cv_wait queues a node and starts to release the lock.
LEMMA CvWaitStep ==
  ASSUME SyncInv, NEW t \in Threads, NEW c \in Cvs, cv_wait(t, c)
  PROVE  SyncInv'
<1> USE DEF SyncInv, cv_wait, At, Goto, cvVars, Labels
<1> DEFINE k == CvLock[c]
<1>0. k \in Locks
  OBVIOUS
<1>8. \A d \in Cvs : ~elem_find(cvq[d], t) /\ ~Pending(d, t)
  BY DEF CvWaitersQueued, Pending
<1>9. LET q == list_append(cvq[c], t) IN
        /\ q \in Seq(Threads) /\ Distinct(q)
        /\ \A u \in Threads : elem_find(q, u) <=> elem_find(cvq[c], u) \/ u = t
  <2>1. cvq[c] \in Seq(Threads) /\ Distinct(cvq[c])
    BY DEF TypeOK, CvWaitersQueued
  <2> QED BY <1>8, <2>1, AppendFacts
<1>10. \A d \in Cvs : cvq'[d] = IF d = c THEN list_append(cvq[c], t) ELSE cvq[d]
  BY DEF TypeOK
<1>11. /\ \A u \in Threads : u # t => /\ pc'[u] = pc[u] /\ lk'[u] = lk[u] /\ cv'[u] = cv[u]
                                     /\ node'[u] = node[u]
       /\ pc'[t] = "clear" /\ lk'[t] = k /\ cv'[t] = c /\ node'[t] = "QUEUED"
  BY DEF TypeOK
<1>12. popped[t] = NULL /\ UNCHANGED <<popped, blocked>>
  BY DEF PcInv
<1>13. ASSUME NEW d \in Cvs
       PROVE  /\ \A u \in Threads : u # t => (Pending(d, u)' <=> Pending(d, u))
              /\ Pending(d, t)' <=> d = c
  <2>1. /\ \A u \in Threads : u # t => (elem_find(cvq'[d], u) <=> elem_find(cvq[d], u))
        /\ elem_find(cvq'[d], t) <=> d = c
    BY <1>8, <1>9, <1>10
  <2>2. \A u, v \in Threads : popped'[u] = v /\ cv'[u] = d <=> popped[u] = v /\ cv[u] = d
    BY <1>11, <1>12
  <2> QED BY <1>8, <2>1, <2>2 DEF Pending
<1>1. TypeOK'
  <2>1. cvq' \in [Cvs -> Seq(Threads)]
    BY <1>9 DEF TypeOK
  <2>2. /\ holder' \in [Locks -> Threads \cup {NULL}] /\ pc' \in [Threads -> Labels]
        /\ lk' \in [Threads -> Locks \cup {NULL}] /\ cv' \in [Threads -> Cvs \cup {NULL}]
        /\ node' \in [Threads -> {"NONE", "QUEUED", "BLOCKED", "NOTIFIED"}]
    BY <1>0 DEF TypeOK
  <2> QED BY <2>1, <2>2 DEF TypeOK
<1>2. PcInv'
  <2>1. ASSUME NEW u \in Threads, popped[u] # NULL
        PROVE  ~elem_find(cvq'[cv[u]], popped[u])
    <3>1. /\ cv[u] \in Cvs /\ popped[u] \in Threads /\ ~elem_find(cvq[cv[u]], popped[u])
          /\ Pending(cv[u], popped[u])
      BY <2>1 DEF PcInv, TypeOK, Pending
    <3>2. popped[u] # t
      BY <1>8, <3>1
    <3> QED BY <1>9, <1>10, <3>1, <3>2
  <2>4. ASSUME NEW u \in Threads, u # t, pc[u] \in {"broadcast", "notify_one", "notify_all"}
        PROVE  cv[u] \in Cvs /\ holder'[CvLock[cv[u]]] = u
    BY <1>0, <2>4 DEF PcInv, TypeOK
  <2>2. \A u \in Threads : u # t =>
           /\ pc[u] \in {"sema_down", "got", "clear", "sema_up", "cv_loop"} => holder'[lk[u]] # u
           /\ pc[u] = "counted" => holder'[lk[u]] = u
    <3>1. \A l \in Locks : holder'[l] = IF l = k THEN NULL ELSE holder[l]
      BY <1>0 DEF TypeOK
    <3>2. ASSUME NEW u \in Threads, u # t, pc[u] \in {"sema_down", "got", "clear", "sema_up", "cv_loop", "counted"}
          PROVE  /\ pc[u] # "counted" => holder'[lk[u]] # u
                 /\ pc[u] = "counted" => holder'[lk[u]] = u
      <4>1. lk[u] \in Locks
        BY <3>2, LkType
      <4> QED BY <3>1, <3>2, <4>1 DEF PcInv
    <3> QED BY <3>2
  <2>3. Pending(c, t)' /\ holder'[k] = NULL
    BY <1>0, <1>13 DEF TypeOK
  <2> QED BY <1>0, <1>11, <1>12, <1>13, <2>1, <2>2, <2>3, <2>4 DEF PcInv, TypeOK
<1>3. MutualExclusion'
  BY DEF TypeOK, PcInv, MutualExclusion, Owns
<1>4. RepeatMatchesHolder'
  BY DEF TypeOK, PcInv, MutualExclusion, Owns, RepeatMatchesHolder
<1>5. WaitersBlocked'
  BY DEF TypeOK, PcInv, WaitersBlocked
<1>6. NoLostWakeup'
  BY DEF TypeOK, PcInv, NoLostWakeup
<1>7. CvWaitersQueued'
  <2>1. \A d \in Cvs : Distinct(cvq'[d])
    BY <1>9, <1>10 DEF CvWaitersQueued
  <2> QED BY <1>11, <1>12, <1>13, <2>1 DEF CvWaitersQueued
<1> QED BY <1>1, <1>2, <1>3, <1>4, <1>5, <1>6, <1>7

\* The loop of cv_wait blocks, or leaves for the lock.
LEMMA CvBlockStep ==
  ASSUME SyncInv, NEW t \in Threads, cv_block(t)
  PROVE  SyncInv'
<1> USE DEF SyncInv, cv_block, At, Goto, lockVars, Labels
<1>0. \A u \in Threads : u # t => pc'[u] = pc[u] /\ node'[u] = node[u] /\ (u \in blocked' <=> u \in blocked)
  BY DEF TypeOK
<1>20. \A c \in Cvs, u \in Threads : Pending(c, u)' <=> Pending(c, u)
  BY PendingSame DEF TypeOK, PcInv
<1>1. TypeOK'
  <2>1. pc' \in [Threads -> Labels] /\ blocked' \in SUBSET Threads
    BY DEF TypeOK
  <2>2. node' \in [Threads -> {"NONE", "QUEUED", "BLOCKED", "NOTIFIED"}]
    BY DEF TypeOK
  <2> QED BY <2>1, <2>2 DEF TypeOK
<1>2. PcInv'
  <2>1. CASE node[t] # "NOTIFIED"
    BY <1>0, <1>20, <2>1 DEF TypeOK, PcInv
  <2>2. CASE node[t] = "NOTIFIED"
    <3>1. lk[t] \in Locks
      BY LkType
    <3>2. holder[lk[t]] # t
      BY DEF PcInv
    <3> QED BY <1>0, <1>20, <2>2, <3>1, <3>2 DEF TypeOK, PcInv
  <2> QED BY <2>1, <2>2
<1>3. MutualExclusion'
  <2>1. \A u \in Threads, k \in Locks : Owns(u, k)' <=> Owns(u, k)
    BY DEF TypeOK, PcInv, Owns
  <2> QED BY <2>1 DEF MutualExclusion
<1>4. RepeatMatchesHolder'
  BY DEF TypeOK, PcInv, MutualExclusion, Owns, RepeatMatchesHolder
<1>5. WaitersBlocked'
  BY DEF TypeOK, PcInv, WaitersBlocked
<1>6. NoLostWakeup'
  BY DEF TypeOK, PcInv, NoLostWakeup
<1>7. CvWaitersQueued'
  <2>1. CASE node[t] # "NOTIFIED"
    <3>1. \A c \in Cvs : Pending(c, t) <=> cv[t] = c
      <4>1. \A c \in Cvs : Pending(c, t) => cv[t] = c
        BY DEF CvWaitersQueued
      <4>2. cv[t] \in Cvs => Pending(cv[t], t)
        BY <2>1 DEF PcInv
      <4> QED BY <4>1, <4>2
    <3>2. node'[t] = "BLOCKED" /\ t \in blocked' /\ pc'[t] = "cv_loop" /\ UNCHANGED <<cvq, popped, cv>>
      BY <2>1 DEF TypeOK
    <3> QED BY <1>0, <1>20, <3>1, <3>2 DEF CvWaitersQueued
  <2>2. CASE node[t] = "NOTIFIED"
    <3>1. \A c \in Cvs : ~Pending(c, t)
      BY <2>2 DEF CvWaitersQueued
    <3>2. pc'[t] = "sema_down" /\ UNCHANGED <<cvq, popped, cv>>
      BY <2>2 DEF TypeOK
    <3> QED BY <1>0, <1>20, <3>1, <3>2 DEF CvWaitersQueued
  <2> QED BY <2>1, <2>2
<1> QED BY <1>1, <1>2, <1>3, <1>4, <1>5, <1>6, <1>7

\* A notifier pops the first node of the queue: its thread stays pending.
LEMMA PopStep ==
  ASSUME SyncInv, NEW t \in Threads, NEW c \in Cvs,
         NEW dest \in {"notify_one", "notify_all"},
         t \notin blocked, holder[CvLock[c]] = t, pc[t] \in {"run", "broadcast"},
         list_pop_waiter(t, c, dest)
  PROVE  SyncInv'
<1> USE DEF SyncInv, lockVars
<1> DEFINE q == cvq[c]
           w == Head(q)
<1>0. q \in Seq(Threads) /\ Distinct(q) /\ q # <<>>
  BY DEF TypeOK, CvWaitersQueued, list_pop_waiter, list_empty
<1>8. /\ w \in Threads /\ Tail(q) \in Seq(Threads) /\ Distinct(Tail(q)) /\ elem_find(q, w)
      /\ \A v \in Threads : elem_find(Tail(q), v) <=> elem_find(q, v) /\ v # w
  BY <1>0, PopFacts
<1>9. /\ \A d \in Cvs : cvq'[d] = IF d = c THEN Tail(q) ELSE cvq[d]
      /\ cvq' \in [Cvs -> Seq(Threads)]
  BY <1>8 DEF TypeOK, list_pop_waiter
<1>10. /\ \A v \in Threads : /\ popped'[v] = IF v = t THEN w ELSE popped[v]
                             /\ cv'[v] = IF v = t THEN c ELSE cv[v]
                             /\ v # t => pc'[v] = pc[v]
       /\ pc'[t] \in {"notify_one", "notify_all"}
       /\ popped' \in [Threads -> Threads \cup {NULL}]
       /\ cv' \in [Threads -> Cvs \cup {NULL}]
       /\ pc' \in [Threads -> Labels]
  <2>1. /\ popped' = [popped EXCEPT ![t] = w] /\ cv' = [cv EXCEPT ![t] = c]
    BY DEF list_pop_waiter
  <2>2. \/ pc' = [pc EXCEPT ![t] = "notify_one"]
        \/ pc' = [pc EXCEPT ![t] = "notify_all"]
    BY DEF Goto, list_pop_waiter
  <2>3. /\ popped \in [Threads -> Threads \cup {NULL}]
        /\ cv \in [Threads -> Cvs \cup {NULL}] /\ pc \in [Threads -> Labels]
    BY DEF TypeOK
  <2> HIDE DEF w
  <2>4. /\ \A v \in Threads : /\ popped'[v] = IF v = t THEN w ELSE popped[v]
                              /\ cv'[v] = IF v = t THEN c ELSE cv[v]
        /\ popped' \in [Threads -> Threads \cup {NULL}]
        /\ cv' \in [Threads -> Cvs \cup {NULL}]
    BY <1>8, <2>1, <2>3
  <2>5. /\ \A v \in Threads : v # t => pc'[v] = pc[v]
        /\ pc'[t] \in {"notify_one", "notify_all"}
        /\ pc' \in [Threads -> Labels]
    BY <2>2, <2>3 DEF Labels
  <2> QED BY <2>4, <2>5
<1>11. UNCHANGED <<value, waiters, holder, repeat, node, blocked, lk>>
  BY DEF list_pop_waiter
<1>12. popped[t] = NULL
  BY DEF PcInv
<1>13. \A d \in Cvs, v \in Threads : elem_find(cvq'[d], v) => elem_find(cvq[d], v)
  BY <1>8, <1>9
<1>14. ~elem_find(cvq'[c], w)
  BY <1>8, <1>9
<1> HIDE DEF q, w
<1>15. \A d \in Cvs, v \in Threads : Pending(d, v)' <=> Pending(d, v)
  <2>1. ASSUME NEW d \in Cvs, NEW v \in Threads, Pending(d, v) PROVE Pending(d, v)'
    <3>1. CASE elem_find(cvq[d], v)
      BY <1>8, <1>9, <1>10, <3>1 DEF Pending, q
    <3>2. CASE \E u \in Threads : popped[u] = v /\ cv[u] = d
      BY <1>10, <1>12, <3>2 DEF Pending
    <3> QED BY <2>1, <3>1, <3>2 DEF Pending
  <2>2. ASSUME NEW d \in Cvs, NEW v \in Threads, Pending(d, v)' PROVE Pending(d, v)
    <3>1. CASE elem_find(cvq'[d], v)
      BY <1>13, <3>1 DEF Pending
    <3>2. CASE \E u \in Threads : popped'[u] = v /\ cv'[u] = d
      BY <1>8, <1>10, <3>2 DEF Pending, q
    <3> QED BY <2>2, <3>1, <3>2 DEF Pending
  <2> QED BY <2>1, <2>2
<1>1. TypeOK'
  BY <1>9, <1>10, <1>11 DEF TypeOK
<1>2. PcInv'
  <2>1. ASSUME NEW u \in Threads, u # t, popped[u] # NULL
        PROVE  ~elem_find(cvq'[cv[u]], popped[u])
    <3>1. cv[u] \in Cvs /\ popped[u] \in Threads /\ ~elem_find(cvq[cv[u]], popped[u])
      BY <2>1 DEF PcInv, TypeOK
    <3> QED BY <1>13, <3>1
  <2> QED BY <1>8, <1>10, <1>11, <1>14, <1>15, <2>1 DEF PcInv, TypeOK
<1>3. MutualExclusion'
  BY <1>10, <1>11 DEF MutualExclusion, Owns
<1>4. RepeatMatchesHolder'
  BY <1>10, <1>11 DEF RepeatMatchesHolder
<1>5. WaitersBlocked'
  BY <1>10, <1>11 DEF WaitersBlocked
<1>6. NoLostWakeup'
  BY <1>10, <1>11 DEF NoLostWakeup, At
<1>7. CvWaitersQueued'
  <2>1. \A d \in Cvs : Distinct(cvq'[d])
    BY <1>8, <1>9, ZenonT(40) DEF CvWaitersQueued
  <2>2. \A d \in Cvs : ~Pending(d, t)
    BY DEF CvWaitersQueued
  <2> QED BY <1>10, <1>11, <1>15, <2>1, <2>2 DEF CvWaitersQueued
<1> QED BY <1>1, <1>2, <1>3, <1>4, <1>5, <1>6, <1>7

\* The popped node is notified, and its thread unblocked if it is blocked already.
\* Nobody else has popped it: a notifier holds the lock of its condition variable.
LEMMA NotifyPoppedStep ==
  ASSUME SyncInv, NEW t \in Threads, notify_popped(t)
  PROVE  SyncInv'
<1> USE DEF SyncInv, lockVars
<1> DEFINE w == popped[t]
           c == cv[t]
<1>0. /\ t \notin blocked /\ pc[t] \in {"notify_one", "notify_all"}
      /\ w \in Threads /\ c \in Cvs /\ holder[CvLock[c]] = t /\ ~elem_find(cvq[c], w)
  BY DEF notify_popped, At, PcInv, TypeOK
<1>8. Pending(c, w)
  BY <1>0 DEF Pending
<1>9. /\ cv[w] = c
      /\ \/ /\ node[w] = "QUEUED" /\ w \notin blocked
            /\ pc[w] \in {"clear", "sema_up", "cv_loop"}
         \/ node[w] = "BLOCKED" /\ w \in blocked /\ pc[w] = "cv_loop"
  BY <1>0, <1>8 DEF CvWaitersQueued
<1>10. blocked' = blocked \ {w}
  BY <1>9 DEF notify_popped
<1>11. /\ \A v \in Threads : node'[v] = IF v = w THEN "NOTIFIED" ELSE node[v]
       /\ node' \in [Threads -> {"NONE", "QUEUED", "BLOCKED", "NOTIFIED"}]
  BY <1>0 DEF TypeOK, notify_popped
<1>12. /\ \A v \in Threads : popped'[v] = IF v = t THEN NULL ELSE popped[v]
       /\ popped' \in [Threads -> Threads \cup {NULL}]
  BY DEF TypeOK, notify_popped
<1>13. /\ \A v \in Threads : v # t => pc'[v] = pc[v] /\ cv'[v] = cv[v]
       /\ \/ pc'[t] = "run" /\ cv'[t] = NULL
          \/ pc'[t] = "broadcast" /\ cv'[t] = cv[t]
       /\ pc' \in [Threads -> Labels] /\ cv' \in [Threads -> Cvs \cup {NULL}]
  BY DEF TypeOK, Labels, notify_popped, Goto
<1>14. UNCHANGED <<value, waiters, holder, repeat, cvq, lk>>
  BY DEF notify_popped
<1>15. \A v \in Threads : v # t => popped[v] # w
  <2>1. ASSUME NEW v \in Threads, popped[v] = w PROVE v = t
    <3>1. cv[v] \in Cvs /\ holder[CvLock[cv[v]]] = v
      BY <1>0, <2>1 DEF PcInv
    <3>2. Pending(cv[v], w)
      BY <2>1 DEF Pending
    <3>3. cv[v] = c
      BY <1>0, <1>9, <3>1, <3>2 DEF CvWaitersQueued
    <3> QED BY <1>0, <3>1, <3>3
  <2> QED BY <2>1
<1>16. \A d \in Cvs : ~elem_find(cvq[d], w)
  BY <1>0, <1>9 DEF CvWaitersQueued, Pending
<1> HIDE DEF w, c
<1>17. \A d \in Cvs, v \in Threads : Pending(d, v)' <=> Pending(d, v) /\ v # w
  <2>1. ASSUME NEW d \in Cvs, NEW v \in Threads, Pending(d, v)' PROVE Pending(d, v) /\ v # w
    BY <1>12, <1>13, <1>14, <1>15, <1>16, <2>1 DEF Pending
  <2>2. ASSUME NEW d \in Cvs, NEW v \in Threads, Pending(d, v), v # w PROVE Pending(d, v)'
    BY <1>12, <1>13, <1>14, <2>2 DEF Pending, w
  <2> QED BY <2>1, <2>2
<1>18. w # t
  BY <1>0, <1>9
<1>1. TypeOK'
  BY <1>10, <1>11, <1>12, <1>13, <1>14 DEF TypeOK
<1>2. PcInv'
  <2>3. ASSUME NEW u \in Threads, NEW d \in Cvs, u # t, cv[u] = d, node'[u] # "NOTIFIED",
               pc[u] \in {"clear", "sema_up", "cv_loop"}
        PROVE  Pending(d, u)'
    <3>1. Pending(d, u) /\ u # w
      BY <1>11, <2>3 DEF PcInv
    <3> QED BY <1>17, <3>1
  <2> QED BY <1>0, <1>10, <1>11, <1>12, <1>13, <1>14, <1>18, <2>3 DEF PcInv
<1>3. MutualExclusion'
  BY <1>0, <1>13, <1>14 DEF MutualExclusion, Owns
<1>4. RepeatMatchesHolder'
  BY <1>0, <1>13, <1>14 DEF RepeatMatchesHolder
<1>5. WaitersBlocked'
  BY <1>0, <1>9, <1>10, <1>13, <1>14 DEF WaitersBlocked
<1>6. NoLostWakeup'
  BY <1>0, <1>10, <1>13, <1>14 DEF NoLostWakeup, At
<1>7. CvWaitersQueued'
  <2>1. \A d \in Cvs : ~Pending(d, t)
    BY <1>0 DEF CvWaitersQueued
  <2> QED BY <1>0, <1>9, <1>10, <1>11, <1>13, <1>14, <1>17, <2>1 DEF CvWaitersQueued
<1> QED BY <1>1, <1>2, <1>3, <1>4, <1>5, <1>6, <1>7

\* cv_notify_one pops the first waiter, if there is one.
LEMMA CvNotifyStep ==
  ASSUME SyncInv, NEW t \in Threads, NEW c \in Cvs, cv_notify_one(t, c)
  PROVE  SyncInv'
<1>1. CASE list_pop_waiter(t, c, "notify_one")
  BY <1>1, PopStep DEF cv_notify_one, At
<1>2. CASE UNCHANGED vars
  BY <1>2, SameInv
<1> QED BY <1>1, <1>2 DEF cv_notify_one

\* cv_broadcast enters its loop.
LEMMA CvBroadcastStep ==
  ASSUME SyncInv, NEW t \in Threads, NEW c \in Cvs, cv_broadcast(t, c)
  PROVE  SyncInv'
<1> USE DEF SyncInv, cv_broadcast, At, Goto, lockVars, cvVars, Labels
<1>20. \A d \in Cvs, u \in Threads : Pending(d, u)' <=> Pending(d, u)
  BY PendingSame DEF TypeOK, PcInv
<1>1. TypeOK'
  BY DEF TypeOK, PcInv
<1>2. PcInv'
  BY <1>20 DEF TypeOK, PcInv
<1>3. MutualExclusion'
  BY DEF TypeOK, PcInv, MutualExclusion, Owns
<1>4. RepeatMatchesHolder'
  BY DEF TypeOK, PcInv, MutualExclusion, Owns, RepeatMatchesHolder
<1>5. WaitersBlocked'
  BY DEF TypeOK, PcInv, WaitersBlocked
<1>6. NoLostWakeup'
  BY DEF TypeOK, PcInv, NoLostWakeup
<1>7. CvWaitersQueued'
  BY <1>20 DEF TypeOK, PcInv, CvWaitersQueued
<1> QED BY <1>1, <1>2, <1>3, <1>4, <1>5, <1>6, <1>7

\* The loop of cv_broadcast notifies the next waiter, or ends.
LEMMA BroadcastNextStep ==
  ASSUME SyncInv, NEW t \in Threads, broadcast_next(t)
  PROVE  SyncInv'
<1>0. /\ cv[t] \in Cvs /\ t \notin blocked /\ pc[t] = "broadcast"
      /\ holder[CvLock[cv[t]]] = t /\ popped[t] = NULL
  BY DEF SyncInv, PcInv, broadcast_next, At
<1>1. CASE list_pop_waiter(t, cv[t], "notify_all")
  BY <1>0, <1>1, PopStep
<1>2. CASE /\ pc' = [pc EXCEPT ![t] = "run"] /\ cv' = [cv EXCEPT ![t] = NULL]
           /\ UNCHANGED <<lockVars, cvVars, blocked, lk>>
  <2> USE DEF SyncInv, cvVars, lockVars
  <2>0. UNCHANGED <<value, waiters, holder, repeat, cvq, popped, node, blocked, lk>>
    BY <1>2
  <2>1. \A u \in Threads : /\ pc'[u] = IF u = t THEN "run" ELSE pc[u]
                           /\ cv'[u] = IF u = t THEN NULL ELSE cv[u]
    BY <1>2 DEF TypeOK
  <2>9. \A c \in Cvs, u \in Threads : Pending(c, u)' <=> Pending(c, u)
    BY <1>0, <2>0, <2>1, PendingSame
  <2>2. TypeOK'
    BY <1>2, <2>0 DEF TypeOK, Labels
  <2>3. PcInv'
    BY <1>0, <2>0, <2>1, <2>9 DEF PcInv, TypeOK
  <2>4. MutualExclusion'
    BY <1>0, <2>0, <2>1 DEF MutualExclusion, Owns
  <2>5. RepeatMatchesHolder'
    BY <1>0, <2>0, <2>1 DEF RepeatMatchesHolder
  <2>6. WaitersBlocked'
    BY <1>0, <2>0, <2>1 DEF WaitersBlocked
  <2>7. NoLostWakeup'
    BY <1>0, <2>0, <2>1 DEF NoLostWakeup, At
  <2>8. CvWaitersQueued'
    BY <1>0, <2>0, <2>1, <2>9 DEF CvWaitersQueued
  <2> QED BY <2>2, <2>3, <2>4, <2>5, <2>6, <2>7, <2>8
<1> QED BY <1>1, <1>2 DEF broadcast_next, Goto

\* The invariant holds when every lock and condition variable was initialised.
LEMMA InitInv == Init => SyncInv
<1> SUFFICES ASSUME Init PROVE SyncInv
  OBVIOUS
<1>1. TypeOK
  BY DEF Init, TypeOK, Labels
<1>2. \A t \in Threads : pc[t] = "run" /\ lk[t] = NULL /\ cv[t] = NULL /\ popped[t] = NULL
  BY DEF Init
<1>3. \A l \in Locks : value[l] = 1 /\ holder[l] = NULL /\ repeat[l] = 0 /\ waiters[l] = <<>>
  BY DEF Init
<1>4. blocked = {} /\ \A c \in Cvs : cvq[c] = <<>>
  BY DEF Init
<1>5. \A t : ~elem_find(<<>>, t)
  BY DEF elem_find
<1>6. Distinct(<<>>)
  BY DEF Distinct
<1>7. PcInv /\ MutualExclusion /\ RepeatMatchesHolder
  BY <1>2, <1>3, <1>4 DEF PcInv, MutualExclusion, Owns, RepeatMatchesHolder
<1>8. WaitersBlocked /\ NoLostWakeup
  BY <1>2, <1>3, <1>4, <1>5, <1>6 DEF WaitersBlocked, NoLostWakeup
<1>9. CvWaitersQueued
  BY <1>2, <1>4, <1>5, <1>6 DEF CvWaitersQueued, Pending
<1> QED BY <1>1, <1>7, <1>8, <1>9 DEF SyncInv

\* Every step keeps the invariant.
LEMMA StepInv == SyncInv /\ [Next]_vars => SyncInv'
<1> SUFFICES ASSUME SyncInv, [Next]_vars PROVE SyncInv'
  OBVIOUS
<1>1. ASSUME NEW t \in Threads, Call(t) PROVE SyncInv'
  BY <1>1, LockAcquireStep, LockReleaseStep, CvWaitStep, CvNotifyStep, CvBroadcastStep DEF Call
<1>2. ASSUME NEW t \in Threads, Continue(t) PROVE SyncInv'
  BY <1>2, SemaDownStep, SetHolderStep, SetRepeatStep, ClearRepeatStep, SemaUpStep,
     CvBlockStep, BroadcastNextStep, NotifyPoppedStep DEF Continue
<1>3. CASE UNCHANGED vars
  BY <1>3, SameInv
<1> QED BY <1>1, <1>2, <1>3 DEF Next

\* Types, for any threads, locks and condition variables.
THEOREM SyncTypeCorrect == Spec => []TypeOK
<1>1. SyncInv => TypeOK
  BY DEF SyncInv
<1> QED BY <1>1, InitInv, StepInv, PTL DEF Spec

\* A lock has one owner at most, and its semaphore is down exactly while it has one.
THEOREM LocksExclude == Spec => []MutualExclusion
<1>1. SyncInv => MutualExclusion
  BY DEF SyncInv
<1> QED BY <1>1, InitInv, StepInv, PTL DEF Spec

\* The ASSERTs of lock_acquire and lock_release on the nesting count hold.
THEOREM RepeatCorrect == Spec => []RepeatMatchesHolder
<1>1. SyncInv => RepeatMatchesHolder
  BY DEF SyncInv
<1> QED BY <1>1, InitInv, StepInv, PTL DEF Spec

\* The threads on the waiters list of a semaphore are exactly those asleep on it.
THEOREM WaitersCorrect == Spec => []WaitersBlocked
<1>1. SyncInv => WaitersBlocked
  BY DEF SyncInv
<1> QED BY <1>1, InitInv, StepInv, PTL DEF Spec

\* No wakeup of a semaphore is lost.
THEOREM SemaphoreWakes == Spec => []NoLostWakeup
<1>1. SyncInv => NoLostWakeup
  BY DEF SyncInv
<1> QED BY <1>1, InitInv, StepInv, PTL DEF Spec

\* No wakeup of a condition variable is lost.
THEOREM ConditionWakes == Spec => []CvWaitersQueued
<1>1. SyncInv => CvWaitersQueued
  BY DEF SyncInv
<1> QED BY <1>1, InitInv, StepInv, PTL DEF Spec
=============================================================================
