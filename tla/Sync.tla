-------------------------------- MODULE Sync --------------------------------
(***************************************************************************)
(* The synchronisation primitives of thread/sync.c: the binary semaphore,  *)
(* the recursive lock built on it and the condition variable.              *)
(*                                                                         *)
(* Threads call them in kernel code that may be preempted, so a step is    *)
(* what runs between two points where another thread can get in: sema_down, *)
(* sema_up and the inner parts of cv_wait and _cv_notify disable interrupts *)
(* and are atomic, the assignments to holder and holder_repeat_nr are not. *)
(* Any thread that is not TASK_BLOCKED may take the next step: what the    *)
(* ready list adds to that is the subject of Scheduler.                    *)
(***************************************************************************)
EXTENDS KernelList

CONSTANTS
    Threads,
    Locks,
    Cvs,
    CvLock,     \* CvLock[c] is cv->plock
    MaxRepeat,  \* bound on the nesting depth of a lock
    NULL        \* no thread, no lock, no condition variable

ASSUME SyncAssumption ==
    /\ CvLock \in [Cvs -> Locks]
    /\ MaxRepeat \in Nat \ {0}
    /\ NULL \notin Threads /\ NULL \notin Cvs /\ NULL \notin Locks

VARIABLES
    value,      \* semaphore.value of every lock
    waiters,    \* semaphore.waiters: threads linked by their general_tag
    holder,     \* lock.holder
    repeat,     \* lock.holder_repeat_nr
    cvq,        \* condition_variable.waiters: the threads of the waiter nodes
    popped,     \* the thread whose node a notifier took off cvq, or NULL
    node,       \* status of the waiter node of a thread; "NONE": it has none
    blocked,    \* the threads whose status is TASK_BLOCKED
    pc,         \* where in the primitives a thread is
    lk,         \* the lock a thread is acquiring or releasing, or NULL
    cv          \* the condition variable a thread waits on or notifies, or NULL

vars == <<value, waiters, holder, repeat, cvq, popped, node, blocked, pc, lk, cv>>

lockVars == <<value, waiters, holder, repeat>>
cvVars   == <<cvq, popped, node>>

\* The points at which a thread can be preempted.
Labels == {"run",        \* the caller's own code
           "sema_down",  \* lock_acquire, on its way into sema_down
           "got",        \* sema_down returned, holder not yet set
           "counted",    \* holder set, holder_repeat_nr not yet 1
           "clear",      \* lock_release, holder is NULL, holder_repeat_nr not yet 0
           "sema_up",    \* lock_release, on its way into sema_up
           "cv_loop",    \* cv_wait, in the loop until the node is NOTIFIED
           "broadcast",  \* _cv_notify, in the loop over the waiters
           "notify_one", \* _cv_notify, a node popped and not yet notified:
           "notify_all"} \*   the last one, or one of the loop

Init ==
    /\ value = [l \in Locks |-> 1]
    /\ waiters = [l \in Locks |-> <<>>]
    /\ holder = [l \in Locks |-> NULL]
    /\ repeat = [l \in Locks |-> 0]
    /\ cvq = [c \in Cvs |-> <<>>]
    /\ popped = [t \in Threads |-> NULL]
    /\ node = [t \in Threads |-> "NONE"]
    /\ blocked = {}
    /\ pc = [t \in Threads |-> "run"]
    /\ lk = [t \in Threads |-> NULL]
    /\ cv = [t \in Threads |-> NULL]

At(t, label) == t \notin blocked /\ pc[t] = label
Goto(t, label) == pc' = [pc EXCEPT ![t] = label]

\* The return from lock_release: to the caller, or to cv_wait.
Return(t) ==
    \/ cv[t] = NULL /\ Goto(t, "run") /\ lk' = [lk EXCEPT ![t] = NULL]
    \/ cv[t] # NULL /\ Goto(t, "cv_loop") /\ UNCHANGED lk

----------------------------------------------------------------------------
(* The semaphore *)

\* Mutant: the value is tested once, not again after waking up.
sema_down_once(t) ==
    /\ At(t, "sema_down")
    /\ \/ /\ value[lk[t]] = 0
          /\ waiters' = [waiters EXCEPT ![lk[t]] = list_append(@, t)]
          /\ blocked' = blocked \cup {t}
          /\ Goto(t, "got")
          /\ UNCHANGED value
       \/ /\ value[lk[t]] > 0
          /\ value' = [value EXCEPT ![lk[t]] = @ - 1]
          /\ Goto(t, "got")
          /\ UNCHANGED <<waiters, blocked>>
    /\ UNCHANGED <<holder, repeat, cvVars, lk, cv>>

\* One turn of the loop of sema_down.
sema_down(t) ==
    /\ At(t, "sema_down")
    /\ \/ /\ value[lk[t]] = 0
          /\ waiters' = [waiters EXCEPT ![lk[t]] = list_append(@, t)]
          /\ blocked' = blocked \cup {t}
          /\ UNCHANGED <<value, pc>>
       \/ /\ value[lk[t]] > 0
          /\ value' = [value EXCEPT ![lk[t]] = @ - 1]
          /\ Goto(t, "got")
          /\ UNCHANGED <<waiters, blocked>>
    /\ UNCHANGED <<holder, repeat, cvVars, lk, cv>>

\* Mutant: sema_up counts and wakes nobody up.
sema_up_nowake(t) ==
    /\ At(t, "sema_up")
    /\ value' = [value EXCEPT ![lk[t]] = @ + 1]
    /\ Return(t)
    /\ UNCHANGED <<waiters, blocked, holder, repeat, cvVars, cv>>

\* Mutant: sema_up reads the first waiter without taking it off the list.
sema_up_peek(t) ==
    /\ At(t, "sema_up")
    /\ LET q == waiters[lk[t]] IN
          blocked' = IF list_empty(q) THEN blocked ELSE blocked \ {Head(q)}
    /\ value' = [value EXCEPT ![lk[t]] = @ + 1]
    /\ Return(t)
    /\ UNCHANGED <<waiters, holder, repeat, cvVars, cv>>

\* sema_up, the end of lock_release: the first waiter is woken up, but it will
\* have to win the semaphore like any other thread.
sema_up(t) ==
    /\ At(t, "sema_up")
    /\ LET q == waiters[lk[t]] IN
          \/ /\ list_empty(q)
             /\ UNCHANGED <<waiters, blocked>>
          \/ /\ ~list_empty(q)
             /\ waiters' = [waiters EXCEPT ![lk[t]] = Tail(q)]
             /\ blocked' = blocked \ {Head(q)}
    /\ value' = [value EXCEPT ![lk[t]] = @ + 1]
    /\ Return(t)
    /\ UNCHANGED <<holder, repeat, cvVars, cv>>

----------------------------------------------------------------------------
(* The lock *)

\* lock_acquire: a nested call only counts, any other goes for the semaphore.
lock_acquire(t, l) ==
    /\ At(t, "run")
    /\ \/ /\ holder[l] = t
          /\ repeat[l] < MaxRepeat
          /\ repeat' = [repeat EXCEPT ![l] = @ + 1]
          /\ UNCHANGED <<pc, lk>>
       \/ /\ holder[l] # t
          /\ Goto(t, "sema_down")
          /\ lk' = [lk EXCEPT ![t] = l]
          /\ UNCHANGED repeat
    /\ UNCHANGED <<value, waiters, holder, cvVars, blocked, cv>>

\* plock->holder = running_thread()
set_holder(t) ==
    /\ At(t, "got")
    /\ holder' = [holder EXCEPT ![lk[t]] = t]
    /\ Goto(t, "counted")
    /\ UNCHANGED <<value, waiters, repeat, cvVars, blocked, lk, cv>>

\* plock->holder_repeat_nr = 1, and the return from lock_acquire: to the caller,
\* or to cv_wait, which frees its waiter node.
set_repeat(t) ==
    /\ At(t, "counted")
    /\ repeat' = [repeat EXCEPT ![lk[t]] = 1]
    /\ node' = [node EXCEPT ![t] = "NONE"]
    /\ cv' = [cv EXCEPT ![t] = NULL]
    /\ lk' = [lk EXCEPT ![t] = NULL]
    /\ Goto(t, "run")
    /\ UNCHANGED <<value, waiters, holder, cvq, popped, blocked>>

\* Mutant: a nested lock_release lets go of the lock.
lock_release_nested(t, l) ==
    /\ At(t, "run")
    /\ holder[l] = t
    /\ holder' = [holder EXCEPT ![l] = NULL]
    /\ lk' = [lk EXCEPT ![t] = l]
    /\ Goto(t, "clear")
    /\ UNCHANGED <<value, waiters, repeat, cvVars, blocked, cv>>

\* lock_release up to the assignment holder = NULL.
lock_release(t, l) ==
    /\ At(t, "run")
    /\ holder[l] = t
    /\ \/ /\ repeat[l] > 1
          /\ repeat' = [repeat EXCEPT ![l] = @ - 1]
          /\ UNCHANGED <<holder, pc, lk>>
       \/ /\ repeat[l] = 1
          /\ holder' = [holder EXCEPT ![l] = NULL]
          /\ lk' = [lk EXCEPT ![t] = l]
          /\ Goto(t, "clear")
          /\ UNCHANGED repeat
    /\ UNCHANGED <<value, waiters, cvVars, blocked, cv>>

\* holder_repeat_nr = 0
clear_repeat(t) ==
    /\ At(t, "clear")
    /\ repeat' = [repeat EXCEPT ![lk[t]] = 0]
    /\ Goto(t, "sema_up")
    /\ UNCHANGED <<value, waiters, holder, cvVars, blocked, lk, cv>>

----------------------------------------------------------------------------
(* The condition variable *)

\* cv_wait up to the assignment holder = NULL of its lock_release.  The callers
\* (ioqueue.c) hold the lock once: with a deeper nesting lock_release would keep it.
cv_wait(t, c) ==
    /\ At(t, "run")
    /\ holder[CvLock[c]] = t
    /\ repeat[CvLock[c]] = 1
    /\ cvq' = [cvq EXCEPT ![c] = list_append(@, t)]
    /\ node' = [node EXCEPT ![t] = "QUEUED"]
    /\ cv' = [cv EXCEPT ![t] = c]
    /\ holder' = [holder EXCEPT ![CvLock[c]] = NULL]
    /\ lk' = [lk EXCEPT ![t] = CvLock[c]]
    /\ Goto(t, "clear")
    /\ UNCHANGED <<value, waiters, repeat, popped, blocked>>

\* Mutant: the status is not looked at again after interrupts are off.
cv_block_unchecked(t) ==
    /\ At(t, "cv_loop")
    /\ node' = [node EXCEPT ![t] = "BLOCKED"]
    /\ blocked' = blocked \cup {t}
    /\ UNCHANGED <<lockVars, cvq, popped, pc, lk, cv>>

\* The loop of cv_wait: block until notified, then go for the lock again.
cv_block(t) ==
    /\ At(t, "cv_loop")
    /\ \/ /\ node[t] # "NOTIFIED"
          /\ node' = [node EXCEPT ![t] = "BLOCKED"]
          /\ blocked' = blocked \cup {t}
          /\ UNCHANGED pc
       \/ /\ node[t] = "NOTIFIED"
          /\ Goto(t, "sema_down")
          /\ UNCHANGED <<node, blocked>>
    /\ UNCHANGED <<lockVars, cvq, popped, lk, cv>>

\* list_pop of _cv_notify, before interrupts are off: the node is in no list and
\* its thread may still be on its way into the loop of cv_wait.
list_pop_waiter(t, c, label) ==
    /\ ~list_empty(cvq[c])
    /\ cvq' = [cvq EXCEPT ![c] = Tail(@)]
    /\ popped' = [popped EXCEPT ![t] = Head(cvq[c])]
    /\ cv' = [cv EXCEPT ![t] = c]
    /\ Goto(t, label)
    /\ UNCHANGED <<lockVars, node, blocked, lk>>

cv_notify_one(t, c) ==
    /\ At(t, "run")
    /\ holder[CvLock[c]] = t
    /\ \/ list_pop_waiter(t, c, "notify_one")
       \/ list_empty(cvq[c]) /\ UNCHANGED vars

\* The rest of a turn of the loop of _cv_notify, with interrupts off.
notify_popped(t) ==
    LET u == popped[t] IN
    /\ \/ /\ At(t, "notify_one")
          /\ Goto(t, "run")
          /\ cv' = [cv EXCEPT ![t] = NULL]
       \/ /\ At(t, "notify_all")
          /\ Goto(t, "broadcast")
          /\ UNCHANGED cv
    /\ node' = [node EXCEPT ![u] = "NOTIFIED"]
    /\ blocked' = IF node[u] = "BLOCKED" THEN blocked \ {u} ELSE blocked
    /\ popped' = [popped EXCEPT ![t] = NULL]
    /\ UNCHANGED <<lockVars, cvq, lk>>

\* cv_broadcast takes the waiters off one by one; a waiter that is still on its
\* way into the loop of cv_wait may get there in between.
cv_broadcast(t, c) ==
    /\ At(t, "run")
    /\ holder[CvLock[c]] = t
    /\ cv' = [cv EXCEPT ![t] = c]
    /\ Goto(t, "broadcast")
    /\ UNCHANGED <<lockVars, cvVars, blocked, lk>>

broadcast_next(t) ==
    /\ At(t, "broadcast")
    /\ \/ list_pop_waiter(t, cv[t], "notify_all")
       \/ /\ list_empty(cvq[cv[t]])
          /\ Goto(t, "run")
          /\ cv' = [cv EXCEPT ![t] = NULL]
          /\ UNCHANGED <<lockVars, cvVars, blocked, lk>>

----------------------------------------------------------------------------
\* What a thread may call, and what it has to finish once it called it.
Call(t) ==
    \/ \E l \in Locks : lock_acquire(t, l) \/ lock_release(t, l)
    \/ \E c \in Cvs : cv_wait(t, c) \/ cv_notify_one(t, c) \/ cv_broadcast(t, c)

Continue(t) ==
    \/ sema_down(t) \/ set_holder(t) \/ set_repeat(t)
    \/ clear_repeat(t) \/ sema_up(t)
    \/ cv_block(t) \/ broadcast_next(t) \/ notify_popped(t)

Next == \E t \in Threads : Call(t) \/ Continue(t)

\* A thread that is ready gets the CPU again (StarvationFree of Scheduler) and
\* no primitive waits inside other than by blocking.  Callers owe nothing.
Spec == Init /\ [][Next]_vars /\ \A t \in Threads : WF_vars(Continue(t))

----------------------------------------------------------------------------
TypeOK ==
    /\ value \in [Locks -> {0, 1}]
    /\ waiters \in [Locks -> Seq(Threads)]
    /\ holder \in [Locks -> Threads \cup {NULL}]
    /\ repeat \in [Locks -> 0..MaxRepeat]
    /\ cvq \in [Cvs -> Seq(Threads)]
    /\ popped \in [Threads -> Threads \cup {NULL}]
    /\ node \in [Threads -> {"NONE", "QUEUED", "BLOCKED", "NOTIFIED"}]
    /\ blocked \in SUBSET Threads
    /\ pc \in [Threads -> Labels]
    /\ lk \in [Threads -> Locks \cup {NULL}]
    /\ cv \in [Threads -> Cvs \cup {NULL}]

\* t is between the sema_down that gave it the lock l and the sema_up that gives
\* it back, whatever lock.holder says meanwhile.
Owns(t, l) ==
    \/ holder[l] = t
    \/ pc[t] \in {"got", "counted", "clear", "sema_up"} /\ lk[t] = l

\* Mutual exclusion: a lock is owned by one thread at most, and its semaphore
\* is down exactly while it is owned, in every interleaving of the unprotected
\* assignments to holder and holder_repeat_nr with the steps of other threads.
MutualExclusion ==
    \A l \in Locks :
       /\ \A t, u \in Threads : Owns(t, l) /\ Owns(u, l) => t = u
       /\ value[l] = 0 <=> \E t \in Threads : Owns(t, l)

\* The ASSERTs on holder_repeat_nr hold although holder and holder_repeat_nr are
\* assigned one after the other: the count is 0 when lock_acquire sets it to 1 and
\* while nobody owns the lock, positive while the owner runs with the lock, and 1
\* when lock_release lets go of it.
RepeatMatchesHolder ==
    \A l \in Locks :
       /\ value[l] = 1 => repeat[l] = 0
       /\ \A t \in Threads :
            /\ pc[t] \in {"got", "counted", "sema_up"} /\ lk[t] = l => repeat[l] = 0
            /\ pc[t] = "clear" /\ lk[t] = l => repeat[l] = 1
            /\ holder[l] = t /\ ~(pc[t] = "counted" /\ lk[t] = l) => repeat[l] > 0

\* A thread linked into the waiters of a semaphore is blocked inside sema_down on
\* that very semaphore, and linked once.  Its general_tag is therefore in no other
\* list: not in the waiters of another lock, and not in the ready list, into which
\* sema_up moves it through the same tag.
WaitersBlocked ==
    \A l \in Locks :
       /\ Distinct(waiters[l])
       /\ \A t \in Threads : elem_find(waiters[l], t) <=>
             t \in blocked /\ pc[t] = "sema_down" /\ lk[t] = l

\* No lost wakeup of a semaphore: while a lock is free and threads wait for it,
\* one of those it woke up is on its way to take it.
NoLostWakeup ==
    \A l \in Locks : value[l] = 1 /\ waiters[l] # <<>> =>
       \E t \in Threads : At(t, "sema_down") /\ lk[t] = l

\* A notify of c will find t: it is queued, or a notifier has popped its node.
Pending(c, t) ==
    \/ elem_find(cvq[c], t)
    \/ \E u \in Threads : popped[u] = t /\ cv[u] = c

\* No lost wakeup of a condition variable: a thread blocked in cv_wait is queued, or
\* popped by a notifier that has yet to look at its status, although it gives up the
\* lock before it blocks, the notifier pops before it looks and either may be
\* preempted; and no freed or notified node is queued or popped.
CvWaitersQueued ==
    \A c \in Cvs :
       /\ Distinct(cvq[c])
       /\ \A t \in Threads :
            /\ Pending(c, t) =>
                  /\ cv[t] = c
                  /\ \/ /\ node[t] = "QUEUED" /\ t \notin blocked
                        /\ pc[t] \in {"clear", "sema_up", "cv_loop"}
                     \/ node[t] = "BLOCKED" /\ t \in blocked /\ pc[t] = "cv_loop"
            /\ pc[t] = "cv_loop" /\ t \in blocked /\ cv[t] = c => Pending(c, t)

\* What the label of a thread says about its arguments, the lock and its node.
PcInv ==
    \A t \in Threads :
       /\ t \in blocked => pc[t] \in {"sema_down", "cv_loop"}
       /\ lk[t] = NULL <=> pc[t] \in {"run", "broadcast", "notify_one", "notify_all"}
       /\ pc[t] = "run" => cv[t] = NULL
       /\ pc[t] = "cv_loop" => cv[t] \in Cvs
       /\ pc[t] \in {"broadcast", "notify_one", "notify_all"} =>
             cv[t] \in Cvs /\ holder[CvLock[cv[t]]] = t
       /\ popped[t] # NULL <=> pc[t] \in {"notify_one", "notify_all"}
       /\ popped[t] # NULL => ~elem_find(cvq[cv[t]], popped[t])
       /\ pc[t] \in {"sema_down", "got", "clear", "sema_up", "cv_loop"} => holder[lk[t]] # t
       /\ pc[t] = "counted" => holder[lk[t]] = t
       /\ pc[t] = "cv_loop" /\ t \in blocked => node[t] = "BLOCKED"
       /\ \A c \in Cvs : cv[t] = c /\ node[t] # "NOTIFIED"
             /\ pc[t] \in {"clear", "sema_up", "cv_loop"} => Pending(c, t)

\* The inductive invariant behind the safety properties.
SyncInv ==
    /\ TypeOK
    /\ PcInv
    /\ MutualExclusion
    /\ RepeatMatchesHolder
    /\ WaitersBlocked
    /\ NoLostWakeup
    /\ CvWaitersQueued

\* A free lock that threads are waiting for is taken again: nobody sleeps on it
\* for good.
FreeLockTaken == \A l \in Locks : value[l] = 1 /\ waiters[l] # <<>> ~> value[l] = 0
=============================================================================
