------------------------------ MODULE IoQueue ------------------------------
(***************************************************************************)
(* The io queue of device/ioqueue.c: a ring buffer with a lock and two     *)
(* condition variables, used by pipes (ioq_getchar, ioq_putchar) and by    *)
(* the terminal (ioq_read_some, ioq_write_some).                           *)
(*                                                                         *)
(* A step is one critical section of ioq->lock: from lock_acquire, or from *)
(* the lock_acquire at the end of cv_wait, to lock_release or to the next  *)
(* cv_wait.  That critical sections exclude each other and that cv_wait    *)
(* misses no notify is shown in Sync.  Which thread gets the lock next is  *)
(* open, so a thread that was notified can be overtaken.                   *)
(***************************************************************************)
EXTENDS KernelList, FiniteSets

CONSTANTS
    Threads,
    bufsize,    \* size of the ring, which holds bufsize - 1 characters
    Values,     \* the characters
    Roles       \* the ways the threads may use a queue: sets of functions from
                \* Threads to sets of operations

Operations == {"getchar", "putchar", "read_some", "write_some", "close"}

ASSUME IoQueueAssumption ==
    /\ bufsize \in Nat /\ bufsize > 1
    /\ Roles \subseteq [Threads -> SUBSET Operations]

VARIABLES
    role,           \* who uses this queue how; never changes
    buf, head, tail, closed,
    cond_data_avail, cond_space_avail,  \* the threads waiting, in order
    op,             \* the operation a thread is in, "none" between two
    todo,           \* its argument: the characters to write, or the limit
    woken           \* the threads notified since they began to wait

vars == <<role, buf, head, tail, closed, cond_data_avail, cond_space_avail, op, todo, woken>>

\* The operations of the terminal move up to this many characters at once.
MaxTransfer == bufsize

Transfers == UNION {[1..n -> Values] : n \in 0..MaxTransfer}

\* ioqueue_init
Init ==
    /\ role \in Roles
    /\ buf \in {[i \in 0..(bufsize - 1) |-> v] : v \in Values}
    /\ head = 0 /\ tail = 0
    /\ closed = FALSE
    /\ cond_data_avail = <<>> /\ cond_space_avail = <<>>
    /\ op = [t \in Threads |-> "none"]
    /\ todo = [t \in Threads |-> <<>>]
    /\ woken = {}

----------------------------------------------------------------------------
next_pos(pos) == (pos + 1) % bufsize

is_ioq_full == next_pos(head) = tail

is_ioq_empty == head = tail

ioq_length == IF head >= tail THEN head - tail ELSE bufsize - (tail - head)

\* Mutant: the cursor is not taken modulo the size of the ring.
Advance_nowrap(pos, n) == pos + n

\* The position n steps after pos.
Advance(pos, n) == (pos + n) % bufsize

\* What the loop that copies into the ring leaves when it moves the first n
\* characters of vs, and what the loop that copies out of it returns.
Filled(vs, n) ==
    [i \in 0..(bufsize - 1) |->
        IF \E j \in 1..n : Advance(head, j - 1) = i
        THEN vs[CHOOSE j \in 1..n : Advance(head, j - 1) = i]
        ELSE buf[i]]

----------------------------------------------------------------------------
\* A thread begins an operation its role allows, while it is in no other.
Begin(t, o, arg) ==
    /\ op[t] = "none"
    /\ o \in role[t]
    /\ op' = [op EXCEPT ![t] = o]
    /\ todo' = [todo EXCEPT ![t] = arg]
    /\ UNCHANGED <<role, buf, head, tail, closed, cond_data_avail, cond_space_avail, woken>>

Call(t) ==
    \/ \E o \in {"getchar", "close"} : Begin(t, o, <<>>)
    \/ \E v \in Values : Begin(t, "putchar", <<v>>)
    \/ \E vs \in Transfers : Begin(t, "write_some", vs)
    \/ \E n \in 0..MaxTransfer : Begin(t, "read_some", n)

\* t can enter its critical section: it waits for nothing but the lock.
Enters(t) ==
    /\ op[t] # "none"
    /\ ~elem_find(cond_data_avail, t) /\ ~elem_find(cond_space_avail, t)

\* lock_release and return
Return(t) ==
    /\ op' = [op EXCEPT ![t] = "none"]
    /\ todo' = [todo EXCEPT ![t] = <<>>]

\* cv_notify_one on the queue q of threads, by thread t.
Woken(t, q) == (woken \ {t}) \cup (IF list_empty(q) THEN {} ELSE {Head(q)})
NotifyOne(q) == IF list_empty(q) THEN q ELSE Tail(q)

\* The end of ioq_getchar and ioq_read_some: take n characters, tell a writer.
TakeOut(t, n) ==
    /\ ~is_ioq_empty
    /\ tail' = Advance(tail, n)
    /\ cond_space_avail' = NotifyOne(cond_space_avail)
    /\ woken' = Woken(t, cond_space_avail)
    /\ Return(t)
    /\ UNCHANGED <<role, buf, head, closed, cond_data_avail>>

\* The loop in front of it: wait for data, give up once the queue is closed.
AwaitData(t) ==
    /\ is_ioq_empty
    /\ \/ /\ ~closed
          /\ cond_data_avail' = list_append(cond_data_avail, t)
          /\ UNCHANGED <<op, todo>>
       \/ closed /\ Return(t) /\ UNCHANGED cond_data_avail
    /\ woken' = woken \ {t}
    /\ UNCHANGED <<role, buf, head, tail, closed, cond_space_avail>>

ioq_getchar(t) ==
    /\ op[t] = "getchar" /\ Enters(t)
    /\ AwaitData(t) \/ TakeOut(t, 1)

ioq_read_some(t) ==
    /\ op[t] = "read_some" /\ Enters(t)
    /\ AwaitData(t) \/ TakeOut(t, IF todo[t] < ioq_length THEN todo[t] ELSE ioq_length)

\* Mutant: the writer does not tell the readers.
PutInSilently(t, n) ==
    /\ ~closed /\ ~is_ioq_full
    /\ buf' = Filled(todo[t], n)
    /\ head' = Advance(head, n)
    /\ woken' = woken \ {t}
    /\ Return(t)
    /\ UNCHANGED <<role, tail, closed, cond_data_avail, cond_space_avail>>

\* Mutant: one position is written too many, onto the oldest character.
PutInPast(t, n) ==
    /\ ~closed /\ ~is_ioq_full
    /\ buf' = Filled(todo[t], n)
    /\ head' = Advance(head, n + 1)
    /\ cond_data_avail' = NotifyOne(cond_data_avail)
    /\ woken' = Woken(t, cond_data_avail)
    /\ Return(t)
    /\ UNCHANGED <<role, tail, closed, cond_space_avail>>

\* The end of ioq_putchar and ioq_write_some: store n characters, tell a reader.
PutIn(t, n) ==
    /\ ~closed /\ ~is_ioq_full
    /\ buf' = Filled(todo[t], n)
    /\ head' = Advance(head, n)
    /\ cond_data_avail' = NotifyOne(cond_data_avail)
    /\ woken' = Woken(t, cond_data_avail)
    /\ Return(t)
    /\ UNCHANGED <<role, tail, closed, cond_space_avail>>

\* The loop in front of it: wait for space, give up once the queue is closed.
AwaitSpace(t) ==
    /\ \/ /\ ~closed /\ is_ioq_full
          /\ cond_space_avail' = list_append(cond_space_avail, t)
          /\ UNCHANGED <<op, todo>>
       \/ closed /\ Return(t) /\ UNCHANGED cond_space_avail
    /\ woken' = woken \ {t}
    /\ UNCHANGED <<role, buf, head, tail, closed, cond_data_avail>>

ioq_putchar(t) ==
    /\ op[t] = "putchar" /\ Enters(t)
    /\ AwaitSpace(t) \/ PutIn(t, 1)

ioq_write_some(t) ==
    /\ op[t] = "write_some" /\ Enters(t)
    /\ LET room == bufsize - 1 - ioq_length
           n    == IF Len(todo[t]) < room THEN Len(todo[t]) ELSE room
       IN  AwaitSpace(t) \/ PutIn(t, n)

\* Mutant: closing wakes up one thread per condition.
ioq_close_one(t) ==
    /\ op[t] = "close" /\ Enters(t)
    /\ closed' = TRUE
    /\ cond_data_avail' = NotifyOne(cond_data_avail)
    /\ cond_space_avail' = NotifyOne(cond_space_avail)
    /\ woken' = Woken(t, cond_data_avail) \cup Woken(t, cond_space_avail)
    /\ Return(t)
    /\ UNCHANGED <<role, buf, head, tail>>

\* ioq_close: the first call wakes up everybody.
ioq_close(t) ==
    /\ op[t] = "close" /\ Enters(t)
    /\ closed' = TRUE
    /\ \/ /\ ~closed
          /\ woken' = woken \cup {u \in Threads : elem_find(cond_data_avail, u)
                                                     \/ elem_find(cond_space_avail, u)}
          /\ cond_data_avail' = <<>> /\ cond_space_avail' = <<>>
       \/ closed /\ UNCHANGED <<cond_data_avail, cond_space_avail, woken>>
    /\ Return(t)
    /\ UNCHANGED <<role, buf, head, tail>>

Proceed(t) ==
    \/ ioq_getchar(t) \/ ioq_read_some(t)
    \/ ioq_putchar(t) \/ ioq_write_some(t)
    \/ ioq_close(t)

Next == \E t \in Threads : Call(t) \/ Proceed(t)

\* A thread that does not wait gets through its critical section.
Spec == Init /\ [][Next]_vars /\ \A t \in Threads : WF_vars(Proceed(t))

----------------------------------------------------------------------------
TypeOK ==
    /\ role \in Roles
    /\ buf \in [0..(bufsize - 1) -> Values]
    /\ head \in 0..(bufsize - 1) /\ tail \in 0..(bufsize - 1)
    /\ closed \in BOOLEAN
    /\ cond_data_avail \in Seq(Threads) /\ cond_space_avail \in Seq(Threads)
    /\ op \in [Threads -> Operations \cup {"none"}]
    /\ DOMAIN todo = Threads
    /\ \A t \in Threads : todo[t] \in IF op[t] = "read_some" THEN 0..MaxTransfer ELSE Transfers
    /\ woken \in SUBSET Threads

\* The characters in the ring, oldest first.
Contents == [i \in 1..ioq_length |-> buf[Advance(tail, i - 1)]]

\* The ring, its cursors and its two condition variables are a bounded FIFO
\* channel on which every call takes effect once and at once: across the wrap-around
\* no character is lost, duplicated, reordered or overwritten, none is accepted after
\* ioq_close, and no call returns empty-handed because it was overtaken.
AsChannel == INSTANCE Channel WITH buffer <- Contents, Capacity <- bufsize - 1
ImplementsChannel == AsChannel!Spec

Takers == {"getchar", "read_some"}
Givers == {"putchar", "write_some"}

\* The threads notified and on their way to the lock for one of these operations.
Coming(ops) == {t \in woken : op[t] \in ops}

\* No reader sleeps beside unread characters unless readers are already notified
\* and on their way to take them all, and no writer beside free slots: one notify
\* per transfer is enough, although a notified thread can be overtaken on its way
\* to the lock.
SleepersTold ==
    /\ cond_data_avail # <<>> => ioq_length <= Cardinality(Coming(Takers))
    /\ cond_space_avail # <<>> => bufsize - 1 - ioq_length <= Cardinality(Coming(Givers))

\* Once ioq_close has run, no operation stays blocked: readers get what is left
\* or end of file, writers are refused.
CloseReleases == \A t \in Threads : closed /\ op[t] # "none" ~> op[t] = "none"

----------------------------------------------------------------------------
(* What SleepersTold needs to be inductive. *)

\* A pipe: every call moves one character at most.
AsPipe(r) == \A t \in Threads : r[t] \cap {"read_some", "write_some"} = {}

\* The terminal: one thread at most reads, one at most writes.
AsTerminal(r) ==
    \A ops \in {Takers, Givers}, t, u \in Threads :
        r[t] \cap ops # {} /\ r[u] \cap ops # {} => t = u

CallsAllowed ==
    \A t \in Threads : /\ op[t] # "none" => op[t] \in role[t]
                       /\ op[t] = "putchar" => Len(todo[t]) = 1

\* The threads on a condition are in a call that waits for it, once each, and not
\* notified yet.
WaitOK(q, ops) ==
    /\ Distinct(q)
    /\ \A t \in Threads : elem_find(q, t) => op[t] \in ops /\ t \notin woken

QueuesOK ==
    /\ WaitOK(cond_data_avail, Takers) /\ WaitOK(cond_space_avail, Givers)
    /\ closed => cond_data_avail = <<>> /\ cond_space_avail = <<>>
    /\ ~closed => IsFiniteSet(woken)

IoqInv == TypeOK /\ CallsAllowed /\ QueuesOK
=============================================================================
