----------------------------- MODULE Scheduler -----------------------------
(***************************************************************************)
(* The thread scheduler of the kernel: thread/thread.c and the handler of  *)
(* the timer interrupt in device/timer.c.                                  *)
(*                                                                         *)
(* Every operation below runs with interrupts off (each of the functions   *)
(* disables them, and system calls enter the kernel through an interrupt   *)
(* gate), and there is one CPU: an operation is one atomic step.  What is  *)
(* left open is which operation comes next: the running thread may block,  *)
(* yield, start a thread, reap one or wake one up, an interrupt handler    *)
(* may wake one up, and the timer may tick, in any order.                  *)
(***************************************************************************)
EXTENDS KernelList

CONSTANTS
    Threads,    \* the PCB pages that can be allocated
    Idle,       \* idle_thread
    Main,       \* main_thread
    InitProc,   \* the first user process, pid 1
    Priority    \* Priority[t] is pthread->priority, the ticks of a time slice

ASSUME SchedulerAssumption ==
    /\ Idle \in Threads /\ Main \in Threads /\ InitProc \in Threads
    /\ Idle # Main /\ Idle # InitProc /\ Main # InitProc
    /\ Priority \in [Threads -> Nat]

VARIABLES
    cur,        \* running_thread()
    status,     \* enum task_status of every PCB; "FREE": the page holds none
    ready,      \* thread_ready_list
    all,        \* thread_all_list, of which only the membership matters here
    ticks       \* pthread->ticks, what is left of the time slice

vars == <<cur, status, ready, all, ticks>>

\* The states thread_block accepts and thread_unblock leaves.
Asleep == {"BLOCKED", "WAITING", "HANGING"}

Status == {"FREE", "RUNNING", "READY"} \cup Asleep

----------------------------------------------------------------------------
\* thread_init: init is queued first, main is the thread already running, and
\* idle is started last.
Init ==
    /\ cur = Main
    /\ status = [t \in Threads |-> IF t = Main THEN "RUNNING"
                                     ELSE IF t \in {InitProc, Idle} THEN "READY" ELSE "FREE"]
    /\ ready = <<InitProc, Idle>>
    /\ all = {InitProc, Main, Idle}
    /\ ticks = Priority

----------------------------------------------------------------------------
\* schedule(), called with the statuses st and the ready list q.  A thread that
\* is still RUNNING only used up its slice: it goes to the tail with a new one.
\* An empty ready list wakes idle up.  The head of the list gets the CPU.
schedule(st, q) ==
    LET preempted == st[cur] = "RUNNING"
        queued    == IF preempted THEN list_append(q, cur) ELSE q
        runnable  == IF list_empty(queued) THEN list_push(queued, Idle)
                                        ELSE queued
        next      == Head(runnable)
    IN  /\ cur' = next
        /\ ready' = Tail(runnable)
        /\ status' = [(IF preempted THEN [st EXCEPT ![cur] = "READY"] ELSE st)
                         EXCEPT ![next] = "RUNNING"]
        /\ ticks' = IF preempted THEN [ticks EXCEPT ![cur] = Priority[cur]]
                                 ELSE ticks

\* Mutant: the time slice is used up without a check for zero.
intr_timer_handler_unchecked ==
    /\ ticks' = [ticks EXCEPT ![cur] = @ - 1]
    /\ UNCHANGED <<cur, status, ready, all>>

\* Mutant: thread_yield forgets the status, so schedule links the thread again.
thread_yield_running ==
    /\ cur # Idle
    /\ schedule(status, list_append(ready, cur))
    /\ UNCHANGED all

\* Mutant: a thread that is woken up is marked as if it had the CPU already.
thread_unblock_running(t) ==
    /\ t # Idle
    /\ status[t] \in {"BLOCKED", "WAITING"}
    /\ status' = [status EXCEPT ![t] = "RUNNING"]
    /\ ready' = list_push(ready, t)
    /\ UNCHANGED <<cur, all, ticks>>

\* Mutant: the idle loop waits like sys_wait does.
thread_block_idle(stat) ==
    /\ cur = InitProc => stat # "HANGING"
    /\ schedule([status EXCEPT ![cur] = stat], ready)
    /\ UNCHANGED all

\* Mutant: blocking refills the time slice, as being preempted does.
thread_block_refill(stat) ==
    /\ cur \in {Idle, Main} => stat = "BLOCKED"
    /\ cur = InitProc => stat # "HANGING"
    /\ ready # <<>>
    /\ cur' = Head(ready)
    /\ ready' = Tail(ready)
    /\ status' = [status EXCEPT ![cur] = stat, ![Head(ready)] = "RUNNING"]
    /\ ticks' = [ticks EXCEPT ![cur] = Priority[cur]]
    /\ UNCHANGED all

----------------------------------------------------------------------------
\* thread_start, process_execute and the end of sys_fork: a new PCB joins the
\* tail of the ready list.
thread_start(t) ==
    /\ status[t] = "FREE"
    /\ status' = [status EXCEPT ![t] = "READY"]
    /\ ready' = list_append(ready, t)
    /\ all' = all \cup {t}
    /\ ticks' = [ticks EXCEPT ![t] = Priority[t]]
    /\ UNCHANGED cur

\* thread_block.  The idle loop and main only ever ask for TASK_BLOCKED, and
\* sys_exit panics before init could hang.
thread_block(stat) ==
    /\ cur \in {Idle, Main} => stat = "BLOCKED"
    /\ cur = InitProc => stat # "HANGING"
    /\ schedule([status EXCEPT ![cur] = stat], ready)
    /\ UNCHANGED all

\* thread_unblock, by the running thread or by an interrupt handler on top of
\* it: the thread goes to the FRONT of the ready list.  Nobody waits for a
\* hanging thread to run again, and idle is on no wait queue.
thread_unblock(t) ==
    /\ t # Idle
    /\ status[t] \in {"BLOCKED", "WAITING"}
    /\ status' = [status EXCEPT ![t] = "READY"]
    /\ ready' = list_push(ready, t)
    /\ UNCHANGED <<cur, all, ticks>>

\* thread_yield: the thread gives the CPU away and keeps what is left of its slice.
thread_yield ==
    /\ cur # Idle
    /\ schedule([status EXCEPT ![cur] = "READY"], list_append(ready, cur))
    /\ UNCHANGED all

\* thread_exit(t, false), whose only caller is sys_wait, with a hanging child.
\* A thread found on the ready list would be taken off it.
thread_exit(t) ==
    /\ status[t] = "HANGING"
    /\ status' = [status EXCEPT ![t] = "FREE"]
    /\ ready' = IF elem_find(ready, t) THEN list_remove(ready, t) ELSE ready
    /\ all' = all \ {t}
    /\ UNCHANGED <<cur, ticks>>

\* intr_timer_handler
intr_timer_handler ==
    /\ UNCHANGED all
    /\ \/ /\ ticks[cur] = 0
          /\ schedule(status, ready)
       \/ /\ ticks[cur] > 0
          /\ ticks' = [ticks EXCEPT ![cur] = @ - 1]
          /\ UNCHANGED <<cur, status, ready>>

Next ==
    \/ \E t \in Threads : thread_start(t) \/ thread_unblock(t) \/ thread_exit(t)
    \/ \E stat \in Asleep : thread_block(stat)
    \/ thread_yield
    \/ intr_timer_handler

\* The timer is programmed to interrupt 100 times a second, and user code, the
\* idle loop and every blocking wait let it in; nothing obliges a thread to
\* call into the kernel, so no other action is fair.
Spec == Init /\ [][Next]_vars /\ WF_vars(intr_timer_handler)

----------------------------------------------------------------------------
TypeOK ==
    /\ cur \in Threads
    /\ status \in [Threads -> Status]
    /\ ready \in Seq(Threads)
    /\ all \in SUBSET Threads
    /\ ticks \in [Threads -> Nat]

\* The ready list holds exactly the threads whose status is TASK_READY, each of
\* them once.  No blocked or freed PCB can be dispatched by schedule, no thread
\* that was made ready is forgotten, and no general_tag is linked twice: the
\* ASSERT(!elem_find(&thread_ready_list, ...)) in front of every list_append and
\* list_push of thread.c holds in every order of blocking, waking and ticking.
ReadyListExact ==
    /\ Distinct(ready)
    /\ \A t \in Threads : status[t] = "READY" <=> elem_find(ready, t)

\* Whatever the order of blocking, waking and ticking, the CPU runs one thread,
\* and that thread alone has the status TASK_RUNNING.
OneRunning == \A t \in Threads : status[t] = "RUNNING" <=> t = cur

\* When the ready list is empty, idle is asleep (or is itself the thread on the
\* CPU): the thread_unblock(idle_thread) of schedule never meets its ASSERT on
\* the status, and idle is never linked twice.
IdleWakeable == list_empty(ready) => cur = Idle \/ status[Idle] = "BLOCKED"

\* thread_all_list holds exactly the PCBs in use, so pid2thread and the wait and
\* exit code that walk it never follow the tag of a freed page.
AllListExact == all = {t \in Threads : status[t] # "FREE"}

\* The inductive invariant behind the safety properties.
SchedInv ==
    /\ TypeOK
    /\ ReadyListExact
    /\ OneRunning
    /\ status[Idle] \in {"RUNNING", "READY", "BLOCKED"}
    /\ AllListExact

\* A ready thread gets the CPU eventually, although thread_unblock puts every
\* thread it wakes up in front of it: blocking and waking keep what is left of
\* a time slice, so the threads ahead run out of ticks.
StarvationFree == \A t \in Threads : status[t] = "READY" ~> status[t] = "RUNNING"
=============================================================================
