------------------------------ MODULE Process ------------------------------
(***************************************************************************)
(* The life of user processes: userprog/fork.c, userprog/wait_exit.c,      *)
(* kernel/signal.c, the signal part of userprog/exec.c and the pid pool of *)
(* thread/thread.c.                                                        *)
(*                                                                         *)
(* System calls run with interrupts off, so each is one step, cut where it *)
(* can block: sys_wait at its thread_block, sys_exit where it closes files *)
(* (a pipe may be locked).  Any process that is not asleep may take the    *)
(* next step; the ready list is the subject of Scheduler.                  *)
(***************************************************************************)
EXTENDS KernelList, FiniteSets

CONSTANTS
    Procs,      \* the pages that can hold the PCB of a user process
    InitProc,   \* the PCB of init
    MaxPid,     \* size of the pid pool (1024 in the code)
    KernelPids, \* the pids of the kernel threads main and idle
    Signals     \* the signal numbers in use

ASSUME ProcessAssumption ==
    /\ InitProc \in Procs
    /\ MaxPid \in Nat \ {0}
    /\ KernelPids \subseteq 2..MaxPid
    /\ Signals \subseteq Nat

VARIABLES
    status,     \* task_status; "FREE": no PCB here, "LEAKED": lost by a failed fork
    pid, parent_pid,
    all,        \* thread_all_list without the kernel threads
    pid_pool,   \* the pids whose bit is set
    signal_bits, sighandlers,
    pc,         \* "user", "wait": inside sys_wait, "exit": inside sys_exit
    panic,      \* PANIC was called: the machine has stopped
    father      \* history: the PCB that forked this one, init once it is an orphan

vars == <<status, pid, parent_pid, all, pid_pool, signal_bits, sighandlers, pc, panic, father>>

signalVars == <<signal_bits, sighandlers>>
familyVars == <<pid, parent_pid, all, pid_pool, father>>

NoParent == -1

Handlers == {"SIG_DFL", "SIG_IGN", "HANDLER"}

Default == [s \in Signals |-> "SIG_DFL"]

\* thread_init and process_execute: init is the first process, with pid 1.
Init ==
    /\ status = [t \in Procs |-> IF t = InitProc THEN "READY" ELSE "FREE"]
    /\ pid = [t \in Procs |-> IF t = InitProc THEN 1 ELSE 0]
    /\ parent_pid = [t \in Procs |-> NoParent]
    /\ all = <<InitProc>>
    /\ pid_pool = {1} \cup KernelPids
    /\ signal_bits = [t \in Procs |-> {}]
    /\ sighandlers = [t \in Procs |-> Default]
    /\ pc = [t \in Procs |-> "user"]
    /\ panic = FALSE
    /\ father = [t \in Procs |-> InitProc]

----------------------------------------------------------------------------
Range(q) == {q[i] : i \in 1..Len(q)}

\* A process that is neither asleep nor gone can run; a system call starts in
\* user code.
CanRun(t) == status[t] = "READY" /\ ~panic
InUser(t) == CanRun(t) /\ pc[t] = "user"

\* list_traversal: the first element of thread_all_list among those, S, that pass the test
First(S) ==
    all[CHOOSE i \in 1..Len(all) : all[i] \in S /\ \A j \in 1..(i - 1) : all[j] \notin S]

\* pid2thread, for a pid that is in use
Known(p) == \E t \in Range(all) : pid[t] = p
pid2thread(p) == First({t \in Procs : pid[t] = p})

find_child(t, ppid) == parent_pid[t] = ppid
find_hanging_child(t, ppid) == parent_pid[t] = ppid /\ status[t] = "HANGING"

\* The pids whose bit is clear.
FreePids == (1..MaxPid) \ pid_pool

\* Mutant: the index of the bit is returned without adding pid_start.
allocate_pid_bit == (CHOOSE p \in FreePids : \A q \in FreePids : p <= q) - 1

\* allocate_pid: the lowest free bit
allocate_pid == CHOOSE p \in FreePids : \A q \in FreePids : p <= q

----------------------------------------------------------------------------
(* fork *)

\* sys_fork.  The pool of 1024 pids is assumed not to run dry: allocate_pid does
\* not test for that.
sys_fork(t, c) ==
    /\ InUser(t)
    /\ status[c] = "FREE"
    /\ FreePids # {}
    /\ pid' = [pid EXCEPT ![c] = allocate_pid]
    /\ pid_pool' = pid_pool \cup {allocate_pid}
    /\ parent_pid' = [parent_pid EXCEPT ![c] = pid[t]]
    /\ status' = [status EXCEPT ![c] = "READY"]
    /\ sighandlers' = [sighandlers EXCEPT ![c] = sighandlers[t]]
    /\ signal_bits' = [signal_bits EXCEPT ![c] = {}]
    /\ all' = list_append(all, c)
    /\ pc' = [pc EXCEPT ![c] = "user"]
    /\ father' = [father EXCEPT ![c] = t]
    /\ UNCHANGED panic

\* sys_fork when memory runs out for the buffer, or after the PCB was copied: the
\* call returns -1 and keeps the page of the PCB and, in the second case, the pid.
fork_fails(t, c) ==
    /\ InUser(t)
    /\ status[c] = "FREE"
    /\ \/ FreePids # {} /\ pid_pool' = pid_pool \cup {allocate_pid}
       \/ UNCHANGED pid_pool
    /\ status' = [status EXCEPT ![c] = "LEAKED"]
    /\ UNCHANGED <<pid, parent_pid, all, signalVars, pc, panic, father>>

----------------------------------------------------------------------------
(* wait and exit *)

\* Mutant: the PCB keeps TASK_DIED, its page is not given back.
thread_exit_died(c) ==
    /\ status' = [status EXCEPT ![c] = "DIED"]
    /\ all' = list_remove(all, c)
    /\ pid_pool' = pid_pool \ {pid[c]}
    /\ UNCHANGED <<pid, parent_pid, father, signalVars>>

\* thread_exit(c, false).  What the freed page held is forgotten: the next user
\* of the page overwrites it.
thread_exit(c) ==
    /\ status' = [status EXCEPT ![c] = "FREE"]
    /\ all' = list_remove(all, c)
    /\ pid_pool' = pid_pool \ {pid[c]}
    /\ pid' = [pid EXCEPT ![c] = 0]
    /\ parent_pid' = [parent_pid EXCEPT ![c] = NoParent]
    /\ father' = [father EXCEPT ![c] = InitProc]
    /\ signal_bits' = [signal_bits EXCEPT ![c] = {}]
    /\ sighandlers' = [sighandlers EXCEPT ![c] = Default]

\* Mutant: a process with children sleeps without looking for a hanging one.
sys_wait_blind(t) ==
    /\ CanRun(t)
    /\ pc[t] \in {"user", "wait"}
    /\ \E u \in Range(all) : find_child(u, pid[t])
    /\ status' = [status EXCEPT ![t] = "WAITING"]
    /\ pc' = [pc EXCEPT ![t] = "wait"]
    /\ UNCHANGED <<familyVars, signalVars, panic>>

\* One turn of the loop of sys_wait, from the call or from the wakeup.
sys_wait(t) ==
    LET children == {u \in Range(all) : find_child(u, pid[t])}
        hanging  == {u \in Range(all) : find_hanging_child(u, pid[t])}
    IN
    /\ CanRun(t)
    /\ pc[t] \in {"user", "wait"}
    /\ \/ /\ hanging # {}
          /\ thread_exit(First(hanging))
          /\ pc' = [pc EXCEPT ![t] = "user", ![First(hanging)] = "user"]
       \/ /\ children = {}
          /\ pc' = [pc EXCEPT ![t] = "user"]
          /\ UNCHANGED <<status, familyVars, signalVars>>
       \/ /\ children # {} /\ hanging = {}
          /\ status' = [status EXCEPT ![t] = "WAITING"]
          /\ pc' = [pc EXCEPT ![t] = "wait"]
          /\ UNCHANGED <<familyVars, signalVars>>
    /\ UNCHANGED panic

\* Mutant: the children keep the pid of the parent that is about to go.
StartExit_orphans(t) ==
    /\ \/ parent_pid[t] = NoParent /\ panic' = TRUE /\ UNCHANGED pc
       \/ /\ parent_pid[t] # NoParent
          /\ pc' = [pc EXCEPT ![t] = "exit"]
          /\ UNCHANGED panic
    /\ UNCHANGED <<status, pid, parent_pid, all, pid_pool, signalVars, father>>

\* sys_exit up to the point where it closes the files: init never gets there,
\* and the children are handed over to init.
StartExit(t) ==
    /\ \/ /\ parent_pid[t] = NoParent
          /\ panic' = TRUE
          /\ UNCHANGED <<parent_pid, pc, father>>
       \/ /\ parent_pid[t] # NoParent
          /\ parent_pid' = [u \in Procs |->
                IF u \in Range(all) /\ find_child(u, pid[t]) THEN 1 ELSE parent_pid[u]]
          /\ pc' = [pc EXCEPT ![t] = "exit"]
          /\ father' = [u \in Procs |-> IF father[u] = t THEN InitProc ELSE father[u]]
          /\ UNCHANGED panic
    /\ UNCHANGED <<status, pid, all, pid_pool, signalVars>>

sys_exit(t) == InUser(t) /\ StartExit(t)

\* Mutant: the parent is looked at, but not woken up.
exit_finish_silent(t) ==
    /\ CanRun(t)
    /\ pc[t] = "exit"
    /\ status' = [status EXCEPT ![t] = "HANGING"]
    /\ UNCHANGED <<familyVars, signalVars, pc, panic>>

\* The end of sys_exit, once the files are closed: wake up the parent and hang.
exit_finish(t) ==
    LET parent == pid2thread(parent_pid[t]) IN
    /\ CanRun(t)
    /\ pc[t] = "exit"
    /\ status' = [status EXCEPT
                    ![parent] = IF @ = "WAITING" THEN "READY" ELSE @,
                    ![t] = "HANGING"]
    /\ UNCHANGED <<familyVars, signalVars, pc, panic>>

----------------------------------------------------------------------------
(* signals *)

\* sys_kill, by a process or by the terminal for ctrl-C
sys_kill(p, s) ==
    /\ ~panic
    /\ Known(p)
    /\ signal_bits' = [signal_bits EXCEPT ![pid2thread(p)] = @ \cup {s}]
    /\ UNCHANGED <<status, familyVars, sighandlers, pc, panic>>

sys_signal(t, s, h) ==
    /\ InUser(t)
    /\ sighandlers' = [sighandlers EXCEPT ![t][s] = h]
    /\ UNCHANGED <<status, familyVars, signal_bits, pc, panic>>

\* sys_execve: the signals are reset before the program is loaded, and stay so
\* if that fails.
sys_execve(t) ==
    /\ InUser(t)
    /\ signal_bits' = [signal_bits EXCEPT ![t] = {}]
    /\ sighandlers' = [sighandlers EXCEPT ![t] = Default]
    /\ UNCHANGED <<status, familyVars, pc, panic>>

\* Mutant: a signal without a handler is left alone.
check_signal_handlers(t) ==
    /\ InUser(t)
    /\ \E s \in signal_bits[t] :
         /\ sighandlers[t][s] = "HANDLER"
         /\ signal_bits' = [signal_bits EXCEPT ![t] = @ \ {s}]
    /\ UNCHANGED <<status, familyVars, sighandlers, pc, panic>>

\* check_signal, on the way back to user mode: the lowest pending signal that is
\* not ignored ends the process or runs its handler; ignored ones stay pending.
check_signal(t) ==
    LET acting == {s \in signal_bits[t] : sighandlers[t][s] # "SIG_IGN"} IN
    /\ InUser(t)
    /\ acting # {}
    /\ LET s == CHOOSE s \in acting : \A r \in acting : s <= r IN
          \/ /\ sighandlers[t][s] = "SIG_DFL"
             /\ StartExit(t)
          \/ /\ sighandlers[t][s] = "HANDLER"
             /\ signal_bits' = [signal_bits EXCEPT ![t] = @ \ {s}]
             /\ UNCHANGED <<status, familyVars, sighandlers, pc, panic>>

----------------------------------------------------------------------------
Next ==
    \/ \E t \in Procs :
         \/ \E c \in Procs : sys_fork(t, c) \/ fork_fails(t, c)
         \/ sys_wait(t) \/ sys_exit(t) \/ exit_finish(t)
         \/ \E s \in Signals, h \in Handlers : sys_signal(t, s, h)
         \/ sys_execve(t) \/ check_signal(t)
    \/ \E p \in 1..MaxPid, s \in Signals : sys_kill(p, s)

\* A process that is ready gets the CPU again (StarvationFree of Scheduler), so
\* it goes on where it was woken up, finishes its sys_exit, and is interrupted
\* by the timer, which looks at its signals.  Init waits in an endless loop.
Fairness ==
    /\ \A t \in Procs :
         /\ WF_vars(pc[t] = "wait" /\ sys_wait(t))
         /\ WF_vars(exit_finish(t))
         /\ WF_vars(check_signal(t))
    /\ WF_vars(sys_wait(InitProc))

Spec == Init /\ [][Next]_vars /\ Fairness

----------------------------------------------------------------------------
InUse(t) == status[t] \notin {"FREE", "LEAKED"}

TypeOK ==
    /\ status \in [Procs -> {"FREE", "LEAKED", "READY", "WAITING", "HANGING"}]
    /\ pid \in [Procs -> 0..MaxPid]
    /\ parent_pid \in [Procs -> {NoParent} \cup 1..MaxPid]
    /\ all \in Seq(Procs)
    /\ pid_pool \in SUBSET (1..MaxPid)
    /\ signal_bits \in [Procs -> SUBSET Signals]
    /\ sighandlers \in [Procs -> [Signals -> Handlers]]
    /\ pc \in [Procs -> {"user", "wait", "exit"}]
    /\ panic \in BOOLEAN
    /\ father \in [Procs -> Procs]

\* A pid names one process: the PCBs in use are those on thread_all_list, their
\* pids differ, and allocate_pid cannot hand any of them out again, however pids
\* are released, leaked and reused.
PidsUnique ==
    /\ Distinct(all)
    /\ \A t \in Procs : elem_find(all, t) <=> InUse(t)
    /\ \A t \in Procs : InUse(t) => pid[t] \in pid_pool \ KernelPids
    /\ \A t, u \in Procs : InUse(t) /\ InUse(u) /\ pid[t] = pid[u] => t = u

\* The pid2thread(parent_pid) of sys_exit, which is not tested for NULL, finds the
\* process that forked this one, or init: never a process that got the pid of a
\* dead parent later, and never a parent that has itself begun to exit.
ParentIsFather ==
    \A t \in Procs \ {InitProc} : InUse(t) =>
       /\ InUse(father[t]) /\ pid[father[t]] = parent_pid[t]
       /\ pc[father[t]] # "exit"

\* A process other than init that sleeps in sys_wait has children to wait for,
\* and none of them has exited: no exit can fall between the search for hanging
\* children and the block.
WaitMissesNoExit ==
    \A t \in Procs \ {InitProc} : status[t] = "WAITING" =>
       /\ \E u \in Procs : InUse(u) /\ father[u] = t
       /\ \A u \in Procs : father[u] = t => status[u] # "HANGING"

\* wait returns when a child exits: a child on its way out of sys_exit releases
\* the father that is inside sys_wait, init included.
ExitEndsWait ==
    \A t, c \in Procs :
       pc[c] = "exit" /\ CanRun(c) /\ father[c] = t /\ pc[t] = "wait"
          ~> pc[t] # "wait" \/ panic

\* The lowest signal with the default action ends a process that runs, unless the
\* process changes its mind: sys_kill is not forgotten.
SignalEnds ==
    LET s == CHOOSE s \in Signals : \A r \in Signals : s <= r IN
    \A t \in Procs :
       InUser(t) /\ s \in signal_bits[t] /\ sighandlers[t][s] = "SIG_DFL"
          ~> \/ ~InUser(t) \/ panic
             \/ s \notin signal_bits[t] \/ sighandlers[t][s] # "SIG_DFL"

\* What sys_exit says of the hanging process (wait_exit.c:151): its parent collects
\* the status and the PCB.  Here for the children of init, which waits for ever.
OrphanReaped ==
    \A u \in Procs : status[u] = "HANGING" /\ parent_pid[u] = pid[InitProc]
       ~> status[u] = "FREE" \/ panic

----------------------------------------------------------------------------
(* What the proof of the properties above needs besides *)

\* Where a process is inside the kernel goes with its status, and a page without
\* a process remembers nobody.
PcMatchesStatus ==
    \A t \in Procs :
       /\ status[t] = "WAITING" => pc[t] = "wait"
       /\ status[t] = "HANGING" => pc[t] = "exit"
       /\ ~InUse(t) => pc[t] = "user" /\ father[t] = InitProc

\* Init is there for ever, with the pid it was given, and the kernel threads keep
\* theirs.
InitStays ==
    /\ InUse(InitProc) /\ pid[InitProc] = 1 /\ parent_pid[InitProc] = NoParent
    /\ pc[InitProc] # "exit" /\ father[InitProc] = InitProc
    /\ KernelPids \subseteq pid_pool

\* The inductive invariant.
ProcInv ==
    /\ TypeOK /\ PidsUnique /\ ParentIsFather /\ WaitMissesNoExit
    /\ PcMatchesStatus /\ InitStays
=============================================================================
