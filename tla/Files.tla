------------------------------- MODULE Files -------------------------------
(***************************************************************************)
(* Open files: the file descriptors of processes, the global file table    *)
(* with its counts, and the anonymous pipes behind them.  From fs/file.c   *)
(* and fs/fs.c (slots, sys_close), ipc/pipe.c, userprog/fork.c (the counts *)
(* of a new process) and userprog/wait_exit.c (closing at exit).           *)
(*                                                                         *)
(* A system call runs with interrupts off, so a step is what happens up to *)
(* the next point where the process can block: the lock of a pipe, or its  *)
(* io queue when full or empty.  The queue is reduced to the number of its *)
(* characters; Channel is what it promises.                                *)
(***************************************************************************)
EXTENDS Integers, FiniteSets

CONSTANTS
    Procs,          \* processes
    First,          \* the one that exists from the start
    Pipes,          \* kernel pages that can hold a pipe
    NStd,           \* the descriptors of the terminal (3 in the code)
    MaxOpen,        \* MAX_FILE_OPEN, the size of file_table
    MaxLocal,       \* MAX_FILES_OPEN_PER_PROC, the size of fd_table
    Capacity,       \* what the queue of a pipe holds
    MaxTransfer,    \* bound on the size of one read or write
    ForkRedirected, \* may a process fork whose standard descriptors are redirected?
    NULL

ASSUME FilesAssumption ==
    /\ First \in Procs
    /\ NStd \in Nat /\ MaxOpen \in Nat /\ MaxLocal \in Nat
    /\ NStd < MaxOpen /\ NStd < MaxLocal
    /\ Capacity \in Nat \ {0} /\ MaxTransfer \in Nat \ {0}
    /\ ForkRedirected \in BOOLEAN
    /\ NULL \notin Procs /\ NULL \notin Pipes

Locals == 0..(MaxLocal - 1)
Slots  == NStd..(MaxOpen - 1)   \* the slots that are not the terminal's

VARIABLES
    alive,      \* the processes that exist
    fd_table,   \* local descriptor -> slot of file_table, or -1
    used,       \* the slots with fd_inode # NULL
    count,      \* file.count
    file,       \* private_data and op: the pipe and the end it is
    lost,       \* history: the slots that were taken and got no descriptor
    has,        \* the ends of a pipe: has_reader, has_writer; {} if it is freed
    closed,     \* q.closed
    level,      \* the characters in q
    lock,       \* the holder of pipe_struct.lock
    op, fd, todo,   \* the call a process is in, its descriptor, what is left of it
    exiting     \* the processes inside sys_exit

fileVars == <<fd_table, used, count, file, lost>>
pipeVars == <<has, closed, level, lock>>
vars == <<alive, fileVars, pipeVars, op, fd, todo, exiting>>

Ends == {"reader", "writer"}

NoFile == [pipe |-> NULL, end |-> NULL]

Init ==
    /\ alive = {First}
    /\ fd_table = [t \in Procs |-> [f \in Locals |-> IF t = First /\ f < NStd THEN f ELSE -1]]
    /\ used = {}
    /\ count = [g \in Slots |-> 0]
    /\ file = [g \in Slots |-> NoFile]
    /\ lost = {}
    /\ has = [p \in Pipes |-> {}]
    /\ closed = [p \in Pipes |-> FALSE]
    /\ level = [p \in Pipes |-> 0]
    /\ lock = [p \in Pipes |-> NULL]
    /\ op = [t \in Procs |-> "none"]
    /\ fd = [t \in Procs |-> 0]
    /\ todo = [t \in Procs |-> 0]
    /\ exiting = {}

----------------------------------------------------------------------------
Lowest(S) == CHOOSE x \in S : \A y \in S : x <= y

\* A process in user code.
InUser(t) == t \in alive /\ op[t] = "none" /\ t \notin exiting

\* The pipe and the end the current call of t is about.
TheFile(t) == file[fd_table[t][fd[t]]]
ThePipe(t) == TheFile(t).pipe

Return(t) ==
    /\ op' = [op EXCEPT ![t] = "none"]
    /\ fd' = [fd EXCEPT ![t] = 0]
    /\ todo' = [todo EXCEPT ![t] = 0]

\* pcb_fd_install: the lowest free local descriptor; nothing if there is none,
\* and the slot stays taken.
pcb_fd_install(table, g) ==
    LET free == {f \in Locals : f >= NStd /\ table[f] = -1} IN
    IF free = {} THEN table ELSE [table EXCEPT ![Lowest(free)] = g]

\* sys_pipe.  Without a page or two free slots it undoes everything.
sys_pipe(t, p) ==
    LET free       == Slots \ used
        reader_gfd == Lowest(free)
        writer_gfd == Lowest(free \ {reader_gfd})
        table      == pcb_fd_install(pcb_fd_install(fd_table[t], reader_gfd), writer_gfd)
    IN
    /\ InUser(t)
    /\ has[p] = {}
    /\ Cardinality(free) >= 2
    /\ used' = used \cup {reader_gfd, writer_gfd}
    /\ count' = [count EXCEPT ![reader_gfd] = 1, ![writer_gfd] = 1]
    /\ file' = [file EXCEPT ![reader_gfd] = [pipe |-> p, end |-> "reader"],
                            ![writer_gfd] = [pipe |-> p, end |-> "writer"]]
    /\ has' = [has EXCEPT ![p] = Ends]
    /\ closed' = [closed EXCEPT ![p] = FALSE]
    /\ level' = [level EXCEPT ![p] = 0]
    /\ fd_table' = [fd_table EXCEPT ![t] = table]
    /\ lost' = lost \cup {g \in {reader_gfd, writer_gfd} : \A f \in Locals : table[f] # g}
    /\ UNCHANGED <<alive, lock, op, fd, todo, exiting>>

\* Mutant: the new process is not counted at all.
Counted_none(t) == count

\* update_file_open_cnts: the descriptors from NStd on are counted.
Counted(t) == [g \in Slots |->
    count[g] + Cardinality({f \in Locals : f >= NStd /\ fd_table[t][f] = g})]

\* The part of sys_fork that is about files.
sys_fork(t, c) ==
    /\ InUser(t)
    /\ c \notin alive
    /\ ForkRedirected \/ \A f \in Locals : f < NStd => fd_table[t][f] < NStd
    /\ alive' = alive \cup {c}
    /\ fd_table' = [fd_table EXCEPT ![c] = fd_table[t]]
    /\ count' = Counted(t)
    /\ UNCHANGED <<used, file, lost, pipeVars, op, fd, todo, exiting>>

\* Mutant: the new reference to the file is not counted.
sys_fd_redirect_uncounted(t, old, new) ==
    /\ InUser(t)
    /\ old < NStd /\ fd_table[t][old] \in 0..(NStd - 1)
    /\ new >= NStd /\ fd_table[t][new] # -1
    /\ fd_table' = [fd_table EXCEPT ![t][old] = fd_table[t][new]]
    /\ UNCHANGED <<alive, used, count, file, lost, pipeVars, op, fd, todo, exiting>>

\* sys_fd_redirect, as the shell uses it: a standard descriptor that is still the
\* terminal's becomes a copy of another one.  The counts of the terminal's slots, which the
\* code lowers here, are left out: sys_close never looks at them.
sys_fd_redirect(t, old, new) ==
    /\ InUser(t)
    /\ old < NStd /\ fd_table[t][old] \in 0..(NStd - 1)
    /\ new >= NStd /\ fd_table[t][new] # -1
    /\ fd_table' = [fd_table EXCEPT ![t][old] = fd_table[t][new]]
    /\ count' = [count EXCEPT ![fd_table[t][new]] = @ + 1]
    /\ UNCHANGED <<alive, used, file, lost, pipeVars, op, fd, todo, exiting>>

----------------------------------------------------------------------------
(* close *)

\* sys_close up to the release of the file.  Closing a terminal descriptor, or
\* one of several, only forgets it.
Close(t, f) ==
    LET g == fd_table[t][f] IN
    \/ /\ g < NStd
       /\ fd_table' = [fd_table EXCEPT ![t][f] = -1]
       /\ UNCHANGED <<count, op, fd>>
    \/ /\ g >= NStd
       /\ count' = [count EXCEPT ![g] = @ - 1]
       /\ \/ /\ count[g] # 1
             /\ fd_table' = [fd_table EXCEPT ![t][f] = -1]
             /\ UNCHANGED <<op, fd>>
          \/ /\ count[g] = 1
             /\ op' = [op EXCEPT ![t] = "release"]
             /\ fd' = [fd EXCEPT ![t] = f]
             /\ UNCHANGED fd_table

sys_close(t, f) ==
    /\ InUser(t)
    /\ fd_table[t][f] # -1
    /\ Close(t, f)
    /\ UNCHANGED <<alive, used, file, lost, pipeVars, todo, exiting>>

\* Mutant: the pipe is given back with the first of its ends.
release_early(t) ==
    LET p == ThePipe(t)
        g == fd_table[t][fd[t]]
    IN
    /\ op[t] = "release"
    /\ lock[p] = NULL
    /\ has' = [has EXCEPT ![p] = {}]
    /\ closed' = [closed EXCEPT ![p] = TRUE]
    /\ used' = used \ {g}
    /\ file' = [file EXCEPT ![g] = NoFile]
    /\ fd_table' = [fd_table EXCEPT ![t][fd[t]] = -1]
    /\ Return(t)
    /\ UNCHANGED <<alive, count, lost, level, lock, exiting>>

\* Mutant: the end that goes leaves the queue open.
release_open(t) ==
    LET p == ThePipe(t)
        g == fd_table[t][fd[t]]
    IN
    /\ op[t] = "release"
    /\ lock[p] = NULL
    /\ has' = [has EXCEPT ![p] = @ \ {TheFile(t).end}]
    /\ used' = used \ {g}
    /\ file' = [file EXCEPT ![g] = NoFile]
    /\ fd_table' = [fd_table EXCEPT ![t][fd[t]] = -1]
    /\ Return(t)
    /\ UNCHANGED <<alive, count, lost, closed, level, lock, exiting>>

\* anon_pipe_release_reader and anon_pipe_release_writer, which need the lock of
\* the pipe, and the rest of sys_close.  The second of the two frees the pipe.
release(t) ==
    LET p == ThePipe(t)
        g == fd_table[t][fd[t]]
    IN
    /\ op[t] = "release"
    /\ lock[p] = NULL
    /\ has' = [has EXCEPT ![p] = @ \ {TheFile(t).end}]
    /\ closed' = [closed EXCEPT ![p] = TRUE]
    /\ used' = used \ {g}
    /\ file' = [file EXCEPT ![g] = NoFile]
    /\ fd_table' = [fd_table EXCEPT ![t][fd[t]] = -1]
    /\ Return(t)
    /\ UNCHANGED <<alive, count, lost, level, lock, exiting>>

\* sys_exit closes the descriptors from the lowest on; then the process is gone.
sys_exit(t) ==
    /\ InUser(t)
    /\ exiting' = exiting \cup {t}
    /\ UNCHANGED <<alive, fileVars, pipeVars, op, fd, todo>>

exit_next(t) ==
    LET open == {f \in Locals : fd_table[t][f] # -1} IN
    /\ t \in exiting /\ op[t] = "none"
    /\ \/ /\ open # {}
          /\ Close(t, Lowest(open))
          /\ UNCHANGED <<alive, exiting>>
       \/ /\ open = {}
          /\ alive' = alive \ {t}
          /\ exiting' = exiting \ {t}
          /\ UNCHANGED <<fd_table, count, op, fd>>
    /\ UNCHANGED <<used, file, lost, pipeVars, todo>>

----------------------------------------------------------------------------
(* read and write *)

\* sys_read and sys_write on an end of a pipe.
Call(t, f, end, call) ==
    /\ InUser(t)
    /\ fd_table[t][f] >= NStd
    /\ file[fd_table[t][f]].end = end
    /\ \E n \in 1..MaxTransfer : todo' = [todo EXCEPT ![t] = n]
    /\ op' = [op EXCEPT ![t] = call]
    /\ fd' = [fd EXCEPT ![t] = f]
    /\ UNCHANGED <<alive, fileVars, has, closed, level, exiting>>

sys_read(t, f) == Call(t, f, "reader", "read") /\ UNCHANGED lock

\* anon_pipe_write takes the lock of the pipe, or waits for it.
sys_write(t, f) ==
    LET p == file[fd_table[t][f]].pipe IN
    \/ /\ Call(t, f, "writer", "write")
       /\ lock[p] = NULL
       /\ lock' = [lock EXCEPT ![p] = t]
    \/ /\ Call(t, f, "writer", "lock")
       /\ lock[p] # NULL
       /\ UNCHANGED lock

\* anon_pipe_read: take what there is until the buffer is full or the pipe ended.
anon_pipe_read(t) ==
    LET p == ThePipe(t)
        n == IF todo[t] < level[p] THEN todo[t] ELSE level[p]
    IN
    /\ op[t] = "read"
    /\ level' = [level EXCEPT ![p] = @ - n]
    /\ \/ /\ 0 < n /\ n < todo[t] /\ ~closed[p]
          /\ todo' = [todo EXCEPT ![t] = @ - n]
          /\ UNCHANGED <<op, fd>>
       \/ /\ n = todo[t] \/ closed[p]
          /\ Return(t)
    /\ UNCHANGED <<alive, fileVars, has, closed, lock, exiting>>

\* The lock of the pipe is free again.
write_lock(t) ==
    /\ op[t] = "lock"
    /\ lock[ThePipe(t)] = NULL
    /\ lock' = [lock EXCEPT ![ThePipe(t)] = t]
    /\ op' = [op EXCEPT ![t] = "write"]
    /\ UNCHANGED <<alive, fileVars, has, closed, level, fd, todo, exiting>>

\* anon_pipe_write keeps the lock while it waits for space.
anon_pipe_write(t) ==
    LET p    == ThePipe(t)
        room == IF closed[p] THEN 0 ELSE Capacity - level[p]
        n    == IF todo[t] < room THEN todo[t] ELSE room
    IN
    /\ op[t] = "write"
    /\ level' = [level EXCEPT ![p] = @ + n]
    /\ \/ /\ 0 < n /\ n < todo[t] /\ ~closed[p]
          /\ todo' = [todo EXCEPT ![t] = @ - n]
          /\ UNCHANGED <<lock, op, fd>>
       \/ /\ n = todo[t] \/ closed[p]
          /\ lock' = [lock EXCEPT ![p] = NULL]
          /\ Return(t)
    /\ UNCHANGED <<alive, fileVars, has, closed, exiting>>

----------------------------------------------------------------------------
Continue(t) ==
    \/ anon_pipe_read(t) \/ write_lock(t) \/ anon_pipe_write(t)
    \/ release(t) \/ exit_next(t)

Next ==
    \E t \in Procs :
       \/ \E p \in Pipes : sys_pipe(t, p)
       \/ \E c \in Procs : sys_fork(t, c)
       \/ \E old, new \in Locals : sys_fd_redirect(t, old, new)
       \/ \E f \in Locals : sys_close(t, f) \/ sys_read(t, f) \/ sys_write(t, f)
       \/ sys_exit(t)
       \/ Continue(t)

\* A process inside a call that waits for nothing goes on (StarvationFree of
\* Scheduler, FreeLockTaken of Sync).  Nobody has to call anything.
Spec == Init /\ [][Next]_vars /\ \A t \in Procs : WF_vars(Continue(t))

----------------------------------------------------------------------------
TypeOK ==
    /\ alive \subseteq Procs /\ exiting \subseteq alive
    /\ fd_table \in [Procs -> [Locals -> -1..(MaxOpen - 1)]]
    /\ used \subseteq Slots
    /\ count \in [Slots -> Nat]
    /\ file \in [Slots -> [pipe : Pipes, end : Ends] \cup {NoFile}]
    /\ has \in [Pipes -> SUBSET Ends]
    /\ closed \in [Pipes -> BOOLEAN]
    /\ level \in [Pipes -> 0..Capacity]
    /\ lock \in [Pipes -> Procs \cup {NULL}]
    /\ op \in [Procs -> {"none", "read", "lock", "write", "release"}]
    /\ fd \in [Procs -> Locals]
    /\ todo \in [Procs -> 0..MaxTransfer]

\* The descriptors that refer to the slot g; one that is being closed for good no
\* longer counts.
Refs(g) == {tf \in alive \X Locals :
              /\ fd_table[tf[1]][tf[2]] = g
              /\ ~(op[tf[1]] = "release" /\ fd[tf[1]] = tf[2])}

\* file.count is the number of descriptors that refer to the file, through every
\* order of pipe, fork, redirect, close and exit: a file is released by the last
\* close, not before and not never.  A slot that sys_pipe took for a process
\* without a free descriptor is the exception: it is counted once, for nobody.
CountExact ==
    /\ lost \subseteq used
    /\ \A g \in used : IF g \in lost THEN count[g] = 1 /\ Refs(g) = {}
                                     ELSE count[g] = Cardinality(Refs(g))

\* No process has or uses a descriptor of a slot, or of a pipe page, that was
\* given back; and a pipe page is in use exactly as long as a slot refers to it:
\* whichever of its two ends goes last, and even if both go at the same time, it
\* is freed once.
PipesOwned ==
    /\ \A t \in alive : \A f \in Locals :
          LET g == fd_table[t][f] IN
          g >= NStd => g \in used /\ file[g].pipe # NULL /\ file[g].end \in has[file[g].pipe]
    /\ \A p \in Pipes : \A end \in Ends :
          end \in has[p] <=> \E g \in used : file[g] = [pipe |-> p, end |-> end]

NoWriter(p) ==
    \A g \in used : file[g] = [pipe |-> p, end |-> "writer"] => Refs(g) = {} /\ g \notin lost

\* End of file reaches the reader: a read on a pipe whose write end nobody has any
\* more returns, even if the last writer closed it while the reader slept.  (It
\* does not return if there never was a descriptor for the write end.)
EofReachesReader ==
    \A t \in Procs : op[t] = "read" /\ NoWriter(ThePipe(t)) ~> op[t] # "read"

\* What sys_close says of itself, "closes the file that fd refers to" (fs.c:372):
\* a close comes to its end.
CloseReturns == \A t \in Procs : op[t] = "release" ~> op[t] # "release"

----------------------------------------------------------------------------
(* What the proof of the invariants above needs besides *)

\* A call is about a descriptor of a pipe, and the descriptor whose last close is
\* on its way is the only one of its slot.
CallsOnPipes ==
    \A t \in Procs :
       /\ op[t] # "none" => t \in alive /\ fd_table[t][fd[t]] >= NStd
       /\ op[t] = "release" =>
             /\ fd_table[t][fd[t]] \notin lost
             /\ \A u \in alive : \A f \in Locals :
                   fd_table[u][f] = fd_table[t][fd[t]] => u = t /\ f = fd[t]

\* A used slot is one end of a pipe, and no other slot is that end.
SlotsDistinct ==
    /\ \A g \in used : file[g] # NoFile
    /\ \A g, h \in used : file[g] = file[h] => g = h

\* The inductive invariant.
FilesInv ==
    /\ TypeOK /\ CountExact /\ PipesOwned
    /\ IsFiniteSet(alive) /\ CallsOnPipes /\ SlotsDistinct
=============================================================================
