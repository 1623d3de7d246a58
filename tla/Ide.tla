-------------------------------- MODULE Ide ---------------------------------
(***************************************************************************)
(* The driver of device/ide.c on one channel with its two disks: threads   *)
(* in ide_read and ide_write, the interrupt handler, and the controller.   *)
(* A step of a thread is what it does between two points where the         *)
(* controller or the handler can act: the registers, the command, the      *)
(* semaphore, one look at the status, the transfer.                        *)
(*                                                                         *)
(* The controller is not part of the repository; it is modelled by what    *)
(* the driver counts on: it is busy from the command on, raises one        *)
(* interrupt per command, when the data of a read is there or that of a    *)
(* write is stored, and takes no command while it has one.                 *)
(***************************************************************************)
EXTENDS Integers, Sequences

CONSTANTS Threads,
          Disks,        \* dev_no of the disks of the channel
          NSectors,     \* sectors of a disk
          Values,       \* what a sector can hold
          UINT8,        \* values of the sector count register: sectors in one command
          TIME_LIMIT,   \* time_limit of busy_wait, which counts looks
          MaxCount,     \* bound: sectors in a request
          MaxRequests,  \* bound: requests in all
          NoThread

ASSUME IdeAssumption ==
    /\ {NSectors, UINT8, TIME_LIMIT, MaxCount, MaxRequests} \subseteq Nat \ {0}
    /\ NoThread \notin Threads
    /\ Disks \subseteq Nat /\ 0 \in Disks

VARIABLES
    pc, r,              \* where a thread is, and its request
    lock,               \* channel->lock: its holder or NoThread
    expecting_intr,     \* channel->expecting_intr
    disk_done,          \* channel->disk_done: the value of the semaphore
    regs,               \* the registers [hd, lba, cnt] of the channel
    ctl,                \* the controller: [st, op, hd, lba, cnt, done, buf]
    irq,                \* the interrupt line
    platter,            \* what is on the disks
    identify,           \* the disks that ide_init has still to identify
    requests,           \* how many requests there have been
    panic               \* PANIC was called

driver == <<pc, r, lock, expecting_intr, disk_done, regs>>
vars == <<pc, r, lock, expecting_intr, disk_done, regs, ctl, irq, platter, identify, requests, panic>>

NoRequest == [op |-> "none"]
Request(op, hd, lba, n, data) ==
    [op |-> op, hd |-> hd, lba |-> lba, n |-> n, data |-> data, done |-> 0, limit |-> 0]
Ready == [st |-> "ready", op |-> "none", hd |-> 0, lba |-> 0, cnt |-> 0, done |-> 0, buf |-> <<>>]

Init ==
    /\ pc = [t \in Threads |-> "idle"]
    /\ r = [t \in Threads |-> NoRequest]
    /\ lock = NoThread
    /\ expecting_intr = FALSE /\ disk_done = 0
    /\ regs = [hd |-> 0, lba |-> 0, cnt |-> 0]
    /\ ctl = Ready /\ irq = FALSE
    /\ \E v \in Values : platter = [hd \in Disks |-> [s \in 0..NSectors - 1 |-> v]]
    /\ identify = Disks
    /\ requests = 0 /\ panic = FALSE

Goto(t, label) == pc' = [pc EXCEPT ![t] = label]
Running == ~panic

-----------------------------------------------------------------------------
(* The threads *)

\* identify_disk: called by ide_init for disk 0 and then for disk 1, without
\* the lock, before there is anybody else to use the channel.
identify_disk(t, hd) ==
    /\ Running /\ hd \in identify /\ \A other \in identify : hd <= other
    /\ \A u \in Threads : pc[u] = "idle"
    /\ identify' = identify \ {hd}
    /\ r' = [r EXCEPT ![t] = Request("identify", hd, 0, 1, <<>>)]
    /\ regs' = [regs EXCEPT !.hd = hd]
    /\ Goto(t, "cmd")
    /\ UNCHANGED <<lock, expecting_intr, disk_done, ctl, irq, platter, requests, panic>>

\* ide_read and ide_write are called.
Call(t) ==
    /\ Running /\ pc[t] = "idle" /\ identify = {} /\ requests < MaxRequests
    /\ \A u \in Threads : r[u].op # "identify"
    /\ \E hd \in Disks, lba \in 0..NSectors - 1, n \in 1..MaxCount :
         /\ lba + n <= NSectors
         /\ \/ r' = [r EXCEPT ![t] = Request("read", hd, lba, n, <<>>)]
            \/ \E data \in [1..n -> Values] :
                 r' = [r EXCEPT ![t] = Request("write", hd, lba, n, data)]
    /\ requests' = requests + 1
    /\ Goto(t, "lock")
    /\ UNCHANGED <<lock, expecting_intr, disk_done, regs, ctl, irq, platter, identify, panic>>

select_disk(hd) == regs' = [regs EXCEPT !.hd = hd]

lock_acquire(t) ==
    /\ Running /\ pc[t] = "lock" /\ lock = NoThread
    /\ lock' = t
    /\ select_disk(r[t].hd)
    /\ Goto(t, "cmd")
    /\ UNCHANGED <<r, expecting_intr, disk_done, ctl, irq, platter, identify, requests, panic>>

\* How many sectors the next command moves: all that are left, or as many as
\* one command can.
secs_op(t) ==
    LET left == r[t].n - r[t].done IN IF left >= UINT8 THEN UINT8 ELSE left

\* A count of zero stands for UINT8 sectors, to the driver and to the controller.
Sectors(cnt) == IF cnt = 0 THEN UINT8 ELSE cnt

\* Mutants: every command starts at the first sector; the count is not cut to
\* the width of the register.
select_sector_first(t) ==
    IF r[t].op = "identify" THEN regs' = regs
    ELSE regs' = [hd |-> r[t].hd, lba |-> r[t].lba, cnt |-> secs_op(t) % UINT8]

select_sector_wide(t) ==
    IF r[t].op = "identify" THEN regs' = regs
    ELSE regs' = [hd |-> r[t].hd, lba |-> r[t].lba + r[t].done, cnt |-> secs_op(t)]

\* select_sector; identify_disk goes straight to the command.
select_sector(t) ==
    IF r[t].op = "identify" THEN regs' = regs
    ELSE regs' = [hd |-> r[t].hd, lba |-> r[t].lba + r[t].done, cnt |-> secs_op(t) % UINT8]

\* The controller gets a command; one it is not ready for is lost.
Command(op) ==
    ctl' = IF ctl.st # "ready" THEN ctl
           ELSE [st |-> "busy", op |-> op, hd |-> regs.hd, lba |-> regs.lba,
                 cnt |-> IF op = "identify" THEN 1 ELSE Sectors(regs.cnt), done |-> 0, buf |-> <<>>]

\* Mutant: the flag is not set before the command.
expect_late(t) ==
    /\ select_sector(t)
    /\ UNCHANGED expecting_intr

expect(t) ==
    /\ select_sector(t)
    /\ expecting_intr' = TRUE

\* cmd_out: first the flag, then the register.
Expect(t) ==
    /\ Running /\ pc[t] = "cmd"
    /\ expect(t)
    /\ Goto(t, "out")
    /\ UNCHANGED <<r, lock, disk_done, ctl, irq, platter, identify, requests, panic>>

\* Mutant: a read looks at the status at once, too, and leaves the interrupt to
\* whoever comes next.
cmd_out_polls(t) ==
    /\ Running /\ pc[t] = "out"
    /\ Command(r[t].op)
    /\ r' = [r EXCEPT ![t].limit = TIME_LIMIT]
    /\ Goto(t, "poll")
    /\ UNCHANGED <<lock, expecting_intr, disk_done, regs, irq, platter, identify, requests, panic>>

\* A write starts to look at the status at once, a read when it is woken up.
cmd_out(t) ==
    /\ Running /\ pc[t] = "out"
    /\ Command(r[t].op)
    /\ r' = [r EXCEPT ![t].limit = TIME_LIMIT]
    /\ Goto(t, IF r[t].op = "write" THEN "poll" ELSE "wait")
    /\ UNCHANGED <<lock, expecting_intr, disk_done, regs, irq, platter, identify, requests, panic>>

Next_command(t) ==
    CASE r[t].op = "identify" -> "identified"
      [] r[t].op # "identify" /\ r[t].done + secs_op(t) < r[t].n -> "cmd"
      [] OTHER -> "unlock"

\* sema_down(&channel->disk_done)
sema_down(t) ==
    /\ Running /\ pc[t] = "wait" /\ disk_done > 0
    /\ disk_done' = disk_done - 1
    /\ IF r[t].op = "write"
         THEN /\ r' = [r EXCEPT ![t].done = @ + secs_op(t)]
              /\ Goto(t, Next_command(t))
         ELSE Goto(t, "poll") /\ r' = r
    /\ UNCHANGED <<lock, expecting_intr, regs, ctl, irq, platter, identify, requests, panic>>

BSY == ctl.st = "busy"
DRQ == ctl.st = "drq"

\* One round of busy_wait.  The limit goes down by one, not by ten, in each.
busy_wait(t) ==
    /\ Running /\ pc[t] = "poll"
    /\ r' = [r EXCEPT ![t].limit = @ - 1]
    /\ IF r[t].limit - 1 = 0 \/ (~BSY /\ ~DRQ)
         THEN panic' = TRUE /\ pc' = pc
         ELSE panic' = FALSE /\ Goto(t, IF BSY THEN "poll" ELSE "xfer")
    /\ UNCHANGED <<lock, expecting_intr, disk_done, regs, ctl, irq, platter, identify, requests>>

\* read_from_sector: the controller is ready again when its buffer is empty.
read_from_sector(t) ==
    /\ Running /\ pc[t] = "xfer" /\ r[t].op # "write"
    /\ r' = [r EXCEPT ![t].data = @ \o SubSeq(ctl.buf, 1, Sectors(secs_op(t) % UINT8)),
                      ![t].done = @ + secs_op(t)]
    /\ ctl' = Ready
    /\ Goto(t, Next_command(t))
    /\ UNCHANGED <<lock, expecting_intr, disk_done, regs, irq, platter, identify, requests, panic>>

\* write2sector: then the controller is busy storing.
write2sector(t) ==
    /\ Running /\ pc[t] = "xfer" /\ r[t].op = "write"
    /\ ctl' = [ctl EXCEPT !.st = "busy", !.buf = SubSeq(r[t].data, r[t].done + 1,
                                          r[t].done + Sectors(secs_op(t) % UINT8))]
    /\ Goto(t, "wait")
    /\ UNCHANGED <<r, lock, expecting_intr, disk_done, regs, irq, platter, identify, requests, panic>>

\* lock_release and the return to the caller; identify_disk has no lock.
lock_release(t) ==
    /\ Running /\ pc[t] \in {"unlock", "identified"}
    /\ lock' = IF pc[t] = "unlock" THEN NoThread ELSE lock
    /\ r' = [r EXCEPT ![t] = NoRequest]
    /\ Goto(t, "idle")
    /\ UNCHANGED <<expecting_intr, disk_done, regs, ctl, irq, platter, identify, requests, panic>>

-----------------------------------------------------------------------------
(* The interrupt handler and the controller *)

handle == expecting_intr' = FALSE /\ disk_done' = disk_done + 1

intr_hd_handler ==
    /\ Running /\ irq
    /\ irq' = FALSE
    /\ IF expecting_intr THEN handle ELSE UNCHANGED <<expecting_intr, disk_done>>
    /\ UNCHANGED <<pc, r, lock, regs, ctl, platter, identify, requests, panic>>

\* The sectors are in the buffer of the controller.
DataReady ==
    /\ ctl.st = "busy" /\ ctl.op \in {"read", "identify"}
    /\ ctl' = [ctl EXCEPT !.st = "drq",
                 !.buf = [i \in 1..ctl.cnt |-> platter[ctl.hd][ctl.lba + i - 1]]]
    /\ irq' = TRUE
    /\ UNCHANGED <<driver, platter, identify, requests, panic>>

\* Ready to take the data of a write; there is no interrupt for this.
ReadyForData ==
    /\ ctl.st = "busy" /\ ctl.op = "write" /\ ctl.buf = <<>>
    /\ ctl' = [ctl EXCEPT !.st = "drq"]
    /\ UNCHANGED <<driver, irq, platter, identify, requests, panic>>

\* One more sector is stored; after the last the interrupt.
Store ==
    /\ ctl.st = "busy" /\ ctl.op = "write" /\ ctl.buf # <<>>
    /\ platter' = [platter EXCEPT ![ctl.hd][ctl.lba + ctl.done] = ctl.buf[ctl.done + 1]]
    /\ LET last == ctl.done + 1 = ctl.cnt
       IN /\ ctl' = [ctl EXCEPT !.done = @ + 1, !.st = IF last THEN "ready" ELSE "busy"]
          /\ irq' = (irq \/ last)
    /\ UNCHANGED <<driver, identify, requests, panic>>

Step(t) ==
    \/ lock_acquire(t) \/ Expect(t) \/ cmd_out(t) \/ sema_down(t) \/ busy_wait(t)
    \/ read_from_sector(t) \/ write2sector(t) \/ lock_release(t)

Controller == DataReady \/ ReadyForData \/ Store

Next ==
    \/ \E t \in Threads : Call(t) \/ Step(t) \/ \E hd \in Disks : identify_disk(t, hd)
    \/ intr_hd_handler
    \/ Controller

\* The scheduler runs every thread, the controller ends what it began and an
\* interrupt is taken.  Nobody has to call, and who waits for the lock may wait.
Fairness ==
    /\ \A t \in Threads : WF_vars(Step(t))
    /\ WF_vars(intr_hd_handler)
    /\ WF_vars(Controller)

Spec == Init /\ [][Next]_vars /\ Fairness

-----------------------------------------------------------------------------
(* Properties *)

TypeOK ==
    /\ pc \in [Threads -> {"idle", "lock", "cmd", "out", "wait", "poll", "xfer", "unlock",
                           "identified"}]
    /\ lock \in Threads \cup {NoThread}
    /\ disk_done \in 0..1
    /\ {expecting_intr, irq, panic} \subseteq BOOLEAN
    /\ regs \in [hd : Disks, lba : 0..NSectors - 1, cnt : 0..UINT8 - 1]
    /\ platter \in [Disks -> [0..NSectors - 1 -> Values]]

\* The sectors of a write count when they are on the disk, those of a read when
\* they are in the caller's buffer.
AbstractRequest(t) ==
    IF r[t].op \in {"none", "identify"} THEN NoRequest
    ELSE [op |-> r[t].op, hd |-> r[t].hd, lba |-> r[t].lba, n |-> r[t].n, data |-> r[t].data,
          done |-> r[t].done + IF r[t].op = "write" /\ pc[t] = "wait" THEN ctl.done ELSE 0]

D == INSTANCE Disk WITH req <- [t \in Threads |-> AbstractRequest(t)]

\* ide_read and ide_write move exactly the sectors they were asked to, on the
\* disk they were asked to, one request after the other, and return when that
\* is done and not before.
ImplementsDisk == D!Spec

\* "No need to worry whether the interrupt belongs to this expecting_intr"
\* (intr_hd_handler): an interrupt, expected or already counted in disk_done, is
\* always that of the command of the thread that is in the middle of one.
InterruptIsMine ==
    LET InCommand(t) == pc[t] \in {"out", "poll", "xfer", "wait"}
        Woken(t) == pc[t] \in {"poll", "xfer"} /\ r[t].op # "write"
    IN /\ irq \/ disk_done > 0 => \E t \in Threads : InCommand(t) /\ ~Woken(t)
       /\ irq => expecting_intr
       /\ ~panic /\ expecting_intr /\ ctl.st = "ready" /\ ~irq =>
            \E t \in Threads : pc[t] = "out"

\* The driver panics only because the controller stayed busy for the whole
\* limit of busy_wait, never because it found it idle: a status looked at before
\* the command or after somebody else's would say neither busy nor data.
OnlyTimeoutPanics ==
    panic => \E t \in Threads : pc[t] = "poll" /\ r[t].limit = 0

\* A thread that has begun with the channel comes to the end of its request,
\* unless the kernel stops: the interrupt may come before it sleeps, and the
\* controller may be slow.
RequestEnds == \A t \in Threads : pc[t] \notin {"idle", "lock"} ~> pc[t] = "idle" \/ panic

-----------------------------------------------------------------------------
(* What the proof of these properties needs: the state of the channel at each  *)
(* point of a request                                                          *)

Requests == [op : {"read", "write", "identify"}, hd : Disks, lba : 0..NSectors - 1,
             n : Nat \ {0}, data : Seq(Values), done : Nat, limit : Int]

ControllerStates == [st : {"ready", "busy", "drq"}, op : {"none", "read", "write", "identify"},
                     hd : Disks, lba : 0..NSectors - 1, cnt : Nat, done : Nat, buf : Seq(Values)]

\* The request of a thread, and how far it has come.
RequestOK(t) ==
    /\ pc[t] = "idle" <=> r[t] = NoRequest
    /\ pc[t] # "idle" =>
         /\ r[t].lba + r[t].n <= NSectors
         /\ r[t].op = "write" => Len(r[t].data) = r[t].n
         /\ r[t].op = "identify" => r[t].n = 1 /\ pc[t] \notin {"lock", "unlock"}
         /\ r[t].op # "identify" => pc[t] # "identified"
         /\ pc[t] = "lock" => r[t].done = 0
         /\ IF pc[t] \in {"unlock", "identified"} THEN r[t].done = r[t].n
                                                  ELSE r[t].done < r[t].n

RequestsOK ==
    /\ r \in [Threads -> Requests \cup {NoRequest}]
    /\ \A t \in Threads : RequestOK(t)

Active(t) == pc[t] \notin {"idle", "lock"}

\* One thread at a time uses the channel: it has the lock, or nobody else is
\* there yet.
OneInChannel ==
    /\ \A t, u \in Threads : Active(t) /\ Active(u) => t = u
    /\ \A t \in Threads : Active(t) /\ r[t].op # "identify" => lock = t
    /\ \A t, u \in Threads : r[t].op = "identify" /\ u # t => pc[u] = "idle"

\* No interrupt is due; one is due; one was raised and is not yet used up.
Calm == ~expecting_intr /\ ~irq /\ disk_done = 0
Pending == expecting_intr /\ ~irq /\ disk_done = 0
Signalled == \/ expecting_intr /\ irq /\ disk_done = 0
             \/ ~expecting_intr /\ ~irq /\ disk_done = 1

\* The controller is at the command of the thread t.
MyCommand(t) ==
    /\ ctl.op = r[t].op /\ ctl.cnt = secs_op(t)
    /\ r[t].op # "identify" => ctl.hd = r[t].hd /\ ctl.lba = r[t].lba + r[t].done

\* A write: no data yet, or the data of the request and some of it stored.
Writing(t) ==
    IF pc[t] = "wait"
      THEN /\ Len(ctl.buf) = ctl.cnt
           /\ \A i \in 1..ctl.cnt : ctl.buf[i] = r[t].data[r[t].done + i]
           /\ \/ ctl.st = "busy" /\ Pending /\ ctl.done < ctl.cnt
              \/ ctl.st = "ready" /\ Signalled /\ ctl.done = ctl.cnt
      ELSE /\ Pending /\ ctl.buf = <<>> /\ ctl.done = 0
           /\ ctl.st # "ready" /\ (pc[t] = "xfer" => ctl.st = "drq")

\* A read: no data yet, or what is on the disk.
Reading(t) ==
    \/ pc[t] = "wait" /\ ctl.st = "busy" /\ Pending
    \/ /\ ctl.st = "drq" /\ Len(ctl.buf) = ctl.cnt
       /\ \A i \in 1..ctl.cnt : ctl.buf[i] = platter[ctl.hd][ctl.lba + i - 1]
       /\ IF pc[t] = "wait" THEN Signalled ELSE Calm

Selected(t) ==
    regs = [hd |-> r[t].hd, lba |-> r[t].lba + r[t].done, cnt |-> secs_op(t) % UINT8]

\* The channel where the thread t is in its request.
ChannelAt(t) ==
    /\ pc[t] \in {"cmd", "unlock", "identified"} => Calm /\ ctl.st = "ready"
    /\ pc[t] = "out" => /\ Pending /\ ctl.st = "ready"
                        /\ r[t].op # "identify" => Selected(t)
    /\ pc[t] \in {"wait", "poll", "xfer"} =>
         MyCommand(t) /\ IF r[t].op = "write" THEN Writing(t) ELSE Reading(t)

ChannelOK ==
    /\ ctl \in ControllerStates
    /\ (\A t \in Threads : ~Active(t)) => Calm /\ ctl.st = "ready"
    /\ \A t \in Threads : ChannelAt(t)

\* The inductive invariant.
IdeInv == TypeOK /\ RequestsOK /\ OneInChannel /\ ChannelOK /\ OnlyTimeoutPanics
=============================================================================
