----------------------------- MODULE IdeProofs ------------------------------
(***************************************************************************)
(* The disk driver for any number of threads, sectors and requests: IdeInv *)
(* is inductive, and under it every step of the driver is a step of Disk   *)
(* or leaves the abstract disks as they are.                               *)
(***************************************************************************)
EXTENDS Ide, TLAPS

USE IdeAssumption

-----------------------------------------------------------------------------
(* Facts about the operators *)

\* The width of the count register does not change what a command moves: UINT8
\* sectors become a count of zero, which stands for UINT8.
LEMMA CountFits ==
  ASSUME NEW k \in 1..UINT8
  PROVE  k % UINT8 \in 0..UINT8 - 1 /\ Sectors(k % UINT8) = k
<1>0. UINT8 \in Nat \ {0}
  OBVIOUS
<1>1. k < UINT8 => k % UINT8 = k
  BY <1>0
<1>2. UINT8 % UINT8 = 0
  BY <1>0
<1> QED BY <1>0, <1>1, <1>2 DEF Sectors

\* A command moves at least one sector, and no more than are left.
LEMMA SecsFacts ==
  ASSUME NEW t \in Threads, r[t] \in Requests, r[t].done < r[t].n
  PROVE  /\ secs_op(t) \in 1..UINT8 /\ r[t].done + secs_op(t) <= r[t].n
         /\ r[t].done + secs_op(t) < r[t].n => r[t].op = "identify" \/ Next_command(t) = "cmd"
         /\ r[t].done + secs_op(t) = r[t].n => r[t].op = "identify" \/ Next_command(t) = "unlock"
         /\ r[t].op = "identify" => Next_command(t) = "identified"
<1>1. r[t].done \in Nat /\ r[t].n \in Nat \ {0} /\ UINT8 \in Nat \ {0}
  BY DEF Requests
<1>2. secs_op(t) \in 1..UINT8 /\ r[t].done + secs_op(t) <= r[t].n
  BY <1>1 DEF secs_op
<1> QED BY <1>1, <1>2 DEF Next_command

\* A thread that is in a request has one.
LEMMA InRequest ==
  ASSUME IdeInv, NEW t \in Threads, pc[t] # "idle"
  PROVE  r[t] \in Requests /\ RequestOK(t) /\ ChannelAt(t)
<1>1. r[t] \in Requests \cup {NoRequest} /\ RequestOK(t) /\ ChannelAt(t)
  BY DEF IdeInv, RequestsOK, ChannelOK
<1> QED BY <1>1 DEF RequestOK

Labels == {"idle", "lock", "cmd", "out", "wait", "poll", "xfer", "unlock", "identified"}

\* A step of the thread that uses the channel: nothing has to be looked at but its
\* own request and the channel.
LEMMA OwnerStep ==
  ASSUME IdeInv, NEW t \in Threads, Active(t),
         pc' \in [Threads -> Labels], r' \in [Threads -> Requests \cup {NoRequest}],
         \A u \in Threads : u # t => pc'[u] = pc[u] /\ r'[u] = r[u],
         \/ pc'[t] = "idle" /\ Calm' /\ ctl'.st = "ready" /\ r'[t] = NoRequest
         \/ Active(t)' /\ lock' = lock /\ r'[t].op = r[t].op,
         TypeOK', ctl' \in ControllerStates, RequestOK(t)', ChannelAt(t)', OnlyTimeoutPanics'
  PROVE  IdeInv'
<1>1. ASSUME NEW u \in Threads, u # t
      PROVE  pc'[u] \in {"idle", "lock"} /\ RequestOK(u)' /\ ChannelAt(u)' /\ ~Active(u)'
  <2>1. pc[u] \in {"idle", "lock"}
    BY <1>1 DEF IdeInv, OneInChannel, Active
  <2>2. pc'[u] = pc[u] /\ r'[u] = r[u]
    BY <1>1
  <2>3. RequestOK(u)'
    BY <2>2 DEF IdeInv, RequestsOK, RequestOK
  <2> QED BY <2>1, <2>2, <2>3 DEF ChannelAt, Active
<1>2. RequestsOK'
  BY <1>1 DEF RequestsOK
<1>3. OneInChannel'
  <2>1. \A u, v \in Threads : Active(u)' /\ Active(v)' => u = v
    BY <1>1
  <2>2. ASSUME NEW u \in Threads, Active(u)', r'[u].op # "identify" PROVE lock' = u
    <3>1. u = t /\ pc'[t] # "idle"
      BY <1>1, <2>2 DEF Active
    <3> QED BY <2>2, <3>1 DEF IdeInv, OneInChannel
  <2>3. ASSUME NEW u \in Threads, NEW v \in Threads, r'[u].op = "identify", v # u
        PROVE  pc'[v] = "idle"
    <3>1. r[u].op = "identify" /\ r'[u] # NoRequest
      BY <2>3 DEF NoRequest
    <3>2. pc[v] = "idle"
      BY <2>3, <3>1 DEF IdeInv, OneInChannel
    <3>3. v # t
      BY <3>2 DEF Active
    <3> QED BY <3>2, <3>3
  <2> QED BY <2>1, <2>2, <2>3 DEF OneInChannel
<1>4. ChannelOK'
  <2>1. (\A u \in Threads : ~Active(u)') => Calm' /\ ctl'.st = "ready"
    OBVIOUS
  <2>2. \A u \in Threads : ChannelAt(u)'
    BY <1>1
  <2> QED BY <2>1, <2>2 DEF ChannelOK
<1> QED BY <1>2, <1>3, <1>4 DEF IdeInv

-----------------------------------------------------------------------------
(* The steps of the thread that uses the channel *)

\* The command registers are set and the interrupt is expected.
LEMMA ExpectStep ==
  ASSUME IdeInv, NEW t \in Threads, Expect(t)
  PROVE  IdeInv'
<1>1. /\ pc[t] = "cmd" /\ ~panic /\ pc' = [pc EXCEPT ![t] = "out"]
      /\ UNCHANGED <<r, lock, disk_done, ctl, irq, platter, identify, requests, panic>>
      /\ expecting_intr' = TRUE /\ select_sector(t)
  BY DEF Expect, expect, Goto, Running
<1>2. TypeOK /\ r \in [Threads -> Requests \cup {NoRequest}] /\ ctl \in ControllerStates
  BY DEF IdeInv, RequestsOK, ChannelOK
<1>3. r[t] \in Requests /\ RequestOK(t) /\ Calm /\ ctl.st = "ready"
  BY <1>1, InRequest DEF ChannelAt
<1>4. /\ r[t].done < r[t].n /\ r[t].lba + r[t].n <= NSectors
      /\ r[t].hd \in Disks /\ r[t].lba \in Nat /\ r[t].n \in Nat /\ r[t].done \in Nat
  BY <1>1, <1>3 DEF RequestOK, Requests
<1>5. secs_op(t) % UINT8 \in 0..UINT8 - 1
  <2>1. secs_op(t) \in 1..UINT8
    BY <1>3, <1>4, SecsFacts
  <2> QED BY <2>1, CountFits
<1>6. /\ regs' \in [hd : Disks, lba : 0..NSectors - 1, cnt : 0..UINT8 - 1]
      /\ r[t].op # "identify" => Selected(t)'
  <2>1. CASE r[t].op = "identify"
    BY <1>1, <1>2, <2>1 DEF select_sector, TypeOK
  <2>2. CASE r[t].op # "identify"
    <3>1. regs' = [hd |-> r[t].hd, lba |-> r[t].lba + r[t].done, cnt |-> secs_op(t) % UINT8]
      BY <1>1, <2>2 DEF select_sector
    <3>2. r[t].lba + r[t].done \in 0..NSectors - 1
      BY <1>4
    <3>3. Selected(t)'
      BY <1>1, <3>1 DEF Selected, secs_op
    <3> QED BY <1>4, <1>5, <3>1, <3>2, <3>3
  <2> QED BY <2>1, <2>2
<1>7. /\ pc' \in [Threads -> Labels] /\ pc'[t] = "out"
      /\ \A u \in Threads : u # t => pc'[u] = pc[u]
  BY <1>1, <1>2 DEF TypeOK, Labels
<1>8. TypeOK'
  BY <1>1, <1>2, <1>6, <1>7 DEF TypeOK, Labels
<1>9. RequestOK(t)'
  BY <1>1, <1>3, <1>7 DEF RequestOK, NoRequest, Requests
<1>10. ChannelAt(t)'
  BY <1>1, <1>3, <1>6, <1>7 DEF ChannelAt, Calm, Pending
<1>11. OnlyTimeoutPanics'
  BY <1>1 DEF OnlyTimeoutPanics
<1>12. Active(t) /\ Active(t)' /\ lock' = lock /\ r'[t].op = r[t].op
  BY <1>1, <1>7 DEF Active
<1> QED BY <1>1, <1>2, <1>7, <1>8, <1>9, <1>10, <1>11, <1>12, OwnerStep

\* The controller is ready and gets the command that the registers describe.
LEMMA CommandStep ==
  ASSUME IdeInv, NEW t \in Threads, cmd_out(t)
  PROVE  IdeInv'
<1> DEFINE label == IF r[t].op = "write" THEN "poll" ELSE "wait"
<1>1. /\ pc[t] = "out" /\ ~panic /\ pc' = [pc EXCEPT ![t] = label]
      /\ UNCHANGED <<lock, expecting_intr, disk_done, regs, irq, platter, identify, requests, panic>>
      /\ Command(r[t].op) /\ r' = [r EXCEPT ![t].limit = TIME_LIMIT]
  BY DEF cmd_out, Goto, Running
<1>2. TypeOK /\ r \in [Threads -> Requests \cup {NoRequest}] /\ ctl \in ControllerStates
  BY DEF IdeInv, RequestsOK, ChannelOK
<1>3. /\ r[t] \in Requests /\ RequestOK(t) /\ Pending /\ ctl.st = "ready"
      /\ r[t].op # "identify" => Selected(t)
  BY <1>1, InRequest DEF ChannelAt
<1>4. r[t].done < r[t].n
  BY <1>1, <1>3 DEF RequestOK
<1>5. secs_op(t) \in 1..UINT8 /\ Sectors(secs_op(t) % UINT8) = secs_op(t)
  <2>1. secs_op(t) \in 1..UINT8
    BY <1>3, <1>4, SecsFacts
  <2> QED BY <2>1, CountFits
<1>6. /\ r' \in [Threads -> Requests \cup {NoRequest}] /\ r'[t] \in Requests
      /\ r'[t] = [r[t] EXCEPT !.limit = TIME_LIMIT]
      /\ \A u \in Threads : u # t => r'[u] = r[u]
  <2>1. TIME_LIMIT \in Int
    OBVIOUS
  <2>2. [r[t] EXCEPT !.limit = TIME_LIMIT] \in Requests
    BY <1>3, <2>1 DEF Requests
  <2> QED BY <1>1, <1>2, <2>2
<1>7. /\ r'[t].op = r[t].op /\ r'[t].hd = r[t].hd /\ r'[t].lba = r[t].lba /\ r'[t].n = r[t].n
      /\ r'[t].data = r[t].data /\ r'[t].done = r[t].done /\ secs_op(t)' = secs_op(t)
  BY <1>3, <1>6 DEF Requests, secs_op
<1>8. /\ pc' \in [Threads -> Labels] /\ pc'[t] = label /\ label \in {"poll", "wait"}
      /\ \A u \in Threads : u # t => pc'[u] = pc[u]
  BY <1>1, <1>2 DEF TypeOK, Labels
<1>9. /\ ctl' = [st |-> "busy", op |-> r[t].op, hd |-> regs.hd, lba |-> regs.lba,
                 cnt |-> secs_op(t), done |-> 0, buf |-> <<>>]
      /\ r[t].op # "identify" => regs.hd = r[t].hd /\ regs.lba = r[t].lba + r[t].done
  <2>1. CASE r[t].op = "identify"
    <3>1. secs_op(t) = 1
      BY <1>1, <1>3, <1>4, <2>1, SMTT(20) DEF RequestOK, Requests, secs_op
    <3> QED BY <1>1, <1>3, <2>1, <3>1 DEF Command
  <2>2. CASE r[t].op # "identify"
    BY <1>1, <1>3, <1>5, <2>2 DEF Command, Selected
  <2> QED BY <2>1, <2>2
<1>10. ctl' \in ControllerStates
  <2>1. secs_op(t) \in Nat /\ <<>> \in Seq(Values)
    BY <1>5
  <2>2. r[t].op \in {"none", "read", "write", "identify"}
    BY <1>3 DEF Requests
  <2>3. regs.hd \in Disks /\ regs.lba \in 0..NSectors - 1
    BY <1>2 DEF TypeOK
  <2> QED BY <1>9, <2>1, <2>2, <2>3 DEF ControllerStates
<1>11. TypeOK'
  BY <1>1, <1>2, <1>8 DEF TypeOK, Labels
<1>12. RequestOK(t)'
  <2>1. r'[t] # NoRequest
    BY <1>6 DEF NoRequest, Requests
  <2> QED BY <1>1, <1>3, <1>7, <1>8, <2>1 DEF RequestOK
<1>13. ChannelAt(t)'
  <2>1. MyCommand(t)'
    BY <1>7, <1>9 DEF MyCommand
  <2>2. Pending'
    BY <1>1, <1>3 DEF Pending
  <2>3. r[t].op = "write" => Writing(t)'
    BY <1>8, <1>9, <2>2 DEF Writing
  <2>4. r[t].op # "write" => Reading(t)'
    BY <1>8, <1>9, <2>2 DEF Reading
  <2> QED BY <1>7, <1>8, <2>1, <2>3, <2>4 DEF ChannelAt
<1>14. OnlyTimeoutPanics'
  BY <1>1 DEF OnlyTimeoutPanics
<1>15. Active(t) /\ Active(t)' /\ lock' = lock /\ r'[t].op = r[t].op
  BY <1>1, <1>7, <1>8 DEF Active
<1> QED BY <1>6, <1>8, <1>10, <1>11, <1>12, <1>13, <1>14, <1>15, OwnerStep

\* The semaphore is up because the command of this thread is done: a write has
\* stored its sectors and goes on, a read finds its data.
LEMMA SemaStep ==
  ASSUME IdeInv, NEW t \in Threads, sema_down(t)
  PROVE  IdeInv'
<1>1. /\ pc[t] = "wait" /\ ~panic /\ disk_done > 0 /\ disk_done' = disk_done - 1
      /\ UNCHANGED <<lock, expecting_intr, regs, ctl, irq, platter, identify, requests, panic>>
  BY DEF sema_down, Running
<1>2. TypeOK /\ r \in [Threads -> Requests \cup {NoRequest}] /\ ctl \in ControllerStates
  BY DEF IdeInv, RequestsOK, ChannelOK
<1>3. /\ r[t] \in Requests /\ RequestOK(t) /\ MyCommand(t)
      /\ IF r[t].op = "write" THEN Writing(t) ELSE Reading(t)
  BY <1>1, InRequest DEF ChannelAt
<1>4. /\ r[t].done < r[t].n /\ r[t].n \in Nat /\ r[t].done \in Nat
  BY <1>1, <1>3 DEF RequestOK, Requests
<1>5. disk_done = 1 /\ ~irq /\ ~expecting_intr /\ Calm'
  BY <1>1, <1>3 DEF Writing, Reading, Pending, Signalled, Calm
<1>6. Active(t) /\ lock' = lock /\ OnlyTimeoutPanics'
  BY <1>1 DEF Active, OnlyTimeoutPanics
<1>7. CASE r[t].op = "write"
  <2> DEFINE label == Next_command(t)
             k == secs_op(t)
  <2>1. /\ r' = [r EXCEPT ![t].done = @ + k]
        /\ pc' = [pc EXCEPT ![t] = label]
    BY <1>7 DEF sema_down, Goto
  <2>2. /\ k \in 1..UINT8 /\ r[t].done + k <= r[t].n
        /\ label = IF r[t].done + k < r[t].n THEN "cmd" ELSE "unlock"
    BY <1>3, <1>4, <1>7, SecsFacts
  <2>3. ctl.st = "ready"
    BY <1>1, <1>3, <1>5, <1>7 DEF Writing, Pending
  <2> HIDE DEF label, k
  <2>4. r[t].done + k \in Nat
    BY <1>4, <2>2
  <2>5. /\ r' \in [Threads -> Requests \cup {NoRequest}] /\ r'[t] \in Requests
        /\ r'[t] = [r[t] EXCEPT !.done = @ + k]
        /\ \A u \in Threads : u # t => r'[u] = r[u]
    <3>1. [r[t] EXCEPT !.done = @ + k] \in Requests
      BY <1>3, <2>4 DEF Requests
    <3> QED BY <1>2, <2>1, <3>1
  <2>6. /\ r'[t].op = r[t].op /\ r'[t].lba = r[t].lba /\ r'[t].n = r[t].n
        /\ r'[t].data = r[t].data /\ r'[t].done = r[t].done + k /\ r'[t] # NoRequest
    BY <1>3, <2>5 DEF Requests, NoRequest
  <2>7. /\ pc' \in [Threads -> Labels] /\ pc'[t] = label /\ label \in {"cmd", "unlock"}
        /\ \A u \in Threads : u # t => pc'[u] = pc[u]
    BY <1>2, <2>1, <2>2 DEF TypeOK, Labels
  <2>8. TypeOK'
    BY <1>1, <1>2, <1>5, <2>7 DEF TypeOK, Labels
  <2>9. RequestOK(t)'
    <3>1. IF label = "unlock" THEN r'[t].done = r'[t].n ELSE r'[t].done < r'[t].n
      BY <1>4, <2>2, <2>6
    <3> QED BY <1>1, <1>3, <1>7, <2>6, <2>7, <3>1 DEF RequestOK
  <2>10. ChannelAt(t)'
    BY <1>1, <1>5, <2>3, <2>7 DEF ChannelAt
  <2>11. Active(t)' /\ r'[t].op = r[t].op /\ ctl' \in ControllerStates
    BY <1>1, <1>2, <2>6, <2>7 DEF Active
  <2> QED BY <1>6, <2>5, <2>7, <2>8, <2>9, <2>10, <2>11, OwnerStep
<1>8. CASE r[t].op # "write"
  <2>1. r' = r /\ pc' = [pc EXCEPT ![t] = "poll"]
    BY <1>8 DEF sema_down, Goto
  <2>2. /\ pc' \in [Threads -> Labels] /\ pc'[t] = "poll"
        /\ \A u \in Threads : u # t => pc'[u] = pc[u]
    BY <1>2, <2>1 DEF TypeOK, Labels
  <2>3. TypeOK'
    BY <1>1, <1>2, <1>5, <2>2 DEF TypeOK, Labels
  <2>4. RequestOK(t)'
    BY <1>1, <1>3, <2>1, <2>2 DEF RequestOK
  <2>5. ChannelAt(t)'
    <3>1. MyCommand(t)'
      BY <1>1, <1>3, <2>1 DEF MyCommand, secs_op
    <3>2. Reading(t)'
      <4>1. /\ ctl.st = "drq" /\ Len(ctl.buf) = ctl.cnt
            /\ \A i \in 1..ctl.cnt : ctl.buf[i] = platter[ctl.hd][ctl.lba + i - 1]
        BY <1>3, <1>5, <1>8 DEF Reading, Pending
      <4> QED BY <1>1, <1>5, <2>2, <4>1 DEF Reading
    <3> QED BY <1>8, <2>1, <2>2, <3>1, <3>2 DEF ChannelAt
  <2>6. Active(t)' /\ r'[t].op = r[t].op /\ ctl' \in ControllerStates
    BY <1>1, <1>2, <2>1, <2>2 DEF Active
  <2> QED BY <1>2, <1>6, <2>1, <2>2, <2>3, <2>4, <2>5, <2>6, OwnerStep
<1> QED BY <1>7, <1>8

\* The controller has the command of this thread, so it is busy or has or wants
\* data: only the limit can stop the kernel here.
LEMMA BusyWaitStep ==
  ASSUME IdeInv, NEW t \in Threads, busy_wait(t)
  PROVE  IdeInv'
<1>1. /\ pc[t] = "poll" /\ ~panic /\ r' = [r EXCEPT ![t].limit = @ - 1]
      /\ UNCHANGED <<lock, expecting_intr, disk_done, regs, ctl, irq, platter, identify, requests>>
  BY DEF busy_wait, Running
<1>2. TypeOK /\ r \in [Threads -> Requests \cup {NoRequest}] /\ ctl \in ControllerStates
  BY DEF IdeInv, RequestsOK, ChannelOK
<1>3. /\ r[t] \in Requests /\ RequestOK(t) /\ MyCommand(t)
      /\ IF r[t].op = "write" THEN Writing(t) ELSE Reading(t)
  BY <1>1, InRequest DEF ChannelAt
<1>4. ctl.st \in {"busy", "drq"} /\ (r[t].op # "write" => ctl.st = "drq")
  BY <1>1, <1>2, <1>3 DEF Writing, Reading, ControllerStates
<1>5. /\ r' \in [Threads -> Requests \cup {NoRequest}] /\ r'[t] \in Requests
      /\ r'[t] = [r[t] EXCEPT !.limit = r[t].limit - 1]
      /\ \A u \in Threads : u # t => r'[u] = r[u]
  <2>1. r[t].limit - 1 \in Int
    BY <1>3 DEF Requests
  <2>2. [r[t] EXCEPT !.limit = r[t].limit - 1] \in Requests
    BY <1>3, <2>1 DEF Requests
  <2> QED BY <1>1, <1>2, <2>2
<1>6. /\ r'[t].op = r[t].op /\ r'[t].hd = r[t].hd /\ r'[t].lba = r[t].lba /\ r'[t].n = r[t].n
      /\ r'[t].data = r[t].data /\ r'[t].done = r[t].done /\ secs_op(t)' = secs_op(t)
      /\ r'[t].limit = r[t].limit - 1 /\ r'[t] # NoRequest
  BY <1>3, <1>5 DEF Requests, secs_op, NoRequest
<1>7. \/ panic' = TRUE /\ pc' = pc /\ r[t].limit - 1 = 0
      \/ panic' = FALSE /\ pc' = [pc EXCEPT ![t] = IF ctl.st = "busy" THEN "poll" ELSE "xfer"]
  BY <1>4 DEF busy_wait, BSY, DRQ, Goto
<1>8. /\ pc' \in [Threads -> Labels] /\ pc'[t] \in {"poll", "xfer"}
      /\ pc'[t] = "xfer" => ctl.st = "drq"
      /\ panic' \in BOOLEAN /\ (panic' => pc'[t] = "poll" /\ r[t].limit - 1 = 0)
      /\ \A u \in Threads : u # t => pc'[u] = pc[u]
  <2>1. CASE panic' = TRUE /\ pc' = pc /\ r[t].limit - 1 = 0
    BY <1>1, <1>2, <2>1 DEF TypeOK, Labels
  <2>2. CASE panic' = FALSE /\ pc' = [pc EXCEPT ![t] = IF ctl.st = "busy" THEN "poll" ELSE "xfer"]
    BY <1>2, <1>4, <2>2 DEF TypeOK, Labels
  <2> QED BY <1>7, <2>1, <2>2
<1>9. TypeOK'
  BY <1>1, <1>2, <1>8 DEF TypeOK, Labels
<1>10. RequestOK(t)'
  BY <1>1, <1>3, <1>6, <1>8 DEF RequestOK
<1>11. ChannelAt(t)'
  <2>1. MyCommand(t)'
    BY <1>1, <1>3, <1>6 DEF MyCommand
  <2>2. r[t].op = "write" => Writing(t)'
    BY <1>1, <1>3, <1>6, <1>8 DEF Writing, Pending
  <2>3. ASSUME r[t].op # "write" PROVE Reading(t)'
    <3>1. /\ ctl.st = "drq" /\ Len(ctl.buf) = ctl.cnt /\ Calm
          /\ \A i \in 1..ctl.cnt : ctl.buf[i] = platter[ctl.hd][ctl.lba + i - 1]
      BY <1>1, <1>3, <2>3 DEF Reading
    <3> QED BY <1>1, <1>8, <3>1 DEF Reading, Calm
  <2> QED BY <1>6, <1>8, <2>1, <2>2, <2>3 DEF ChannelAt
<1>12. OnlyTimeoutPanics'
  BY <1>6, <1>8 DEF OnlyTimeoutPanics
<1>13. Active(t) /\ Active(t)' /\ lock' = lock /\ r'[t].op = r[t].op /\ ctl' \in ControllerStates
  BY <1>1, <1>2, <1>6, <1>8 DEF Active
<1> QED BY <1>5, <1>8, <1>9, <1>10, <1>11, <1>12, <1>13, OwnerStep

\* A part of a sequence.
LEMMA PartFacts ==
  ASSUME NEW s \in Seq(Values), NEW a \in Nat, NEW k \in Nat, a + k <= Len(s)
  PROVE  /\ SubSeq(s, a + 1, a + k) \in Seq(Values) /\ Len(SubSeq(s, a + 1, a + k)) = k
         /\ \A i \in 1..k : SubSeq(s, a + 1, a + k)[i] = s[a + i]
OBVIOUS

\* The data of a read, one command's worth, goes to the caller's buffer, and the
\* controller is ready again.
LEMMA ReadStep ==
  ASSUME IdeInv, NEW t \in Threads, read_from_sector(t)
  PROVE  IdeInv'
<1> DEFINE label == Next_command(t)
           k == secs_op(t)
           more == r[t].data \o SubSeq(ctl.buf, 1, Sectors(k % UINT8))
<1>1. /\ pc[t] = "xfer" /\ r[t].op # "write" /\ ~panic
      /\ r' = [r EXCEPT ![t].data = more, ![t].done = @ + k]
      /\ ctl' = Ready /\ pc' = [pc EXCEPT ![t] = label]
      /\ UNCHANGED <<lock, expecting_intr, disk_done, regs, irq, platter, identify, requests, panic>>
  BY DEF read_from_sector, Running, Goto
<1>2. TypeOK /\ r \in [Threads -> Requests \cup {NoRequest}] /\ ctl \in ControllerStates
  BY DEF IdeInv, RequestsOK, ChannelOK
<1>3. r[t] \in Requests /\ RequestOK(t) /\ MyCommand(t) /\ Reading(t)
  BY <1>1, InRequest DEF ChannelAt
<1>4. r[t].done < r[t].n /\ r[t].n \in Nat /\ r[t].done \in Nat /\ r[t].data \in Seq(Values)
  BY <1>1, <1>3 DEF RequestOK, Requests
<1>5. /\ k \in 1..UINT8 /\ r[t].done + k <= r[t].n /\ k \in Nat
      /\ label = IF r[t].op = "identify" THEN "identified"
                 ELSE IF r[t].done + k < r[t].n THEN "cmd" ELSE "unlock"
      /\ Sectors(k % UINT8) = k
  <2>1. /\ k \in 1..UINT8 /\ r[t].done + k <= r[t].n
        /\ label = IF r[t].op = "identify" THEN "identified"
                   ELSE IF r[t].done + k < r[t].n THEN "cmd" ELSE "unlock"
    BY <1>3, <1>4, SecsFacts, SMTT(20)
  <2> HIDE DEF k
  <2> QED BY <2>1, CountFits
<1>6. Calm /\ ctl.buf \in Seq(Values) /\ Len(ctl.buf) = k
  BY <1>1, <1>2, <1>3 DEF Reading, MyCommand, ControllerStates
<1>7. more \in Seq(Values)
  <2> HIDE DEF k
  <2>1. SubSeq(ctl.buf, 1, Sectors(k % UINT8)) \in Seq(Values)
    BY <1>5, <1>6, PartFacts
  <2> QED BY <1>4, <2>1
<1>8. r[t].op = "identify" => r[t].done + k = r[t].n
  <2>1. r[t].op = "identify" => r[t].n = 1
    BY <1>1, <1>3 DEF RequestOK
  <2> HIDE DEF k
  <2> QED BY <1>4, <1>5, <2>1
<1> HIDE DEF label, k, more
<1>9. /\ r' \in [Threads -> Requests \cup {NoRequest}] /\ r'[t] \in Requests
      /\ r'[t] = [r[t] EXCEPT !.data = more, !.done = @ + k]
      /\ \A u \in Threads : u # t => r'[u] = r[u]
  <2>1. r[t].done + k \in Nat
    BY <1>4, <1>5
  <2>2. [r[t] EXCEPT !.data = more, !.done = @ + k] \in Requests
    BY <1>3, <1>7, <2>1 DEF Requests
  <2>3. r' = [r EXCEPT ![t] = [r[t] EXCEPT !.data = more, !.done = @ + k]]
    BY <1>1, <1>2, <1>3 DEF Requests
  <2> QED BY <1>2, <2>2, <2>3
<1>10. /\ r'[t].op = r[t].op /\ r'[t].lba = r[t].lba /\ r'[t].n = r[t].n
      /\ r'[t].done = r[t].done + k /\ r'[t] # NoRequest
  BY <1>3, <1>9 DEF Requests, NoRequest
<1>11. /\ pc' \in [Threads -> Labels] /\ pc'[t] = label /\ label \in {"cmd", "unlock", "identified"}
       /\ \A u \in Threads : u # t => pc'[u] = pc[u]
  BY <1>1, <1>2, <1>5 DEF TypeOK, Labels
<1>12. TypeOK'
  BY <1>1, <1>2, <1>11 DEF TypeOK, Labels
<1>13. RequestOK(t)'
  <2>1. IF label \in {"unlock", "identified"} THEN r'[t].done = r'[t].n ELSE r'[t].done < r'[t].n
    <3>1. r'[t].done = r[t].done + k /\ r'[t].n = r[t].n
      BY <1>10
    <3>2. r[t].done + k < r[t].n \/ r[t].done + k = r[t].n
      BY <1>4, <1>5, SMTT(20)
    <3>3. CASE r[t].done + k < r[t].n
      <4>1. label = "cmd" /\ label \notin {"unlock", "identified"}
        BY <1>5, <1>8, <3>3, <1>4
      <4> QED BY <3>1, <3>3, <4>1
    <3>4. CASE r[t].done + k = r[t].n
      <4>1. label \in {"unlock", "identified"}
        BY <1>4, <1>5, <3>4
      <4> QED BY <3>1, <3>4, <4>1
    <3> QED BY <3>2, <3>3, <3>4
  <2>2. r[t].op = "identify" <=> label = "identified"
    BY <1>5
  <2> QED BY <1>1, <1>3, <1>10, <1>11, <2>1, <2>2 DEF RequestOK
<1>14. ctl' \in ControllerStates /\ ctl'.st = "ready" /\ Calm'
  <2>1. Calm'
    BY <1>1, <1>6 DEF Calm
  <2>2. Ready \in ControllerStates /\ Ready.st = "ready"
    <3>1. <<>> \in Seq(Values) /\ 0 \in Disks /\ 0 \in 0..NSectors - 1
      OBVIOUS
    <3> QED BY <3>1 DEF Ready, ControllerStates
  <2> QED BY <1>1, <2>1, <2>2
<1>15. ChannelAt(t)'
  BY <1>11, <1>14 DEF ChannelAt
<1>16. OnlyTimeoutPanics'
  BY <1>1 DEF OnlyTimeoutPanics
<1>17. Active(t) /\ Active(t)' /\ lock' = lock /\ r'[t].op = r[t].op
  BY <1>1, <1>10, <1>11 DEF Active
<1> QED BY <1>9, <1>11, <1>12, <1>13, <1>14, <1>15, <1>16, <1>17, OwnerStep

\* The data of a write goes to the controller, which stores it.
LEMMA WriteStep ==
  ASSUME IdeInv, NEW t \in Threads, write2sector(t)
  PROVE  IdeInv'
<1> DEFINE k == secs_op(t)
           part == SubSeq(r[t].data, r[t].done + 1, r[t].done + Sectors(k % UINT8))
<1>1. /\ pc[t] = "xfer" /\ r[t].op = "write" /\ ~panic
      /\ ctl' = [ctl EXCEPT !.st = "busy", !.buf = part] /\ pc' = [pc EXCEPT ![t] = "wait"]
      /\ UNCHANGED <<r, lock, expecting_intr, disk_done, regs, irq, platter, identify, requests, panic>>
  BY DEF write2sector, Running, Goto
<1>2. TypeOK /\ r \in [Threads -> Requests \cup {NoRequest}] /\ ctl \in ControllerStates
  BY DEF IdeInv, RequestsOK, ChannelOK
<1>3. r[t] \in Requests /\ RequestOK(t) /\ MyCommand(t) /\ Writing(t)
  BY <1>1, InRequest DEF ChannelAt
<1>4. /\ r[t].done < r[t].n /\ r[t].n \in Nat /\ r[t].done \in Nat
      /\ r[t].data \in Seq(Values) /\ Len(r[t].data) = r[t].n
  BY <1>1, <1>3 DEF RequestOK, Requests
<1>5. k \in 1..UINT8 /\ r[t].done + k <= r[t].n /\ k \in Nat /\ Sectors(k % UINT8) = k
  <2>1. k \in 1..UINT8 /\ r[t].done + k <= r[t].n
    BY <1>3, <1>4, SecsFacts
  <2> HIDE DEF k
  <2> QED BY <2>1, CountFits
<1>6. Pending /\ ctl.done = 0 /\ ctl.cnt = k
  BY <1>1, <1>3 DEF Writing, MyCommand
<1>7. /\ part \in Seq(Values) /\ Len(part) = k
      /\ \A i \in 1..k : part[i] = r[t].data[r[t].done + i]
  <2> HIDE DEF k
  <2>1. part = SubSeq(r[t].data, r[t].done + 1, r[t].done + k)
    BY <1>5
  <2>2. ASSUME NEW s \in Seq(Values), NEW a \in Nat, a + k <= Len(s),
               part = SubSeq(s, a + 1, a + k)
        PROVE  /\ part \in Seq(Values) /\ Len(part) = k
               /\ \A i \in 1..k : part[i] = s[a + i]
    <3> HIDE DEF part
    <3> QED BY <1>5, <2>2, PartFacts
  <2> HIDE DEF part
  <2> QED BY <1>4, <1>5, <2>1, <2>2
<1> HIDE DEF k, part
<1>8. /\ ctl' \in ControllerStates /\ ctl'.st = "busy" /\ ctl'.buf = part /\ ctl'.op = ctl.op
      /\ ctl'.hd = ctl.hd /\ ctl'.lba = ctl.lba /\ ctl'.cnt = ctl.cnt /\ ctl'.done = ctl.done
  BY <1>1, <1>2, <1>7 DEF ControllerStates
<1>9. /\ pc' \in [Threads -> Labels] /\ pc'[t] = "wait"
      /\ \A u \in Threads : u # t => pc'[u] = pc[u]
  BY <1>1, <1>2 DEF TypeOK, Labels
<1>10. TypeOK'
  BY <1>1, <1>2, <1>9 DEF TypeOK, Labels
<1>11. RequestOK(t)'
  BY <1>1, <1>3, <1>9 DEF RequestOK
<1>12. ChannelAt(t)'
  <2>1. MyCommand(t)'
    BY <1>1, <1>3, <1>8 DEF MyCommand, secs_op
  <2>2. Pending'
    BY <1>1, <1>6 DEF Pending
  <2>3. Writing(t)'
    BY <1>1, <1>5, <1>6, <1>7, <1>8, <1>9, <2>2 DEF Writing
  <2> QED BY <1>1, <1>9, <2>1, <2>3 DEF ChannelAt
<1>13. OnlyTimeoutPanics'
  BY <1>1 DEF OnlyTimeoutPanics
<1>14. Active(t) /\ Active(t)' /\ lock' = lock /\ r'[t].op = r[t].op
  BY <1>1, <1>9 DEF Active
<1> QED BY <1>1, <1>2, <1>8, <1>9, <1>10, <1>11, <1>12, <1>13, <1>14, OwnerStep

\* The channel is left as the next thread needs it.
LEMMA UnlockStep ==
  ASSUME IdeInv, NEW t \in Threads, lock_release(t)
  PROVE  IdeInv'
<1>1. /\ pc[t] \in {"unlock", "identified"} /\ ~panic
      /\ lock' = IF pc[t] = "unlock" THEN NoThread ELSE lock
      /\ r' = [r EXCEPT ![t] = NoRequest] /\ pc' = [pc EXCEPT ![t] = "idle"]
      /\ UNCHANGED <<expecting_intr, disk_done, regs, ctl, irq, platter, identify, requests, panic>>
  BY DEF lock_release, Running, Goto
<1>2. TypeOK /\ r \in [Threads -> Requests \cup {NoRequest}] /\ ctl \in ControllerStates
  BY DEF IdeInv, RequestsOK, ChannelOK
<1>3. Calm /\ ctl.st = "ready"
  BY <1>1, InRequest DEF ChannelAt
<1>4. /\ pc' \in [Threads -> Labels] /\ pc'[t] = "idle" /\ r'[t] = NoRequest
      /\ r' \in [Threads -> Requests \cup {NoRequest}]
      /\ \A u \in Threads : u # t => pc'[u] = pc[u] /\ r'[u] = r[u]
  BY <1>1, <1>2 DEF TypeOK, Labels
<1>5. TypeOK'
  BY <1>1, <1>2, <1>4 DEF TypeOK, Labels
<1>6. RequestOK(t)' /\ ChannelAt(t)'
  BY <1>4 DEF RequestOK, ChannelAt
<1>7. OnlyTimeoutPanics' /\ Active(t) /\ Calm' /\ ctl'.st = "ready" /\ ctl' \in ControllerStates
  BY <1>1, <1>2, <1>3 DEF OnlyTimeoutPanics, Active, Calm
<1> QED BY <1>4, <1>5, <1>6, <1>7, OwnerStep

-----------------------------------------------------------------------------
(* The steps of the other threads *)

\* ide_init finds nobody in the channel.
LEMMA IdentifyStep ==
  ASSUME IdeInv, NEW t \in Threads, NEW hd \in Disks, identify_disk(t, hd)
  PROVE  IdeInv'
<1> DEFINE q == Request("identify", hd, 0, 1, <<>>)
<1>1. /\ ~panic /\ \A u \in Threads : pc[u] = "idle"
      /\ r' = [r EXCEPT ![t] = q] /\ regs' = [regs EXCEPT !.hd = hd]
      /\ pc' = [pc EXCEPT ![t] = "cmd"]
      /\ UNCHANGED <<lock, expecting_intr, disk_done, ctl, irq, platter, requests, panic>>
  BY DEF identify_disk, Running, Goto
<1>2. TypeOK /\ r \in [Threads -> Requests \cup {NoRequest}] /\ ctl \in ControllerStates
  BY DEF IdeInv, RequestsOK, ChannelOK
<1>3. Calm /\ ctl.st = "ready"
  BY <1>1 DEF IdeInv, ChannelOK, Active
<1>4. /\ q \in Requests /\ q.op = "identify" /\ q.n = 1 /\ q.lba = 0 /\ q.done = 0
      /\ q # NoRequest
  <2>1. <<>> \in Seq(Values) /\ 0 \in 0..NSectors - 1
    OBVIOUS
  <2> QED BY <2>1 DEF Request, Requests, NoRequest
<1> HIDE DEF q
<1>5. /\ pc' \in [Threads -> Labels] /\ pc'[t] = "cmd" /\ r'[t] = q
      /\ r' \in [Threads -> Requests \cup {NoRequest}]
      /\ \A u \in Threads : u # t => pc'[u] = "idle" /\ r'[u] = NoRequest
  <2>1. \A u \in Threads : r[u] = NoRequest
    BY <1>1 DEF IdeInv, RequestsOK, RequestOK
  <2> QED BY <1>1, <1>2, <1>4, <2>1 DEF TypeOK, Labels
<1>6. TypeOK'
  BY <1>1, <1>2, <1>5 DEF TypeOK, Labels
<1>7. RequestsOK'
  <2>1. \A u \in Threads : u # t => RequestOK(u)'
    BY <1>5 DEF RequestOK
  <2>2. RequestOK(t)'
    BY <1>4, <1>5 DEF RequestOK
  <2> QED BY <1>5, <2>1, <2>2 DEF RequestsOK
<1>8. OneInChannel'
  <2>1. NoRequest.op # "identify"
    BY DEF NoRequest
  <2> QED BY <1>4, <1>5, <2>1 DEF OneInChannel, Active
<1>9. ChannelOK'
  <2>1. Calm' /\ ctl'.st = "ready" /\ ctl' \in ControllerStates
    BY <1>1, <1>2, <1>3 DEF Calm
  <2> QED BY <1>5, <2>1 DEF ChannelOK, ChannelAt
<1>10. OnlyTimeoutPanics'
  BY <1>1 DEF OnlyTimeoutPanics
<1> QED BY <1>6, <1>7, <1>8, <1>9, <1>10 DEF IdeInv

\* A new request changes nothing for the thread in the channel.
LEMMA CallStep ==
  ASSUME IdeInv, NEW t \in Threads, Call(t)
  PROVE  IdeInv'
<1>1. /\ ~panic /\ pc[t] = "idle" /\ \A u \in Threads : r[u].op # "identify"
      /\ pc' = [pc EXCEPT ![t] = "lock"]
      /\ UNCHANGED <<lock, expecting_intr, disk_done, regs, ctl, irq, platter, identify, panic>>
  BY DEF Call, Running, Goto
<1>2. PICK q \in Requests :
        /\ r' = [r EXCEPT ![t] = q]
        /\ q.op # "identify" /\ q.lba + q.n <= NSectors /\ q.done = 0
        /\ q.op = "write" => Len(q.data) = q.n
  <2>1. PICK hd \in Disks, lba \in 0..NSectors - 1, n \in 1..MaxCount :
          /\ lba + n <= NSectors
          /\ \/ r' = [r EXCEPT ![t] = Request("read", hd, lba, n, <<>>)]
             \/ \E data \in [1..n -> Values] :
                  r' = [r EXCEPT ![t] = Request("write", hd, lba, n, data)]
    BY DEF Call
  <2>2. n \in Nat \ {0} /\ <<>> \in Seq(Values)
    OBVIOUS
  <2>3. CASE r' = [r EXCEPT ![t] = Request("read", hd, lba, n, <<>>)]
    <3> DEFINE q == Request("read", hd, lba, n, <<>>)
    <3>1. /\ q \in Requests /\ q.op = "read" /\ q.lba = lba /\ q.n = n /\ q.done = 0
      BY <2>2 DEF Request, Requests
    <3> HIDE DEF q
    <3> QED BY <2>1, <2>3, <3>1 DEF q
  <2>4. CASE \E data \in [1..n -> Values] :
                r' = [r EXCEPT ![t] = Request("write", hd, lba, n, data)]
    <3>0. PICK data \in [1..n -> Values] :
            r' = [r EXCEPT ![t] = Request("write", hd, lba, n, data)]
      BY <2>4
    <3> DEFINE q == Request("write", hd, lba, n, data)
    <3>1. data \in Seq(Values) /\ Len(data) = n
      BY <2>2
    <3>2. /\ q \in Requests /\ q.op = "write" /\ q.lba = lba /\ q.n = n /\ q.done = 0
          /\ q.data = data
      BY <2>2, <3>1 DEF Request, Requests
    <3>3. r' = [r EXCEPT ![t] = q]
      BY <3>0
    <3> HIDE DEF q
    <3> QED BY <2>1, <3>1, <3>2, <3>3
  <2> QED BY <2>1, <2>3, <2>4
<1>3. TypeOK /\ r \in [Threads -> Requests \cup {NoRequest}] /\ ctl \in ControllerStates
  BY DEF IdeInv, RequestsOK, ChannelOK
<1>4. /\ pc' \in [Threads -> Labels] /\ pc'[t] = "lock" /\ r'[t] = q
      /\ r' \in [Threads -> Requests \cup {NoRequest}]
      /\ \A u \in Threads : u # t => pc'[u] = pc[u] /\ r'[u] = r[u]
  BY <1>1, <1>2, <1>3 DEF TypeOK, Labels
<1>5. TypeOK'
  BY <1>1, <1>3, <1>4 DEF TypeOK, Labels
<1>6. RequestsOK'
  <2>1. ASSUME NEW u \in Threads, u # t PROVE RequestOK(u)'
    <3>1. pc'[u] = pc[u] /\ r'[u] = r[u] /\ RequestOK(u)
      BY <1>4, <2>1 DEF IdeInv, RequestsOK
    <3> QED BY <3>1 DEF RequestOK
  <2>2. RequestOK(t)'
    <3>1. q # NoRequest /\ q.done < q.n
      BY <1>2 DEF Requests, NoRequest
    <3> QED BY <1>2, <1>4, <3>1 DEF RequestOK
  <2> QED BY <1>4, <2>1, <2>2 DEF RequestsOK
<1>7. \A u \in Threads : Active(u)' <=> Active(u)
  BY <1>1, <1>4 DEF Active
<1>8. OneInChannel'
  <2>1. \A u \in Threads : r'[u].op # "identify"
    BY <1>1, <1>2, <1>4
  <2>2. \A u \in Threads : Active(u) => lock = u
    BY <1>1 DEF IdeInv, OneInChannel
  <2>3. \A u, v \in Threads : Active(u) /\ Active(v) => u = v
    BY DEF IdeInv, OneInChannel
  <2> QED BY <1>1, <1>7, <2>1, <2>2, <2>3 DEF OneInChannel
<1>9. ChannelOK'
  <2>1. ASSUME NEW u \in Threads PROVE ChannelAt(u)'
    <3>1. CASE u = t
      BY <1>4, <3>1 DEF ChannelAt
    <3>2. CASE u # t
      <4>1. pc'[u] = pc[u] /\ r'[u] = r[u] /\ ChannelAt(u)
        BY <1>4, <3>2 DEF IdeInv, ChannelOK
      <4> QED BY <1>1, <4>1 DEF ChannelAt, Calm, Pending, Selected, MyCommand, Writing, Reading,
                                 Signalled, secs_op
    <3> QED BY <3>1, <3>2
  <2>2. (\A u \in Threads : ~Active(u)) => Calm' /\ ctl'.st = "ready"
    BY <1>1 DEF IdeInv, ChannelOK, Calm
  <2> QED BY <1>1, <1>3, <1>7, <2>1, <2>2 DEF ChannelOK
<1>10. OnlyTimeoutPanics'
  BY <1>1 DEF OnlyTimeoutPanics
<1> QED BY <1>5, <1>6, <1>8, <1>9, <1>10 DEF IdeInv

\* Whoever gets the lock finds the channel empty.
LEMMA LockStep ==
  ASSUME IdeInv, NEW t \in Threads, lock_acquire(t)
  PROVE  IdeInv'
<1>1. /\ ~panic /\ pc[t] = "lock" /\ lock = NoThread /\ lock' = t
      /\ pc' = [pc EXCEPT ![t] = "cmd"] /\ regs' = [regs EXCEPT !.hd = r[t].hd]
      /\ UNCHANGED <<r, expecting_intr, disk_done, ctl, irq, platter, identify, requests, panic>>
  BY DEF lock_acquire, Running, Goto, select_disk
<1>2. TypeOK /\ r \in [Threads -> Requests \cup {NoRequest}] /\ ctl \in ControllerStates
  BY DEF IdeInv, RequestsOK, ChannelOK
<1>3. r[t] \in Requests /\ RequestOK(t) /\ r[t].hd \in Disks
  BY <1>1, InRequest DEF Requests
<1>4. \A u \in Threads : r[u].op # "identify"
  <2>1. r[t].op # "identify"
    BY <1>1, <1>3 DEF RequestOK
  <2> QED BY <1>1, <2>1 DEF IdeInv, OneInChannel
<1>5. \A u \in Threads : ~Active(u)
  BY <1>1, <1>4 DEF IdeInv, OneInChannel
<1>6. Calm /\ ctl.st = "ready"
  BY <1>5 DEF IdeInv, ChannelOK
<1>7. /\ pc' \in [Threads -> Labels] /\ pc'[t] = "cmd"
      /\ \A u \in Threads : u # t => pc'[u] = pc[u] /\ pc[u] \in {"idle", "lock"}
  BY <1>1, <1>2, <1>5 DEF TypeOK, Labels, Active
<1>8. TypeOK'
  BY <1>1, <1>2, <1>3, <1>7 DEF TypeOK, Labels
<1>9. RequestsOK'
  <2>1. ASSUME NEW u \in Threads, u # t PROVE RequestOK(u)'
    <3>1. pc'[u] = pc[u] /\ RequestOK(u)
      BY <1>7, <2>1 DEF IdeInv, RequestsOK
    <3> QED BY <1>1, <3>1 DEF RequestOK
  <2>2. RequestOK(t)'
    BY <1>1, <1>3, <1>7 DEF RequestOK
  <2> QED BY <1>1, <1>2, <2>1, <2>2 DEF RequestsOK
<1>10. OneInChannel'
  BY <1>1, <1>4, <1>7 DEF OneInChannel, Active
<1>11. ChannelOK'
  <2>1. Calm' /\ ctl'.st = "ready" /\ ctl' \in ControllerStates
    BY <1>1, <1>2, <1>6 DEF Calm
  <2> QED BY <1>7, <2>1 DEF ChannelOK, ChannelAt
<1>12. OnlyTimeoutPanics'
  BY <1>1 DEF OnlyTimeoutPanics
<1> QED BY <1>8, <1>9, <1>10, <1>11, <1>12 DEF IdeInv

-----------------------------------------------------------------------------
(* The handler and the controller *)

\* While the channel is not calm there is a thread in it, in a command or about
\* to give one.
LEMMA OwnerExists ==
  ASSUME IdeInv, ~Calm \/ ctl.st # "ready"
  PROVE  \E t \in Threads : pc[t] \in {"out", "wait", "poll", "xfer"}
<1>1. PICK t \in Threads : Active(t)
  BY DEF IdeInv, ChannelOK
<1>2. ChannelAt(t) /\ pc[t] \in Labels
  BY DEF IdeInv, ChannelOK, TypeOK, Labels
<1> QED BY <1>1, <1>2 DEF ChannelAt, Active, Labels

\* The step of the handler or the controller, seen from the thread in the channel.
LEMMA OutsideStep ==
  ASSUME IdeInv, NEW t \in Threads, Active(t), UNCHANGED <<pc, r, lock, regs, panic>>,
         disk_done' \in 0..1, expecting_intr' \in BOOLEAN, irq' \in BOOLEAN,
         platter' \in [Disks -> [0..NSectors - 1 -> Values]],
         ctl' \in ControllerStates, ChannelAt(t)'
  PROVE  IdeInv'
<1>1. TypeOK' /\ pc' \in [Threads -> Labels] /\ r' \in [Threads -> Requests \cup {NoRequest}]
  BY DEF IdeInv, TypeOK, RequestsOK, Labels
<1>2. RequestOK(t)'
  <2>1. RequestOK(t)
    BY DEF IdeInv, RequestsOK
  <2> QED BY <2>1 DEF RequestOK
<1>3. OnlyTimeoutPanics'
  BY DEF IdeInv, OnlyTimeoutPanics
<1>4. Active(t)' /\ r'[t].op = r[t].op
  BY DEF Active
<1> QED BY <1>1, <1>2, <1>3, <1>4, OwnerStep

\* The interrupt is that of the thread in the channel, which waits for it.
LEMMA HandlerStep ==
  ASSUME IdeInv, intr_hd_handler
  PROVE  IdeInv'
<1>1. /\ irq /\ irq' = FALSE
      /\ IF expecting_intr THEN expecting_intr' = FALSE /\ disk_done' = disk_done + 1
                           ELSE UNCHANGED <<expecting_intr, disk_done>>
      /\ UNCHANGED <<pc, r, lock, regs, ctl, platter, identify, requests, panic>>
  BY DEF intr_hd_handler, handle
<1>2. PICK t \in Threads : pc[t] \in {"out", "wait", "poll", "xfer"}
  BY <1>1, OwnerExists DEF Calm
<1>3. ChannelAt(t) /\ ctl \in ControllerStates /\ TypeOK
  BY DEF IdeInv, ChannelOK
<1>4. pc[t] = "wait" /\ expecting_intr /\ disk_done = 0
  BY <1>1, <1>2, <1>3 DEF ChannelAt, Pending, Writing, Reading, Signalled, Calm
<1>5. expecting_intr' = FALSE /\ disk_done' = 1 /\ irq' = FALSE /\ Signalled'
  BY <1>1, <1>4 DEF Signalled
<1>6. ChannelAt(t)'
  <2>1. MyCommand(t)'
    BY <1>1, <1>3, <1>4 DEF ChannelAt, MyCommand, secs_op
  <2>2. ASSUME r[t].op = "write" PROVE Writing(t)'
    <3>1. Writing(t) /\ ~Pending
      BY <1>1, <1>3, <1>4, <2>2 DEF ChannelAt, Pending
    <3> QED BY <1>1, <1>4, <1>5, <3>1 DEF Writing
  <2>3. ASSUME r[t].op # "write" PROVE Reading(t)'
    <3>1. Reading(t) /\ ~Pending
      BY <1>1, <1>3, <1>4, <2>3 DEF ChannelAt, Pending
    <3>2. /\ ctl.st = "drq" /\ Len(ctl.buf) = ctl.cnt
          /\ \A i \in 1..ctl.cnt : ctl.buf[i] = platter[ctl.hd][ctl.lba + i - 1]
      BY <3>1 DEF Reading
    <3> QED BY <1>1, <1>4, <1>5, <3>2 DEF Reading
  <2> QED BY <1>1, <1>4, <2>1, <2>2, <2>3 DEF ChannelAt
<1>7. Active(t) /\ platter' \in [Disks -> [0..NSectors - 1 -> Values]]
  BY <1>1, <1>3, <1>4 DEF Active, TypeOK
<1>8. /\ disk_done' \in 0..1 /\ expecting_intr' \in BOOLEAN /\ irq' \in BOOLEAN
      /\ ctl' \in ControllerStates /\ UNCHANGED <<pc, r, lock, regs, panic>>
  <2>1. expecting_intr' = FALSE /\ disk_done' = 1 /\ irq' = FALSE
    BY <1>5
  <2>2. ctl' = ctl /\ UNCHANGED <<pc, r, lock, regs, panic>>
    BY <1>1
  <2>3. disk_done' \in 0..1
    BY <2>1
  <2> QED BY <1>3, <2>1, <2>2, <2>3
<1> QED BY <1>6, <1>7, <1>8, OutsideStep

\* The sectors of a command are on the disk.
LEMMA OnDisk ==
  ASSUME IdeInv, NEW t \in Threads, pc[t] \in {"wait", "poll", "xfer"}
  PROVE  /\ MyCommand(t) /\ IF r[t].op = "write" THEN Writing(t) ELSE Reading(t)
         /\ r[t] \in Requests /\ ctl \in ControllerStates
         /\ ctl.cnt \in 1..UINT8 /\ ctl.lba \in Nat /\ ctl.lba + ctl.cnt <= NSectors
         /\ r[t].done + ctl.cnt <= r[t].n
<1>1. r[t] \in Requests /\ RequestOK(t) /\ ChannelAt(t)
  BY InRequest
<1>2. /\ r[t].done < r[t].n /\ r[t].lba + r[t].n <= NSectors
      /\ r[t].n \in Nat /\ r[t].done \in Nat /\ r[t].lba \in Nat
  BY <1>1, SMTT(20) DEF RequestOK, Requests
<1>3. secs_op(t) \in 1..UINT8 /\ r[t].done + secs_op(t) <= r[t].n
  BY <1>1, <1>2, SecsFacts
<1>4. MyCommand(t) /\ IF r[t].op = "write" THEN Writing(t) ELSE Reading(t)
  BY <1>1 DEF ChannelAt
<1>5. ctl \in ControllerStates /\ ctl.lba \in 0..NSectors - 1
  BY DEF IdeInv, ChannelOK, ControllerStates
<1>6. ctl.cnt = secs_op(t)
  BY <1>4 DEF MyCommand
<1>7. ctl.lba + ctl.cnt <= NSectors
  <2>1. CASE r[t].op = "identify"
    <3>1. secs_op(t) = 1
      BY <1>1, <1>2, <1>3, <2>1 DEF RequestOK
    <3> QED BY <1>5, <1>6, <3>1
  <2>2. CASE r[t].op # "identify"
    <3>1. ctl.lba = r[t].lba + r[t].done
      BY <1>4, <2>2 DEF MyCommand
    <3> QED BY <1>2, <1>3, <1>6, <3>1
  <2> QED BY <2>1, <2>2
<1> QED BY <1>1, <1>3, <1>4, <1>5, <1>6, <1>7

\* The data of a read is what is on the disk, and the interrupt comes with it.
LEMMA DataReadyStep ==
  ASSUME IdeInv, DataReady
  PROVE  IdeInv'
<1> DEFINE buf == [i \in 1..ctl.cnt |-> platter[ctl.hd][ctl.lba + i - 1]]
<1>1. /\ ctl.st = "busy" /\ ctl.op \in {"read", "identify"}
      /\ ctl' = [ctl EXCEPT !.st = "drq", !.buf = buf]
      /\ irq' = TRUE
      /\ UNCHANGED <<pc, r, lock, expecting_intr, disk_done, regs, platter, identify, requests, panic>>
  BY DEF DataReady, driver
<1>2. PICK t \in Threads : pc[t] \in {"wait", "poll", "xfer"}
  <2>1. PICK t \in Threads : pc[t] \in {"out", "wait", "poll", "xfer"}
    BY <1>1, OwnerExists
  <2>2. ChannelAt(t)
    BY DEF IdeInv, ChannelOK
  <2> QED BY <1>1, <2>1, <2>2 DEF ChannelAt
<1>3. /\ MyCommand(t) /\ IF r[t].op = "write" THEN Writing(t) ELSE Reading(t)
      /\ ctl \in ControllerStates /\ ctl.cnt \in 1..UINT8 /\ ctl.lba \in Nat
      /\ ctl.lba + ctl.cnt <= NSectors
  BY <1>2, OnDisk
<1>4. r[t].op # "write" /\ pc[t] = "wait" /\ Pending
  BY <1>1, <1>2, <1>3 DEF MyCommand, Reading
<1>5. TypeOK /\ platter \in [Disks -> [0..NSectors - 1 -> Values]] /\ ctl.hd \in Disks
  BY <1>3 DEF IdeInv, TypeOK, ControllerStates
<1>6. buf \in Seq(Values) /\ Len(buf) = ctl.cnt
  <2>1. \A i \in 1..ctl.cnt : platter[ctl.hd][ctl.lba + i - 1] \in Values
    <3>1. \A i \in 1..ctl.cnt : ctl.lba + i - 1 \in 0..NSectors - 1
      BY <1>3
    <3>2. platter[ctl.hd] \in [0..NSectors - 1 -> Values]
      BY <1>5
    <3> QED BY <3>1, <3>2
  <2>2. buf \in [1..ctl.cnt -> Values] /\ ctl.cnt \in Nat
    BY <1>3, <2>1
  <2> HIDE DEF buf
  <2> QED BY <2>2
<1>7. \A i \in 1..ctl.cnt : buf[i] = platter[ctl.hd][ctl.lba + i - 1]
  OBVIOUS
<1> HIDE DEF buf
<1>8. /\ ctl' \in ControllerStates /\ ctl'.st = "drq" /\ ctl'.buf = buf /\ ctl'.op = ctl.op
      /\ ctl'.hd = ctl.hd /\ ctl'.lba = ctl.lba /\ ctl'.cnt = ctl.cnt
  BY <1>1, <1>3, <1>6 DEF ControllerStates
<1>9. Signalled'
  BY <1>1, <1>4 DEF Pending, Signalled
<1>10. MyCommand(t)'
  BY <1>1, <1>3, <1>8 DEF MyCommand, secs_op
<1>11. Reading(t)'
  BY <1>1, <1>4, <1>6, <1>7, <1>8, <1>9 DEF Reading
<1>12. ChannelAt(t)'
  BY <1>1, <1>4, <1>10, <1>11 DEF ChannelAt
<1>13. Active(t) /\ disk_done' \in 0..1 /\ expecting_intr' \in BOOLEAN /\ irq' \in BOOLEAN
  BY <1>1, <1>4, <1>5 DEF Active, TypeOK
<1> QED BY <1>1, <1>5, <1>8, <1>12, <1>13, OutsideStep

\* The controller asks for the data of a write: the thread has not given it yet.
LEMMA ReadyForDataStep ==
  ASSUME IdeInv, ReadyForData
  PROVE  IdeInv'
<1>1. /\ ctl.st = "busy" /\ ctl.op = "write" /\ ctl.buf = <<>>
      /\ ctl' = [ctl EXCEPT !.st = "drq"]
      /\ UNCHANGED <<pc, r, lock, expecting_intr, disk_done, regs, irq, platter, identify, requests,
                     panic>>
  BY DEF ReadyForData, driver
<1>2. PICK t \in Threads : pc[t] \in {"wait", "poll", "xfer"}
  <2>1. PICK t \in Threads : pc[t] \in {"out", "wait", "poll", "xfer"}
    BY <1>1, OwnerExists
  <2>2. ChannelAt(t)
    BY DEF IdeInv, ChannelOK
  <2> QED BY <1>1, <2>1, <2>2 DEF ChannelAt
<1>3. /\ MyCommand(t) /\ IF r[t].op = "write" THEN Writing(t) ELSE Reading(t)
      /\ ctl \in ControllerStates /\ ctl.cnt \in 1..UINT8
  BY <1>2, OnDisk
<1>4. r[t].op = "write" /\ Writing(t)
  BY <1>1, <1>3 DEF MyCommand
<1>5. pc[t] # "wait" /\ Pending /\ ctl.done = 0
  <2>1. Len(<<>>) # ctl.cnt
    BY <1>3
  <2> QED BY <1>1, <1>4, <2>1 DEF Writing
<1>6. /\ ctl' \in ControllerStates /\ ctl'.st = "drq" /\ ctl'.buf = ctl.buf /\ ctl'.op = ctl.op
      /\ ctl'.hd = ctl.hd /\ ctl'.lba = ctl.lba /\ ctl'.cnt = ctl.cnt /\ ctl'.done = ctl.done
  BY <1>1, <1>3 DEF ControllerStates
<1>7. MyCommand(t)'
  BY <1>1, <1>3, <1>6 DEF MyCommand, secs_op
<1>8. Writing(t)'
  BY <1>1, <1>5, <1>6 DEF Writing, Pending
<1>9. ChannelAt(t)'
  BY <1>1, <1>2, <1>4, <1>7, <1>8 DEF ChannelAt
<1>10. /\ Active(t) /\ disk_done' \in 0..1 /\ expecting_intr' \in BOOLEAN /\ irq' \in BOOLEAN
       /\ platter' \in [Disks -> [0..NSectors - 1 -> Values]]
  BY <1>1, <1>2 DEF Active, TypeOK, IdeInv
<1> QED BY <1>1, <1>6, <1>9, <1>10, OutsideStep

\* What Store finds: the thread that waits for its write.
LEMMA StoreFacts ==
  ASSUME IdeInv, Store
  PROVE  \E t \in Threads :
           /\ pc[t] = "wait" /\ r[t].op = "write" /\ Pending /\ Writing(t)
           /\ ctl.done < ctl.cnt /\ ctl.buf[ctl.done + 1] \in Values
           /\ ctl.hd \in Disks /\ ctl.lba + ctl.done \in 0..NSectors - 1
           /\ ctl.buf[ctl.done + 1] = r[t].data[r[t].done + ctl.done + 1]
<1>1. ctl.st = "busy" /\ ctl.op = "write" /\ ctl.buf # <<>>
  BY DEF Store
<1>2. PICK t \in Threads : pc[t] \in {"wait", "poll", "xfer"}
  <2>1. PICK t \in Threads : pc[t] \in {"out", "wait", "poll", "xfer"}
    BY <1>1, OwnerExists
  <2>2. ChannelAt(t)
    BY DEF IdeInv, ChannelOK
  <2> QED BY <1>1, <2>1, <2>2 DEF ChannelAt
<1>3. /\ MyCommand(t) /\ IF r[t].op = "write" THEN Writing(t) ELSE Reading(t)
      /\ r[t] \in Requests /\ ctl \in ControllerStates
      /\ ctl.cnt \in 1..UINT8 /\ ctl.lba \in Nat /\ ctl.lba + ctl.cnt <= NSectors
  BY <1>2, OnDisk
<1>4. r[t].op = "write" /\ Writing(t)
  BY <1>1, <1>3 DEF MyCommand
<1>5. /\ pc[t] = "wait" /\ Pending /\ ctl.done < ctl.cnt /\ Len(ctl.buf) = ctl.cnt
      /\ \A i \in 1..ctl.cnt : ctl.buf[i] = r[t].data[r[t].done + i]
  BY <1>1, <1>4 DEF Writing
<1>6. /\ ctl.done \in Nat /\ ctl.hd \in Disks /\ ctl.buf \in Seq(Values) /\ ctl.cnt \in Nat
      /\ r[t].done \in Nat
  BY <1>3 DEF ControllerStates, Requests
<1>7. ctl.lba + ctl.done \in 0..NSectors - 1 /\ ctl.done + 1 \in 1..ctl.cnt
  BY <1>3, <1>5, <1>6, SMTT(20)
<1>8. ctl.buf[ctl.done + 1] \in Values
  BY <1>5, <1>6, <1>7
<1>9. ctl.buf[ctl.done + 1] = r[t].data[r[t].done + ctl.done + 1]
  <2>1. ctl.buf[ctl.done + 1] = r[t].data[r[t].done + (ctl.done + 1)]
    BY <1>5, <1>7
  <2>2. r[t].done + (ctl.done + 1) = r[t].done + ctl.done + 1
    BY <1>6
  <2> QED BY <2>1, <2>2
<1> QED BY <1>4, <1>5, <1>6, <1>7, <1>8, <1>9

\* A sector is stored, and after the last one comes the interrupt.
LEMMA StoreStep ==
  ASSUME IdeInv, Store
  PROVE  IdeInv'
<1> DEFINE last == ctl.done + 1 = ctl.cnt
<1>1. /\ platter' = [platter EXCEPT ![ctl.hd][ctl.lba + ctl.done] = ctl.buf[ctl.done + 1]]
      /\ ctl' = [ctl EXCEPT !.done = @ + 1, !.st = IF last THEN "ready" ELSE "busy"]
      /\ irq' = (irq \/ last)
      /\ UNCHANGED <<pc, r, lock, expecting_intr, disk_done, regs, identify, requests, panic>>
  BY DEF Store, driver
<1>2. PICK t \in Threads :
        /\ pc[t] = "wait" /\ r[t].op = "write" /\ Pending /\ Writing(t)
        /\ ctl.done < ctl.cnt /\ ctl.buf[ctl.done + 1] \in Values
        /\ ctl.hd \in Disks /\ ctl.lba + ctl.done \in 0..NSectors - 1
  BY StoreFacts
<1>3. TypeOK /\ ctl \in ControllerStates /\ MyCommand(t)
  BY <1>2 DEF IdeInv, ChannelOK, ChannelAt
<1>4. platter' \in [Disks -> [0..NSectors - 1 -> Values]]
  <2>1. platter \in [Disks -> [0..NSectors - 1 -> Values]]
    BY <1>3 DEF TypeOK
  <2> QED BY <1>1, <1>2, <2>1
<1>5. /\ ctl' \in ControllerStates /\ ctl'.st = (IF last THEN "ready" ELSE "busy")
      /\ ctl'.buf = ctl.buf /\ ctl'.op = ctl.op /\ ctl'.hd = ctl.hd /\ ctl'.lba = ctl.lba
      /\ ctl'.cnt = ctl.cnt /\ ctl'.done = ctl.done + 1
  <2> DEFINE st == IF last THEN "ready" ELSE "busy"
  <2>1. st \in {"ready", "busy", "drq"} /\ ctl.done + 1 \in Nat
    BY <1>3 DEF ControllerStates
  <2>2. ctl' = [ctl EXCEPT !.done = ctl.done + 1, !.st = st]
    BY <1>1
  <2> HIDE DEF st
  <2>3. /\ ctl' \in ControllerStates /\ ctl'.st = st
        /\ ctl'.buf = ctl.buf /\ ctl'.op = ctl.op /\ ctl'.hd = ctl.hd /\ ctl'.lba = ctl.lba
        /\ ctl'.cnt = ctl.cnt /\ ctl'.done = ctl.done + 1
    BY <1>3, <2>1, <2>2 DEF ControllerStates
  <2> QED BY <2>3 DEF st
<1>6. ctl.done \in Nat /\ ctl.cnt \in Nat
  BY <1>3 DEF ControllerStates
<1>7. irq' \in BOOLEAN /\ (irq' <=> last)
  BY <1>1, <1>2 DEF Pending
<1>8. IF last THEN Signalled' ELSE Pending'
  BY <1>1, <1>2, <1>7 DEF Pending, Signalled
<1>9. MyCommand(t)'
  BY <1>1, <1>3, <1>5 DEF MyCommand, secs_op
<1>10. Writing(t)'
  <2>1. IF last THEN ctl'.done = ctl'.cnt ELSE ctl'.done < ctl'.cnt
    BY <1>2, <1>5, <1>6
  <2>2. Len(ctl.buf) = ctl.cnt /\ \A i \in 1..ctl.cnt : ctl.buf[i] = r[t].data[r[t].done + i]
    BY <1>2 DEF Writing
  <2> QED BY <1>1, <1>2, <1>5, <1>8, <2>1, <2>2 DEF Writing
<1>11. ChannelAt(t)'
  BY <1>1, <1>2, <1>9, <1>10 DEF ChannelAt
<1>12. Active(t) /\ disk_done' \in 0..1 /\ expecting_intr' \in BOOLEAN
  BY <1>1, <1>2, <1>3 DEF Active, TypeOK
<1> QED BY <1>1, <1>4, <1>5, <1>7, <1>11, <1>12, OutsideStep

-----------------------------------------------------------------------------
(* The invariant *)

\* At the start nobody uses the channel and the controller is ready.
LEMMA InitInv ==
  ASSUME Init
  PROVE  IdeInv
<1>1. TypeOK
  <2>1. platter \in [Disks -> [0..NSectors - 1 -> Values]]
    BY DEF Init
  <2>2. regs \in [hd : Disks, lba : 0..NSectors - 1, cnt : 0..UINT8 - 1]
    BY DEF Init
  <2>3. /\ pc \in [Threads -> Labels] /\ lock = NoThread /\ disk_done \in 0..1
        /\ expecting_intr = FALSE /\ irq = FALSE /\ panic = FALSE
    BY DEF Init, Labels
  <2> QED BY <2>1, <2>2, <2>3 DEF TypeOK, Labels
<1>2. RequestsOK
  BY DEF Init, RequestsOK, RequestOK
<1>3. OneInChannel
  BY DEF Init, OneInChannel, Active, NoRequest
<1>4. ctl \in ControllerStates /\ ctl.st = "ready" /\ Calm
  <2>1. <<>> \in Seq(Values) /\ 0 \in Disks /\ 0 \in 0..NSectors - 1
    OBVIOUS
  <2> QED BY <2>1 DEF Init, Ready, ControllerStates, Calm
<1>5. ChannelOK
  BY <1>4 DEF Init, ChannelOK, ChannelAt
<1>6. OnlyTimeoutPanics
  BY DEF Init, OnlyTimeoutPanics
<1> QED BY <1>1, <1>2, <1>3, <1>5, <1>6 DEF IdeInv

\* Every step of a thread, the handler and the controller keeps it.
LEMMA StepInv ==
  ASSUME IdeInv, [Next]_vars
  PROVE  IdeInv'
<1>1. CASE UNCHANGED vars
  BY <1>1 DEF vars, IdeInv, TypeOK, RequestsOK, RequestOK, OneInChannel, Active, ChannelOK,
              ChannelAt, Calm, Pending, Signalled, Selected, MyCommand, Writing, Reading, secs_op,
              OnlyTimeoutPanics
<1>2. ASSUME NEW t \in Threads, Step(t) PROVE IdeInv'
  BY <1>2, LockStep, ExpectStep, CommandStep, SemaStep, BusyWaitStep, ReadStep, WriteStep,
     UnlockStep DEF Step
<1>3. ASSUME NEW t \in Threads, Call(t) PROVE IdeInv'
  BY <1>3, CallStep
<1>4. ASSUME NEW t \in Threads, NEW hd \in Disks, identify_disk(t, hd) PROVE IdeInv'
  BY <1>4, IdentifyStep
<1>5. CASE intr_hd_handler
  BY <1>5, HandlerStep
<1>6. CASE Controller
  BY <1>6, DataReadyStep, ReadyForDataStep, StoreStep DEF Controller
<1> QED BY <1>1, <1>2, <1>3, <1>4, <1>5, <1>6 DEF Next

\* IdeInv holds all the time.
LEMMA IdeInvAlways == Spec => []IdeInv
<1>1. Init => IdeInv
  BY InitInv
<1>2. IdeInv /\ [Next]_vars => IdeInv'
  BY StepInv
<1> QED BY <1>1, <1>2, PTL DEF Spec

\* The registers stay in their ranges, the semaphore never counts more than one
\* interrupt, and only values of sectors get on the disks.
THEOREM IdeTypeCorrect == Spec => []TypeOK
<1>1. IdeInv => TypeOK
  BY DEF IdeInv
<1> QED BY <1>1, IdeInvAlways, PTL

\* Whatever interrupt intr_hd_handler takes, it belongs to the command of the one
\* thread that is in the channel: the comment in the handler is right.
THEOREM InterruptAlwaysMine == Spec => []InterruptIsMine
<1>1. IdeInv => InterruptIsMine
  <2> SUFFICES ASSUME IdeInv PROVE InterruptIsMine
    OBVIOUS
  <2>0. TypeOK
    BY DEF IdeInv
  <2>1. ASSUME irq \/ disk_done > 0 \/ expecting_intr
        PROVE  \E t \in Threads : pc[t] \in {"out", "wait", "poll", "xfer"} /\ ChannelAt(t)
    <3>1. ~Calm
      BY <2>0, <2>1 DEF Calm
    <3>2. PICK t \in Threads : pc[t] \in {"out", "wait", "poll", "xfer"}
      BY <3>1, OwnerExists
    <3>3. ChannelAt(t)
      BY DEF IdeInv, ChannelOK
    <3> QED BY <3>2, <3>3
  <2>2. ASSUME irq \/ disk_done > 0
        PROVE  /\ \E t \in Threads : /\ pc[t] \in {"out", "poll", "xfer", "wait"}
                                     /\ ~(pc[t] \in {"poll", "xfer"} /\ r[t].op # "write")
               /\ irq => expecting_intr
    <3>1. PICK t \in Threads : pc[t] \in {"out", "wait", "poll", "xfer"} /\ ChannelAt(t)
      BY <2>1, <2>2
    <3>2. pc[t] = "wait" /\ (irq => expecting_intr)
      BY <2>2, <3>1 DEF ChannelAt, Pending, Writing, Reading, Signalled, Calm
    <3> QED BY <3>2
  <2>3. ASSUME expecting_intr, ctl.st = "ready", ~irq
        PROVE  \E t \in Threads : pc[t] = "out"
    <3>1. PICK t \in Threads : pc[t] \in {"out", "wait", "poll", "xfer"} /\ ChannelAt(t)
      BY <2>1, <2>3
    <3>2. pc[t] = "out"
      BY <2>3, <3>1 DEF ChannelAt, Pending, Writing, Reading, Signalled, Calm
    <3> QED BY <3>2
  <2> QED BY <2>2, <2>3 DEF InterruptIsMine
<1> QED BY <1>1, IdeInvAlways, PTL

\* busy_wait stops the kernel only when the controller stayed busy for its whole
\* limit.
THEOREM PanicsOnlyOnTimeout == Spec => []OnlyTimeoutPanics
<1>1. IdeInv => OnlyTimeoutPanics
  BY DEF IdeInv
<1> QED BY <1>1, IdeInvAlways, PTL

-----------------------------------------------------------------------------
(* The driver implements the abstract disks *)

\* A thread that is not in the channel, or stays where it is in a command without
\* a sector being stored, has the same abstract request.
LEMMA SameRequest ==
  ASSUME NEW u \in Threads, pc'[u] = pc[u], r'[u] = r[u],
         pc[u] # "wait" \/ ctl'.done = ctl.done
  PROVE  AbstractRequest(u)' = AbstractRequest(u)
BY DEF AbstractRequest

\* While t is in the channel, the others are not, and none of them is half done.
LEMMA OthersWait ==
  ASSUME IdeInv, NEW t \in Threads, Active(t), NEW u \in Threads, u # t
  PROVE  /\ pc[u] # "wait"
         /\ AbstractRequest(u) = NoRequest \/ AbstractRequest(u).done = 0
<1>1. pc[u] \in {"idle", "lock"}
  BY DEF IdeInv, OneInChannel, Active
<1>2. pc[u] = "idle" => AbstractRequest(u) = NoRequest
  BY DEF IdeInv, RequestsOK, RequestOK, AbstractRequest, NoRequest
<1>3. pc[u] = "lock" => AbstractRequest(u) = NoRequest \/ AbstractRequest(u).done = 0
  BY DEF IdeInv, RequestsOK, RequestOK, AbstractRequest
<1> QED BY <1>1, <1>2, <1>3

\* The abstract request of a thread in the channel.
LEMMA MyRequest ==
  ASSUME IdeInv, NEW t \in Threads, pc[t] # "idle", r[t].op # "identify"
  PROVE  /\ AbstractRequest(t) =
              [op |-> r[t].op, hd |-> r[t].hd, lba |-> r[t].lba, n |-> r[t].n, data |-> r[t].data,
               done |-> r[t].done + IF r[t].op = "write" /\ pc[t] = "wait" THEN ctl.done ELSE 0]
         /\ AbstractRequest(t) # NoRequest
         /\ r[t].op \in {"read", "write"} /\ r[t].done \in Nat /\ r[t].n \in Nat
<1>1. r[t] \in Requests
  BY InRequest
<1>2. r[t].op \in {"read", "write"} /\ r[t].done \in Nat /\ r[t].n \in Nat
  BY <1>1 DEF Requests
<1> QED BY <1>2 DEF AbstractRequest, NoRequest

\* identify_disk is no request of the abstract disks.
LEMMA NotARequest ==
  ASSUME NEW t \in Threads, r[t].op = "identify"
  PROVE  AbstractRequest(t) = NoRequest
BY DEF AbstractRequest

\* If no abstract request changes and no sector, nothing happens to the disks.
LEMMA Stutter ==
  ASSUME \A u \in Threads : AbstractRequest(u)' = AbstractRequest(u), platter' = platter
  PROVE  UNCHANGED D!vars
BY DEF D!vars

\* One abstract request changes.
LEMMA OneChanges ==
  ASSUME NEW t \in Threads, NEW X, AbstractRequest(t)' = X,
         \A u \in Threads : u # t => AbstractRequest(u)' = AbstractRequest(u)
  PROVE  [u \in Threads |-> AbstractRequest(u)]' =
            [[u \in Threads |-> AbstractRequest(u)] EXCEPT ![t] = X]
OBVIOUS

\* The steps of a thread that move no sector into the caller's buffer.
LEMMA QuietSteps ==
  ASSUME IdeInv, NEW t \in Threads,
         \/ lock_acquire(t) \/ Expect(t) \/ cmd_out(t) \/ sema_down(t) \/ busy_wait(t)
         \/ write2sector(t)
  PROVE  UNCHANGED D!vars
<1>1. platter' = platter
  BY DEF lock_acquire, Expect, cmd_out, sema_down, busy_wait, write2sector
<1>2. TypeOK /\ r \in [Threads -> Requests \cup {NoRequest}] /\ ctl \in ControllerStates
  BY DEF IdeInv, RequestsOK, ChannelOK
<1>3. pc[t] # "idle" /\ r[t] \in Requests
  <2>1. pc[t] # "idle"
    BY DEF lock_acquire, Expect, cmd_out, sema_down, busy_wait, write2sector
  <2> QED BY <2>1, InRequest
<1>4. ASSUME NEW u \in Threads, u # t PROVE AbstractRequest(u)' = AbstractRequest(u)
  <2>1. pc'[u] = pc[u]
    BY <1>2, <1>4 DEF lock_acquire, Expect, cmd_out, sema_down, busy_wait, write2sector, Goto, TypeOK
  <2>2. r'[u] = r[u]
    BY <1>2, <1>4 DEF lock_acquire, Expect, cmd_out, sema_down, busy_wait, write2sector
  <2>3. pc[u] # "wait" \/ ctl'.done = ctl.done
    <3>1. CASE lock_acquire(t)
      BY <3>1 DEF lock_acquire
    <3>2. CASE ~lock_acquire(t)
      <4>1. Active(t)
        BY <3>2 DEF Expect, cmd_out, sema_down, busy_wait, write2sector, Active
      <4> QED BY <1>4, <4>1, OthersWait
    <3> QED BY <3>1, <3>2
  <2> QED BY <2>1, <2>2, <2>3, SameRequest
<1>5. AbstractRequest(t)' = AbstractRequest(t)
  <2>1. CASE lock_acquire(t)
    <3>1. r' = r /\ ctl' = ctl /\ pc[t] = "lock" /\ pc'[t] = "cmd"
      BY <1>2, <2>1 DEF lock_acquire, Goto, TypeOK
    <3> QED BY <3>1 DEF AbstractRequest
  <2>2. CASE Expect(t)
    <3>1. r' = r /\ ctl' = ctl /\ pc[t] = "cmd" /\ pc'[t] = "out"
      BY <1>2, <2>2 DEF Expect, Goto, TypeOK
    <3> QED BY <3>1 DEF AbstractRequest
  <2>3. CASE cmd_out(t)
    <3>1. pc[t] = "out" /\ pc'[t] = IF r[t].op = "write" THEN "poll" ELSE "wait"
      BY <1>2, <2>3 DEF cmd_out, Goto, TypeOK
    <3>2. r'[t] = [r[t] EXCEPT !.limit = TIME_LIMIT]
      BY <1>2, <2>3 DEF cmd_out
    <3>3. /\ r'[t].op = r[t].op /\ r'[t].hd = r[t].hd /\ r'[t].lba = r[t].lba
          /\ r'[t].n = r[t].n /\ r'[t].data = r[t].data /\ r'[t].done = r[t].done
      BY <1>3, <3>2 DEF Requests
    <3> QED BY <3>1, <3>3 DEF AbstractRequest
  <2>4. CASE sema_down(t)
    <3>1. pc[t] = "wait"
      BY <2>4 DEF sema_down
    <3>2. CASE r[t].op = "write"
      <4>1. r'[t] = [r[t] EXCEPT !.done = @ + secs_op(t)] /\ ctl' = ctl /\ disk_done > 0
        BY <1>2, <2>4, <3>2 DEF sema_down
      <4>2. /\ r'[t].op = r[t].op /\ r'[t].hd = r[t].hd /\ r'[t].lba = r[t].lba
            /\ r'[t].n = r[t].n /\ r'[t].data = r[t].data /\ r'[t].done = r[t].done + secs_op(t)
        BY <1>3, <4>1 DEF Requests
      <4>3. pc'[t] # "wait"
        <5>1. pc'[t] = Next_command(t)
          BY <1>2, <2>4, <3>2 DEF sema_down, Goto, TypeOK
        <5> QED BY <5>1 DEF Next_command
      <4>4. ctl.done = secs_op(t)
        <5>1. MyCommand(t) /\ Writing(t)
          BY <3>1, <3>2, OnDisk
        <5>2. ctl.done = ctl.cnt
          BY <3>1, <4>1, <5>1 DEF Writing, Pending
        <5> QED BY <5>1, <5>2 DEF MyCommand
      <4>5. secs_op(t) \in Nat /\ r[t].done \in Nat
        BY <1>2, <1>3, <4>4 DEF ControllerStates, Requests
      <4>6. r'[t].done + 0 = r[t].done + ctl.done
        BY <4>2, <4>4, <4>5
      <4> QED BY <3>1, <3>2, <4>2, <4>3, <4>6 DEF AbstractRequest
    <3>3. CASE r[t].op # "write"
      <4>1. r' = r
        BY <2>4, <3>3 DEF sema_down
      <4> QED BY <3>3, <4>1 DEF AbstractRequest
    <3> QED BY <3>2, <3>3
  <2>5. CASE busy_wait(t)
    <3>1. pc[t] = "poll" /\ pc'[t] # "wait"
      BY <1>2, <2>5 DEF busy_wait, Goto, TypeOK
    <3>2. r'[t] = [r[t] EXCEPT !.limit = @ - 1]
      BY <1>2, <2>5 DEF busy_wait
    <3>3. /\ r'[t].op = r[t].op /\ r'[t].hd = r[t].hd /\ r'[t].lba = r[t].lba
          /\ r'[t].n = r[t].n /\ r'[t].data = r[t].data /\ r'[t].done = r[t].done
      BY <1>3, <3>2 DEF Requests
    <3> QED BY <3>1, <3>3 DEF AbstractRequest
  <2>6. CASE write2sector(t)
    <3>1. pc[t] = "xfer" /\ pc'[t] = "wait" /\ r' = r /\ r[t].op = "write"
      BY <1>2, <2>6 DEF write2sector, Goto, TypeOK
    <3>2. ctl.done = 0
      <4>1. Writing(t)
        BY <3>1, OnDisk
      <4> QED BY <3>1, <4>1 DEF Writing
    <3>3. ctl'.done = ctl.done
      BY <1>2, <2>6 DEF write2sector, ControllerStates
    <3> QED BY <3>1, <3>2, <3>3 DEF AbstractRequest
  <2> QED BY <2>1, <2>2, <2>3, <2>4, <2>5, <2>6
<1> QED BY <1>1, <1>4, <1>5, Stutter

\* The handler, and the controller while it stores nothing, do nothing to the
\* abstract disks.
LEMMA QuietOutside ==
  ASSUME IdeInv, intr_hd_handler \/ DataReady \/ ReadyForData
  PROVE  UNCHANGED D!vars
<1>1. UNCHANGED <<pc, r, platter>>
  BY DEF intr_hd_handler, DataReady, ReadyForData, driver
<1>2. ctl'.done = ctl.done
  <2>1. ctl \in ControllerStates
    BY DEF IdeInv, ChannelOK
  <2> QED BY <2>1 DEF intr_hd_handler, DataReady, ReadyForData, ControllerStates
<1>3. \A u \in Threads : AbstractRequest(u)' = AbstractRequest(u)
  BY <1>1, <1>2, SameRequest
<1> QED BY <1>1, <1>3, Stutter

\* identify_disk comes before there are requests.
LEMMA QuietIdentify ==
  ASSUME IdeInv, NEW t \in Threads, NEW hd \in Disks, identify_disk(t, hd)
  PROVE  UNCHANGED D!vars
<1>1. /\ r' = [r EXCEPT ![t] = Request("identify", hd, 0, 1, <<>>)] /\ platter' = platter
      /\ pc' = [pc EXCEPT ![t] = "cmd"] /\ \A u \in Threads : pc[u] = "idle" /\ ctl' = ctl
  BY DEF identify_disk, Goto
<1>2. TypeOK /\ r \in [Threads -> Requests \cup {NoRequest}]
  BY DEF IdeInv, RequestsOK
<1>3. r[t] = NoRequest
  BY <1>1 DEF IdeInv, RequestsOK, RequestOK
<1>4. AbstractRequest(t) = NoRequest
  BY <1>3 DEF AbstractRequest, NoRequest
<1>5. AbstractRequest(t)' = NoRequest
  <2>1. r'[t].op = "identify"
    BY <1>1, <1>2 DEF Request
  <2> QED BY <2>1 DEF AbstractRequest
<1>6. \A u \in Threads : u # t => AbstractRequest(u)' = AbstractRequest(u)
  <2>1. \A u \in Threads : u # t => r'[u] = r[u] /\ pc'[u] = pc[u]
    BY <1>1, <1>2 DEF TypeOK
  <2> QED BY <1>1, <2>1, SameRequest
<1> QED BY <1>1, <1>4, <1>5, <1>6, Stutter

\* A call of the driver is a call of the abstract disks.
LEMMA CallRefines ==
  ASSUME IdeInv, NEW t \in Threads, Call(t)
  PROVE  D!Call(t)
<1> DEFINE req == [u \in Threads |-> AbstractRequest(u)]
<1>1. pc[t] = "idle" /\ pc' = [pc EXCEPT ![t] = "lock"] /\ platter' = platter /\ ctl' = ctl
  BY DEF Call, Goto
<1>2. PICK hd \in Disks, lba \in 0..NSectors - 1, n \in 1..MaxCount :
        /\ lba + n <= NSectors
        /\ \/ r' = [r EXCEPT ![t] = Request("read", hd, lba, n, <<>>)]
           \/ \E data \in [1..n -> Values] :
                r' = [r EXCEPT ![t] = Request("write", hd, lba, n, data)]
  BY DEF Call
<1>3. TypeOK /\ r \in [Threads -> Requests \cup {NoRequest}]
  BY DEF IdeInv, RequestsOK
<1>4. pc'[t] = "lock" /\ \A u \in Threads : u # t => pc'[u] = pc[u] /\ r'[u] = r[u]
  BY <1>1, <1>2, <1>3 DEF TypeOK
<1>5. \A u \in Threads : u # t => AbstractRequest(u)' = AbstractRequest(u)
  BY <1>1, <1>4, SameRequest
<1>6. req[t] = NoRequest
  <2>1. r[t] = NoRequest
    BY <1>1 DEF IdeInv, RequestsOK, RequestOK
  <2> QED BY <2>1 DEF AbstractRequest, NoRequest
<1>7. ASSUME NEW op \in {"read", "write"}, NEW data,
             r' = [r EXCEPT ![t] = Request(op, hd, lba, n, data)]
      PROVE  req' = [req EXCEPT ![t] = D!Request(op, hd, lba, n, data)]
  <2>1. r'[t] = Request(op, hd, lba, n, data)
    BY <1>3, <1>7
  <2>2. /\ r'[t].op = op /\ r'[t].hd = hd /\ r'[t].lba = lba /\ r'[t].n = n
        /\ r'[t].data = data /\ r'[t].done = 0
    BY <2>1 DEF Request
  <2>3. AbstractRequest(t)' = D!Request(op, hd, lba, n, data)
    BY <1>4, <2>2 DEF AbstractRequest, D!Request
  <2> QED BY <1>5, <2>3, OneChanges
<1>8. \/ req' = [req EXCEPT ![t] = D!Request("read", hd, lba, n, <<>>)]
      \/ \E data \in [1..n -> Values] :
           req' = [req EXCEPT ![t] = D!Request("write", hd, lba, n, data)]
  BY <1>2, <1>7
<1> HIDE DEF req
<1> QED BY <1>1, <1>2, <1>6, <1>8 DEF D!Call, req

\* The driver returns when all sectors have been moved.
LEMMA ReturnRefines ==
  ASSUME IdeInv, NEW t \in Threads, lock_release(t)
  PROVE  D!Return(t) \/ UNCHANGED D!vars
<1> DEFINE req == [u \in Threads |-> AbstractRequest(u)]
<1>1. /\ pc[t] \in {"unlock", "identified"} /\ pc' = [pc EXCEPT ![t] = "idle"]
      /\ r' = [r EXCEPT ![t] = NoRequest] /\ platter' = platter /\ ctl' = ctl
  BY DEF lock_release, Goto
<1>2. TypeOK /\ r \in [Threads -> Requests \cup {NoRequest}]
  BY DEF IdeInv, RequestsOK
<1>3. \A u \in Threads : u # t => AbstractRequest(u)' = AbstractRequest(u)
  <2>1. \A u \in Threads : u # t => r'[u] = r[u] /\ pc'[u] = pc[u]
    BY <1>1, <1>2 DEF TypeOK
  <2> QED BY <1>1, <2>1, SameRequest
<1>4. AbstractRequest(t)' = NoRequest
  <2>1. r'[t] = NoRequest
    BY <1>1, <1>2
  <2> QED BY <2>1 DEF AbstractRequest, NoRequest
<1>5. CASE r[t].op = "identify"
  <2>1. AbstractRequest(t) = NoRequest
    BY <1>5, NotARequest
  <2> QED BY <1>1, <1>3, <1>4, <2>1, Stutter
<1>6. CASE r[t].op # "identify"
  <2>1. r[t].done = r[t].n
    BY <1>1, InRequest DEF RequestOK
  <2>2. /\ AbstractRequest(t) # NoRequest /\ AbstractRequest(t).n = r[t].n
        /\ AbstractRequest(t).done = r[t].done + 0
        /\ r[t].done \in Nat
    BY <1>1, <1>6, MyRequest
  <2>3. AbstractRequest(t).done = AbstractRequest(t).n
    BY <2>1, <2>2
  <2>4. req' = [req EXCEPT ![t] = NoRequest]
    BY <1>3, <1>4, OneChanges
  <2>5. req[t] # NoRequest /\ req[t].done = req[t].n
    BY <2>2, <2>3
  <2> HIDE DEF req
  <2> QED BY <1>1, <2>4, <2>5 DEF D!Return, req
<1> QED BY <1>5, <1>6

\* A command's worth of a read: the caller gets what is on the disk.
LEMMA ReadRefines ==
  ASSUME IdeInv, NEW t \in Threads, read_from_sector(t)
  PROVE  D!Move(t) \/ UNCHANGED D!vars
<1> DEFINE req == [u \in Threads |-> AbstractRequest(u)]
           k == secs_op(t)
           part == SubSeq(ctl.buf, 1, Sectors(k % UINT8))
<1>1. /\ pc[t] = "xfer" /\ r[t].op # "write"
      /\ r' = [r EXCEPT ![t].data = @ \o part, ![t].done = @ + k]
      /\ pc' = [pc EXCEPT ![t] = Next_command(t)] /\ platter' = platter
  BY DEF read_from_sector, Goto
<1>2. TypeOK /\ r \in [Threads -> Requests \cup {NoRequest}] /\ ctl \in ControllerStates
  BY DEF IdeInv, RequestsOK, ChannelOK
<1>3. /\ MyCommand(t) /\ Reading(t) /\ r[t] \in Requests
      /\ ctl.cnt \in 1..UINT8 /\ r[t].done + ctl.cnt <= r[t].n
  BY <1>1, OnDisk
<1>4. k = ctl.cnt /\ k \in 1..UINT8 /\ k \in Nat /\ Sectors(k % UINT8) = k
  <2>1. k = ctl.cnt /\ k \in 1..UINT8
    BY <1>3 DEF MyCommand
  <2> HIDE DEF k
  <2> QED BY <2>1, CountFits
<1>5. /\ ctl.buf \in Seq(Values) /\ Len(ctl.buf) = k
      /\ \A i \in 1..k : ctl.buf[i] = platter[ctl.hd][ctl.lba + i - 1]
  <2> HIDE DEF k
  <2> QED BY <1>1, <1>2, <1>3, <1>4 DEF Reading, ControllerStates
<1>6. part = [i \in 1..k |-> platter[ctl.hd][ctl.lba + i - 1]]
  <2> HIDE DEF k
  <2>1. part = SubSeq(ctl.buf, 1, k)
    BY <1>4
  <2>2. SubSeq(ctl.buf, 1, k) = [i \in 1..k |-> ctl.buf[i]]
    BY <1>4, <1>5
  <2> QED BY <1>5, <2>1, <2>2
<1> HIDE DEF k, part
<1>7. /\ r'[t] = [r[t] EXCEPT !.data = @ \o part, !.done = @ + k]
      /\ \A u \in Threads : u # t => r'[u] = r[u] /\ pc'[u] = pc[u]
  BY <1>1, <1>2, <1>3 DEF TypeOK, Requests
<1>8. /\ r'[t].op = r[t].op /\ r'[t].hd = r[t].hd /\ r'[t].lba = r[t].lba /\ r'[t].n = r[t].n
      /\ r'[t].data = r[t].data \o part /\ r'[t].done = r[t].done + k
  BY <1>3, <1>7 DEF Requests
<1>9. ASSUME NEW u \in Threads, u # t
      PROVE  /\ AbstractRequest(u)' = AbstractRequest(u)
             /\ AbstractRequest(u) = NoRequest \/ AbstractRequest(u).done = 0
  <2>1. Active(t)
    BY <1>1 DEF Active
  <2>2. pc[u] # "wait" /\ (AbstractRequest(u) = NoRequest \/ AbstractRequest(u).done = 0)
    BY <1>9, <2>1, OthersWait
  <2> QED BY <1>7, <1>9, <2>2, SameRequest
<1>10. CASE r[t].op = "identify"
  <2>1. AbstractRequest(t) = NoRequest /\ AbstractRequest(t)' = NoRequest
    BY <1>8, <1>10 DEF AbstractRequest
  <2> QED BY <1>1, <1>9, <2>1, Stutter
<1>11. CASE r[t].op # "identify"
  <2> DEFINE q == AbstractRequest(t)
             more == r[t].data \o part
             d == r[t].done + k
  <2>1. /\ r[t].op = "read" /\ r[t].done \in Nat /\ r[t].n \in Nat /\ r[t].lba \in Nat
        /\ ctl.hd = r[t].hd /\ ctl.lba = r[t].lba + r[t].done
    BY <1>1, <1>3, <1>11 DEF Requests, MyCommand
  <2>2. /\ q = [op |-> "read", hd |-> r[t].hd, lba |-> r[t].lba, n |-> r[t].n,
                data |-> r[t].data, done |-> r[t].done]
        /\ q # NoRequest
    BY <2>1 DEF AbstractRequest, NoRequest
  <2>3. r'[t].data = more /\ r'[t].done = d /\ d \in Nat
    BY <1>4, <1>8, <2>1
  <2>4. AbstractRequest(t)' = [q EXCEPT !.done = d, !.data = more]
    <3> HIDE DEF more, d
    <3>1. AbstractRequest(t)' = [op |-> "read", hd |-> r[t].hd, lba |-> r[t].lba, n |-> r[t].n,
                                 data |-> more, done |-> d]
      BY <1>8, <2>1, <2>3 DEF AbstractRequest
    <3> HIDE DEF q
    <3>2. ASSUME NEW X, X = [q EXCEPT !.done = d, !.data = more]
          PROVE  X = [op |-> "read", hd |-> r[t].hd, lba |-> r[t].lba, n |-> r[t].n,
                      data |-> more, done |-> d]
      BY <2>2, <3>2
    <3> QED BY <3>1, <3>2
  <2>5. req' = [req EXCEPT ![t].done = d, ![t].data = more]
    <3>1. req' = [req EXCEPT ![t] = [q EXCEPT !.done = d, !.data = more]]
      BY <1>9, <2>4, OneChanges
    <3>2. req[t] = q
      OBVIOUS
    <3> HIDE DEF q, d, more
    <3>3. [req EXCEPT ![t] = [q EXCEPT !.done = d, !.data = more]] =
             [req EXCEPT ![t].done = d, ![t].data = more]
      BY <2>2, <3>2
    <3> QED BY <3>1, <3>3
  <2>6. part = [i \in 1..k |-> platter[q.hd][q.lba + q.done + i - 1]]
    BY <1>6, <2>1, <2>2
  <2>7. k \in 1..q.n - q.done
    BY <1>3, <1>4, <2>1, <2>2
  <2>8. \A u \in Threads \ {t} : ~D!HalfDone(u)
    <3>1. \A u \in Threads : req[u] = AbstractRequest(u)
      OBVIOUS
    <3> QED BY <1>9, <3>1 DEF D!HalfDone
  <2>9. /\ req[t] = q /\ q # NoRequest /\ q.op = "read" /\ q.lba = r[t].lba
        /\ q.done = r[t].done /\ q.data = r[t].data
    BY <2>2
  <2> HIDE DEF q
  <2>10. D!MoveSectors(t, k)
    <3>1. req' = [req EXCEPT ![t].done = req[t].done + k, ![t].data = req[t].data \o
              [i \in 1..k |-> platter[req[t].hd][req[t].lba + req[t].done + i - 1]]]
      BY <2>5, <2>6, <2>9
    <3> QED BY <1>1, <2>9, <3>1 DEF D!MoveSectors
  <2>11. D!Move(t)
    BY <2>7, <2>8, <2>9, <2>10 DEF D!Move
  <2> QED BY <2>11
<1> QED BY <1>10, <1>11

\* A sector that the controller stores is the next one of the request that waits.
LEMMA StoreRefines ==
  ASSUME IdeInv, Store
  PROVE  \E t \in Threads : D!Move(t)
<1> DEFINE req == [u \in Threads |-> AbstractRequest(u)]
           v == ctl.buf[ctl.done + 1]
<1>1. /\ platter' = [platter EXCEPT ![ctl.hd][ctl.lba + ctl.done] = v]
      /\ ctl'.done = ctl.done + 1
      /\ UNCHANGED <<pc, r>>
  <2>1. ctl \in ControllerStates
    BY DEF IdeInv, ChannelOK
  <2> QED BY <2>1 DEF Store, driver, ControllerStates
<1>2. PICK t \in Threads :
        /\ pc[t] = "wait" /\ r[t].op = "write"
        /\ ctl.done < ctl.cnt /\ v \in Values
        /\ ctl.hd \in Disks /\ ctl.lba + ctl.done \in 0..NSectors - 1
        /\ v = r[t].data[r[t].done + ctl.done + 1]
  BY StoreFacts
<1>3. /\ MyCommand(t) /\ r[t] \in Requests /\ ctl \in ControllerStates
      /\ r[t].done + ctl.cnt <= r[t].n
  BY <1>2, OnDisk
<1>4. /\ r[t].done \in Nat /\ r[t].n \in Nat /\ r[t].lba \in Nat /\ ctl.done \in Nat /\ ctl.cnt \in Nat
      /\ ctl.hd = r[t].hd /\ ctl.lba = r[t].lba + r[t].done
  BY <1>2, <1>3 DEF Requests, ControllerStates, MyCommand
<1>5. ASSUME NEW u \in Threads, u # t
      PROVE  /\ AbstractRequest(u)' = AbstractRequest(u)
             /\ AbstractRequest(u) = NoRequest \/ AbstractRequest(u).done = 0
  <2>1. Active(t)
    BY <1>2 DEF Active
  <2>2. pc[u] # "wait" /\ (AbstractRequest(u) = NoRequest \/ AbstractRequest(u).done = 0)
    BY <1>5, <2>1, OthersWait
  <2> QED BY <1>1, <2>2, SameRequest
<1> DEFINE q == AbstractRequest(t)
           d == r[t].done + ctl.done
<1>6. d \in Nat /\ d + 1 <= r[t].n /\ r[t].done + (ctl.done + 1) = d + 1
  BY <1>2, <1>3, <1>4
<1>7. /\ q = [op |-> "write", hd |-> r[t].hd, lba |-> r[t].lba, n |-> r[t].n,
              data |-> r[t].data, done |-> d]
      /\ q # NoRequest
  BY <1>2 DEF AbstractRequest, NoRequest
<1>8. AbstractRequest(t)' = [q EXCEPT !.done = d + 1]
  <2> HIDE DEF d
  <2>1. AbstractRequest(t)' = [op |-> "write", hd |-> r[t].hd, lba |-> r[t].lba, n |-> r[t].n,
                               data |-> r[t].data, done |-> d + 1]
    BY <1>1, <1>2, <1>6 DEF AbstractRequest
  <2> HIDE DEF q
  <2>2. ASSUME NEW X, X = [q EXCEPT !.done = d + 1]
        PROVE  X = [op |-> "write", hd |-> r[t].hd, lba |-> r[t].lba, n |-> r[t].n,
                    data |-> r[t].data, done |-> d + 1]
    BY <1>7, <2>2
  <2> QED BY <2>1, <2>2
<1>9. req' = [req EXCEPT ![t].done = d + 1]
  <2>1. req' = [req EXCEPT ![t] = [q EXCEPT !.done = d + 1]]
    BY <1>5, <1>8, OneChanges
  <2>2. req[t] = q
    OBVIOUS
  <2> HIDE DEF q, d
  <2>3. [req EXCEPT ![t] = [q EXCEPT !.done = d + 1]] = [req EXCEPT ![t].done = d + 1]
    BY <1>7, <2>2
  <2> QED BY <2>1, <2>3
<1>10. platter' = [platter EXCEPT ![q.hd] = [s \in 0..NSectors - 1 |->
                     IF s - q.lba \in q.done..(q.done + 1 - 1)
                       THEN q.data[s - q.lba + 1] ELSE platter[q.hd][s]]]
  <2> DEFINE new == [s \in 0..NSectors - 1 |-> IF s - q.lba \in q.done..(q.done + 1 - 1)
                                                 THEN q.data[s - q.lba + 1] ELSE platter[q.hd][s]]
  <2>1. platter \in [Disks -> [0..NSectors - 1 -> Values]]
    BY DEF IdeInv, TypeOK
  <2>2. /\ q.hd = ctl.hd /\ q.lba = r[t].lba /\ q.done = d /\ q.data = r[t].data
        /\ q.lba + d = ctl.lba + ctl.done /\ q.lba \in Nat
    BY <1>4, <1>7
  <2>3. v = q.data[d + 1]
    BY <1>2, <2>2
  <2> HIDE DEF q, d, v
  <2>4. \A s \in 0..NSectors - 1 : s - q.lba \in q.done..(q.done + 1 - 1) <=> s = ctl.lba + ctl.done
    BY <1>2, <1>6, <2>2
  <2>5. (ctl.lba + ctl.done) - q.lba + 1 = d + 1
    BY <1>2, <1>6, <2>2
  <2>6. new = [platter[ctl.hd] EXCEPT ![ctl.lba + ctl.done] = v]
    <3>1. platter[ctl.hd] \in [0..NSectors - 1 -> Values]
      BY <1>2, <2>1
    <3>2. \A s \in 0..NSectors - 1 :
            new[s] = IF s = ctl.lba + ctl.done THEN v ELSE platter[ctl.hd][s]
      BY <2>2, <2>3, <2>4, <2>5
    <3> HIDE DEF new
    <3>3. new = [s \in 0..NSectors - 1 |-> new[s]]
      BY DEF new
    <3> QED BY <3>1, <3>2, <3>3
  <2> HIDE DEF new
  <2>7. platter' = [platter EXCEPT ![ctl.hd] = new]
    BY <1>1, <2>6
  <2> QED BY <2>2, <2>7 DEF new
<1>11. req[t] = q /\ q.op = "write" /\ q.done = d /\ q.n = r[t].n
  BY <1>7
<1>12. \A u \in Threads \ {t} : ~D!HalfDone(u)
  <2>1. \A u \in Threads : req[u] = AbstractRequest(u)
    OBVIOUS
  <2> QED BY <1>5, <2>1 DEF D!HalfDone
<1>13. 1 \in 1..q.n - q.done
  BY <1>4, <1>6, <1>11
<1> HIDE DEF q, d
<1>14. D!MoveSectors(t, 1)
  BY <1>9, <1>10, <1>11 DEF D!MoveSectors
<1>15. D!Move(t)
  BY <1>7, <1>11, <1>12, <1>13, <1>14 DEF D!Move
<1> QED BY <1>15

\* Every step of the driver, the handler and the controller is a step of the
\* abstract disks or changes nothing there.
LEMMA StepRefines ==
  ASSUME IdeInv, [Next]_vars
  PROVE  [D!Next]_D!vars
<1>1. CASE UNCHANGED vars
  <2>1. UNCHANGED <<pc, r, ctl, platter>>
    BY <1>1 DEF vars
  <2>2. \A u \in Threads : AbstractRequest(u)' = AbstractRequest(u)
    BY <2>1, SameRequest
  <2>3. UNCHANGED D!vars
    BY <2>1, <2>2, Stutter
  <2> QED BY <2>3
<1>2. ASSUME NEW t \in Threads, Step(t) PROVE [D!Next]_D!vars
  <2>1. CASE lock_release(t)
    BY <2>1, ReturnRefines DEF D!Next
  <2>2. CASE read_from_sector(t)
    BY <2>2, ReadRefines DEF D!Next
  <2>3. CASE \/ lock_acquire(t) \/ Expect(t) \/ cmd_out(t) \/ sema_down(t) \/ busy_wait(t)
             \/ write2sector(t)
    BY <2>3, QuietSteps
  <2> QED BY <1>2, <2>1, <2>2, <2>3 DEF Step
<1>3. ASSUME NEW t \in Threads, Call(t) PROVE [D!Next]_D!vars
  BY <1>3, CallRefines DEF D!Next
<1>4. ASSUME NEW t \in Threads, NEW hd \in Disks, identify_disk(t, hd) PROVE [D!Next]_D!vars
  BY <1>4, QuietIdentify
<1>5. CASE intr_hd_handler
  BY <1>5, QuietOutside
<1>6. CASE Controller
  BY <1>6, QuietOutside, StoreRefines DEF Controller, D!Next
<1> QED BY <1>1, <1>2, <1>3, <1>4, <1>5, <1>6 DEF Next

\* ide_read and ide_write implement the abstract disks: whatever the interleaving
\* of threads, handler and controller, each request moves exactly its sectors, in
\* order and undisturbed by the others, and returns when it is done.
THEOREM DriverImplementsDisk == Spec => ImplementsDisk
<1>1. Init => D!Init
  <2> SUFFICES ASSUME Init PROVE D!Init
    OBVIOUS
  <2>1. platter \in [Disks -> [0..NSectors - 1 -> Values]]
    BY DEF Init
  <2>2. \A u \in Threads : AbstractRequest(u) = NoRequest
    BY DEF Init, AbstractRequest, NoRequest
  <2> QED BY <2>1, <2>2 DEF D!Init
<1>2. IdeInv /\ [Next]_vars => [D!Next]_D!vars
  BY StepRefines
<1> QED BY <1>1, <1>2, IdeInvAlways, PTL DEF Spec, ImplementsDisk, D!Spec
=============================================================================
