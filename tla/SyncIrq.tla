------------------------------ MODULE SyncIrq ------------------------------
(***************************************************************************)
(* Sync with the keyboard interrupt: its handler echoes the character      *)
(* through the console lock (keyboard.c, n_tty_receive_buf in tty.c,       *)
(* console.c), on the stack of whatever thread it interrupts and therefore *)
(* as that thread.  The interrupted thread may be inside lock_acquire or   *)
(* lock_release of the same lock, with interrupts on: printk after a disk  *)
(* access is, since mtime_sleep turns interrupts on in the system call.    *)
(***************************************************************************)
EXTENDS Sync

CONSTANT ConsoleLock    \* console_lock, one of Locks

VARIABLE irq    \* what a thread was doing when the handler started on top of
                \* it, and how far the handler is; NULL: no handler

NoHandler(t) == irq[t] = NULL

IrqInit == Init /\ irq = [t \in Threads |-> NULL]

\* intr_keyboard_handler starts: interrupts are on in a thread that is running.
keyboard_interrupt(t) ==
    /\ NoHandler(t)
    /\ t \notin blocked
    /\ irq' = [irq EXCEPT ![t] = [pc |-> pc[t], lk |-> lk[t], cv |-> cv[t],
                                  done |-> "nothing"]]
    /\ Goto(t, "run")
    /\ lk' = [lk EXCEPT ![t] = NULL]
    /\ cv' = [cv EXCEPT ![t] = NULL]
    /\ UNCHANGED <<lockVars, cvVars, blocked>>

\* console_put_char: console_acquire, the character, console_release.
console_acquire(t) ==
    /\ ~NoHandler(t)
    /\ irq[t].done = "nothing"
    /\ lock_acquire(t, ConsoleLock)
    /\ irq' = [irq EXCEPT ![t].done = "acquired"]

console_release(t) ==
    /\ ~NoHandler(t)
    /\ irq[t].done = "acquired"
    /\ lock_release(t, ConsoleLock)
    /\ irq' = [irq EXCEPT ![t].done = "released"]

\* intr_exit: back to the interrupted code.
intr_exit(t) ==
    /\ ~NoHandler(t)
    /\ irq[t].done = "released"
    /\ At(t, "run")
    /\ Goto(t, irq[t].pc)
    /\ lk' = [lk EXCEPT ![t] = irq[t].lk]
    /\ cv' = [cv EXCEPT ![t] = irq[t].cv]
    /\ irq' = [irq EXCEPT ![t] = NULL]
    /\ UNCHANGED <<lockVars, cvVars, blocked>>

IrqNext == \E t \in Threads :
    \/ NoHandler(t) /\ Call(t) /\ UNCHANGED irq
    \/ Continue(t) /\ UNCHANGED irq
    \/ keyboard_interrupt(t) \/ console_acquire(t) \/ console_release(t) \/ intr_exit(t)

IrqSpec == IrqInit /\ [][IrqNext]_<<vars, irq>>

----------------------------------------------------------------------------
\* What lock_acquire promises with "the case of a lock that I hold already and
\* have not released is ruled out" (sync.c:88): no thread waits for a lock that
\* it owns itself.
OwnerNeverWaits ==
    \A t \in Threads : t \in blocked /\ pc[t] = "sema_down" /\ ~NoHandler(t) =>
       ~(irq[t].pc \in {"got", "counted", "clear", "sema_up"} /\ irq[t].lk = lk[t])
=============================================================================
