------------------------------- MODULE MCSync -------------------------------
(* Two locks, the first with a condition variable: enough for a thread to wait *)
(* for one lock while it holds the other, and for a notify to race a wait.     *)
EXTENDS Sync
CONSTANTS l1, l2, c1
MCCvLock == [c \in {c1} |-> l1]
=============================================================================
