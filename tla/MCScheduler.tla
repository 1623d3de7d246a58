---------------------------- MODULE MCScheduler ----------------------------
(* The three threads of thread_init and two more PCBs. *)
EXTENDS Scheduler
CONSTANTS u1, u2

MCThreads == {Idle, Main, InitProc, u1, u2}

\* init, main and user processes have the same priority in the code; two
\* different slices are enough for slices to run out at different times.
MCPriority == [t \in MCThreads |-> IF t \in {Idle, u1} THEN 0 ELSE 1]
=============================================================================
