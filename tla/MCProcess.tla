----------------------------- MODULE MCProcess -----------------------------
(* Init and a few more PCBs; main and idle have the pids 2 and 3.  The pool   *)
(* has no more pids than PCBs, so that the pid of a dead process is reused.   *)
EXTENDS Process
MCKernelPids == {2, 3}
=============================================================================
