------------------------------ MODULE MCMemory ------------------------------
(* Memory on a small instance, see Memory.cfg and MemoryFork.cfg. *)
EXTENDS Memory, TLC

\* Only init has a part of its own.
Symmetry == Permutations(Procs \ {InitProc})
=============================================================================
