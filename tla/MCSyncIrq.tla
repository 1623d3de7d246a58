----------------------------- MODULE MCSyncIrq -----------------------------
(* One lock, the console's, and one interrupted thread beside another. *)
EXTENDS SyncIrq
NoCvLock == [c \in {} |-> ConsoleLock]
=============================================================================
