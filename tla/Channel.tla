------------------------------- MODULE Channel -------------------------------
(***************************************************************************)
(* What an io queue promises to its users (pipes and the terminal): a      *)
(* bounded first-in first-out channel that can be closed.  Every call      *)
(* takes effect in one step, at which it returns: a write moves a prefix   *)
(* of what it was given to the end of the buffer, a read takes no more     *)
(* than it asked for from the front, and neither returns empty-handed from *)
(* an open channel.  Nothing enters a closed channel; what is in it can    *)
(* still be taken out.                                                     *)
(***************************************************************************)
EXTENDS Integers, Sequences

CONSTANTS Threads, Transfers, MaxTransfer, Capacity

VARIABLES
    buffer, closed,
    op, todo        \* the call a thread is in and its argument

vars == <<buffer, closed, op, todo>>

Init ==
    /\ buffer = <<>>
    /\ closed = FALSE
    /\ op = [t \in Threads |-> "none"]
    /\ todo = [t \in Threads |-> <<>>]

Begin(t, o, arg) ==
    /\ op[t] = "none"
    /\ op' = [op EXCEPT ![t] = o]
    /\ todo' = [todo EXCEPT ![t] = arg]
    /\ UNCHANGED <<buffer, closed>>

Call(t) ==
    \/ \E o \in {"getchar", "close"} : Begin(t, o, <<>>)
    \/ \E o \in {"putchar", "write_some"}, vs \in Transfers : Begin(t, o, vs)
    \/ \E n \in 0..MaxTransfer : Begin(t, "read_some", n)

Return(t) ==
    /\ op' = [op EXCEPT ![t] = "none"]
    /\ todo' = [todo EXCEPT ![t] = <<>>]

Send(t) ==
    /\ op[t] \in {"putchar", "write_some"}
    /\ ~closed
    /\ \E n \in 0..Len(todo[t]) :
         /\ n = 0 => todo[t] = <<>>
         /\ Len(buffer) + n <= Capacity
         /\ buffer' = buffer \o SubSeq(todo[t], 1, n)
    /\ Return(t)
    /\ UNCHANGED closed

Receive(t) ==
    /\ op[t] \in {"getchar", "read_some"}
    /\ LET limit == IF op[t] = "getchar" THEN 1 ELSE todo[t] IN
         \E n \in 0..limit :
            /\ n = 0 => limit = 0
            /\ n <= Len(buffer)
            /\ buffer' = SubSeq(buffer, n + 1, Len(buffer))
    /\ Return(t)
    /\ UNCHANGED closed

\* End of file for a reader, a refusal for a writer.
GiveUp(t) ==
    /\ closed
    /\ \/ op[t] \in {"getchar", "read_some"} /\ buffer = <<>>
       \/ op[t] \in {"putchar", "write_some"}
    /\ Return(t)
    /\ UNCHANGED <<buffer, closed>>

Close(t) ==
    /\ op[t] = "close"
    /\ closed' = TRUE
    /\ Return(t)
    /\ UNCHANGED buffer

Next == \E t \in Threads : Call(t) \/ Send(t) \/ Receive(t) \/ GiveUp(t) \/ Close(t)

Spec == Init /\ [][Next]_vars
=============================================================================
