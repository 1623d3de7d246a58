-------------------------------- MODULE Disk --------------------------------
(***************************************************************************)
(* What the disk driver promises to the file system: disks of sectors,     *)
(* read and written by several threads at once.  A request moves its       *)
(* sectors in order, some at a time, and no other request moves any while  *)
(* it is half done; it returns when all have been moved.                   *)
(***************************************************************************)
EXTENDS Integers, Sequences

CONSTANTS Threads, Disks, NSectors, Values, MaxCount, NoRequest

VARIABLES platter,   \* disk -> sector -> value
          req        \* thread -> the request it is in, or NoRequest

vars == <<platter, req>>

Request(op, hd, lba, n, data) ==
    [op |-> op, hd |-> hd, lba |-> lba, n |-> n, data |-> data, done |-> 0]

Init ==
    /\ platter \in [Disks -> [0..NSectors - 1 -> Values]]
    /\ req = [t \in Threads |-> NoRequest]

Call(t) ==
    /\ req[t] = NoRequest
    /\ \E hd \in Disks, lba \in 0..NSectors - 1, n \in 1..MaxCount :
         /\ lba + n <= NSectors
         /\ \/ req' = [req EXCEPT ![t] = Request("read", hd, lba, n, <<>>)]
            \/ \E data \in [1..n -> Values] :
                 req' = [req EXCEPT ![t] = Request("write", hd, lba, n, data)]
    /\ UNCHANGED platter

HalfDone(t) == req[t] # NoRequest /\ req[t].done \in 1..req[t].n - 1

\* The next k sectors of the request of t go from the disk to the buffer or from
\* the buffer to the disk.
MoveSectors(t, k) ==
    \/ /\ req[t].op = "read"
       /\ req' = [req EXCEPT ![t].done = @ + k, ![t].data = @ \o
                    [i \in 1..k |-> platter[req[t].hd][req[t].lba + req[t].done + i - 1]]]
       /\ UNCHANGED platter
    \/ /\ req[t].op = "write"
       /\ req' = [req EXCEPT ![t].done = @ + k]
       /\ platter' = [platter EXCEPT ![req[t].hd] = [s \in 0..NSectors - 1 |->
                        IF s - req[t].lba \in req[t].done..(req[t].done + k - 1)
                          THEN req[t].data[s - req[t].lba + 1] ELSE @[s]]]

Move(t) ==
    /\ req[t] # NoRequest
    /\ \A u \in Threads \ {t} : ~HalfDone(u)
    /\ \E k \in 1..req[t].n - req[t].done : MoveSectors(t, k)

Return(t) ==
    /\ req[t] # NoRequest /\ req[t].done = req[t].n
    /\ req' = [req EXCEPT ![t] = NoRequest]
    /\ UNCHANGED platter

Next == \E t \in Threads : Call(t) \/ Move(t) \/ Return(t)

Spec == Init /\ [][Next]_vars
=============================================================================
