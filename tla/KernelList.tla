----------------------------- MODULE KernelList -----------------------------
(***************************************************************************)
(* The lists of lib/kernel/list.c at the level their users see: a list is  *)
(* the sequence of the elements between its head and tail sentinels.       *)
(***************************************************************************)
EXTENDS Integers, Sequences

\* elem_find: is e linked into the list q?
elem_find(q, e) == \E i \in 1..Len(q) : q[i] = e

list_empty(q) == q = <<>>

list_append(q, e) == Append(q, e)

list_push(q, e) == <<e>> \o q

\* list_remove takes out an element that is linked, wherever that is: its
\* neighbours become neighbours.
list_remove(q, e) ==
    LET i == CHOOSE i \in 1..Len(q) : q[i] = e
    IN  SubSeq(q, 1, i - 1) \o SubSeq(q, i + 1, Len(q))

\* No element is linked twice: an element has one prev and one next pointer.
Distinct(q) == \A i, j \in 1..Len(q) : q[i] = q[j] => i = j
=============================================================================
