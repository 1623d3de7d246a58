------------------------------ MODULE FileTree ------------------------------
(***************************************************************************)
(* What the file system promises about the names and contents that are on  *)
(* the disk: a tree that every call changes in one step, so that the power *)
(* may go at any moment and a mount then finds the tree either as it was   *)
(* before the call or as the call leaves it.  A call that reports success  *)
(* has had its effect.                                                     *)
(***************************************************************************)
EXTENDS Integers, Sequences

CONSTANTS Paths,     \* sequences of names; the root is not one of them
          NoCall

VARIABLES tree,      \* path -> [dir, data]: data is the sequence of units in a file
          req,       \* the call in progress, or NoCall
          on         \* the machine is up

vars == <<tree, req, on>>

Dir == [dir |-> TRUE, data |-> <<>>]
File(units) == [dir |-> FALSE, data |-> units]

Remove(t, p) == [q \in DOMAIN t \ {p} |-> t[q]]
Install(t, p, x) == [q \in DOMAIN t \cup {p} |-> IF q = p THEN x ELSE t[q]]

ParentIsDir(t, p) ==
    Len(p) = 1 \/ LET up == SubSeq(p, 1, Len(p) - 1) IN up \in DOMAIN t /\ t[up].dir

\* What call c makes of tree t; CanDo says when it may.
CanDo(t, c) ==
    CASE c.op \in {"create", "mkdir"} -> c.path \notin DOMAIN t /\ ParentIsDir(t, c.path)
      [] c.op \in {"unlink", "write"} -> c.path \in DOMAIN t /\ ~t[c.path].dir
      [] c.op = "rmdir" -> /\ c.path \in DOMAIN t /\ t[c.path].dir
                           /\ \A q \in DOMAIN t : ~(ParentIsDir(t, q) /\ Len(q) = Len(c.path) + 1
                                                    /\ SubSeq(q, 1, Len(c.path)) = c.path)

Result(t, c) ==
    CASE c.op = "create" -> Install(t, c.path, File(<<>>))
      [] c.op = "mkdir" -> Install(t, c.path, Dir)
      [] c.op \in {"unlink", "rmdir"} -> Remove(t, c.path)
      [] c.op = "write" -> Install(t, c.path, File(t[c.path].data \o c.data))

Init == tree = <<>> /\ req = NoCall /\ on = TRUE

\* A call begins: it is known what it is asked to do and what it will report.
Begin ==
    /\ on /\ req = NoCall
    /\ req' # NoCall /\ req'.old = tree
    /\ UNCHANGED <<tree, on>>

Effect ==
    /\ req # NoCall
    /\ tree = req.old /\ CanDo(tree, req)
    /\ tree' = Result(tree, req)
    /\ UNCHANGED <<req, on>>

End ==
    /\ req # NoCall
    /\ req.ok => tree = Result(req.old, req)
    /\ req' = NoCall
    /\ UNCHANGED <<tree, on>>

PowerCut == on /\ on' = FALSE /\ req' = NoCall /\ tree' = tree

Mount == ~on /\ on' = TRUE /\ UNCHANGED <<tree, req>>

Next == Begin \/ Effect \/ End \/ PowerCut \/ Mount

Spec == Init /\ [][Next]_vars
=============================================================================
