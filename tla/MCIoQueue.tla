----------------------------- MODULE MCIoQueue -----------------------------
(* The two ways the kernel uses a queue: a pipe, read and written character by *)
(* character by several processes and closed by any of them, and the terminal, *)
(* filled by the keyboard handler and emptied by a reader of lines.            *)
EXTENDS IoQueue
CONSTANTS a, b, c, d, e

PipeRole == [t \in {a, b, c, d, e} |->
               CASE t \in {a, b} -> {"getchar"} [] t \in {c, d} -> {"putchar"}
                 [] OTHER -> {"close"}]

TtyRole == [t \in {a, b, c, d, e} |->
               CASE t = a -> {"read_some"} [] t = c -> {"write_some"} [] OTHER -> {}]

MCRoles == {PipeRole, TtyRole}
=============================================================================
