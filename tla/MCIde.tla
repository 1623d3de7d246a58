------------------------------- MODULE MCIde --------------------------------
(* Two threads, two disks; requests of up to three sectors, of which one      *)
(* command moves two.                                                         *)
EXTENDS Ide, TLC

MCDisks == {0, 1}
=============================================================================
