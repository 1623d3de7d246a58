------------------------------ MODULE MCFiles ------------------------------
(* Two processes around one or two pipes, one terminal descriptor and two others *)
(* each: either may hold one end, both ends, or an end twice after a redirect,   *)
(* and a second pipe meets a descriptor table that is partly or wholly full.     *)
EXTENDS Files
=============================================================================
