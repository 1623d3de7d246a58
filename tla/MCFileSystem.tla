---------------------------- MODULE MCFileSystem ----------------------------
(***************************************************************************)
(* One file next to one directory with a file in it: two levels, names     *)
(* that come and go in a directory that needs a second block.              *)
(***************************************************************************)
EXTENDS FileSystem

MCNames == {"a", "d"}
MCPaths == {<<"a">>, <<"d">>, <<"d", "a">>}
MCTransfers == {0, 3}
=============================================================================
