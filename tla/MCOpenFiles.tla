----------------------------- MODULE MCOpenFiles -----------------------------
(***************************************************************************)
(* The open files for TLC.                                                 *)
(***************************************************************************)
EXTENDS OpenFilesRing

CONSTANTS f1, f2   \* file names

Two       == {<<f1, f2>>}
NoneOrTwo == {<<>>, <<f1, f2>>}
===============================================================================
