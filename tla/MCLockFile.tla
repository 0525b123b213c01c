------------------------------ MODULE MCLockFile ------------------------------
(***************************************************************************)
(* The lock file for TLC: the processes are interchangeable.               *)
(***************************************************************************)
EXTENDS LockFile, TLC

Symmetry == Permutations(Proc)
===============================================================================
