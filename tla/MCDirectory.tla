----------------------------- MODULE MCDirectory -----------------------------
(***************************************************************************)
(* A small instance of Directory for TLC: two devices that may share a     *)
(* name or take each other's, and two threads.                             *)
(***************************************************************************)
EXTENDS Directory, TLC

CONSTANTS m1, m2, n1, n2, t1, t2

MCMac == {m1, m2}
MCName == {n1, n2}
MCThread == {t1, t2}

Symmetry == Permutations(MCMac) \cup Permutations(MCName) \cup Permutations(MCThread)
===============================================================================
