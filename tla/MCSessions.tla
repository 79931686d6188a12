----------------------------- MODULE MCSessions -----------------------------
(***************************************************************************)
(* Small instance of Sessions.                                             *)
(***************************************************************************)
EXTENDS Sessions, TLC

MCSlots == {0, 1}
MCEntries == {1, 2, 3}
Symmetry == Permutations(Users) \cup Permutations(Conns)
=============================================================================
