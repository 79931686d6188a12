----------------------------- MODULE MCRecords -----------------------------
(***************************************************************************)
(* Small instance of Records.                                              *)
(***************************************************************************)
EXTENDS Records, TLC

Symmetry == Permutations(Threads) \cup Permutations(Items)
=============================================================================
