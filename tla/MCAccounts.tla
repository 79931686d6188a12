----------------------------- MODULE MCAccounts -----------------------------
(***************************************************************************)
(* Small instance of Accounts: the seeded admin, "root", has added one     *)
(* user; a third may be added.                                             *)
(***************************************************************************)
EXTENDS Accounts, TLC

CONSTANTS c1, c2, root, ann, bob

MCNames == {root, ann, bob}
MCAccount(name, role) ==
  [name |-> name, secret |-> "old", role |-> role, status |-> "active",
   wallet |-> [balance |-> 0, hold |-> 0]]
MCSeeded == <<MCAccount(root, Admin)>>
MCSymmetry == Permutations({c1, c2})
MCNewRoles == {Bidder, Admin}
=============================================================================
