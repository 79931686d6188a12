---------------------------- MODULE MCWalletLocks ----------------------------
(***************************************************************************)
(* A small instance of WalletLocks: three users over two buckets, so that  *)
(* users 1 and 3 share a mutex, and calls that overdraw, over-release and  *)
(* name a user without a record (id 0).                                    *)
(***************************************************************************)
EXTENDS WalletLocks

MCUsers == {1, 2, 3}
MCInitialWallet ==
  [u \in MCUsers |-> [balance |-> IF u = 1 THEN 3 ELSE 1, hold |-> 0]]
MCJobs ==
  [op : {"hold", "release", "settle", "credit"}, user : {1}, amount : {2}]
  \cup {[op |-> "hold", user |-> 3, amount |-> 1],
        [op |-> "credit", user |-> 1, amount |-> -2],
        [op |-> "credit", user |-> 2, amount |-> 1],
        [op |-> "credit", user |-> 0, amount |-> 1]}
=============================================================================
