----------------------------- MODULE WalletLocks -----------------------------
(***************************************************************************)
(* server/wallet.c at the grain of its file accesses: a call takes the     *)
(* mutex of the user's bucket (user_id % WALLET_LOCK_BUCKETS), reads the   *)
(* user record (place_hold reads it twice), decides, writes the record     *)
(* back and unlocks.  read_user and write_user are single system calls     *)
(* under the file mutex, so each is one step.  Other writers of users.dat  *)
(* (login, account and role changes) do not take these mutexes; they       *)
(* belong to the accounts component, not to this one.                      *)
(***************************************************************************)
EXTENDS Wallet

CONSTANTS Users,          \* ids with a record; user 0 ("no bidder") has none
          Threads,
          Jobs,           \* [op : Ops, user : Nat, amount : Int]
          Buckets,        \* WALLET_LOCK_BUCKETS
          NoThread,
          InitialWallet,  \* users.dat when the run starts
          MaxCalls        \* bound: calls made in one behaviour

ASSUME WalletLocksAssumption ==
  /\ Users \subseteq Nat
  /\ Jobs \subseteq [op : Ops, user : Nat, amount : Int]
  /\ Jobs # {}
  /\ \A j \in Jobs : j.amount < 0 => j.op = "credit"
  /\ Buckets \in Nat \ {0}
  /\ NoThread \notin Threads
  /\ InitialWallet \in [Users -> {w \in WalletRecord : w.hold = 0}]
  /\ MaxCalls \in Nat

VARIABLES disk,           \* the wallet fields in users.dat
          holder,         \* which thread holds the mutex of each bucket
          pc, job, result,
          copy,           \* the local "User u" of apply_wallet_delta
          calls           \* how many calls have started (bound)

vars == <<disk, holder, pc, job, result, copy, calls>>

\* get_wallet_lock: two users of one bucket share a mutex.
Bucket(user) == user % Buckets

EmptyRecord == [balance |-> 0, hold |-> 0]

TypeOK ==
  /\ disk \in [Users -> WalletRecord]
  /\ holder \in [{Bucket(j.user) : j \in Jobs} -> Threads \cup {NoThread}]
  /\ pc \in [Threads -> {"ready", "lock", "check", "read", "write", "unlock"}]
  /\ job \in [Threads -> Jobs]
  /\ result \in [Threads -> BOOLEAN]
  /\ copy \in [Threads -> WalletRecord]
  /\ calls \in Nat

Init ==
  /\ disk = InitialWallet
  /\ holder = [b \in {Bucket(j.user) : j \in Jobs} |-> NoThread]
  /\ pc = [t \in Threads |-> "ready"]
  /\ job = [t \in Threads |-> CHOOSE j \in Jobs : TRUE]
  /\ result = [t \in Threads |-> TRUE]
  /\ copy = [t \in Threads |-> EmptyRecord]
  /\ calls = 0

Goto(t, label) == pc' = [pc EXCEPT ![t] = label]

Call(t) ==
  /\ pc[t] = "ready"
  /\ calls < MaxCalls
  /\ calls' = calls + 1
  /\ \E j \in Jobs : job' = [job EXCEPT ![t] = j]
  /\ Goto(t, "lock")
  /\ UNCHANGED <<disk, holder, result, copy>>

\* Mutant: one mutex per thread instead of one per bucket excludes nobody.
LockNothing(t) ==
  /\ pc[t] = "lock"
  /\ holder' = [holder EXCEPT ![Bucket(job[t].user)] = t]
  /\ Goto(t, IF job[t].op = "hold" THEN "check" ELSE "read")
  /\ UNCHANGED <<disk, job, result, copy, calls>>

Lock(t) ==
  /\ pc[t] = "lock"
  /\ holder[Bucket(job[t].user)] = NoThread
  /\ holder' = [holder EXCEPT ![Bucket(job[t].user)] = t]
  /\ Goto(t, IF job[t].op = "hold" THEN "check" ELSE "read")
  /\ UNCHANGED <<disk, job, result, copy, calls>>

\* A call that fails fixes its return code and goes to unlock.
Refuse(t) ==
  /\ result' = [result EXCEPT ![t] = FALSE]
  /\ Goto(t, "unlock")
  /\ UNCHANGED copy

\* place_hold's own read of the record: "this is the authoritative check".
CheckFunds(t) ==
  LET j == job[t] IN
  /\ pc[t] = "check"
  /\ IF j.user \in Users /\ FundsCover(j.op, disk[j.user], j.amount)
     THEN Goto(t, "read") /\ UNCHANGED <<result, copy>>
     ELSE Refuse(t)
  /\ UNCHANGED <<disk, holder, job, calls>>

\* apply_wallet_delta up to its guards.
ReadUser(t) ==
  LET j == job[t] IN
  /\ pc[t] = "read"
  /\ IF /\ j.user \in Users
        /\ DeltaAccepted(disk[j.user], BalanceDelta(j.op, j.amount),
                                       HoldDelta(j.op, j.amount))
     THEN /\ copy' = [copy EXCEPT ![t] = disk[j.user]]
          /\ Goto(t, "write")
          /\ UNCHANGED result
     ELSE Refuse(t)
  /\ UNCHANGED <<disk, holder, job, calls>>

WriteUser(t) ==
  LET j == job[t] IN
  /\ pc[t] = "write"
  /\ disk' = [disk EXCEPT
       ![j.user] = ApplyDelta(copy[t], BalanceDelta(j.op, j.amount),
                                       HoldDelta(j.op, j.amount))]
  /\ result' = [result EXCEPT ![t] = TRUE]
  /\ Goto(t, "unlock")
  /\ UNCHANGED <<holder, job, copy, calls>>

\* Mutant: an early return leaves the mutex locked.
UnlockForgottenOnFailure(t) ==
  /\ pc[t] = "unlock"
  /\ holder' = IF result[t] THEN [holder EXCEPT ![Bucket(job[t].user)] = NoThread]
               ELSE holder
  /\ Goto(t, "ready")
  /\ UNCHANGED <<disk, job, result, copy, calls>>

Unlock(t) ==
  /\ pc[t] = "unlock"
  /\ holder' = [holder EXCEPT ![Bucket(job[t].user)] = NoThread]
  /\ Goto(t, "ready")
  /\ UNCHANGED <<disk, job, result, copy, calls>>

Step(t) ==
  \/ Call(t) \/ Lock(t) \/ CheckFunds(t) \/ ReadUser(t)
  \/ WriteUser(t) \/ Unlock(t)

Next == \E t \in Threads : Step(t)

Spec == Init /\ [][Next]_vars

\* Fairness of the scheduler: a running thread keeps running, and a thread
\* waiting for a mutex that keeps being released gets it in the end.
Fairness ==
  \A t \in Threads :
    /\ SF_vars(Lock(t))
    /\ WF_vars(CheckFunds(t) \/ ReadUser(t) \/ WriteUser(t) \/ Unlock(t))

FairSpec == Spec /\ Fairness

-----------------------------------------------------------------------------
\* No sequence of wallet calls, refused ones included, leaves a user with
\* more on hold than the balance, or with a negative field.
WalletsSound == \A u \in Users : disk[u] \in WalletRecord /\ Sound(disk[u])

\* Every wallet call is atomic: the code implements WalletStore, the call
\* taking effect when it writes the record or decides to refuse.
phase ==
  [t \in Threads |-> IF pc[t] = "ready" THEN "ready"
                     ELSE IF pc[t] = "unlock" THEN "done" ELSE "called"]

Store == INSTANCE WalletStore WITH wallet <- disk
CallsAreAtomic == Store!StoreSpec

\* A call that was started returns: no early return keeps a mutex locked and
\* users that share a bucket do not block each other for ever.
CallsReturn == \A t \in Threads : pc[t] = "lock" ~> pc[t] = "ready"
=============================================================================
