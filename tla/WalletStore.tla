----------------------------- MODULE WalletStore -----------------------------
(***************************************************************************)
(* What the callers of wallet.c rely on: every call takes effect at one    *)
(* instant between its start and its return, on the record as it is at     *)
(* that instant, and its return code tells whether it did.  WalletLocks    *)
(* is the code's implementation of this with one mutex per bucket of       *)
(* users and a separate read and write of users.dat.                       *)
(***************************************************************************)
EXTENDS Wallet

CONSTANTS Users,          \* the user ids that have a record in users.dat
          Threads,        \* the worker threads and the timer
          Jobs            \* the calls [op, user, amount] callers may make

VARIABLES wallet,         \* the wallet fields of every user
          job,            \* the call each thread is making
          phase,          \* "ready", "called" or "done"
          result          \* whether the thread's last call returned 0

storeVars == <<wallet, job, phase, result>>

StoreInit ==
  /\ wallet \in [Users -> {w \in WalletRecord : w.hold = 0}]
  /\ job \in [Threads -> Jobs]
  /\ phase = [t \in Threads |-> "ready"]
  /\ result = [t \in Threads |-> TRUE]

Begin(t) ==
  /\ phase[t] = "ready"
  /\ \E j \in Jobs : job' = [job EXCEPT ![t] = j]
  /\ phase' = [phase EXCEPT ![t] = "called"]
  /\ UNCHANGED <<wallet, result>>

\* The instant of the call: the record changes and the return code is fixed.
\* A user id without a record makes read_user, and so the call, fail.
TakeEffect(t) ==
  LET j == job[t] IN
  /\ phase[t] = "called"
  /\ phase' = [phase EXCEPT ![t] = "done"]
  /\ IF j.user \in Users
     THEN /\ wallet' = [wallet EXCEPT
                          ![j.user] = Outcome(j.op, wallet[j.user], j.amount)]
          /\ result' = [result EXCEPT
                          ![t] = Accepted(j.op, wallet[j.user], j.amount)]
     ELSE /\ result' = [result EXCEPT ![t] = FALSE]
          /\ UNCHANGED wallet
  /\ UNCHANGED job

Finish(t) ==
  /\ phase[t] = "done"
  /\ phase' = [phase EXCEPT ![t] = "ready"]
  /\ UNCHANGED <<wallet, job, result>>

StoreNext == \E t \in Threads : Begin(t) \/ TakeEffect(t) \/ Finish(t)

StoreSpec == StoreInit /\ [][StoreNext]_storeVars
=============================================================================
