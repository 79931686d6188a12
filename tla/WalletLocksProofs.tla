-------------------------- MODULE WalletLocksProofs --------------------------
(***************************************************************************)
(* Wallet calls are atomic for any number of threads, users, buckets and   *)
(* calls: WalletLocks implements WalletStore.                              *)
(***************************************************************************)
EXTENDS WalletLocks, WalletProofs

USE WalletLocksAssumption

Locked(t) == pc[t] \in {"check", "read", "write", "unlock"}

\* A thread between the read and the write of apply_wallet_delta still sees
\* the record as it is in users.dat: no other wallet call on that user
\* slipped in between (the lost update of wallet.c's opening comment).
LocalCopyFresh ==
  \A t \in Threads : pc[t] = "write" => copy[t] = disk[job[t].user]

\* The thread between lock and unlock is the holder of its bucket's mutex,
\* and what it has decided so far still agrees with users.dat.
LockInv ==
  \A t \in Threads :
    LET j == job[t] IN
    /\ Locked(t) => holder[Bucket(j.user)] = t
    /\ pc[t] = "read" /\ j.user \in Users =>
         FundsCover(j.op, disk[j.user], j.amount)
    /\ pc[t] = "write" => /\ j.user \in Users
                          /\ copy[t] = disk[j.user]
                          /\ Accepted(j.op, disk[j.user], j.amount)

JobUsers == {Bucket(j.user) : j \in Jobs}

\* What a thread's job looks like, and that its bucket has a mutex.
LEMMA JobFacts ==
  ASSUME TypeOK, NEW t \in Threads
  PROVE  /\ job[t] \in Jobs
         /\ Bucket(job[t].user) \in JobUsers
         /\ CallAmount(job[t].op, job[t].amount)
BY DEF TypeOK, JobUsers, CallAmount

\* An accepted call writes what Outcome says.
LEMMA AcceptedOutcome ==
  ASSUME NEW op, NEW w, NEW amount, Accepted(op, w, amount)
  PROVE  Outcome(op, w, amount)
           = ApplyDelta(w, BalanceDelta(op, amount), HoldDelta(op, amount))
BY DEF Outcome

-----------------------------------------------------------------------------
(* Type correctness *)

LEMMA InitType == Init => TypeOK
<1> SUFFICES ASSUME Init PROVE TypeOK
  OBVIOUS
<1>1. (CHOOSE j \in Jobs : TRUE) \in Jobs
  OBVIOUS
<1>2. EmptyRecord \in WalletRecord
  BY DEF EmptyRecord, WalletRecord
<1> QED
  BY <1>1, <1>2 DEF Init, TypeOK

\* WriteUser leaves well-formed records, as the call was accepted.
LEMMA WriteOutcome ==
  ASSUME TypeOK, LockInv, NEW t \in Threads, WriteUser(t)
  PROVE  /\ job[t].user \in Users
         /\ disk' = [disk EXCEPT ![job[t].user] =
                       Outcome(job[t].op, disk[job[t].user], job[t].amount)]
         /\ Outcome(job[t].op, disk[job[t].user], job[t].amount) \in WalletRecord
         /\ Accepted(job[t].op, disk[job[t].user], job[t].amount)
<1>1. /\ job[t].user \in Users
      /\ copy[t] = disk[job[t].user]
      /\ Accepted(job[t].op, disk[job[t].user], job[t].amount)
  BY DEF LockInv, WriteUser
<1>2. disk[job[t].user] \in WalletRecord
  BY <1>1 DEF TypeOK
<1>3. CallAmount(job[t].op, job[t].amount)
  BY JobFacts
<1>4. Outcome(job[t].op, disk[job[t].user], job[t].amount) \in WalletRecord
  BY <1>2, <1>3, OutcomeType
<1>5. Outcome(job[t].op, disk[job[t].user], job[t].amount)
        = ApplyDelta(copy[t], BalanceDelta(job[t].op, job[t].amount),
                              HoldDelta(job[t].op, job[t].amount))
  BY <1>1, AcceptedOutcome
<1> QED
  BY <1>1, <1>4, <1>5 DEF WriteUser

LEMMA NextType == TypeOK /\ LockInv /\ [Next]_vars => TypeOK'
<1> SUFFICES ASSUME TypeOK, LockInv, [Next]_vars PROVE TypeOK'
  OBVIOUS
<1>1. CASE UNCHANGED vars
  BY <1>1 DEF vars, TypeOK
<1>2. ASSUME NEW t \in Threads, Step(t) PROVE TypeOK'
  <2>1. CASE Call(t)
    BY <2>1 DEF Call, Goto, TypeOK
  <2>2. CASE Lock(t)
    BY <2>2 DEF Lock, Goto, TypeOK
  <2>3. CASE CheckFunds(t)
    BY <2>3 DEF CheckFunds, Refuse, Goto, TypeOK
  <2>4. CASE ReadUser(t)
    BY <2>4, ZenonT(30) DEF ReadUser, Refuse, Goto, TypeOK
  <2>5. CASE WriteUser(t)
    <3>1. disk' \in [Users -> WalletRecord]
      BY <2>5, WriteOutcome DEF TypeOK
    <3> QED
      BY <2>5, <3>1 DEF WriteUser, Goto, TypeOK
  <2>6. CASE Unlock(t)
    BY <2>6 DEF Unlock, Goto, TypeOK
  <2> QED
    BY <1>2, <2>1, <2>2, <2>3, <2>4, <2>5, <2>6 DEF Step
<1> QED
  BY <1>1, <1>2 DEF Next

-----------------------------------------------------------------------------
(* Mutual exclusion and what it protects *)

\* LockInv for one thread.
LockInvOf(t) ==
  /\ Locked(t) => holder[Bucket(job[t].user)] = t
  /\ pc[t] = "read" /\ job[t].user \in Users =>
       FundsCover(job[t].op, disk[job[t].user], job[t].amount)
  /\ pc[t] = "write" => /\ job[t].user \in Users
                        /\ copy[t] = disk[job[t].user]
                        /\ Accepted(job[t].op, disk[job[t].user], job[t].amount)

\* A step of one thread that leaves the mutex and record of another alone.
LEMMA OtherThread ==
  ASSUME TypeOK, LockInv, NEW t \in Threads, Step(t),
         NEW s \in Threads, s # t
  PROVE  LockInvOf(s)'
<1>0. LockInvOf(s) /\ LockInvOf(t)
  BY DEF LockInv, LockInvOf
<1>1. pc'[s] = pc[s] /\ job'[s] = job[s] /\ copy'[s] = copy[s]
  BY DEF Step, Call, Lock, CheckFunds, ReadUser, WriteUser, Unlock, Refuse,
         Goto, TypeOK
<1>2. Locked(s) => holder'[Bucket(job[s].user)] = s
  <2> SUFFICES ASSUME Locked(s) PROVE holder'[Bucket(job[s].user)] = s
    OBVIOUS
  <2>1. holder[Bucket(job[s].user)] = s /\ s # NoThread
    BY <1>0 DEF LockInvOf
  <2>2. CASE Lock(t)
    BY <2>1, <2>2 DEF Lock
  <2>3. CASE Unlock(t)
    <3>1. Bucket(job[t].user) # Bucket(job[s].user)
      BY <1>0, <2>1, <2>3 DEF LockInvOf, Unlock, Locked
    <3> QED
      BY <2>1, <2>3, <3>1 DEF Unlock
  <2> QED
    BY <2>1, <2>2, <2>3 DEF Step, Call, CheckFunds, ReadUser, WriteUser
<1>3. Locked(s) => disk'[job[s].user] = disk[job[s].user]
  <2>1. CASE WriteUser(t)
    <3>1. Locked(s) => job[s].user # job[t].user
      BY <1>0, <2>1 DEF LockInvOf, WriteUser, Locked
    <3> QED
      BY <2>1, <3>1 DEF WriteUser
  <2> QED
    BY <2>1 DEF Step, Call, Lock, CheckFunds, ReadUser, Unlock
<1> QED
  BY <1>0, <1>1, <1>2, <1>3 DEF LockInvOf, Locked

\* A thread's own steps.
LEMMA OwnThread ==
  ASSUME TypeOK, LockInv, NEW t \in Threads, Step(t)
  PROVE  LockInvOf(t)'
<1>0. LockInvOf(t) /\ Bucket(job[t].user) \in JobUsers
  BY JobFacts DEF LockInv, LockInvOf
<1>1. CASE Call(t)
  BY <1>1 DEF Call, Goto, LockInvOf, Locked, TypeOK
<1>2. CASE Lock(t)
  BY <1>0, <1>2 DEF Lock, Goto, LockInvOf, Locked, TypeOK, FundsCover, JobUsers
<1>3. CASE CheckFunds(t)
  BY <1>0, <1>3 DEF CheckFunds, Refuse, Goto, LockInvOf, Locked, TypeOK
<1>4. CASE ReadUser(t)
  <2>1. pc[t] = "read" /\ UNCHANGED <<disk, holder, job>>
    BY <1>4 DEF ReadUser
  <2>2. CASE Refuse(t)
    BY <1>0, <2>1, <2>2 DEF Refuse, Goto, LockInvOf, Locked, TypeOK
  <2>3. CASE ~Refuse(t)
    BY <1>0, <1>4, <2>1, <2>3
       DEF ReadUser, Goto, LockInvOf, Locked, TypeOK, Accepted
  <2> QED
    BY <2>2, <2>3
<1>5. CASE WriteUser(t)
  BY <1>0, <1>5 DEF WriteUser, Goto, LockInvOf, Locked, TypeOK
<1>6. CASE Unlock(t)
  BY <1>6 DEF Unlock, Goto, LockInvOf, Locked, TypeOK
<1> QED
  BY <1>1, <1>2, <1>3, <1>4, <1>5, <1>6 DEF Step

LEMMA NextLockInv == TypeOK /\ LockInv /\ [Next]_vars => LockInv'
<1> SUFFICES ASSUME TypeOK, LockInv, [Next]_vars PROVE LockInv'
  OBVIOUS
<1>1. CASE UNCHANGED vars
  BY <1>1 DEF vars, LockInv, Locked
<1>2. ASSUME NEW t \in Threads, Step(t) PROVE LockInv'
  <2>1. \A s \in Threads : LockInvOf(s)'
    BY <1>2, OtherThread, OwnThread
  <2> QED
    BY <2>1 DEF LockInv, LockInvOf
<1> QED
  BY <1>1, <1>2 DEF Next

\* The mutex of a bucket keeps what a thread has read in step with
\* users.dat.
THEOREM LocksProtect == Spec => [](TypeOK /\ LockInv)
<1>1. Init => TypeOK /\ LockInv
  <2> SUFFICES ASSUME Init PROVE LockInv
    BY InitType
  <2> QED
    BY DEF Init, LockInv, Locked
<1>2. TypeOK /\ LockInv /\ [Next]_vars => (TypeOK /\ LockInv)'
  BY NextType, NextLockInv
<1> QED
  BY <1>1, <1>2, PTL DEF Spec

\* No wallet call of another thread changes a record between the read and
\* the write of apply_wallet_delta.
THEOREM NoLostUpdate == Spec => []LocalCopyFresh
<1>1. LockInv => LocalCopyFresh
  BY DEF LockInv, LocalCopyFresh
<1> QED
  BY <1>1, LocksProtect, PTL

-----------------------------------------------------------------------------
(* Soundness of the records *)

\* The guards of apply_wallet_delta keep every record sound, and no field of
\* one negative.
THEOREM WalletsStaySound == Spec => []WalletsSound
<1>1. Init => WalletsSound
  BY InitType DEF Init, TypeOK, WalletsSound, Sound, WalletRecord
<1>2. TypeOK /\ TypeOK' /\ LockInv /\ WalletsSound /\ [Next]_vars => WalletsSound'
  <2> SUFFICES ASSUME TypeOK, TypeOK', LockInv, WalletsSound, [Next]_vars
               PROVE  WalletsSound'
    OBVIOUS
  <2>1. CASE UNCHANGED disk
    BY <2>1 DEF WalletsSound, Sound
  <2>2. ASSUME NEW t \in Threads, WriteUser(t) PROVE WalletsSound'
    <3> DEFINE w == Outcome(job[t].op, disk[job[t].user], job[t].amount)
    <3>1. Sound(w)
      <4>1. /\ disk[job[t].user] \in WalletRecord
            /\ Sound(disk[job[t].user])
        BY <2>2, WriteOutcome DEF TypeOK, WalletsSound
      <4> QED
        BY <4>1, JobFacts, OutcomeSound
    <3>2. \A u \in Users : disk'[u] = disk[u] \/ disk'[u] = w
      BY <2>2, WriteOutcome DEF TypeOK
    <3> HIDE DEF w
    <3> QED
      BY <3>1, <3>2 DEF WalletsSound, Sound, TypeOK
  <2> QED
    BY <2>1, <2>2 DEF vars, Next, Step, Call, Lock, CheckFunds, ReadUser, Unlock
<1> QED
  BY <1>1, <1>2, LocksProtect, PTL DEF Spec

-----------------------------------------------------------------------------
(* Refinement *)

\* The two specifications decide alike.
LEMMA SameOutcome ==
  ASSUME NEW op, NEW w, NEW amount
  PROVE  /\ Store!Outcome(op, w, amount) = Outcome(op, w, amount)
         /\ Store!Accepted(op, w, amount) = Accepted(op, w, amount)
BY DEF Store!Outcome, Store!Accepted, Store!FundsCover, Store!DeltaAccepted,
       Store!ApplyDelta, Store!BalanceDelta, Store!HoldDelta, Store!NewHold,
       Store!Available,
       Outcome, Accepted, FundsCover, DeltaAccepted, ApplyDelta, BalanceDelta,
       HoldDelta, NewHold, Available

LEMMA InitRefines == Init => Store!StoreInit
<1> SUFFICES ASSUME Init PROVE Store!StoreInit
  OBVIOUS
<1>1. job \in [Threads -> Jobs]
  BY DEF Init
<1>2. phase = [t \in Threads |-> "ready"]
  BY DEF Init, phase
<1> QED
  BY <1>1, <1>2 DEF Init, Store!StoreInit, WalletRecord, Store!WalletRecord

\* How a step of thread t moves phase.
LEMMA PhaseStep ==
  ASSUME TypeOK, NEW t \in Threads, NEW l, Goto(t, l)
  PROVE  phase' = [phase EXCEPT ![t] = IF l = "ready" THEN "ready"
                                       ELSE IF l = "unlock" THEN "done"
                                       ELSE "called"]
BY DEF TypeOK, Goto, phase

\* A call that gives up takes effect without changing a record.
LEMMA RefusalRefines ==
  ASSUME TypeOK, NEW t \in Threads, pc[t] \in {"check", "read"}, Refuse(t),
         UNCHANGED <<disk, job>>,
         job[t].user \in Users =>
           ~Accepted(job[t].op, disk[job[t].user], job[t].amount)
  PROVE  Store!TakeEffect(t)
<1>1. phase[t] = "called" /\ phase' = [phase EXCEPT ![t] = "done"]
  BY PhaseStep DEF phase, Refuse
<1>2. result' = [result EXCEPT ![t] = FALSE]
  BY DEF Refuse
<1>3. CASE job[t].user \notin Users
  BY <1>1, <1>2, <1>3 DEF Store!TakeEffect
<1>4. CASE job[t].user \in Users
  <2>1. /\ Store!Accepted(job[t].op, disk[job[t].user], job[t].amount) = FALSE
        /\ Store!Outcome(job[t].op, disk[job[t].user], job[t].amount)
             = disk[job[t].user]
    <3>1. ~Accepted(job[t].op, disk[job[t].user], job[t].amount)
      BY <1>4
    <3>2. Accepted(job[t].op, disk[job[t].user], job[t].amount) = FALSE
      BY <3>1 DEF Accepted
    <3>3. Outcome(job[t].op, disk[job[t].user], job[t].amount) = disk[job[t].user]
      BY <3>1 DEF Outcome
    <3> QED
      BY <3>2, <3>3, SameOutcome
  <2>2. disk' = [disk EXCEPT ![job[t].user] = disk[job[t].user]]
    BY <1>4 DEF TypeOK
  <2> QED
    BY <1>1, <1>2, <1>4, <2>1, <2>2 DEF Store!TakeEffect
<1> QED
  BY <1>3, <1>4

LEMMA StepRefines ==
  ASSUME TypeOK, LockInv, NEW t \in Threads, Step(t)
  PROVE  Store!StoreNext \/ UNCHANGED Store!storeVars
<1>1. CASE Call(t)
  <2>1. phase[t] = "ready" /\ phase' = [phase EXCEPT ![t] = "called"]
    BY <1>1, PhaseStep DEF Call, phase
  <2> QED
    BY <1>1, <2>1 DEF Call, Store!StoreNext, Store!Begin
<1>2. CASE Lock(t)
  <2>1. phase' = phase
    BY <1>2 DEF Lock, Goto, phase, TypeOK
  <2> QED
    BY <1>2, <2>1 DEF Lock, Store!storeVars
<1>3. CASE CheckFunds(t)
  <2>1. CASE Refuse(t)
    <3>1. job[t].user \in Users =>
            ~Accepted(job[t].op, disk[job[t].user], job[t].amount)
      BY <1>3, <2>1 DEF CheckFunds, Refuse, Goto, TypeOK, Accepted
    <3>2. Store!TakeEffect(t)
      BY <1>3, <2>1, <3>1, RefusalRefines DEF CheckFunds
    <3> QED
      BY <3>2 DEF Store!StoreNext
  <2>2. CASE ~Refuse(t)
    <3>1. phase' = phase
      BY <1>3, <2>2 DEF CheckFunds, Goto, phase, TypeOK
    <3> QED
      BY <1>3, <2>2, <3>1 DEF CheckFunds, Store!storeVars
  <2> QED
    BY <2>1, <2>2
<1>4. CASE ReadUser(t)
  <2>1. CASE Refuse(t)
    <3>1. job[t].user \in Users =>
            ~Accepted(job[t].op, disk[job[t].user], job[t].amount)
      BY <1>4, <2>1 DEF ReadUser, Refuse, Goto, TypeOK, Accepted
    <3>2. Store!TakeEffect(t)
      BY <1>4, <2>1, <3>1, RefusalRefines DEF ReadUser
    <3> QED
      BY <3>2 DEF Store!StoreNext
  <2>2. CASE ~Refuse(t)
    <3>1. phase' = phase
      BY <1>4, <2>2 DEF ReadUser, Goto, phase, TypeOK
    <3> QED
      BY <1>4, <2>2, <3>1 DEF ReadUser, Store!storeVars
  <2> QED
    BY <2>1, <2>2
<1>5. CASE WriteUser(t)
  <2>1. phase[t] = "called" /\ phase' = [phase EXCEPT ![t] = "done"]
    BY <1>5, PhaseStep DEF WriteUser, phase
  <2>2. /\ job[t].user \in Users
        /\ Store!Accepted(job[t].op, disk[job[t].user], job[t].amount) = TRUE
        /\ disk' = [disk EXCEPT ![job[t].user] =
              Store!Outcome(job[t].op, disk[job[t].user], job[t].amount)]
    BY <1>5, WriteOutcome, SameOutcome DEF Accepted
  <2>3. Store!TakeEffect(t)
    BY <1>5, <2>1, <2>2 DEF WriteUser, Store!TakeEffect
  <2> QED
    BY <2>3 DEF Store!StoreNext
<1>6. CASE Unlock(t)
  <2>1. phase[t] = "done" /\ phase' = [phase EXCEPT ![t] = "ready"]
    BY <1>6, PhaseStep DEF Unlock, phase
  <2> QED
    BY <1>6, <2>1 DEF Unlock, Store!StoreNext, Store!Finish
<1> QED
  BY <1>1, <1>2, <1>3, <1>4, <1>5, <1>6 DEF Step

\* Every wallet call is atomic: wallet.c implements WalletStore.
THEOREM CallsAtomic == Spec => CallsAreAtomic
<1>1. Init => Store!StoreInit
  BY InitRefines
<1>2. TypeOK /\ LockInv /\ [Next]_vars => [Store!StoreNext]_(Store!storeVars)
  <2> SUFFICES ASSUME TypeOK, LockInv, [Next]_vars
               PROVE  Store!StoreNext \/ UNCHANGED Store!storeVars
    OBVIOUS
  <2>1. CASE Next
    BY <2>1, StepRefines DEF Next
  <2>2. CASE UNCHANGED vars
    BY <2>2 DEF vars, Store!storeVars, phase
  <2> QED
    BY <2>1, <2>2
<1> QED
  BY <1>1, <1>2, LocksProtect, PTL DEF Spec, CallsAreAtomic, Store!StoreSpec
=============================================================================
