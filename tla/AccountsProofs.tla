--------------------------- MODULE AccountsProofs ---------------------------
(***************************************************************************)
(* For any number of connections, users, names, roles and amounts: no      *)
(* wallet ever has more on hold than in it, and as long as threads do not  *)
(* meet at a record no decision, not the last admin, and no user name is   *)
(* lost; wallet calls never meet.                                          *)
(***************************************************************************)
EXTENDS Accounts, WalletProofs, SequenceTheorems, FiniteSetTheorems

USE AccountsAssumption

\* A copy differs from the record on file in the one field the step is about;
\* a wallet by the amount of the call.
Agrees(k, u) ==
  LET r == k.copy.rec IN
  CASE k.step = "login"             -> r = u
    [] InWalletCall(k)              -> r = [u EXCEPT !.wallet = Outcome(k.call.op, @, k.call.amount)]
    [] k.step = "toggle"            -> r = [u EXCEPT !.status = r.status]
    [] k.step \in {"count", "role"} -> r = [u EXCEPT !.role = r.role]

\* What a thread's copy owes to users.dat, undisturbed.
InOrder(k) ==
  /\ Holds(k) => Agrees(k, users[k.copy.id])
  /\ Adds(k) => NameUnknown(k.copy.rec.name)
  /\ k.step = "add" => k.copy.id = Len(users) + 1
  /\ k.step = "toggle" => users[k.copy.id].role # Admin
  /\ k.step = "role" /\ users[k.copy.id].role = Admin
       => k.copy.rec.role = Admin \/ ActiveAdmins \ {k.copy.id} # {}

TaskInv(t, k) ==
  /\ k \in Tasks
  /\ k.copy.id <= Len(users) + 1
  /\ Sound(k.copy.rec.wallet)
  /\ Holds(k) => k.copy.id \in Ids
  /\ k.step = "add" => k.copy.id # 0
  /\ t \in Conns /\ k.step \in {"deposit", "refresh"} => LoggedIn(t)
  /\ ~disturbed => InOrder(k)

\* The wallet's mutex at work.
CallsApart ==
  \A s, t \in Threads :
    s # t /\ InWalletCall(task[s]) /\ InWalletCall(task[t])
      => task[s].copy.id # task[t].copy.id

\* The connections whose session has the record as it is on file, undisturbed.
InSync(c) == c \notin overtaken /\ task[c].step # "refresh"

SessionInv(c, copy) ==
  /\ copy \in Copy
  /\ Sound(copy.rec.wallet)
  /\ \/ copy = Nobody
     \/ copy.id \in Ids /\ (~disturbed /\ InSync(c) => copy.rec = users[copy.id])

FileInv ==
  /\ users \in Seq(User) /\ writes \in Nat
  /\ intended \in Seq(User) /\ disturbed \in BOOLEAN
  /\ overtaken \in SUBSET Conns
  /\ WalletsSound /\ NoDecisionLost /\ AdminRemains /\ NamesUnique

AccountsInv ==
  /\ FileInv
  /\ me \in [Conns -> Copy] /\ \A c \in Conns : SessionInv(c, me[c])
  /\ task \in [Threads -> Tasks] /\ \A t \in Threads : TaskInv(t, task[t])
  /\ CallsApart

-----------------------------------------------------------------------------
(* What the helpers return *)

LEMMA NobodyType ==
  /\ Nobody \in Copy /\ Sound(Nobody.rec.wallet) /\ Nobody.id = 0
  /\ NoUser \in User /\ Nobody.rec = NoUser
<1>1. Seeded[1] \in User
  BY EmptySeq, LenProperties, ElementOfSeq
<1>2. (CHOOSE n \in Names : TRUE) \in Names /\ (CHOOSE s \in Secrets : TRUE) \in Secrets
  BY <1>1 DEF User
<1>3. NoUser \in User /\ Sound(NoUser.wallet)
  BY <1>2 DEF NoUser, User, Roles, Bidder, Statuses, WalletRecord, Sound
<1> QED
  BY <1>3 DEF Nobody, Copy

LEMMA IdsAre ==
  ASSUME users \in Seq(User)
  PROVE  /\ Len(users) \in Nat /\ Ids = 1..Len(users)
         /\ \A id \in Ids : users[id] \in User
BY LenProperties, ElementOfSeq DEF Ids

LEMMA ReadReturns ==
  ASSUME FileInv, NEW id \in Ids
  PROVE  /\ Read(id) \in Copy /\ Read(id).id = id /\ Read(id).rec = users[id]
         /\ Sound(Read(id).rec.wallet)
         /\ id \in Nat \ {0} /\ id <= Len(users)
BY IdsAre DEF FileInv, WalletsSound, Read, Copy

\* A task without a wallet call.
LEMMA TaskReturns ==
  ASSUME NEW step \in Steps, NEW copy \in Copy
  PROVE  /\ Task(step, copy) \in Tasks
         /\ Task(step, copy).step = step /\ Task(step, copy).copy = copy
BY DEF Task, Tasks, NoCall, Calls, Ops

LEMMA IdleIs ==
  /\ Idle \in Tasks /\ Idle.step = "idle" /\ Idle.copy = Nobody
  /\ ~Holds(Idle) /\ ~Adds(Idle) /\ ~InWalletCall(Idle)
BY NobodyType, TaskReturns DEF Idle, Steps, Holds, Adds, InWalletCall

LEMMA IdleInv ==
  ASSUME FileInv, NEW t
  PROVE  TaskInv(t, Idle)
BY IdsAre, IdleIs, NobodyType DEF FileInv, TaskInv, InOrder

LEMMA InitInv == Init => AccountsInv
<1> SUFFICES ASSUME Init PROVE AccountsInv
  OBVIOUS
<1>1. 1 \in Ids
  BY EmptySeq, LenProperties DEF Init, Ids
<1>2. FileInv
  BY <1>1 DEF Init, FileInv, WalletsSound, NoDecisionLost, AdminRemains, ActiveAdmins,
              NamesUnique, Ids
<1>3. me \in [Conns -> Copy] /\ \A c \in Conns : SessionInv(c, me[c])
  BY NobodyType DEF Init, SessionInv
<1>4. task \in [Threads -> Tasks] /\ \A t \in Threads : TaskInv(t, task[t])
  BY <1>2, IdleInv, IdleIs DEF Init
<1>5. CallsApart
  BY IdleIs DEF Init, CallsApart
<1> QED
  BY <1>2, <1>3, <1>4, <1>5 DEF AccountsInv

-----------------------------------------------------------------------------
(* Steps that do not write *)

\* What does not look at users.dat's history stays true of a thread.
LEMMA SameTask ==
  ASSUME NEW t \in Threads, NEW k, TaskInv(t, k), UNCHANGED <<users, disturbed>>,
         t \in Conns /\ k.step \in {"deposit", "refresh"} => LoggedIn(t)'
  PROVE  TaskInv(t, k)'
BY DEF TaskInv, InOrder, NameUnknown, ActiveAdmins, Ids

LEMMA SameSession ==
  ASSUME NEW c, NEW copy, SessionInv(c, copy), UNCHANGED <<users, disturbed>>,
         InSync(c)' => InSync(c)
  PROVE  SessionInv(c, copy)'
BY DEF SessionInv, Ids

LEMMA SameFile ==
  ASSUME FileInv, UNCHANGED <<users, writes, intended, disturbed>>,
         overtaken' \subseteq overtaken
  PROVE  FileInv'
BY DEF FileInv, WalletsSound, NoDecisionLost, AdminRemains, ActiveAdmins, NamesUnique, Ids

\* A thread at k meets no wallet call for the same user.
Alone(t, k) ==
  \A s \in Threads \ {t} :
    InWalletCall(k) /\ InWalletCall(task[s]) => task[s].copy.id # k.copy.id

LEMMA ApartKept ==
  ASSUME AccountsInv, NEW t \in Threads, NEW k, Alone(t, k),
         task' = [task EXCEPT ![t] = k]
  PROVE  CallsApart'
<1> SUFFICES ASSUME NEW r \in Threads, NEW s \in Threads, r # s,
                    InWalletCall(task'[r]), InWalletCall(task'[s])
             PROVE  task'[r].copy.id # task'[s].copy.id
  BY DEF CallsApart, InWalletCall
<1>1. \A x \in Threads : (x = t /\ task'[x] = k) \/ (x # t /\ task'[x] = task[x])
  BY DEF AccountsInv
<1>2. CASE r = t
  BY <1>1, <1>2 DEF Alone
<1>3. CASE s = t
  BY <1>1, <1>3 DEF Alone
<1>4. CASE r # t /\ s # t
  BY <1>1, <1>4 DEF AccountsInv, CallsApart
<1> QED
  BY <1>2, <1>3, <1>4

LEMMA ProceedInv ==
  ASSUME AccountsInv, NEW t \in Threads, task[t].step # "refresh",
         NEW k, Proceed(t, k), TaskInv(t, k), Alone(t, k)
  PROVE  AccountsInv'
<1>1. /\ UNCHANGED <<users, me, writes, intended, overtaken, disturbed>>
      /\ task' = [task EXCEPT ![t] = k]
  BY DEF Proceed
<1>2. \A s \in Threads : TaskInv(s, task[s])' /\ task'[s] \in Tasks
  <2> TAKE s \in Threads
  <2>1. s \in Conns => LoggedIn(s)' = LoggedIn(s)
    BY <1>1 DEF LoggedIn
  <2>2. CASE s = t
    <3>1. task'[s] = k /\ k \in Tasks
      BY <1>1, <2>2 DEF AccountsInv, TaskInv
    <3>2. TaskInv(s, k)'
      BY <1>1, <2>1, <2>2, SameTask DEF TaskInv
    <3> QED
      BY <3>1, <3>2
  <2>3. CASE s # t
    <3>1. task'[s] = task[s]
      BY <1>1, <2>3 DEF AccountsInv
    <3>2. TaskInv(s, task[s])
      BY DEF AccountsInv
    <3>3. \A l : l = task[s] => TaskInv(s, l)'
      BY <1>1, <2>1, <3>2, SameTask DEF TaskInv
    <3> QED
      BY <3>1, <3>2, <3>3 DEF TaskInv
  <2> QED
    BY <2>2, <2>3
<1>3. \A c \in Conns : SessionInv(c, me[c])'
  <2> TAKE c \in Conns
  <2>1. InSync(c)' => InSync(c)
    BY <1>1 DEF AccountsInv, InSync, Threads
  <2>2. SessionInv(c, me[c])
    BY DEF AccountsInv
  <2>3. \A copy : copy = me[c] => SessionInv(c, copy)'
    BY <1>1, <2>1, <2>2, SameSession
  <2> QED
    BY <1>1, <2>3
<1>4. FileInv'
  BY <1>1, SameFile DEF AccountsInv
<1>5. task' \in [Threads -> Tasks]
  BY <1>1, <1>2 DEF AccountsInv
<1>6. CallsApart'
  BY <1>1, ApartKept
<1> QED
  BY <1>1, <1>2, <1>3, <1>4, <1>5, <1>6 DEF AccountsInv

LEMMA GiveUpInv ==
  ASSUME AccountsInv, NEW t \in Threads, task[t].step # "refresh", GiveUp(t)
  PROVE  AccountsInv'
<1>1. TaskInv(t, Idle) /\ Alone(t, Idle)
  BY IdleInv, IdleIs DEF AccountsInv, Alone
<1> QED
  BY <1>1, ProceedInv DEF GiveUp

\* For a step that is not a wallet call.
LEMMA TaskStepInv ==
  ASSUME AccountsInv, NEW t \in Threads, task[t].step # "refresh",
         NEW k, k.step \notin {"wallet", "deposit"},
         Proceed(t, k), TaskInv(t, k)
  PROVE  AccountsInv'
<1>1. Alone(t, k)
  BY DEF Alone, InWalletCall
<1> QED
  BY <1>1, ProceedInv

LEMMA LoginReadInv ==
  ASSUME AccountsInv, NEW c \in Conns, LoginRead(c)
  PROVE  AccountsInv'
<1>1. PICK n \in Names : \E id \in FindUser(n) :
        users[id].status = "active" /\ Proceed(c, Task("login", Read(id)))
  BY DEF LoginRead
<1>2. PICK id \in Ids : Proceed(c, Task("login", Read(id)))
  BY <1>1 DEF FindUser
<1>3. FileInv /\ c \in Threads /\ task[c].step # "refresh"
  BY DEF AccountsInv, LoginRead, Threads
<1>4. /\ Read(id) \in Copy /\ Read(id).id = id /\ Read(id).rec = users[id]
      /\ Sound(Read(id).rec.wallet) /\ id <= Len(users) + 1
  BY <1>3, ReadReturns, IdsAre DEF FileInv
<1>5. PICK k : k = Task("login", Read(id))
  OBVIOUS
<1>6. k \in Tasks /\ k.step = "login" /\ k.copy = Read(id)
  BY <1>4, <1>5, TaskReturns DEF Steps
<1>7. Agrees(k, users[id])
  BY <1>4, <1>6 DEF Agrees, InWalletCall
<1>8. TaskInv(c, k)
  BY <1>4, <1>6, <1>7 DEF TaskInv, InOrder, Holds, InWalletCall, Adds
<1> QED
  BY <1>2, <1>3, <1>5, <1>6, <1>8, TaskStepInv

\* Setting the password of the record in a copy.
LEMMA SetSecret ==
  ASSUME NEW copy \in Copy, NEW x \in Secrets,
         NEW new, new = [copy EXCEPT !.rec.secret = x]
  PROVE  /\ new \in Copy /\ new.id = copy.id
         /\ new.rec = [copy.rec EXCEPT !.secret = x] /\ new.rec.secret = x
         /\ new.rec.wallet = copy.rec.wallet
BY DEF Copy, User

LEMMA WalletReadInv ==
  ASSUME AccountsInv, NEW t \in Threads, NEW id \in Ids, NEW op \in Ops,
         NEW a \in Amounts, NEW step \in {"wallet", "deposit"},
         t \in Conns => LoggedIn(t), WalletRead(t, id, op, a, step)
  PROVE  AccountsInv'
<1> DEFINE w == Outcome(op, users[id].wallet, a)
           new == [Read(id) EXCEPT !.rec.wallet = w]
           k == [step |-> step, call |-> [op |-> op, amount |-> a], copy |-> new]
<1>1. FileInv /\ a \in Nat
  BY DEF AccountsInv
<1>2. users[id].wallet \in WalletRecord /\ Sound(users[id].wallet)
  BY <1>1, IdsAre DEF FileInv, WalletsSound, User
<1>3. CallAmount(op, a)
  BY DEF CallAmount
<1>4. w \in WalletRecord /\ Sound(w)
  BY <1>2, <1>3, OutcomeType, OutcomeSound
<1>5. /\ new \in Copy /\ new.id = id
      /\ new.rec = [users[id] EXCEPT !.wallet = w] /\ new.rec.wallet = w
  <2> DEFINE old == Read(id)
  <2>1. /\ old \in Copy /\ old.id = id /\ old.rec = users[id]
        /\ Sound(old.rec.wallet)
    BY <1>1, ReadReturns
  <2>2. new = [old EXCEPT !.rec.wallet = w]
    OBVIOUS
  <2> HIDE DEF new, old
  <2> QED
    BY <1>4, <2>1, <2>2 DEF Copy, User
<1>6. Proceed(t, k) /\ ~Locked(id) /\ task[t].step # "refresh"
  BY DEF WalletRead
<1>7. new.rec = [users[id] EXCEPT !.wallet = Outcome(op, @, a)]
  BY <1>5
<1> HIDE DEF new, w
<1>8. /\ k \in Tasks /\ k.step = step /\ k.copy = new
      /\ k.call.op = op /\ k.call.amount = a
  BY <1>1, <1>5 DEF Tasks, Calls, Steps
<1> HIDE DEF k
<1>9. id <= Len(users) + 1
  BY <1>1, IdsAre DEF FileInv
<1>10. Agrees(k, users[id])
  BY <1>7, <1>8 DEF Agrees, InWalletCall
<1>11. TaskInv(t, k)
  BY <1>4, <1>5, <1>8, <1>9, <1>10 DEF TaskInv, InOrder, Holds, InWalletCall, Adds
<1>12. Alone(t, k)
  BY <1>5, <1>6, <1>8 DEF Alone, Locked
<1> QED
  BY <1>6, <1>11, <1>12, ProceedInv

LEMMA ToggleReadInv ==
  ASSUME AccountsInv, NEW c \in Conns, ToggleRead(c)
  PROVE  AccountsInv'
<1>1. PICK id \in Ids, st \in Statuses :
        /\ users[id].role < me[c].rec.role
        /\ Proceed(c, Task("toggle", [Read(id) EXCEPT !.rec.status = st]))
  BY DEF ToggleRead
<1> DEFINE new == [Read(id) EXCEPT !.rec.status = st]
<1>2. FileInv /\ c \in Threads /\ task[c].step # "refresh"
  BY DEF AccountsInv, Threads, ToggleRead, MayStart
<1>3. /\ new \in Copy /\ new.id = id /\ Sound(new.rec.wallet)
      /\ new.rec = [users[id] EXCEPT !.status = st] /\ new.rec.status = st
  <2> DEFINE old == Read(id)
  <2>1. /\ old \in Copy /\ old.id = id /\ old.rec = users[id]
        /\ Sound(old.rec.wallet)
    BY <1>2, ReadReturns
  <2>2. new = [old EXCEPT !.rec.status = st]
    OBVIOUS
  <2> HIDE DEF new, old
  <2> QED
    BY <2>1, <2>2 DEF Copy, User
<1>4. users[id].role # Admin
  <2>1. me[c].rec.role \in Roles /\ users[id].role \in Roles
    BY <1>2, IdsAre DEF AccountsInv, FileInv, Copy, User
  <2> QED
    BY <1>1, <2>1 DEF Roles, Admin
<1>5. Proceed(c, Task("toggle", new))
  BY <1>1
<1> HIDE DEF new
<1>6. id <= Len(users) + 1
  BY <1>2, IdsAre DEF FileInv
<1>7. PICK k : k = Task("toggle", new)
  OBVIOUS
<1>8. k \in Tasks /\ k.step = "toggle" /\ k.copy = new
  BY <1>3, <1>7, TaskReturns DEF Steps
<1>9. Agrees(k, users[id])
  BY <1>3, <1>8 DEF Agrees, InWalletCall
<1>10. TaskInv(c, k)
  BY <1>3, <1>4, <1>6, <1>8, <1>9 DEF TaskInv, InOrder, Holds, InWalletCall, Adds
<1> QED
  BY <1>2, <1>5, <1>7, <1>8, <1>10, TaskStepInv

LEMMA RoleReadInv ==
  ASSUME AccountsInv, NEW c \in Conns, RoleRead(c)
  PROVE  AccountsInv'
<1>1. PICK id \in Ids, r \in NewRoles :
        Proceed(c, Task(IF users[id].role = Admin /\ r # Admin THEN "count" ELSE "role",
                        [Read(id) EXCEPT !.rec.role = r]))
  BY DEF RoleRead
<1> DEFINE new == [Read(id) EXCEPT !.rec.role = r]
           step == IF users[id].role = Admin /\ r # Admin THEN "count" ELSE "role"
<1>2. FileInv /\ c \in Threads /\ task[c].step # "refresh"
  BY DEF AccountsInv, Threads, RoleRead, MayStart
<1>3. /\ new \in Copy /\ new.id = id /\ Sound(new.rec.wallet)
      /\ new.rec = [users[id] EXCEPT !.role = r] /\ new.rec.role = r
  <2> DEFINE old == Read(id)
  <2>1. /\ old \in Copy /\ old.id = id /\ old.rec = users[id]
        /\ Sound(old.rec.wallet)
    BY <1>2, ReadReturns
  <2>2. new = [old EXCEPT !.rec.role = r]
    OBVIOUS
  <2> HIDE DEF new, old
  <2> QED
    BY <2>1, <2>2 DEF Copy, User
<1>4. Proceed(c, Task(step, new))
  BY <1>1
<1>5. /\ step \in {"count", "role"}
      /\ step = "role" => users[id].role # Admin \/ r = Admin
  OBVIOUS
<1> HIDE DEF new, step
<1>6. id <= Len(users) + 1
  BY <1>2, IdsAre DEF FileInv
<1>7. PICK k : k = Task(step, new)
  OBVIOUS
<1>8. k \in Tasks /\ k.step = step /\ k.copy = new
  BY <1>3, <1>5, <1>7, TaskReturns DEF Steps
<1>9. Agrees(k, users[id])
  BY <1>3, <1>5, <1>8 DEF Agrees, InWalletCall
<1>10. TaskInv(c, k)
  BY <1>3, <1>5, <1>6, <1>8, <1>9 DEF TaskInv, InOrder, Holds, InWalletCall, Adds
<1> QED
  BY <1>2, <1>4, <1>5, <1>7, <1>8, <1>10, TaskStepInv

\* Of two active admins, one is not the one to be demoted.
LEMMA RoleCountInv ==
  ASSUME AccountsInv, NEW c \in Conns, RoleCount(c)
  PROVE  AccountsInv'
<1> DEFINE k == task[c]
<1>0. c \in Threads /\ k.step = "count" /\ TaskInv(c, k) /\ k \in Tasks
  BY DEF RoleCount, Threads, AccountsInv, TaskInv
<1>1. CASE Cardinality(ActiveAdmins) <= 1
  BY <1>0, <1>1, GiveUpInv DEF RoleCount
<1>2. CASE ~(Cardinality(ActiveAdmins) <= 1)
  <2>1. Proceed(c, Task("role", k.copy))
    BY <1>2 DEF RoleCount
  <2>2. k.copy \in Copy
    BY <1>0 DEF Tasks
  <2>3. ActiveAdmins \ {k.copy.id} # {}
    <3>1. IsFiniteSet(Ids)
      BY IdsAre, FS_Interval DEF AccountsInv, FileInv
    <3>2. ActiveAdmins \in SUBSET Ids
      BY DEF ActiveAdmins
    <3>3. IsFiniteSet(ActiveAdmins)
      BY <3>1, <3>2, FS_Subset
    <3>4. SUFFICES ASSUME ActiveAdmins \ {k.copy.id} = {}
                   PROVE  FALSE
      OBVIOUS
    <3>5. ActiveAdmins = {} \/ ActiveAdmins = {k.copy.id}
      BY <3>4
    <3>6. Cardinality(ActiveAdmins) <= 1
      <4>1. Cardinality({}) = 0 /\ Cardinality({k.copy.id}) = 1
        BY FS_EmptySet, FS_Singleton
      <4>2. CASE ActiveAdmins = {}
        BY <4>1, <4>2
      <4>3. CASE ActiveAdmins = {k.copy.id}
        BY <4>1, <4>3
      <4> QED
        BY <3>5, <4>2, <4>3
    <3> QED
      BY <1>2, <3>6
  <2>4. PICK l : l = Task("role", k.copy)
    OBVIOUS
  <2>5. l \in Tasks /\ l.step = "role" /\ l.copy = k.copy
    BY <2>2, <2>4, TaskReturns DEF Steps
  <2> HIDE DEF k
  <2>6. Agrees(k, users[k.copy.id]) => Agrees(l, users[l.copy.id])
    BY <1>0, <2>5 DEF Agrees, InWalletCall
  <2>7. TaskInv(c, l)
    BY <1>0, <2>3, <2>5, <2>6 DEF TaskInv, InOrder, Holds, InWalletCall, Adds
  <2> QED
    BY <1>0, <2>1, <2>4, <2>5, <2>7, TaskStepInv DEF k
<1> QED
  BY <1>1, <1>2

LEMMA AddScanInv ==
  ASSUME AccountsInv, NEW c \in Conns, AddScan(c)
  PROVE  AccountsInv'
<1>1. PICK n \in Names, r \in NewRoles :
        /\ NameUnknown(n)
        /\ Proceed(c, Task("number", [Nobody EXCEPT !.rec.name = n, !.rec.role = r]))
  BY DEF AddScan
<1> DEFINE new == [Nobody EXCEPT !.rec.name = n, !.rec.role = r]
<1>2. /\ new \in Copy /\ new.rec.name = n /\ new.id = 0 /\ Sound(new.rec.wallet)
  BY NobodyType DEF Nobody, Copy, User
<1>3. Proceed(c, Task("number", new)) /\ c \in Threads /\ task[c].step # "refresh"
  BY <1>1 DEF Threads, AddScan, MayStart
<1> HIDE DEF new
<1>4. Len(users) \in Nat
  BY IdsAre DEF AccountsInv, FileInv
<1>5. PICK k : k = Task("number", new)
  OBVIOUS
<1>6. k \in Tasks /\ k.step = "number" /\ k.copy = new
  BY <1>2, <1>5, TaskReturns DEF Steps
<1>7. TaskInv(c, k)
  BY <1>1, <1>2, <1>4, <1>6 DEF TaskInv, InOrder, Holds, InWalletCall, Adds
<1> QED
  BY <1>3, <1>5, <1>6, <1>7, TaskStepInv

LEMMA AddNumberInv ==
  ASSUME AccountsInv, NEW c \in Conns, AddNumber(c)
  PROVE  AccountsInv'
<1> DEFINE k == task[c]
           new == [k.copy EXCEPT !.id = Len(users) + 1]
<1>1. k.step = "number" /\ TaskInv(c, k) /\ Proceed(c, Task("add", new)) /\ c \in Threads
  BY DEF AddNumber, AccountsInv, Threads
<1>2. Len(users) \in Nat
  BY IdsAre DEF AccountsInv, FileInv
<1>3. /\ new \in Copy /\ new.id = Len(users) + 1
      /\ new.rec = k.copy.rec
  BY <1>1, <1>2 DEF TaskInv, Tasks, Copy
<1> HIDE DEF new
<1>4. PICK l : l = Task("add", new)
  OBVIOUS
<1>5. l \in Tasks /\ l.step = "add" /\ l.copy = new
  BY <1>3, <1>4, TaskReturns DEF Steps
<1>6. TaskInv(c, l)
  BY <1>1, <1>2, <1>3, <1>5 DEF TaskInv, InOrder, Holds, InWalletCall, Adds
<1> QED
  BY <1>1, <1>4, <1>5, <1>6, TaskStepInv

LEMMA SessionsChangeInv ==
  ASSUME AccountsInv, NEW c \in Conns, Logout(c) \/ DepositRefresh(c)
  PROVE  AccountsInv'
<1>1. UNCHANGED <<users, writes, intended, disturbed>> /\ overtaken' \subseteq overtaken
  BY DEF Logout, DepositRefresh
<1>2. FileInv' /\ FileInv /\ c \in Threads
  BY <1>1, SameFile DEF AccountsInv, Threads
<1>3. CASE Logout(c)
  <2>1. /\ me' = [me EXCEPT ![c] = Nobody] /\ UNCHANGED task /\ task[c].step = "idle"
        /\ overtaken' = overtaken \ {c}
    BY <1>3 DEF Logout, MayStart
  <2>2. me' \in [Conns -> Copy] /\ \A d \in Conns : SessionInv(d, me[d])'
    <3>1. me' \in [Conns -> Copy]
      BY <2>1, NobodyType DEF AccountsInv
    <3> SUFFICES ASSUME NEW d \in Conns PROVE SessionInv(d, me[d])'
      BY <3>1
    <3>2. CASE d = c
      <4>1. me'[d] = Nobody
        BY <2>1, <3>2 DEF AccountsInv
      <4> QED
        BY <4>1, NobodyType DEF SessionInv
    <3>3. CASE d # c
      <4>1. me'[d] = me[d] /\ SessionInv(d, me[d]) /\ (InSync(d)' => InSync(d))
        BY <2>1, <3>3 DEF AccountsInv, InSync
      <4>2. \A copy : copy = me[d] => SessionInv(d, copy)'
        BY <1>1, <4>1, SameSession
      <4> QED
        BY <4>1, <4>2 DEF SessionInv
    <3> QED
      BY <3>2, <3>3
  <2>3. \A t \in Threads : TaskInv(t, task[t])'
    <3> TAKE t \in Threads
    <3>1. TaskInv(t, task[t])
      BY DEF AccountsInv
    <3>2. t \in Conns /\ task[t].step \in {"deposit", "refresh"} => LoggedIn(t)'
      BY <2>1, <3>1 DEF AccountsInv, TaskInv, LoggedIn
    <3>3. \A l : l = task[t] => TaskInv(t, l)'
      BY <1>1, <3>1, <3>2, SameTask
    <3> QED
      BY <2>1, <3>3 DEF TaskInv
  <2>4. CallsApart'
    BY <2>1 DEF AccountsInv, CallsApart
  <2> QED
    BY <1>2, <2>1, <2>2, <2>3, <2>4 DEF AccountsInv
<1>4. CASE DepositRefresh(c)
  <2>1. /\ me' = [me EXCEPT ![c] = Read(me[c].id)] /\ task' = [task EXCEPT ![c] = Idle]
        /\ task[c].step = "refresh" /\ overtaken' = overtaken
    BY <1>4 DEF DepositRefresh
  <2>2. me[c].id \in Ids
    BY <1>2, <2>1 DEF AccountsInv, SessionInv, TaskInv, LoggedIn
  <2>3. /\ Read(me[c].id) \in Copy /\ Read(me[c].id).rec = users[me[c].id]
        /\ Read(me[c].id).id = me[c].id /\ Sound(Read(me[c].id).rec.wallet)
        /\ Read(me[c].id) # Nobody
    BY <1>2, <2>2, ReadReturns, NobodyType
  <2>4. me' \in [Conns -> Copy] /\ \A d \in Conns : SessionInv(d, me[d])'
    <3>1. me' \in [Conns -> Copy]
      BY <2>1, <2>3 DEF AccountsInv
    <3> SUFFICES ASSUME NEW d \in Conns PROVE SessionInv(d, me[d])'
      BY <3>1
    <3>2. CASE d = c
      <4>1. me'[d] = Read(me[c].id) /\ me'[d].id \in Ids' /\ users' = users
        BY <1>1, <2>1, <2>2, <2>3, <3>2 DEF AccountsInv, Ids
      <4> QED
        BY <2>3, <4>1 DEF SessionInv
    <3>3. CASE d # c
      <4>1. me'[d] = me[d] /\ SessionInv(d, me[d]) /\ (InSync(d)' => InSync(d))
        BY <2>1, <3>3 DEF AccountsInv, InSync, Threads
      <4>2. \A copy : copy = me[d] => SessionInv(d, copy)'
        BY <1>1, <4>1, SameSession
      <4> QED
        BY <4>1, <4>2 DEF SessionInv
    <3> QED
      BY <3>2, <3>3
  <2>5. Idle \in Tasks /\ TaskInv(c, Idle) /\ Alone(c, Idle)
    BY <1>2, IdleIs, IdleInv DEF Alone
  <2>6. \A t \in Threads : t \in Conns /\ LoggedIn(t) => LoggedIn(t)'
    BY <2>1, <2>3 DEF AccountsInv, LoggedIn
  <2>7. \A t \in Threads : TaskInv(t, task[t])' /\ task'[t] \in Tasks
    <3> TAKE t \in Threads
    <3>1. \A l : TaskInv(t, l) => TaskInv(t, l)'
      BY <1>1, <2>6, SameTask DEF TaskInv
    <3>2. (task'[t] = Idle /\ t = c) \/ task'[t] = task[t]
      BY <2>1 DEF AccountsInv
    <3> QED
      BY <2>5, <3>1, <3>2 DEF AccountsInv, TaskInv
  <2>8. task' \in [Threads -> Tasks] /\ CallsApart'
    BY <1>2, <2>1, <2>5, ApartKept DEF AccountsInv
  <2> QED
    BY <1>2, <2>4, <2>7, <2>8 DEF AccountsInv
<1> QED
  BY <1>3, <1>4

-----------------------------------------------------------------------------
(* Writes *)

\* The record a thread writes back: undisturbed, it is the record on file
\* with what was decided, and leaves another admin if it demotes one.
Valid(t, k, decided) ==
  LET copy == k.copy IN
  /\ copy \in Copy /\ copy.id \in 1..(Len(users) + 1)
  /\ Sound(copy.rec.wallet)
  /\ ~disturbed /\ ~Stale(t, k) =>
       /\ decided = copy.rec
       /\ copy.id \in Ids => copy.rec.name = users[copy.id].name
       /\ copy.id \notin Ids => Adds(k) /\ NameUnknown(copy.rec.name)
       /\ copy.id \in ActiveAdmins /\ ~IsActiveAdmin(copy.rec) =>
            Demotes(k) /\ ActiveAdmins \ {copy.id} # {}

LEMMA FileWritten ==
  ASSUME FileInv, NEW t, NEW k, NEW decided, NEW synced, NEW copy, copy = k.copy,
         WriteUser(t, k, decided, synced), Valid(t, k, decided)
  PROVE  /\ users' \in Seq(User) /\ writes' \in Nat
         /\ Len(users) \in Nat /\ Len(users') \in Nat /\ Len(users) <= Len(users')
         /\ Ids = 1..Len(users) /\ Ids' = Ids \cup {copy.id}
         /\ users'[copy.id] = copy.rec
         /\ \A id \in Ids \ {copy.id} : users'[id] = users[id]
         /\ copy.id \in Ids => Len(users') = Len(users)
<1>1. Len(users) \in Nat /\ Ids = 1..Len(users) /\ users \in Seq(User)
  BY IdsAre DEF FileInv
<1>2. copy.rec \in User /\ copy.id \in 1..(Len(users) + 1)
  BY DEF Valid, Copy
<1>3. writes' \in Nat
  BY DEF WriteUser, FileInv
<1>4. CASE copy.id \in Ids
  <2>1. users' = [users EXCEPT ![copy.id] = copy.rec]
    BY <1>4 DEF WriteUser
  <2>2. users' \in Seq(User) /\ Len(users') = Len(users) /\ Ids' = Ids
    BY <1>1, <1>2, <1>4, <2>1, ExceptSeq DEF Ids
  <2> QED
    BY <1>1, <1>3, <1>4, <2>1, <2>2
<1>5. CASE copy.id \notin Ids
  <2>1. users' = Append(users, copy.rec) /\ copy.id = Len(users) + 1
    BY <1>1, <1>2, <1>5 DEF WriteUser
  <2>2. users' \in Seq(User) /\ Len(users') = Len(users) + 1 /\ Ids' = Ids \cup {copy.id}
    BY <1>1, <1>2, <2>1, AppendProperties, LenProperties DEF Ids
  <2> QED
    BY <1>1, <1>2, <1>3, <1>5, <2>1, <2>2, AppendProperties
<1> QED
  BY <1>4, <1>5

\* What follows when a write leaves the file undisturbed.
LEMMA Undisturbed ==
  ASSUME FileInv, NEW t, NEW k, NEW decided, NEW synced, NEW copy, copy = k.copy,
         WriteUser(t, k, decided, synced), Valid(t, k, decided), ~disturbed'
  PROVE  /\ ~disturbed /\ ~Stale(t, k) /\ decided = copy.rec /\ users = intended
         /\ \A s \in Threads \ {t} : /\ ~SameRecord(k, task[s])
                                     /\ ~(Adds(k) /\ Adds(task[s]))
                                     /\ ~(Demotes(k) /\ Demotes(task[s]))
         /\ copy.id \in Ids => copy.rec.name = users[copy.id].name
         /\ copy.id \notin Ids => Adds(k) /\ NameUnknown(copy.rec.name)
         /\ copy.id \in ActiveAdmins /\ ~IsActiveAdmin(copy.rec) =>
              Demotes(k) /\ ActiveAdmins \ {copy.id} # {}
<1>1. ~disturbed /\ ~Disturbs(t, k)
  BY DEF WriteUser
<1>2. ~Stale(t, k) /\ \A s \in Threads \ {t} : /\ ~SameRecord(k, task[s])
                                        /\ ~(Adds(k) /\ Adds(task[s]))
                                        /\ ~(Demotes(k) /\ Demotes(task[s]))
  BY <1>1 DEF Disturbs
<1> QED
  BY <1>1, <1>2 DEF Valid, FileInv, NoDecisionLost

LEMMA FileInvWritten ==
  ASSUME FileInv, NEW t, NEW k, NEW decided, NEW synced, NEW copy, copy = k.copy,
         WriteUser(t, k, decided, synced), Valid(t, k, decided)
  PROVE  FileInv'
<1>1. /\ users' \in Seq(User) /\ writes' \in Nat
      /\ Ids' = Ids \cup {copy.id} /\ users'[copy.id] = copy.rec
      /\ \A id \in Ids \ {copy.id} : users'[id] = users[id]
  BY FileWritten
<1>2. disturbed' \in BOOLEAN /\ overtaken' \in SUBSET Conns
  BY DEF WriteUser, FileInv
<1>3. WalletsSound'
  BY <1>1 DEF WalletsSound, FileInv, Valid
<1>4. intended' \in Seq(User) /\ NoDecisionLost'
  <2>1. CASE disturbed'
    BY <2>1 DEF WriteUser, NoDecisionLost
  <2>2. CASE ~disturbed'
    <3>1. decided = copy.rec /\ users = intended
      BY <2>2, Undisturbed
    <3>2. intended' = users'
      BY <2>2, <3>1 DEF WriteUser
    <3> QED
      BY <1>1, <3>2 DEF NoDecisionLost
  <2> QED
    BY <2>1, <2>2
<1>5. AdminRemains'
  <2> SUFFICES ASSUME ~disturbed' PROVE \E id \in Ids' : IsActiveAdmin(users'[id])
    BY DEF AdminRemains, ActiveAdmins, IsActiveAdmin
  <2>1. PICK id \in Ids : IsActiveAdmin(users[id])
    BY Undisturbed DEF FileInv, AdminRemains, ActiveAdmins
  <2>2. CASE id # copy.id
    BY <1>1, <2>1, <2>2
  <2>3. CASE id = copy.id /\ IsActiveAdmin(copy.rec)
    BY <1>1, <2>3
  <2>4. CASE id = copy.id /\ ~IsActiveAdmin(copy.rec)
    <3>1. id \in ActiveAdmins
      BY <2>1 DEF ActiveAdmins
    <3>2. PICK other \in ActiveAdmins : other # copy.id
      BY <2>4, <3>1, Undisturbed
    <3> QED
      BY <1>1, <3>2 DEF ActiveAdmins
  <2> QED
    BY <2>2, <2>3, <2>4
<1>6. NamesUnique'
  <2> SUFFICES ASSUME ~disturbed', NEW i \in Ids', NEW j \in Ids',
                      users'[i].name = users'[j].name
               PROVE  i = j
    BY DEF NamesUnique
  <2>1. \A m, n \in Ids : users[m].name = users[n].name => m = n
    BY Undisturbed DEF FileInv, NamesUnique
  <2>2. \A n \in Ids : users'[n].name = users[n].name
    BY <1>1, Undisturbed
  <2>3. CASE copy.id \in Ids
    BY <1>1, <2>1, <2>2, <2>3
  <2>4. CASE copy.id \notin Ids
    <3>1. \A n \in Ids : users'[n].name # users'[copy.id].name
      BY <1>1, <2>2, <2>4, Undisturbed DEF NameUnknown
    <3> QED
      BY <1>1, <2>1, <2>2, <3>1
  <2> QED
    BY <2>3, <2>4
<1> QED
  BY <1>1, <1>2, <1>3, <1>4, <1>5, <1>6 DEF FileInv

\* What a session has is in order after a write, if it is not what was written.
LEMMA SessionWritten ==
  ASSUME FileInv, NEW t, NEW k, NEW decided, NEW synced, NEW copy, copy = k.copy,
         WriteUser(t, k, decided, synced), Valid(t, k, decided),
         NEW c \in Conns, NEW mine, mine = me[c], SessionInv(c, mine),
         task[c].step = "refresh" => task'[c].step = "refresh",
         c \in synced => task'[c].step = "refresh"
  PROVE  SessionInv(c, mine)'
<1>1. /\ Ids' = Ids \cup {copy.id} /\ users'[copy.id] = copy.rec
      /\ \A id \in Ids \ {copy.id} : users'[id] = users[id]
  BY FileWritten
<1>2. CASE mine = Nobody
  BY <1>2, NobodyType DEF SessionInv
<1>3. CASE mine # Nobody
  <2>1. mine.id \in Ids /\ (~disturbed /\ InSync(c) => mine.rec = users[mine.id])
    BY <1>3 DEF SessionInv
  <2>2. ASSUME ~disturbed', InSync(c)'
        PROVE  mine.rec = users'[mine.id]
    <3>1. ~disturbed /\ c \notin synced /\ task[c].step # "refresh" /\ c \notin overtaken'
      BY <2>2, Undisturbed DEF InSync
    <3>2. overtaken' = (overtaken \cup {d \in Conns : /\ me[d].id = copy.id
                                                     /\ task[d].step # "refresh"})
                       \ synced
      BY <2>2 DEF WriteUser
    <3>3. c \notin overtaken /\ me[c].id # copy.id
      BY <3>1, <3>2
    <3> QED
      BY <1>1, <2>1, <3>1, <3>3 DEF InSync
  <2> QED
    BY <1>1, <2>1, <2>2 DEF SessionInv
<1> QED
  BY <1>2, <1>3

\* The same for a thread that is not the one writing.
LEMMA TaskWritten ==
  ASSUME FileInv, NEW t \in Threads, NEW w, NEW decided, NEW synced,
         NEW copy, copy = w.copy,
         WriteUser(t, w, decided, synced), Valid(t, w, decided),
         NEW s \in Threads, NEW k, k = task[s], TaskInv(s, k),
         s # t \/ k.step = "idle",
         InWalletCall(w) /\ InWalletCall(k) => k.copy.id # copy.id,
         s \in Conns /\ k.step \in {"deposit", "refresh"} => LoggedIn(s)'
  PROVE  TaskInv(s, k)'
<1> DEFINE mine == k.copy
<1>1. /\ Ids' = Ids \cup {copy.id} /\ users'[copy.id] = copy.rec
      /\ \A id \in Ids \ {copy.id} : users'[id] = users[id]
      /\ Len(users) \in Nat /\ Len(users') \in Nat /\ Len(users) <= Len(users')
      /\ copy.id \in Ids => Len(users') = Len(users)
  BY FileWritten
<1>2. k \in Tasks /\ mine \in Copy
  BY DEF TaskInv, Tasks
<1>3. k.step # "idle" => s # t
  OBVIOUS
<1>5. ASSUME ~disturbed'
      PROVE  InOrder(k)'
  <2>1. ~disturbed /\ InOrder(k)
    BY <1>5, Undisturbed DEF TaskInv
  <2>2. ASSUME Holds(k)
        PROVE  mine.id \in Ids /\ mine.id # copy.id /\ users'[mine.id] = users[mine.id]
    <3>1. s # t /\ mine.id \in Ids
      BY <1>3, <2>2 DEF Holds, InWalletCall, TaskInv
    <3>2. ~SameRecord(w, k)
      BY <1>5, <3>1, Undisturbed
    <3> QED
      BY <1>1, <2>2, <3>1, <3>2 DEF SameRecord
  <2>3. Holds(k) => Agrees(k, users'[mine.id])
    BY <2>1, <2>2 DEF InOrder
  <2>4. ASSUME Adds(k)
        PROVE  copy.id \in Ids
    <3>1. s # t
      BY <1>3, <2>4 DEF Adds
    <3> QED
      BY <1>5, <2>4, <3>1, Undisturbed
  <2>5. Adds(k) => NameUnknown(mine.rec.name)'
    <3> SUFFICES ASSUME Adds(k), NEW id \in Ids'
                 PROVE  users'[id].name # mine.rec.name
      BY DEF NameUnknown
    <3>1. copy.id \in Ids /\ Ids' = Ids /\ \A i \in Ids : users[i].name # mine.rec.name
      BY <1>1, <2>1, <2>4 DEF InOrder, NameUnknown
    <3>2. copy.rec.name = users[copy.id].name
      BY <1>5, <3>1, Undisturbed
    <3> QED
      BY <1>1, <3>1, <3>2
  <2>6. k.step = "add" => mine.id = Len(users') + 1
    BY <1>1, <2>1, <2>4 DEF InOrder, Adds
  <2>7. k.step = "toggle" => users'[mine.id].role # Admin
    BY <2>1, <2>2 DEF InOrder, Holds
  <2>8. ASSUME k.step = "role", users'[mine.id].role = Admin
        PROVE  mine.rec.role = Admin \/ ActiveAdmins' \ {mine.id} # {}
    <3>1. mine.id \in Ids /\ users[mine.id].role = Admin
      BY <2>2, <2>8 DEF Holds
    <3>2. CASE mine.rec.role = Admin
      BY <3>2
    <3>3. CASE mine.rec.role # Admin
      <4>1. PICK other \in ActiveAdmins : other # mine.id
        BY <2>1, <2>8, <3>1, <3>3 DEF InOrder
      <4>2. Demotes(k) /\ s # t
        BY <1>3, <2>8, <3>1 DEF Demotes
      <4>3. other \in Ids /\ IsActiveAdmin(users[other]) /\ other \in Ids'
        BY <1>1, <4>1 DEF ActiveAdmins
      <4>4. IsActiveAdmin(users'[other])
        <5>1. CASE other # copy.id
          BY <1>1, <4>3, <5>1
        <5>2. CASE other = copy.id
          <6>1. ~Demotes(w)
            BY <1>5, <4>2, Undisturbed
          <6> QED
            BY <1>1, <1>5, <4>1, <5>2, <6>1, Undisturbed
        <5> QED
          BY <5>1, <5>2
      <4>5. other \in ActiveAdmins'
        BY <4>3, <4>4 DEF ActiveAdmins, IsActiveAdmin
      <4> QED
        BY <4>1, <4>5
    <3> QED
      BY <3>2, <3>3
  <2> QED
    BY <2>3, <2>5, <2>6, <2>7, <2>8 DEF InOrder
<1>6. /\ k.copy.id <= Len(users') + 1
      /\ Holds(k) => k.copy.id \in Ids'
  BY <1>1, <1>2 DEF TaskInv, Copy
<1> QED
  BY <1>5, <1>6 DEF TaskInv

\* A session keeps what it has, or gets the record written; a synced one may
\* keep it when it is about to be read anew.
Synced(copy, synced) ==
  /\ me' \in [Conns -> Copy]
  /\ \A c \in Conns : \/ me'[c] = copy
                      \/ me'[c] = me[c] /\ (c \in synced => task'[c].step = "refresh")

SyncedBy(t, step, synced) ==
  /\ me' \in [Conns -> Copy]
  /\ \A c \in Conns : \/ me'[c] = task[t].copy
                      \/ me'[c] = me[c] /\ (c \in synced => c = t /\ step = "refresh")

\* All of a write: the writer gives its copy up, or has none.
LEMMA WriteInv ==
  ASSUME AccountsInv, NEW t \in Threads, NEW w, NEW decided, NEW synced,
         WriteUser(t, w, decided, synced), Valid(t, w, decided),
         task[t].step # "refresh",
         NEW k, k = Task("idle", Nobody) \/ k = Task("refresh", Nobody),
         \/ w = task[t] /\ task' = [task EXCEPT ![t] = k]
         \/ ~InWalletCall(w) /\ task[t].step = "idle" /\ UNCHANGED task,
         k.step = "refresh" /\ t \in Conns => LoggedIn(t),
         Synced(w.copy, synced)
  PROVE  AccountsInv'
<1>0. FileInv /\ w.copy \in Copy /\ w.copy.id # 0
  BY DEF AccountsInv, Valid
<1>1. FileInv'
  BY <1>0, FileInvWritten
<1>2. Len(users') \in Nat /\ w.copy.id \in Ids' /\ users'[w.copy.id] = w.copy.rec
  BY <1>0, FileWritten
<1>3. /\ k \in Tasks /\ k.step \in {"idle", "refresh"} /\ k.copy = Nobody
      /\ ~Holds(k) /\ ~Adds(k) /\ ~InWalletCall(k)
  <2>1. {"idle", "refresh"} \subseteq Steps
    BY DEF Steps
  <2>2. \A step \in {"idle", "refresh"} :
          /\ Task(step, Nobody) \in Tasks /\ Task(step, Nobody).step = step
          /\ Task(step, Nobody).copy = Nobody
    BY <2>1, TaskReturns, NobodyType
  <2> QED
    BY <2>2 DEF Holds, Adds, InWalletCall
<1>4. \A s \in Threads :
        \/ s = t /\ task'[s] = k
        \/ (s # t \/ task[s].step = "idle") /\ task'[s] = task[s]
  BY DEF AccountsInv
<1>5. \A c \in Conns : SessionInv(c, me[c])'
  <2> TAKE c \in Conns
  <2>0. \/ me'[c] = w.copy
        \/ me'[c] = me[c] /\ (c \in synced => task'[c].step = "refresh")
    BY DEF Synced
  <2>1. CASE me'[c] = w.copy
    BY <1>0, <1>2, <2>1 DEF SessionInv, Valid
  <2>2. CASE me'[c] = me[c] /\ (c \in synced => task'[c].step = "refresh")
    <3>1. task[c].step = "refresh" => task'[c].step = "refresh"
      BY <1>4 DEF Threads
    <3>2. SessionInv(c, me[c])
      BY DEF AccountsInv
    <3>3. \A mine : mine = me[c] => SessionInv(c, mine)'
      BY <1>0, <2>2, <3>1, <3>2, SessionWritten
    <3> QED
      BY <2>2, <3>3 DEF SessionInv
  <2> QED
    BY <2>0, <2>1, <2>2
<1>6. \A c \in Conns : LoggedIn(c) => LoggedIn(c)'
  BY <1>0, NobodyType DEF LoggedIn, Synced
<1>7. \A s \in Threads : TaskInv(s, task[s])' /\ task'[s] \in Tasks
  <2> TAKE s \in Threads
  <2>1. TaskInv(s, task[s]) /\ task[s] \in Tasks
    BY DEF AccountsInv
  <2>2. CASE s = t /\ task'[s] = k
    <3>1. t \in Conns /\ k.step = "refresh" => LoggedIn(t)'
      BY <1>6
    <3>2. TaskInv(s, k)'
      BY <1>2, <1>3, <2>2, <3>1, NobodyType DEF TaskInv, InOrder
    <3> QED
      BY <1>3, <2>2, <3>2 DEF TaskInv
  <2>3. CASE (s # t \/ task[s].step = "idle") /\ task'[s] = task[s]
    <3>1. s \in Conns /\ task[s].step \in {"deposit", "refresh"} => LoggedIn(s)'
      BY <1>6, <2>1 DEF TaskInv
    <3>2. InWalletCall(w) /\ InWalletCall(task[s]) => task[s].copy.id # w.copy.id
      BY <2>3 DEF AccountsInv, CallsApart, InWalletCall
    <3>3. \A l : l = task[s] => TaskInv(s, l)'
      BY <1>0, <2>1, <2>3, <3>1, <3>2, TaskWritten
    <3> QED
      BY <2>1, <2>3, <3>3 DEF TaskInv
  <2> QED
    BY <1>4, <2>2, <2>3
<1>8. task' \in [Threads -> Tasks]
  BY <1>7 DEF AccountsInv
<1>9. CallsApart'
  <2>1. CASE UNCHANGED task
    BY <2>1 DEF AccountsInv, CallsApart
  <2>2. CASE task' = [task EXCEPT ![t] = k]
    BY <1>3, <2>2, ApartKept DEF Alone
  <2> QED
    BY <2>1, <2>2
<1> QED
  BY <1>1, <1>5, <1>7, <1>8, <1>9 DEF AccountsInv, Synced

\* WriteTask is such a write.
LEMMA WriteTaskInv ==
  ASSUME AccountsInv, NEW t \in Threads, NEW decided, NEW step \in {"idle", "refresh"},
         NEW synced, WriteTask(t, decided, step, synced),
         Valid(t, task[t], decided), task[t].step # "refresh",
         step = "refresh" /\ t \in Conns => LoggedIn(t),
         SyncedBy(t, step, synced)
  PROVE  AccountsInv'
<1>1. /\ WriteUser(t, task[t], decided, synced)
      /\ task' = [task EXCEPT ![t] = Task(step, Nobody)]
  BY DEF WriteTask
<1>2. Task(step, Nobody).step = step
  BY DEF Task
<1>3. PICK k : k = Task(step, Nobody)
  OBVIOUS
<1>4. task'[t] = k /\ (k = Task("idle", Nobody) \/ k = Task("refresh", Nobody))
  BY <1>1, <1>3 DEF AccountsInv
<1>5. PICK w : w = task[t]
  OBVIOUS
<1>6. Synced(w.copy, synced)
  BY <1>2, <1>3, <1>4, <1>5 DEF Synced, SyncedBy
<1>7. WriteUser(t, w, decided, synced) /\ Valid(t, w, decided)
  BY <1>1, <1>5
<1>8. w = task[t] /\ task' = [task EXCEPT ![t] = k]
  BY <1>1, <1>3, <1>5
<1>9. k.step = "refresh" /\ t \in Conns => LoggedIn(t)
  BY <1>2, <1>3
<1> QED
  BY <1>4, <1>6, <1>7, <1>8, <1>9, WriteInv

LEMMA HolderValid ==
  ASSUME AccountsInv, NEW t \in Threads, Holds(task[t]), task[t].step # "count",
         NEW decided, ~disturbed => decided = task[t].copy.rec
  PROVE  Valid(t, task[t], decided)
<1> DEFINE k == task[t]
           id == k.copy.id
           u == users[id]
           r == k.copy.rec
<1>1. TaskInv(t, k) /\ FileInv
  BY DEF AccountsInv
<1>2. /\ k.copy \in Copy /\ r \in User /\ id \in Ids /\ u \in User
      /\ id \in 1..(Len(users) + 1)
  BY <1>1, IdsAre DEF TaskInv, Tasks, FileInv, Copy
<1>3. ASSUME ~disturbed
      PROVE  /\ r.name = u.name
             /\ id \in ActiveAdmins /\ ~IsActiveAdmin(r) =>
                  Demotes(k) /\ ActiveAdmins \ {id} # {}
  <2>1. Agrees(k, u) /\ InOrder(k)
    BY <1>1, <1>3 DEF TaskInv, InOrder
  <2>2. r.name = u.name
    BY <1>2, <2>1 DEF Agrees, Holds, InWalletCall, User
  <2>3. CASE k.step \in {"login", "wallet", "deposit"}
    <3>1. r.role = u.role /\ r.status = u.status
      BY <1>2, <2>1, <2>3 DEF Agrees, InWalletCall, User
    <3> QED
      BY <2>2, <3>1 DEF ActiveAdmins, IsActiveAdmin
  <2>4. CASE k.step = "toggle"
    BY <1>3, <2>1, <2>2, <2>4 DEF InOrder, ActiveAdmins, IsActiveAdmin
  <2>5. CASE k.step = "role"
    <3>1. r.status = u.status
      BY <1>2, <2>1, <2>5 DEF Agrees, InWalletCall, User
    <3> SUFFICES ASSUME id \in ActiveAdmins, ~IsActiveAdmin(r)
                 PROVE  Demotes(k) /\ ActiveAdmins \ {id} # {}
      BY <2>2
    <3>2. u.role = Admin /\ r.role # Admin
      BY <3>1 DEF ActiveAdmins, IsActiveAdmin
    <3> QED
      BY <1>2, <1>3, <2>1, <2>5, <3>2 DEF InOrder, Demotes
  <2> QED
    BY <2>3, <2>4, <2>5 DEF Holds, InWalletCall
<1> HIDE DEF u, r, id
<1> QED
  BY <1>1, <1>2, <1>3 DEF Valid, TaskInv, u, r, id

\* What a record owes to the decision, undisturbed.
LEMMA HolderAgrees ==
  ASSUME AccountsInv, NEW t \in Threads, Holds(task[t]), ~disturbed
  PROVE  Agrees(task[t], intended[task[t].copy.id])
BY DEF AccountsInv, TaskInv, InOrder, FileInv, NoDecisionLost

LEMMA LoginWriteInv ==
  ASSUME AccountsInv, NEW c \in Conns, LoginWrite(c)
  PROVE  AccountsInv'
<1> DEFINE copy == task[c].copy
<1>0. c \in Threads /\ task[c].step = "login" /\ Holds(task[c]) /\ task[c] \in Tasks
  BY DEF LoginWrite, Threads, Holds, AccountsInv
<1>1. CASE \E d \in Conns : me[d].id = copy.id
  BY <1>0, <1>1, GiveUpInv DEF LoginWrite
<1>2. CASE ~\E d \in Conns : me[d].id = copy.id
  <2>1. WriteTask(c, intended[copy.id], "idle", {c}) /\ me' = [me EXCEPT ![c] = copy]
    BY <1>2 DEF LoginWrite
  <2>2. ~disturbed => intended[copy.id] = copy.rec
    BY <1>0, HolderAgrees DEF Agrees, InWalletCall
  <2>3. Valid(c, task[c], intended[copy.id])
    BY <1>0, <2>2, HolderValid
  <2>4. SyncedBy(c, "idle", {c})
    BY <1>0, <2>1 DEF AccountsInv, Tasks, SyncedBy
  <2> QED
    BY <1>0, <2>1, <2>3, <2>4, WriteTaskInv
<1> QED
  BY <1>1, <1>2

LEMMA WalletWriteInv ==
  ASSUME AccountsInv, NEW t \in Threads, WalletWrite(t)
  PROVE  AccountsInv'
<1> DEFINE call == task[t].call
           decided == [intended[task[t].copy.id] EXCEPT
                         !.wallet = Outcome(call.op, @, call.amount)]
           step == IF task[t].step = "deposit" THEN "refresh" ELSE "idle"
           synced == IF task[t].step = "deposit" THEN {t} ELSE {}
<1>1. /\ InWalletCall(task[t]) /\ UNCHANGED me
      /\ WriteTask(t, decided, step, synced)
  BY DEF WalletWrite
<1>2. Holds(task[t]) /\ task[t].step \notin {"count", "refresh"}
  BY <1>1 DEF Holds, InWalletCall
<1>3. ~disturbed => decided = task[t].copy.rec
  BY <1>1, <1>2, HolderAgrees DEF Agrees, InWalletCall
<1>4. step = "refresh" /\ t \in Conns => LoggedIn(t)
  BY DEF AccountsInv, TaskInv
<1>5. step \in {"idle", "refresh"} /\ \A c \in synced : c = t /\ step = "refresh"
  OBVIOUS
<1> HIDE DEF decided, step, synced
<1>6. Valid(t, task[t], decided)
  BY <1>2, <1>3, HolderValid
<1>7. SyncedBy(t, step, synced)
  BY <1>1, <1>5 DEF AccountsInv, SyncedBy
<1> QED
  BY <1>1, <1>2, <1>4, <1>5, <1>6, <1>7, WriteTaskInv

LEMMA ToggleWriteInv ==
  ASSUME AccountsInv, NEW c \in Conns, ToggleWrite(c)
  PROVE  AccountsInv'
<1> DEFINE copy == task[c].copy
           decided == [intended[copy.id] EXCEPT !.status = copy.rec.status]
<1>1. task[c].step = "toggle" /\ UNCHANGED me /\ WriteTask(c, decided, "idle", {})
  BY DEF ToggleWrite
<1>2. Holds(task[c]) /\ c \in Threads /\ SyncedBy(c, "idle", {})
  BY <1>1 DEF Holds, Threads, AccountsInv, SyncedBy
<1>3. ~disturbed => decided = copy.rec
  BY <1>1, <1>2, HolderAgrees DEF Agrees, InWalletCall
<1> HIDE DEF decided
<1>4. Valid(c, task[c], decided)
  BY <1>1, <1>2, <1>3, HolderValid
<1> QED
  BY <1>1, <1>2, <1>4, WriteTaskInv

LEMMA RoleWriteInv ==
  ASSUME AccountsInv, NEW c \in Conns, RoleWrite(c)
  PROVE  AccountsInv'
<1> DEFINE copy == task[c].copy
           decided == [intended[copy.id] EXCEPT !.role = copy.rec.role]
<1>1. task[c].step = "role" /\ UNCHANGED me /\ WriteTask(c, decided, "idle", {})
  BY DEF RoleWrite
<1>2. Holds(task[c]) /\ c \in Threads /\ SyncedBy(c, "idle", {})
  BY <1>1 DEF Holds, Threads, AccountsInv, SyncedBy
<1>3. ~disturbed => decided = copy.rec
  BY <1>1, <1>2, HolderAgrees DEF Agrees, InWalletCall
<1> HIDE DEF decided
<1>4. Valid(c, task[c], decided)
  BY <1>1, <1>2, <1>3, HolderValid
<1> QED
  BY <1>1, <1>2, <1>4, WriteTaskInv

LEMMA AddWriteInv ==
  ASSUME AccountsInv, NEW c \in Conns, AddWrite(c)
  PROVE  AccountsInv'
<1> DEFINE copy == task[c].copy
<1>1. /\ task[c].step = "add" /\ c \in Threads /\ SyncedBy(c, "idle", {})
      /\ WriteTask(c, copy.rec, "idle", {})
  BY DEF AddWrite, Threads, AccountsInv, SyncedBy
<1>2. TaskInv(c, task[c]) /\ FileInv
  BY <1>1 DEF AccountsInv
<1>3. copy \in Copy /\ copy.id \in 1..(Len(users) + 1) /\ Sound(copy.rec.wallet)
  BY <1>1, <1>2, IdsAre DEF TaskInv, Tasks, Copy, FileInv
<1>4. ~disturbed => copy.id \notin Ids /\ Adds(task[c]) /\ NameUnknown(copy.rec.name)
  BY <1>1, <1>2, IdsAre DEF TaskInv, InOrder, Adds, FileInv
<1>5. Valid(c, task[c], copy.rec)
  BY <1>3, <1>4 DEF Valid, ActiveAdmins
<1> QED
  BY <1>1, <1>5, WriteTaskInv

LEMMA ChangePasswordInv ==
  ASSUME AccountsInv, NEW c \in Conns, ChangePassword(c)
  PROVE  AccountsInv'
<1>0. c \in Threads /\ task[c].step = "idle" /\ me[c] # Nobody /\ UNCHANGED task
  BY DEF ChangePassword, MayStart, LoggedIn, Threads
<1>1. PICK x \in Secrets :
        LET copy == [me[c] EXCEPT !.rec.secret = x] IN
        /\ WriteUser(c, Task("idle", copy),
                     [intended[copy.id] EXCEPT !.secret = x], {c})
        /\ me' = [me EXCEPT ![c] = copy]
  BY DEF ChangePassword
<1> DEFINE copy == [me[c] EXCEPT !.rec.secret = x]
           decided == [intended[copy.id] EXCEPT !.secret = x]
           w == Task("idle", copy)
<1>2. SessionInv(c, me[c]) /\ me[c] \in Copy /\ FileInv
  BY DEF AccountsInv
<1>3. /\ copy \in Copy /\ copy.id = me[c].id
      /\ copy.rec = [me[c].rec EXCEPT !.secret = x]
      /\ copy.rec.wallet = me[c].rec.wallet
  BY <1>2, SetSecret
<1>4. me[c].id \in Ids /\ (~disturbed /\ c \notin overtaken => me[c].rec = users[me[c].id])
  BY <1>0, <1>2 DEF SessionInv, InSync
<1>5. users[me[c].id] \in User /\ me[c].id \in 1..(Len(users) + 1)
  BY <1>2, <1>4, IdsAre DEF FileInv
<1>6. WriteUser(c, w, decided, {c}) /\ me' = [me EXCEPT ![c] = copy]
  BY <1>1
<1>7. ~disturbed /\ c \notin overtaken =>
        /\ decided = copy.rec /\ copy.rec.name = users[copy.id].name
        /\ copy.rec.role = users[copy.id].role /\ copy.rec.status = users[copy.id].status
  <2> SUFFICES ASSUME ~disturbed, c \notin overtaken
               PROVE  /\ decided = copy.rec /\ copy.rec.name = users[copy.id].name
                      /\ copy.rec.role = users[copy.id].role
                      /\ copy.rec.status = users[copy.id].status
    OBVIOUS
  <2>1. users = intended
    BY <1>2 DEF FileInv, NoDecisionLost
  <2>2. decided = [users[copy.id] EXCEPT !.secret = x]
    BY <2>1
  <2> HIDE DEF copy, decided
  <2>3. copy.rec = [users[copy.id] EXCEPT !.secret = x]
    BY <1>3, <1>4
  <2> QED
    BY <1>3, <1>5, <2>2, <2>3 DEF User
<1> HIDE DEF copy, decided
<1>8. w.copy = copy /\ w.step = "idle" /\ ~InWalletCall(w)
  BY DEF Task, InWalletCall
<1> HIDE DEF w
<1>9. Valid(c, w, decided)
  BY <1>2, <1>3, <1>4, <1>5, <1>7, <1>8 DEF Valid, Stale, SessionInv, ActiveAdmins, IsActiveAdmin
<1>10. Synced(w.copy, {c})
  BY <1>3, <1>6, <1>8 DEF AccountsInv, Synced
<1>11. Task("idle", Nobody).step = "idle"
  BY DEF Task
<1> QED
  BY <1>0, <1>6, <1>8, <1>9, <1>10, <1>11, WriteInv

-----------------------------------------------------------------------------
LEMMA NextInv ==
  ASSUME AccountsInv, Next
  PROVE  AccountsInv'
<1>1. ASSUME NEW c \in Conns, Step(c)
      PROVE  AccountsInv'
  <2>1. CASE LoginRead(c) \/ LoginWrite(c) \/ Logout(c) \/ ChangePassword(c)
    BY <2>1, LoginReadInv, LoginWriteInv, SessionsChangeInv, ChangePasswordInv
  <2>2. CASE Deposit(c)
    <3>1. PICK a \in Amounts : WalletRead(c, me[c].id, "credit", a, "deposit")
      BY <2>2 DEF Deposit
    <3>2. LoggedIn(c) /\ me[c].id \in Ids
      BY <2>2 DEF Deposit, MayStart, LoggedIn, AccountsInv, SessionInv
    <3>3. c \in Threads /\ "credit" \in Ops /\ "deposit" \in {"wallet", "deposit"}
      BY DEF Threads, Ops
    <3> QED
      BY <3>1, <3>2, <3>3, WalletReadInv
  <2>3. CASE DepositRefresh(c) \/ ToggleRead(c) \/ ToggleWrite(c)
    BY <2>3, SessionsChangeInv, ToggleReadInv, ToggleWriteInv
  <2>4. CASE RoleRead(c) \/ RoleCount(c) \/ RoleWrite(c)
    BY <2>4, RoleReadInv, RoleCountInv, RoleWriteInv
  <2>5. CASE AddScan(c) \/ AddNumber(c) \/ AddWrite(c)
    BY <2>5, AddScanInv, AddNumberInv, AddWriteInv
  <2> QED
    BY <1>1, <2>1, <2>2, <2>3, <2>4, <2>5 DEF Step
<1>2. ASSUME NEW t \in Threads, WalletCall(t)
      PROVE  AccountsInv'
  <2>1. PICK id \in Ids, op \in Ops, a \in Amounts : WalletRead(t, id, op, a, "wallet")
    BY <1>2 DEF WalletCall
  <2>2. (t \in Conns => LoggedIn(t)) /\ "wallet" \in {"wallet", "deposit"}
    BY <1>2 DEF WalletCall
  <2> QED
    BY <2>1, <2>2, WalletReadInv
<1> QED
  BY <1>1, <1>2, WalletWriteInv DEF Next

LEMMA StutterInv == AccountsInv /\ UNCHANGED vars => AccountsInv'
<1> SUFFICES ASSUME AccountsInv, UNCHANGED vars PROVE AccountsInv'
  OBVIOUS
<1>1. FileInv'
  BY SameFile DEF AccountsInv, vars
<1>2. \A c \in Conns : SessionInv(c, me[c])'
  BY SameSession DEF AccountsInv, SessionInv, InSync, vars
<1>3. \A t \in Threads : TaskInv(t, task[t])'
  BY SameTask DEF AccountsInv, TaskInv, LoggedIn, vars
<1>4. CallsApart'
  BY DEF AccountsInv, CallsApart, vars
<1> QED
  BY <1>1, <1>2, <1>3, <1>4 DEF AccountsInv, vars

LEMMA InvariantHolds == Spec => []AccountsInv
<1>1. AccountsInv /\ [Next]_vars => AccountsInv'
  BY NextInv, StutterInv
<1> QED
  BY <1>1, InitInv, PTL DEF Spec

\* Type correctness: the ids that threads and sessions keep are of records
\* on file, or of the one being added.
THEOREM TypeCorrect == Spec => []TypeOK
<1>1. AccountsInv => TypeOK
  <2> SUFFICES ASSUME AccountsInv PROVE TypeOK
    OBVIOUS
  <2>1. Len(users) \in Nat /\ Ids = 1..Len(users)
    BY IdsAre DEF AccountsInv, FileInv
  <2>2. \A c \in Conns : me[c].id <= Len(users)
    BY <2>1, NobodyType DEF AccountsInv, SessionInv
  <2> QED
    BY <2>2 DEF AccountsInv, FileInv, TaskInv, TypeOK
<1> QED
  BY <1>1, InvariantHolds, PTL

\* Whichever writers of users.dat overlap, the guards of apply_wallet_delta
\* keep holds covered.
THEOREM WalletsStaySound == Spec => []WalletsSound
<1>1. AccountsInv => WalletsSound
  BY DEF AccountsInv, FileInv
<1> QED
  BY <1>1, InvariantHolds, PTL

\* Writing whole records loses a decision only when two threads meet at a
\* record, add users or demote admins at the same time, or when a password is
\* changed from an overtaken session; wallet calls may be as many as there
\* are threads, and deposits do not get lost to a later change of password.
THEOREM DecisionsStay == Spec => []NoDecisionLost
<1>1. AccountsInv => NoDecisionLost
  BY DEF AccountsInv, FileInv
<1> QED
  BY <1>1, InvariantHolds, PTL

\* handle_change_role and handle_toggle_account leave an active admin, unless
\* disturbed.
THEOREM AnAdminRemains == Spec => []AdminRemains
<1>1. AccountsInv => AdminRemains
  BY DEF AccountsInv, FileInv
<1> QED
  BY <1>1, InvariantHolds, PTL

\* handle_add_user gives no name twice, unless disturbed.
THEOREM NamesStayUnique == Spec => []NamesUnique
<1>1. AccountsInv => NamesUnique
  BY DEF AccountsInv, FileInv
<1> QED
  BY <1>1, InvariantHolds, PTL
=============================================================================
