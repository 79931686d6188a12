------------------------------ MODULE Accounts ------------------------------
(***************************************************************************)
(* users.dat as a file of whole records, and all that write them: login,   *)
(* change_password (server/auth.c), deposits and the other wallet calls    *)
(* (server/wallet.c), toggle_account (server/dispute.c), change_role and   *)
(* add_user (server/admin.c).  Each of them copies a record, changes a     *)
(* field of the copy and writes the whole record back; wallet calls        *)
(* exclude each other (WalletLocks), the rest nothing.  Every access to    *)
(* the file is a step.                                                     *)
(***************************************************************************)
EXTENDS Wallet, FiniteSets, Sequences

CONSTANTS
  Conns,              \* connections, each with its worker thread
  Timer,              \* the timer thread, which makes wallet calls as well
  Names, Secrets,     \* user names, of at most 31 characters, and passwords
  Seeded,             \* users.dat when a behaviour starts
  NewRoles,           \* bound: the roles that admins give
  Amounts,            \* bound: the amounts of wallet calls
  MaxWrites           \* bound: the writes to users.dat in one behaviour

Threads == Conns \cup {Timer}

\* models.h: Role, in its order, and AccountStatus; ACCOUNT_INACTIVE and
\* ACCOUNT_BANNED are one, as all code treats them alike.
Bidder == 0
Moderator == 2
Admin == 3
Roles == 0..3
Statuses == {"active", "banned"}
User == [name : Names, secret : Secrets, role : Roles, status : Statuses,
         wallet : WalletRecord]

IsActiveAdmin(u) == u.role = Admin /\ u.status = "active"

\* seed_admin.c: "you need at least one admin to create other admins".
ASSUME AccountsAssumption ==
  /\ Timer \notin Conns
  /\ Seeded \in Seq(User) /\ Seeded # <<>>
  /\ IsActiveAdmin(Seeded[1])
  /\ \A i, j \in DOMAIN Seeded : Seeded[i].name = Seeded[j].name => i = j
  /\ \A i \in DOMAIN Seeded : Sound(Seeded[i].wallet)
  /\ NewRoles \subseteq Roles
  /\ Amounts \subseteq Nat \ {0}
  /\ MaxWrites \in Nat

VARIABLES
  users,              \* users.dat, by user id
  me,                 \* current_user of each connection
  task,               \* what each thread is doing, its local "User u", and
                      \* the wallet call it makes
  writes,             \* the writes so far (bound)
  intended,           \* history: users.dat had every field been set alone
  overtaken,          \* history: the connections whose session's copy of the
                      \* record is older than a write of somebody else
  disturbed           \* history: threads got into each other's way, see Disturbs

vars == <<users, me, task, writes, intended, overtaken, disturbed>>

\* A copy of record id.
NoUser == [name |-> CHOOSE n \in Names : TRUE, secret |-> CHOOSE s \in Secrets : TRUE,
           role |-> Bidder, status |-> "active",
           wallet |-> [balance |-> 0, hold |-> 0]]
Nobody == [id |-> 0, rec |-> NoUser]
Copy == [id : Nat, rec : User]
Steps == {"idle", "login", "wallet", "deposit", "refresh", "toggle", "count",
          "role", "number", "add"}
Calls == [op : Ops, amount : Nat]
NoCall == [op |-> "credit", amount |-> 0]
Tasks == [step : Steps, copy : Copy, call : Calls]
Task(step, copy) == [step |-> step, copy |-> copy, call |-> NoCall]
Idle == Task("idle", Nobody)

TypeOK ==
  /\ users \in Seq(User)
  /\ me \in [Conns -> Copy]
  /\ task \in [Threads -> Tasks]
  /\ \A c \in Conns : me[c].id <= Len(users)
  /\ \A t \in Threads : task[t].copy.id <= Len(users) + 1
  /\ writes \in Nat
  /\ intended \in Seq(User)
  /\ overtaken \in SUBSET Conns
  /\ disturbed \in BOOLEAN

Init ==
  /\ users = Seeded
  /\ me = [c \in Conns |-> Nobody]
  /\ task = [t \in Threads |-> Idle]
  /\ writes = 0
  /\ intended = Seeded
  /\ overtaken = {}
  /\ disturbed = FALSE

-----------------------------------------------------------------------------
(* The file *)

Ids == DOMAIN users

\* read_user
Read(id) == [id |-> id, rec |-> users[id]]

\* find_user_by_username: the first record with the name, or none.
FindUser(n) ==
  {id \in Ids : users[id].name = n /\ \A i \in 1..(id - 1) : users[i].name # n}
NameUnknown(n) == \A id \in Ids : users[id].name # n

ActiveAdmins == {id \in Ids : IsActiveAdmin(users[id])}

\* Threads between the read of a record and its write; and whether one that
\* writes meets another at the same record.  Two wallet calls that meet there
\* are no excuse: a mutex is to keep them apart.
InWalletCall(k) == k.step \in {"wallet", "deposit"}
Holds(k) == InWalletCall(k) \/ k.step \in {"login", "toggle", "count", "role"}
Adds(k) == k.step \in {"number", "add"}
Demotes(k) ==
  /\ k.step \in {"count", "role"}
  /\ k.copy.id \in Ids /\ users[k.copy.id].role = Admin
SameRecord(k, l) ==
  /\ Holds(l) /\ k.copy.id = l.copy.id
  /\ ~(InWalletCall(k) /\ InWalletCall(l))

\* Writing what the session has, without a read, when others overtook that.
Stale(t, k) == k.step = "idle" /\ t \in overtaken

\* What disturbs: that; to write a record that another thread has read to
\* write it as well; and two threads that both add a user, or demote an admin.
Disturbs(t, k) ==
  \/ Stale(t, k)
  \/ \E s \in Threads \ {t} :
       \/ SameRecord(k, task[s])
       \/ Adds(k) /\ Adds(task[s])
       \/ Demotes(k) /\ Demotes(task[s])

\* write_user: thread t, at step k, writes back the whole record it has a
\* copy of.  decided is that record had only the field in question been set
\* in it; synced are the connections whose session gets what is written.
\* (Another one that is about to read it anew is not overtaken.)
WriteUser(t, k, decided, synced) ==
  LET id == k.copy.id IN
  /\ writes < MaxWrites
  /\ writes' = writes + 1
  /\ users' = IF id \in Ids THEN [users EXCEPT ![id] = k.copy.rec]
              ELSE Append(users, k.copy.rec)
  /\ disturbed' = (disturbed \/ Disturbs(t, k))
  /\ overtaken' = IF disturbed' THEN {}
                  ELSE (overtaken \cup {c \in Conns : /\ me[c].id = id
                                                     /\ task[c].step # "refresh"})
                       \ synced
  /\ intended' = IF disturbed' THEN <<>>
                 ELSE IF id \in Ids THEN [intended EXCEPT ![id] = decided]
                 ELSE Append(intended, decided)

\* ... and goes on to step.
WriteTask(t, decided, step, synced) ==
  /\ WriteUser(t, task[t], decided, synced)
  /\ task' = [task EXCEPT ![t] = Task(step, Nobody)]

\* A step that writes nothing.
Proceed(t, k) ==
  /\ task' = [task EXCEPT ![t] = k]
  /\ UNCHANGED <<users, me, writes, intended, overtaken, disturbed>>

GiveUp(t) == Proceed(t, Idle)
LoggedIn(c) == me[c] # Nobody
MayStart(c) == task[c].step = "idle" /\ LoggedIn(c)

-----------------------------------------------------------------------------
(* server/auth.c.  Requests refused for a wrong password change nothing.   *)

\* handle_login, steps 1 to 3.
LoginRead(c) ==
  /\ task[c].step = "idle" /\ ~LoggedIn(c)
  /\ \E n \in Names : \E id \in FindUser(n) :
       /\ users[id].status = "active"
       /\ Proceed(c, Task("login", Read(id)))

\* Steps 4 to 6: if the user has no session yet, the record with the new
\* last_login (not modelled) is written and becomes current_user.
LoginWrite(c) ==
  LET copy == task[c].copy IN
  /\ task[c].step = "login"
  /\ IF \E d \in Conns : me[d].id = copy.id THEN GiveUp(c)
     ELSE /\ WriteTask(c, intended[copy.id], "idle", {c})
          /\ me' = [me EXCEPT ![c] = copy]

\* handle_logout, or the connection is lost.
Logout(c) ==
  /\ MayStart(c)
  /\ me' = [me EXCEPT ![c] = Nobody]
  /\ overtaken' = overtaken \ {c}
  /\ UNCHANGED <<users, task, writes, intended, disturbed>>

\* handle_change_password writes current_user, with the new password in it,
\* and does not read the file before.
ChangePassword(c) ==
  /\ MayStart(c)
  /\ \E s \in Secrets :
       LET copy == [me[c] EXCEPT !.rec.secret = s] IN
       /\ WriteUser(c, Task("idle", copy),
                    [intended[copy.id] EXCEPT !.secret = s], {c})
       /\ me' = [me EXCEPT ![c] = copy]
  /\ UNCHANGED task

-----------------------------------------------------------------------------
(* server/wallet.c.  A call excludes other calls for the user by a mutex;  *)
(* a refused one writes nothing.                                           *)

Locked(id) == \E t \in Threads : InWalletCall(task[t]) /\ task[t].copy.id = id

WalletRead(t, id, op, amount, step) ==
  LET w == users[id].wallet IN
  /\ task[t].step = "idle"
  /\ ~Locked(id)
  /\ Accepted(op, w, amount)
  /\ Proceed(t, [step |-> step, call |-> [op |-> op, amount |-> amount],
                 copy |-> [Read(id) EXCEPT !.rec.wallet = Outcome(op, w, amount)]])

\* handle_place_bid, the closes, the refunds: any thread, any user.
WalletCall(t) ==
  /\ t \in Conns => LoggedIn(t)
  /\ \E id \in Ids, op \in Ops, a \in Amounts : WalletRead(t, id, op, a, "wallet")

\* handle_deposit
Deposit(c) ==
  /\ MayStart(c)
  /\ \E a \in Amounts : WalletRead(c, me[c].id, "credit", a, "deposit")

WalletWrite(t) ==
  LET call == task[t].call
      deposit == task[t].step = "deposit" IN
  /\ InWalletCall(task[t])
  /\ WriteTask(t, [intended[task[t].copy.id] EXCEPT
                    !.wallet = Outcome(call.op, @, call.amount)],
               IF deposit THEN "refresh" ELSE "idle",
               IF deposit THEN {t} ELSE {})
  /\ UNCHANGED me

\* Mutant: the session keeps its copy.
DepositRefreshForgotten(c) ==
  /\ task[c].step = "refresh"
  /\ task' = [task EXCEPT ![c] = Idle]
  /\ UNCHANGED <<users, me, writes, intended, overtaken, disturbed>>

\* "keep server-side copy in sync"
DepositRefresh(c) ==
  /\ task[c].step = "refresh"
  /\ task' = [task EXCEPT ![c] = Idle]
  /\ me' = [me EXCEPT ![c] = Read(me[c].id)]
  /\ UNCHANGED <<users, writes, intended, overtaken, disturbed>>

-----------------------------------------------------------------------------
(* handle_toggle_account of server/dispute.c.  Rights are those of the     *)
(* session's copy, which a change of role does not reach.                  *)

ToggleRead(c) ==
  /\ MayStart(c)
  /\ me[c].rec.role >= Moderator
  /\ \E id \in Ids, st \in Statuses :
       /\ users[id].role < me[c].rec.role
       /\ Proceed(c, Task("toggle", [Read(id) EXCEPT !.rec.status = st]))

ToggleWrite(c) ==
  LET copy == task[c].copy IN
  /\ task[c].step = "toggle"
  /\ WriteTask(c, [intended[copy.id] EXCEPT !.status = copy.rec.status], "idle", {})
  /\ UNCHANGED me

-----------------------------------------------------------------------------
(* server/admin.c *)

\* handle_change_role; who demotes an admin goes on to count the admins.
RoleRead(c) ==
  /\ MayStart(c)
  /\ me[c].rec.role = Admin
  /\ \E id \in Ids, r \in NewRoles :
       Proceed(c, Task(IF users[id].role = Admin /\ r # Admin THEN "count" ELSE "role",
                       [Read(id) EXCEPT !.rec.role = r]))

\* Mutant: the admin to be demoted is not counted against.
RoleCountOffByOne(c) ==
  /\ task[c].step = "count"
  /\ IF Cardinality(ActiveAdmins) < 1 THEN GiveUp(c)
     ELSE Proceed(c, Task("role", task[c].copy))

\* "don't allow demoting the last admin"
RoleCount(c) ==
  /\ task[c].step = "count"
  /\ IF Cardinality(ActiveAdmins) <= 1 THEN GiveUp(c)
     ELSE Proceed(c, Task("role", task[c].copy))

RoleWrite(c) ==
  LET copy == task[c].copy IN
  /\ task[c].step = "role"
  /\ WriteTask(c, [intended[copy.id] EXCEPT !.role = copy.rec.role], "idle", {})
  /\ UNCHANGED me

\* Mutant: the scan passes over accounts that are not active.
AddScanSkipsInactive(c) ==
  /\ MayStart(c)
  /\ me[c].rec.role = Admin
  /\ \E n \in Names, r \in NewRoles :
       /\ \A id \in Ids : users[id].name = n => users[id].status # "active"
       /\ Proceed(c, Task("number", [Nobody EXCEPT !.rec.name = n, !.rec.role = r]))

\* handle_add_user: no record has the name.  The scan compares 32 characters
\* and 31 are stored; a name read by the client's read_line has at most 31.
AddScan(c) ==
  /\ MayStart(c)
  /\ me[c].rec.role = Admin
  /\ \E n \in Names, r \in NewRoles :
       /\ NameUnknown(n)
       /\ Proceed(c, Task("number", [Nobody EXCEPT !.rec.name = n, !.rec.role = r]))

\* next_user_id, from the size of the file.
AddNumber(c) ==
  /\ task[c].step = "number"
  /\ Proceed(c, Task("add", [task[c].copy EXCEPT !.id = Len(users) + 1]))

AddWrite(c) ==
  /\ task[c].step = "add"
  /\ WriteTask(c, task[c].copy.rec, "idle", {})
  /\ UNCHANGED me

-----------------------------------------------------------------------------

Step(c) ==
  \/ LoginRead(c) \/ LoginWrite(c) \/ Logout(c) \/ ChangePassword(c)
  \/ Deposit(c) \/ DepositRefresh(c) \/ ToggleRead(c) \/ ToggleWrite(c)
  \/ RoleRead(c) \/ RoleCount(c) \/ RoleWrite(c)
  \/ AddScan(c) \/ AddNumber(c) \/ AddWrite(c)

Next ==
  \/ \E c \in Conns : Step(c)
  \/ \E t \in Threads : WalletCall(t) \/ WalletWrite(t)

Spec == Init /\ [][Next]_vars

-----------------------------------------------------------------------------
(* Properties *)

\* Whatever old copies are written back over the wallet calls of others, no
\* user has more on hold than in his wallet.
WalletsSound == \A id \in Ids : Sound(users[id].wallet)

\* users.dat is what the decisions of all threads make it, each for the field
\* it is about and wallet calls each by its amount: no deposit, hold,
\* password, ban, role or account is lost, unless disturbed.  Wallet calls
\* for one user, and one's own deposit before a change of password, do not
\* disturb: this is what the wallet's mutex and the refresh after a deposit
\* are for.
NoDecisionLost == ~disturbed => users = intended

\* Undisturbed, somebody can still administer the system: neither demotions,
\* also of oneself, nor bans take the last admin away.
AdminRemains == ~disturbed => ActiveAdmins # {}

\* Undisturbed, a user name stands for one account.
NamesUnique ==
  ~disturbed => \A i, j \in Ids : users[i].name = users[j].name => i = j
=============================================================================
