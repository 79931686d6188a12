------------------------------ MODULE Sessions ------------------------------
(***************************************************************************)
(* Who is logged in: handle_login and handle_logout of server/auth.c, the  *)
(* receive loop and the clean-up of handle_client in server/server.c, the  *)
(* slots of sessions.dat and the registry of server/notify.c.              *)
(*                                                                         *)
(* Login and logout hold auth_lock around their accesses to sessions.dat,  *)
(* the clean-up of a connection does not.  A scan of sessions.dat and a    *)
(* write of one slot are one step each, and so is a critical section of    *)
(* registry_lock.                                                          *)
(***************************************************************************)
EXTENDS Integers, FiniteSets

CONSTANTS
  Users,              \* active accounts
  Conns,              \* connections, each with its worker thread and its fd
  NoUser, NoConn, NoSlot,
  Slots,              \* 0..MAX_SESSIONS-1
  Entries,            \* 1..MAX_REGISTRY, the registry of notify.c
  Relogins,           \* whether clients log in on a connection logged in
  MaxCrashes          \* bound: how often the server is killed and restarted

ASSUME SessionsAssumption ==
  /\ NoUser \notin Users
  /\ NoConn \notin Conns
  /\ Slots \subseteq Nat
  /\ NoSlot \notin Slots
  /\ Entries \subseteq Nat
  /\ Relogins \in BOOLEAN
  /\ MaxCrashes \in Nat

\* There is a worker per connection, THREAD_POOL_SIZE (8) of them, and the
\* registry has MAX_REGISTRY (128) entries.
ASSUME RegistryHasRoom ==
  /\ IsFiniteSet(Conns) /\ IsFiniteSet(Entries)
  /\ Cardinality(Conns) <= Cardinality(Entries)

VARIABLES
  session,            \* sessions.dat: [user, conn] of each slot, or Empty
  registry,           \* notify.c: [user, conn] of each entry, or Empty
  authLock,           \* the connection whose thread holds auth_lock
  pc,                 \* where the thread of each connection is
  wanted,             \* the user a login request names
  current,            \* current_user of handle_client
  authenticated,      \* authenticated of handle_client
  found,              \* the slot the clean-up has found
  crashes,            \* history: restarts so far
  disturbed           \* history: see Disturbance

vars == <<session, registry, authLock, pc, wanted, current, authenticated,
          found, crashes, disturbed>>

Empty == [user |-> NoUser, conn |-> NoConn]
Record == [user : Users, conn : Conns] \cup {Empty}

Labels == {"closed", "recv", "check", "create", "register", "welcome",
           "unregister", "cleanup", "erase", "forget", "close"}

TypeOK ==
  /\ session \in [Slots -> Record]
  /\ registry \in [Entries -> Record]
  /\ authLock \in Conns \cup {NoConn}
  /\ pc \in [Conns -> Labels]
  /\ wanted \in [Conns -> Users \cup {NoUser}]
  /\ current \in [Conns -> Users \cup {NoUser}]
  /\ authenticated \in [Conns -> BOOLEAN]
  /\ found \in [Conns -> Slots \cup {NoSlot}]
  /\ crashes \in Nat
  /\ disturbed \in BOOLEAN

Init ==
  /\ session = [s \in Slots |-> Empty]
  /\ registry = [e \in Entries |-> Empty]
  /\ authLock = NoConn
  /\ pc = [c \in Conns |-> "closed"]
  /\ wanted = [c \in Conns |-> NoUser]
  /\ current = [c \in Conns |-> NoUser]
  /\ authenticated = [c \in Conns |-> FALSE]
  /\ found = [c \in Conns |-> NoSlot]
  /\ crashes = 0
  /\ disturbed = FALSE

-----------------------------------------------------------------------------
(* The files and the registry *)

Goto(c, label) == pc' = [pc EXCEPT ![c] = label]

SlotsOf(u) == {s \in Slots : session[s].user = u}
FreeSlots == SlotsOf(NoUser)
First(set) == CHOOSE x \in set : \A y \in set : x <= y

\* find_session_slot
FindSession(u) == IF SlotsOf(u) = {} THEN NoSlot ELSE First(SlotsOf(u))

EntriesOf(u) == {e \in Entries : registry[e].user = u}

\* notify_register: the first free entry; none free, no entry.
Register(u, c) ==
  registry' = IF EntriesOf(NoUser) = {} THEN registry
              ELSE [registry EXCEPT
                      ![First(EntriesOf(NoUser))] = [user |-> u, conn |-> c]]

\* Mutant: the entry is never made inactive.
UnregisterForgotten(u) == registry' = registry

\* notify_unregister: the first entry of the user, whoever made it.
Unregister(u) ==
  registry' = IF EntriesOf(u) = {} THEN registry
              ELSE [registry EXCEPT ![First(EntriesOf(u))] = Empty]

\* lookup_fd
Lookup(u) ==
  IF EntriesOf(u) = {} THEN NoConn ELSE registry[First(EntriesOf(u))].conn

-----------------------------------------------------------------------------
(* handle_client and handle_login *)

\* A worker starts to serve a connection.
Connect(c) ==
  /\ pc[c] = "closed"
  /\ Goto(c, "recv")
  /\ UNCHANGED <<session, registry, authLock, wanted, current, authenticated,
                 found, crashes>>

\* MSG_LOGIN_REQ; a client may send it although it is logged in.
MayLogIn(c) == pc[c] = "recv" /\ (authenticated[c] => Relogins)

\* Unknown user, banned account or wrong password: handle_login returns 0,
\* which becomes the connection's authenticated flag.
LoginRefused(c) ==
  /\ MayLogIn(c)
  /\ authenticated' = [authenticated EXCEPT ![c] = FALSE]
  /\ UNCHANGED <<session, registry, authLock, pc, wanted, current, found,
                 crashes>>

\* The credentials are right; the thread goes for auth_lock.
LoginRequest(c) ==
  /\ MayLogIn(c)
  /\ \E u \in Users : wanted' = [wanted EXCEPT ![c] = u]
  /\ Goto(c, "check")
  /\ UNCHANGED <<session, registry, authLock, current, authenticated, found,
                 crashes>>

LoginFails(c) ==
  /\ Goto(c, "recv")
  /\ wanted' = [wanted EXCEPT ![c] = NoUser]
  /\ authenticated' = [authenticated EXCEPT ![c] = FALSE]

\* Mutant: auth_lock is not taken around the check and the creation.
LoginCheckUnlocked(c) ==
  /\ pc[c] = "check"
  /\ IF SlotsOf(wanted[c]) # {} THEN LoginFails(c)
     ELSE Goto(c, "create") /\ UNCHANGED <<wanted, authenticated>>
  /\ UNCHANGED <<session, registry, authLock, current, found, crashes>>

\* Step 4: under auth_lock, is there a session of this user?
LoginCheck(c) ==
  /\ pc[c] = "check"
  /\ authLock = NoConn
  /\ IF SlotsOf(wanted[c]) # {}
     THEN LoginFails(c) /\ UNCHANGED authLock
     ELSE /\ Goto(c, "create")
          /\ authLock' = c
          /\ UNCHANGED <<wanted, authenticated>>
  /\ UNCHANGED <<session, registry, current, found, crashes>>

\* Mutant: find_free_slot does not stop at MAX_SESSIONS.
LoginCreateUnbounded(c) ==
  /\ pc[c] = "create"
  /\ LET s == IF FreeSlots = {} THEN Cardinality(DOMAIN session)
              ELSE First(FreeSlots) IN
       session' = [x \in DOMAIN session \cup {s} |->
                     IF x = s THEN [user |-> wanted[c], conn |-> c] ELSE session[x]]
  /\ Goto(c, "register")
  /\ authLock' = NoConn
  /\ UNCHANGED <<wanted, authenticated, registry, current, found, crashes>>

\* Step 5: the first free slot becomes the user's, and auth_lock is
\* released; with no free slot the login fails.
LoginCreate(c) ==
  /\ pc[c] = "create"
  /\ IF FreeSlots = {}
     THEN LoginFails(c) /\ UNCHANGED session
     ELSE /\ session' = [session EXCEPT
               ![First(FreeSlots)] = [user |-> wanted[c], conn |-> c]]
          /\ Goto(c, "register")
          /\ UNCHANGED <<wanted, authenticated>>
  /\ authLock' = NoConn
  /\ UNCHANGED <<registry, current, found, crashes>>

\* notify_register: from here on notifications reach the client, ahead of
\* the answer that welcomes him.
LoginRegister(c) ==
  /\ pc[c] = "register"
  /\ Register(wanted[c], c)
  /\ Goto(c, "welcome")
  /\ UNCHANGED <<session, authLock, wanted, current, authenticated, found,
                 crashes>>

\* handle_login returns 1, and the user, to the receive loop.
LoginReturn(c) ==
  /\ pc[c] = "welcome"
  /\ current' = [current EXCEPT ![c] = wanted[c]]
  /\ authenticated' = [authenticated EXCEPT ![c] = TRUE]
  /\ wanted' = [wanted EXCEPT ![c] = NoUser]
  /\ Goto(c, "recv")
  /\ UNCHANGED <<session, registry, authLock, found, crashes>>

-----------------------------------------------------------------------------
(* handle_logout and the clean-up of handle_client *)

\* Under auth_lock, the session of the connection's user is erased.
Logout(c) ==
  /\ pc[c] = "recv" /\ authenticated[c]
  /\ authLock = NoConn
  /\ LET s == FindSession(current[c]) IN
       session' = IF s = NoSlot THEN session ELSE [session EXCEPT ![s] = Empty]
  /\ Goto(c, "unregister")
  /\ UNCHANGED <<registry, authLock, wanted, current, authenticated, found,
                 crashes>>

\* notify_unregister; the loop ends, the authenticated flag stays.
LogoutUnregister(c) ==
  /\ pc[c] = "unregister"
  /\ Unregister(current[c])
  /\ Goto(c, "cleanup")
  /\ UNCHANGED <<session, authLock, wanted, current, authenticated, found,
                 crashes>>

\* recv_msg fails: the client is gone.
Disconnect(c) ==
  /\ pc[c] = "recv"
  /\ Goto(c, "cleanup")
  /\ UNCHANGED <<session, registry, authLock, wanted, current, authenticated,
                 found, crashes>>

\* Mutant: a connection that was logged in is closed without clean-up.
CleanupSkipped(c) ==
  /\ pc[c] = "cleanup"
  /\ Goto(c, "close")
  /\ UNCHANGED <<session, registry, authLock, wanted, current, authenticated,
                 found, crashes>>

\* "Clean up: if still logged in": look for the user's session.
CleanupFind(c) ==
  /\ pc[c] = "cleanup"
  /\ IF authenticated[c]
     THEN LET s == FindSession(current[c]) IN
          /\ found' = [found EXCEPT ![c] = s]
          /\ Goto(c, IF s = NoSlot THEN "forget" ELSE "erase")
     ELSE Goto(c, "close") /\ UNCHANGED found
  /\ UNCHANGED <<session, registry, authLock, wanted, current, authenticated,
                 crashes>>

\* The slot that was found is erased, without auth_lock.
CleanupErase(c) ==
  /\ pc[c] = "erase"
  /\ session' = [session EXCEPT ![found[c]] = Empty]
  /\ Goto(c, "forget")
  /\ UNCHANGED <<registry, authLock, wanted, current, authenticated, found,
                 crashes>>

CleanupUnregister(c) ==
  /\ pc[c] = "forget"
  /\ Unregister(current[c])
  /\ Goto(c, "close")
  /\ UNCHANGED <<session, authLock, wanted, current, authenticated, found,
                 crashes>>

\* close(client_fd); the thread forgets the connection.
Close(c) ==
  /\ pc[c] = "close"
  /\ Goto(c, "closed")
  /\ current' = [current EXCEPT ![c] = NoUser]
  /\ authenticated' = [authenticated EXCEPT ![c] = FALSE]
  /\ found' = [found EXCEPT ![c] = NoSlot]
  /\ UNCHANGED <<session, registry, authLock, wanted, crashes>>

\* The server is killed and started again; sessions.dat stays as it is.
Crash ==
  /\ crashes < MaxCrashes
  /\ crashes' = crashes + 1
  /\ registry' = [e \in Entries |-> Empty]
  /\ authLock' = NoConn
  /\ pc' = [c \in Conns |-> "closed"]
  /\ wanted' = [c \in Conns |-> NoUser]
  /\ current' = [c \in Conns |-> NoUser]
  /\ authenticated' = [c \in Conns |-> FALSE]
  /\ found' = [c \in Conns |-> NoSlot]
  /\ UNCHANGED session

-----------------------------------------------------------------------------
(* What the bookkeeping does not survive: a restart, a second login on a   *)
(* connection, and a login of a user one of whose connections, though      *)
(* without a session by now, has not been cleaned up to the end.           *)

Leaving(c) == pc[c] \in {"unregister", "cleanup", "erase", "forget", "close"}

Disturbance ==
  \/ crashes' # crashes
  \/ \E c \in Conns : MayLogIn(c) /\ authenticated[c]
                      /\ (pc'[c] = "check" \/ ~authenticated'[c])
  \/ \E c, d \in Conns :
       /\ pc[c] = "create" /\ pc'[c] = "register"
       /\ Leaving(d) /\ authenticated[d] /\ current[d] = wanted[c]

Step(c) ==
  \/ Connect(c) \/ LoginRefused(c) \/ LoginRequest(c) \/ LoginCheck(c)
  \/ LoginCreate(c) \/ LoginRegister(c) \/ LoginReturn(c)
  \/ Logout(c) \/ LogoutUnregister(c) \/ Disconnect(c) \/ CleanupFind(c)
  \/ CleanupErase(c) \/ CleanupUnregister(c) \/ Close(c)

Next ==
  /\ Crash \/ \E c \in Conns : Step(c)
  /\ disturbed' = (disturbed \/ Disturbance)

Spec == Init /\ [][Next]_vars

-----------------------------------------------------------------------------
(* Properties *)

\* sessions.dat never holds two sessions of one user, however logins,
\* clean-ups and restarts interleave (the race auth_lock is there for).
OneSlotPerUser ==
  \A s, t \in Slots :
    session[s] # Empty /\ session[s].user = session[t].user => s = t

LoggedIn(c, u) == pc[c] = "recv" /\ authenticated[c] /\ current[c] = u

\* Undisturbed, a connection that is logged in has the session of its user,
\* and notifications for the user find it: no other connection's logout or
\* clean-up takes them away.
LoggedInHasSession ==
  ~disturbed =>
    \A c \in Conns, u \in Users :
      LoggedIn(c, u) =>
        /\ \E s \in Slots : session[s] = [user |-> u, conn |-> c]
        /\ Lookup(u) = c

\* "so stale fds are never written to": undisturbed, the connection a lookup
\* returns is open and logged in as the user it was looked up for, or about
\* to be welcomed, up to the clean-up that unregisters it.
RegistryFresh ==
  ~disturbed =>
    \A e \in Entries : registry[e] # Empty =>
      LET c == registry[e].conn IN
      \/ pc[c] = "welcome" /\ wanted[c] = registry[e].user
      \/ /\ authenticated[c] /\ current[c] = registry[e].user
         /\ pc[c] \in {"recv", "unregister", "cleanup", "erase", "forget"}

\* Undisturbed, a session belongs to a connection that still has to end it:
\* nobody stays locked out of his account.
SessionHasConnection ==
  ~disturbed =>
    \A s \in Slots : session[s] # Empty =>
      LET c == session[s].conn IN
      \/ pc[c] \in {"register", "welcome"} /\ wanted[c] = session[s].user
      \/ /\ authenticated[c] /\ current[c] = session[s].user
         /\ pc[c] \in {"recv", "cleanup", "erase"}
=============================================================================
