--------------------------- MODULE SessionsProofs ---------------------------
(***************************************************************************)
(* auth_lock keeps sessions.dat free of double sessions, for any number of *)
(* users, connections, slots and restarts; and as long as nothing the      *)
(* bookkeeping does not survive has happened (~disturbed), sessions.dat,   *)
(* the registry and the connections agree on who is logged in.             *)
(***************************************************************************)
EXTENDS Sessions, FiniteSetTheorems, WellFoundedInduction, TLAPS

USE SessionsAssumption

\* The thread that holds auth_lock is between its check and its creation,
\* and the user it is about to give a session still has none.
CheckStillHolds ==
  \A c \in Conns :
    pc[c] = "create" => authLock = c /\ SlotsOf(wanted[c]) = {}

\* The types the argument needs.
Shape ==
  /\ session \in [Slots -> Record]
  /\ pc \in [Conns -> Labels]
  /\ wanted \in [Conns -> Users \cup {NoUser}]
  /\ \A c \in Conns : pc[c] \in {"check", "create", "register", "welcome"} => wanted[c] \in Users

SessionInv == Shape /\ CheckStillHolds /\ OneSlotPerUser

LEMMA InitInv == Init => SessionInv
BY DEF Init, SessionInv, Shape, CheckStillHolds, OneSlotPerUser, Labels, Record

\* A slot that is written holds either nobody or the record of a login.
LEMMA NextShape ==
  ASSUME Shape, Next
  PROVE  Shape'
<1>1. ASSUME NEW c \in Conns, Step(c) PROVE Shape'
  <2>1. CASE Connect(c) \/ LoginRefused(c) \/ LoginRequest(c)
    BY <2>1 DEF Connect, LoginRefused, LoginRequest, MayLogIn, Goto, Shape, Labels
  <2>2. CASE LoginCheck(c)
    BY <2>2 DEF LoginCheck, LoginFails, Goto, Shape, Labels
  <2>3. CASE LoginCreate(c)
    <3>1. wanted[c] \in Users
      BY <2>3 DEF LoginCreate, Shape
    <3>2. session' \in [Slots -> Record]
      BY <2>3, <3>1 DEF LoginCreate, Shape, Record
    <3> QED
      BY <2>3, <3>2 DEF LoginCreate, LoginFails, Goto, Shape, Labels
  <2>4. CASE LoginRegister(c) \/ LoginReturn(c)
    BY <2>4 DEF LoginRegister, LoginReturn, Goto, Shape, Labels
  <2>5. CASE Logout(c)
    <3>1. session' \in [Slots -> Record]
      BY <2>5 DEF Logout, Shape, Record
    <3> QED
      BY <2>5, <3>1 DEF Logout, Goto, Shape, Labels
  <2>6. CASE CleanupErase(c)
    <3>1. session' \in [Slots -> Record]
      BY <2>6 DEF CleanupErase, Shape, Record
    <3> QED
      BY <2>6, <3>1 DEF CleanupErase, Goto, Shape, Labels
  <2>7. CASE LogoutUnregister(c) \/ Disconnect(c) \/ CleanupFind(c)
             \/ CleanupUnregister(c) \/ Close(c)
    <3>1. UNCHANGED <<session, wanted>>
      BY <2>7 DEF LogoutUnregister, Disconnect, CleanupFind,
                  CleanupUnregister, Close
    <3>2. \E l \in Labels \ {"check", "create", "register", "welcome"} : Goto(c, l)
      BY <2>7 DEF LogoutUnregister, Disconnect, CleanupFind,
                  CleanupUnregister, Close, Labels
    <3> QED
      BY <3>1, <3>2 DEF Goto, Shape
  <2> QED
    BY <1>1, <2>1, <2>2, <2>3, <2>4, <2>5, <2>6, <2>7 DEF Step
<1>2. CASE Crash
  BY <1>2 DEF Crash, Shape, Labels
<1> QED
  BY <1>1, <1>2 DEF Next

\* Between the check and the creation nobody else creates a session: the
\* check is made and the slot is taken by the holder of auth_lock.
LEMMA NextCheckHolds ==
  ASSUME Shape, CheckStillHolds, Next
  PROVE  CheckStillHolds'
<1> USE DEF Shape
<1>0. \A c \in Conns : c # NoConn
  OBVIOUS
\* Erasing slots gives no user a session.
<1>1. ASSUME \A s \in Slots : session'[s] = session[s] \/ session'[s] = Empty
      PROVE  \A u \in Users : SlotsOf(u) = {} => SlotsOf(u)' = {}
  <2> SUFFICES ASSUME NEW u \in Users, SlotsOf(u) = {},
                      NEW s \in Slots, session'[s].user = u
               PROVE  FALSE
    BY DEF SlotsOf
  <2>1. session[s].user # u
    BY DEF SlotsOf
  <2>2. session'[s] = Empty
    BY <1>1, <2>1
  <2> QED
    BY <2>2 DEF Empty
<1>2. ASSUME NEW c \in Conns, Step(c) PROVE CheckStillHolds'
  <2>1. CASE LoginCheck(c)
    BY <2>1 DEF LoginCheck, LoginFails, Goto, CheckStillHolds, SlotsOf
  <2>2. CASE LoginCreate(c)
    <3>1. \A d \in Conns : d # c => pc[d] # "create"
      BY <2>2 DEF LoginCreate, CheckStillHolds
    <3>2. \A d \in Conns : pc'[d] # "create"
      BY <2>2, <3>1 DEF LoginCreate, LoginFails, Goto
    <3> QED
      BY <3>2 DEF CheckStillHolds
  <2>3. CASE Logout(c) \/ CleanupErase(c)
    <3>1. \A s \in Slots : session'[s] = session[s] \/ session'[s] = Empty
      BY <2>3 DEF Logout, CleanupErase
    <3>2. \A d \in Conns : pc'[d] = "create" => pc[d] = "create"
      BY <2>3 DEF Logout, CleanupErase, Goto
    <3>3. UNCHANGED <<authLock, wanted>>
      BY <2>3 DEF Logout, CleanupErase
    <3> QED
      BY <1>1, <3>1, <3>2, <3>3 DEF CheckStillHolds
  <2>4. CASE Connect(c) \/ LoginRefused(c) \/ LoginRequest(c) \/ LoginRegister(c)
             \/ LoginReturn(c) \/ LogoutUnregister(c) \/ Disconnect(c) \/ CleanupFind(c)
             \/ CleanupUnregister(c) \/ Close(c)
    <3>1. UNCHANGED <<session, authLock>>
      BY <2>4 DEF Connect, LoginRefused, LoginRequest, LoginRegister,
                  LoginReturn, LogoutUnregister, Disconnect, CleanupFind,
                  CleanupUnregister, Close
    <3>2. \A d \in Conns :
            pc'[d] = "create" => pc[d] = "create" /\ wanted'[d] = wanted[d]
      BY <2>4 DEF Connect, LoginRefused, LoginRequest, LoginRegister,
                  LoginReturn, LogoutUnregister, Disconnect, CleanupFind,
                  CleanupUnregister, Close, MayLogIn, Goto
    <3> QED
      BY <3>1, <3>2 DEF CheckStillHolds, SlotsOf
  <2> QED
    BY <1>2, <2>1, <2>2, <2>3, <2>4 DEF Step
<1>3. CASE Crash
  BY <1>3 DEF Crash, CheckStillHolds
<1> QED
  BY <1>2, <1>3 DEF Next

\* Sessions are only erased, except by LoginCreate, whose user has none.
LEMMA NextOneSlot ==
  ASSUME SessionInv, Next
  PROVE  OneSlotPerUser'
<1> USE DEF SessionInv, Shape
<1>1. ASSUME \A s \in Slots : session'[s] = session[s] \/ session'[s] = Empty
      PROVE  OneSlotPerUser'
  <2>1. \A s \in Slots : session[s] # Empty => session[s].user # NoUser
    BY DEF Record
  <2> QED
    BY <1>1, <2>1 DEF OneSlotPerUser, Empty
<1>2. ASSUME NEW c \in Conns, Step(c) PROVE OneSlotPerUser'
  <2>1. CASE LoginCreate(c)
    <3>1. CASE UNCHANGED session
      BY <3>1 DEF OneSlotPerUser, Empty
    <3>2. PICK new : session' = [session EXCEPT
                                   ![new] = [user |-> wanted[c], conn |-> c]]
      BY <2>1, <3>1 DEF LoginCreate
    <3>3. SlotsOf(wanted[c]) = {} /\ wanted[c] \in Users
      BY <2>1 DEF LoginCreate, CheckStillHolds
    <3>4. \A s \in Slots : session[s].user # wanted[c]
      BY <3>3 DEF SlotsOf
    <3>5. \A s \in Slots : session'[s] = IF s = new
                             THEN [user |-> wanted[c], conn |-> c] ELSE session[s]
      BY <3>2
    <3> QED
      BY <3>4, <3>5 DEF OneSlotPerUser
  <2>2. CASE ~LoginCreate(c)
    <3>1. \A s \in Slots : session'[s] = session[s] \/ session'[s] = Empty
      BY <1>2, <2>2
         DEF Step, Connect, LoginRefused, LoginRequest, LoginCheck,
             LoginRegister, LoginReturn, Logout, LogoutUnregister, Disconnect, CleanupFind,
             CleanupErase, CleanupUnregister, Close
    <3> QED
      BY <1>1, <3>1
  <2> QED
    BY <2>1, <2>2
<1>3. CASE Crash
  BY <1>1, <1>3 DEF Crash
<1> QED
  BY <1>2, <1>3 DEF Next

\* The invariant of auth_lock.
THEOREM SessionInvariant == Spec => []SessionInv
<1>1. Init => SessionInv
  BY InitInv
<1>2. SessionInv /\ [Next]_vars => SessionInv'
  <2> SUFFICES ASSUME SessionInv, [Next]_vars PROVE SessionInv'
    OBVIOUS
  <2>1. CASE Next
    BY <2>1, NextShape, NextCheckHolds, NextOneSlot DEF SessionInv
  <2>2. CASE UNCHANGED vars
    BY <2>2 DEF vars, SessionInv, Shape, CheckStillHolds, SlotsOf,
                OneSlotPerUser, Empty
  <2> QED
    BY <2>1, <2>2
<1> QED
  BY <1>1, <1>2, PTL DEF Spec

\* The login thread that creates a session holds auth_lock, and the check it
\* made still holds (handle_login, steps 4 and 5).
THEOREM CheckHolds == Spec => []CheckStillHolds
<1>1. SessionInv => CheckStillHolds
  BY DEF SessionInv
<1> QED
  BY <1>1, SessionInvariant, PTL

\* sessions.dat never holds two sessions of one user.
THEOREM NeverTwoSlots == Spec => []OneSlotPerUser
<1>1. SessionInv => OneSlotPerUser
  BY DEF SessionInv
<1> QED
  BY <1>1, SessionInvariant, PTL

-----------------------------------------------------------------------------
(* Types                                                                   *)

\* The first of some numbers is one of them.
LEMMA FirstIn ==
  ASSUME NEW T, T \subseteq Nat, T # {}
  PROVE  First(T) \in T
<1> DEFINE R == OpToRel(<, Nat)
<1>1. IsWellFoundedOn(R, Nat)
  BY NatLessThanWellFounded
<1>2. R = {ss \in Nat \X Nat : ss[1] < ss[2]}
  BY DEF OpToRel
<1> HIDE DEF R
<1>3. PICK n \in T : \A m \in T : <<m, n>> \notin R
  BY <1>1, WFMin
<1>4. ASSUME NEW m \in T PROVE n <= m
  <2>1. <<m, n>> \notin R
    BY <1>3
  <2>2. ~(m < n)
    BY <1>2, <2>1
  <2> QED
    BY <2>2
<1> QED
  BY <1>4 DEF First

\* What the searches of sessions.dat and of the registry come to.
LEMMA SlotFound ==
  ASSUME NEW u
  PROVE  IF SlotsOf(u) = {} THEN FindSession(u) = NoSlot
         ELSE FindSession(u) \in Slots /\ session[FindSession(u)].user = u
<1>1. SlotsOf(u) \subseteq Nat
  BY DEF SlotsOf
<1>2. SlotsOf(u) # {} => First(SlotsOf(u)) \in SlotsOf(u)
  BY <1>1, FirstIn
<1> QED
  BY <1>2 DEF FindSession, SlotsOf

LEMMA EntryFound ==
  ASSUME NEW u, EntriesOf(u) # {}
  PROVE  First(EntriesOf(u)) \in Entries /\ registry[First(EntriesOf(u))].user = u
<1>1. EntriesOf(u) \subseteq Nat
  BY DEF EntriesOf
<1>2. First(EntriesOf(u)) \in EntriesOf(u)
  BY <1>1, FirstIn
<1> QED
  BY <1>2 DEF EntriesOf

\* A connection that is authenticated has a user.
UserKnown == \A c \in Conns : authenticated[c] => current[c] \in Users

LEMMA NextType ==
  ASSUME TypeOK, UserKnown, Shape, Shape', Next
  PROVE  TypeOK' /\ UserKnown'
<1>1. disturbed' \in BOOLEAN
  BY DEF Next, TypeOK
<1>2. ASSUME NEW c \in Conns, Step(c)
      PROVE  /\ registry' \in [Entries -> Record]
             /\ authLock' \in Conns \cup {NoConn}
             /\ current' \in [Conns -> Users \cup {NoUser}]
             /\ authenticated' \in [Conns -> BOOLEAN]
             /\ found' \in [Conns -> Slots \cup {NoSlot}]
             /\ crashes' = crashes
             /\ UserKnown'
  <2>0. /\ registry \in [Entries -> Record] /\ authLock \in Conns \cup {NoConn}
        /\ current \in [Conns -> Users \cup {NoUser}]
        /\ authenticated \in [Conns -> BOOLEAN]
        /\ found \in [Conns -> Slots \cup {NoSlot}]
    BY DEF TypeOK
  <2>1. CASE Connect(c) \/ LoginRequest(c) \/ Logout(c) \/ Disconnect(c) \/ CleanupErase(c)
    BY <2>0, <2>1 DEF Connect, LoginRequest, Logout, Disconnect, CleanupErase, UserKnown
  <2>2. CASE LoginRefused(c) \/ LoginCheck(c) \/ LoginCreate(c)
    <3>1. UNCHANGED <<registry, current, found, crashes>>
      BY <2>2 DEF LoginRefused, LoginCheck, LoginCreate
    <3>2. authLock' \in Conns \cup {NoConn}
      BY <2>0, <2>2 DEF LoginRefused, LoginCheck, LoginCreate
    <3>3. authenticated' = authenticated \/ authenticated' = [authenticated EXCEPT ![c] = FALSE]
      BY <2>2 DEF LoginRefused, LoginCheck, LoginCreate, LoginFails
    <3>4. authenticated' \in [Conns -> BOOLEAN] /\ UserKnown'
      BY <2>0, <3>1, <3>3 DEF UserKnown
    <3> QED
      BY <2>0, <3>1, <3>2, <3>4
  <2>3. CASE LoginRegister(c)
    <3>1. wanted[c] \in Users
      BY <2>3 DEF LoginRegister, Shape
    <3>2. /\ UNCHANGED <<authLock, current, authenticated, found, crashes>>
          /\ Register(wanted[c], c)
      BY <2>3 DEF LoginRegister
    <3>3. registry' \in [Entries -> Record]
      BY <2>0, <3>1, <3>2 DEF Register, Record
    <3> QED
      BY <2>0, <3>2, <3>3 DEF UserKnown
  <2>7. CASE LoginReturn(c)
    <3>1. wanted[c] \in Users
      BY <2>7 DEF LoginReturn, Shape
    <3>2. /\ current' = [current EXCEPT ![c] = wanted[c]]
          /\ authenticated' = [authenticated EXCEPT ![c] = TRUE]
          /\ UNCHANGED <<registry, authLock, found, crashes>>
      BY <2>7 DEF LoginReturn
    <3>3. UserKnown'
      BY <2>0, <3>1, <3>2 DEF UserKnown
    <3> QED
      BY <2>0, <3>1, <3>2, <3>3
  <2>4. CASE LogoutUnregister(c) \/ CleanupUnregister(c)
    <3>1. Unregister(current[c]) /\ UNCHANGED <<authLock, current, authenticated, found, crashes>>
      BY <2>4 DEF LogoutUnregister, CleanupUnregister
    <3>2. registry' \in [Entries -> Record]
      BY <2>0, <3>1 DEF Unregister, Record
    <3> QED
      BY <2>0, <3>1, <3>2 DEF UserKnown
  <2>5. CASE CleanupFind(c)
    <3>1. FindSession(current[c]) \in Slots \cup {NoSlot}
      BY SlotFound
    <3>2. UNCHANGED <<registry, authLock, current, authenticated, crashes>>
      BY <2>5 DEF CleanupFind
    <3>3. found' = found \/ found' = [found EXCEPT ![c] = FindSession(current[c])]
      BY <2>5 DEF CleanupFind
    <3> QED
      BY <2>0, <3>1, <3>2, <3>3 DEF UserKnown
  <2>6. CASE Close(c)
    BY <2>0, <2>6 DEF Close, UserKnown
  <2> QED
    BY <1>2, <2>1, <2>2, <2>3, <2>4, <2>5, <2>6, <2>7 DEF Step
<1>3. CASE Crash
  <2>1. registry' \in [Entries -> Record]
    BY <1>3 DEF Crash, Record
  <2>2. UserKnown'
    BY <1>3 DEF Crash, UserKnown
  <2>3. crashes' \in Nat
    BY <1>3 DEF Crash, TypeOK
  <2> QED
    BY <1>1, <1>3, <2>1, <2>2, <2>3 DEF Crash, TypeOK, Shape
<1> QED
  BY <1>1, <1>2, <1>3 DEF Next, TypeOK, Shape

\* sessions.dat, the registry and the threads' locals keep their types, and
\* an authenticated connection has a user.
THEOREM TypesHold == Spec => [](TypeOK /\ UserKnown)
<1>1. Init => TypeOK /\ UserKnown
  <2> SUFFICES ASSUME Init PROVE TypeOK /\ UserKnown
    OBVIOUS
  <2>1. session \in [Slots -> Record] /\ registry \in [Entries -> Record]
    BY DEF Init, Record
  <2>2. pc \in [Conns -> Labels]
    BY DEF Init, Labels
  <2>3. UserKnown
    BY DEF Init, UserKnown
  <2> QED
    BY <2>1, <2>2, <2>3 DEF Init, TypeOK
<1>2. TypeOK /\ UserKnown /\ SessionInv /\ SessionInv' /\ [Next]_vars
        => (TypeOK /\ UserKnown)'
  <2>1. TypeOK /\ UserKnown /\ UNCHANGED vars => (TypeOK /\ UserKnown)'
    BY DEF TypeOK, UserKnown, vars
  <2> QED
    BY <2>1, NextType DEF SessionInv
<1> QED
  BY <1>1, <1>2, SessionInvariant, PTL DEF Spec

\* sessions.dat, the registry and the threads' locals keep their types.
THEOREM TypeCorrect == Spec => []TypeOK
<1>1. TypeOK /\ UserKnown => TypeOK
  OBVIOUS
<1> QED
  BY <1>1, TypesHold, PTL

-----------------------------------------------------------------------------
(* Sessions, registry and connections, undisturbed                         *)

\* A connection is engaged with the user it is giving a session to and then
\* with the user it is logged in as, until it is closed.
Engaged(c, u) ==
  \/ pc[c] \in {"register", "welcome"} /\ wanted[c] = u
  \/ authenticated[c] /\ current[c] = u

FlagsInService ==
  \A c \in Conns :
    /\ authenticated[c] => pc[c] = "recv" \/ Leaving(c)
    /\ pc[c] \in {"unregister", "erase", "forget"} => authenticated[c]

OneConnPerUser ==
  \A c, d \in Conns, u \in Users : Engaged(c, u) /\ Engaged(d, u) => c = d

\* Who may own a session, who must, and which one the clean-up erases.
MayOwn(c, u) ==
  \/ pc[c] \in {"register", "welcome"} /\ wanted[c] = u
  \/ authenticated[c] /\ current[c] = u /\ pc[c] \in {"recv", "cleanup", "erase"}
Has(c, u) == \E s \in Slots : session[s] = [user |-> u, conn |-> c]
MustOwn(c, u) ==
  \/ pc[c] \in {"register", "welcome"} /\ wanted[c] = u
  \/ LoggedIn(c, u)
SessionKept(c) ==
  /\ \A u \in Users : MustOwn(c, u) => Has(c, u)
  /\ pc[c] = "erase" => /\ found[c] \in Slots
                        /\ session[found[c]] = [user |-> current[c], conn |-> c]
SessionTrack ==
  /\ \A s \in Slots, c \in Conns, u \in Users :
       session[s] = [user |-> u, conn |-> c] => MayOwn(c, u)
  /\ \A c \in Conns : SessionKept(c)

\* Who may have an entry in the registry, who must, and how many.
MayBeListed(c, u) ==
  \/ pc[c] = "welcome" /\ wanted[c] = u
  \/ /\ authenticated[c] /\ current[c] = u
     /\ pc[c] \in {"recv", "unregister", "cleanup", "erase", "forget"}
MustBeListed(c, u) == (pc[c] = "welcome" /\ wanted[c] = u) \/ LoggedIn(c, u)
Listed(c, u) == \E e \in Entries : registry[e] = [user |-> u, conn |-> c]
EntryKept(c) == \A u \in Users : MustBeListed(c, u) => Listed(c, u)
OneEntryPerUser ==
  \A e, f \in Entries :
    registry[e] # Empty /\ registry[e].user = registry[f].user => e = f
EntryTrack ==
  /\ \A e \in Entries, c \in Conns, u \in Users :
       registry[e] = [user |-> u, conn |-> c] => MayBeListed(c, u)
  /\ \A c \in Conns : EntryKept(c)
  /\ OneEntryPerUser

Track == FlagsInService /\ OneConnPerUser /\ SessionTrack /\ EntryTrack
TrackInv == ~disturbed => Track

\* What every step may assume of the state it starts in.
Ground == TypeOK /\ UserKnown /\ SessionInv

\* The connections other than c keep their places and locals.
OthersSame(c) ==
  \A d \in Conns \ {c} :
    /\ pc'[d] = pc[d] /\ wanted'[d] = wanted[d] /\ current'[d] = current[d]
    /\ authenticated'[d] = authenticated[d] /\ found'[d] = found[d]

LEMMA StepsAreLocal ==
  ASSUME TypeOK, NEW c \in Conns, Step(c)
  PROVE  OthersSame(c)
<1>1. CASE Connect(c) \/ LoginRefused(c) \/ LoginRequest(c) \/ Disconnect(c)
  BY <1>1 DEF Connect, LoginRefused, LoginRequest, Disconnect, Goto, OthersSame, TypeOK
<1>2. CASE LoginCheck(c)
  BY <1>2 DEF LoginCheck, LoginFails, Goto, OthersSame, TypeOK
<1>3. CASE LoginCreate(c)
  BY <1>3 DEF LoginCreate, LoginFails, Goto, OthersSame, TypeOK
<1>4. CASE LoginRegister(c) \/ LoginReturn(c) \/ Logout(c) \/ LogoutUnregister(c)
  BY <1>4 DEF LoginRegister, LoginReturn, Logout, LogoutUnregister, Goto, OthersSame, TypeOK
<1>5. CASE CleanupFind(c) \/ CleanupErase(c)
  BY <1>5 DEF CleanupFind, CleanupErase, Goto, OthersSame, TypeOK
<1>6. CASE CleanupUnregister(c) \/ Close(c)
  BY <1>6 DEF CleanupUnregister, Close, Goto, OthersSame, TypeOK
<1> QED
  BY <1>1, <1>2, <1>3, <1>4, <1>5, <1>6 DEF Step

\* Undisturbed: no second login on a connection, and no login of a user one
\* of whose connections is being cleaned up.
LEMMA Undisturbed ==
  ASSUME TypeOK, Next, ~disturbed'
  PROVE  /\ ~disturbed
         /\ \E c \in Conns : Step(c)
         /\ \A c \in Conns : MayLogIn(c) /\ authenticated[c]
              => pc'[c] # "check" /\ authenticated'[c]
         /\ \A c, d \in Conns : pc[c] = "create" /\ pc'[c] = "register"
              /\ Leaving(d) /\ authenticated[d] => current[d] # wanted[c]
<1>1. disturbed' = (disturbed \/ Disturbance)
  BY DEF Next
<1>2. ~disturbed /\ ~Disturbance
  BY <1>1
<1>3. crashes' = crashes
  BY <1>2 DEF Disturbance
<1>4. ~Crash
  BY <1>3 DEF Crash, TypeOK
<1> QED
  BY <1>2, <1>4 DEF Next, Disturbance

LEMMA NextFlags ==
  ASSUME TypeOK, FlagsInService, NEW c \in Conns, Step(c),
         MayLogIn(c) /\ authenticated[c] => pc'[c] # "check" /\ authenticated'[c]
  PROVE  FlagsInService'
<1>1. OthersSame(c)
  BY StepsAreLocal
<1>2. /\ authenticated'[c] => pc'[c] = "recv" \/ Leaving(c)'
      /\ pc'[c] \in {"unregister", "erase", "forget"} => authenticated'[c]
  <2>1. CASE Connect(c) \/ LoginRefused(c) \/ LoginRequest(c) \/ Disconnect(c)
    BY <2>1 DEF Connect, LoginRefused, LoginRequest, Disconnect, MayLogIn, Goto,
                FlagsInService, Leaving, TypeOK
  <2>2. CASE LoginCheck(c) \/ LoginCreate(c)
    BY <2>2 DEF LoginCheck, LoginCreate, LoginFails, Goto, FlagsInService, Leaving, TypeOK
  <2>3. CASE LoginRegister(c) \/ LoginReturn(c) \/ Logout(c) \/ LogoutUnregister(c)
    BY <2>3 DEF LoginRegister, LoginReturn, Logout, LogoutUnregister, Goto, FlagsInService,
                Leaving, TypeOK
  <2>4. CASE CleanupFind(c)
    BY <2>4 DEF CleanupFind, Goto, Leaving, TypeOK
  <2>5. CASE CleanupErase(c) \/ CleanupUnregister(c) \/ Close(c)
    BY <2>5 DEF CleanupErase, CleanupUnregister, Close, Goto, FlagsInService, Leaving, TypeOK
  <2> QED
    BY <2>1, <2>2, <2>3, <2>4, <2>5 DEF Step
<1>3. \A d \in Conns \ {c} :
        /\ authenticated'[d] => pc'[d] = "recv" \/ Leaving(d)'
        /\ pc'[d] \in {"unregister", "erase", "forget"} => authenticated'[d]
  BY <1>1 DEF OthersSame, FlagsInService, Leaving
<1> QED
  BY <1>2, <1>3 DEF FlagsInService

\* Only LoginCreate engages a connection with a user, and nobody else is
\* engaged with a user that has no session and is not being cleaned up.
LEMMA NextOneConn ==
  ASSUME Ground, Track, NEW c \in Conns, Step(c),
         MayLogIn(c) /\ authenticated[c] => pc'[c] # "check" /\ authenticated'[c],
         \A d \in Conns : pc[c] = "create" /\ pc'[c] = "register"
           /\ Leaving(d) /\ authenticated[d] => current[d] # wanted[c]
  PROVE  OneConnPerUser'
<1>0. TypeOK
  BY DEF Ground
<1>1. OthersSame(c)
  BY <1>0, StepsAreLocal
<1>2. \A d \in Conns \ {c}, u \in Users : Engaged(d, u)' <=> Engaged(d, u)
  BY <1>1 DEF OthersSame, Engaged
<1>3. CASE LoginCreate(c) /\ pc'[c] = "register"
  <2>1. /\ pc[c] = "create" /\ wanted' = wanted /\ authenticated' = authenticated
        /\ current' = current
    BY <1>0, <1>3 DEF LoginCreate, LoginFails, Goto, TypeOK
  <2>2. SlotsOf(wanted[c]) = {} /\ ~authenticated[c]
    BY <2>1 DEF Ground, SessionInv, CheckStillHolds, Track, FlagsInService, Leaving
  <2>3. \A d \in Conns : ~Has(d, wanted[c])
    BY <2>2 DEF SlotsOf, Has
  <2>0. wanted[c] \in Users
    BY <2>1 DEF Ground, SessionInv, Shape
  <2>4. ASSUME NEW d \in Conns \ {c}, Engaged(d, wanted[c]) PROVE FALSE
    <3>1. CASE pc[d] \in {"register", "welcome"} /\ wanted[d] = wanted[c]
      BY <2>0, <2>3, <3>1 DEF Track, SessionTrack, SessionKept, MustOwn
    <3>2. CASE authenticated[d] /\ current[d] = wanted[c]
      <4>1. pc[d] = "recv"
        BY <1>3, <2>1, <3>2 DEF Track, FlagsInService
      <4> QED
        BY <2>0, <2>3, <3>2, <4>1 DEF Track, SessionTrack, SessionKept, MustOwn, LoggedIn
    <3> QED
      BY <2>4, <3>1, <3>2 DEF Engaged
  <2>5. \A u \in Users : Engaged(c, u)' => u = wanted[c]
    BY <2>1, <2>2 DEF Engaged
  <2> QED
    BY <1>2, <2>4, <2>5 DEF Track, OneConnPerUser
<1>4. CASE ~(LoginCreate(c) /\ pc'[c] = "register")
  <2>1. \A u \in Users : Engaged(c, u)' => Engaged(c, u)
    <3>1. CASE Connect(c) \/ LoginRefused(c) \/ LoginRequest(c) \/ Disconnect(c)
      BY <1>0, <3>1 DEF Connect, LoginRefused, LoginRequest, Disconnect, MayLogIn,
                        Goto, Engaged, TypeOK
    <3>2. CASE LoginCheck(c) \/ LoginCreate(c)
      BY <1>0, <1>4, <3>2 DEF LoginCheck, LoginCreate, LoginFails, Goto, Engaged, TypeOK
    <3>3. CASE LoginRegister(c) \/ LoginReturn(c) \/ Logout(c) \/ LogoutUnregister(c)
      BY <1>0, <3>3 DEF LoginRegister, LoginReturn, Logout, LogoutUnregister, Goto, Engaged, TypeOK
    <3>4. CASE CleanupFind(c)
      BY <1>0, <3>4 DEF CleanupFind, Goto, Engaged, TypeOK
    <3>5. CASE CleanupErase(c) \/ CleanupUnregister(c) \/ Close(c)
      BY <1>0, <3>5 DEF CleanupErase, CleanupUnregister, Close, Goto, Engaged, TypeOK
    <3> QED
      BY <3>1, <3>2, <3>3, <3>4, <3>5 DEF Step
  <2> QED
    BY <1>2, <2>1 DEF Track, OneConnPerUser
<1> QED
  BY <1>3, <1>4

\* A step of c that changes no slot of another connection's session leaves
\* the others their sessions.
LEMMA SessionFrame ==
  ASSUME SessionTrack, NEW c \in Conns, OthersSame(c),
         \A s \in Slots : \/ session'[s] = session[s] \/ session[s] = Empty
                          \/ session[s].conn = c,
         \A s \in Slots : \/ session'[s] = session[s] \/ session'[s] = Empty
                          \/ session'[s].conn = c,
         SessionKept(c)',
         \A s \in Slots, u \in Users :
           session'[s] = [user |-> u, conn |-> c] => MayOwn(c, u)'
  PROVE  SessionTrack'
<1>1. ASSUME NEW d \in Conns \ {c}, NEW u, NEW s \in Slots
      PROVE  session[s] = [user |-> u, conn |-> d] <=> session'[s] = [user |-> u, conn |-> d]
  <2>1. \A x : x = [user |-> u, conn |-> d] => x.conn = d
    OBVIOUS
  <2>2. Empty.conn = NoConn
    BY DEF Empty
  <2> QED
    BY <2>1, <2>2
<1>2. \A d \in Conns \ {c} : SessionKept(d)'
  <2> SUFFICES ASSUME NEW d \in Conns \ {c} PROVE SessionKept(d)'
    OBVIOUS
  <2>1. SessionKept(d)
    BY DEF SessionTrack
  <2>2. \A u \in Users : Has(d, u) => Has(d, u)'
    BY <1>1 DEF Has
  <2>3. /\ pc'[d] = pc[d] /\ wanted'[d] = wanted[d] /\ current'[d] = current[d]
        /\ authenticated'[d] = authenticated[d] /\ found'[d] = found[d]
    BY DEF OthersSame
  <2>4. \A u \in Users : MustOwn(d, u)' <=> MustOwn(d, u)
    BY <2>3 DEF MustOwn, LoggedIn
  <2>5. pc[d] = "erase"
          => found[d] \in Slots /\ session'[found[d]] = [user |-> current[d], conn |-> d]
    <3> SUFFICES ASSUME pc[d] = "erase"
                 PROVE  /\ found[d] \in Slots
                        /\ session'[found[d]] = [user |-> current[d], conn |-> d]
      OBVIOUS
    <3>1. PICK s \in Slots : s = found[d] /\ session[s] = [user |-> current[d], conn |-> d]
      BY <2>1 DEF SessionKept
    <3>2. session'[s] = [user |-> current[d], conn |-> d]
      BY <1>1, <3>1
    <3> QED
      BY <3>1, <3>2
  <2>6. \A u \in Users : MustOwn(d, u)' => Has(d, u)'
    BY <2>1, <2>2, <2>4 DEF SessionKept
  <2> QED
    BY <2>3, <2>5, <2>6 DEF SessionKept
<1>3. ASSUME NEW s \in Slots, NEW d \in Conns, NEW u \in Users,
             session'[s] = [user |-> u, conn |-> d]
      PROVE  MayOwn(d, u)'
  <2>1. CASE d = c
    BY <1>3, <2>1
  <2>2. CASE d # c
    <3>1. session[s] = [user |-> u, conn |-> d]
      BY <1>1, <1>3, <2>2
    <3>2. MayOwn(d, u)
      BY <3>1 DEF SessionTrack
    <3> QED
      BY <2>2, <3>2 DEF MayOwn, OthersSame
  <2> QED
    BY <2>1, <2>2
<1> QED
  BY <1>2, <1>3 DEF SessionTrack

\* A slot or an entry is empty or names a user and a connection.
LEMMA Named ==
  ASSUME NEW x \in Record, x # Empty
  PROVE  \E u \in Users, c \in Conns : x = [user |-> u, conn |-> c]
BY DEF Record

\* The session of a user with whom c is engaged is c's, and there is no
\* other.
LEMMA OwnSession ==
  ASSUME Ground, Track, NEW c \in Conns, NEW u \in Users, Engaged(c, u),
         NEW s \in Slots, session[s].user = u
  PROVE  /\ session[s] = [user |-> u, conn |-> c]
         /\ \A t \in Slots : session[t].user = u => t = s
<1>1. session[s] \in Record /\ session[s] # Empty
  BY DEF Ground, TypeOK, Empty
<1>2. PICK d \in Conns : session[s] = [user |-> u, conn |-> d]
  BY <1>1, Named
<1>3. MayOwn(d, u)
  BY <1>2 DEF Track, SessionTrack
<1>4. d = c
  BY <1>3 DEF MayOwn, Engaged, Track, OneConnPerUser
<1>5. \A t \in Slots : session[t].user = u => t = s
  BY <1>1 DEF Ground, SessionInv, OneSlotPerUser
<1> QED
  BY <1>2, <1>4, <1>5

\* A connection that may own no session owns none.
LEMMA OwnsNone ==
  ASSUME SessionTrack, NEW c \in Conns, pc[c] \notin {"register", "welcome"},
         authenticated[c] => pc[c] \notin {"recv", "cleanup", "erase"}
  PROVE  \A s \in Slots, u \in Users : session[s] # [user |-> u, conn |-> c]
BY DEF SessionTrack, MayOwn

\* Steps that leave sessions.dat alone.
LEMMA SessionsUnchanged ==
  ASSUME SessionTrack, NEW c \in Conns, OthersSame(c), UNCHANGED session,
         SessionKept(c)',
         \A s \in Slots, u \in Users :
           session[s] = [user |-> u, conn |-> c] => MayOwn(c, u)'
  PROVE  SessionTrack'
<1>1. \A s \in Slots, u \in Users : session'[s] = [user |-> u, conn |-> c] => MayOwn(c, u)'
  OBVIOUS
<1>2. \A s \in Slots : session'[s] = session[s]
  OBVIOUS
<1> QED
  BY <1>1, <1>2, SessionFrame

\* Steps of a connection without a session, to where it needs none.
LEMMA SessionsNotMine ==
  ASSUME SessionTrack, NEW c \in Conns, OthersSame(c), UNCHANGED session,
         pc[c] \notin {"register", "welcome"},
         authenticated[c] => pc[c] \notin {"recv", "cleanup", "erase"},
         pc'[c] \notin {"register", "welcome", "erase"},
         authenticated'[c] => pc'[c] # "recv"
  PROVE  SessionTrack'
<1>1. \A s \in Slots, u \in Users : session[s] # [user |-> u, conn |-> c]
  BY OwnsNone
<1>2. SessionKept(c)'
  BY DEF SessionKept, MustOwn, LoggedIn
<1> QED
  BY <1>1, <1>2, SessionsUnchanged

\* LoginCreate gives a free slot to the user and his connection.
LEMMA CreateSessions ==
  ASSUME Ground, Track, NEW c \in Conns, LoginCreate(c), OthersSame(c)
  PROVE  SessionTrack'
<1>0. TypeOK /\ SessionTrack /\ session \in [Slots -> Record]
  BY DEF Ground, Track, TypeOK
<1>1. pc[c] = "create" /\ ~authenticated[c] /\ wanted[c] \in Users
  BY DEF LoginCreate, Ground, SessionInv, Shape, Track, FlagsInService, Leaving
<1>2. CASE FreeSlots = {}
  <2>1. UNCHANGED session /\ ~authenticated'[c] /\ pc'[c] = "recv"
    BY <1>0, <1>2 DEF LoginCreate, LoginFails, Goto, TypeOK
  <2> QED
    BY <1>0, <1>1, <2>1, SessionsNotMine
<1>3. CASE FreeSlots # {}
  <2>1. PICK new \in Slots : new = First(FreeSlots) /\ session[new].user = NoUser
    <3>1. FreeSlots \subseteq Nat
      BY DEF FreeSlots, SlotsOf
    <3>2. First(FreeSlots) \in FreeSlots
      BY <1>3, <3>1, FirstIn
    <3> QED
      BY <3>2 DEF FreeSlots, SlotsOf
  <2>2. PICK w \in Users : w = wanted[c]
    BY <1>1
  <2>3. /\ session' = [session EXCEPT ![new] = [user |-> w, conn |-> c]]
        /\ pc'[c] = "register" /\ wanted'[c] = w
    BY <1>0, <1>3, <2>1, <2>2 DEF LoginCreate, Goto, TypeOK
  <2>4. session[new] = Empty
    BY <1>0, <2>1, Named
  <2>5. session'[new] = [user |-> w, conn |-> c]
    BY <1>0, <2>3
  <2>6. \A s \in Slots \ {new} : session'[s] = session[s]
    BY <1>0, <2>3
  <2>7. \A s \in Slots, u \in Users : session[s] # [user |-> u, conn |-> c]
    BY <1>0, <1>1, OwnsNone
  <2>8. SessionKept(c)'
    <3>1. Has(c, w)'
      BY <2>5 DEF Has
    <3>2. \A u \in Users : MustOwn(c, u)' => u = w
      BY <2>3 DEF MustOwn, LoggedIn
    <3> QED
      BY <2>3, <3>1, <3>2 DEF SessionKept
  <2>9. \A s \in Slots, u \in Users : session'[s] = [user |-> u, conn |-> c] => MayOwn(c, u)'
    <3> SUFFICES ASSUME NEW s \in Slots, NEW u \in Users,
                        session'[s] = [user |-> u, conn |-> c]
                 PROVE  MayOwn(c, u)'
      OBVIOUS
    <3>1. s = new
      BY <2>6, <2>7
    <3>2. u = w
      BY <2>5, <3>1
    <3> QED
      BY <2>3, <3>2 DEF MayOwn
  <2>10. \A s \in Slots : session'[s] = session[s] \/ session[s] = Empty
    BY <2>4, <2>6
  <2>11. \A s \in Slots : session'[s] = session[s] \/ session'[s].conn = c
    BY <2>5, <2>6
  <2> QED
    BY <1>0, <2>8, <2>9, <2>10, <2>11, SessionFrame
<1> QED
  BY <1>2, <1>3

\* What a step that erases the session of its user comes to.
LEMMA ErasedSessions ==
  ASSUME Ground, Track, NEW c \in Conns, Logout(c) \/ CleanupErase(c)
  PROVE  \A t \in Slots :
           /\ session'[t] = session[t] \/ (session[t].conn = c /\ session'[t] = Empty)
           /\ session[t] = [user |-> current[c], conn |-> c] => session'[t] = Empty
<1>0. TypeOK /\ UserKnown /\ session \in [Slots -> Record] /\ SessionKept(c)
  BY DEF Ground, TypeOK, Track, SessionTrack
<1>1. CASE Logout(c)
  <2>1. /\ authenticated[c]
        /\ session' = IF FindSession(current[c]) = NoSlot THEN session
                      ELSE [session EXCEPT ![FindSession(current[c])] = Empty]
    BY <1>1 DEF Logout
  <2>2. PICK u \in Users : u = current[c]
    BY <1>0, <2>1 DEF UserKnown
  <2>3. CASE SlotsOf(u) = {}
    BY <2>1, <2>2, <2>3, SlotFound DEF SlotsOf
  <2>4. CASE SlotsOf(u) # {}
    <3>1. PICK s \in Slots : s = FindSession(u) /\ session[s].user = u
      BY <2>4, SlotFound
    <3>2. session' = [session EXCEPT ![s] = Empty]
      BY <2>1, <2>2, <3>1
    <3>3. Engaged(c, u)
      BY <2>1, <2>2 DEF Engaged
    <3>4. /\ session[s] = [user |-> u, conn |-> c]
          /\ \A t \in Slots : session[t].user = u => t = s
      <4>1. session[s].user = u
        BY <3>1
      <4>2. \A x \in Users, y \in Slots : Engaged(c, x) /\ session[y].user = x
              => /\ session[y] = [user |-> x, conn |-> c]
                 /\ \A t \in Slots : session[t].user = x => t = y
        BY OwnSession
      <4> QED
        BY <3>3, <4>1, <4>2
    <3>5. \A t \in Slots : session'[t] = IF t = s THEN Empty ELSE session[t]
      BY <1>0, <3>2
    <3> QED
      BY <2>2, <3>4, <3>5
  <2> QED
    BY <2>3, <2>4
<1>2. CASE CleanupErase(c)
  <2>1. pc[c] = "erase" /\ session' = [session EXCEPT ![found[c]] = Empty]
    BY <1>2 DEF CleanupErase
  <2>2. PICK s \in Slots : s = found[c] /\ session[s] = [user |-> current[c], conn |-> c]
    BY <1>0, <2>1 DEF SessionKept
  <2>3. session[s] # Empty
    BY <2>2 DEF Empty
  <2>4. \A t \in Slots : session[t].user = current[c] => t = s
    <3>1. session[s].user = current[c]
      BY <2>2
    <3> QED
      BY <2>3, <3>1 DEF Ground, SessionInv, OneSlotPerUser
  <2>5. \A t \in Slots : session'[t] = IF t = s THEN Empty ELSE session[t]
    BY <1>0, <2>1, <2>2
  <2>6. session[s].conn = c
    BY <2>2
  <2>7. \A t \in Slots : session[t] = [user |-> current[c], conn |-> c] => t = s
    BY <2>4
  <2> QED
    BY <2>5, <2>6, <2>7
<1> QED
  BY <1>1, <1>2

LEMMA EraseSessions ==
  ASSUME Ground, Track, NEW c \in Conns, Logout(c) \/ CleanupErase(c), OthersSame(c)
  PROVE  SessionTrack'
<1>0. TypeOK /\ SessionTrack
  BY DEF Ground, Track
<1>1. pc[c] \in {"recv", "erase"} /\ pc'[c] \in {"unregister", "forget"}
  BY <1>0 DEF Logout, CleanupErase, Goto, TypeOK
<1>2. \A t \in Slots : session'[t] = session[t] \/ (session[t].conn = c /\ session'[t] = Empty)
  BY ErasedSessions
<1>3. \A t \in Slots, u \in Users : session'[t] # [user |-> u, conn |-> c]
  <2> SUFFICES ASSUME NEW t \in Slots, NEW u \in Users,
                      session'[t] = [user |-> u, conn |-> c]
               PROVE  FALSE
    OBVIOUS
  <2>1. session'[t] # Empty
    BY DEF Empty
  <2>2. session[t] = [user |-> u, conn |-> c]
    BY <1>2, <2>1
  <2>3. u = current[c]
    BY <1>0, <1>1, <2>2 DEF SessionTrack, MayOwn
  <2> QED
    BY <2>1, <2>2, <2>3, ErasedSessions
<1>4. SessionKept(c)'
  BY <1>1 DEF SessionKept, MustOwn, LoggedIn
<1> QED
  BY <1>0, <1>2, <1>3, <1>4, SessionFrame

\* The clean-up finds the session of its user, and it is its own.
LEMMA FindSessions ==
  ASSUME Ground, Track, NEW c \in Conns, CleanupFind(c), OthersSame(c)
  PROVE  SessionTrack'
<1>0. TypeOK /\ UserKnown /\ SessionTrack /\ session \in [Slots -> Record]
  BY DEF Ground, Track, TypeOK
<1>1. UNCHANGED <<session, wanted, current, authenticated>> /\ pc[c] = "cleanup"
  BY DEF CleanupFind
<1>2. CASE ~authenticated[c]
  <2>1. pc'[c] = "close"
    BY <1>0, <1>2 DEF CleanupFind, Goto, TypeOK
  <2> QED
    BY <1>0, <1>1, <1>2, <2>1, SessionsNotMine
<1>3. CASE authenticated[c]
  <2>1. PICK u \in Users : u = current[c]
    BY <1>0, <1>3 DEF UserKnown
  <2>2. /\ pc'[c] = IF FindSession(u) = NoSlot THEN "forget" ELSE "erase"
        /\ found'[c] = FindSession(u)
    BY <1>0, <1>3, <2>1 DEF CleanupFind, Goto, TypeOK
  <2>3. \A s \in Slots, x \in Users : session[s] = [user |-> x, conn |-> c] => x = u
    BY <1>0, <1>1, <2>1 DEF SessionTrack, MayOwn
  <2>4. CASE SlotsOf(u) = {}
    <3>1. pc'[c] = "forget"
      BY <2>2, <2>4, SlotFound
    <3>2. \A s \in Slots, x \in Users : session[s] # [user |-> x, conn |-> c]
      BY <2>3, <2>4 DEF SlotsOf
    <3>3. SessionKept(c)'
      BY <3>1 DEF SessionKept, MustOwn, LoggedIn
    <3> QED
      BY <1>0, <1>1, <3>2, <3>3, SessionsUnchanged
  <2>5. CASE SlotsOf(u) # {}
    <3>1. PICK s \in Slots : s = FindSession(u) /\ session[s].user = u
      BY <2>5, SlotFound
    <3>2. pc'[c] = "erase" /\ found'[c] = s
      BY <2>2, <3>1
    <3>3. Engaged(c, u)
      BY <1>3, <2>1 DEF Engaged
    <3>4. \A x \in Users, y \in Slots : Engaged(c, x) /\ session[y].user = x
            => session[y] = [user |-> x, conn |-> c]
      BY OwnSession
    <3>5. session[s] = [user |-> u, conn |-> c]
      BY <3>1, <3>3, <3>4
    <3>6. SessionKept(c)'
      BY <1>1, <2>1, <3>2, <3>5 DEF SessionKept, MustOwn, LoggedIn
    <3>7. \A y \in Slots, x \in Users :
            session[y] = [user |-> x, conn |-> c] => MayOwn(c, x)'
      BY <1>1, <1>3, <2>1, <2>3, <3>2 DEF MayOwn
    <3> QED
      BY <1>0, <1>1, <3>6, <3>7, SessionsUnchanged
  <2> QED
    BY <2>4, <2>5
<1> QED
  BY <1>2, <1>3

\* Whoever may own a session still has to end it, and whoever must have one
\* has it.
LEMMA NextSessions ==
  ASSUME Ground, Track, NEW c \in Conns, Step(c),
         MayLogIn(c) /\ authenticated[c] => pc'[c] # "check" /\ authenticated'[c]
  PROVE  SessionTrack'
<1>0. TypeOK /\ SessionTrack /\ FlagsInService /\ SessionKept(c)
  BY DEF Ground, Track, SessionTrack
<1>1. OthersSame(c)
  BY <1>0, StepsAreLocal
<1>2. CASE Connect(c) \/ LoginRefused(c) \/ LoginRequest(c)
  <2>1. UNCHANGED session
    BY <1>2 DEF Connect, LoginRefused, LoginRequest
  <2>2. ~authenticated[c] /\ ~authenticated'[c] /\ pc[c] \notin {"register", "welcome"}
        /\ pc'[c] \notin {"register", "welcome", "erase"}
    BY <1>0, <1>2 DEF Connect, LoginRefused, LoginRequest, MayLogIn, Goto,
                      FlagsInService, Leaving, TypeOK
  <2> QED
    BY <1>0, <1>1, <2>1, <2>2, SessionsNotMine
<1>3. CASE LoginCheck(c)
  <2>1. UNCHANGED session
    BY <1>3 DEF LoginCheck
  <2>2. ~authenticated[c] /\ ~authenticated'[c] /\ pc[c] \notin {"register", "welcome"}
        /\ pc'[c] \notin {"register", "welcome", "erase"}
    BY <1>0, <1>3 DEF LoginCheck, LoginFails, Goto, FlagsInService, Leaving, TypeOK
  <2> QED
    BY <1>0, <1>1, <2>1, <2>2, SessionsNotMine
<1>4. CASE LoginRegister(c)
  <2>1. /\ UNCHANGED <<session, wanted, current, authenticated>>
        /\ pc[c] = "register" /\ pc'[c] = "welcome"
    BY <1>0, <1>4 DEF LoginRegister, Goto, TypeOK
  <2>2. \A u \in Users : Has(c, u)' <=> Has(c, u)
    BY <2>1 DEF Has
  <2>3. SessionKept(c)'
    BY <1>0, <2>1, <2>2 DEF SessionKept, MustOwn, LoggedIn
  <2>4. \A s \in Slots, u \in Users : session[s] = [user |-> u, conn |-> c] => MayOwn(c, u)'
    BY <1>0, <2>1 DEF SessionTrack, MayOwn
  <2> QED
    BY <1>0, <1>1, <2>1, <2>3, <2>4, SessionsUnchanged
<1>8. CASE LoginReturn(c)
  <2>1. /\ UNCHANGED session /\ pc[c] = "welcome" /\ pc'[c] = "recv"
        /\ current'[c] = wanted[c] /\ authenticated'[c] /\ ~authenticated[c]
    BY <1>0, <1>8 DEF LoginReturn, Goto, TypeOK, FlagsInService, Leaving
  <2>2. \A u \in Users : Has(c, u)' <=> Has(c, u)
    BY <2>1 DEF Has
  <2>3. SessionKept(c)'
    BY <1>0, <2>1, <2>2 DEF SessionKept, MustOwn, LoggedIn
  <2>4. \A s \in Slots, u \in Users : session[s] = [user |-> u, conn |-> c] => MayOwn(c, u)'
    BY <1>0, <2>1 DEF SessionTrack, MayOwn
  <2> QED
    BY <1>0, <1>1, <2>1, <2>3, <2>4, SessionsUnchanged
<1>5. CASE LogoutUnregister(c) \/ CleanupUnregister(c)
  <2>1. UNCHANGED session
    BY <1>5 DEF LogoutUnregister, CleanupUnregister
  <2>2. pc[c] \in {"unregister", "forget"} /\ pc'[c] \in {"cleanup", "close"}
    BY <1>0, <1>5 DEF LogoutUnregister, CleanupUnregister, Goto, TypeOK
  <2> QED
    BY <1>0, <1>1, <2>1, <2>2, SessionsNotMine
<1>6. CASE Disconnect(c)
  <2>1. /\ UNCHANGED <<session, wanted, current, authenticated>>
        /\ pc[c] = "recv" /\ pc'[c] = "cleanup"
    BY <1>0, <1>6 DEF Disconnect, Goto, TypeOK
  <2>2. SessionKept(c)'
    BY <2>1 DEF SessionKept, MustOwn, LoggedIn
  <2>3. \A s \in Slots, u \in Users : session[s] = [user |-> u, conn |-> c] => MayOwn(c, u)'
    BY <1>0, <2>1 DEF SessionTrack, MayOwn
  <2> QED
    BY <1>0, <1>1, <2>1, <2>2, <2>3, SessionsUnchanged
<1>7. CASE Close(c)
  <2>1. UNCHANGED session /\ pc[c] = "close" /\ pc'[c] = "closed"
    BY <1>0, <1>7 DEF Close, Goto, TypeOK
  <2> QED
    BY <1>0, <1>1, <2>1, SessionsNotMine
<1> QED
  BY <1>1, <1>2, <1>3, <1>4, <1>5, <1>6, <1>7, <1>8, CreateSessions, EraseSessions,
     FindSessions DEF Step

\* A step of c that changes no entry of another connection leaves the others
\* their entries.
LEMMA EntryFrame ==
  ASSUME EntryTrack, NEW c \in Conns, OthersSame(c),
         \A e \in Entries : \/ registry'[e] = registry[e] \/ registry[e] = Empty
                            \/ registry[e].conn = c,
         \A e \in Entries : \/ registry'[e] = registry[e] \/ registry'[e] = Empty
                            \/ registry'[e].conn = c,
         EntryKept(c)',
         \A e \in Entries, u \in Users :
           registry'[e] = [user |-> u, conn |-> c] => MayBeListed(c, u)',
         OneEntryPerUser'
  PROVE  EntryTrack'
<1>1. ASSUME NEW d \in Conns \ {c}, NEW u, NEW e \in Entries
      PROVE  registry[e] = [user |-> u, conn |-> d]
               <=> registry'[e] = [user |-> u, conn |-> d]
  <2>1. \A x : x = [user |-> u, conn |-> d] => x.conn = d
    OBVIOUS
  <2>2. Empty.conn = NoConn
    BY DEF Empty
  <2> QED
    BY <2>1, <2>2
<1>2. \A d \in Conns \ {c} : EntryKept(d)'
  <2> SUFFICES ASSUME NEW d \in Conns \ {c}, NEW u \in Users, MustBeListed(d, u)'
               PROVE  Listed(d, u)'
    BY DEF EntryKept
  <2>1. MustBeListed(d, u)
    BY DEF MustBeListed, LoggedIn, OthersSame
  <2>2. Listed(d, u)
    BY <2>1 DEF EntryTrack, EntryKept
  <2> QED
    BY <1>1, <2>2 DEF Listed
<1>3. ASSUME NEW e \in Entries, NEW d \in Conns, NEW u \in Users,
             registry'[e] = [user |-> u, conn |-> d]
      PROVE  MayBeListed(d, u)'
  <2>1. CASE d = c
    BY <1>3, <2>1
  <2>2. CASE d # c
    <3>1. registry[e] = [user |-> u, conn |-> d]
      BY <1>1, <1>3, <2>2
    <3>2. MayBeListed(d, u)
      BY <3>1 DEF EntryTrack
    <3> QED
      BY <2>2, <3>2 DEF MayBeListed, OthersSame
  <2> QED
    BY <2>1, <2>2
<1> QED
  BY <1>2, <1>3 DEF EntryTrack

\* Steps that leave the registry alone.
LEMMA EntriesUnchanged ==
  ASSUME EntryTrack, NEW c \in Conns, OthersSame(c), UNCHANGED registry,
         EntryKept(c)',
         \A e \in Entries, u \in Users :
           registry[e] = [user |-> u, conn |-> c] => MayBeListed(c, u)'
  PROVE  EntryTrack'
<1>1. \A e \in Entries, u \in Users :
        registry'[e] = [user |-> u, conn |-> c] => MayBeListed(c, u)'
  OBVIOUS
<1>2. \A e \in Entries : registry'[e] = registry[e]
  OBVIOUS
<1>3. OneEntryPerUser'
  BY DEF EntryTrack, OneEntryPerUser
<1> QED
  BY <1>1, <1>2, <1>3, EntryFrame

\* The entry of a user with whom c is engaged is c's, and there is no other.
LEMMA OwnEntry ==
  ASSUME Ground, Track, NEW c \in Conns, NEW u \in Users, Engaged(c, u),
         NEW e \in Entries, registry[e].user = u
  PROVE  /\ registry[e] = [user |-> u, conn |-> c]
         /\ \A f \in Entries : registry[f].user = u => f = e
<1>1. registry[e] \in Record /\ registry[e] # Empty
  BY DEF Ground, TypeOK, Empty
<1>2. PICK d \in Conns : registry[e] = [user |-> u, conn |-> d]
  BY <1>1, Named
<1>3. MayBeListed(d, u)
  BY <1>2 DEF Track, EntryTrack
<1>4. d = c
  BY <1>3 DEF MayBeListed, Engaged, Track, OneConnPerUser
<1>5. \A f \in Entries : registry[f].user = u => f = e
  BY <1>1 DEF Track, EntryTrack, OneEntryPerUser
<1> QED
  BY <1>2, <1>4, <1>5

\* There are as many entries as connections, and a connection has one at
\* most: one that has none finds a free one.
LEMMA FreeEntry ==
  ASSUME Ground, EntryTrack, NEW c \in Conns,
         \A e \in Entries, u \in Users : registry[e] # [user |-> u, conn |-> c]
  PROVE  EntriesOf(NoUser) # {}
<1> SUFFICES ASSUME EntriesOf(NoUser) = {} PROVE FALSE
  OBVIOUS
<1>1. \A e \in Entries : \E u \in Users, d \in Conns \ {c} :
        registry[e] = [user |-> u, conn |-> d]
  <2> SUFFICES ASSUME NEW e \in Entries
               PROVE  \E u \in Users, d \in Conns \ {c} :
                        registry[e] = [user |-> u, conn |-> d]
    OBVIOUS
  <2>1. registry[e] \in Record /\ registry[e] # Empty
    BY DEF Ground, TypeOK, Empty, EntriesOf
  <2>2. PICK u \in Users, d \in Conns : registry[e] = [user |-> u, conn |-> d]
    BY <2>1, Named
  <2> QED
    BY <2>2
<1>2. PICK owner : owner = [e \in Entries |-> registry[e].conn]
  OBVIOUS
<1>3. owner \in [Entries -> Conns \ {c}]
  <2>1. ASSUME NEW e \in Entries PROVE registry[e].conn \in Conns \ {c}
    <3>1. PICK u \in Users, d \in Conns \ {c} : registry[e] = [user |-> u, conn |-> d]
      BY <1>1
    <3> QED
      BY <3>1
  <2> QED
    BY <1>2, <2>1
<1>4. IsFiniteSet(Conns \ {c}) /\ Cardinality(Conns \ {c}) < Cardinality(Entries)
  <2>1. /\ IsFiniteSet(Conns \ {c}) /\ Cardinality(Conns) \in Nat
        /\ Cardinality(Conns \ {c}) = Cardinality(Conns) - 1
    BY RegistryHasRoom, FS_RemoveElement, FS_CardinalityType
  <2>2. Cardinality(Entries) \in Nat
    BY RegistryHasRoom, FS_CardinalityType
  <2> QED
    BY <2>1, <2>2, RegistryHasRoom
<1>5. PICK e, f \in Entries : e # f /\ owner[e] = owner[f]
  <2>1. \E x, y \in Entries : x # y /\ owner[x] = owner[y]
    <3>1. IsFiniteSet(Entries) /\ IsFiniteSet(Conns \ {c})
      BY <1>4, RegistryHasRoom
    <3> QED
      BY ONLY <1>3, <1>4, <3>1, FS_PigeonHole
  <2> QED
    BY <2>1
<1>6. PICK d \in Conns, u \in Users :
        registry[e] = [user |-> u, conn |-> d]
  BY <1>1
<1>7. PICK x \in Users : registry[f] = [user |-> x, conn |-> d]
  <2>1. registry[f].conn = d
    BY <1>2, <1>5, <1>6
  <2>2. PICK x \in Users, y \in Conns \ {c} : registry[f] = [user |-> x, conn |-> y]
    BY <1>1
  <2> QED
    BY <2>1, <2>2
<1>8. x = u
  BY <1>6, <1>7 DEF EntryTrack, MayBeListed
<1>9. registry[e] # Empty /\ registry[e].user = registry[f].user
  BY <1>6, <1>7, <1>8 DEF Empty
<1> QED
  BY <1>5, <1>9 DEF EntryTrack, OneEntryPerUser

\* LoginRegister lists the user, once.
LEMMA RegisterEntries ==
  ASSUME Ground, Track, NEW c \in Conns, LoginRegister(c), OthersSame(c)
  PROVE  EntryTrack'
<1>0. TypeOK /\ EntryTrack /\ registry \in [Entries -> Record]
  BY DEF Ground, Track, TypeOK
<1>1. pc[c] = "register" /\ ~authenticated[c] /\ wanted[c] \in Users
  BY DEF LoginRegister, Ground, SessionInv, Shape, Track, FlagsInService, Leaving
<1>2. PICK w \in Users : w = wanted[c]
  BY <1>1
<1>3. Register(w, c) /\ pc'[c] = "welcome" /\ wanted'[c] = w
  BY <1>0, <1>2 DEF LoginRegister, Goto, TypeOK
<1>4. \A e \in Entries, u \in Users : registry[e] # [user |-> u, conn |-> c]
  BY <1>0, <1>1 DEF EntryTrack, MayBeListed
<1>5. EntriesOf(NoUser) # {}
  BY <1>0, <1>4, FreeEntry
<1>6. PICK new \in Entries : new = First(EntriesOf(NoUser)) /\ registry[new].user = NoUser
  BY <1>5, EntryFound
<1>7. registry' = [registry EXCEPT ![new] = [user |-> w, conn |-> c]]
  BY <1>3, <1>5, <1>6 DEF Register
<1>8. registry[new] = Empty
  BY <1>0, <1>6, Named
<1>9. registry'[new] = [user |-> w, conn |-> c]
  BY <1>0, <1>7
<1>10. \A e \in Entries \ {new} : registry'[e] = registry[e]
  BY <1>0, <1>7
<1>11. EntryKept(c)'
  <2>1. Listed(c, w)'
    BY <1>9 DEF Listed
  <2>2. \A u \in Users : MustBeListed(c, u)' => u = w
    BY <1>3 DEF MustBeListed, LoggedIn
  <2> QED
    BY <2>1, <2>2 DEF EntryKept
<1>12. \A e \in Entries, u \in Users :
         registry'[e] = [user |-> u, conn |-> c] => MayBeListed(c, u)'
  <2> SUFFICES ASSUME NEW e \in Entries, NEW u \in Users,
                      registry'[e] = [user |-> u, conn |-> c]
               PROVE  MayBeListed(c, u)'
    OBVIOUS
  <2>1. e = new
    BY <1>4, <1>10
  <2>2. u = w
    BY <1>9, <2>1
  <2> QED
    BY <1>3, <2>2 DEF MayBeListed
\* Nobody else is listed as this user: he would be engaged with him.
<1>13. \A e \in Entries : registry[e].user # w
  <2> SUFFICES ASSUME NEW e \in Entries, registry[e].user = w PROVE FALSE
    OBVIOUS
  <2>1. Engaged(c, w)
    BY <1>1, <1>2 DEF Engaged
  <2>2. \A u \in Users, f \in Entries : Engaged(c, u) /\ registry[f].user = u
          => registry[f] = [user |-> u, conn |-> c]
    BY OwnEntry
  <2>3. registry[e] = [user |-> w, conn |-> c]
    BY <2>1, <2>2
  <2> QED
    BY <1>4, <2>3
<1>14. OneEntryPerUser'
  <2> SUFFICES ASSUME NEW e \in Entries, NEW f \in Entries, registry'[e] # Empty,
                      registry'[e].user = registry'[f].user
               PROVE  e = f
    BY DEF OneEntryPerUser
  <2>1. registry'[new].user = w
    BY <1>9
  <2>2. CASE e = new
    BY <1>10, <1>13, <2>1, <2>2
  <2>3. CASE f = new
    BY <1>10, <1>13, <2>1, <2>3
  <2>4. CASE e # new /\ f # new
    BY <1>0, <1>10, <2>4 DEF EntryTrack, OneEntryPerUser
  <2> QED
    BY <2>2, <2>3, <2>4
<1>15. \A e \in Entries : registry'[e] = registry[e] \/ registry[e] = Empty
  BY <1>8, <1>10
<1>16. \A e \in Entries : registry'[e] = registry[e] \/ registry'[e].conn = c
  <2>1. registry'[new].conn = c
    BY <1>9
  <2> QED
    BY <1>10, <2>1
<1> QED
  BY <1>0, <1>11, <1>12, <1>14, <1>15, <1>16, EntryFrame

\* What unregistering a user comes to: the entry of his connection goes.
LEMMA Unregistered ==
  ASSUME Ground, Track, NEW c \in Conns, NEW u \in Users, Engaged(c, u), Unregister(u)
  PROVE  \A e \in Entries :
           /\ registry'[e] = registry[e] \/ (registry[e].conn = c /\ registry'[e] = Empty)
           /\ registry[e] = [user |-> u, conn |-> c] => registry'[e] = Empty
<1>0. registry \in [Entries -> Record]
  BY DEF Ground, TypeOK
<1>1. CASE EntriesOf(u) = {}
  BY <1>1 DEF Unregister, EntriesOf
<1>2. CASE EntriesOf(u) # {}
  <2>1. PICK e \in Entries : e = First(EntriesOf(u)) /\ registry[e].user = u
    BY <1>2, EntryFound
  <2>2. registry' = [registry EXCEPT ![e] = Empty]
    BY <1>2, <2>1 DEF Unregister
  <2>3. /\ registry[e] = [user |-> u, conn |-> c]
        /\ \A f \in Entries : registry[f].user = u => f = e
    <3>1. registry[e].user = u
      BY <2>1
    <3>2. \A x \in Users, y \in Entries : Engaged(c, x) /\ registry[y].user = x
            => /\ registry[y] = [user |-> x, conn |-> c]
               /\ \A f \in Entries : registry[f].user = x => f = y
      BY OwnEntry
    <3> QED
      BY <3>1, <3>2
  <2>4. \A f \in Entries : registry'[f] = IF f = e THEN Empty ELSE registry[f]
    BY <1>0, <2>2
  <2> QED
    BY <2>3, <2>4
<1> QED
  BY <1>1, <1>2

LEMMA UnregisterEntries ==
  ASSUME Ground, Track, NEW c \in Conns, LogoutUnregister(c) \/ CleanupUnregister(c),
         OthersSame(c)
  PROVE  EntryTrack'
<1>0. TypeOK /\ EntryTrack /\ FlagsInService /\ registry \in [Entries -> Record]
  BY DEF Ground, Track, TypeOK
<1>1. /\ pc[c] \in {"unregister", "forget"} /\ pc'[c] \in {"cleanup", "close"}
      /\ Unregister(current[c]) /\ UNCHANGED <<current, authenticated>>
  BY <1>0 DEF LogoutUnregister, CleanupUnregister, Goto, TypeOK
<1>2. authenticated[c]
  BY <1>0, <1>1 DEF FlagsInService
<1>3. PICK u \in Users : u = current[c]
  BY <1>2 DEF Ground, UserKnown
<1>4. Engaged(c, u) /\ Unregister(u)
  BY <1>1, <1>2, <1>3 DEF Engaged
<1>5. \A e \in Entries :
        /\ registry'[e] = registry[e] \/ (registry[e].conn = c /\ registry'[e] = Empty)
        /\ registry[e] = [user |-> u, conn |-> c] => registry'[e] = Empty
  BY <1>4, Unregistered
<1>6. \A e \in Entries, x \in Users : registry'[e] # [user |-> x, conn |-> c]
  <2> SUFFICES ASSUME NEW e \in Entries, NEW x \in Users,
                      registry'[e] = [user |-> x, conn |-> c]
               PROVE  FALSE
    OBVIOUS
  <2>1. registry'[e] # Empty
    BY DEF Empty
  <2>2. registry[e] = [user |-> x, conn |-> c]
    BY <1>5, <2>1
  <2>3. x = u
    BY <1>0, <1>1, <1>3, <2>2 DEF EntryTrack, MayBeListed
  <2> QED
    BY <1>5, <2>1, <2>2, <2>3
<1>7. EntryKept(c)'
  BY <1>1 DEF EntryKept, MustBeListed, LoggedIn
<1>8. OneEntryPerUser'
  <2> SUFFICES ASSUME NEW e \in Entries, NEW f \in Entries, registry'[e] # Empty,
                      registry'[e].user = registry'[f].user
               PROVE  e = f
    BY DEF OneEntryPerUser
  <2>1. registry'[e] = registry[e] /\ registry[e] \in Record /\ registry[e].user # NoUser
    BY <1>0, <1>5, Named
  <2>2. registry'[f] = registry[f]
    <3>1. Empty.user = NoUser
      BY DEF Empty
    <3>2. registry'[f] # Empty
      BY <2>1, <3>1
    <3> QED
      BY <1>5, <3>2
  <2> QED
    BY <1>0, <2>1, <2>2 DEF EntryTrack, OneEntryPerUser
<1> QED
  BY <1>0, <1>5, <1>6, <1>7, <1>8, EntryFrame

\* Whoever is listed is logged in, up to the clean-up that unregisters him,
\* and whoever is logged in is listed, once.
LEMMA NextEntries ==
  ASSUME Ground, Track, NEW c \in Conns, Step(c),
         MayLogIn(c) /\ authenticated[c] => pc'[c] # "check" /\ authenticated'[c]
  PROVE  EntryTrack'
<1>0. TypeOK /\ EntryTrack /\ FlagsInService
  BY DEF Ground, Track
<1>1. OthersSame(c)
  BY <1>0, StepsAreLocal
<1>2. ASSUME UNCHANGED registry, authenticated'[c] => pc'[c] # "recv",
             pc[c] # "welcome", pc'[c] # "welcome",
             ~authenticated[c] \/ pc[c] = "close"
      PROVE  EntryTrack'
  <2>1. EntryKept(c)'
    BY <1>2 DEF EntryKept, MustBeListed, LoggedIn
  <2>2. \A e \in Entries, u \in Users : registry[e] # [user |-> u, conn |-> c]
    BY <1>0, <1>2 DEF EntryTrack, MayBeListed
  <2> QED
    BY <1>0, <1>1, <1>2, <2>1, <2>2, EntriesUnchanged
<1>3. ASSUME UNCHANGED <<registry, current, authenticated>>, pc[c] # "welcome",
             pc'[c] \in {"unregister", "cleanup", "erase", "forget"}
      PROVE  EntryTrack'
  <2>1. EntryKept(c)'
    BY <1>3 DEF EntryKept, MustBeListed, LoggedIn
  <2>2. \A e \in Entries, u \in Users :
          registry[e] = [user |-> u, conn |-> c] => MayBeListed(c, u)'
    BY <1>0, <1>3 DEF EntryTrack, MayBeListed
  <2> QED
    BY <1>0, <1>1, <1>3, <2>1, <2>2, EntriesUnchanged
<1>4. CASE Connect(c) \/ LoginRefused(c) \/ LoginRequest(c)
  <2>1. /\ UNCHANGED registry /\ ~authenticated[c] /\ ~authenticated'[c]
        /\ pc[c] # "welcome" /\ pc'[c] # "welcome"
    BY <1>0, <1>4 DEF Connect, LoginRefused, LoginRequest, MayLogIn, Goto,
                      FlagsInService, Leaving, TypeOK
  <2> QED
    BY <1>2, <2>1
<1>5. CASE LoginCheck(c) \/ LoginCreate(c)
  <2>1. /\ UNCHANGED registry /\ ~authenticated[c] /\ ~authenticated'[c]
        /\ pc[c] # "welcome" /\ pc'[c] # "welcome"
    BY <1>0, <1>5 DEF LoginCheck, LoginCreate, LoginFails, Goto, FlagsInService, Leaving,
                      TypeOK
  <2> QED
    BY <1>2, <2>1
<1>6. CASE Logout(c) \/ Disconnect(c) \/ CleanupErase(c)
  <2>1. /\ UNCHANGED <<registry, current, authenticated>> /\ pc[c] # "welcome"
        /\ pc'[c] \in {"unregister", "cleanup", "forget"}
    BY <1>0, <1>6 DEF Logout, Disconnect, CleanupErase, Goto, TypeOK
  <2> QED
    BY <1>3, <2>1
<1>7. CASE CleanupFind(c)
  <2>1. UNCHANGED <<registry, current, authenticated>> /\ pc[c] = "cleanup"
    BY <1>7 DEF CleanupFind
  <2>2. IF authenticated[c] THEN pc'[c] \in {"forget", "erase"} ELSE pc'[c] = "close"
    BY <1>0, <1>7 DEF CleanupFind, Goto, TypeOK
  <2> QED
    BY <1>2, <1>3, <2>1, <2>2
<1>8. CASE Close(c)
  <2>1. UNCHANGED registry /\ pc[c] = "close" /\ pc'[c] = "closed"
    BY <1>0, <1>8 DEF Close, Goto, TypeOK
  <2> QED
    BY <1>2, <2>1
<1>9. CASE LoginReturn(c)
  <2>1. /\ UNCHANGED registry /\ pc[c] = "welcome" /\ pc'[c] = "recv"
        /\ current'[c] = wanted[c] /\ authenticated'[c] /\ ~authenticated[c]
    BY <1>0, <1>9 DEF LoginReturn, Goto, TypeOK, FlagsInService, Leaving
  <2>2. \A u \in Users : Listed(c, u)' <=> Listed(c, u)
    BY <2>1 DEF Listed
  <2>3. EntryKept(c)'
    BY <1>0, <2>1, <2>2 DEF EntryTrack, EntryKept, MustBeListed, LoggedIn
  <2>4. \A e \in Entries, u \in Users :
          registry[e] = [user |-> u, conn |-> c] => MayBeListed(c, u)'
    BY <1>0, <2>1 DEF EntryTrack, MayBeListed
  <2> QED
    BY <1>0, <1>1, <2>1, <2>3, <2>4, EntriesUnchanged
<1> QED
  BY <1>1, <1>4, <1>5, <1>6, <1>7, <1>8, <1>9, RegisterEntries, UnregisterEntries DEF Step

\* The initial state and every step keep it all.
LEMMA InitTrack == Init => TrackInv
<1> SUFFICES ASSUME Init PROVE Track
  BY DEF TrackInv
<1>1. \A u, c : [user |-> u, conn |-> c] = Empty => u \notin Users
  BY DEF Empty
<1>2. FlagsInService /\ OneConnPerUser
  BY DEF Init, FlagsInService, OneConnPerUser, Engaged
<1>3. SessionTrack
  BY <1>1 DEF Init, SessionTrack, SessionKept, MustOwn, LoggedIn
<1>4. EntryTrack
  BY <1>1 DEF Init, EntryTrack, EntryKept, MustBeListed, LoggedIn, OneEntryPerUser
<1> QED
  BY <1>2, <1>3, <1>4 DEF Track

LEMMA NextTrack ==
  ASSUME Ground, TrackInv, Next
  PROVE  TrackInv'
<1> SUFFICES ASSUME ~disturbed' PROVE Track'
  BY DEF TrackInv
<1>0. TypeOK
  BY DEF Ground
<1>1. ~disturbed /\ Track
  BY <1>0, Undisturbed DEF TrackInv
<1>2. PICK c \in Conns : Step(c)
  BY <1>0, Undisturbed
<1>3. MayLogIn(c) /\ authenticated[c] => pc'[c] # "check" /\ authenticated'[c]
  BY <1>0, Undisturbed
<1>4. \A d \in Conns : pc[c] = "create" /\ pc'[c] = "register"
        /\ Leaving(d) /\ authenticated[d] => current[d] # wanted[c]
  BY <1>0, Undisturbed
<1>5. FlagsInService'
  BY <1>0, <1>1, <1>2, <1>3, NextFlags DEF Track
<1>6. OneConnPerUser'
  BY <1>1, <1>2, <1>3, <1>4, NextOneConn
<1>7. SessionTrack'
  BY <1>1, <1>2, <1>3, NextSessions
<1>8. EntryTrack'
  BY <1>1, <1>2, <1>3, NextEntries
<1> QED
  BY <1>5, <1>6, <1>7, <1>8 DEF Track

\* As long as nothing the bookkeeping does not survive has happened, the
\* slots of sessions.dat, the entries of the registry and the flags of the
\* connections agree, one connection per user.
THEOREM TrackHolds == Spec => []TrackInv
<1>1. Init => TrackInv
  BY InitTrack
<1>2. TypeOK /\ UserKnown /\ SessionInv /\ TrackInv /\ [Next]_vars => TrackInv'
  <2>1. TrackInv /\ UNCHANGED vars => TrackInv'
    BY DEF TrackInv, Track, FlagsInService, Leaving, OneConnPerUser, Engaged,
           SessionTrack, MayOwn, SessionKept, MustOwn, LoggedIn, Has, EntryTrack,
           MayBeListed, EntryKept, MustBeListed, Listed, OneEntryPerUser, vars
  <2> QED
    BY <2>1, NextTrack DEF Ground
<1> QED
  BY <1>1, <1>2, SessionInvariant, TypesHold, PTL DEF Spec

\* Undisturbed, the connection a lookup returns is open and logged in, or
\* being welcomed, as the user it was looked up for (RegistryFresh).
THEOREM NoStaleEntry == Spec => []RegistryFresh
<1>1. TypeOK /\ UserKnown /\ TrackInv => RegistryFresh
  <2> SUFFICES ASSUME TypeOK, EntryTrack, NEW e \in Entries, registry[e] # Empty
               PROVE  MayBeListed(registry[e].conn, registry[e].user)
    BY DEF TrackInv, Track, RegistryFresh, MayBeListed
  <2>1. PICK u \in Users, c \in Conns : registry[e] = [user |-> u, conn |-> c]
    BY Named DEF TypeOK
  <2>2. MayBeListed(c, u)
    BY <2>1 DEF EntryTrack
  <2> QED
    BY <2>1, <2>2
<1> QED
  BY <1>1, TypesHold, TrackHolds, PTL

\* Undisturbed, a session belongs to a connection that still has to end it:
\* nobody stays locked out of his account (SessionHasConnection).
THEOREM NoOrphanSession == Spec => []SessionHasConnection
<1>1. TypeOK /\ UserKnown /\ TrackInv => SessionHasConnection
  <2> SUFFICES ASSUME TypeOK, SessionTrack, NEW s \in Slots, session[s] # Empty,
                      NEW u \in Users, NEW c \in Conns,
                      session[s] = [user |-> u, conn |-> c]
               PROVE  MayOwn(c, u)
    BY Named DEF TrackInv, Track, SessionHasConnection, MayOwn, TypeOK
  <2> QED
    BY DEF SessionTrack
<1> QED
  BY <1>1, TypesHold, TrackHolds, PTL

\* Undisturbed, a connection that is logged in has the session of its user,
\* and notifications for the user find it (LoggedInHasSession).
THEOREM LoginIsKept == Spec => []LoggedInHasSession
<1>1. TypeOK /\ UserKnown /\ TrackInv => LoggedInHasSession
  <2> SUFFICES ASSUME Track, NEW c \in Conns, NEW u \in Users, LoggedIn(c, u)
               PROVE  Has(c, u) /\ Lookup(u) = c
    BY DEF TrackInv, LoggedInHasSession, Has
  <2>1. Has(c, u)
    BY DEF Track, SessionTrack, SessionKept, MustOwn
  <2>2. PICK e \in Entries : registry[e] = [user |-> u, conn |-> c]
    BY DEF Track, EntryTrack, EntryKept, MustBeListed, Listed
  <2>3. EntriesOf(u) # {}
    BY <2>2 DEF EntriesOf
  <2>4. PICK f \in Entries : f = First(EntriesOf(u)) /\ registry[f].user = u
    BY <2>3, EntryFound
  <2>5. e = f
    <3>1. registry[e] # Empty /\ registry[e].user = registry[f].user
      BY <2>2, <2>4 DEF Empty
    <3> QED
      BY <3>1 DEF Track, EntryTrack, OneEntryPerUser
  <2>6. Lookup(u) = registry[f].conn
    BY <2>3, <2>4 DEF Lookup
  <2> QED
    BY <2>1, <2>2, <2>5, <2>6
<1> QED
  BY <1>1, TypesHold, TrackHolds, PTL
=============================================================================
