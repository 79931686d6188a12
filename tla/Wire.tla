-------------------------------- MODULE Wire --------------------------------
(***************************************************************************)
(* The socket of one client: the main thread and the listener thread of    *)
(* client/client.c at one end, the worker that serves the client           *)
(* (server/server.c) and the threads that notify him (server/notify.c) at  *)
(* the other.  A message is a header and a payload, written and read by    *)
(* separate calls, and nothing but the order in the socket holds them      *)
(* together.  A word stands for a header, or for a part of a payload.      *)
(***************************************************************************)
EXTENDS Integers, Sequences

CONSTANTS
  Plain,              \* requests other than login and logout
  Closing,            \* those whose handler may notify the client who asks
  AnswerSize,         \* payload words of the answer to each request
  Room,               \* words the client's buffer for that answer holds
  ListenerRoom,       \* words the listener's buffer holds
  Notifiers,          \* threads of the server that notify the client
  Own,                \* ... of which this is the client's own worker
  MaxNotices          \* bound: notifications in one behaviour

Requests == Plain \cup {"login", "logout"}

\* client.c declares the buffer of each request as large as its answer.
ASSUME WireAssumption ==
  /\ AnswerSize \in [Requests -> Nat] /\ Room \in [Requests -> Nat]
  /\ \A r \in Requests : AnswerSize[r] <= Room[r]
  /\ AnswerSize["login"] > 0 /\ AnswerSize["logout"] = 0
  /\ ListenerRoom \in Nat \ {0}
  /\ "notice" \notin Requests /\ "worker" \notin Notifiers
  /\ Closing \subseteq Plain /\ Own \in Notifiers
  /\ MaxNotices \in Nat

Writers == Notifiers \cup {"worker"}
Readers == {"main", "listener"}

VARIABLES
  inbox,              \* words on their way to the client
  requests,           \* requests on their way to the worker
  writing,            \* words that each thread of the server is yet to write
  told,               \* how often the worker has notified its own client
  registered,         \* whether lookup_fd finds the client
  connection,         \* "open", "closing" after a logout, "closed"
  req,                \* the request of the main thread
  reader,             \* [pc, word, want] of the client's two threads
  reqLock,            \* who holds req_lock
  notices,            \* notifications so far (bound)
  crossed             \* history: see Disturbance

server == <<requests, writing, told, registered, connection, notices>>
wireVars == <<inbox, server, req, reader, reqLock, crossed>>

\* Of what message a word is, and how many payload words follow it.
Word == [of : Requests \cup {"notice"}, head : BOOLEAN, left : Nat]
NoWord == [of |-> "notice", head |-> FALSE, left |-> 0]

MaxRoom(t) == IF t = "main" THEN Room[req] ELSE ListenerRoom

\* The last conjunct: no payload is read past the end of its buffer.
WireTypeOK ==
  /\ inbox \in Seq(Word)
  /\ requests \in Seq(Requests)
  /\ writing \in [Writers -> Seq(Word)]
  /\ told \in 0..2 /\ registered \in BOOLEAN
  /\ connection \in {"open", "closing", "closed"}
  /\ req \in Requests
  /\ reader \in [Readers ->
       [pc : {"menu", "lock", "off", "loop", "try", "head", "body", "lost", "ended"},
        word : Word, want : Nat]]
  /\ reqLock \in Readers \cup {"nobody"}
  /\ notices \in Nat
  /\ crossed \in BOOLEAN
  /\ \A t \in Readers : reader[t].pc = "body" => reader[t].want \in 1..MaxRoom(t)

At(label) == [pc |-> label, word |-> NoWord, want |-> 0]

WireInit ==
  /\ inbox = <<>> /\ requests = <<>>
  /\ writing = [w \in Writers |-> <<>>]
  /\ told = 0 /\ registered = FALSE
  /\ connection = "open"
  /\ req = "login"
  /\ reader = [t \in Readers |-> At(IF t = "main" THEN "menu" ELSE "off")]
  /\ reqLock = "nobody"
  /\ notices = 0
  /\ crossed = FALSE

-----------------------------------------------------------------------------
(* The server's end *)

Message(of, size) ==
  <<[of |-> of, head |-> TRUE, left |-> size]>>
    \o [i \in 1..size |-> [of |-> of, head |-> FALSE, left |-> size - i]]

Answer(r, size) == writing' = [writing EXCEPT !["worker"] = Message(r, size)]

\* Mutant: a handler returns early without a word to the client.
ServeSilently ==
  /\ requests # <<>> /\ writing["worker"] = <<>> /\ writing[Own] = <<>>
  /\ LET r == Head(requests) IN
       /\ \E ok \in BOOLEAN :
            /\ told > 0 => ok
            /\ IF ok THEN Answer(r, AnswerSize[r]) ELSE UNCHANGED writing
            /\ registered' = IF r = "login" THEN ok ELSE registered /\ r # "logout"
       /\ connection' = IF r = "logout" THEN "closing" ELSE connection
  /\ requests' = Tail(requests) /\ told' = 0
  /\ UNCHANGED <<inbox, req, reader, reqLock, notices>>

\* handle_client: one request is received and dispatched.  Every handler
\* answers, with a payload or (refused, nothing found) a bare header; login
\* registers the client before it answers, logout unregisters him.  A close
\* that has notified its client is not refused any more.
Serve ==
  /\ requests # <<>> /\ writing["worker"] = <<>> /\ writing[Own] = <<>>
  /\ LET r == Head(requests) IN
       /\ \E ok \in BOOLEAN :
            /\ told > 0 => ok
            /\ Answer(r, IF ok THEN AnswerSize[r] ELSE 0)
            /\ registered' = IF r = "login" THEN ok ELSE registered /\ r # "logout"
       /\ connection' = IF r = "logout" THEN "closing" ELSE connection
  /\ requests' = Tail(requests) /\ told' = 0
  /\ UNCHANGED <<inbox, req, reader, reqLock, notices>>

\* handle_close_auction by the seller: close_auction_internal notifies him, in
\* his own worker, before the answer is written: that it is closed and, if he
\* was his own highest bidder, that he has won.
MayNotify(n) ==
  n = Own => /\ requests # <<>> /\ Head(requests) \in Closing
             /\ writing["worker"] = <<>> /\ told < 2

\* push_notification up to the release of registry_lock.
Push(n) ==
  /\ writing[n] = <<>> /\ MayNotify(n)
  /\ registered /\ notices < MaxNotices
  /\ notices' = notices + 1
  /\ writing' = [writing EXCEPT ![n] = Message("notice", 1)]
  /\ told' = IF n = Own THEN told + 1 ELSE told
  /\ UNCHANGED <<inbox, requests, registered, connection, req, reader, reqLock>>

\* One write of send_msg or push_notification.  A notifier gives up when the
\* descriptor has been closed.
Write(w) ==
  /\ writing[w] # <<>>
  /\ IF connection = "closed"
     THEN writing' = [writing EXCEPT ![w] = <<>>] /\ UNCHANGED inbox
     ELSE /\ inbox' = Append(inbox, Head(writing[w]))
          /\ writing' = [writing EXCEPT ![w] = Tail(@)]
  /\ UNCHANGED <<requests, told, registered, connection, req, reader, reqLock, notices>>

\* The loop of handle_client has ended.
Close ==
  /\ connection = "closing" /\ writing["worker"] = <<>>
  /\ connection' = "closed"
  /\ UNCHANGED <<inbox, requests, writing, told, registered, req, reader, reqLock, notices>>

-----------------------------------------------------------------------------
(* The client's end *)

Goto(t, label) == reader' = [reader EXCEPT ![t] = At(label)]

\* The menus: login first, then whatever the user chooses.
Choose ==
  /\ reader["main"].pc = "menu"
  /\ req' \in IF reader["listener"].pc = "off" THEN {"login"} ELSE Requests \ {"login"}
  /\ Goto("main", "lock")
  /\ UNCHANGED <<inbox, server, reqLock>>

\* do_login, view_auctions, ...: lock req_lock, send_msg.
Send ==
  /\ reader["main"].pc = "lock"
  /\ reqLock = "nobody"
  /\ reqLock' = "main"
  /\ requests' = Append(requests, req)
  /\ Goto("main", "head")
  /\ UNCHANGED <<inbox, writing, told, registered, connection, notices, req>>

\* listener_thread: select finds something to read, the end of file included.
Select ==
  /\ reader["listener"].pc = "loop"
  /\ reader["main"].pc # "ended"
  /\ inbox # <<>> \/ connection = "closed"
  /\ Goto("listener", "try")
  /\ UNCHANGED <<inbox, server, req, reqLock>>

\* Mutant: the result of the trylock is not looked at.
TryLockIgnored ==
  /\ reader["listener"].pc = "try"
  /\ reqLock' = "listener"
  /\ Goto("listener", "head")
  /\ UNCHANGED <<inbox, server, req>>

\* "If main thread is doing a request, skip this cycle."
TryLock ==
  /\ reader["listener"].pc = "try"
  /\ IF reqLock = "nobody"
     THEN reqLock' = "listener" /\ Goto("listener", "head")
     ELSE Goto("listener", "loop") /\ UNCHANGED reqLock
  /\ UNCHANGED <<inbox, server, req>>

\* while (logged_in)
ListenerEnds ==
  /\ reader["listener"].pc = "loop"
  /\ reader["main"].pc = "ended"
  /\ Goto("listener", "ended")
  /\ UNCHANGED <<inbox, server, req, reqLock>>

\* The message whose header is word has been read and req_lock is released.
\* A login that finds status ERR_OK starts the listener thread; what the
\* client does on its closed socket after a logout is not modelled.
Received(t, word) ==
  LET done(label) == [At(label) EXCEPT !.word = word] IN
  /\ reqLock' = "nobody"
  /\ reader' =
       CASE t = "listener" -> [reader EXCEPT ![t] = done("loop")]
         [] t = "main" /\ req = "login" /\ (word.of = "notice" \/ word.left > 0) ->
              [reader EXCEPT ![t] = done("menu"), !["listener"] = At("loop")]
         [] OTHER ->
              [reader EXCEPT ![t] = done(IF req = "logout" THEN "ended" ELSE "menu")]

\* What a thread makes of bytes that are not what it takes them for is not
\* modelled: it is lost.
Lost(t) == Goto(t, "lost") /\ UNCHANGED reqLock

\* Mutant: the payload is not capped at the size of the buffer.
ReadHeadUncapped(t) ==
  /\ reader[t].pc = "head" /\ inbox # <<>>
  /\ LET word == Head(inbox) IN
       CASE ~word.head                 -> Lost(t)
         [] word.head /\ word.left = 0 -> Received(t, word)
         [] OTHER -> /\ reader' = [reader EXCEPT ![t] =
                          [pc |-> "body", word |-> word, want |-> word.left]]
                     /\ UNCHANGED reqLock
  /\ inbox' = Tail(inbox)
  /\ UNCHANGED <<server, req>>

\* recv_msg: the header, and how much of the payload fits into the buffer.
ReadHead(t) ==
  /\ reader[t].pc = "head" /\ inbox # <<>>
  /\ LET word == Head(inbox)
         want == IF word.left < MaxRoom(t) THEN word.left ELSE MaxRoom(t) IN
       CASE ~word.head              -> Lost(t)
         [] word.head /\ want = 0   -> Received(t, word)
         [] OTHER -> /\ reader' = [reader EXCEPT ![t] =
                          [pc |-> "body", word |-> word, want |-> want]]
                     /\ UNCHANGED reqLock
  /\ inbox' = Tail(inbox)
  /\ UNCHANGED <<server, req>>

\* ... and the payload, piece by piece.
ReadBody(t) ==
  /\ reader[t].pc = "body" /\ inbox # <<>>
  /\ LET r == reader[t]
         word == Head(inbox) IN
       CASE word.head \/ word.of # r.word.of -> Lost(t)
         [] ~word.head /\ word.of = r.word.of /\ r.want = 1 -> Received(t, r.word)
         [] OTHER -> /\ reader' = [reader EXCEPT ![t].want = @ - 1]
                     /\ UNCHANGED reqLock
  /\ inbox' = Tail(inbox)
  /\ UNCHANGED <<server, req>>

\* recv_msg fails on a closed connection: the listener leaves its loop.
ListenerEof ==
  /\ reader["listener"].pc \in {"head", "body"}
  /\ inbox = <<>> /\ connection = "closed"
  /\ reqLock' = "nobody"
  /\ Goto("listener", "ended")
  /\ UNCHANGED <<inbox, server, req>>

-----------------------------------------------------------------------------
(* What the protocol does not survive: a notification in the socket while  *)
(* the main thread waits for an answer (nobody looks at the message type), *)
(* and two threads of the server in the middle of a message.               *)

AwaitingAnswer == reader["main"].pc \in {"head", "body"}
Midway(w) == writing[w] # <<>> /\ ~Head(writing[w]).head

Disturbance ==
  \/ AwaitingAnswer /\ \E i \in DOMAIN inbox : inbox[i].of = "notice"
  \/ \E v, w \in Writers : v # w /\ Midway(v) /\ Midway(w)

ServerStep == Serve \/ Close \/ \E w \in Writers : Write(w)
MainStep == ReadHead("main") \/ ReadBody("main")
ListenerStep ==
  \/ Select \/ TryLock \/ ListenerEnds \/ ListenerEof
  \/ ReadHead("listener") \/ ReadBody("listener")

WireNext ==
  /\ \/ ServerStep \/ Choose \/ Send \/ MainStep \/ ListenerStep
     \/ \E n \in Notifiers : Push(n)
  /\ crossed' = (crossed \/ Disturbance')

WireSpec == WireInit /\ [][WireNext]_wireVars

\* The threads of both processes run; req_lock, when it is free again and
\* again, is had in the end.
Fairness ==
  /\ WF_wireVars(Serve /\ WireNext) /\ WF_wireVars(Close /\ WireNext)
  /\ \A w \in Writers : WF_wireVars(Write(w) /\ WireNext)
  /\ SF_wireVars(Send /\ WireNext)
  /\ WF_wireVars(MainStep /\ WireNext) /\ WF_wireVars(ListenerStep /\ WireNext)

FairSpec == WireSpec /\ Fairness

-----------------------------------------------------------------------------
(* Properties *)

\* "Listener thread also reads the same socket and steals the response": as
\* long as no notification crosses a request, the main thread gets the
\* answer to the request it has sent, the listener nothing but
\* notifications, and both find headers where they read headers.
AnswersMatched ==
  ~crossed =>
    /\ \A t \in Readers : reader[t].pc # "lost"
    /\ reader["main"].word # NoWord => reader["main"].word.of = req
    /\ reader["listener"].word.of = "notice"

\* The client never waits for what nobody is going to write: whatever
\* crosses, while the main thread is inside recv_msg its request, or words of
\* an answer, are still on their way.  Every handler answers, each answer is
\* as long as its header says, and nothing asked before the logout is dropped
\* with the connection.  Notifications do not count.
AnswerUnderway ==
  AwaitingAnswer =>
    \/ requests # <<>>
    \/ writing["worker"] # <<>>
    \/ \E i \in DOMAIN inbox : inbox[i].of # "notice"

\* "Main thread waits forever -> hang": whatever crosses, a request that was
\* sent ends in some answer, unless the stream has become unreadable.
MainAnswered == AwaitingAnswer ~> (~AwaitingAnswer \/ reader["main"].pc = "lost")

-----------------------------------------------------------------------------
(* What comments say of every behaviour *)

\* client.c: "Uses trylock so it never interferes with main thread I/O."
NeverInterferes == reader["main"].pc = "lock" ~> reader["main"].pc # "lock"
=============================================================================
