# A TLA+ model of the online auction system

The system is a C server (`server/`), a terminal client (`client/client.c`) and
a seeding tool, over files of fixed-size records (`users.dat`, `auctions.dat`,
`bids.dat`, `sessions.dat`, `disputes.dat`, `feedback.dat`) and a text log
(`txn.log`).  One accept loop hands connections to eight worker threads, each
of which serves one client until it leaves; a timer thread closes expired
auctions.  Nothing is kept in memory between requests but the session copy of
the user, the auction semaphores, the wallet mutexes and the notification
registry, so all the difficulty lies in threads that read a record, decide, and
write it back while others do the same.

## 1. Inventory

| Component | Source | State | Operations | What is hard | What makes it correct |
|---|---|---|---|---|---|
| Wallet calls | `wallet.c` | `wallet_balance`, `wallet_hold` in `users.dat`; 64 mutexes | `place_hold`, `release_hold`, `settle_payment`, `credit_wallet`, `handle_deposit` | read and write are separate; users share mutexes; early returns | each call atomic, hold never above balance, every call returns |
| Bidding | `bid_handler.c` | `auctions.dat`, `bids.dat`, a semaphore per auction | `handle_place_bid` | funds checked before the wait, return codes ignored, three writes per bid | bids rise, holds match standing bids |
| Closing | `auction_engine.c` | `auctions.dat`, `txn.log`, the timer's array | `handle_create_auction`, `handle_close_auction`, `timer_thread`, `close_auction_internal` | closes do not take the semaphore; three closers; a kill between the writes | closed stays closed, money conserved, expired auctions closed |
| Thread pool | `server.c` | `wq` (ring, count), condition variable | `enqueue_client`, `dequeue_client`, `worker_thread` | wake-ups, wrap-around, the ninth client | FIFO, no lost wake-up, everyone served |
| Sessions | `auth.c`, `server.c`, `notify.c` | `sessions.dat`, `current_user`, `authenticated`, registry | login, logout, clean-up of a connection | clean-up runs without `auth_lock`, and after a logout once more | one session per user, none without its connection |
| Disputes | `dispute.c` | `disputes.dat`, auction status, wallets | file, resolve | reads and writes without a lock over the whole handler | at most one refund, status agrees with disputes, money accounted for |
| Accounts | `auth.c`, `admin.c`, `dispute.c` | whole `User` records | login's `last_login`, change password, change role, toggle account, add user | whole records written back from old copies | no decision about another field is lost, an admin remains, names are unique |
| Notifications | `notify.c` | registry, sockets | `notify_outbid`, `notify_auction_won`, `notify_auction_closed` over `push_notification` | descriptor used after the lock; two writes per message, into a socket a worker also writes to | a lookup finds the user's own connection; messages are not mixed |
| Client | `client.c` | `req_lock`, one socket, two threads | requests of the menus, `listener_thread` | nobody looks at the message type; `select`, `trylock` and a blocking read are three steps | each request gets its own answer, and gets one |
| Feedback | `bid_handler.c`, `dispute.c` | `feedback.dat` | submit, view | two passes over the file, a list of 256 | nothing is marked reviewed unseen |
| Record files | `file_io.h` | the files, one mutex copy per source file | read, write, append, next id | ids from the file size, before the write | what was confirmed stays on file |
| Transport | `server.c` | – | `send_msg`, `recv_msg` | header and payload are separate calls; buffers cap the payload | framing survives |
| Data model, seeding tool | `models.h`, `seed_admin.c` | – | types; the first admin | – | – |

How they interact: the accept loop passes descriptors to workers through the
ring; workers call the handlers; bidding, closing, disputes and deposits call
`wallet.c`; login and logout maintain the registry that bidding and closing use
to notify.  Everything else is shared through the files.

`PROJECT.json` lists the hazards line by line, with the properties that cover
them or the reason why none does.

## 2. Modules

| Module | Models | Role |
|---|---|---|
| `Wallet` | the arithmetic and guards of one wallet call | operators only, used by all that touch money |
| `WalletStore` | what callers of `wallet.c` rely on: atomic calls | abstract specification |
| `WalletLocks` | the mutexes, the reads and writes of `wallet.c` | implements `WalletStore` |
| `AuctionHouse` | bidding, closing, timer, deposits, clock, kill and restart | the core |
| `ConnectionQueue` | a FIFO of connections served by workers | abstract specification |
| `WorkQueue` | ring, mutex and condition variable of the thread pool | implements `ConnectionQueue` |
| `Sessions` | login, logout, clean-up, registry, restart | |
| `Disputes` | filing and resolving disputes, refunds | |
| `Accounts` | `users.dat` as whole records and all that write them | the other writers beside the wallet calls |
| `Wire` | one client's socket: main thread, listener, worker, notifiers | |
| `Records` | creating auctions, submitting and viewing feedback | |
| `MC*` | the constants of the small instances | model checking |
| `*Proofs` | theorems and their proofs | TLAPS |

`WorkQueueProofs` extends both `WorkQueue` and `Wire`: together they are the way
of a connection, from the pool that hands it to a worker to what worker and
client say on it.  That is why the initial predicate, the next-state relation
and the like are called `WireInit`, `WireNext`, ... in `Wire`.

Steps.  In `WalletLocks`, `Sessions`, `Disputes`, `Accounts` and `Records` one
access to a file is one step, because `read_user`, `write_session` and the like
are one system call under a file mutex; in `Wire` it is one `write` or `read` of
a header or of a part of a payload.  `AuctionHouse` and `Disputes` take a whole wallet call as
one step; `WalletLocks` and the theorem `CallsAtomic` are the reason why they
may, as far as wallet calls among themselves are concerned.  A request that is
refused without writing anything is a stuttering step.

Correspondence.  `pc` names the place of a thread in its handler; `req` and
`seen` of `AuctionHouse` are the request and the local `Auction a`, `copy` of
`WalletLocks` the local `User u`, `doc` of `Disputes` the local `Dispute d`,
`current`, `authenticated` and `found` of `Sessions` the locals of
`handle_client` (`authenticated` and `current` are set when `handle_login` returns,
a step after it has registered the client), `me` of `Accounts` is `current_user`, `task` of `Accounts` and
`Records` holds what a handler keeps in locals, `reader` of `Wire` is the place
of a thread in `recv_msg`.  Amounts are integers: the code uses doubles, and no property
is about fractions.  History variables (`raced`, `doubled`, `torn`, `disturbed`, `overtaken`,
`deposited`, `crashes`, `refunds`, `calls`, `intended`, `writes`, `confirmed`,
`clashed`, `quiet`, `crossed`, `notices`) are read by properties and bounds
only.  `told` of `Wire` is the place of the client's own worker in
`close_auction_internal`.
`anomalies` keeps which auctions the `REFUND_ANOMALY` lines were about; the
lines themselves do not name them.

Definitions whose comment begins with "Mutant:" are variants of a step with a
plausible bug; no specification uses them.  They document which bug each
property would catch (`PROJECT.json`, "mutants").

What `raced`, `disturbed` and their like stand for.  The code orders some pairs of
threads and leaves others unordered.  Properties that hold always are stated
without a premise.  Where the code leaves two threads unordered, the stronger
property is stated for behaviours in which they have not met.  What counts as a
meeting is defined from what the threads are doing, never from whether it did
harm:

* `AuctionHouse!raced`: a closing and a bidding thread are both between the last
  read and the write of one auction; `doubled`: two closing threads are;
  `torn`: a kill after the outbid bidder's money was released and before the
  new bid is on file.
* `Disputes!raced`: two requests at work on one auction, two filings, or two
  refunds of one seller.
* `Sessions!disturbed`: a restart, a login on a connection already logged in, a
  login while an older connection of the user is being cleaned up.
* `Accounts!disturbed`: a thread writes a record that another thread has read in
  order to write it too (two wallet calls excepted, which the mutex has to keep
  apart); a session's copy is written although somebody else has written the
  record since (`overtaken`); two threads that both add a user, or demote an
  admin.  One's own deposit does not overtake one's session, since
  `handle_deposit` reads the record again.
* `Records!clashed`: the numbers that two creations have taken at a time;
  `quiet`: the feedback that came while nobody was viewing and found room on the
  list.
* `Wire!crossed`: a notification in the socket while the main thread waits, two
  threads of the server in the middle of a message.

The price of this is that each such property excludes a hazard that is real, and
does not find it.  `MoneyConservedUndisturbed`, `NoMoneyCreatedByKill` and
`HoldsExact` say nothing of two closes of one auction, `ClosedIsFinal` nothing of
a bid in the window of a close, `RegistryFresh` and `LoggedInHasSession` nothing
of an entry or a slot that the clean-up of an older connection takes away,
`RefundsAccounted` nothing of the debit refused between check and use.
`NoDecisionLost` says nothing of the updates that login, change of role and toggle
lose in a race, and an old session's change of password without one,
`AdminRemains` nothing of two scans at once, `NamesUnique` nothing of two
additions at once, `AnswersMatched` nothing of a notification before an answer,
`ListingsKept` nothing of a number taken twice, `QuietIsListed` nothing of
feedback that comes too late or is too much for the list.  All of these happen in
the models, and section 6 tells what follows.  What is stated without a premise
about overlaps (`BidsRise`, `PriceNeverFallsWhileOpen`, `NoMoneyLost`,
`WalletsSound`, `OneSlotPerUser`, `AnswerUnderway`, `MainAnswered`, the types and
the refinements) is what the code guarantees through them all.

## 3. Runs

| Run | Instance | What it shows |
|---|---|---|
| `wallet_locks` | 3 users on 2 buckets, 3 threads, 3 calls, jobs that overdraw, over-release and name user 0 | no lost update, no wallet with more on hold than in it or with a negative field, every call atomic (refinement of `WalletStore`) and returning |
| `house` | 2 auctions, the second with a reserve, 2 bidders with 4 and 2, seller, timer, 1 kill; on the second auction alone also the admin or 1 deposit, and what follows an overlap or a torn bid (`CONSTRAINT OrderlyOrOneAuction`) | under every overlap: bids in `bids.dat` rise, the price of an open auction does not fall, and without a kill no money is lost, however often an auction is settled; unless a bid overlaps a close: a closed auction stays as it is, closes that overlap each other included; without overlaps: a bidder's hold is the sum of his standing bids, neither `place_hold` nor `settle_payment` is ever refused although nobody looks at their return codes, money is conserved, and a kill never pays a price twice |
| `house_kill` (violation) | 2 auctions without a reserve, bidders with 3 and 2, 1 kill; an overlap ends a behaviour | a kill in the middle of a bid leaves a standing bid that nothing covers, and its settlement creates money |
| `house_live` | 2 auctions on one semaphore, timer array of 1 | each expired auction is closed, with nothing but a running timer and notified clients that read, wherever workers stall; each bid that waits for the semaphore returns if workers run |
| `house_settling` (violation) | as `house`, smaller | a bid lands during settlement: `close_auction_internal` takes no semaphore |
| `queue` | ring of 2, 2 workers, 4 descriptors | FIFO (refinement of `ConnectionQueue`), no connection left while workers sleep, everyone is served if clients leave |
| `sessions` | 3 users, 3 connections, 2 slots, 1 kill | one session per user always; undisturbed, session, registry and connection belong together, so that a notifier's lookup finds the user's own open connection |
| `disputes` | 2 auctions of one seller who can return one price, one sold, one closed without a bid; 2 bidders, 2 moderators, 2 disputes | status, refunds and money agree in requests that do not overlap |
| `accounts` | 2 connections and the timer, the seeded admin, 3 names, 2 passwords, 2 roles, 5 writes | always: wallets stay sound; undisturbed: the file is what the decisions on it add up to, each for its field and wallet calls by their amounts, an admin remains, names are unique |
| `wire` | 4 requests with answers of 0 to 2 words, one of them a close that notifies its own client, the timer as another notifier, 3 notifications | undisturbed: framing holds, answers go to the main thread and notifications to the listener; always: a main thread that waits has its request or words of an answer before it, and a request that was sent is answered, or the stream has become unreadable |
| `records` | 3 threads, 2 items, 2 auctions, a list of 2, 3 records of feedback, kills | a confirmed auction stays on file unless its number was taken twice; feedback that came while nobody viewed is marked only by a pass that lists it |
| `client_freeze` (violation) | as `wire`, no notification at all | the listener keeps `req_lock` while it blocks in `recv_msg`: the main thread's next request waits for ever |

Deadlock is checked in `queue` and `sessions`, which never stop.  The other
runs say `CHECK_DEADLOCK FALSE` because their bounds end them: all auctions are
closed and deposits used up, all calls made, all disputes filed and decided, all writes
done, the client gone, all records created.

Why the bounds are enough.  Two auctions are needed for one bidder's money to
be wanted twice; with amounts 2 and 3 and funds of 4 and 2 one bidder can lead
both auctions but not with a bid of 3, and the other can lead one, so that
bids are refused, outbid and unaffordable.  An overlap is one of threads at work
on one auction, so that one auction with three closers shows every pair of
them; the properties of orderly behaviours say nothing once it has happened.  The reserve of 3 is met by one amount only.  The damage of a torn bid needs
two auctions: one to be left uncovered and one to spend the money on; with a
single auction TLC finds no kill that creates money.  A ring of
two with four descriptors wraps, fills and drains.  Three users for two slots
fill the session file.  Two disputes suffice to dispute an auction again after
it was rejected or while it is granted.  Five writes to `users.dat` are enough
to add a user, promote him, let him log in, and have two admins act on each
other.  Three notifications let one wait in the socket while two are being
written; an answer of two words can be cut into by a notification.  A list of
two entries and three records of feedback fill the list, append behind it and
view again, with a record on the list before the one in question.  All numbers that only bound
(`MaxCalls`, `MaxDeposits`, `MaxCrashes`, `MaxDisputes`, `MaxWrites`,
`MaxNotices`, `MaxListings`, `MaxFeedback`, `Amounts`, `NewRoles`) are marked
"bound" where they are declared.  Larger instances were run while the
model was written (3 auctions and 3 disputes with one moderator, bidders
with 5 and 3 on 2 auctions with a kill, second logins with 3 users on 2 connections) with the same
results.  Symmetry is used for `Sessions`, `Accounts` and
`Records`, in runs without liveness properties.

## 4. Fairness

* `WalletLocks!Fairness`: a running thread keeps running, and a thread that
  waits for a mutex that is released over and over gets it (strong fairness of
  `Lock`; the default mutex of pthreads promises it only in practice).
* `AuctionHouse!TimerFairness`: the timer loop runs for ever with a sleep of a
  second, so it is weakly fair, but for one place: `close_auction_internal` ends
  in `push_notification`, whose `write` blocks when the client's socket is full
  (`notify.c:158`).  `CloseNotify` is therefore outside of it.  `TimerSpec`, which
  `house_live` runs, assumes this much and nothing of workers, clients or the
  clock.
* `AuctionHouse!NotifiedClientsRead`: the timer's notifications come to an end.
  The code does not guarantee it; it is the premise of `ExpiredIsClosed`, which
  so says that nothing else keeps an expired auction open.
* `AuctionHouse!WorkerFairness`: a worker finishes the handler it is in
  and gets a semaphore that is posted over and over (strong fairness of
  `BidEnter`).  It is the premise of `BidsReturn`, and not of `ExpiredIsClosed`.
  It does not take in notifications: in `handle_place_bid` they come after
  `sem_post`, and a close holds no semaphore.
* `Wire!Fairness`: the threads of both processes keep running, and the main
  thread gets a `req_lock` that is released over and over (strong fairness of
  `Send`).  That the user chooses another request, or that anybody notifies him,
  is not assumed; a thread that blocks in `read` is not helped by fairness.
* `WorkQueue!WorkersRun`: a worker that is not asleep gets the mutex.  That
  clients leave is not assumed; `EveryoneServed` states it as a premise.

## 5. Proofs

The theorems hold for every value of the constants that the named assumptions
admit: any number of users, threads, auctions, semaphores, buckets, prices and
kills.

* `WalletProofs`: a wallet call maps sound records to sound records
  (`OutcomeSound`); this needs no assumption on the amount but that it is an
  integer, because it follows from the guards of `apply_wallet_delta`.
* `WalletLocksProofs`: the inductive invariant is `TypeOK /\ LockInv`: a
  thread between lock and unlock holds the mutex of its user's bucket, and what
  it has read and decided still agrees with the file.  Neither part is
  inductive alone: that a write leaves natural numbers rests on the decision
  still being right.  `NoLostUpdate`, `WalletsStaySound` and the refinement
  `CallsAtomic` follow: `ReadUser` or `CheckFunds` that refuses, and
  `WriteUser`, are the instants at which the abstract call takes effect, all
  other steps stutter or begin or end a call.
* `AuctionHouseProofs`: `BiddingInv` is inductive under all races and kills.
  `BidsRise` alone is not: one has to know that a bidder inside the section is
  alone on his semaphore (`OneBidderPerSemaphore`), that the price of an
  open auction is not behind the log of bids (`OpenPriceCoversBids`), that a
  bid in its window beats both (`WindowBidBeatsAll`), and that the copy a
  closing thread will write, which may overwrite a newer price, is not ahead
  of a bid on its way (`ClosingCopyIsBehind`).  `BidsAlwaysRise`, `PriceHolds`
  and `TypeCorrect` are the consequences.
  `NoMoneyIsLost` too assumes nothing of overlaps: what `settle_payment` takes
  is the price in the closer's copy and thereby on its way to the seller, and a
  refused settlement takes nothing, so that no step but a kill lowers the sum.
  The properties of orderly behaviours rest on two more invariants.  `OrderInv`
  (`OrderHolds`): without an overlap one thread at a time is past its last read
  of an auction, its copy is the record on file, and an auction in settlement is
  closed on file, with one closer.  `ClosedIsFinal` allows closes to overlap
  and has an invariant of its own, `FinalInv` (`FinalHolds`): a closer's copy is
  the record on file but for an end that another closer has put to it, as long as
  no bid came in between.  `MoneyInv`
  (`MoneyHolds`) adds that the funds found at the check before the semaphore
  are still there at `place_hold` (`FundsStay`: a bidder makes one bid at a
  time, and only a bid takes funds away) and that a hold covers what stands
  in its owner's name (`HoldsCover`).  `HoldNeverRefused` and `SettlementFunded`
  need these in every orderly state, restarts included; `HoldsExact` and
  `MoneyConservedUndisturbed` are equalities up to the first kill, of which a
  kill in general leaves the inequalities `HoldsCover` and
  `NoMoneyCreatedByKill`.
* `AccountsProofs`: the inductive invariant `AccountsInv` says of the file that
  the four properties hold (`FileInv`), of a session that its copy is the record
  on file unless overtaken or about to be refreshed (`SessionInv`), of wallet
  calls for one user that the mutex keeps them apart (`CallsApart`), and of a
  thread between read and write (`TaskInv`) that its copy is a sound record and,
  undisturbed (`InOrder`), the record on file but for the field decided on, or for
  the amount of its wallet call, that a name about to be added is still unknown,
  and that a demotion about to be written leaves another active admin.  None of
  the properties is inductive without that: `NoDecisionLost` rests on
  `CallsApart` and on the refresh after a deposit, `AdminRemains` on ranks too, as
  a toggle never bans an admin.  `WalletsSound` uses neither: what is written
  back, however old, was once sound.
* `RecordsProofs`: `TypeInv`, `ListingInv` (a number that was taken once is still
  the next one when its record is written) and `FeedbackInv` (quiet feedback has
  fewer pending records before it than the list has room for, and every pass
  that has gone by it has it on its list while it is pending), from which
  `QuietStaysListed` follows.
* `SessionsProofs`: `OneSlotPerUser` with `CheckStillHolds`: a thread
  that creates a session holds `auth_lock` and its check still holds, since
  clean-ups, which ignore the lock, only erase.  The constants allow
  second logins on a connection and any number of restarts.  The properties of
  undisturbed behaviours rest on `TrackInv`: no two connections are engaged
  with one user from the creation of the session to the close
  (`OneConnPerUser`; the step that could break it is `LoginCreate`, and the
  check it rests on says that no other connection has a session, hence none is
  logged in), each session and each entry of the registry belongs to a
  connection that still has to end it, and whoever is logged in has both
  (`SessionTrack`, `EntryTrack`).  That the clean-up erases its own session and
  unregisters its own entry is a consequence: there is no other of that user.
  A free entry is found by the pigeonhole principle, from the assumption
  `RegistryHasRoom` that the registry has an entry for every worker (128 for
  8); with less room a login would succeed and not be listed.
* `DisputesProofs`: types, places and the absence of holds are invariant
  whatever overlaps; in orderly behaviours `OrderInv` says for each
  place of a filing or deciding thread what is on file for its auction,
  `RefundInv` ties the count of refunds to the granted dispute, `SellersCanPay`
  that the balance found at the check is still there at the debit, and
  `Accounted` the sum of the balances.  `RefundedOnce` is the part of
  `RefundInv` that says 0 or 1; alone it is not inductive, as it takes
  `OnePending` to know that a second dispute of a granted one cannot exist.
* `WorkQueueProofs`: `PoolInv` adds to the types that `rear` is `front + count`
  modulo the size and that the slots in between hold connections
  (`RingInv`), and `NoLostWakeup`.  With it each step of the ring maps to a step of
  `ConnectionQueue` or stutters: `RingIsAQueue`, a refinement for any number of
  workers and slots.
* `WorkQueueProofs`, of `Wire`, for answers and buffers of any size and any
  number of requests, notifiers and notifications.  `LockInv` (`ReqLockHolds`):
  `req_lock` is held exactly by the thread inside `recv_msg`, whatever comes
  through the socket.  `WireInv` (`StreamHolds`) describes an undisturbed
  stream: either the main thread waits, and there is its request and nothing
  else, or the `n` words of the answer that are still to be read, the first
  ones in the socket and the last ones with the worker, counting down to 0
  (`AnswerComing`); or it does not wait, and headers and payloads of
  notifications take turns, beginning with what the listener will read next and
  ending without a payload only while a notifier is between its two writes
  (`NoticesFramed`).  `AnswersAlwaysMatched` is a consequence; alone it is not
  inductive, as who reads what depends on all that is queued before it.
  `UnderwayInv` makes no use of `crossed`: in whatever stream, each word of an
  answer has the next word of that answer behind it, with at most notifications
  in between (`PayloadFollows`), and a main thread that looks for a header, or
  reads a notification in the place of its answer, has a whole answer or a
  request before it (`MainServed`).  With what a logout means for the connection
  (`LastRequestInv`) this gives `AnswerAlwaysUnderway`: the freeze of section 6,
  item 2, comes from the listener's lock, never from an answer that nobody
  writes.

Sums.  Money is a sum over users, auctions and closers of any number.  What the
library says of sums is defined by recursion over a set, and induction over
finite sets is not available to the prover as a rule; `WalletProofs` derives
what is needed (`SumUpdate`, `SumMonotone`: how a sum changes with one of its
summands, and that it grows with them) from the existence of a least
counterexample, with the cardinality of the set as its measure.  The assumptions
that users, auctions and closers are finitely many are for these sums.

Only model-checked: liveness under fairness (`CallsReturn`, `ExpiredIsClosed`,
`BidsReturn`, `EveryoneServed`, `MainAnswered`), which is out of the prover's
reach.  Every other property of a passing run is stated by a theorem.  Only
proved: the types of `WalletLocks`, of which `WalletsSound` repeats the part
that is about money.

## 6. What the model says about the code

1. `close_auction_internal` does not take the auction's semaphore, against the
   comment above it (`auction_engine.c:104`).  A bid or another close in
   its window can reopen a closed auction, settle it twice, or pay the seller
   without debiting the winner.  What survives such overlaps is proved:
   logged bids rise, the price of an open auction does not fall, and no money is
   lost but by a kill: a winner who is debited twice pays the seller twice.
2. The listener can freeze the client (`client.c:117-127`; run `client_freeze`).
   Its `select` is woken by the answer to the main thread's own request; if the
   main thread has read that answer and released `req_lock` before the `trylock`,
   the listener blocks in `recv_msg` with the lock in its hands, and the next
   request waits until a notification happens to arrive.
3. CLOSED reaches the file before the WAL entry, against "If we crash mid-way,
   log shows what to undo" (`auction_engine.c:101`): a sale killed between the
   two is neither settled nor logged, and nothing reads `txn.log` at start-up.
4. The clean-up after a logout runs a second time and outside `auth_lock`
   (`server.c:312`), so that it may erase the session of the user's next login
   and let one more in, against "one active session per user"
   (`src/README.md:49`).  A second login on one connection, whether it succeeds or
   fails, leaves the first session in `sessions.dat` for ever; the model has it
   (`Relogins`), and counts it as a disturbance.  So do sessions that
   a killed server leaves behind.
5. Disputes can be granted on auctions that were never settled
   (`dispute.c:33`, `dispute.c:184`), although "The winner already paid"
   (`dispute.c:170`); an auction without a bid refunds user 0, that is nobody,
   and debits the seller all the same.  Two moderators who resolve one dispute
   at once refund it twice, and two who debit one seller at once may both pass
   the check of his balance, in which case the refused debit is not flagged.
6. `change_password` writes the session's copy of the user (`auth.c:178`).  With
   one connection and no race, a bidder who logs in, bids and changes his
   password has his hold erased, and an admin who lowers his own role and
   then changes his password has it back.  Bans and role changes by others are
   undone the same way, and reach nobody who is logged in.  `login`
   (`auth.c:116`), `change_role` (`admin.c:162`) and `toggle_account`
   (`dispute.c:286`) do so only in a race, as do wallet calls to roles and
   statuses.
7. Two admins who demote each other at once are both counted, and none is left
   (`admin.c:153`).  Two overlapping `add_user` give two accounts one name, or
   one id and then one record (`admin.c:42-59`); two overlapping creations of
   auctions lose one listing whose seller was told it exists
   (`auction_engine.c:37`).
8. A client takes the next message in its socket for the answer
   (`client.c:175` and all the like), although `notify.c:29-31` has it check the
   type.  A notification that arrives first is taken for the answer, even
   for that of a login; every later answer is then one behind, and is cut by a
   buffer that is not meant for it, whereupon bytes are read as headers.  Two
   threads of the server that write to one socket at once have the same
   effect (`notify.c:158-166`).  For a seller who closes his own auction it takes
   no timing at all: his worker writes the notification of the close to his own
   socket before the answer (`auction_engine.c:87-88`), while his main thread
   holds `req_lock` and waits, and so takes the one for the other; every later
   answer is one behind.  "The notification will arrive later or be
   re-sent" (`client.c:122`) is not so: nothing is sent twice.
9. `handle_view_feedback` marks what no moderator has seen: feedback submitted
   between its passes, or beyond the 256 entries of its list
   (`dispute.c:249`), although `reviewed` means "seen by mod" (`models.h:116`).
   It marks before it sends and ignores the result (`dispute.c:260`), so that a
   moderator who has left, or a kill, loses the whole list with the marks in
   place.
10. A server killed in the middle of a bid (`bid_handler.c:147`), after the outbid
   bidder's money was released and before the new bid is on file, leaves the
   old bid standing with nothing on hold (run `house_kill`).  After the restart
   that bidder may bid the money on another auction; when both close,
   `settle_payment` refuses one of them, nobody looks at its return code, and
   the seller is credited all the same, against "No money created or lost"
   (`auction_engine.c:103`).  If the new bidder's money was frozen already, it
   stays frozen for ever.  That no other kill creates money is proved
   (`KillsCreateNoMoney`).

## 7. Assumptions of the model that the code does not enforce

* A user sends one request at a time.  With the double session of section 6,
  item 4, a user could run two bids at once; `HoldNeverRefused` is about users
  with one connection.
* In `WalletLocks`, `AuctionHouse` and `Disputes` `users.dat` is changed by
  wallet calls only.  In the code, login, password, role and status changes
  also write whole records, wallet fields included, from copies that may be old
  (`auth.c:116`, `auth.c:178`, `admin.c:162`,
  `dispute.c:286`), without the wallet mutex.  What `WalletLocks`,
  `AuctionHouse` and `Disputes` say about money does not hold against such a
  write; `Accounts` says what does: a restored record is a sound one, and
  nothing is lost unless threads meet at a record or an overtaken session copy is
  written.
* A record read or written is not torn, also across source files, whose copies
  of the file mutexes are different objects (`static` in `file_io.h`).
* In `Accounts` the check for a session, its registration and the write of
  `last_login` are one step; `Sessions` takes them apart.  Inactive and banned
  accounts are one status, as all code treats them alike.
* In `Wire` a buffer is never smaller than the answer it is declared for, and a
  refused request is answered by a bare header, as in all handlers.
* Files can be opened and written; a full disk is not modelled.
* Amounts are numbers.  They are doubles in the code, and a NaN passes every
  comparison of the guards (`wallet.c:62-71`, `wallet.c:109`), so that what is
  said of wallets does not hold of it.
* Names are atoms.  `handle_add_user` compares 32 characters and stores 31
  (`admin.c:48`, `admin.c:67`), so that two accounts could get one name of 31
  characters from requests with 32; the client reads at most 31
  (`client.c:72-75`).

## 8. Not modelled

* The reuse of a descriptor by another client between `lookup_fd` and the
  writes of `push_notification`: `RegistryFresh` speaks of the lookup only.  One
  would need the server's table of descriptors and several clients in `Wire`.
* What the client does after a logout on a socket the server has closed
  (`client.c:646` offers another login on it), and how it reads bytes that are
  not a header; `Wire` stops at "ended" and "lost".
* Torn reads and writes of records, full disks, the text of `txn.log`.
* `handle_delete_user` and `handle_modify_user`, to which no message is
  dispatched.  The handlers that only read (`view_*`, `list_users`) change
  nothing and no step depends on them.
* Running `seed_admin.c` again, which empties `users.dat`.
* Password hashes, menus and printing.

## 9. Plan

Done, in this order: `Wallet`, `WalletStore`, `WalletLocks`, `AuctionHouse`
with their proofs; `WorkQueue` over `ConnectionQueue`; `Sessions` with its
proof; `Disputes`; `Records` and `Accounts` with their proofs; `Wire`; the
proofs about money and order in `AuctionHouse`, about `Disputes`, the refinement
of `ConnectionQueue`, the undisturbed behaviours of `Sessions`, and both sides
of `Wire`.

Next:

1. `Wire` with several clients and a table of descriptors, composed with the
   registry of `Sessions`.
