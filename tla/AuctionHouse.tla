---------------------------- MODULE AuctionHouse ----------------------------
(***************************************************************************)
(* Bidding and settlement: handle_place_bid (server/bid_handler.c), the    *)
(* manual close and the timer thread (server/auction_engine.c) and the     *)
(* deposits of server/wallet.c, run by concurrent worker threads over the  *)
(* records of auctions.dat, users.dat and bids.dat.                        *)
(*                                                                         *)
(* Every read or write of a record is a step of its own, and so is every   *)
(* wallet call (WalletLocks shows that wallet calls are atomic).  Between  *)
(* two steps of a handler the other threads, the clock and a crash of the  *)
(* server may come in.  A user has one session, so one request at a time.  *)
(* Requests the code refuses without changing anything are stuttering.     *)
(* Steps that write to a client's socket are left out but for the ones a   *)
(* closing thread makes last: they may block, and the timer with them.     *)
(***************************************************************************)
EXTENDS Wallet, Sequences, FiniteSets, Functions

CONSTANTS
  Bidders,            \* sessions with ROLE_BIDDER
  Auctioneers,        \* sessions with ROLE_AUCTIONEER or ROLE_ADMIN
  Admins,             \* those of Auctioneers that are ROLE_ADMIN
  Timer,              \* the timer thread
  NoBidder,           \* highest_bidder_id = 0
  Auctions,           \* auction ids, all listed and open at the start
  SellerOf,           \* seller_id of each auction
  ReserveOf,          \* reserve_price of each auction, 0 for none
  StartPrice,         \* start_price, the first current_bid
  Semaphores,         \* MAX_AUCTIONS of bid_handler.c
  ExpiredCap,         \* the 64 of the timer's "expired" array
  Amounts,            \* bound: the amounts of bids and deposits
  InitialBalance,     \* users.dat when the run starts
  MaxDeposits,        \* bound: the sum of all deposits
  MaxCrashes          \* bound: how often the server is killed and restarted

Users == Bidders \cup Auctioneers
Closers == Auctioneers \cup {Timer}
Threads == Bidders \cup Closers

ASSUME AuctionHouseAssumption ==
  /\ IsFiniteSet(Bidders) /\ IsFiniteSet(Auctioneers) /\ IsFiniteSet(Auctions)
  /\ Bidders \cap Auctioneers = {}
  /\ Timer \notin Users
  /\ NoBidder \notin Users
  /\ Admins \subseteq Auctioneers
  /\ Auctions \subseteq Nat \ {0}
  /\ Auctions # {}
  /\ SellerOf \in [Auctions -> Auctioneers]
  /\ ReserveOf \in [Auctions -> Nat]
  /\ StartPrice \in [Auctions -> Nat \ {0}]
  /\ Semaphores \in Nat \ {0}
  /\ ExpiredCap \in Nat \ {0}
  /\ Amounts \subseteq Nat \ {0}
  /\ InitialBalance \in [Users -> Nat]
  /\ MaxDeposits \in Nat
  /\ MaxCrashes \in Nat

VARIABLES
  auction,            \* auctions.dat: [status, currentBid, highestBidder]
  wallet,             \* users.dat: the wallet fields of every user
  bids,               \* bids.dat: per auction, the bids in file order
  wal,                \* txn.log: the auctions with a WAL_SETTLE entry
  sem,                \* the value of every auction semaphore
  expired,            \* the auctions with end_time <= time(NULL)
  queue,              \* the timer's "expired" array, not yet processed
  pc,                 \* where each thread is
  req,                \* the auction and amount each thread works on
  seen,               \* each thread's local "Auction a"
  deposited,          \* history: the money deposited so far
  crashes,            \* history: the crashes so far
  raced,              \* history: a bid and a close overlapped on one auction
  doubled,            \* history: two closes overlapped on one auction
  torn                \* history: a kill hit a bid between two of its writes

vars == <<auction, wallet, bids, wal, sem, expired, queue,
          pc, req, seen, deposited, crashes, raced, doubled, torn>>

-----------------------------------------------------------------------------
(* State *)

Open == "open"
Closed == "closed"

AuctionRecord ==
  [status : {Open, Closed}, currentBid : Nat,
   highestBidder : Bidders \cup {NoBidder}]

BidRecord == [bidder : Bidders, amount : Nat]
Request == [auction : Auctions, amount : Nat]

\* get_auction_sem: ids that agree modulo MAX_AUCTIONS share a semaphore.
SemOf(a) == (a - 1) % Semaphores
SemSet == {SemOf(a) : a \in Auctions}

\* reserve_met of close_auction_internal.
ReserveMet(a, rec) == ReserveOf[a] = 0 \/ rec.currentBid >= ReserveOf[a]
HasSale(a, rec) == rec.highestBidder # NoBidder /\ ReserveMet(a, rec)

FirstListing(a) ==
  [status |-> Open, currentBid |-> StartPrice[a], highestBidder |-> NoBidder]

BidderLabels == {"idle", "funds", "sem", "reread", "release", "hold",
                 "write", "append"}
CloserLabels == {"idle", "close", "wal", "settle", "credit", "unhold",
                 "notify"}

TypeOK ==
  /\ auction \in [Auctions -> AuctionRecord]
  /\ wallet \in [Users -> WalletRecord]
  /\ bids \in [Auctions -> Seq(BidRecord)]
  /\ wal \subseteq Auctions
  /\ sem \in [SemSet -> Nat]
  /\ expired \subseteq Auctions
  /\ queue \subseteq Auctions
  /\ pc \in [Threads -> BidderLabels \cup CloserLabels]
  /\ \A b \in Bidders : pc[b] \in BidderLabels
  /\ \A c \in Closers : pc[c] \in CloserLabels
  /\ req \in [Threads -> Request]
  /\ seen \in [Threads -> AuctionRecord]
  /\ deposited \in Nat
  /\ crashes \in Nat
  /\ raced \in BOOLEAN
  /\ doubled \in BOOLEAN
  /\ torn \in BOOLEAN

\* The locals of a thread that has no request.
SomeAuction == CHOOSE a \in Auctions : TRUE
NoRequest == [auction |-> SomeAuction, amount |-> 0]
NothingSeen == FirstListing(SomeAuction)

Init ==
  /\ auction = [a \in Auctions |-> FirstListing(a)]
  /\ wallet = [u \in Users |-> [balance |-> InitialBalance[u], hold |-> 0]]
  /\ bids = [a \in Auctions |-> <<>>]
  /\ wal = {}
  /\ sem = [s \in SemSet |-> 1]
  /\ expired = {}
  /\ queue = {}
  /\ pc = [t \in Threads |-> "idle"]
  /\ req = [t \in Threads |-> NoRequest]
  /\ seen = [t \in Threads |-> NothingSeen]
  /\ deposited = 0
  /\ crashes = 0
  /\ raced = FALSE
  /\ doubled = FALSE
  /\ torn = FALSE

Goto(t, label) == pc' = [pc EXCEPT ![t] = label]

\* What a thread kept in locals is of no use any more.
Leave(t, label) ==
  /\ Goto(t, label)
  /\ req' = [req EXCEPT ![t] = NoRequest]
  /\ seen' = [seen EXCEPT ![t] = NothingSeen]

Return(t) == Leave(t, "idle")

SemPost(a) == sem' = [sem EXCEPT ![SemOf(a)] = @ + 1]

\* A wallet call; user ids without a record are refused by read_user.
WalletCall(op, user, amount) ==
  wallet' = [wallet EXCEPT ![user] = Outcome(op, @, amount)]

-----------------------------------------------------------------------------
(* handle_place_bid *)

\* Step 1: peek at the auction without any lock.
BidPeek(b) ==
  /\ pc[b] = "idle"
  /\ \E a \in Auctions, n \in Amounts :
       /\ auction[a].status = Open
       /\ req' = [req EXCEPT ![b] = [auction |-> a, amount |-> n]]
  /\ Goto(b, "funds")
  /\ UNCHANGED <<auction, wallet, bids, wal, sem, expired, queue,
                 seen, deposited, crashes>>

\* Mutant: the funds check is dropped, as place_hold checks again anyway.
BidFundsUnchecked(b) ==
  /\ pc[b] = "funds"
  /\ Goto(b, "sem")
  /\ UNCHANGED <<auction, wallet, bids, wal, sem, expired, queue,
                 req, seen, deposited, crashes>>

\* Mutant: the funds check looks at the balance instead of what is available.
BidFundsFromBalance(b) ==
  /\ pc[b] = "funds"
  /\ IF req[b].amount > wallet[b].balance
     THEN Return(b)
     ELSE Goto(b, "sem") /\ UNCHANGED <<req, seen>>
  /\ UNCHANGED <<auction, wallet, bids, wal, sem, expired, queue,
                 deposited, crashes>>

\* Step 2: the optimistic check of the bidder's own funds.
BidCheckFunds(b) ==
  /\ pc[b] = "funds"
  /\ IF req[b].amount > Available(wallet[b])
     THEN Return(b)
     ELSE Goto(b, "sem") /\ UNCHANGED <<req, seen>>
  /\ UNCHANGED <<auction, wallet, bids, wal, sem, expired, queue,
                 deposited, crashes>>

\* Mutant: sem_trywait instead of sem_wait, and its result is not looked at.
BidEnterUnguarded(b) ==
  /\ pc[b] = "sem"
  /\ sem' = [sem EXCEPT ![SemOf(req[b].auction)] = IF @ > 0 THEN @ - 1 ELSE 0]
  /\ Goto(b, "reread")
  /\ UNCHANGED <<auction, wallet, bids, wal, expired, queue,
                 req, seen, deposited, crashes>>

\* Step 3: sem_wait on the auction's semaphore.
BidEnter(b) ==
  LET s == SemOf(req[b].auction) IN
  /\ pc[b] = "sem"
  /\ sem[s] > 0
  /\ sem' = [sem EXCEPT ![s] = @ - 1]
  /\ Goto(b, "reread")
  /\ UNCHANGED <<auction, wallet, bids, wal, expired, queue,
                 req, seen, deposited, crashes>>

\* Mutant: the price is not compared again inside the critical section.
BidAdmissibleIfOpen(b, rec) == rec.status = Open

\* Mutant: the status is not looked at again inside the critical section.
BidAdmissibleIfHigher(b, rec) == req[b].amount > rec.currentBid

\* The reread inside the critical section and its two checks; a refused bid
\* posts the semaphore and returns.
BidAdmissible(b, rec) ==
  /\ rec.status = Open
  /\ req[b].amount > rec.currentBid

\* Mutant: a refused bid returns without posting the semaphore.
BidRereadKeepsSemaphore(b) ==
  LET a == req[b].auction
      rec == auction[a] IN
  /\ pc[b] = "reread"
  /\ IF BidAdmissible(b, rec)
     THEN /\ seen' = [seen EXCEPT ![b] = rec]
          /\ Goto(b, IF rec.highestBidder = NoBidder THEN "hold" ELSE "release")
          /\ UNCHANGED req
     ELSE Return(b)
  /\ UNCHANGED <<auction, wallet, bids, wal, sem, expired, queue,
                 deposited, crashes>>

BidReread(b) ==
  LET a == req[b].auction
      rec == auction[a] IN
  /\ pc[b] = "reread"
  /\ IF BidAdmissible(b, rec)
     THEN /\ seen' = [seen EXCEPT ![b] = rec]
          /\ Goto(b, IF rec.highestBidder = NoBidder THEN "hold" ELSE "release")
          /\ UNCHANGED <<req, sem>>
     ELSE Return(b) /\ SemPost(a)
  /\ UNCHANGED <<auction, wallet, bids, wal, expired, queue,
                 deposited, crashes>>

\* Mutant: the money is released to the new bidder instead of the outbid one.
BidReleaseOwn(b) ==
  /\ pc[b] = "release"
  /\ WalletCall("release", b, seen[b].currentBid)
  /\ Goto(b, "hold")
  /\ UNCHANGED <<auction, bids, wal, sem, expired, queue,
                 req, seen, deposited, crashes>>

\* Step 4, first half: unfreeze the previous highest bidder's money.
BidReleasePrevious(b) ==
  /\ pc[b] = "release"
  /\ WalletCall("release", seen[b].highestBidder, seen[b].currentBid)
  /\ Goto(b, "hold")
  /\ UNCHANGED <<auction, bids, wal, sem, expired, queue,
                 req, seen, deposited, crashes>>

\* Step 4, second half: place_hold, whose return code is not looked at.
BidPlaceHold(b) ==
  /\ pc[b] = "hold"
  /\ WalletCall("hold", b, req[b].amount)
  /\ Goto(b, "write")
  /\ UNCHANGED <<auction, bids, wal, sem, expired, queue,
                 req, seen, deposited, crashes>>

\* Step 5: the record as it was reread, with the new bid, replaces the one
\* on disk.
BidWriteAuction(b) ==
  /\ pc[b] = "write"
  /\ auction' = [auction EXCEPT ![req[b].auction] =
       [seen[b] EXCEPT !.currentBid = req[b].amount, !.highestBidder = b]]
  /\ Goto(b, "append")
  /\ UNCHANGED <<wallet, bids, wal, sem, expired, queue,
                 req, seen, deposited, crashes>>

\* Step 6: the bid goes to bids.dat and the semaphore is posted.
BidAppend(b) ==
  LET a == req[b].auction IN
  /\ pc[b] = "append"
  /\ bids' = [bids EXCEPT ![a] =
       Append(@, [bidder |-> b, amount |-> req[b].amount])]
  /\ SemPost(a)
  /\ Return(b)
  /\ UNCHANGED <<auction, wallet, wal, expired, queue, deposited, crashes>>

PlaceBidStep(b) ==
  \/ BidCheckFunds(b) \/ BidEnter(b) \/ BidReread(b) \/ BidReleasePrevious(b)
  \/ BidPlaceHold(b) \/ BidWriteAuction(b) \/ BidAppend(b)

-----------------------------------------------------------------------------
(* handle_close_auction, timer_thread and close_auction_internal *)

\* close_auction_internal starts on the record that was just read.
StartClose(c, a) ==
  /\ req' = [req EXCEPT ![c] = [auction |-> a, amount |-> 0]]
  /\ seen' = [seen EXCEPT ![c] = auction[a]]
  /\ Goto(c, "close")

\* The manual close: the seller, or an admin, of an auction still open.
CloseRequest(c) ==
  /\ pc[c] = "idle"
  /\ \E a \in Auctions :
       /\ SellerOf[a] = c \/ c \in Admins
       /\ auction[a].status = Open
       /\ StartClose(c, a)
  /\ UNCHANGED <<auction, wallet, bids, wal, sem, expired, queue,
                 deposited, crashes>>

\* Mutant: the scan does not leave out auctions that are closed already.
DueWhateverStatus == expired

\* The open auctions whose end has come, at most ExpiredCap of them, in
\* file order.  The scan is one step: every id it collects is read again.
Due == {a \in expired : auction[a].status = Open}
FirstDue(due) ==
  {a \in due : Cardinality({x \in due : x < a}) < ExpiredCap}

TimerScan ==
  /\ pc[Timer] = "idle" /\ queue = {}
  /\ Due # {}
  /\ queue' = FirstDue(Due)
  /\ UNCHANGED <<auction, wallet, bids, wal, sem, expired,
                 pc, req, seen, deposited, crashes>>

\* Mutant: the timer trusts its array and closes without looking again.
TimerNextUnchecked ==
  /\ pc[Timer] = "idle"
  /\ \E a \in queue :
       /\ \A x \in queue : a <= x
       /\ queue' = queue \ {a}
       /\ StartClose(Timer, a)
  /\ UNCHANGED <<auction, wallet, bids, wal, sem, expired,
                 deposited, crashes>>

\* The timer reads the next id of its array again and closes it if open.
TimerNext ==
  /\ pc[Timer] = "idle"
  /\ \E a \in queue :
       /\ \A x \in queue : a <= x
       /\ queue' = queue \ {a}
       /\ IF auction[a].status = Open THEN StartClose(Timer, a)
          ELSE UNCHANGED <<pc, req, seen>>
  /\ UNCHANGED <<auction, wallet, bids, wal, sem, expired,
                 deposited, crashes>>

\* The record as it was read, now CLOSED, replaces the one on disk; what
\* follows depends on that copy.
CloseWriteAuction(c) ==
  LET a == req[c].auction IN
  /\ pc[c] = "close"
  /\ auction' = [auction EXCEPT ![a] = [seen[c] EXCEPT !.status = Closed]]
  /\ IF HasSale(a, seen[c])
     THEN Goto(c, "wal") /\ UNCHANGED <<req, seen>>
     ELSE IF seen[c].highestBidder # NoBidder
          THEN Goto(c, "unhold") /\ UNCHANGED <<req, seen>>
          ELSE Leave(c, "notify")
  /\ UNCHANGED <<wallet, bids, wal, sem, expired, queue, deposited, crashes>>

CloseLog(c) ==
  /\ pc[c] = "wal"
  /\ wal' = wal \cup {req[c].auction}
  /\ Goto(c, "settle")
  /\ UNCHANGED <<auction, wallet, bids, sem, expired, queue,
                 req, seen, deposited, crashes>>

\* Mutant: the winner's hold is released but the balance is not debited.
CloseReleaseInstead(c) ==
  /\ pc[c] = "settle"
  /\ WalletCall("release", seen[c].highestBidder, seen[c].currentBid)
  /\ Goto(c, "credit")
  /\ UNCHANGED <<auction, bids, wal, sem, expired, queue,
                 req, seen, deposited, crashes>>

\* settle_payment on the winner, whose return code is not looked at.
CloseSettle(c) ==
  /\ pc[c] = "settle"
  /\ WalletCall("settle", seen[c].highestBidder, seen[c].currentBid)
  /\ Goto(c, "credit")
  /\ UNCHANGED <<auction, bids, wal, sem, expired, queue,
                 req, seen, deposited, crashes>>

\* Mutant: the seller is credited with the price on file.
CloseCreditOnFile(c) ==
  LET a == req[c].auction IN
  /\ pc[c] = "credit"
  /\ WalletCall("credit", SellerOf[a], auction[a].currentBid)
  /\ Leave(c, "notify")
  /\ UNCHANGED <<auction, bids, wal, sem, expired, queue, deposited, crashes>>

\* credit_wallet on the seller.  Marking the winner's bids changes nothing:
\* every bid is appended with is_winning = 1 already.
CloseCredit(c) ==
  /\ pc[c] = "credit"
  /\ WalletCall("credit", SellerOf[req[c].auction], seen[c].currentBid)
  /\ Leave(c, "notify")
  /\ UNCHANGED <<auction, bids, wal, sem, expired, queue, deposited, crashes>>

\* The reserve was not met: the highest bidder's money is unfrozen.
CloseUnhold(c) ==
  /\ pc[c] = "unhold"
  /\ WalletCall("release", seen[c].highestBidder, seen[c].currentBid)
  /\ Leave(c, "notify")
  /\ UNCHANGED <<auction, bids, wal, sem, expired, queue, deposited, crashes>>

\* notify_auction_won and notify_auction_closed write to the sockets of the
\* winner and the seller, and block as long as those clients do not read.
CloseNotify(c) ==
  /\ pc[c] = "notify"
  /\ Return(c)
  /\ UNCHANGED <<auction, wallet, bids, wal, sem, expired, queue,
                 deposited, crashes>>

CloseStep(c) ==
  \/ CloseWriteAuction(c) \/ CloseLog(c) \/ CloseSettle(c)
  \/ CloseCredit(c) \/ CloseUnhold(c)

-----------------------------------------------------------------------------
(* Deposits, the clock, crashes *)

\* handle_deposit: a user's own request, so not while another one runs.
Deposit(u) ==
  /\ pc[u] = "idle"
  /\ \E n \in Amounts :
       /\ deposited + n <= MaxDeposits
       /\ deposited' = deposited + n
       /\ WalletCall("credit", u, n)
  /\ UNCHANGED <<auction, bids, wal, sem, expired, queue,
                 pc, req, seen, crashes>>

\* time(NULL) reaches the end_time of an auction.
Expire(a) ==
  /\ a \notin expired
  /\ expired' = expired \cup {a}
  /\ UNCHANGED <<auction, wallet, bids, wal, sem, queue,
                 pc, req, seen, deposited, crashes>>

\* The server dies and is started again: threads, semaphores and the
\* timer's array are gone, the files stay as they are.  Nothing reads
\* txn.log or repairs the files at start-up.
Crash ==
  /\ crashes < MaxCrashes
  /\ crashes' = crashes + 1
  /\ pc' = [t \in Threads |-> "idle"]
  /\ req' = [t \in Threads |-> NoRequest]
  /\ seen' = [t \in Threads |-> NothingSeen]
  /\ sem' = [s \in SemSet |-> 1]
  /\ queue' = {}
  /\ UNCHANGED <<auction, wallet, bids, wal, expired, deposited>>

-----------------------------------------------------------------------------
(* A thread is committed to an auction between reading its record for the  *)
(* last time and writing it back.  Nothing in the code keeps a closing     *)
(* thread and a bidding thread (raced), or two closing threads (doubled),  *)
(* from being committed to one auction at once.                            *)

Committed(t, a) ==
  req[t].auction = a /\ pc[t] \in {"release", "hold", "write", "close"}

Overlap(S) ==
  \E a \in Auctions, c \in Closers, t \in S :
    c # t /\ Committed(c, a) /\ Committed(t, a)

\* A kill after the previous bidder's money was unfrozen and before the new
\* bid is on file leaves a standing bid that nothing covers; torn records
\* that it has happened.
KillTearsBid ==
  /\ crashes' # crashes
  /\ \E b \in Bidders :
       pc[b] \in {"hold", "write"} /\ seen[b].highestBidder # NoBidder

Remember ==
  /\ raced' = (raced \/ Overlap(Bidders)')
  /\ doubled' = (doubled \/ Overlap(Closers)')
  /\ torn' = (torn \/ KillTearsBid)

Step ==
  \/ \E b \in Bidders : BidPeek(b) \/ PlaceBidStep(b)
  \/ \E c \in Auctioneers : CloseRequest(c)
  \/ \E c \in Closers : CloseStep(c) \/ CloseNotify(c)
  \/ TimerScan \/ TimerNext
  \/ \E u \in Users : Deposit(u)
  \/ \E a \in Auctions : Expire(a)
  \/ Crash

Next == Step /\ Remember

Spec == Init /\ [][Next]_vars

\* No step depends on raced, doubled or torn, and liveness is stated of the same
\* steps without them.
Forget == UNCHANGED <<raced, doubled, torn>>

\* The timer thread keeps running, unless it blocks in a notification.
TimerFairness ==
  WF_vars((TimerScan \/ TimerNext \/ CloseStep(Timer)) /\ Forget)

\* The clients the timer notifies read what is in their sockets, or leave.
NotifiedClientsRead == WF_vars(CloseNotify(Timer) /\ Forget)

\* A worker finishes the critical section and the settlement it is in, and
\* gets a semaphore that keeps being posted.
WorkerFairness ==
  /\ \A b \in Bidders :
       /\ SF_vars(BidEnter(b) /\ Forget)
       /\ WF_vars(PlaceBidStep(b) /\ Forget)
  /\ \A c \in Auctioneers : WF_vars(CloseStep(c) /\ Forget)

TimerSpec == Init /\ [][Step /\ Forget]_vars /\ TimerFairness

-----------------------------------------------------------------------------
(* Properties of every behaviour *)

\* The amounts of an auction's bids in bids.dat rise strictly: the check
\* req->amount > a.current_bid and the semaphore order them, even when a
\* closing thread overwrites the auction with an older copy.
BidsRise ==
  \A a \in Auctions : \A i, j \in 1..Len(bids[a]) :
    i < j => bids[a][i].amount < bids[a][j].amount

\* Balances, the price on its way from winner to seller, and what was paid in.
MoneyInWallets == SumFunction([u \in Users |-> wallet[u].balance])
MoneyInTransit ==
  SumFunction([c \in Closers |->
                 IF pc[c] = "credit" THEN seen[c].currentBid ELSE 0])
MoneyPaidIn == SumFunction(InitialBalance) + deposited

\* However many closers settle one auction at once, and with whatever copies
\* of it, nobody pays what the seller does not get: only a kill loses money.
NoMoneyLost == crashes = 0 => MoneyInWallets + MoneyInTransit >= MoneyPaidIn

\* An auction that is open after a write never has a lower price than
\* before it: a bid cannot be lost to an older one while bidding goes on.
PriceNeverFallsWhileOpen ==
  [][\A a \in Auctions :
       auction'[a].status = Open => auction'[a].currentBid >= auction[a].currentBid]_vars

\* Every expired auction is closed if the clients that are notified read: the
\* array cap of the timer, reserve outcomes, bids in progress and workers that
\* stall anywhere, inside the critical section too, do not prevent it.
ExpiredIsClosed ==
  NotifiedClientsRead =>
    \A a \in Auctions : a \in expired ~> auction[a].status = Closed

\* A bid request that waits for the semaphore returns if the workers run: every
\* path through the critical section posts it, and none of them waits for a
\* client, as answers and notifications are sent after sem_post.
BidsReturn ==
  WorkerFairness => \A b \in Bidders : pc[b] = "sem" ~> pc[b] = "idle"

-----------------------------------------------------------------------------
(* Properties of the behaviours in which no two threads overlapped on an   *)
(* auction: Orderly ones, in which no kill tore a bid apart either, and    *)
(* Undisturbed ones, in which the server was not killed at all             *)

Alone == ~raced /\ ~doubled
Orderly == Alone /\ ~torn
Undisturbed == Alone /\ crashes = 0

OnAuction(t, a, labels) == req[t].auction = a /\ pc[t] \in labels

\* What bidder u has frozen for auction a: the standing bid, from the
\* moment it is placed until it is released or settled.
FrozenFor(u, a) ==
  LET standing ==
        /\ auction[a].highestBidder = u
        /\ \/ auction[a].status = Open
           \/ \E c \in Closers : OnAuction(c, a, {"wal", "settle", "unhold"})
        /\ ~ \E b \in Bidders : OnAuction(b, a, {"hold", "write"})
  IN (IF standing THEN auction[a].currentBid ELSE 0)
     + (IF OnAuction(u, a, {"write"}) THEN req[u].amount ELSE 0)

Frozen(u) == SumFunction([a \in Auctions |-> FrozenFor(u, a)])

\* A bidder's hold is exactly the sum of the bids that stand in his name,
\* over all auctions: nothing stays frozen, nothing is released twice.
HoldsExact ==
  Undisturbed => \A b \in Bidders : wallet[b].hold = Frozen(b)

\* The ignored return code of place_hold is harmless: the optimistic check
\* before the semaphore still holds when the money is frozen.  (A settlement
\* that nothing on hold covers takes available money, and only then it fails.)
HoldNeverRefused ==
  Orderly =>
    \A b \in Bidders :
      pc[b] = "hold" => Accepted("hold", wallet[b], req[b].amount)

\* The ignored return code of settle_payment is harmless: the winner's hold
\* covers the price, also after a kill that tore no bid apart.
SettlementFunded ==
  Orderly =>
    \A c \in Closers :
      pc[c] = "settle" => wallet[seen[c].highestBidder].hold >= seen[c].currentBid

\* "No money created or lost": balances, with the price on its way from
\* winner to seller, add up to what was there plus what was deposited.
MoneyConservedUndisturbed ==
  Undisturbed => MoneyInWallets + MoneyInTransit = MoneyPaidIn

\* A kill between settle_payment and credit_wallet loses the price, and that
\* is the worst it does unless it tears a bid apart: no restart pays a price
\* a second time.
NoMoneyCreatedByKill ==
  Orderly => MoneyInWallets + MoneyInTransit <= MoneyPaidIn

\* A closed auction stays closed, with the same winner and price, unless a bid
\* overlapped with a close: not even seller, admin and timer who all close it at
\* once, or a kill on the way, change that.
ClosedIsFinal ==
  [][~raced' =>
       \A a \in Auctions : auction[a].status = Closed => auction'[a] = auction[a]]_vars

-----------------------------------------------------------------------------
(* What comments of the code say of every behaviour *)

\* auction_engine.c: "auction semaphore (from bid_handler) ensures no bids
\* land while we're settling".
NoBidWhileSettling ==
  [][\A c \in Closers, b \in Bidders :
       OnAuction(c, req[b].auction, {"wal", "settle", "credit", "unhold"})
         => ~BidWriteAuction(b)]_vars

\* auction_engine.c: "auction moves CLOSED, winner is debited, seller is
\* credited. No money created or lost", as far as money is created and but
\* for the overlaps of threads.
NoMoneyCreated == Alone => MoneyInWallets + MoneyInTransit <= MoneyPaidIn
=============================================================================
