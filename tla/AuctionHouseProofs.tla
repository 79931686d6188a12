------------------------- MODULE AuctionHouseProofs -------------------------
(***************************************************************************)
(* Proofs about bidding and settlement, for every number of bidders,       *)
(* auctions, semaphores, closing threads, deposits and kills: bids rise    *)
(* (BiddingInv), closed auctions stay as they are (OrderInv), and the      *)
(* books balance (MoneyInv).  Each of the three is inductive.              *)
(***************************************************************************)
EXTENDS AuctionHouse, WalletProofs, SequenceTheorems

USE AuctionHouseAssumption

-----------------------------------------------------------------------------
(* Why bids rise: the inductive invariant behind BidsRise and              *)
(* PriceNeverFallsWhileOpen                                                *)

InBidSection(b) == pc[b] \in {"reread", "release", "hold", "write", "append"}
InWindow(b) == pc[b] \in {"release", "hold", "write"}

\* Per semaphore at most one bidder is in the critical section, and nobody posts
\* it twice.
OneBidderPerSemaphore ==
  /\ \A s \in SemSet : sem[s] <= 1
  /\ \A b \in Bidders : InBidSection(b) =>
       /\ sem[SemOf(req[b].auction)] = 0
       /\ \A d \in Bidders :
            InBidSection(d) /\ SemOf(req[d].auction) = SemOf(req[b].auction)
              => d = b

BidsBelow(a, n) == \A i \in 1..Len(bids[a]) : bids[a][i].amount < n
BidsUpTo(a, n) == \A i \in 1..Len(bids[a]) : bids[a][i].amount <= n

\* The price of an open auction is never behind bids.dat.
OpenPriceCoversBids ==
  \A a \in Auctions :
    auction[a].status = Open => BidsUpTo(a, auction[a].currentBid)

\* A bid that passed the reread beats everything logged and the price on
\* disk, and the record it will write back is open.
WindowBidBeatsAll ==
  \A b \in Bidders :
    LET a == req[b].auction IN
    /\ InWindow(b) => /\ seen[b].status = Open
                      /\ auction[a].currentBid < req[b].amount
    /\ InWindow(b) \/ pc[b] = "append" => BidsBelow(a, req[b].amount)
    /\ pc[b] = "append" /\ auction[a].status = Open
         => auction[a].currentBid = req[b].amount

\* The copy a closing thread is about to write is not ahead of the auction
\* while it is open, nor of a bid on its way.
ClosingCopyIsBehind ==
  \A c \in Closers : pc[c] = "close" =>
    LET a == req[c].auction IN
    /\ auction[a].status = Open => seen[c].currentBid <= auction[a].currentBid
    /\ \A b \in Bidders :
         InWindow(b) /\ req[b].auction = a => seen[c].currentBid < req[b].amount

\* No wallet has more on hold than in it: all changes are wallet calls.
WalletsSound == \A u \in Users : Sound(wallet[u])

\* The conjunction that every step preserves whatever overlaps or crashes.
BiddingInv ==
  /\ TypeOK
  /\ WalletsSound
  /\ OneBidderPerSemaphore
  /\ OpenPriceCoversBids
  /\ WindowBidBeatsAll
  /\ ClosingCopyIsBehind
  /\ BidsRise

-----------------------------------------------------------------------------

\* A wallet call keeps the records of all users well formed, whoever it is
\* for (user 0, who has no record, included).
LEMMA WalletCallType ==
  ASSUME NEW op, NEW user, NEW amount, CallAmount(op, amount),
         wallet \in [Users -> WalletRecord],
         WalletCall(op, user, amount)
  PROVE  wallet' \in [Users -> WalletRecord]
<1>1. \A u \in Users : Outcome(op, wallet[u], amount) \in WalletRecord
  BY OutcomeType
<1> QED
  BY <1>1 DEF WalletCall

\* A wallet call keeps every wallet sound.
LEMMA WalletCallSound ==
  ASSUME NEW op, NEW user, NEW amount, CallAmount(op, amount),
         wallet \in [Users -> WalletRecord],
         WalletsSound,
         WalletCall(op, user, amount)
  PROVE  WalletsSound'
<1>1. \A u \in Users : Sound(Outcome(op, wallet[u], amount))
  BY OutcomeSound DEF WalletsSound
<1>2. \A u \in Users : wallet'[u] = wallet[u]
                       \/ wallet'[u] = Outcome(op, wallet[u], amount)
  BY DEF WalletCall
<1> QED
  BY <1>1, <1>2 DEF WalletsSound, Sound

\* Natural amounts are legal in all four calls.
LEMMA NatCall ==
  ASSUME NEW op \in Ops, NEW amount \in Nat
  PROVE  CallAmount(op, amount)
BY DEF CallAmount

\* The locals after Leave, and the parts of the state a thread's locals
\* are made of, are well typed.
LEMMA LeaveType ==
  ASSUME NEW t \in Threads, NEW l, TypeOK, Leave(t, l),
         t \in Bidders => l \in BidderLabels,
         t \in Closers => l \in CloserLabels
  PROVE  /\ pc' \in [Threads -> BidderLabels \cup CloserLabels]
         /\ \A b \in Bidders : pc'[b] \in BidderLabels
         /\ \A c \in Closers : pc'[c] \in CloserLabels
         /\ req' \in [Threads -> Request]
         /\ seen' \in [Threads -> AuctionRecord]
<1>1. NoRequest \in Request
  BY DEF NoRequest, SomeAuction, Request
<1>2. NothingSeen \in AuctionRecord
  BY DEF NothingSeen, FirstListing, SomeAuction, AuctionRecord
<1>3. l \in BidderLabels \cup CloserLabels
  BY DEF Threads
<1> QED
  BY <1>1, <1>2, <1>3 DEF TypeOK, Leave, Goto

LEMMA ReturnType ==
  ASSUME NEW t \in Threads, TypeOK, Return(t)
  PROVE  /\ pc' \in [Threads -> BidderLabels \cup CloserLabels]
         /\ \A b \in Bidders : pc'[b] \in BidderLabels
         /\ \A c \in Closers : pc'[c] \in CloserLabels
         /\ req' \in [Threads -> Request]
         /\ seen' \in [Threads -> AuctionRecord]
BY LeaveType DEF Return, BidderLabels, CloserLabels

\* The same for a thread that goes on to a label of its kind.
LEMMA GotoType ==
  ASSUME NEW t \in Threads, NEW l, TypeOK, Goto(t, l),
         t \in Bidders => l \in BidderLabels,
         t \in Closers => l \in CloserLabels
  PROVE  /\ pc' \in [Threads -> BidderLabels \cup CloserLabels]
         /\ \A b \in Bidders : pc'[b] \in BidderLabels
         /\ \A c \in Closers : pc'[c] \in CloserLabels
<1>1. l \in BidderLabels \cup CloserLabels
  BY DEF Threads
<1> QED
  BY <1>1 DEF TypeOK, Goto

LEMMA SemPostType ==
  ASSUME NEW a \in Auctions, TypeOK, SemPost(a)
  PROVE  sem' \in [SemSet -> Nat]
<1>1. SemOf(a) \in SemSet
  BY DEF SemSet
<1>2. sem[SemOf(a)] + 1 \in Nat
  BY <1>1 DEF TypeOK
<1> QED
  BY <1>2 DEF TypeOK, SemPost

-----------------------------------------------------------------------------
(* Type correctness *)

LEMMA InitType == Init => TypeOK
<1> SUFFICES ASSUME Init PROVE TypeOK
  OBVIOUS
<1>1. NoRequest \in Request /\ NothingSeen \in AuctionRecord
  BY DEF NoRequest, NothingSeen, FirstListing, SomeAuction, Request,
         AuctionRecord
<1>2. wallet \in [Users -> WalletRecord]
  BY DEF Init, WalletRecord
<1>3. auction \in [Auctions -> AuctionRecord]
  BY DEF Init, FirstListing, AuctionRecord
<1>4. bids \in [Auctions -> Seq(BidRecord)]
  BY DEF Init
<1> QED
  BY <1>1, <1>2, <1>3, <1>4
     DEF Init, TypeOK, BidderLabels, CloserLabels, Threads, Closers

\* Type correctness of one bidder step.
LEMMA BidderType ==
  ASSUME TypeOK, NEW b \in Bidders, BidPeek(b) \/ PlaceBidStep(b),
         raced' \in BOOLEAN, doubled' \in BOOLEAN, torn' \in BOOLEAN
  PROVE  TypeOK'
<1> USE DEF Threads, Users, Closers
<1>0. b \in Threads /\ req[b] \in Request /\ seen[b] \in AuctionRecord
  BY DEF TypeOK
<1>1. CASE BidPeek(b)
  <2>1. req' \in [Threads -> Request]
    BY <1>1, <1>0 DEF BidPeek, TypeOK, Request
  <2> QED
    BY <1>1, <1>0, <2>1, GotoType DEF BidPeek, TypeOK, BidderLabels
<1>2. CASE BidCheckFunds(b)
  <2>1. CASE Return(b)
    BY <1>2, <1>0, <2>1, ReturnType DEF BidCheckFunds, TypeOK
  <2>2. CASE Goto(b, "sem") /\ UNCHANGED <<req, seen>>
    BY <1>2, <1>0, <2>2, GotoType DEF BidCheckFunds, TypeOK, BidderLabels
  <2> QED
    BY <1>2, <2>1, <2>2 DEF BidCheckFunds
<1>3. CASE BidEnter(b)
  <2>0. SemOf(req[b].auction) \in SemSet
    BY <1>0 DEF SemSet, Request
  <2>1. sem' \in [SemSet -> Nat]
    <3>1. sem[SemOf(req[b].auction)] - 1 \in Nat
      BY <1>3, <2>0 DEF BidEnter, TypeOK
    <3>2. sem' = [sem EXCEPT ![SemOf(req[b].auction)] = @ - 1]
      BY <1>3 DEF BidEnter
    <3> QED
      BY <3>1, <3>2 DEF TypeOK
  <2> QED
    BY <1>3, <1>0, <2>1, GotoType DEF BidEnter, TypeOK, BidderLabels
<1>4. CASE BidReread(b)
  <2>0. req[b].auction \in Auctions
    BY <1>0 DEF Request
  <2>1. CASE Return(b) /\ SemPost(req[b].auction)
    BY <1>4, <1>0, <2>0, <2>1, ReturnType, SemPostType DEF BidReread, TypeOK
  <2>2. CASE BidAdmissible(b, auction[req[b].auction])
    <3>1. seen' \in [Threads -> AuctionRecord]
      BY <1>4, <1>0, <2>0, <2>2 DEF BidReread, TypeOK
    <3>2. PICK l \in {"hold", "release"} : Goto(b, l)
      BY <1>4, <2>2 DEF BidReread
    <3> QED
      BY <1>4, <1>0, <2>2, <3>1, <3>2, GotoType
         DEF BidReread, TypeOK, BidderLabels
  <2> QED
    BY <1>4, <2>1, <2>2 DEF BidReread
<1>5. CASE BidReleasePrevious(b)
  <2>1. CallAmount("release", seen[b].currentBid)
    BY <1>0, NatCall DEF AuctionRecord, Ops
  <2>2. wallet' \in [Users -> WalletRecord]
    BY <1>5, <2>1, WalletCallType DEF BidReleasePrevious, TypeOK
  <2> QED
    BY <1>5, <1>0, <2>2, GotoType DEF BidReleasePrevious, TypeOK, BidderLabels
<1>6. CASE BidPlaceHold(b)
  <2>1. CallAmount("hold", req[b].amount)
    BY <1>0, NatCall DEF Request, Ops
  <2>2. wallet' \in [Users -> WalletRecord]
    BY <1>6, <2>1, WalletCallType DEF BidPlaceHold, TypeOK
  <2> QED
    BY <1>6, <1>0, <2>2, GotoType DEF BidPlaceHold, TypeOK, BidderLabels
<1>7. CASE BidWriteAuction(b)
  <2>1. auction' \in [Auctions -> AuctionRecord]
    BY <1>7, <1>0 DEF BidWriteAuction, TypeOK, AuctionRecord, Request
  <2> QED
    BY <1>7, <1>0, <2>1, GotoType DEF BidWriteAuction, TypeOK, BidderLabels
<1>8. CASE BidAppend(b)
  <2>0. req[b].auction \in Auctions
    BY <1>0 DEF Request
  <2>1. [bidder |-> b, amount |-> req[b].amount] \in BidRecord
    BY <1>0 DEF BidRecord, Request
  <2>2. bids' \in [Auctions -> Seq(BidRecord)]
    <3> DEFINE a == req[b].auction
               entry == [bidder |-> b, amount |-> req[b].amount]
    <3>0. bids[a] \in Seq(BidRecord)
      BY <2>0 DEF TypeOK
    <3>1. Append(bids[a], entry) \in Seq(BidRecord)
      BY <2>1, <3>0, AppendProperties
    <3>2. bids' = [bids EXCEPT ![a] = Append(bids[a], entry)]
      BY <1>8 DEF BidAppend
    <3> HIDE DEF a, entry
    <3> QED
      BY <3>1, <3>2 DEF TypeOK
  <2> QED
    BY <1>8, <1>0, <2>0, <2>2, ReturnType, SemPostType DEF BidAppend, TypeOK
<1> QED
  BY <1>1, <1>2, <1>3, <1>4, <1>5, <1>6, <1>7, <1>8 DEF PlaceBidStep

\* Type correctness of one step of a closing thread.
LEMMA CloserType ==
  ASSUME TypeOK, NEW c \in Closers,
         CloseStep(c) \/ CloseNotify(c),
         raced' \in BOOLEAN, doubled' \in BOOLEAN, torn' \in BOOLEAN
  PROVE  TypeOK'
<1> USE DEF Threads, Users, Closers
<1>0. /\ c \in Threads
      /\ req[c].auction \in Auctions
      /\ seen[c] \in AuctionRecord
      /\ seen[c].currentBid \in Nat
  BY DEF TypeOK, Request, AuctionRecord
<1>a. \A op \in Ops : CallAmount(op, seen[c].currentBid)
  BY <1>0, NatCall
<1>1. CASE CloseWriteAuction(c)
  <2>1. auction' \in [Auctions -> AuctionRecord]
    BY <1>1, <1>0 DEF CloseWriteAuction, TypeOK, AuctionRecord
  <2>2. CASE Leave(c, "notify")
    <3>1. UNCHANGED <<wallet, bids, wal, sem, expired, queue, deposited, crashes>>
      BY <1>1 DEF CloseWriteAuction
    <3>2. /\ pc' \in [Threads -> BidderLabels \cup CloserLabels]
          /\ \A b \in Bidders : pc'[b] \in BidderLabels
          /\ \A d \in Closers : pc'[d] \in CloserLabels
          /\ req' \in [Threads -> Request]
          /\ seen' \in [Threads -> AuctionRecord]
      BY <1>0, <2>2, LeaveType DEF CloserLabels
    <3> QED
      BY <2>1, <3>1, <3>2 DEF TypeOK
  <2>3. ASSUME NEW l \in {"wal", "unhold"},
               Goto(c, l), UNCHANGED <<req, seen>>
        PROVE  TypeOK'
    <3>1. UNCHANGED <<wallet, bids, wal, sem, expired, queue, deposited, crashes>>
      BY <1>1 DEF CloseWriteAuction
    <3>2. /\ pc' \in [Threads -> BidderLabels \cup CloserLabels]
          /\ \A b \in Bidders : pc'[b] \in BidderLabels
          /\ \A d \in Closers : pc'[d] \in CloserLabels
      BY <1>0, <2>3, GotoType DEF CloserLabels
    <3> QED
      BY <2>1, <2>3, <3>1, <3>2 DEF TypeOK
  <2> QED
    BY <1>1, <2>2, <2>3 DEF CloseWriteAuction
<1>2. CASE CloseLog(c)
  <2>1. wal' \subseteq Auctions
    BY <1>2, <1>0 DEF CloseLog, TypeOK
  <2> QED
    BY <1>2, <1>0, <2>1, GotoType DEF CloseLog, TypeOK, CloserLabels
<1>3. CASE CloseSettle(c)
  <2>1. wallet' \in [Users -> WalletRecord]
    BY <1>3, <1>a, WalletCallType DEF CloseSettle, TypeOK, Ops
  <2> QED
    BY <1>3, <1>0, <2>1, GotoType, ZenonT(30) DEF CloseSettle, TypeOK, CloserLabels
<1>4. CASE CloseCredit(c)
  <2>1. wallet' \in [Users -> WalletRecord]
    BY <1>4, <1>a, WalletCallType DEF CloseCredit, TypeOK, Ops
  <2> QED
    BY <1>4, <1>0, <2>1, LeaveType DEF CloseCredit, TypeOK, CloserLabels
<1>5. CASE CloseUnhold(c)
  <2>1. wallet' \in [Users -> WalletRecord]
    BY <1>5, <1>a, WalletCallType DEF CloseUnhold, TypeOK, Ops
  <2> QED
    BY <1>5, <1>0, <2>1, LeaveType DEF CloseUnhold, TypeOK, CloserLabels
<1>6. CASE CloseNotify(c)
  BY <1>6, <1>0, ReturnType DEF CloseNotify, TypeOK
<1> QED
  BY <1>1, <1>2, <1>3, <1>4, <1>5, <1>6 DEF CloseStep

\* Taking up an auction to close it, by request or from the timer's array.
LEMMA StartCloseType ==
  ASSUME TypeOK, NEW c \in Closers, NEW a \in Auctions, StartClose(c, a)
  PROVE  /\ pc' \in [Threads -> BidderLabels \cup CloserLabels]
         /\ \A b \in Bidders : pc'[b] \in BidderLabels
         /\ \A d \in Closers : pc'[d] \in CloserLabels
         /\ req' \in [Threads -> Request]
         /\ seen' \in [Threads -> AuctionRecord]
<1>1. c \in Threads /\ Goto(c, "close") /\ c \notin Bidders
  BY DEF StartClose, Threads, Closers, Users
<1>2. [auction |-> a, amount |-> 0] \in Request
  BY DEF Request
<1>3. req' \in [Threads -> Request] /\ seen' \in [Threads -> AuctionRecord]
  BY <1>2 DEF StartClose, TypeOK
<1> QED
  BY <1>1, <1>3, GotoType DEF CloserLabels

\* Type correctness of the other steps.
LEMMA OtherType ==
  ASSUME TypeOK, raced' \in BOOLEAN, doubled' \in BOOLEAN, torn' \in BOOLEAN,
         \/ \E c \in Auctioneers : CloseRequest(c)
         \/ TimerScan \/ TimerNext
         \/ \E u \in Users : Deposit(u)
         \/ \E a \in Auctions : Expire(a)
         \/ Crash
  PROVE  TypeOK'
<1>1. CASE \E c \in Auctioneers : CloseRequest(c)
  BY <1>1, StartCloseType DEF CloseRequest, TypeOK, Closers
<1>2. CASE TimerScan
  BY <1>2 DEF TimerScan, TypeOK, FirstDue, Due
<1>3. CASE TimerNext
  BY <1>3, StartCloseType DEF TimerNext, TypeOK, Closers
<1>4. CASE \E u \in Users : Deposit(u)
  <2>1. PICK u \in Users, n \in Amounts :
          /\ deposited' = deposited + n
          /\ WalletCall("credit", u, n)
    BY <1>4 DEF Deposit
  <2>2. CallAmount("credit", n) /\ n \in Nat
    BY NatCall DEF Ops
  <2>3. wallet' \in [Users -> WalletRecord]
    BY <2>1, <2>2, WalletCallType DEF TypeOK
  <2> QED
    BY <1>4, <2>1, <2>2, <2>3 DEF Deposit, TypeOK
<1>5. CASE \E a \in Auctions : Expire(a)
  BY <1>5 DEF Expire, TypeOK
<1>6. CASE Crash
  <2>1. NoRequest \in Request /\ NothingSeen \in AuctionRecord
    BY DEF NoRequest, NothingSeen, FirstListing, SomeAuction, Request,
           AuctionRecord
  <2> QED
    BY <1>6, <2>1
       DEF Crash, TypeOK, BidderLabels, CloserLabels, Threads, Closers
<1> QED
  BY <1>1, <1>2, <1>3, <1>4, <1>5, <1>6

\* Every step keeps the state well typed.
LEMMA NextType == TypeOK /\ [Next]_vars => TypeOK'
<1> SUFFICES ASSUME TypeOK, [Next]_vars PROVE TypeOK'
  OBVIOUS
<1>1. CASE UNCHANGED vars
  BY <1>1 DEF vars, TypeOK
<1>2. CASE Next
  <2>1. raced' \in BOOLEAN /\ doubled' \in BOOLEAN /\ torn' \in BOOLEAN
    BY <1>2 DEF Next, Remember, TypeOK, Overlap, KillTearsBid
  <2> QED
    BY <1>2, <2>1, BidderType, CloserType, OtherType DEF Next, Step
<1> QED
  BY <1>1, <1>2

\* The records of auctions.dat, users.dat and bids.dat, the semaphores and
\* the threads' locals stay well formed.
THEOREM TypeCorrect == Spec => []TypeOK
<1>1. Init => TypeOK
  BY InitType
<1>2. TypeOK /\ [Next]_vars => TypeOK'
  BY NextType
<1> QED
  BY <1>1, <1>2, PTL DEF Spec

-----------------------------------------------------------------------------
(* Wallets *)

\* A step changes the wallets by one legal wallet call or not at all.
LEMMA WalletStep ==
  ASSUME TypeOK, Next
  PROVE  \/ UNCHANGED wallet
         \/ \E op \in Ops, user \in Users \cup {NoBidder}, amount \in Nat :
              WalletCall(op, user, amount)
<1>0. \A t \in Threads :
        /\ req[t].auction \in Auctions /\ req[t].amount \in Nat
        /\ seen[t].currentBid \in Nat
        /\ seen[t].highestBidder \in Users \cup {NoBidder}
  BY DEF TypeOK, Request, AuctionRecord, Users
<1>1. ASSUME NEW b \in Bidders, BidPeek(b) \/ PlaceBidStep(b)
      PROVE  \/ UNCHANGED wallet
             \/ WalletCall("release", seen[b].highestBidder, seen[b].currentBid)
             \/ WalletCall("hold", b, req[b].amount)
  BY <1>1 DEF PlaceBidStep, BidPeek, BidCheckFunds, BidEnter, BidReread,
              BidReleasePrevious, BidPlaceHold, BidWriteAuction, BidAppend
<1>2. ASSUME NEW c \in Closers, CloseStep(c) \/ CloseNotify(c)
      PROVE  \/ UNCHANGED wallet
             \/ WalletCall("settle", seen[c].highestBidder, seen[c].currentBid)
             \/ WalletCall("credit", SellerOf[req[c].auction], seen[c].currentBid)
             \/ WalletCall("release", seen[c].highestBidder, seen[c].currentBid)
  BY <1>2 DEF CloseStep, CloseWriteAuction, CloseLog, CloseSettle, CloseCredit,
              CloseUnhold, CloseNotify
<1>3. ASSUME NEW u \in Users, Deposit(u)
      PROVE  \E n \in Nat : WalletCall("credit", u, n)
  BY <1>3 DEF Deposit
<1>4. CASE \E b \in Bidders : BidPeek(b) \/ PlaceBidStep(b)
  BY <1>0, <1>1, <1>4 DEF Ops, Threads, Users
<1>5. CASE \E c \in Closers : CloseStep(c) \/ CloseNotify(c)
  <2>1. PICK c \in Closers : CloseStep(c) \/ CloseNotify(c)
    BY <1>5
  <2>2. SellerOf[req[c].auction] \in Users
    BY <1>0 DEF Threads, Users
  <2> QED
    BY <1>0, <1>2, <2>1, <2>2 DEF Ops, Threads
<1>6. CASE \E u \in Users : Deposit(u)
  BY <1>3, <1>6 DEF Ops
<1>7. CASE \/ \E c \in Auctioneers : CloseRequest(c)
           \/ TimerScan \/ TimerNext
           \/ \E a \in Auctions : Expire(a)
           \/ Crash
  BY <1>7 DEF CloseRequest, TimerScan, TimerNext, Expire, Crash
<1> QED
  BY <1>4, <1>5, <1>6, <1>7 DEF Next, Step

\* No wallet call of any step leaves more on hold than there is.
LEMMA NextSound ==
  ASSUME TypeOK, WalletsSound, [Next]_vars
  PROVE  WalletsSound'
<1>1. CASE UNCHANGED wallet
  BY <1>1 DEF WalletsSound, Sound
<1>2. CASE \E op \in Ops, user \in Users \cup {NoBidder}, amount \in Nat :
              WalletCall(op, user, amount)
  BY <1>2, NatCall, WalletCallSound DEF TypeOK
<1> QED
  BY <1>1, <1>2, WalletStep DEF vars

-----------------------------------------------------------------------------
(* Mutual exclusion of bidders *)

\* A semaphore lets one bidder at a time into the section between the
\* reread and append_bid, whatever ids share it.
LEMMA NextOneBidder ==
  ASSUME TypeOK, OneBidderPerSemaphore, Next
  PROVE  OneBidderPerSemaphore'
<1> USE DEF Threads, Closers, Users
<1>0. /\ \A t \in Threads : SemOf(req[t].auction) \in SemSet
      /\ sem \in [SemSet -> Nat]
      /\ pc \in [Threads -> BidderLabels \cup CloserLabels]
      /\ req \in [Threads -> Request]
  BY DEF TypeOK, Request, SemSet
<1>1. ASSUME UNCHANGED sem,
             \A x \in Bidders : InBidSection(x)' =>
               InBidSection(x) /\ req'[x].auction = req[x].auction
      PROVE  OneBidderPerSemaphore'
  BY <1>1 DEF OneBidderPerSemaphore
<1>2. ASSUME NEW b \in Bidders, BidPeek(b) \/ PlaceBidStep(b)
      PROVE  OneBidderPerSemaphore'
  <2>1. CASE BidEnter(b)
    BY <1>0, <2>1 DEF BidEnter, Goto, InBidSection, OneBidderPerSemaphore
  <2>2. ASSUME Return(b), SemPost(req[b].auction), InBidSection(b)
        PROVE  OneBidderPerSemaphore'
    <3>1. \A x \in Bidders : InBidSection(x)' =>
            x # b /\ InBidSection(x) /\ req'[x] = req[x]
      BY <1>0, <2>2 DEF Return, Leave, Goto, InBidSection
    <3>2. \A x \in Bidders : InBidSection(x)' =>
            SemOf(req[x].auction) # SemOf(req[b].auction)
      BY <3>1, <2>2 DEF OneBidderPerSemaphore
    <3>3. \A x \in Bidders : InBidSection(x)' =>
            sem'[SemOf(req[x].auction)] = sem[SemOf(req[x].auction)]
      BY <1>0, <3>2, <2>2 DEF SemPost
    <3>4. \A s \in SemSet : sem'[s] <= 1
      <4>1. SemOf(req[b].auction) \in SemSet /\ sem[SemOf(req[b].auction)] = 0
        BY <1>0, <2>2 DEF OneBidderPerSemaphore
      <4>2. sem' = [sem EXCEPT ![SemOf(req[b].auction)] = 1]
        BY <2>2, <4>1 DEF SemPost
      <4> QED
        BY <1>0, <4>1, <4>2 DEF OneBidderPerSemaphore
    <3> QED
      BY <3>1, <3>3, <3>4 DEF OneBidderPerSemaphore
  <2>3. CASE BidReread(b)
    <3>1. CASE BidAdmissible(b, auction[req[b].auction])
      BY <1>0, <1>1, <2>3, <3>1 DEF BidReread, Goto, InBidSection
    <3>2. CASE ~BidAdmissible(b, auction[req[b].auction])
      BY <2>2, <2>3, <3>2 DEF BidReread, InBidSection
    <3> QED
      BY <3>1, <3>2
  <2>4. CASE BidAppend(b)
    BY <2>2, <2>4 DEF BidAppend, InBidSection
  <2>5. CASE BidPeek(b) \/ BidCheckFunds(b) \/ BidReleasePrevious(b)
             \/ BidPlaceHold(b) \/ BidWriteAuction(b)
    BY <1>0, <1>1, <2>5
       DEF BidPeek, BidCheckFunds, BidReleasePrevious, BidPlaceHold,
           BidWriteAuction, Goto, Leave, Return, InBidSection
  <2> QED
    BY <1>2, <2>1, <2>3, <2>4, <2>5 DEF PlaceBidStep
<1>3. ASSUME NEW c \in Closers, CloseStep(c) \/ CloseNotify(c)
      PROVE  OneBidderPerSemaphore'
  BY <1>0, <1>1, <1>3
     DEF CloseStep, CloseWriteAuction, CloseLog, CloseSettle, CloseCredit,
         CloseUnhold, CloseNotify, Goto, Leave, Return, InBidSection
<1>4. CASE \/ \E c \in Auctioneers : CloseRequest(c)
           \/ TimerNext
  BY <1>0, <1>1, <1>4 DEF CloseRequest, TimerNext, StartClose, Goto, InBidSection
<1>5. CASE \/ TimerScan
           \/ \E u \in Users : Deposit(u)
           \/ \E a \in Auctions : Expire(a)
  BY <1>1, <1>5 DEF TimerScan, Deposit, Expire, InBidSection
<1>6. CASE Crash
  BY <1>6 DEF Crash, OneBidderPerSemaphore, InBidSection
<1> QED
  BY <1>2, <1>3, <1>4, <1>5, <1>6 DEF Next, Step

-----------------------------------------------------------------------------
(* Prices and bids *)

BidOrder ==
  /\ OpenPriceCoversBids
  /\ WindowBidBeatsAll
  /\ ClosingCopyIsBehind
  /\ BidsRise

LEMMA AmountsAreNat ==
  ASSUME TypeOK, NEW a \in Auctions
  PROVE  /\ Len(bids[a]) \in Nat
         /\ \A i \in 1..Len(bids[a]) : bids[a][i].amount \in Nat
<1>1. bids[a] \in Seq(BidRecord)
  BY DEF TypeOK
<1>2. \A i \in 1..Len(bids[a]) : bids[a][i] \in BidRecord
  BY <1>1, ElementOfSeq
<1> QED
  BY <1>1, <1>2, LenProperties DEF BidRecord

LEMMA UpToIsBelow ==
  ASSUME TypeOK, NEW a \in Auctions, NEW m \in Nat, NEW n \in Nat,
         m < n, BidsUpTo(a, m)
  PROVE  BidsBelow(a, n)
<1> SUFFICES ASSUME NEW i \in 1..Len(bids[a])
             PROVE  bids[a][i].amount < n
  BY DEF BidsBelow
<1>1. bids[a][i].amount \in Nat
  BY AmountsAreNat
<1>2. bids[a][i].amount <= m
  BY DEF BidsUpTo
<1> QED
  BY <1>1, <1>2

LEMMA BelowIsUpTo ==
  ASSUME TypeOK, NEW a \in Auctions, NEW n \in Nat, BidsBelow(a, n)
  PROVE  BidsUpTo(a, n)
<1> SUFFICES ASSUME NEW i \in 1..Len(bids[a])
             PROVE  bids[a][i].amount <= n
  BY DEF BidsUpTo
<1>1. bids[a][i].amount \in Nat
  BY AmountsAreNat
<1>2. bids[a][i].amount < n
  BY DEF BidsBelow
<1> QED
  BY <1>1, <1>2

\* A step that leaves auctions.dat and bids.dat alone and brings no thread
\* into a window keeps the order.
LEMMA QuietStep ==
  ASSUME BidOrder, UNCHANGED <<auction, bids>>,
         \A b \in Bidders :
           InWindow(b)' => InWindow(b) /\ req'[b] = req[b] /\ seen'[b] = seen[b],
         \A b \in Bidders :
           pc'[b] = "append" => pc[b] = "append" /\ req'[b] = req[b],
         \A c \in Closers :
           pc'[c] = "close" => pc[c] = "close" /\ req'[c] = req[c]
                                              /\ seen'[c] = seen[c]
  PROVE  BidOrder'
<1>1. OpenPriceCoversBids' /\ BidsRise'
  BY DEF BidOrder, OpenPriceCoversBids, BidsUpTo, BidsRise
<1>2. WindowBidBeatsAll'
  BY DEF BidOrder, WindowBidBeatsAll, BidsBelow
<1>3. ClosingCopyIsBehind'
  BY DEF BidOrder, ClosingCopyIsBehind
<1> QED
  BY <1>1, <1>2, <1>3 DEF BidOrder

\* A bid that passes the reread enters the window above everything.
LEMMA AdmittedStep ==
  ASSUME TypeOK, BidOrder, NEW b \in Bidders, BidReread(b),
         BidAdmissible(b, auction[req[b].auction])
  PROVE  BidOrder'
<1> USE DEF Threads, Closers, Users
<1>0. /\ UNCHANGED <<auction, bids, req>>
      /\ seen' = [seen EXCEPT ![b] = auction[req[b].auction]]
      /\ InWindow(b)' /\ pc'[b] # "append"
      /\ \A t \in Threads : t # b => pc'[t] = pc[t] /\ seen'[t] = seen[t]
      /\ seen'[b] = auction[req[b].auction]
      /\ b \notin Closers
  BY DEF BidReread, Goto, InWindow, TypeOK
<1>1. /\ auction[req[b].auction].status = Open
      /\ auction[req[b].auction].currentBid < req[b].amount
      /\ req[b].auction \in Auctions /\ req[b].amount \in Nat
      /\ auction[req[b].auction].currentBid \in Nat
  BY DEF BidAdmissible, TypeOK, Request, AuctionRecord
<1>2. BidsBelow(req[b].auction, req[b].amount)
  <2>1. BidsUpTo(req[b].auction, auction[req[b].auction].currentBid)
    BY <1>1 DEF BidOrder, OpenPriceCoversBids
  <2> QED
    BY <1>1, <2>1, UpToIsBelow
<1>3. OpenPriceCoversBids' /\ BidsRise'
  BY <1>0 DEF BidOrder, OpenPriceCoversBids, BidsUpTo, BidsRise
<1>4. WindowBidBeatsAll'
  BY <1>0, <1>1, <1>2 DEF BidOrder, WindowBidBeatsAll, BidsBelow, InWindow
<1>5. ClosingCopyIsBehind'
  <2> SUFFICES ASSUME NEW c \in Closers, pc'[c] = "close",
                      NEW x \in Bidders, InWindow(x)', req'[x].auction = req'[c].auction
               PROVE  seen'[c].currentBid < req'[x].amount
    BY <1>0 DEF BidOrder, ClosingCopyIsBehind
  <2>1. seen[c].currentBid \in Nat
    BY DEF TypeOK, AuctionRecord
  <2> QED
    BY <1>0, <1>1, <2>1 DEF BidOrder, ClosingCopyIsBehind, InWindow
<1> QED
  BY <1>3, <1>4, <1>5 DEF BidOrder

\* In the window of one bidder there is no other bidder on the auction.
LEMMA AloneOnAuction ==
  ASSUME OneBidderPerSemaphore, NEW b \in Bidders, InBidSection(b),
         NEW x \in Bidders, InBidSection(x), req[x].auction = req[b].auction
  PROVE  x = b
BY DEF OneBidderPerSemaphore

\* Writing the bid raises the price of an auction that is open afterwards,
\* and no other bid is in its window.
LEMMA BidWriteStep ==
  ASSUME TypeOK, OneBidderPerSemaphore, BidOrder,
         NEW b \in Bidders, BidWriteAuction(b)
  PROVE  BidOrder'
<1> USE DEF Threads, Closers, Users
<1> DEFINE a == req[b].auction
<1>0. /\ UNCHANGED <<bids, req, seen>>
      /\ pc[b] = "write" /\ pc'[b] = "append"
      /\ \A t \in Threads : t # b => pc'[t] = pc[t]
      /\ b \notin Closers
      /\ a \in Auctions
  BY DEF BidWriteAuction, Goto, TypeOK, Request
<1>1. /\ auction'[a].status = Open
      /\ auction'[a].currentBid = req[b].amount
      /\ \A x \in Auctions : x # a => auction'[x] = auction[x]
  <2>1. seen[b] \in AuctionRecord /\ seen[b].status = Open
    BY <1>0 DEF TypeOK, BidOrder, WindowBidBeatsAll, InWindow
  <2>2. auction' = [auction EXCEPT ![a] =
          [seen[b] EXCEPT !.currentBid = req[b].amount, !.highestBidder = b]]
    BY DEF BidWriteAuction
  <2> QED
    BY <1>0, <2>1, <2>2 DEF TypeOK, AuctionRecord
<1>2. BidsBelow(a, req[b].amount)
  BY <1>0 DEF BidOrder, WindowBidBeatsAll, InWindow
<1>3. \A x \in Bidders : x # b /\ InBidSection(x) => req[x].auction # a
  BY <1>0, AloneOnAuction DEF InBidSection
<1>4. \A x \in Threads : req[x].amount \in Nat /\ req[x].auction \in Auctions
                        /\ seen[x].currentBid \in Nat
  BY DEF TypeOK, Request, AuctionRecord
<1>5. OpenPriceCoversBids'
  <2>1. BidsUpTo(a, req[b].amount)
    <3>1. a \in Auctions /\ req[b].amount \in Nat
      BY <1>0, <1>4
    <3> QED
      BY <1>2, <3>1, BelowIsUpTo
  <2> HIDE DEF a
  <2>3. ASSUME NEW x \in Auctions, auction'[x].status = Open
        PROVE  BidsUpTo(x, auction'[x].currentBid)
    <3>1. CASE x = a
      BY <1>1, <2>1, <3>1
    <3>2. CASE x # a
      BY <1>1, <2>3, <3>2 DEF BidOrder, OpenPriceCoversBids
    <3> QED
      BY <3>1, <3>2
  <2> QED
    BY <1>0, <2>3 DEF OpenPriceCoversBids, BidsUpTo
<1> HIDE DEF a
<1>6. WindowBidBeatsAll'
  <2> SUFFICES ASSUME NEW x \in Bidders
               PROVE  LET ax == req[x].auction IN
                      /\ InWindow(x)' => /\ seen[x].status = Open
                                         /\ auction'[ax].currentBid < req[x].amount
                      /\ InWindow(x)' \/ pc'[x] = "append" =>
                           BidsBelow(ax, req[x].amount)
                      /\ pc'[x] = "append" /\ auction'[ax].status = Open
                           => auction'[ax].currentBid = req[x].amount
    BY <1>0 DEF WindowBidBeatsAll, BidsBelow
  <2>1. CASE x = b
    BY <1>0, <1>1, <1>2, <2>1 DEF InWindow, a
  <2>2. CASE x # b
    <3>1. InWindow(x)' \/ pc'[x] = "append" => req[x].auction # a
      BY <1>0, <1>3, <2>2 DEF InWindow, InBidSection
    <3>2. /\ pc'[x] = pc[x]
          /\ InWindow(x)' \/ pc'[x] = "append" =>
               auction'[req[x].auction] = auction[req[x].auction]
      BY <1>0, <1>1, <1>4, <2>2, <3>1
    <3>3. InWindow(x)' = InWindow(x)
      BY <3>2 DEF InWindow
    <3> QED
      BY <3>2, <3>3 DEF BidOrder, WindowBidBeatsAll
  <2> QED
    BY <2>1, <2>2
<1>7. ClosingCopyIsBehind'
  <2> SUFFICES ASSUME NEW c \in Closers, pc'[c] = "close"
               PROVE  /\ auction'[req[c].auction].status = Open =>
                           seen[c].currentBid <= auction'[req[c].auction].currentBid
                      /\ \A x \in Bidders :
                           InWindow(x)' /\ req[x].auction = req[c].auction
                             => seen[c].currentBid < req[x].amount
    BY <1>0 DEF ClosingCopyIsBehind
  <2>0. pc[c] = "close"
    BY <1>0
  <2>1. req[c].auction = a => seen[c].currentBid < req[b].amount
    BY <1>0, <2>0 DEF BidOrder, ClosingCopyIsBehind, InWindow, a
  <2>2. \A x \in Bidders : InWindow(x)' => InWindow(x)
    BY <1>0 DEF InWindow
  <2>3. CASE req[c].auction = a
    <3>1. \A x \in Bidders : InWindow(x)' => req[x].auction # a
      BY <1>0, <1>3, <2>2 DEF InWindow, InBidSection
    <3> QED
      BY <1>1, <1>4, <2>1, <2>3, <3>1
  <2>4. CASE req[c].auction # a
    <3>1. auction'[req[c].auction] = auction[req[c].auction]
      BY <1>1, <1>4, <2>4
    <3> QED
      BY <2>0, <2>2, <3>1 DEF BidOrder, ClosingCopyIsBehind
  <2> QED
    BY <2>3, <2>4
<1>8. BidsRise'
  BY <1>0 DEF BidOrder, BidsRise
<1> QED
  BY <1>5, <1>6, <1>7, <1>8 DEF BidOrder

\* append_bid logs an amount above all earlier ones, the price of the
\* auction if it is open.
LEMMA BidAppendStep ==
  ASSUME TypeOK, OneBidderPerSemaphore, BidOrder,
         NEW b \in Bidders, BidAppend(b)
  PROVE  BidOrder'
<1> USE DEF Threads, Closers, Users
<1> DEFINE a == req[b].auction
           n == req[b].amount
<1>0. /\ UNCHANGED auction
      /\ pc[b] = "append"
      /\ \A t \in Threads : t # b => /\ pc'[t] = pc[t]
                                      /\ req'[t] = req[t]
                                      /\ seen'[t] = seen[t]
      /\ pc'[b] = "idle"
      /\ b \notin Closers
      /\ a \in Auctions /\ n \in Nat
  BY DEF BidAppend, Return, Leave, Goto, TypeOK, Request
<1>1. /\ \A x \in Auctions : x # a => bids'[x] = bids[x]
      /\ Len(bids'[a]) = Len(bids[a]) + 1
      /\ \A i \in 1..Len(bids[a]) : bids'[a][i] = bids[a][i]
      /\ bids'[a][Len(bids[a]) + 1].amount = n
  <2>1. bids[a] \in Seq(BidRecord)
    BY <1>0 DEF TypeOK
  <2>2. [bidder |-> b, amount |-> n] \in BidRecord
    BY <1>0 DEF BidRecord
  <2>3. bids' = [bids EXCEPT ![a] = Append(bids[a], [bidder |-> b, amount |-> n])]
    BY DEF BidAppend
  <2>4. bids'[a] = Append(bids[a], [bidder |-> b, amount |-> n])
    BY <1>0, <2>3 DEF TypeOK
  <2> HIDE DEF a, n
  <2>5. \A x \in Auctions : x # a => bids'[x] = bids[x]
    BY <2>3 DEF TypeOK
  <2> QED
    BY <2>1, <2>2, <2>4, <2>5, AppendProperties
<1>2. Len(bids[a]) \in Nat /\ \A i \in 1..Len(bids[a]) : bids[a][i].amount \in Nat
  BY <1>0, AmountsAreNat
<1>3. BidsBelow(a, n)
  BY <1>0 DEF BidOrder, WindowBidBeatsAll
<1>4. auction[a].status = Open => auction[a].currentBid = n
  BY <1>0 DEF BidOrder, WindowBidBeatsAll
<1>5. \A x \in Bidders : x # b /\ (InWindow(x)' \/ pc'[x] = "append") =>
        (InWindow(x) \/ pc[x] = "append") /\ req[x].auction # a
  BY <1>0, AloneOnAuction DEF InWindow, InBidSection
<1> HIDE DEF a, n
<1>6. OpenPriceCoversBids'
  <2> SUFFICES ASSUME NEW x \in Auctions, auction[x].status = Open,
                      NEW i \in 1..Len(bids'[x])
               PROVE  bids'[x][i].amount <= auction[x].currentBid
    BY <1>0 DEF OpenPriceCoversBids, BidsUpTo
  <2>1. CASE x # a
    BY <1>1, <2>1 DEF BidOrder, OpenPriceCoversBids, BidsUpTo
  <2>2. CASE x = a
    <3>1. CASE i \in 1..Len(bids[a])
      <4>1. bids'[a][i] = bids[a][i] /\ bids[a][i].amount \in Nat
        BY <1>1, <1>2, <3>1
      <4>2. bids[a][i].amount < n
        BY <1>3, <3>1 DEF BidsBelow
      <4> QED
        BY <1>0, <1>4, <2>2, <4>1, <4>2
    <3>2. CASE i \notin 1..Len(bids[a])
      <4>1. i = Len(bids[a]) + 1
        BY <1>1, <1>2, <2>2, <3>2
      <4> QED
        BY <1>0, <1>1, <1>4, <2>2, <4>1, SMTT(30)
    <3> QED
      BY <3>1, <3>2
  <2> QED
    BY <2>1, <2>2
<1>7. WindowBidBeatsAll'
  <2> SUFFICES ASSUME NEW x \in Bidders
               PROVE  LET ax == req'[x].auction IN
                      /\ InWindow(x)' => /\ seen'[x].status = Open
                                         /\ auction[ax].currentBid < req'[x].amount
                      /\ InWindow(x)' \/ pc'[x] = "append" =>
                           \A i \in 1..Len(bids'[ax]) :
                             bids'[ax][i].amount < req'[x].amount
                      /\ pc'[x] = "append" /\ auction[ax].status = Open
                           => auction[ax].currentBid = req'[x].amount
    BY <1>0 DEF WindowBidBeatsAll, BidsBelow
  <2>1. CASE x = b
    BY <1>0, <2>1 DEF InWindow
  <2>2. CASE x # b
    <3>1. /\ req'[x] = req[x] /\ seen'[x] = seen[x] /\ pc'[x] = pc[x]
          /\ InWindow(x)' = InWindow(x)
          /\ req[x].auction \in Auctions
      BY <1>0, <2>2 DEF InWindow, TypeOK, Request
    <3>2. InWindow(x) \/ pc[x] = "append" =>
            bids'[req[x].auction] = bids[req[x].auction]
      BY <1>1, <1>5, <2>2, <3>1
    <3> QED
      BY <3>1, <3>2 DEF BidOrder, WindowBidBeatsAll, BidsBelow
  <2> QED
    BY <2>1, <2>2
<1>8. ClosingCopyIsBehind'
  <2>1. \A x \in Bidders : InWindow(x)' => InWindow(x) /\ x # b
    BY <1>0 DEF InWindow
  <2> QED
    BY <1>0, <2>1 DEF BidOrder, ClosingCopyIsBehind
<1>9. BidsRise'
  <2> SUFFICES ASSUME NEW x \in Auctions,
                      NEW i \in 1..Len(bids'[x]), NEW j \in 1..Len(bids'[x]), i < j
               PROVE  bids'[x][i].amount < bids'[x][j].amount
    BY DEF BidsRise
  <2>1. CASE x # a
    BY <1>1, <2>1 DEF BidOrder, BidsRise
  <2>2. CASE x = a /\ j \in 1..Len(bids[a])
    <3>1. i \in 1..Len(bids[a])
      BY <1>1, <1>2, <2>2
    <3>2. bids[a][i].amount < bids[a][j].amount
      BY <1>0, <2>2, <3>1 DEF BidOrder, BidsRise
    <3> QED
      BY <1>1, <2>2, <3>1, <3>2
  <2>3. CASE x = a /\ j \notin 1..Len(bids[a])
    <3>1. j = Len(bids[a]) + 1 /\ i \in 1..Len(bids[a])
      BY <1>1, <1>2, <2>3
    <3> QED
      BY <1>1, <1>3, <2>3, <3>1 DEF BidsBelow
  <2> QED
    BY <2>1, <2>2, <2>3
<1> QED
  BY <1>6, <1>7, <1>8, <1>9 DEF BidOrder

\* A closing thread takes a copy of an open auction.
LEMMA StartCloseStep ==
  ASSUME TypeOK, BidOrder, UNCHANGED <<auction, bids>>,
         NEW c \in Closers, NEW a \in Auctions,
         auction[a].status = Open, StartClose(c, a)
  PROVE  BidOrder'
<1> USE DEF Threads, Closers, Users
<1>0. /\ \A t \in Threads : t # c => /\ pc'[t] = pc[t]
                                      /\ req'[t] = req[t]
                                      /\ seen'[t] = seen[t]
      /\ req'[c].auction = a /\ seen'[c] = auction[a]
      /\ c \notin Bidders
      /\ auction[a].currentBid \in Nat
  BY DEF StartClose, Goto, TypeOK, AuctionRecord
<1>1. OpenPriceCoversBids' /\ BidsRise'
  BY DEF BidOrder, OpenPriceCoversBids, BidsUpTo, BidsRise
<1>2. WindowBidBeatsAll'
  BY <1>0 DEF BidOrder, WindowBidBeatsAll, BidsBelow, InWindow
<1>3. ClosingCopyIsBehind'
  <2> SUFFICES ASSUME NEW d \in Closers, pc'[d] = "close"
               PROVE  LET ad == req'[d].auction IN
                      /\ auction[ad].status = Open =>
                           seen'[d].currentBid <= auction[ad].currentBid
                      /\ \A b \in Bidders :
                           InWindow(b) /\ req[b].auction = ad
                             => seen'[d].currentBid < req[b].amount
    BY <1>0 DEF ClosingCopyIsBehind, InWindow
  <2>1. CASE d = c
    BY <1>0, <2>1 DEF BidOrder, WindowBidBeatsAll
  <2>2. CASE d # c
    BY <1>0, <2>2 DEF BidOrder, ClosingCopyIsBehind
  <2> QED
    BY <2>1, <2>2
<1> QED
  BY <1>1, <1>2, <1>3 DEF BidOrder

\* A closing thread writes its copy back, however old: the auction is
\* closed, and the price is not above that of any bid on its way.
LEMMA CloseWriteStep ==
  ASSUME TypeOK, BidOrder, NEW c \in Closers, CloseWriteAuction(c)
  PROVE  BidOrder'
<1> USE DEF Threads, Closers, Users
<1> DEFINE a == req[c].auction
<1>0. /\ UNCHANGED bids
      /\ pc[c] = "close" /\ pc'[c] # "close"
      /\ \A t \in Threads : t # c => /\ pc'[t] = pc[t]
                                      /\ req'[t] = req[t]
                                      /\ seen'[t] = seen[t]
      /\ c \notin Bidders
      /\ a \in Auctions
  BY ZenonT(30) DEF CloseWriteAuction, Return, Leave, Goto, TypeOK, Request
<1>1. /\ \A x \in Auctions : x # a => auction'[x] = auction[x]
      /\ auction'[a].status = Closed
      /\ auction'[a].currentBid = seen[c].currentBid
  <2>1. auction' = [auction EXCEPT ![a] = [seen[c] EXCEPT !.status = Closed]]
    BY DEF CloseWriteAuction
  <2>2. seen[c] \in AuctionRecord
    BY DEF TypeOK
  <2> HIDE DEF a
  <2> QED
    BY <1>0, <2>1, <2>2 DEF TypeOK, AuctionRecord
<1>2. \A b \in Bidders : InWindow(b) /\ req[b].auction = a
        => seen[c].currentBid < req[b].amount
  BY <1>0 DEF BidOrder, ClosingCopyIsBehind
<1> HIDE DEF a
<1>3. OpenPriceCoversBids'
  BY <1>0, <1>1 DEF BidOrder, OpenPriceCoversBids, BidsUpTo, Open, Closed
<1>4. WindowBidBeatsAll'
  <2> SUFFICES ASSUME NEW b \in Bidders
               PROVE  LET ab == req[b].auction IN
                      /\ InWindow(b) => /\ seen[b].status = Open
                                        /\ auction'[ab].currentBid < req[b].amount
                      /\ InWindow(b) \/ pc[b] = "append" =>
                           BidsBelow(ab, req[b].amount)
                      /\ pc[b] = "append" /\ auction'[ab].status = Open
                           => auction'[ab].currentBid = req[b].amount
    BY <1>0 DEF WindowBidBeatsAll, BidsBelow, InWindow
  <2>1. CASE req[b].auction = a
    BY <1>1, <1>2, <2>1 DEF BidOrder, WindowBidBeatsAll, Open, Closed
  <2>2. CASE req[b].auction # a
    <3>1. auction'[req[b].auction] = auction[req[b].auction]
      BY <1>1, <2>2 DEF TypeOK, Request
    <3> QED
      BY <3>1 DEF BidOrder, WindowBidBeatsAll
  <2> QED
    BY <2>1, <2>2
<1>5. ClosingCopyIsBehind'
  <2> SUFFICES ASSUME NEW d \in Closers, pc'[d] = "close"
               PROVE  LET ad == req[d].auction IN
                      /\ auction'[ad].status = Open =>
                           seen[d].currentBid <= auction'[ad].currentBid
                      /\ \A b \in Bidders :
                           InWindow(b) /\ req[b].auction = ad
                             => seen[d].currentBid < req[b].amount
    BY <1>0 DEF ClosingCopyIsBehind, InWindow
  <2>1. d # c /\ pc[d] = "close" /\ req[d].auction \in Auctions
    BY <1>0 DEF TypeOK, Request
  <2>2. auction'[req[d].auction].status = Open =>
          auction'[req[d].auction] = auction[req[d].auction]
    BY <1>1, <2>1 DEF Open, Closed
  <2> QED
    BY <2>1, <2>2 DEF BidOrder, ClosingCopyIsBehind
<1>6. BidsRise'
  BY <1>0 DEF BidOrder, BidsRise
<1> QED
  BY <1>3, <1>4, <1>5, <1>6 DEF BidOrder

\* Every step keeps the order of prices and bids.
LEMMA NextBidOrder ==
  ASSUME TypeOK, OneBidderPerSemaphore, BidOrder, Next
  PROVE  BidOrder'
<1> USE DEF Threads, Closers, Users
<1>0. pc \in [Threads -> BidderLabels \cup CloserLabels]
  BY DEF TypeOK
<1>1. ASSUME NEW b \in Bidders, BidPeek(b) \/ PlaceBidStep(b)
      PROVE  BidOrder'
  <2>1. CASE BidReread(b) /\ BidAdmissible(b, auction[req[b].auction])
    BY <2>1, AdmittedStep
  <2>2. CASE BidReread(b) /\ ~BidAdmissible(b, auction[req[b].auction])
    BY <1>0, <2>2, QuietStep DEF BidReread, Return, Leave, Goto, InWindow, TypeOK
  <2>3. CASE BidPeek(b) \/ BidCheckFunds(b) \/ BidEnter(b)
    BY <1>0, <2>3, QuietStep
       DEF BidPeek, BidCheckFunds, BidEnter, Return, Leave, Goto, InWindow, TypeOK
  <2>4. CASE BidReleasePrevious(b) \/ BidPlaceHold(b)
    BY <1>0, <2>4, QuietStep
       DEF BidReleasePrevious, BidPlaceHold, Goto, InWindow
  <2>5. CASE BidWriteAuction(b)
    BY <2>5, BidWriteStep
  <2>6. CASE BidAppend(b)
    BY <2>6, BidAppendStep
  <2> QED
    BY <1>1, <2>1, <2>2, <2>3, <2>4, <2>5, <2>6 DEF PlaceBidStep
<1>2. ASSUME NEW c \in Closers, CloseStep(c) \/ CloseNotify(c)
      PROVE  BidOrder'
  <2>1. CASE CloseWriteAuction(c)
    BY <2>1, CloseWriteStep
  <2>2. CASE CloseLog(c) \/ CloseSettle(c) \/ CloseCredit(c) \/ CloseUnhold(c)
             \/ CloseNotify(c)
    BY <1>0, <2>2, QuietStep
       DEF CloseLog, CloseSettle, CloseCredit, CloseUnhold, CloseNotify, Return,
           Leave, Goto, InWindow, TypeOK
  <2> QED
    BY <1>2, <2>1, <2>2 DEF CloseStep
<1>3. CASE \E c \in Auctioneers : CloseRequest(c)
  BY <1>3, StartCloseStep DEF CloseRequest
<1>4. CASE TimerNext
  <2>1. PICK a \in queue : IF auction[a].status = Open THEN StartClose(Timer, a)
                           ELSE UNCHANGED <<pc, req, seen>>
    BY <1>4 DEF TimerNext
  <2>2. a \in Auctions /\ UNCHANGED <<auction, bids>>
    BY <1>4 DEF TimerNext, TypeOK
  <2>3. CASE auction[a].status = Open
    BY <2>1, <2>2, <2>3, StartCloseStep
  <2>4. CASE auction[a].status # Open
    BY <2>1, <2>2, <2>4, QuietStep DEF InWindow
  <2> QED
    BY <2>3, <2>4
<1>5. CASE TimerScan \/ (\E u \in Users : Deposit(u)) \/ (\E a \in Auctions : Expire(a))
  BY <1>5, QuietStep DEF TimerScan, Deposit, Expire, InWindow
<1>6. CASE Crash
  BY <1>6, QuietStep DEF Crash, InWindow
<1> QED
  BY <1>1, <1>2, <1>3, <1>4, <1>5, <1>6 DEF Next, Step

-----------------------------------------------------------------------------
(* The theorems *)

LEMMA InitInv == Init => BiddingInv
<1> SUFFICES ASSUME Init PROVE BiddingInv
  OBVIOUS
<1>1. TypeOK
  BY InitType
<1>2. WalletsSound
  BY DEF Init, WalletsSound, Sound
<1>3. \A t \in Threads : pc[t] = "idle"
  BY DEF Init
<1>4. OneBidderPerSemaphore /\ WindowBidBeatsAll /\ ClosingCopyIsBehind
  BY <1>3 DEF Init, OneBidderPerSemaphore, WindowBidBeatsAll, ClosingCopyIsBehind,
              InBidSection, InWindow, Threads, Closers
<1>5. \A a \in Auctions : bids[a] = <<>>
  BY DEF Init
<1>6. OpenPriceCoversBids /\ BidsRise
  BY <1>5 DEF OpenPriceCoversBids, BidsUpTo, BidsRise
<1> QED
  BY <1>1, <1>2, <1>4, <1>6 DEF BiddingInv

LEMMA NextInv == BiddingInv /\ [Next]_vars => BiddingInv'
<1> SUFFICES ASSUME BiddingInv, [Next]_vars PROVE BiddingInv'
  OBVIOUS
<1>0. TypeOK /\ WalletsSound /\ OneBidderPerSemaphore /\ BidOrder
  BY DEF BiddingInv, BidOrder
<1>1. TypeOK' /\ WalletsSound'
  BY <1>0, NextType, NextSound
<1>2. CASE Next
  <2>1. OneBidderPerSemaphore' /\ BidOrder'
    BY <1>0, <1>2, NextOneBidder, NextBidOrder
  <2> QED
    BY <1>1, <2>1 DEF BiddingInv, BidOrder
<1>3. CASE UNCHANGED vars
  <2>1. OneBidderPerSemaphore'
    BY <1>0, <1>3 DEF vars, OneBidderPerSemaphore, InBidSection
  <2>2. BidOrder'
    BY <1>0, <1>3, QuietStep DEF vars, InWindow
  <2> QED
    BY <1>1, <2>1, <2>2 DEF BiddingInv, BidOrder
<1> QED
  BY <1>2, <1>3

\* The invariant that explains why bids rise holds in every behaviour.
THEOREM BiddingInvariant == Spec => []BiddingInv
<1>1. Init => BiddingInv
  BY InitInv
<1>2. BiddingInv /\ [Next]_vars => BiddingInv'
  BY NextInv
<1> QED
  BY <1>1, <1>2, PTL DEF Spec

\* bids.dat holds rising amounts for every auction, with any number of
\* threads, overlapping closes and crashes.
THEOREM BidsAlwaysRise == Spec => []BidsRise
<1>1. BiddingInv => BidsRise
  BY DEF BiddingInv
<1> QED
  BY <1>1, BiddingInvariant, PTL

\* The price of an auction that is open after a step did not fall in it.
THEOREM PriceHolds == Spec => PriceNeverFallsWhileOpen
<1> DEFINE Holds ==
      \A a \in Auctions :
        auction'[a].status = Open => auction'[a].currentBid >= auction[a].currentBid
<1>1. ASSUME BiddingInv, [Next]_vars PROVE [Holds]_vars
  <2>0. /\ TypeOK
        /\ \A a \in Auctions : auction[a].currentBid \in Nat
    BY <1>1 DEF BiddingInv, TypeOK, AuctionRecord
  <2>1. CASE UNCHANGED auction
    BY <2>0, <2>1
  <2>2. ASSUME NEW b \in Bidders, BidWriteAuction(b) PROVE Holds
    <3>1. /\ req[b].auction \in Auctions /\ req[b].amount \in Nat
          /\ auction[req[b].auction].currentBid < req[b].amount
          /\ seen[b] \in AuctionRecord
      BY <1>1, <2>2 DEF BiddingInv, WindowBidBeatsAll, InWindow,
                        BidWriteAuction, TypeOK, Request, Threads
    <3>2. /\ auction'[req[b].auction].currentBid = req[b].amount
          /\ \A a \in Auctions : a # req[b].auction => auction'[a] = auction[a]
      BY <2>0, <2>2, <3>1 DEF BidWriteAuction, TypeOK, AuctionRecord
    <3> QED
      BY <2>0, <3>1, <3>2
  <2>3. ASSUME NEW c \in Closers, CloseWriteAuction(c) PROVE Holds
    <3>1. req[c].auction \in Auctions /\ seen[c] \in AuctionRecord
      BY <2>0 DEF TypeOK, Request, Threads
    <3>2. /\ auction'[req[c].auction].status = Closed
          /\ \A a \in Auctions : a # req[c].auction => auction'[a] = auction[a]
      BY <2>0, <2>3, <3>1 DEF CloseWriteAuction, TypeOK, AuctionRecord
    <3> QED
      BY <2>0, <3>1, <3>2 DEF Open, Closed
  <2>4. CASE Next
    <3>1. \/ UNCHANGED auction
          \/ \E b \in Bidders : BidWriteAuction(b)
          \/ \E c \in Closers : CloseWriteAuction(c)
      BY <2>4 DEF Next, Step, PlaceBidStep, BidPeek, BidCheckFunds, BidEnter,
                  BidReread, BidReleasePrevious, BidPlaceHold, BidAppend,
                  CloseRequest, CloseStep, CloseLog, CloseSettle, CloseCredit,
                  CloseUnhold, CloseNotify, TimerScan, TimerNext, Deposit, Expire, Crash
    <3> QED
      BY <2>1, <2>2, <2>3, <3>1
  <2> HIDE DEF Holds
  <2> QED
    BY <1>1, <2>4
<1> QED
  BY <1>1, BiddingInvariant, PTL DEF Spec, PriceNeverFallsWhileOpen

-----------------------------------------------------------------------------
(* What holds while no two threads overlap on an auction                   *)

InSettlement(c) == pc[c] \in {"wal", "settle", "credit", "unhold"}

Met ==
  \E s, t \in Threads, a \in Auctions :
    s # t /\ Committed(s, a) /\ Committed(t, a)

\* Two bidders are kept apart by the semaphore; the others are remembered.
CommittedAlone == Met => ~Alone

\* What a committed thread will write back is a change of what is on file.
CopyIsFresh ==
  Alone =>
    \A t \in Threads, a \in Auctions :
      Committed(t, a) => auction[a] = seen[t] /\ auction[a].status = Open

\* A settlement is about the auction as it is on file, closed and with a
\* highest bidder.
SettlesWhatIsFiled ==
  Alone =>
    \A c \in Closers : InSettlement(c) =>
      /\ auction[req[c].auction] = [seen[c] EXCEPT !.status = Closed]
      /\ seen[c].highestBidder \in Bidders

\* No auction is being settled twice at a time.
SettlesAlone ==
  Alone =>
    \A c, d \in Closers :
      InSettlement(c) /\ InSettlement(d) /\ req[c].auction = req[d].auction => c = d

\* Only a bidder is outbid.
ReleasesBidder ==
  \A b \in Bidders : pc[b] = "release" => seen[b].highestBidder \in Bidders

OrderInv ==
  /\ CommittedAlone
  /\ CopyIsFresh
  /\ SettlesWhatIsFiled
  /\ SettlesAlone
  /\ ReleasesBidder

\* The funds check made before the semaphore stays good up to place_hold.
FundsStay ==
  Orderly =>
    \A b \in Bidders :
      pc[b] \in {"sem", "reread", "release", "hold"} =>
        req[b].amount <= Available(wallet[b])

\* A hold covers what stands in its owner's name, also after a kill that
\* tore no bid apart (what was frozen for other purposes is never freed).
HoldsCover == Orderly => \A b \in Bidders : Frozen(b) <= wallet[b].hold

KillsAreCounted == torn => crashes > 0

MoneyInv ==
  /\ OrderInv
  /\ KillsAreCounted
  /\ FundsStay
  /\ HoldsCover
  /\ HoldsExact
  /\ MoneyConservedUndisturbed
  /\ NoMoneyCreatedByKill

\* A thread committed to an auction has it to itself.
LEMMA CommittedIsAlone ==
  ASSUME ~Met, NEW u \in Threads, NEW v \in Threads, NEW x \in Auctions,
         Committed(u, x), Committed(v, x)
  PROVE  u = v
BY DEF Met

\* Steps that do not write to auctions.dat: a thread commits itself to what
\* it has just read, and no settlement begins.
LEMMA OrderQuiet ==
  ASSUME OrderInv, ReleasesBidder', CommittedAlone', Alone' => Alone,
         UNCHANGED auction,
         \A t \in Threads, a \in Auctions : Committed(t, a)' =>
           \/ Committed(t, a) /\ seen'[t] = seen[t]
           \/ seen'[t] = auction[a] /\ auction[a].status = Open,
         \A c \in Closers : InSettlement(c)' =>
           InSettlement(c) /\ req'[c] = req[c] /\ seen'[c] = seen[c]
  PROVE  OrderInv'
BY DEF OrderInv, CopyIsFresh, SettlesWhatIsFiled, SettlesAlone

\* Steps that write an auction: only the thread that is committed to it does.
LEMMA OrderWrite ==
  ASSUME TypeOK, OrderInv, CommittedAlone', Alone' => Alone,
         NEW t \in Threads, NEW a \in Auctions, Committed(t, a),
         \A x \in Auctions : ~Committed(t, x)',
         pc[t] # "release", pc'[t] # "release",
         \A x \in Auctions \ {a} : auction'[x] = auction[x],
         \A s \in Threads \ {t} :
           pc'[s] = pc[s] /\ req'[s] = req[s] /\ seen'[s] = seen[s],
         t \in Closers /\ InSettlement(t)' =>
           /\ req'[t].auction = a
           /\ auction'[a] = [seen'[t] EXCEPT !.status = Closed]
           /\ seen'[t].highestBidder \in Bidders
  PROVE  OrderInv'
<1> USE DEF OrderInv
<1>1. ReleasesBidder'
  BY DEF ReleasesBidder, Threads, Users
<1> SUFFICES ASSUME Alone'
             PROVE  CopyIsFresh' /\ SettlesWhatIsFiled' /\ SettlesAlone'
  BY <1>1 DEF CopyIsFresh, SettlesWhatIsFiled, SettlesAlone
<1>2. Alone /\ auction[a].status = Open
  BY DEF CopyIsFresh
<1>0. ~Met
  BY <1>2 DEF CommittedAlone
<1>3. CopyIsFresh'
  <2> SUFFICES ASSUME NEW s \in Threads, NEW x \in Auctions, Committed(s, x)'
               PROVE  auction'[x] = seen'[s] /\ auction'[x].status = Open
    BY DEF CopyIsFresh
  <2>1. s # t /\ Committed(s, x)
    BY DEF Committed
  <2>2. ASSUME x = a PROVE FALSE
    <3>1. Committed(s, a)
      BY <2>1, <2>2
    <3> QED
      BY <1>0, <2>1, <3>1, CommittedIsAlone
  <2> QED
    BY <1>2, <2>1, <2>2 DEF CopyIsFresh
\* Whatever was being settled before is another auction.
<1>4. \A c \in Closers \ {t} : InSettlement(c)' =>
        /\ InSettlement(c) /\ req'[c] = req[c] /\ seen'[c] = seen[c]
        /\ req[c].auction \in Auctions \ {a}
  <2> SUFFICES ASSUME NEW c \in Closers \ {t}, InSettlement(c)'
               PROVE  /\ InSettlement(c) /\ req'[c] = req[c] /\ seen'[c] = seen[c]
                      /\ req[c].auction \in Auctions \ {a}
    OBVIOUS
  <2>1. /\ InSettlement(c) /\ req'[c] = req[c] /\ seen'[c] = seen[c]
        /\ req[c].auction \in Auctions
        /\ seen[c] \in AuctionRecord
    BY DEF InSettlement, Threads, TypeOK, Request
  <2>2. auction[req[c].auction] = [seen[c] EXCEPT !.status = Closed]
    BY <1>2, <2>1 DEF SettlesWhatIsFiled
  <2>3. auction[req[c].auction].status = Closed
    BY <2>1, <2>2 DEF AuctionRecord
  <2> QED
    BY <1>2, <2>1, <2>3 DEF Open, Closed
<1>5. SettlesWhatIsFiled'
  BY <1>2, <1>4 DEF SettlesWhatIsFiled
<1>6. SettlesAlone'
  BY <1>2, <1>4 DEF SettlesAlone
<1> QED
  BY <1>3, <1>5, <1>6

LEMMA NextOrder ==
  ASSUME TypeOK, OneBidderPerSemaphore', OrderInv, Next
  PROVE  OrderInv'
<1> USE DEF Threads, Closers, Users
<1>0. /\ pc \in [Threads -> BidderLabels \cup CloserLabels]
      /\ req \in [Threads -> Request]
      /\ seen \in [Threads -> AuctionRecord]
      /\ auction \in [Auctions -> AuctionRecord]
      /\ \A t \in Threads : req[t].auction \in Auctions
  BY DEF TypeOK, Request
<1>1. CommittedAlone' /\ (Alone' => Alone)
  <2>1. Alone' => Alone
    BY DEF Next, Remember, Alone
  <2>2. Met' => Overlap(Bidders)' \/ Overlap(Closers)'
    <3> SUFFICES ASSUME Met' PROVE Overlap(Bidders)' \/ Overlap(Closers)'
      OBVIOUS
    <3>1. PICK s \in Threads, t \in Threads, a \in Auctions :
            s # t /\ Committed(s, a)' /\ Committed(t, a)'
      BY DEF Met
    <3>2. CASE s \in Bidders /\ t \in Bidders
      <4>0. TypeOK'
        BY NextType
      <4>1. ASSUME NEW x \in Bidders, Committed(x, a)'
            PROVE  InBidSection(x)' /\ req'[x].auction = a
        BY <4>0, <4>1 DEF Committed, InBidSection, TypeOK, BidderLabels
      <4> QED
        BY <3>1, <3>2, <4>1 DEF OneBidderPerSemaphore
    <3>3. CASE s \in Closers \/ t \in Closers
      BY <3>1, <3>3 DEF Overlap
    <3> QED
      BY <3>2, <3>3
  <2>3. Overlap(Bidders)' \/ Overlap(Closers)' => ~Alone'
    BY DEF Next, Remember, Alone
  <2> QED
    BY <2>1, <2>2, <2>3 DEF CommittedAlone
<1> DEFINE Quiet ==
      /\ ReleasesBidder'
      /\ UNCHANGED auction
      /\ \A t \in Threads, a \in Auctions : Committed(t, a)' =>
           \/ Committed(t, a) /\ seen'[t] = seen[t]
           \/ seen'[t] = auction[a] /\ auction[a].status = Open
      /\ \A c \in Closers : InSettlement(c)' =>
           InSettlement(c) /\ req'[c] = req[c] /\ seen'[c] = seen[c]
<1>2. Quiet => OrderInv'
  BY <1>1, OrderQuiet
<1>3. ASSUME NEW b \in Bidders, BidPeek(b) \/ PlaceBidStep(b)
      PROVE  OrderInv'
  <2>1. CASE BidPeek(b) \/ BidCheckFunds(b) \/ BidEnter(b) \/ BidReleasePrevious(b)
             \/ BidPlaceHold(b) \/ BidAppend(b)
    <3>1. Quiet
      BY <1>0, <2>1
         DEF OrderInv, ReleasesBidder, Committed, InSettlement, BidPeek, BidCheckFunds,
             BidEnter, BidReleasePrevious, BidPlaceHold, BidAppend, Goto, Leave, Return
    <3> QED
      BY <1>2, <3>1
  <2>2. CASE BidReread(b)
    <3>1. ReleasesBidder'
      <4>1. /\ \A d \in Bidders \ {b} : pc'[d] = pc[d] /\ seen'[d] = seen[d]
            /\ pc'[b] = "release" => /\ seen'[b] = auction[req[b].auction]
                                    /\ auction[req[b].auction].highestBidder # NoBidder
        BY <1>0, <2>2 DEF BidReread, Goto, Leave, Return
      <4>2. auction[req[b].auction].highestBidder \in Bidders \cup {NoBidder}
        BY <1>0 DEF AuctionRecord
      <4> QED
        BY <4>1, <4>2 DEF OrderInv, ReleasesBidder
    <3>2. /\ UNCHANGED auction
          /\ \A t \in Threads \ {b} :
               pc'[t] = pc[t] /\ req'[t] = req[t] /\ seen'[t] = seen[t]
          /\ pc'[b] \in {"release", "hold", "idle"}
          /\ pc'[b] # "idle" => /\ req'[b] = req[b]
                               /\ seen'[b] = auction[req[b].auction]
                               /\ auction[req[b].auction].status = Open
      <4>1. CASE BidAdmissible(b, auction[req[b].auction])
        BY <1>0, <2>2, <4>1 DEF BidReread, BidAdmissible, Goto
      <4>2. CASE ~BidAdmissible(b, auction[req[b].auction])
        BY <1>0, <2>2, <4>2 DEF BidReread, Return, Leave, Goto
      <4> QED
        BY <4>1, <4>2
    <3>3. Quiet
      BY <3>1, <3>2 DEF Committed, InSettlement
    <3> QED
      BY <1>2, <3>3
  <2>3. CASE BidWriteAuction(b)
    <3>1. Committed(b, req[b].auction) /\ req[b].auction \in Auctions
      BY <1>0, <2>3 DEF Committed, BidWriteAuction
    <3>2. /\ \A x \in Auctions : ~Committed(b, x)'
          /\ pc[b] # "release" /\ pc'[b] # "release" /\ ~InSettlement(b)'
          /\ \A x \in Auctions \ {req[b].auction} : auction'[x] = auction[x]
          /\ \A t \in Threads \ {b} :
               pc'[t] = pc[t] /\ req'[t] = req[t] /\ seen'[t] = seen[t]
      BY <1>0, <2>3 DEF Committed, InSettlement, BidWriteAuction, Goto
    <3> QED
      BY <1>1, <3>1, <3>2, OrderWrite
  <2> QED
    BY <1>3, <2>1, <2>2, <2>3 DEF PlaceBidStep
<1>4. ASSUME NEW c \in Closers, CloseStep(c) \/ CloseNotify(c)
      PROVE  OrderInv'
  <2>1. CASE CloseWriteAuction(c)
    <3> PICK a \in Auctions : a = req[c].auction
      BY <1>0
    <3>1. Committed(c, a)
      BY <1>0, <2>1 DEF Committed, CloseWriteAuction
    <3>2. /\ pc'[c] \in {"wal", "unhold", "notify"} /\ pc[c] = "close"
          /\ \A x \in Auctions : ~Committed(c, x)'
          /\ \A x \in Auctions \ {a} : auction'[x] = auction[x]
          /\ \A t \in Threads \ {c} :
               pc'[t] = pc[t] /\ req'[t] = req[t] /\ seen'[t] = seen[t]
      BY <1>0, <2>1 DEF Committed, CloseWriteAuction, Goto, Leave, Return
    <3>3. InSettlement(c)' =>
            /\ req'[c].auction = a
            /\ auction'[a] = [seen'[c] EXCEPT !.status = Closed]
            /\ seen'[c].highestBidder \in Bidders
      BY <1>0, <2>1, <3>1
         DEF InSettlement, CloseWriteAuction, Goto, Leave, Return, HasSale, AuctionRecord
    <3> QED
      BY <1>1, <3>1, <3>2, <3>3, OrderWrite
  <2>2. CASE CloseLog(c) \/ CloseSettle(c) \/ CloseCredit(c) \/ CloseUnhold(c)
             \/ CloseNotify(c)
    <3>1. Quiet
      BY <1>0, <2>2
         DEF OrderInv, ReleasesBidder, Committed, InSettlement, CloseLog, CloseSettle,
             CloseCredit, CloseUnhold, CloseNotify, Goto, Leave, Return
    <3> QED
      BY <1>2, <3>1
  <2> QED
    BY <1>4, <2>1, <2>2 DEF CloseStep
<1>5. CASE \/ \E c \in Auctioneers : CloseRequest(c)
           \/ TimerNext
  <2>1. PICK c \in Closers :
          \/ UNCHANGED <<pc, req, seen, auction>>
          \/ \E a \in Auctions : auction[a].status = Open /\ StartClose(c, a)
                                /\ UNCHANGED auction
    BY <1>5 DEF CloseRequest, TimerNext, TypeOK
  <2>2. Quiet
    BY <1>0, <2>1
       DEF OrderInv, ReleasesBidder, Committed, InSettlement, StartClose, Goto
  <2> QED
    BY <1>2, <2>2
<1>6. CASE \/ TimerScan
           \/ \E u \in Users : Deposit(u)
           \/ \E a \in Auctions : Expire(a)
           \/ Crash
  <2>1. Quiet
    BY <1>6 DEF OrderInv, ReleasesBidder, Committed, InSettlement, TimerScan, Deposit,
                Expire, Crash
  <2> QED
    BY <1>2, <2>1
<1> QED
  BY <1>3, <1>4, <1>5, <1>6 DEF Next, Step

LEMMA InitOrder == Init => OrderInv
<1> SUFFICES ASSUME Init PROVE OrderInv
  OBVIOUS
<1>1. \A t \in Threads : pc[t] = "idle"
  BY DEF Init
<1>2. /\ \A t \in Threads, a \in Auctions : ~Committed(t, a)
      /\ \A c \in Closers : ~InSettlement(c)
      /\ \A b \in Bidders : pc[b] # "release"
  BY <1>1 DEF Committed, InSettlement, Threads
<1>3. ~Met
  BY <1>2 DEF Met
<1> QED
  BY <1>2, <1>3 DEF OrderInv, CommittedAlone, CopyIsFresh, SettlesWhatIsFiled,
                    SettlesAlone, ReleasesBidder

LEMMA StutterOrder ==
  ASSUME OrderInv, UNCHANGED vars
  PROVE  OrderInv'
<1>1. Met' = Met
  BY DEF vars, Met, Committed
<1> QED
  BY <1>1 DEF vars, OrderInv, CommittedAlone, CopyIsFresh, SettlesWhatIsFiled,
              SettlesAlone, ReleasesBidder, Committed, InSettlement, Alone

\* As long as no two threads overlap on an auction, each works on the record
\* as it is on file, and no auction is settled twice at a time.
THEOREM OrderHolds == Spec => []OrderInv
<1>1. Init => OrderInv
  BY InitOrder
<1>2. BiddingInv /\ BiddingInv' /\ OrderInv /\ [Next]_vars => OrderInv'
  BY NextOrder, StutterOrder DEF BiddingInv
<1> QED
  BY <1>1, <1>2, BiddingInvariant, PTL DEF Spec

-----------------------------------------------------------------------------
(* Why a closed auction is final, with any number of closing threads       *)

\* The copy of a closing thread is the auction as it is on file, but for an
\* end that another closing thread has put to it meanwhile.
CopyStands(c) ==
  /\ seen[c].status = Open
  /\ auction[req[c].auction] \in {seen[c], [seen[c] EXCEPT !.status = Closed]}

FinalInv ==
  ~raced =>
    /\ ~Overlap(Bidders)
    /\ \A b \in Bidders : InWindow(b) => auction[req[b].auction].status = Open
    /\ \A c \in Closers : pc[c] = "close" => CopyStands(c)

\* Steps that do not write to auctions.dat: whoever comes into a window or
\* begins to close has just read an open auction.
LEMMA FinalQuiet ==
  ASSUME FinalInv, ~raced, ~Overlap(Bidders)', UNCHANGED auction,
         \A b \in Bidders : InWindow(b)' =>
           \/ InWindow(b) /\ req'[b] = req[b]
           \/ auction[req'[b].auction].status = Open,
         \A c \in Closers : pc'[c] = "close" =>
           \/ pc[c] = "close" /\ req'[c] = req[c] /\ seen'[c] = seen[c]
           \/ seen'[c] = auction[req'[c].auction] /\ seen'[c].status = Open
  PROVE  FinalInv'
<1>1. \A b \in Bidders : InWindow(b)' => auction'[req'[b].auction].status = Open
  BY DEF FinalInv
<1>2. \A c \in Closers : pc'[c] = "close" => CopyStands(c)'
  BY DEF FinalInv, CopyStands
<1> QED
  BY <1>1, <1>2 DEF FinalInv

\* A bid is written while nobody closes the auction.
LEMMA FinalBidWrite ==
  ASSUME TypeOK, WindowBidBeatsAll, FinalInv, ~raced, ~Overlap(Bidders)',
         NEW b \in Bidders, BidWriteAuction(b)
  PROVE  FinalInv'
<1> USE DEF Threads, Closers, Users
<1> PICK a \in Auctions : a = req[b].auction
  BY DEF TypeOK, Request
<1>1. /\ pc[b] = "write" /\ pc' = [pc EXCEPT ![b] = "append"]
      /\ UNCHANGED <<req, seen>>
      /\ seen[b] \in AuctionRecord /\ seen[b].status = Open
  BY DEF BidWriteAuction, Goto, TypeOK, WindowBidBeatsAll, InWindow
<1>2. /\ auction'[a].status = Open
      /\ \A x \in Auctions \ {a} : auction'[x] = auction[x]
  BY <1>1 DEF BidWriteAuction, TypeOK, AuctionRecord
<1>3. ASSUME NEW d \in Bidders, InWindow(d)'
      PROVE  auction'[req'[d].auction].status = Open
  <2>1. InWindow(d) /\ req'[d] = req[d] /\ req[d].auction \in Auctions
    BY <1>1, <1>3 DEF InWindow, TypeOK, Request
  <2>2. auction[req[d].auction].status = Open
    BY <2>1 DEF FinalInv
  <2> QED
    BY <1>2, <2>1, <2>2
<1>4. ASSUME NEW c \in Closers, pc'[c] = "close" PROVE CopyStands(c)'
  <2>1. /\ pc[c] = "close" /\ c # b /\ UNCHANGED <<req, seen>>
        /\ req[c].auction \in Auctions /\ c \in Threads
    BY <1>1, <1>4 DEF TypeOK, Request
  <2>2. req[c].auction # a
    BY <1>1, <2>1 DEF FinalInv, Overlap, Committed
  <2>3. CopyStands(c)
    BY <2>1 DEF FinalInv
  <2> QED
    BY <1>2, <2>1, <2>2, <2>3 DEF CopyStands
<1> QED
  BY <1>3, <1>4 DEF FinalInv

\* A close is written while nobody bids on the auction; the copies of other
\* closing threads then differ from the file in the status only.
LEMMA FinalCloseWrite ==
  ASSUME TypeOK, FinalInv, ~raced, ~Overlap(Bidders)',
         NEW c \in Closers, CloseWriteAuction(c)
  PROVE  FinalInv'
<1> USE DEF Threads, Closers, Users
<1> PICK a \in Auctions : a = req[c].auction
  BY DEF TypeOK, Request
<1>1. /\ pc[c] = "close" /\ pc'[c] # "close" /\ c \notin Bidders
      /\ auction' = [auction EXCEPT ![a] = [seen[c] EXCEPT !.status = Closed]]
      /\ \A t \in Threads \ {c} :
           pc'[t] = pc[t] /\ req'[t] = req[t] /\ seen'[t] = seen[t]
  BY ZenonT(30) DEF CloseWriteAuction, Leave, Goto, TypeOK
<1>2. CopyStands(c) /\ seen[c] \in AuctionRecord
  BY <1>1 DEF FinalInv, TypeOK
<1>3. /\ auction'[a] = [seen[c] EXCEPT !.status = Closed]
      /\ \A x \in Auctions \ {a} : auction'[x] = auction[x]
  BY <1>1 DEF TypeOK
<1>4. ASSUME NEW b \in Bidders, InWindow(b)'
      PROVE  auction'[req'[b].auction].status = Open
  <2>1. InWindow(b) /\ req'[b] = req[b] /\ req[b].auction \in Auctions
    BY <1>1, <1>4 DEF InWindow, TypeOK, Request
  <2>2. req[b].auction # a
    BY <1>1, <2>1 DEF FinalInv, Overlap, Committed, InWindow
  <2>3. auction[req[b].auction].status = Open
    BY <2>1 DEF FinalInv
  <2> QED
    BY <1>3, <2>1, <2>2, <2>3
<1>5. ASSUME NEW d \in Closers, pc'[d] = "close" PROVE CopyStands(d)'
  <2>1. /\ pc[d] = "close" /\ d # c /\ req'[d] = req[d] /\ seen'[d] = seen[d]
        /\ req[d].auction \in Auctions /\ seen[d] \in AuctionRecord
    BY <1>1, <1>5 DEF TypeOK, Request
  <2>2. CopyStands(d)
    BY <2>1 DEF FinalInv
  <2>3. CASE req[d].auction # a
    BY <1>3, <2>1, <2>2, <2>3 DEF CopyStands
  <2>4. CASE req[d].auction = a
    <3>1. [seen[c] EXCEPT !.status = Closed] = [seen[d] EXCEPT !.status = Closed]
      BY <1>2, <2>1, <2>2, <2>4 DEF CopyStands, AuctionRecord, Open, Closed
    <3> QED
      BY <1>3, <2>1, <2>2, <2>4, <3>1 DEF CopyStands
  <2> QED
    BY <2>3, <2>4
<1> QED
  BY <1>4, <1>5 DEF FinalInv

LEMMA NextFinal ==
  ASSUME TypeOK, WindowBidBeatsAll, FinalInv, Next
  PROVE  FinalInv'
<1> USE DEF Threads, Closers, Users
<1> SUFFICES ASSUME ~raced' PROVE FinalInv'
  BY DEF FinalInv
<1>0. /\ ~raced /\ ~Overlap(Bidders)'
      /\ pc \in [Threads -> BidderLabels \cup CloserLabels]
      /\ req \in [Threads -> Request]
      /\ seen \in [Threads -> AuctionRecord]
  BY DEF Next, Remember, TypeOK
<1> DEFINE Quiet ==
      /\ UNCHANGED auction
      /\ \A b \in Bidders : InWindow(b)' =>
           \/ InWindow(b) /\ req'[b] = req[b]
           \/ auction[req'[b].auction].status = Open
      /\ \A c \in Closers : pc'[c] = "close" =>
           \/ pc[c] = "close" /\ req'[c] = req[c] /\ seen'[c] = seen[c]
           \/ seen'[c] = auction[req'[c].auction] /\ seen'[c].status = Open
<1>1. Quiet => FinalInv'
  BY <1>0, FinalQuiet
<1>2. ASSUME NEW b \in Bidders, BidPeek(b) \/ PlaceBidStep(b)
      PROVE  FinalInv'
  <2>1. CASE BidPeek(b) \/ BidCheckFunds(b) \/ BidEnter(b) \/ BidReleasePrevious(b)
             \/ BidPlaceHold(b) \/ BidAppend(b)
    <3>1. Quiet
      BY <1>0, <2>1
         DEF InWindow, BidPeek, BidCheckFunds, BidEnter, BidReleasePrevious,
             BidPlaceHold, BidAppend, Goto, Leave, Return
    <3> QED
      BY <1>1, <3>1
  <2>2. CASE BidReread(b)
    <3>1. Quiet
      BY <1>0, <2>2
         DEF InWindow, BidReread, BidAdmissible, Goto, Leave, Return
    <3> QED
      BY <1>1, <3>1
  <2>3. CASE BidWriteAuction(b)
    BY <1>0, <2>3, FinalBidWrite
  <2> QED
    BY <1>2, <2>1, <2>2, <2>3 DEF PlaceBidStep
<1>3. ASSUME NEW c \in Closers, CloseStep(c) \/ CloseNotify(c)
      PROVE  FinalInv'
  <2>1. CASE CloseWriteAuction(c)
    BY <1>0, <2>1, FinalCloseWrite
  <2>2. CASE CloseLog(c) \/ CloseSettle(c) \/ CloseCredit(c) \/ CloseUnhold(c)
             \/ CloseNotify(c)
    <3>1. Quiet
      BY <1>0, <2>2
         DEF InWindow, CloseLog, CloseSettle, CloseCredit, CloseUnhold, CloseNotify,
             Goto, Leave, Return
    <3> QED
      BY <1>1, <3>1
  <2> QED
    BY <1>3, <2>1, <2>2 DEF CloseStep
<1>4. CASE \/ \E c \in Auctioneers : CloseRequest(c)
           \/ TimerNext
  <2>1. PICK c \in Closers :
          \/ UNCHANGED <<pc, req, seen, auction>>
          \/ \E a \in Auctions : auction[a].status = Open /\ StartClose(c, a)
                                /\ UNCHANGED auction
    BY <1>4 DEF CloseRequest, TimerNext, TypeOK
  <2>2. Quiet
    BY <1>0, <2>1 DEF InWindow, StartClose, Goto
  <2> QED
    BY <1>1, <2>2
<1>5. CASE \/ TimerScan
           \/ \E u \in Users : Deposit(u)
           \/ \E a \in Auctions : Expire(a)
           \/ Crash
  <2>1. Quiet
    BY <1>5 DEF InWindow, TimerScan, Deposit, Expire, Crash
  <2> QED
    BY <1>1, <2>1
<1> QED
  BY <1>2, <1>3, <1>4, <1>5 DEF Next, Step

LEMMA InitFinal == Init => FinalInv
<1> SUFFICES ASSUME Init PROVE FinalInv
  OBVIOUS
<1>1. \A t \in Threads : pc[t] = "idle"
  BY DEF Init
<1> QED
  BY <1>1 DEF FinalInv, Overlap, Committed, InWindow, Threads

LEMMA StutterFinal ==
  ASSUME FinalInv, UNCHANGED vars
  PROVE  FinalInv'
BY DEF vars, FinalInv, Overlap, Committed, InWindow, CopyStands

\* As long as no bid overlaps with a close, whoever closes an auction holds a
\* copy that differs from the file in the status at most.
THEOREM FinalHolds == Spec => []FinalInv
<1>1. Init => FinalInv
  BY InitFinal
<1>2. BiddingInv /\ FinalInv /\ [Next]_vars => FinalInv'
  BY NextFinal, StutterFinal DEF BiddingInv
<1> QED
  BY <1>1, <1>2, BiddingInvariant, PTL DEF Spec

\* A closed auction keeps its winner and its price, through kills and
\* restarts and however many threads close it at once, unless a bid overlaps
\* with a close: bids are written to open auctions only, and a second close
\* writes what the first one wrote.
THEOREM ClosedStaysClosed == Spec => ClosedIsFinal
<1> DEFINE Holds ==
      ~raced' =>
        \A a \in Auctions : auction[a].status = Closed => auction'[a] = auction[a]
<1>1. ASSUME TypeOK, FinalInv, [Next]_vars PROVE [Holds]_vars
  <2>1. CASE UNCHANGED auction
    BY <2>1
  <2>2. ASSUME ~raced', Next, NEW b \in Bidders, BidWriteAuction(b)
        PROVE  Holds
    <3>1. ~raced /\ InWindow(b) /\ auction[req[b].auction].status = Open
      BY <1>1, <2>2 DEF Next, Remember, FinalInv, BidWriteAuction, InWindow
    <3>2. \A x \in Auctions \ {req[b].auction} : auction'[x] = auction[x]
      BY <1>1, <2>2 DEF TypeOK, BidWriteAuction
    <3> QED
      BY <3>1, <3>2 DEF Open, Closed
  <2>3. ASSUME ~raced', Next, NEW c \in Closers, CloseWriteAuction(c)
        PROVE  Holds
    <3>1. ~raced /\ CopyStands(c) /\ seen[c] \in AuctionRecord
      BY <1>1, <2>3 DEF Next, Remember, FinalInv, CloseWriteAuction, TypeOK, Threads
    <3>2. /\ req[c].auction \in Auctions
          /\ auction'[req[c].auction] = [seen[c] EXCEPT !.status = Closed]
          /\ \A x \in Auctions \ {req[c].auction} : auction'[x] = auction[x]
      BY <1>1, <2>3 DEF TypeOK, CloseWriteAuction, Request, Threads
    <3> QED
      BY <3>1, <3>2 DEF CopyStands, Open, Closed
  <2>4. CASE Next
    <3>1. \/ UNCHANGED auction
          \/ \E b \in Bidders : BidWriteAuction(b)
          \/ \E c \in Closers : CloseWriteAuction(c)
      BY <2>4 DEF Next, Step, PlaceBidStep, BidPeek, BidCheckFunds, BidEnter,
                  BidReread, BidReleasePrevious, BidPlaceHold, BidAppend,
                  CloseRequest, CloseStep, CloseLog, CloseSettle, CloseCredit,
                  CloseUnhold, CloseNotify, TimerScan, TimerNext, Deposit, Expire,
                  Crash
    <3> QED
      BY <2>1, <2>2, <2>3, <2>4, <3>1
  <2> HIDE DEF Holds
  <2> QED
    BY <1>1, <2>4
<1> QED
  BY <1>1, TypeCorrect, FinalHolds, PTL DEF Spec, ClosedIsFinal

-----------------------------------------------------------------------------
(* What a step does to the sums *)

OthersStay(t) ==
  \A s \in Threads \ {t} : pc'[s] = pc[s] /\ req'[s] = req[s] /\ seen'[s] = seen[s]

\* A thread at one of these labels counts in FrozenFor of its auction.
Works(t) == pc[t] \in {"hold", "write", "wal", "settle", "unhold"}

LEMMA FrozenType ==
  ASSUME TypeOK, NEW u \in Bidders
  PROVE  /\ [a \in Auctions |-> FrozenFor(u, a)] \in [Auctions -> Nat]
         /\ Frozen(u) \in Nat
         /\ \A a \in Auctions : FrozenFor(u, a) \in Nat /\ FrozenFor(u, a) <= Frozen(u)
<1>1. ASSUME NEW a \in Auctions PROVE FrozenFor(u, a) \in Nat
  <2>1. auction[a].currentBid \in Nat /\ req[u].amount \in Nat
    BY DEF TypeOK, AuctionRecord, Request, Threads
  <2> QED
    BY <2>1 DEF FrozenFor
<1> DEFINE f == [a \in Auctions |-> FrozenFor(u, a)]
<1>2. f \in [Auctions -> Nat] /\ \A a \in Auctions : f[a] = FrozenFor(u, a)
  BY <1>1
<1>3. Frozen(u) = SumFunction(f)
  BY DEF Frozen
<1> HIDE DEF f
<1>4. SumFunction(f) \in Nat
  BY <1>2, SumIsNat
<1>5. \A a \in Auctions : f[a] <= SumFunction(f)
  BY <1>2, SumBounds
<1> QED
  BY <1>1, <1>2, <1>3, <1>4, <1>5 DEF f

LEMMA FrozenTypeAfter ==
  ASSUME TypeOK', NEW u \in Bidders
  PROVE  /\ [a \in Auctions |-> FrozenFor(u, a)'] \in [Auctions -> Nat]
         /\ Frozen(u)' = SumFunction([a \in Auctions |-> FrozenFor(u, a)'])
         /\ Frozen(u)' \in Nat
<1>1. ASSUME NEW a \in Auctions PROVE FrozenFor(u, a)' \in Nat
  <2>1. auction'[a].currentBid \in Nat /\ req'[u].amount \in Nat
    BY DEF TypeOK, AuctionRecord, Request, Threads
  <2> QED
    BY <2>1 DEF FrozenFor
<1> DEFINE f == [a \in Auctions |-> FrozenFor(u, a)']
<1>2. f \in [Auctions -> Nat]
  BY <1>1
<1>3. Frozen(u)' = SumFunction(f)
  BY DEF Frozen
<1> HIDE DEF f
<1>4. SumFunction(f) \in Nat
  BY <1>2, SumIsNat
<1> QED
  BY <1>2, <1>3, <1>4 DEF f

\* One thread moves and what it does to auctions is about one of them: what
\* is frozen for the others stays.
LEMMA FrozenElsewhere ==
  ASSUME NEW t \in Threads, OthersStay(t), NEW x \in Auctions,
         auction'[x] = auction[x],
         Works(t) => req[t].auction # x,
         Works(t)' => req'[t].auction # x,
         NEW u \in Bidders
  PROVE  FrozenFor(u, x)' = FrozenFor(u, x)
<1>1. \A s \in Threads :
        /\ OnAuction(s, x, {"wal", "settle", "unhold"})'
             <=> OnAuction(s, x, {"wal", "settle", "unhold"})
        /\ OnAuction(s, x, {"hold", "write"})' <=> OnAuction(s, x, {"hold", "write"})
        /\ OnAuction(s, x, {"write"})' <=> OnAuction(s, x, {"write"})
        /\ OnAuction(s, x, {"write"}) => req'[s] = req[s]
  BY DEF OthersStay, Works, OnAuction
<1>2. u \in Threads /\ Bidders \subseteq Threads /\ Closers \subseteq Threads
  BY DEF Threads
<1> QED
  BY <1>1, <1>2 DEF FrozenFor

LEMMA FrozenMoves ==
  ASSUME TypeOK, TypeOK', NEW t \in Threads, OthersStay(t), NEW a \in Auctions,
         \A x \in Auctions \ {a} : auction'[x] = auction[x],
         Works(t) => req[t].auction = a,
         Works(t)' => req'[t].auction = a,
         NEW u \in Bidders
  PROVE  Frozen(u)' = Frozen(u) + FrozenFor(u, a)' - FrozenFor(u, a)
<1> DEFINE f == [x \in Auctions |-> FrozenFor(u, x)]
           g == [x \in Auctions |-> FrozenFor(u, x)']
<1>1. \A x \in Auctions \ {a} : g[x] = f[x]
  BY FrozenElsewhere
<1>2. f[a] = FrozenFor(u, a) /\ g[a] = FrozenFor(u, a)'
  OBVIOUS
<1>3. f \in [Auctions -> Nat] /\ g \in [Auctions -> Nat]
  BY FrozenType, FrozenTypeAfter
<1>4. Frozen(u) = SumFunction(f) /\ Frozen(u)' = SumFunction(g)
  BY FrozenTypeAfter DEF Frozen
<1> HIDE DEF f, g
<1>5. f \in [Auctions -> Int] /\ g \in [Auctions -> Int]
  BY <1>3
<1>6. SumFunction(g) = SumFunction(f) + g[a] - f[a]
  <2>1. IsFiniteSet(Auctions)
    BY DEF AuctionHouseAssumption
  <2> QED
    BY ONLY <1>1, <1>5, <2>1, SumUpdate, a \in Auctions
<1> QED
  BY <1>2, <1>4, <1>6

LEMMA FrozenStays ==
  ASSUME TypeOK, TypeOK', NEW t \in Threads, OthersStay(t), UNCHANGED auction,
         ~Works(t), ~Works(t)', NEW u \in Bidders
  PROVE  Frozen(u)' = Frozen(u)
<1>1. \A x \in Auctions : FrozenFor(u, x)' = FrozenFor(u, x)
  BY FrozenElsewhere
<1>2. [x \in Auctions |-> FrozenFor(u, x)'] = [x \in Auctions |-> FrozenFor(u, x)]
  BY <1>1
<1> QED
  BY <1>2, FrozenTypeAfter DEF Frozen

\* A wallet call changes one record, and the sum of the balances by what it
\* does to that one.
LEMMA OneWallet ==
  ASSUME TypeOK, TypeOK', NEW op, NEW u \in Users, NEW n, WalletCall(op, u, n)
  PROVE  /\ wallet'[u] = Outcome(op, wallet[u], n)
         /\ \A v \in Users \ {u} : wallet'[v] = wallet[v]
         /\ MoneyInWallets' = MoneyInWallets + wallet'[u].balance - wallet[u].balance
<1>1. /\ wallet'[u] = Outcome(op, wallet[u], n)
      /\ \A v \in Users \ {u} : wallet'[v] = wallet[v]
  BY DEF WalletCall, TypeOK
<1> DEFINE f == [v \in Users |-> wallet[v].balance]
           g == [v \in Users |-> wallet'[v].balance]
<1>2. /\ f \in [Users -> Int] /\ g \in [Users -> Int]
      /\ f[u] = wallet[u].balance /\ g[u] = wallet'[u].balance
      /\ \A v \in Users \ {u} : g[v] = f[v]
  BY <1>1 DEF TypeOK, WalletRecord
<1>3. MoneyInWallets = SumFunction(f) /\ MoneyInWallets' = SumFunction(g)
  BY DEF MoneyInWallets
<1>4. IsFiniteSet(Users)
  BY FS_Union DEF Users
<1> HIDE DEF f, g
<1>5. SumFunction(g) = SumFunction(f) + g[u] - f[u]
  BY <1>2, <1>4, SumUpdate
<1> QED
  BY <1>1, <1>2, <1>3, <1>5

LEMMA MoneyType ==
  ASSUME TypeOK
  PROVE  MoneyInWallets \in Nat /\ MoneyInTransit \in Nat
<1> DEFINE f == [u \in Users |-> wallet[u].balance]
           g == [c \in Closers |-> IF pc[c] = "credit" THEN seen[c].currentBid ELSE 0]
<1>1. f \in [Users -> Nat] /\ g \in [Closers -> Nat]
  BY DEF TypeOK, WalletRecord, AuctionRecord, Threads
<1>2. IsFiniteSet(Users) /\ IsFiniteSet(Closers)
  BY FS_Union, FS_Singleton DEF Users, Closers
<1>3. MoneyInWallets = SumFunction(f) /\ MoneyInTransit = SumFunction(g)
  BY DEF MoneyInWallets, MoneyInTransit
<1> HIDE DEF f, g
<1> QED
  BY <1>1, <1>2, <1>3, SumIsNat

LEMMA MoneyTypeAfter ==
  ASSUME TypeOK'
  PROVE  MoneyInWallets' \in Nat /\ MoneyInTransit' \in Nat
<1> DEFINE f == [u \in Users |-> wallet'[u].balance]
           g == [c \in Closers |-> IF pc'[c] = "credit" THEN seen'[c].currentBid ELSE 0]
<1>1. f \in [Users -> Nat] /\ g \in [Closers -> Nat]
  BY DEF TypeOK, WalletRecord, AuctionRecord, Threads
<1>2. IsFiniteSet(Users) /\ IsFiniteSet(Closers)
  BY FS_Union, FS_Singleton DEF Users, Closers
<1>3. MoneyInWallets' = SumFunction(f) /\ MoneyInTransit' = SumFunction(g)
  BY DEF MoneyInWallets, MoneyInTransit
<1> HIDE DEF f, g
<1> QED
  BY <1>1, <1>2, <1>3, SumIsNat

InTransit(c) == IF pc[c] = "credit" THEN seen[c].currentBid ELSE 0

LEMMA TransitMoves ==
  ASSUME TypeOK, TypeOK', NEW c \in Closers, OthersStay(c)
  PROVE  MoneyInTransit' = MoneyInTransit + InTransit(c)' - InTransit(c)
<1> DEFINE f == [d \in Closers |-> IF pc[d] = "credit" THEN seen[d].currentBid ELSE 0]
           g == [d \in Closers |-> IF pc'[d] = "credit" THEN seen'[d].currentBid ELSE 0]
<1>1. /\ f \in [Closers -> Int] /\ g \in [Closers -> Int]
      /\ f[c] = InTransit(c) /\ g[c] = InTransit(c)'
      /\ \A d \in Closers \ {c} : g[d] = f[d]
  BY DEF TypeOK, AuctionRecord, Threads, InTransit, OthersStay
<1>2. IsFiniteSet(Closers)
  BY FS_Union, FS_Singleton DEF Closers
<1>3. MoneyInTransit = SumFunction(f) /\ MoneyInTransit' = SumFunction(g)
  BY DEF MoneyInTransit
<1> HIDE DEF f, g
<1>4. SumFunction(g) = SumFunction(f) + g[c] - f[c]
  BY <1>1, <1>2, SumUpdate
<1> QED
  BY <1>1, <1>3, <1>4

LEMMA TransitStays ==
  ASSUME \A c \in Closers : InTransit(c)' = InTransit(c)
  PROVE  MoneyInTransit' = MoneyInTransit
<1>1. [c \in Closers |-> IF pc'[c] = "credit" THEN seen'[c].currentBid ELSE 0]
        = [c \in Closers |-> IF pc[c] = "credit" THEN seen[c].currentBid ELSE 0]
  BY DEF InTransit
<1> QED
  BY <1>1 DEF MoneyInTransit

\* What every step but a kill preserves: the difference between what a
\* bidder has on hold and what stands in his name, the sum of all money but
\* for deposits, and the funds of the bids that are on their way.
HoldsKept ==
  \A u \in Bidders : wallet'[u].hold - Frozen(u)' = wallet[u].hold - Frozen(u)
MoneyKept ==
  MoneyInWallets' + MoneyInTransit' - deposited'
    = MoneyInWallets + MoneyInTransit - deposited
FundsKept ==
  \A b \in Bidders :
    pc'[b] \in {"sem", "reread", "release", "hold"} =>
      req'[b].amount <= Available(wallet'[b])
BooksKept == HoldsKept /\ MoneyKept /\ FundsKept

\* The assumptions under which a step preserves them.
InOrder ==
  /\ TypeOK /\ TypeOK'
  /\ WalletsSound /\ OrderInv /\ FundsStay /\ HoldsCover
  /\ Alone /\ ~torn /\ ~Met'

\* The available funds of the bidders fall only through their own holds.
LEMMA FundsMove ==
  ASSUME InOrder, NEW t \in Threads, OthersStay(t),
         \A b \in Bidders \ {t} : Available(wallet'[b]) >= Available(wallet[b]),
         t \in Bidders /\ pc'[t] \in {"sem", "reread", "release", "hold"} =>
           \/ req'[t].amount <= Available(wallet'[t])
           \/ /\ pc[t] \in {"sem", "reread", "release", "hold"}
              /\ req'[t] = req[t]
              /\ Available(wallet'[t]) >= Available(wallet[t])
  PROVE  FundsKept
<1> SUFFICES ASSUME NEW b \in Bidders, pc'[b] \in {"sem", "reread", "release", "hold"}
             PROVE  req'[b].amount <= Available(wallet'[b])
  BY DEF FundsKept
<1>1. /\ req[b].amount \in Int /\ req'[b].amount \in Int
      /\ Available(wallet[b]) \in Int /\ Available(wallet'[b]) \in Int
  <2>1. /\ req[b] \in Request /\ req'[b] \in Request
        /\ wallet[b] \in WalletRecord /\ wallet'[b] \in WalletRecord
    BY DEF InOrder, TypeOK, Threads, Users
  <2> QED
    BY <2>1 DEF Request, WalletRecord, Available
<1>2. pc[b] \in {"sem", "reread", "release", "hold"} => req[b].amount <= Available(wallet[b])
  BY DEF InOrder, FundsStay, Orderly
<1>3. CASE b # t
  <2>1. pc'[b] = pc[b] /\ req'[b] = req[b]
    BY <1>3 DEF OthersStay, Threads
  <2>2. Available(wallet'[b]) >= Available(wallet[b])
    BY <1>3
  <2> QED
    BY <1>1, <1>2, <2>1, <2>2
<1>4. CASE b = t
  BY <1>1, <1>2, <1>4
<1> QED
  BY <1>3, <1>4

\* A thread that neither starts nor ends a piece of work on an auction, nor
\* touches a wallet, keeps the books.
LEMMA BooksQuiet ==
  ASSUME InOrder, NEW t \in Threads, OthersStay(t),
         UNCHANGED <<auction, wallet, deposited>>,
         ~Works(t), ~Works(t)',
         t \in Closers => pc[t] # "credit" /\ pc'[t] # "credit",
         t \in Bidders /\ pc'[t] \in {"sem", "reread", "release"} =>
           \/ req'[t].amount <= Available(wallet[t])
           \/ /\ pc[t] \in {"sem", "reread", "release"}
              /\ req'[t] = req[t]
  PROVE  BooksKept
<1>1. HoldsKept
  BY FrozenStays DEF HoldsKept, InOrder
<1>2. \A c \in Closers : InTransit(c)' = InTransit(c)
  BY DEF InTransit, OthersStay, Threads
<1>3. MoneyKept
  BY <1>2, TransitStays DEF MoneyKept, MoneyInWallets
<1>4. \A b \in Bidders : Available(wallet[b]) \in Int
  BY DEF InOrder, TypeOK, WalletRecord, Available, Users
<1>5. FundsKept
  BY <1>4, FundsMove DEF Works
<1> QED
  BY <1>1, <1>3, <1>5 DEF BooksKept

\* No bidder but b and no settlement counts for an auction that b has to
\* itself.
LEMMA NobodyElseBids ==
  ASSUME TypeOK, ~Met, NEW t \in Threads, NEW a \in Auctions, Committed(t, a),
         NEW d \in Threads, d # t
  PROVE  ~OnAuction(d, a, {"hold", "write"}) /\ ~OnAuction(d, a, {"write"})
BY CommittedIsAlone DEF OnAuction, Committed

\* What is frozen for one auction is on hold.
LEMMA HoldCoversOne ==
  ASSUME InOrder, NEW u \in Bidders, NEW a \in Auctions
  PROVE  FrozenFor(u, a) <= wallet[u].hold
<1>1. Frozen(u) <= wallet[u].hold
  BY DEF InOrder, HoldsCover, Orderly
<1>2. /\ FrozenFor(u, a) \in Nat /\ FrozenFor(u, a) <= Frozen(u) /\ Frozen(u) \in Nat
      /\ wallet[u].hold \in Nat
  BY FrozenType DEF InOrder, TypeOK, WalletRecord, Users
<1> QED
  BY <1>1, <1>2

\* A step on auction a that moves the hold of bidder p along with what is
\* frozen for him.
LEMMA HoldsMove ==
  ASSUME InOrder, NEW t \in Threads, OthersStay(t), NEW a \in Auctions,
         \A x \in Auctions \ {a} : auction'[x] = auction[x],
         Works(t) => req[t].auction = a,
         Works(t)' => req'[t].auction = a,
         NEW p \in Bidders,
         wallet'[p].hold - FrozenFor(p, a)' = wallet[p].hold - FrozenFor(p, a),
         \A u \in Bidders \ {p} :
           wallet'[u] = wallet[u] /\ FrozenFor(u, a)' = FrozenFor(u, a)
  PROVE  HoldsKept
<1> SUFFICES ASSUME NEW u \in Bidders
             PROVE  wallet'[u].hold - Frozen(u)' = wallet[u].hold - Frozen(u)
  BY DEF HoldsKept
<1>0. TypeOK /\ TypeOK'
  BY DEF InOrder
<1>1. Frozen(u)' = Frozen(u) + FrozenFor(u, a)' - FrozenFor(u, a)
  BY <1>0, FrozenMoves
<1>2. /\ Frozen(u) \in Nat /\ FrozenFor(u, a) \in Nat
      /\ [x \in Auctions |-> FrozenFor(u, x)'] \in [Auctions -> Nat]
  BY <1>0, FrozenType, FrozenTypeAfter
<1>3. FrozenFor(u, a)' \in Nat
  BY <1>2
<1>4. wallet[u].hold \in Nat /\ wallet'[u].hold \in Nat
  BY <1>0 DEF TypeOK, WalletRecord, Users
<1> QED
  BY <1>1, <1>2, <1>3, <1>4

LEMMA ReleaseKeeps ==
  ASSUME InOrder, NEW b \in Bidders, BidReleasePrevious(b)
  PROVE  BooksKept
<1> USE DEF Threads, Users
<1>0. TypeOK /\ TypeOK' /\ Alone /\ ~Met /\ OrderInv
  BY DEF InOrder, OrderInv, CommittedAlone, Met
<1> PICK a \in Auctions, p \in Bidders, n \in Nat :
      a = req[b].auction /\ p = seen[b].highestBidder /\ n = seen[b].currentBid
  BY <1>0 DEF TypeOK, Request, AuctionRecord, BidReleasePrevious, OrderInv,
              ReleasesBidder
<1>1. /\ Committed(b, a) /\ auction[a] = seen[b] /\ auction[a].status = Open
      /\ pc[b] = "release" /\ pc'[b] = "hold" /\ req'[b].auction = a
      /\ OthersStay(b) /\ UNCHANGED <<auction, req, seen, deposited>>
  BY <1>0 DEF TypeOK, Request, AuctionRecord, BidReleasePrevious, Goto, Committed,
              OrderInv, CopyIsFresh, ReleasesBidder, OthersStay
<1>2. WalletCall("release", p, n) /\ wallet[p] \in WalletRecord /\ Sound(wallet[p])
  BY <1>0, <1>1 DEF BidReleasePrevious, InOrder, WalletsSound, TypeOK
\* The standing bid counts before the step and not after it.
<1>3. \A d \in Bidders : ~OnAuction(d, a, {"hold", "write"}) /\ ~OnAuction(d, a, {"write"})
  BY <1>0, <1>1, NobodyElseBids DEF OnAuction
<1>4. \A u \in Bidders : FrozenFor(u, a) = IF u = p THEN n ELSE 0
  BY <1>1, <1>3 DEF FrozenFor
<1>5. \A u \in Bidders : FrozenFor(u, a)' = 0
  <2>1. \A d \in Bidders : ~OnAuction(d, a, {"write"})'
    BY <1>1, <1>3 DEF OnAuction, OthersStay
  <2>2. OnAuction(b, a, {"hold", "write"})'
    BY <1>1 DEF OnAuction
  <2> QED
    BY <2>1, <2>2 DEF FrozenFor
\* The bidder has it on hold, so the release is not clamped.
<1>6. n <= wallet[p].hold
  BY <1>1, <1>4, HoldCoversOne
<1>7. Outcome("release", wallet[p], n)
        = [balance |-> wallet[p].balance, hold |-> wallet[p].hold - n]
  BY <1>1, <1>2, <1>6, ReleaseOutcome DEF WalletRecord
<1>8. /\ wallet'[p] = [balance |-> wallet[p].balance, hold |-> wallet[p].hold - n]
      /\ \A v \in Users \ {p} : wallet'[v] = wallet[v]
      /\ MoneyInWallets' = MoneyInWallets
  <2>1. wallet[p].balance \in Nat /\ MoneyInWallets \in Nat
    BY <1>0, <1>2, MoneyType DEF WalletRecord
  <2> QED
    BY <1>0, <1>2, <1>7, <2>1, OneWallet
<1>9. HoldsKept
  <2>1. Works(b)' => req'[b].auction = a
    BY <1>1
  <2>2. wallet'[p].hold - FrozenFor(p, a)' = wallet[p].hold - FrozenFor(p, a)
    BY <1>1, <1>2, <1>4, <1>5, <1>8 DEF WalletRecord
  <2>3. \A u \in Bidders \ {p} :
          wallet'[u] = wallet[u] /\ FrozenFor(u, a)' = FrozenFor(u, a)
    BY <1>4, <1>5, <1>8
  <2> QED
    BY <1>1, <2>1, <2>2, <2>3, HoldsMove DEF Works
<1>10. MoneyKept
  <2>1. \A c \in Closers : InTransit(c)' = InTransit(c)
    BY <1>0, <1>1 DEF InTransit, OthersStay, TypeOK
  <2> QED
    BY <1>1, <1>8, <2>1, TransitStays DEF MoneyKept
<1>11. FundsKept
  <2>1. \A u \in Bidders : wallet[u] \in WalletRecord
    BY <1>0 DEF TypeOK
  <2>2. \A u \in Bidders : Available(wallet'[u]) >= Available(wallet[u])
    BY <1>1, <1>8, <2>1 DEF Available, WalletRecord
  <2> QED
    BY <1>1, <2>2, FundsMove
<1> QED
  BY <1>9, <1>10, <1>11 DEF BooksKept

LEMMA HoldKeeps ==
  ASSUME InOrder, NEW b \in Bidders, BidPlaceHold(b)
  PROVE  BooksKept
<1> USE DEF Threads, Users
<1>0. TypeOK /\ TypeOK' /\ Alone /\ ~Met /\ OrderInv
  BY DEF InOrder, OrderInv, CommittedAlone, Met
<1> PICK a \in Auctions, n \in Nat : a = req[b].auction /\ n = req[b].amount
  BY <1>0 DEF TypeOK, Request
<1>1. /\ Committed(b, a)
      /\ pc[b] = "hold" /\ pc'[b] = "write" /\ req'[b].auction = a
      /\ OthersStay(b) /\ UNCHANGED <<auction, req, seen, deposited>>
  BY <1>0 DEF TypeOK, Request, BidPlaceHold, Goto, Committed, OthersStay
<1>2. WalletCall("hold", b, n) /\ wallet[b] \in WalletRecord
  BY <1>0, <1>1 DEF BidPlaceHold, TypeOK
<1>3. n <= Available(wallet[b])
  BY <1>1 DEF InOrder, FundsStay, Orderly
<1>4. req'[b].amount = n /\ b \in Threads
  BY <1>1
<1>5. \A d \in Bidders \ {b} :
        ~OnAuction(d, a, {"write"}) /\ ~OnAuction(d, a, {"write"})'
  BY <1>0, <1>1, NobodyElseBids DEF OnAuction, OthersStay
<1>6. \A u \in Bidders : FrozenFor(u, a) = 0
  <2>1. OnAuction(b, a, {"hold", "write"}) /\ ~OnAuction(b, a, {"write"})
    BY <1>1 DEF OnAuction
  <2> QED
    BY <1>5, <2>1 DEF FrozenFor
<1>7. \A u \in Bidders : FrozenFor(u, a)' = IF u = b THEN n ELSE 0
  <2>1. OnAuction(b, a, {"hold", "write"})' /\ OnAuction(b, a, {"write"})'
    BY <1>1 DEF OnAuction
  <2> QED
    BY <1>1, <1>4, <1>5, <2>1 DEF FrozenFor
<1>8. /\ wallet'[b] = [balance |-> wallet[b].balance, hold |-> wallet[b].hold + n]
      /\ \A v \in Users \ {b} : wallet'[v] = wallet[v]
      /\ MoneyInWallets' = MoneyInWallets
  <2>1. Outcome("hold", wallet[b], n)
          = [balance |-> wallet[b].balance, hold |-> wallet[b].hold + n]
    BY <1>2, <1>3, HoldOutcome
  <2>2. wallet[b].balance \in Nat /\ MoneyInWallets \in Nat
    BY <1>0, <1>2, MoneyType DEF WalletRecord
  <2> QED
    <3>1. /\ wallet'[b] = Outcome("hold", wallet[b], n)
          /\ \A v \in Users \ {b} : wallet'[v] = wallet[v]
          /\ MoneyInWallets' = MoneyInWallets + wallet'[b].balance - wallet[b].balance
      BY <1>0, <1>2, OneWallet
    <3> QED
      BY <2>1, <2>2, <3>1
<1>9. HoldsKept
  <2>1. wallet'[b].hold - FrozenFor(b, a)' = wallet[b].hold - FrozenFor(b, a)
    BY <1>1, <1>2, <1>6, <1>7, <1>8 DEF WalletRecord
  <2>2. \A u \in Bidders \ {b} :
          wallet'[u] = wallet[u] /\ FrozenFor(u, a)' = FrozenFor(u, a)
    BY <1>6, <1>7, <1>8
  <2> QED
    BY <1>1, <2>1, <2>2, HoldsMove DEF Works
<1>10. MoneyKept
  <2>1. \A c \in Closers : InTransit(c)' = InTransit(c)
    BY <1>0, <1>1 DEF InTransit, OthersStay, TypeOK
  <2> QED
    BY <1>1, <1>8, <2>1, TransitStays DEF MoneyKept
<1>11. FundsKept
  <2>1. \A u \in Bidders \ {b} : Available(wallet'[u]) >= Available(wallet[u])
    BY <1>0, <1>8 DEF Available, TypeOK, WalletRecord
  <2> QED
    BY <1>1, <2>1, FundsMove
<1> QED
  BY <1>9, <1>10, <1>11 DEF BooksKept

\* A step on auction a that touches no wallet and leaves what is frozen for
\* the auction as it is keeps the books.
LEMMA BooksNoCall ==
  ASSUME InOrder, NEW t \in Threads, OthersStay(t), NEW a \in Auctions,
         \A x \in Auctions \ {a} : auction'[x] = auction[x],
         UNCHANGED <<wallet, deposited>>,
         Works(t) => req[t].auction = a,
         Works(t)' => req'[t].auction = a,
         \A u \in Bidders : FrozenFor(u, a)' = FrozenFor(u, a),
         t \in Closers => pc[t] # "credit" /\ pc'[t] # "credit",
         t \in Bidders /\ pc'[t] \in {"sem", "reread", "release", "hold"} =>
           /\ pc[t] \in {"sem", "reread", "release", "hold"}
           /\ req'[t] = req[t]
  PROVE  BooksKept
<1>1. HoldsKept
  <2>1. \A u \in Bidders : Frozen(u)' = Frozen(u) + FrozenFor(u, a)' - FrozenFor(u, a)
    BY FrozenMoves DEF InOrder
  <2>2. \A u \in Bidders : Frozen(u) \in Nat /\ FrozenFor(u, a) \in Nat
    BY FrozenType DEF InOrder
  <2> QED
    BY <2>1, <2>2 DEF HoldsKept
<1>2. \A c \in Closers : InTransit(c)' = InTransit(c)
  BY DEF InTransit, OthersStay, Threads
<1>3. MoneyKept
  BY <1>2, TransitStays DEF MoneyKept, MoneyInWallets
<1>4. \A b \in Bidders : Available(wallet[b]) \in Int
  BY DEF InOrder, TypeOK, WalletRecord, Available, Users
<1>5. FundsKept
  BY <1>4, FundsMove
<1> QED
  BY <1>1, <1>3, <1>5 DEF BooksKept

LEMMA RereadKeeps ==
  ASSUME InOrder, NEW b \in Bidders, BidReread(b)
  PROVE  BooksKept
<1> USE DEF Threads, Users
<1>0. TypeOK /\ TypeOK' /\ b \notin Closers
  BY DEF InOrder, Closers
<1> PICK a \in Auctions : a = req[b].auction
  BY <1>0 DEF TypeOK, Request
<1>1. /\ pc[b] = "reread" /\ OthersStay(b)
      /\ UNCHANGED <<auction, wallet, deposited>>
      /\ pc'[b] \in {"release", "hold", "idle"}
      /\ pc'[b] # "idle" => req' = req
      /\ pc'[b] = "hold" => auction[a].highestBidder = NoBidder
  BY <1>0 DEF BidReread, Goto, Leave, Return, OthersStay, TypeOK
<1>2. CASE pc'[b] # "hold"
  BY <1>0, <1>1, <1>2, BooksQuiet DEF Works
<1>3. CASE pc'[b] = "hold"
  <2>1. /\ req'[b].auction = a
        /\ \A u \in Bidders : auction[a].highestBidder # u /\ auction'[a].highestBidder # u
    BY <1>1, <1>3
  <2>2. \A u \in Bidders :
          /\ OnAuction(u, a, {"write"})' <=> OnAuction(u, a, {"write"})
          /\ OnAuction(u, a, {"write"}) => req'[u] = req[u]
    BY <1>1, <1>3 DEF OnAuction, OthersStay
  <2>3. \A u \in Bidders : FrozenFor(u, a)' = FrozenFor(u, a)
    BY <2>1, <2>2 DEF FrozenFor
  <2> QED
    BY <1>0, <1>1, <1>3, <2>1, <2>3, BooksNoCall DEF Works
<1> QED
  BY <1>2, <1>3

LEMMA WriteKeeps ==
  ASSUME InOrder, NEW b \in Bidders, BidWriteAuction(b)
  PROVE  BooksKept
<1> USE DEF Threads, Users
<1>0. TypeOK /\ TypeOK' /\ Alone /\ ~Met /\ OrderInv
  BY DEF InOrder, OrderInv, CommittedAlone, Met
<1> PICK a \in Auctions, n \in Nat : a = req[b].auction /\ n = req[b].amount
  BY <1>0 DEF TypeOK, Request
<1>1. /\ Committed(b, a)
      /\ seen[b] \in AuctionRecord /\ seen[b].status = Open
      /\ pc[b] = "write" /\ pc'[b] = "append" /\ b \notin Closers
      /\ auction' = [auction EXCEPT ![a] =
                       [seen[b] EXCEPT !.currentBid = n, !.highestBidder = b]]
      /\ OthersStay(b) /\ UNCHANGED <<wallet, req, seen, deposited>>
  BY <1>0 DEF TypeOK, Request, BidWriteAuction, Goto, Committed, OthersStay, OrderInv,
              CopyIsFresh, Closers
<1>2. /\ auction'[a].status = Open /\ auction'[a].currentBid = n
      /\ auction'[a].highestBidder = b
      /\ \A x \in Auctions \ {a} : auction'[x] = auction[x]
  BY <1>0, <1>1 DEF TypeOK, AuctionRecord
<1>3. \A d \in Bidders : ~OnAuction(d, a, {"hold", "write"})' /\ ~OnAuction(d, a, {"write"})'
  <2>1. \A d \in Bidders \ {b} :
          ~OnAuction(d, a, {"hold", "write"}) /\ ~OnAuction(d, a, {"write"})
    BY <1>0, <1>1, NobodyElseBids
  <2> QED
    BY <1>1, <2>1 DEF OnAuction, OthersStay
<1>4. \A u \in Bidders : FrozenFor(u, a)' = IF u = b THEN n ELSE 0
  BY <1>1, <1>2, <1>3 DEF FrozenFor
<1>5. \A u \in Bidders : FrozenFor(u, a) = IF u = b THEN n ELSE 0
  <2>1. OnAuction(b, a, {"hold", "write"}) /\ OnAuction(b, a, {"write"})
    BY <1>1 DEF OnAuction
  <2>2. \A d \in Bidders \ {b} : ~OnAuction(d, a, {"write"})
    BY <1>0, <1>1, NobodyElseBids
  <2> QED
    BY <1>1, <2>1, <2>2 DEF FrozenFor
<1>6. \A u \in Bidders : FrozenFor(u, a)' = FrozenFor(u, a)
  BY <1>4, <1>5
<1> QED
  BY <1>1, <1>2, <1>6, BooksNoCall DEF Works

LEMMA CloseWriteKeeps ==
  ASSUME InOrder, NEW c \in Closers, CloseWriteAuction(c)
  PROVE  BooksKept
<1> USE DEF Threads, Users
<1>0. TypeOK /\ TypeOK' /\ Alone /\ ~Met /\ OrderInv /\ c \notin Bidders
  BY DEF InOrder, OrderInv, CommittedAlone, Met, Closers
<1> PICK a \in Auctions : a = req[c].auction
  BY <1>0 DEF TypeOK, Request
<1>1. /\ Committed(c, a)
      /\ seen[c] \in AuctionRecord /\ seen[c].status = Open /\ auction[a] = seen[c]
      /\ pc[c] = "close" /\ OthersStay(c)
      /\ auction' = [auction EXCEPT ![a] = [seen[c] EXCEPT !.status = Closed]]
      /\ UNCHANGED <<wallet, deposited>>
  <2>1. /\ pc[c] = "close"
        /\ auction' = [auction EXCEPT ![a] = [seen[c] EXCEPT !.status = Closed]]
        /\ UNCHANGED <<wallet, deposited>>
    BY <1>0 DEF CloseWriteAuction
  <2>2. Committed(c, a) /\ seen[c] \in AuctionRecord
    BY <1>0, <2>1 DEF Committed, TypeOK
  <2>3. seen[c].status = Open /\ auction[a] = seen[c]
    BY <1>0, <2>2 DEF OrderInv, CopyIsFresh
  <2>4. OthersStay(c)
    BY <1>0, SMTT(30) DEF CloseWriteAuction, Goto, Leave, Return, OthersStay, TypeOK
  <2> QED
    BY <2>1, <2>2, <2>3, <2>4
<1>2. /\ auction'[a].status = Closed /\ auction'[a].currentBid = auction[a].currentBid
      /\ auction'[a].highestBidder = auction[a].highestBidder
      /\ \A x \in Auctions \ {a} : auction'[x] = auction[x]
  BY <1>0, <1>1 DEF TypeOK, AuctionRecord
<1>3. /\ pc'[c] \in {"wal", "unhold", "notify"}
      /\ pc'[c] = "notify" => auction[a].highestBidder = NoBidder
      /\ pc'[c] # "notify" => req' = req
  BY <1>0, <1>1, SMTT(30) DEF CloseWriteAuction, HasSale, Goto, Leave, Return, TypeOK
<1>4. \A d \in Bidders :
        /\ ~OnAuction(d, a, {"hold", "write"}) /\ ~OnAuction(d, a, {"write"})
        /\ ~OnAuction(d, a, {"hold", "write"})' /\ ~OnAuction(d, a, {"write"})'
  <2>1. \A d \in Bidders :
          ~OnAuction(d, a, {"hold", "write"}) /\ ~OnAuction(d, a, {"write"})
    BY <1>0, <1>1, NobodyElseBids
  <2> QED
    BY <1>0, <1>1, <2>1 DEF OnAuction, OthersStay
<1>5. ASSUME NEW u \in Bidders PROVE FrozenFor(u, a)' = FrozenFor(u, a)
  <2>1. CASE auction[a].highestBidder = u
    <3>1. pc'[c] \in {"wal", "unhold"} /\ req'[c].auction = a
      BY <1>3, <2>1
    <3>2. OnAuction(c, a, {"wal", "settle", "unhold"})'
      BY <3>1 DEF OnAuction
    <3> QED
      BY <1>1, <1>2, <1>4, <2>1, <3>2 DEF FrozenFor
  <2>2. CASE auction[a].highestBidder # u
    BY <1>2, <1>4, <2>2 DEF FrozenFor
  <2> QED
    BY <2>1, <2>2
<1> QED
  BY <1>0, <1>1, <1>2, <1>3, <1>5, BooksNoCall DEF Works

LEMMA LogKeeps ==
  ASSUME InOrder, NEW c \in Closers, CloseLog(c)
  PROVE  BooksKept
<1> USE DEF Threads, Users
<1>0. TypeOK /\ TypeOK' /\ c \notin Bidders
  BY DEF InOrder, Closers
<1> PICK a \in Auctions : a = req[c].auction
  BY <1>0 DEF TypeOK, Request
<1>1. /\ pc[c] = "wal" /\ pc'[c] = "settle" /\ OthersStay(c)
      /\ UNCHANGED <<auction, wallet, req, seen, deposited>>
  BY <1>0 DEF CloseLog, Goto, OthersStay, TypeOK
<1>2. /\ \A d \in Closers : OnAuction(d, a, {"wal", "settle", "unhold"})'
                            <=> OnAuction(d, a, {"wal", "settle", "unhold"})
      /\ \A d \in Bidders :
           /\ OnAuction(d, a, {"hold", "write"})' <=> OnAuction(d, a, {"hold", "write"})
           /\ OnAuction(d, a, {"write"})' <=> OnAuction(d, a, {"write"})
  BY <1>0, <1>1 DEF OnAuction, OthersStay
<1>3. \A u \in Bidders : FrozenFor(u, a)' = FrozenFor(u, a)
  BY <1>1, <1>2 DEF FrozenFor
<1> QED
  BY <1>0, <1>1, <1>3, BooksNoCall

\* What stands on an auction that is being settled, before the winner is
\* debited or released and after it.
LEMMA Settling ==
  ASSUME InOrder, NEW c \in Closers, pc[c] \in {"settle", "unhold"},
         OthersStay(c), UNCHANGED auction, pc'[c] \in {"credit", "notify"}
  PROVE  \E a \in Auctions, p \in Bidders, n \in Nat :
           /\ a = req[c].auction /\ p = seen[c].highestBidder /\ n = seen[c].currentBid
           /\ \A u \in Bidders : FrozenFor(u, a) = IF u = p THEN n ELSE 0
           /\ \A u \in Bidders : FrozenFor(u, a)' = 0
           /\ n <= wallet[p].hold
<1> USE DEF Threads, Users
<1>0. TypeOK /\ Alone /\ OrderInv /\ c \notin Bidders /\ InSettlement(c)
  BY DEF InOrder, Closers, InSettlement
<1> PICK a \in Auctions, p \in Bidders, n \in Nat :
      a = req[c].auction /\ p = seen[c].highestBidder /\ n = seen[c].currentBid
  BY <1>0 DEF TypeOK, Request, AuctionRecord, OrderInv, SettlesWhatIsFiled
<1>1. /\ auction[a].status = Closed
      /\ auction[a].currentBid = n /\ auction[a].highestBidder = p
  <2>1. seen[c] \in AuctionRecord
    BY <1>0 DEF TypeOK
  <2>2. auction[a] = [seen[c] EXCEPT !.status = Closed]
    BY <1>0 DEF OrderInv, SettlesWhatIsFiled
  <2> QED
    BY <2>1, <2>2 DEF AuctionRecord
<1>2. \A d \in Bidders :
        /\ ~OnAuction(d, a, {"hold", "write"}) /\ ~OnAuction(d, a, {"write"})
        /\ ~OnAuction(d, a, {"hold", "write"})' /\ ~OnAuction(d, a, {"write"})'
  <2>1. \A d \in Bidders : ~Committed(d, a)
    BY <1>0, <1>1 DEF OrderInv, CopyIsFresh, Open, Closed
  <2> QED
    BY <1>0, <2>1 DEF Committed, OnAuction, OthersStay
<1>3. OnAuction(c, a, {"wal", "settle", "unhold"})
  BY DEF OnAuction
<1>4. \A d \in Closers : ~OnAuction(d, a, {"wal", "settle", "unhold"})'
  <2> SUFFICES ASSUME NEW d \in Closers, OnAuction(d, a, {"wal", "settle", "unhold"})'
               PROVE  FALSE
    OBVIOUS
  <2>1. d # c
    BY DEF OnAuction
  <2>2. InSettlement(d) /\ req[d].auction = a
    BY <2>1 DEF OnAuction, OthersStay, InSettlement
  <2> QED
    BY <1>0, <2>1, <2>2 DEF OrderInv, SettlesAlone
<1>5. \A u \in Bidders : FrozenFor(u, a) = IF u = p THEN n ELSE 0
  BY <1>1, <1>2, <1>3 DEF FrozenFor
<1>6. \A u \in Bidders : FrozenFor(u, a)' = 0
  BY <1>1, <1>2, <1>4 DEF FrozenFor, Open, Closed
<1>7. n <= wallet[p].hold
  <2>1. FrozenFor(p, a) = n
    BY <1>5
  <2> QED
    BY ONLY <2>1, HoldCoversOne, InOrder, p \in Bidders, a \in Auctions
<1> QED
  BY <1>5, <1>6, <1>7

LEMMA UnholdKeeps ==
  ASSUME InOrder, NEW c \in Closers, CloseUnhold(c)
  PROVE  BooksKept
<1> USE DEF Threads, Users
<1>0. TypeOK /\ TypeOK' /\ c \notin Bidders
  BY DEF InOrder, Closers
<1>1. /\ pc[c] = "unhold" /\ pc'[c] = "notify" /\ OthersStay(c)
      /\ UNCHANGED <<auction, deposited>>
  BY <1>0 DEF CloseUnhold, Return, Leave, Goto, OthersStay, TypeOK
<1>2. PICK a \in Auctions, p \in Bidders, n \in Nat :
      /\ a = req[c].auction /\ p = seen[c].highestBidder /\ n = seen[c].currentBid
      /\ n <= wallet[p].hold
      /\ \A u \in Bidders : FrozenFor(u, a) = IF u = p THEN n ELSE 0
      /\ \A u \in Bidders : FrozenFor(u, a)' = 0
  BY <1>1, Settling
<1>3. WalletCall("release", p, n) /\ wallet[p] \in WalletRecord /\ Sound(wallet[p])
  BY <1>0, <1>2 DEF CloseUnhold, TypeOK, InOrder, WalletsSound
<1>4. Outcome("release", wallet[p], n)
        = [balance |-> wallet[p].balance, hold |-> wallet[p].hold - n]
  BY <1>2, <1>3, ReleaseOutcome DEF WalletRecord
<1>5. /\ wallet'[p] = [balance |-> wallet[p].balance, hold |-> wallet[p].hold - n]
      /\ \A v \in Users \ {p} : wallet'[v] = wallet[v]
      /\ MoneyInWallets' = MoneyInWallets
  BY <1>0, <1>1, <1>2, <1>3, <1>4, MoneyType, OneWallet DEF WalletRecord
<1>6. HoldsKept
  <2>1. wallet'[p].hold - FrozenFor(p, a)' = wallet[p].hold - FrozenFor(p, a)
    BY <1>2, <1>3, <1>5 DEF WalletRecord
  <2>2. \A u \in Bidders \ {p} :
          wallet'[u] = wallet[u] /\ FrozenFor(u, a)' = FrozenFor(u, a)
    BY <1>2, <1>5
  <2> QED
    BY <1>1, <1>2, <2>1, <2>2, HoldsMove DEF Works
<1>7. MoneyKept
  <2>1. \A d \in Closers : InTransit(d)' = InTransit(d)
    BY <1>1 DEF InTransit, OthersStay
  <2> QED
    BY <1>1, <1>5, <2>1, TransitStays DEF MoneyKept
<1>8. FundsKept
  <2>1. \A u \in Bidders : wallet[u] \in WalletRecord
    BY <1>0 DEF TypeOK
  <2>2. \A u \in Bidders : Available(wallet'[u]) >= Available(wallet[u])
    BY <1>2, <1>5, <2>1 DEF Available, WalletRecord
  <2> QED
    BY <1>0, <1>1, <2>2, FundsMove
<1> QED
  BY <1>6, <1>7, <1>8 DEF BooksKept

LEMMA SettleKeeps ==
  ASSUME InOrder, NEW c \in Closers, CloseSettle(c)
  PROVE  BooksKept
<1> USE DEF Threads, Users
<1>0. TypeOK /\ TypeOK' /\ c \notin Bidders
  BY DEF InOrder, Closers
<1>1. /\ pc[c] = "settle" /\ pc'[c] = "credit" /\ OthersStay(c)
      /\ UNCHANGED <<auction, req, seen, deposited>>
  BY <1>0 DEF CloseSettle, Goto, OthersStay, TypeOK
<1>a. pc[c] \in {"settle", "unhold"} /\ UNCHANGED auction /\ pc'[c] \in {"credit", "notify"}
  BY <1>1
<1>2. PICK a \in Auctions, p \in Bidders, n \in Nat :
      /\ a = req[c].auction /\ p = seen[c].highestBidder /\ n = seen[c].currentBid
      /\ n <= wallet[p].hold
      /\ \A u \in Bidders : FrozenFor(u, a) = IF u = p THEN n ELSE 0
      /\ \A u \in Bidders : FrozenFor(u, a)' = 0
  BY <1>1, <1>a, Settling
<1>3. WalletCall("settle", p, n) /\ wallet[p] \in WalletRecord /\ Sound(wallet[p])
  BY <1>0, <1>2 DEF CloseSettle, TypeOK, InOrder, WalletsSound
<1>9. InTransit(c) = 0 /\ InTransit(c)' = n
  BY <1>1, <1>2 DEF InTransit
<1>4. Outcome("settle", wallet[p], n)
        = [balance |-> wallet[p].balance - n, hold |-> wallet[p].hold - n]
  BY <1>2, <1>3, SettleOutcome
<1>5. /\ wallet'[p] = [balance |-> wallet[p].balance - n, hold |-> wallet[p].hold - n]
      /\ \A v \in Users \ {p} : wallet'[v] = wallet[v]
      /\ MoneyInWallets' = MoneyInWallets - n
  BY <1>0, <1>1, <1>2, <1>3, <1>4, MoneyType, OneWallet DEF WalletRecord
<1>6. HoldsKept
  <2>1. wallet'[p].hold - FrozenFor(p, a)' = wallet[p].hold - FrozenFor(p, a)
    BY <1>2, <1>3, <1>5 DEF WalletRecord
  <2>2. \A u \in Bidders \ {p} :
          wallet'[u] = wallet[u] /\ FrozenFor(u, a)' = FrozenFor(u, a)
    BY <1>2, <1>5
  <2> QED
    BY <1>1, <1>2, <2>1, <2>2, HoldsMove DEF Works
<1>7. MoneyKept
  <2>1. MoneyInTransit' = MoneyInTransit + n
    BY <1>0, <1>1, <1>2, <1>9, TransitMoves, MoneyType
  <2>2. MoneyInWallets \in Nat /\ MoneyInTransit \in Nat /\ deposited \in Nat
    BY <1>0, MoneyType DEF TypeOK
  <2>3. MoneyInWallets' = MoneyInWallets - n /\ deposited' = deposited
    BY <1>1, <1>5
  <2> QED
    BY <2>1, <2>2, <2>3 DEF MoneyKept
<1>8. FundsKept
  <2>1. \A u \in Bidders : wallet[u] \in WalletRecord
    BY <1>0 DEF TypeOK
  <2>2. \A u \in Bidders : Available(wallet'[u]) >= Available(wallet[u])
    BY <1>2, <1>5, <2>1 DEF Available, WalletRecord
  <2> QED
    BY <1>0, <1>1, <2>2, FundsMove
<1> QED
  BY <1>6, <1>7, <1>8 DEF BooksKept

LEMMA CreditKeeps ==
  ASSUME InOrder, NEW c \in Closers, CloseCredit(c)
  PROVE  BooksKept
<1> USE DEF Threads, Users
<1>0. TypeOK /\ TypeOK' /\ c \notin Bidders
  BY DEF InOrder, Closers
<1>2. PICK p \in Users \ Bidders, n \in Nat :
      p = SellerOf[req[c].auction] /\ n = seen[c].currentBid
  BY <1>0 DEF TypeOK, Request, AuctionRecord
<1>1. /\ pc[c] = "credit" /\ pc'[c] = "notify" /\ OthersStay(c)
      /\ UNCHANGED <<auction, deposited>> /\ WalletCall("credit", p, n)
  BY <1>0, <1>2 DEF CloseCredit, Return, Leave, Goto, OthersStay, TypeOK
<1>3. wallet[p] \in WalletRecord /\ Sound(wallet[p])
  BY <1>0, <1>2 DEF TypeOK, InOrder, WalletsSound
<1>4. InTransit(c) = n /\ InTransit(c)' = 0
  BY <1>1, <1>2 DEF InTransit
<1>5. Outcome("credit", wallet[p], n)
        = [balance |-> wallet[p].balance + n, hold |-> wallet[p].hold]
  BY <1>2, <1>3, CreditOutcome
<1>6. /\ \A v \in Users \ {p} : wallet'[v] = wallet[v]
      /\ MoneyInWallets' = MoneyInWallets + n
  <2>1. /\ wallet'[p] = Outcome("credit", wallet[p], n)
        /\ \A v \in Users \ {p} : wallet'[v] = wallet[v]
        /\ MoneyInWallets' = MoneyInWallets + wallet'[p].balance - wallet[p].balance
    BY <1>0, <1>1, OneWallet
  <2>2. wallet'[p].balance = wallet[p].balance + n
    BY <1>5, <2>1
  <2>3. MoneyInWallets \in Nat /\ wallet[p].balance \in Nat
    BY <1>0, <1>3, MoneyType DEF WalletRecord
  <2> QED
    BY <2>1, <2>2, <2>3
<1>7. HoldsKept
  <2>1. \A u \in Bidders : Frozen(u)' = Frozen(u)
    BY <1>0, <1>1, FrozenStays DEF Works
  <2> QED
    BY <1>2, <1>6, <2>1 DEF HoldsKept
<1>8. MoneyKept
  <2>1. MoneyInTransit' = MoneyInTransit - n
    BY <1>0, <1>1, <1>2, <1>4, TransitMoves, MoneyType
  <2>2. MoneyInWallets \in Nat /\ MoneyInTransit \in Nat /\ deposited \in Nat
    BY <1>0, MoneyType DEF TypeOK
  <2>3. MoneyInWallets' = MoneyInWallets + n /\ deposited' = deposited
    BY <1>1, <1>6
  <2> QED
    BY <2>1, <2>2, <2>3 DEF MoneyKept
<1>9. FundsKept
  <2>1. \A u \in Bidders :
          wallet'[u] = wallet[u] /\ Available(wallet[u]) \in Int
    <3>1. \A u \in Bidders : wallet[u] \in WalletRecord
      BY <1>0 DEF TypeOK
    <3> QED
      BY <1>2, <1>6, <3>1 DEF Available, WalletRecord
  <2>2. \A u \in Bidders : Available(wallet'[u]) >= Available(wallet[u])
    BY <2>1
  <2> QED
    BY <1>0, <1>1, <2>2, FundsMove
<1> QED
  BY <1>7, <1>8, <1>9 DEF BooksKept

LEMMA DepositKeeps ==
  ASSUME InOrder, NEW u \in Users, Deposit(u)
  PROVE  BooksKept
<1> USE DEF Threads, Users, Closers
<1>0. TypeOK /\ TypeOK'
  BY DEF InOrder
<1>1. PICK n \in Amounts : deposited' = deposited + n /\ WalletCall("credit", u, n)
  BY DEF Deposit
<1>2. /\ pc[u] = "idle" /\ OthersStay(u) /\ UNCHANGED <<auction, pc, req, seen>>
      /\ n \in Nat /\ deposited \in Nat
  BY <1>0 DEF Deposit, OthersStay, TypeOK
<1>3. wallet[u] \in WalletRecord /\ Sound(wallet[u])
  BY <1>0 DEF TypeOK, InOrder, WalletsSound
<1>4. Outcome("credit", wallet[u], n)
        = [balance |-> wallet[u].balance + n, hold |-> wallet[u].hold]
  BY <1>2, <1>3, CreditOutcome
<1>5. /\ wallet'[u] = [balance |-> wallet[u].balance + n, hold |-> wallet[u].hold]
      /\ \A v \in Users \ {u} : wallet'[v] = wallet[v]
      /\ MoneyInWallets' = MoneyInWallets + n
  BY <1>0, <1>1, <1>2, <1>3, <1>4, MoneyType, OneWallet DEF WalletRecord
<1>6. HoldsKept
  <2>1. \A v \in Bidders : Frozen(v)' = Frozen(v)
    BY <1>0, <1>2, FrozenStays DEF Works
  <2> QED
    BY <1>5, <2>1 DEF HoldsKept
<1>7. MoneyKept
  <2>1. \A c \in Closers : InTransit(c)' = InTransit(c)
    BY <1>2 DEF InTransit
  <2>2. MoneyInTransit' = MoneyInTransit
    BY <2>1, TransitStays
  <2> QED
    BY <1>0, <1>1, <1>2, <1>5, <2>2, MoneyType DEF MoneyKept
<1>8. FundsKept
  <2>1. \A v \in Bidders : wallet[v] \in WalletRecord
    BY <1>0 DEF TypeOK
  <2>2. \A v \in Bidders : Available(wallet'[v]) >= Available(wallet[v])
    BY <1>2, <1>3, <1>5, <2>1 DEF Available, WalletRecord
  <2> QED
    BY <1>2, <2>2, FundsMove
<1> QED
  BY <1>6, <1>7, <1>8 DEF BooksKept

\* The clock and the timer's scan change neither threads nor files.
LEMMA BooksUntouched ==
  ASSUME InOrder, UNCHANGED <<auction, wallet, deposited, pc, req, seen>>
  PROVE  BooksKept
<1>0. TypeOK /\ TypeOK'
  BY DEF InOrder
<1>1. HoldsKept
  <2> SUFFICES ASSUME NEW u \in Bidders PROVE Frozen(u)' = Frozen(u)
    BY DEF HoldsKept
  <2>1. \A x \in Auctions : FrozenFor(u, x)' = FrozenFor(u, x)
    BY DEF FrozenFor, OnAuction
  <2>2. [x \in Auctions |-> FrozenFor(u, x)'] = [x \in Auctions |-> FrozenFor(u, x)]
    BY <2>1
  <2> QED
    BY <1>0, <2>2, FrozenTypeAfter DEF Frozen
<1>2. MoneyKept
  BY DEF MoneyKept, MoneyInWallets, MoneyInTransit
<1>3. FundsKept
  BY DEF InOrder, FundsKept, FundsStay, Orderly
<1> QED
  BY <1>1, <1>2, <1>3 DEF BooksKept

LEMMA NextKeepsBooks ==
  ASSUME InOrder, Next, ~Crash
  PROVE  BooksKept /\ crashes' = crashes
<1> USE DEF Threads, Users
<1>0. TypeOK /\ TypeOK'
  BY DEF InOrder
<1>1. ASSUME NEW b \in Bidders, BidPeek(b) \/ PlaceBidStep(b)
      PROVE  BooksKept /\ crashes' = crashes
  <2>0. b \notin Closers
    BY DEF Closers
  <2>1. CASE BidPeek(b) \/ BidEnter(b) \/ BidAppend(b)
    <3>1. /\ OthersStay(b) /\ UNCHANGED <<auction, wallet, deposited>>
          /\ ~Works(b) /\ ~Works(b)'
          /\ pc'[b] \in {"sem", "reread", "release"} => pc[b] = "sem" /\ req' = req
      BY <1>0, <2>1 DEF BidPeek, BidEnter, BidAppend, Goto, Leave, Return, OthersStay, Works,
                        TypeOK
    <3>2. crashes' = crashes
      BY <2>1 DEF BidPeek, BidEnter, BidAppend
    <3> QED
      BY <2>0, <3>1, <3>2, BooksQuiet
  <2>2. CASE BidCheckFunds(b)
    <3>1. /\ OthersStay(b) /\ UNCHANGED <<auction, wallet, deposited>>
          /\ ~Works(b) /\ ~Works(b)'
          /\ pc'[b] \in {"sem", "reread", "release"} =>
               ~(req[b].amount > Available(wallet[b])) /\ req' = req
      BY <1>0, <2>2 DEF BidCheckFunds, Goto, Leave, Return, OthersStay, Works, TypeOK
    <3>2. req[b].amount \in Int /\ Available(wallet[b]) \in Int
      BY <1>0 DEF TypeOK, Request, WalletRecord, Available
    <3>3. crashes' = crashes
      BY <2>2 DEF BidCheckFunds
    <3> QED
      BY <2>0, <3>1, <3>2, <3>3, BooksQuiet
  <2>3. CASE BidReread(b) \/ BidReleasePrevious(b) \/ BidPlaceHold(b) \/ BidWriteAuction(b)
    <3>1. crashes' = crashes
      BY <2>3 DEF BidReread, BidReleasePrevious, BidPlaceHold, BidWriteAuction
    <3> QED
      BY <2>3, <3>1, RereadKeeps, ReleaseKeeps, HoldKeeps, WriteKeeps
  <2> QED
    BY <1>1, <2>1, <2>2, <2>3 DEF PlaceBidStep
<1>2. ASSUME NEW c \in Closers, CloseStep(c) \/ CloseNotify(c)
      PROVE  BooksKept /\ crashes' = crashes
  <2>1. crashes' = crashes
    BY <1>2 DEF CloseStep, CloseWriteAuction, CloseLog, CloseSettle, CloseCredit,
                CloseUnhold, CloseNotify
  <2>2. CASE CloseNotify(c)
    <3>1. /\ OthersStay(c) /\ UNCHANGED <<auction, wallet, deposited>>
          /\ pc[c] = "notify" /\ pc'[c] = "idle" /\ c \notin Bidders
      BY <1>0, <2>2 DEF CloseNotify, Return, Leave, Goto, OthersStay, Closers, TypeOK
    <3> QED
      BY <2>1, <3>1, BooksQuiet DEF Works
  <2> QED
    BY <1>2, <2>1, <2>2, CloseWriteKeeps, LogKeeps, SettleKeeps, CreditKeeps,
       UnholdKeeps DEF CloseStep
<1>3. CASE \/ \E c \in Auctioneers : CloseRequest(c)
           \/ TimerScan \/ TimerNext
           \/ \E a \in Auctions : Expire(a)
  <2>1. UNCHANGED <<auction, wallet, deposited, crashes>>
    BY <1>3 DEF CloseRequest, TimerScan, TimerNext, Expire
  <2>2. ASSUME NEW c \in Closers, NEW a \in Auctions, pc[c] = "idle", StartClose(c, a)
        PROVE  BooksKept
    <3>1. OthersStay(c) /\ pc'[c] = "close" /\ c \notin Bidders
      BY <1>0, <2>2 DEF StartClose, Goto, OthersStay, Closers, TypeOK
    <3> QED
      BY <2>1, <2>2, <3>1, BooksQuiet DEF Works
  <2>3. CASE UNCHANGED <<pc, req, seen>>
    BY <2>1, <2>3, BooksUntouched
  <2>4. \/ UNCHANGED <<pc, req, seen>>
        \/ \E c \in Closers, a \in Auctions : pc[c] = "idle" /\ StartClose(c, a)
    BY <1>0, <1>3 DEF CloseRequest, TimerScan, TimerNext, Expire, Closers, TypeOK
  <2> QED
    BY <2>1, <2>2, <2>3, <2>4
<1>4. ASSUME NEW u \in Users, Deposit(u)
      PROVE  BooksKept /\ crashes' = crashes
  BY <1>4, DepositKeeps DEF Deposit
<1> QED
  BY <1>1, <1>2, <1>3, <1>4 DEF Next, Step

\* A kill that tears no bid apart freezes nothing new: a bid that was on its
\* way was the first one of its auction.
LEMMA CrashFrozen ==
  ASSUME TypeOK, TypeOK', OrderInv, Alone, Crash, ~KillTearsBid, NEW u \in Bidders
  PROVE  Frozen(u)' <= Frozen(u)
<1> USE DEF Threads, Users
<1>1. /\ \A t \in Threads : pc'[t] = "idle"
      /\ UNCHANGED auction /\ crashes' # crashes
  BY DEF Crash, TypeOK
<1>2. ASSUME NEW a \in Auctions PROVE FrozenFor(u, a)' <= FrozenFor(u, a)
  <2>0. auction[a].currentBid \in Nat /\ req[u].amount \in Nat
    BY DEF TypeOK, AuctionRecord, Request
  <2>1. \A t \in Threads :
          /\ ~OnAuction(t, a, {"wal", "settle", "unhold"})'
          /\ ~OnAuction(t, a, {"hold", "write"})' /\ ~OnAuction(t, a, {"write"})'
    BY <1>1 DEF OnAuction
  <2>2. CASE auction[a].highestBidder = u /\ auction[a].status = Open
    <3>1. ASSUME NEW b \in Bidders, OnAuction(b, a, {"hold", "write"}) PROVE FALSE
      <4>1. pc[b] \in {"hold", "write"} /\ Committed(b, a)
        BY <3>1 DEF OnAuction, Committed
      <4>2. seen[b] = auction[a]
        BY <4>1 DEF OrderInv, CopyIsFresh
      <4> QED
        BY <1>1, <2>2, <4>1, <4>2 DEF KillTearsBid
    <3>2. FrozenFor(u, a) = auction[a].currentBid
                            + (IF OnAuction(u, a, {"write"}) THEN req[u].amount ELSE 0)
      BY <2>2, <3>1 DEF FrozenFor
    <3>3. FrozenFor(u, a)' = auction[a].currentBid
      BY <1>1, <2>0, <2>1, <2>2 DEF FrozenFor, Closers
    <3> QED
      BY <2>0, <3>2, <3>3
  <2>3. CASE ~(auction[a].highestBidder = u /\ auction[a].status = Open)
    <3>1. FrozenFor(u, a)' = 0
      BY <1>1, <2>1, <2>3 DEF FrozenFor, Closers
    <3>2. FrozenFor(u, a) \in Nat
      BY FrozenType
    <3> QED
      BY <3>1, <3>2
  <2> QED
    BY <2>2, <2>3
<1> DEFINE f == [a \in Auctions |-> FrozenFor(u, a)']
           g == [a \in Auctions |-> FrozenFor(u, a)]
<1>3. \A a \in Auctions : f[a] <= g[a]
  BY <1>2
<1>4. f \in [Auctions -> Nat] /\ g \in [Auctions -> Nat]
  BY FrozenType, FrozenTypeAfter
<1>5. Frozen(u)' = SumFunction(f) /\ Frozen(u) = SumFunction(g)
  BY FrozenTypeAfter DEF Frozen
<1> HIDE DEF f, g
<1>6. f \in [Auctions -> Int] /\ g \in [Auctions -> Int]
  BY <1>4
<1>7. IsFiniteSet(Auctions)
  BY DEF AuctionHouseAssumption
<1>8. SumFunction(f) <= SumFunction(g)
  BY ONLY <1>3, <1>6, <1>7, SumMonotone
<1> QED
  BY <1>5, <1>8

LEMMA InitMoney == Init => MoneyInv
<1> SUFFICES ASSUME Init PROVE MoneyInv
  OBVIOUS
<1> USE DEF Threads, Users
<1>0. TypeOK
  BY InitType
<1>1. /\ \A t \in Threads : pc[t] = "idle"
      /\ \A a \in Auctions : auction[a].highestBidder = NoBidder
      /\ \A u \in Users : wallet[u].balance = InitialBalance[u] /\ wallet[u].hold = 0
      /\ deposited = 0 /\ ~torn
  BY DEF Init, FirstListing
<1>2. ASSUME NEW u \in Bidders PROVE Frozen(u) = 0
  <2>1. ASSUME NEW a \in Auctions PROVE FrozenFor(u, a) = 0
    <3>1. auction[a].highestBidder # u /\ ~OnAuction(u, a, {"write"})
      BY <1>1 DEF OnAuction
    <3> QED
      BY <3>1 DEF FrozenFor
  <2> DEFINE f == [a \in Auctions |-> FrozenFor(u, a)]
  <2>2. f \in [Auctions -> Int] /\ \A a \in Auctions : f[a] = 0
    BY <2>1
  <2>3. Frozen(u) = SumFunction(f)
    BY DEF Frozen
  <2> HIDE DEF f
  <2> QED
    BY <2>2, <2>3, SumOfZeros
<1>3. HoldsCover /\ HoldsExact
  BY <1>1, <1>2 DEF HoldsCover, HoldsExact
<1>4. MoneyInWallets = SumFunction(InitialBalance)
  <2>1. [u \in Users |-> wallet[u].balance] = InitialBalance
    BY <1>1
  <2> QED
    BY <2>1 DEF MoneyInWallets
<1>5. MoneyInTransit = 0
  <2> DEFINE f == [c \in Closers |-> IF pc[c] = "credit" THEN seen[c].currentBid ELSE 0]
  <2>1. f \in [Closers -> Int] /\ \A c \in Closers : f[c] = 0
    BY <1>1
  <2>2. MoneyInTransit = SumFunction(f) /\ IsFiniteSet(Closers)
    BY FS_Union, FS_Singleton DEF MoneyInTransit, Closers
  <2> HIDE DEF f
  <2> QED
    BY <2>1, <2>2, SumOfZeros
<1>6. MoneyInWallets \in Nat
  BY <1>0, MoneyType
<1>7. MoneyConservedUndisturbed /\ NoMoneyCreatedByKill
  BY <1>1, <1>4, <1>5, <1>6
     DEF MoneyConservedUndisturbed, NoMoneyCreatedByKill, MoneyPaidIn
<1>8. FundsStay /\ KillsAreCounted
  BY <1>1 DEF FundsStay, KillsAreCounted
<1> QED
  BY <1>3, <1>7, <1>8, InitOrder DEF MoneyInv

LEMMA NextMoney ==
  ASSUME TypeOK, TypeOK', WalletsSound, OneBidderPerSemaphore', MoneyInv, Next
  PROVE  MoneyInv'
<1> USE DEF Threads, Users
<1>0. OrderInv'
  BY NextOrder DEF MoneyInv
<1>1. /\ Alone' => Alone /\ ~Met'
      /\ ~torn' => ~torn /\ ~KillTearsBid
      /\ torn' => torn \/ crashes' # crashes
      /\ crashes \in Nat /\ crashes' \in Nat
  BY <1>0 DEF Next, Remember, KillTearsBid, TypeOK, Alone, OrderInv, CommittedAlone
<1>2. ASSUME Alone, ~torn, ~Met', ~Crash PROVE BooksKept /\ crashes' = crashes
  BY <1>2, NextKeepsBooks DEF InOrder, MoneyInv
<1>3. Crash => crashes' > 0
  BY <1>1 DEF Crash
<1>4. crashes' = 0 => crashes = 0 /\ ~Crash
  <2>1. crashes' = crashes \/ Crash
    BY DEF Next, Step, PlaceBidStep, BidPeek, BidCheckFunds, BidEnter, BidReread,
           BidReleasePrevious, BidPlaceHold, BidWriteAuction, BidAppend, CloseRequest,
           CloseStep, CloseWriteAuction, CloseLog, CloseSettle, CloseCredit,
           CloseUnhold, CloseNotify, TimerScan, TimerNext, Deposit, Expire
  <2> QED
    BY <1>1, <1>3, <2>1
<1>5. KillsAreCounted'
  BY <1>1, <1>4 DEF MoneyInv, KillsAreCounted
<1>6. \A u \in Bidders :
        /\ wallet[u].hold \in Nat /\ wallet'[u].hold \in Nat
        /\ Frozen(u) \in Nat /\ Frozen(u)' \in Nat
  BY FrozenType, FrozenTypeAfter DEF TypeOK, WalletRecord
<1>7. FundsStay'
  <2>1. Crash => \A b \in Bidders : pc'[b] = "idle"
    BY DEF Crash
  <2> QED
    BY <1>1, <1>2, <2>1 DEF FundsStay, Orderly, BooksKept, FundsKept
<1>8. HoldsCover'
  <2> SUFFICES ASSUME Alone', ~torn', NEW u \in Bidders
               PROVE  Frozen(u)' <= wallet'[u].hold
    BY DEF HoldsCover, Orderly
  <2>1. Frozen(u) <= wallet[u].hold
    BY <1>1 DEF MoneyInv, HoldsCover, Orderly
  <2>2. CASE Crash
    <3>1. Frozen(u)' <= Frozen(u)
      BY <1>1, <2>2, CrashFrozen DEF MoneyInv
    <3>2. wallet' = wallet
      BY <2>2 DEF Crash
    <3> QED
      BY <1>6, <2>1, <3>1, <3>2
  <2>3. CASE ~Crash
    BY <1>1, <1>2, <1>6, <2>1, <2>3 DEF BooksKept, HoldsKept
  <2> QED
    BY <2>2, <2>3
<1>9. HoldsExact'
  <2> SUFFICES ASSUME Alone', crashes' = 0, NEW u \in Bidders
               PROVE  wallet'[u].hold = Frozen(u)'
    BY DEF HoldsExact, Undisturbed
  <2>1. ~torn /\ ~Crash /\ crashes = 0
    BY <1>4 DEF MoneyInv, KillsAreCounted
  <2>2. wallet[u].hold = Frozen(u)
    BY <1>1, <2>1 DEF MoneyInv, HoldsExact, Undisturbed
  <2> QED
    BY <1>1, <1>2, <1>6, <2>1, <2>2 DEF BooksKept, HoldsKept
<1>10. /\ MoneyInWallets \in Nat /\ MoneyInTransit \in Nat /\ deposited \in Nat
       /\ MoneyInWallets' \in Nat /\ MoneyInTransit' \in Nat /\ deposited' \in Nat
       /\ MoneyPaidIn = SumFunction(InitialBalance) + deposited
       /\ MoneyPaidIn' = SumFunction(InitialBalance) + deposited'
       /\ SumFunction(InitialBalance) \in Nat
  <2>1. TypeOK => MoneyInWallets \in Nat /\ MoneyInTransit \in Nat
    BY MoneyType
  <2>2. MoneyInWallets' \in Nat /\ MoneyInTransit' \in Nat
    BY MoneyTypeAfter
  <2>3. IsFiniteSet(Users)
    BY FS_Union
  <2> QED
    BY <2>1, <2>2, <2>3, SumIsNat DEF MoneyPaidIn, TypeOK
<1>11. MoneyConservedUndisturbed'
  <2> SUFFICES ASSUME Alone', crashes' = 0
               PROVE  MoneyInWallets' + MoneyInTransit' = MoneyPaidIn'
    BY DEF MoneyConservedUndisturbed, Undisturbed
  <2>1. ~torn /\ ~Crash /\ crashes = 0
    BY <1>4 DEF MoneyInv, KillsAreCounted
  <2>2. MoneyInWallets + MoneyInTransit = MoneyPaidIn
    BY <1>1, <2>1 DEF MoneyInv, MoneyConservedUndisturbed, Undisturbed
  <2>3. MoneyKept
    BY <1>1, <1>2, <2>1 DEF BooksKept
  <2>4. MoneyInWallets' + MoneyInTransit' - deposited'
          = MoneyInWallets + MoneyInTransit - deposited
    BY <2>3 DEF MoneyKept
  <2>5. MoneyInWallets + MoneyInTransit - deposited = SumFunction(InitialBalance)
    BY <1>10, <2>2
  <2>6. MoneyInWallets' + MoneyInTransit' - deposited' = SumFunction(InitialBalance)
    BY <2>4, <2>5
  <2>7. MoneyPaidIn' = SumFunction(InitialBalance) + deposited'
    BY <1>10
  <2>8. /\ MoneyInWallets' \in Nat /\ MoneyInTransit' \in Nat
        /\ deposited' \in Nat /\ SumFunction(InitialBalance) \in Nat
    BY <1>10
  <2> QED
    BY <2>6, <2>7, <2>8
<1>12. NoMoneyCreatedByKill'
  <2> SUFFICES ASSUME Alone', ~torn'
               PROVE  MoneyInWallets' + MoneyInTransit' <= MoneyPaidIn'
    BY DEF NoMoneyCreatedByKill, Orderly
  <2>1. MoneyInWallets + MoneyInTransit <= MoneyPaidIn
    BY <1>1 DEF MoneyInv, NoMoneyCreatedByKill, Orderly
  <2>2. CASE Crash
    <3>1. MoneyInTransit' = 0
      <4> DEFINE f == [c \in Closers |->
                        IF pc'[c] = "credit" THEN seen'[c].currentBid ELSE 0]
      <4>1. f \in [Closers -> Int] /\ \A c \in Closers : f[c] = 0
        BY <2>2 DEF Crash
      <4>2. MoneyInTransit' = SumFunction(f) /\ IsFiniteSet(Closers)
        BY FS_Union, FS_Singleton DEF MoneyInTransit, Closers
      <4> HIDE DEF f
      <4> QED
        BY <4>1, <4>2, SumOfZeros
    <3>2. MoneyInWallets' = MoneyInWallets /\ deposited' = deposited
      BY <2>2 DEF Crash, MoneyInWallets
    <3> QED
      BY <1>10, <2>1, <3>1, <3>2
  <2>3. CASE ~Crash
    <3>1. MoneyKept
      BY <1>1, <1>2, <2>3 DEF BooksKept
    <3>2. MoneyInWallets' + MoneyInTransit' - deposited'
            = MoneyInWallets + MoneyInTransit - deposited
      BY <3>1 DEF MoneyKept
    <3>3. MoneyInWallets + MoneyInTransit - deposited <= SumFunction(InitialBalance)
      BY <1>10, <2>1
    <3>4. MoneyInWallets' + MoneyInTransit' - deposited' <= SumFunction(InitialBalance)
      BY <3>2, <3>3
    <3>5. MoneyPaidIn' = SumFunction(InitialBalance) + deposited'
      BY <1>10
    <3>6. /\ MoneyInWallets' \in Nat /\ MoneyInTransit' \in Nat
          /\ deposited' \in Nat /\ SumFunction(InitialBalance) \in Nat
      BY <1>10
    <3> QED
      BY <3>4, <3>5, <3>6
  <2> QED
    BY <2>2, <2>3
<1> QED
  BY <1>0, <1>5, <1>7, <1>8, <1>9, <1>11, <1>12 DEF MoneyInv

LEMMA StutterMoney ==
  ASSUME MoneyInv, UNCHANGED vars
  PROVE  MoneyInv'
<1>1. OrderInv'
  BY StutterOrder DEF MoneyInv
<1>2. /\ MoneyInWallets' = MoneyInWallets /\ MoneyInTransit' = MoneyInTransit
      /\ MoneyPaidIn' = MoneyPaidIn
      /\ \A u \in Bidders : Frozen(u)' = Frozen(u)
  BY DEF vars, MoneyInWallets, MoneyInTransit, MoneyPaidIn, Frozen, FrozenFor, OnAuction
<1> QED
  BY <1>1, <1>2
     DEF vars, MoneyInv, KillsAreCounted, FundsStay, HoldsCover, HoldsExact, Alone,
         Orderly, Undisturbed, MoneyConservedUndisturbed, NoMoneyCreatedByKill

\* The books balance: the invariant behind the five properties below.
THEOREM MoneyHolds == Spec => []MoneyInv
<1>1. Init => MoneyInv
  BY InitMoney
<1>2. BiddingInv /\ BiddingInv' /\ MoneyInv /\ [Next]_vars => MoneyInv'
  BY NextMoney, StutterMoney DEF BiddingInv
<1> QED
  BY <1>1, <1>2, BiddingInvariant, PTL DEF Spec

\* Without overlaps and kills a bidder's hold is exactly the sum of the bids
\* that stand in his name, over any number of auctions.
THEOREM HoldsAreExact == Spec => []HoldsExact
<1>1. MoneyInv => HoldsExact
  BY DEF MoneyInv
<1> QED
  BY <1>1, MoneyHolds, PTL

\* place_hold in a bid is never refused: what was checked before the
\* semaphore is still available behind it.
THEOREM HoldsNeverRefused == Spec => []HoldNeverRefused
<1>1. TypeOK /\ MoneyInv => HoldNeverRefused
  <2> SUFFICES ASSUME TypeOK, MoneyInv, Orderly, NEW b \in Bidders, pc[b] = "hold"
               PROVE  Accepted("hold", wallet[b], req[b].amount)
    BY DEF HoldNeverRefused
  <2>1. req[b].amount <= Available(wallet[b])
    BY DEF MoneyInv, FundsStay
  <2>2. wallet[b] \in WalletRecord /\ req[b].amount \in Nat
    BY DEF TypeOK, Request, Users, Threads
  <2> QED
    BY <2>1, <2>2 DEF Accepted, FundsCover, DeltaAccepted, NewHold, BalanceDelta,
                      HoldDelta, Available, WalletRecord
<1> QED
  BY <1>1, TypeCorrect, MoneyHolds, PTL

\* settle_payment is never refused, nor clamped: the winner's hold covers the
\* price he pays.
THEOREM SettlementsFunded == Spec => []SettlementFunded
<1>1. TypeOK /\ MoneyInv => SettlementFunded
  <2> SUFFICES ASSUME TypeOK, MoneyInv, Orderly, NEW c \in Closers, pc[c] = "settle"
               PROVE  wallet[seen[c].highestBidder].hold >= seen[c].currentBid
    BY DEF SettlementFunded
  <2>0. Alone /\ OrderInv /\ InSettlement(c) /\ c \in Threads
    BY DEF MoneyInv, Orderly, InSettlement, Threads
  <2> PICK a \in Auctions, p \in Bidders, n \in Nat :
        a = req[c].auction /\ p = seen[c].highestBidder /\ n = seen[c].currentBid
    BY <2>0 DEF TypeOK, Request, AuctionRecord, OrderInv, SettlesWhatIsFiled
  <2>1. /\ auction[a].highestBidder = p /\ auction[a].currentBid = n
        /\ auction[a].status = Closed
    <3>1. auction[a] = [seen[c] EXCEPT !.status = Closed] /\ seen[c] \in AuctionRecord
      BY <2>0 DEF TypeOK, OrderInv, SettlesWhatIsFiled
    <3> QED
      BY <3>1 DEF AuctionRecord
  <2>2. \A d \in Bidders :
          ~OnAuction(d, a, {"hold", "write"}) /\ ~OnAuction(d, a, {"write"})
    <3>1. \A d \in Bidders : ~Committed(d, a)
      BY <2>0, <2>1 DEF OrderInv, CopyIsFresh, Open, Closed, Threads
    <3> QED
      BY <3>1 DEF Committed, OnAuction
  <2>3. OnAuction(c, a, {"wal", "settle", "unhold"})
    BY DEF OnAuction
  <2>4. FrozenFor(p, a) = n
    BY <2>1, <2>2, <2>3 DEF FrozenFor
  <2>5. Frozen(p) <= wallet[p].hold
    BY DEF MoneyInv, HoldsCover
  <2>6. FrozenFor(p, a) <= Frozen(p) /\ Frozen(p) \in Nat
    BY FrozenType
  <2>7. wallet[p].hold \in Nat
    BY DEF TypeOK, WalletRecord, Users
  <2> QED
    BY <2>4, <2>5, <2>6, <2>7
<1> QED
  BY <1>1, TypeCorrect, MoneyHolds, PTL

\* No money is created or lost while no two threads overlap on an auction
\* and the server is not killed.
THEOREM MoneyIsConserved == Spec => []MoneyConservedUndisturbed
<1>1. MoneyInv => MoneyConservedUndisturbed
  BY DEF MoneyInv
<1> QED
  BY <1>1, MoneyHolds, PTL

\* Nor do kills create money, unless one tears a bid apart.
THEOREM KillsCreateNoMoney == Spec => []NoMoneyCreatedByKill
<1>1. MoneyInv => NoMoneyCreatedByKill
  BY DEF MoneyInv
<1> QED
  BY <1>1, MoneyHolds, PTL

-----------------------------------------------------------------------------
(* Why no money is lost but by a kill, whatever overlaps                   *)

\* The opposite would be a step that takes more from the wallets than it puts
\* on its way, or takes more off the way than it puts into the wallets.
MoneyNotLess ==
  MoneyInWallets' + MoneyInTransit' - deposited'
    >= MoneyInWallets + MoneyInTransit - deposited

LEMMA AtLeastTransitive ==
  ASSUME NEW i \in Int, NEW j \in Int, NEW k \in Int, i >= j, j >= k
  PROVE  i >= k
OBVIOUS

LEMMA SumsAreNat ==
  ASSUME TypeOK, TypeOK'
  PROVE  /\ MoneyInWallets \in Nat /\ MoneyInTransit \in Nat /\ deposited \in Nat
         /\ MoneyInWallets' \in Nat /\ MoneyInTransit' \in Nat /\ deposited' \in Nat
<1>1. MoneyInWallets \in Nat /\ MoneyInTransit \in Nat /\ deposited \in Nat
  BY MoneyType DEF TypeOK
<1>2. MoneyInWallets' \in Nat /\ MoneyInTransit' \in Nat /\ deposited' \in Nat
  BY MoneyTypeAfter DEF TypeOK
<1> QED
  BY <1>1, <1>2

\* Freezing or unfreezing, for a user or for nobody.
LEMMA HoldsMoveNoMoney ==
  ASSUME TypeOK, TypeOK', NEW op \in {"hold", "release"},
         NEW u \in Users \cup {NoBidder}, NEW n \in Nat, WalletCall(op, u, n)
  PROVE  MoneyInWallets' = MoneyInWallets
<1>1. CASE u \in Users
  <2>1. /\ wallet'[u] = Outcome(op, wallet[u], n)
        /\ MoneyInWallets' = MoneyInWallets + wallet'[u].balance - wallet[u].balance
    BY <1>1, OneWallet
  <2>2. wallet[u] \in WalletRecord
    BY <1>1 DEF TypeOK
  <2>3. wallet'[u].balance = wallet[u].balance
    BY <2>1, <2>2, OutcomeBalance
  <2>4. MoneyInWallets \in Nat /\ wallet[u].balance \in Nat
    BY <2>2, MoneyType DEF WalletRecord
  <2> QED
    BY <2>1, <2>3, <2>4
<1>2. CASE u \notin Users
  <2>1. wallet' = wallet
    BY <1>2 DEF WalletCall, TypeOK
  <2> QED
    BY <2>1 DEF MoneyInWallets
<1> QED
  BY <1>1, <1>2

LEMMA SettleLosesNothing ==
  ASSUME TypeOK, TypeOK', NEW c \in Closers, CloseSettle(c)
  PROVE  MoneyNotLess
<1>0. /\ pc[c] = "settle" /\ pc'[c] = "credit" /\ OthersStay(c)
      /\ UNCHANGED <<seen, deposited>>
  BY DEF CloseSettle, Goto, OthersStay, TypeOK, Threads
<1> PICK p \in Users \cup {NoBidder}, n \in Nat :
      p = seen[c].highestBidder /\ n = seen[c].currentBid
  BY DEF TypeOK, AuctionRecord, Threads, Users
<1>1. MoneyInTransit' = MoneyInTransit + n
  <2>1. InTransit(c) = 0 /\ InTransit(c)' = n
    BY <1>0 DEF InTransit
  <2>2. MoneyInTransit' = MoneyInTransit + InTransit(c)' - InTransit(c)
    BY <1>0, TransitMoves
  <2> QED
    BY <2>1, <2>2, SumsAreNat
<1>2. MoneyInWallets' >= MoneyInWallets - n
  <2>0. WalletCall("settle", p, n)
    BY DEF CloseSettle
  <2>1. CASE p \in Users
    <3>1. /\ wallet'[p] = Outcome("settle", wallet[p], n)
          /\ MoneyInWallets' = MoneyInWallets + wallet'[p].balance - wallet[p].balance
      BY <2>0, <2>1, OneWallet
    <3>2. wallet[p] \in WalletRecord /\ wallet'[p] \in WalletRecord
      BY <2>1 DEF TypeOK
    <3>3. wallet'[p].balance >= wallet[p].balance - n
      BY <3>1, <3>2, OutcomeBalance
    <3>4. /\ MoneyInWallets \in Nat
          /\ wallet[p].balance \in Nat /\ wallet'[p].balance \in Nat
      BY <3>2, SumsAreNat DEF WalletRecord
    <3> QED
      BY <3>1, <3>3, <3>4
  <2>2. CASE p \notin Users
    <3>1. wallet' = wallet
      BY <2>0, <2>2 DEF WalletCall, TypeOK
    <3>2. MoneyInWallets' = MoneyInWallets
      BY <3>1 DEF MoneyInWallets
    <3> QED
      BY <3>2, SumsAreNat
  <2> QED
    BY <2>1, <2>2
<1>3. deposited' = deposited
  BY <1>0
<1> QED
  BY <1>1, <1>2, <1>3, SumsAreNat DEF MoneyNotLess

\* The credit cannot be refused, and it is the price that was on its way.
LEMMA CreditLosesNothing ==
  ASSUME TypeOK, TypeOK', WalletsSound, NEW c \in Closers, CloseCredit(c)
  PROVE  MoneyNotLess
<1>0. /\ pc[c] = "credit" /\ pc'[c] = "notify" /\ OthersStay(c)
      /\ deposited' = deposited
  BY DEF CloseCredit, Leave, Goto, OthersStay, TypeOK, Threads
<1> PICK p \in Users, n \in Nat :
      p = SellerOf[req[c].auction] /\ n = seen[c].currentBid
  BY DEF TypeOK, Request, AuctionRecord, Threads, Users
<1>1. MoneyInTransit' = MoneyInTransit - n
  <2>1. InTransit(c) = n /\ InTransit(c)' = 0
    BY <1>0 DEF InTransit
  <2>2. MoneyInTransit' = MoneyInTransit + InTransit(c)' - InTransit(c)
    BY <1>0, TransitMoves
  <2> QED
    BY <2>1, <2>2, SumsAreNat
<1>2. MoneyInWallets' = MoneyInWallets + n
  <2>1. WalletCall("credit", p, n)
    BY DEF CloseCredit
  <2>2. /\ wallet'[p] = Outcome("credit", wallet[p], n)
        /\ MoneyInWallets' = MoneyInWallets + wallet'[p].balance - wallet[p].balance
    BY <2>1, OneWallet
  <2>3. wallet[p] \in WalletRecord /\ Sound(wallet[p])
    BY DEF TypeOK, WalletsSound
  <2>4. wallet'[p].balance = wallet[p].balance + n
    BY <2>2, <2>3, CreditOutcome
  <2>5. MoneyInWallets \in Nat /\ wallet[p].balance \in Nat
    BY <2>3, SumsAreNat DEF WalletRecord
  <2> QED
    BY <2>2, <2>4, <2>5
<1> QED
  BY <1>0, <1>1, <1>2, SumsAreNat DEF MoneyNotLess

LEMMA DepositLosesNothing ==
  ASSUME TypeOK, TypeOK', WalletsSound, NEW u \in Users, Deposit(u)
  PROVE  MoneyNotLess
<1> PICK n \in Nat : deposited' = deposited + n /\ WalletCall("credit", u, n)
  BY DEF Deposit
<1>1. MoneyInTransit' = MoneyInTransit
  BY DEF Deposit, MoneyInTransit
<1>2. /\ wallet'[u] = Outcome("credit", wallet[u], n)
      /\ MoneyInWallets' = MoneyInWallets + wallet'[u].balance - wallet[u].balance
  BY OneWallet
<1>3. wallet[u] \in WalletRecord /\ Sound(wallet[u])
  BY DEF TypeOK, WalletsSound
<1>4. wallet'[u].balance = wallet[u].balance + n
  BY <1>2, <1>3, CreditOutcome
<1>5. wallet[u].balance \in Nat
  BY <1>3 DEF WalletRecord
<1>6. MoneyInWallets' = MoneyInWallets + n
  BY <1>2, <1>4, <1>5, SumsAreNat
<1> QED
  BY <1>1, <1>6, SumsAreNat DEF MoneyNotLess

\* Steps that settle, credit and deposit nothing leave all sums alone.
LEMMA QuietLosesNothing ==
  ASSUME TypeOK, TypeOK', MoneyInWallets' = MoneyInWallets,
         \A c \in Closers : InTransit(c)' = InTransit(c), deposited' = deposited
  PROVE  MoneyNotLess
<1>1. MoneyInTransit' = MoneyInTransit
  BY TransitStays
<1> QED
  BY <1>1, SumsAreNat DEF MoneyNotLess

LEMMA NextLosesNothing ==
  ASSUME TypeOK, TypeOK', WalletsSound, Step, ~Crash
  PROVE  MoneyNotLess
<1> USE DEF Threads, Users
<1>0. \A t \in Threads :
        /\ req[t].amount \in Nat /\ seen[t].currentBid \in Nat
        /\ seen[t].highestBidder \in Users \cup {NoBidder}
  BY DEF TypeOK, Request, AuctionRecord
<1>1. ASSUME NEW b \in Bidders, BidPeek(b) \/ PlaceBidStep(b)
      PROVE  MoneyNotLess
  <2>1. b \in Threads /\ b \notin Closers
    BY DEF Closers
  <2>2. \A c \in Closers : InTransit(c)' = InTransit(c)
    BY <1>1, <2>1
       DEF InTransit, PlaceBidStep, BidPeek, BidCheckFunds, BidEnter, BidReread,
           BidReleasePrevious, BidPlaceHold, BidWriteAuction, BidAppend, Goto, Leave,
           Return, TypeOK
  <2>3. deposited' = deposited
    BY <1>1 DEF PlaceBidStep, BidPeek, BidCheckFunds, BidEnter, BidReread,
                BidReleasePrevious, BidPlaceHold, BidWriteAuction, BidAppend
  <2>4. MoneyInWallets' = MoneyInWallets
    <3>1. CASE UNCHANGED wallet
      BY <3>1 DEF MoneyInWallets
    <3>2. CASE BidReleasePrevious(b)
      BY <1>0, <3>2, HoldsMoveNoMoney DEF BidReleasePrevious
    <3>3. CASE BidPlaceHold(b)
      BY <1>0, <3>3, HoldsMoveNoMoney DEF BidPlaceHold
    <3> QED
      BY <1>1, <3>1, <3>2, <3>3
         DEF PlaceBidStep, BidPeek, BidCheckFunds, BidEnter, BidReread,
             BidWriteAuction, BidAppend
  <2> QED
    BY <2>2, <2>3, <2>4, QuietLosesNothing
<1>2. ASSUME NEW c \in Closers, CloseStep(c) \/ CloseNotify(c)
      PROVE  MoneyNotLess
  <2>1. CASE CloseSettle(c)
    BY <2>1, SettleLosesNothing
  <2>2. CASE CloseCredit(c)
    BY <2>2, CreditLosesNothing
  <2>3. CASE \/ CloseWriteAuction(c) \/ CloseLog(c) \/ CloseUnhold(c)
             \/ CloseNotify(c)
    <3>1. deposited' = deposited
      BY <2>3 DEF CloseWriteAuction, CloseLog, CloseUnhold, CloseNotify
    <3>2. MoneyInWallets' = MoneyInWallets
      <4>1. CASE CloseUnhold(c)
        BY <1>0, <4>1, HoldsMoveNoMoney DEF CloseUnhold
      <4>2. CASE UNCHANGED wallet
        BY <4>2 DEF MoneyInWallets
      <4> QED
        BY <2>3, <4>1, <4>2 DEF CloseWriteAuction, CloseLog, CloseNotify
    <3>3. /\ pc[c] # "credit" /\ pc'[c] # "credit"
          /\ \A d \in Closers \ {c} : pc'[d] = pc[d] /\ seen'[d] = seen[d]
      BY <2>3, SMTT(30)
         DEF CloseWriteAuction, CloseLog, CloseUnhold, CloseNotify, Goto, Leave,
             Return, TypeOK
    <3>4. \A d \in Closers : InTransit(d)' = InTransit(d)
      BY <3>3 DEF InTransit
    <3> QED
      BY <3>1, <3>2, <3>4, QuietLosesNothing
  <2> QED
    BY <1>2, <2>1, <2>2, <2>3 DEF CloseStep
<1>3. CASE \/ \E c \in Auctioneers : CloseRequest(c)
           \/ TimerScan \/ TimerNext
           \/ \E a \in Auctions : Expire(a)
  <2>1. wallet' = wallet /\ deposited' = deposited
    BY <1>3 DEF CloseRequest, TimerScan, TimerNext, Expire
  <2>2. MoneyInWallets' = MoneyInWallets
    BY <2>1 DEF MoneyInWallets
  <2>3. \A c \in Closers : InTransit(c)' = InTransit(c)
    BY <1>3 DEF InTransit, CloseRequest, TimerScan, TimerNext, StartClose, Goto,
                Expire, Closers, TypeOK
  <2> QED
    BY <2>1, <2>2, <2>3, QuietLosesNothing
<1>4. ASSUME NEW u \in Users, Deposit(u) PROVE MoneyNotLess
  BY <1>4, DepositLosesNothing
<1> QED
  BY <1>1, <1>2, <1>3, <1>4 DEF Step

\* Without a kill no money is lost: what a winner pays is on its way to the
\* seller and gets there, however many threads settle the auction at once and
\* whatever bids come in between.  Nothing is assumed of overlaps.
THEOREM NoMoneyIsLost == Spec => []NoMoneyLost
<1>1. Init => NoMoneyLost
  <2> SUFFICES ASSUME Init
               PROVE  MoneyInWallets + MoneyInTransit >= MoneyPaidIn
    BY DEF NoMoneyLost
  <2>1. ~torn /\ crashes = 0 /\ ~raced /\ ~doubled
    BY DEF Init
  <2>2. MoneyInWallets + MoneyInTransit = MoneyPaidIn
    BY <2>1, InitMoney DEF MoneyInv, MoneyConservedUndisturbed, Undisturbed, Alone
  <2>3. MoneyInWallets \in Nat /\ MoneyInTransit \in Nat
    BY InitType, MoneyType
  <2> QED
    BY <2>2, <2>3
<1>2. BiddingInv /\ BiddingInv' /\ NoMoneyLost /\ [Next]_vars => NoMoneyLost'
  <2> SUFFICES ASSUME BiddingInv, BiddingInv', NoMoneyLost, [Next]_vars, crashes' = 0
               PROVE  MoneyInWallets' + MoneyInTransit' >= MoneyPaidIn'
    BY DEF NoMoneyLost
  <2>0. TypeOK /\ TypeOK' /\ WalletsSound
    BY DEF BiddingInv
  <2>1. CASE UNCHANGED vars
    BY <2>1 DEF vars, NoMoneyLost, MoneyInWallets, MoneyInTransit, MoneyPaidIn
  <2>2. CASE Next
    <3>1. ~Crash
      BY <2>0 DEF Crash, TypeOK
    <3>2. crashes' = crashes
      BY <2>2, <3>1
         DEF Next, Step, PlaceBidStep, BidPeek, BidCheckFunds, BidEnter, BidReread,
             BidReleasePrevious, BidPlaceHold, BidWriteAuction, BidAppend,
             CloseRequest, CloseStep, CloseWriteAuction, CloseLog, CloseSettle,
             CloseCredit, CloseUnhold, CloseNotify, TimerScan, TimerNext, Deposit,
             Expire
    <3>3. MoneyInWallets + MoneyInTransit >= SumFunction(InitialBalance) + deposited
      BY <3>2 DEF NoMoneyLost, MoneyPaidIn
    <3>4. /\ MoneyInWallets \in Nat /\ MoneyInTransit \in Nat /\ deposited \in Nat
          /\ MoneyInWallets' \in Nat /\ MoneyInTransit' \in Nat /\ deposited' \in Nat
      BY <2>0, SumsAreNat
    <3>5. SumFunction(InitialBalance) \in Nat
      <4>1. IsFiniteSet(Users)
        BY FS_Union DEF Users
      <4> QED
        BY <4>1, SumIsNat
    <3>6. MoneyInWallets' + MoneyInTransit' - deposited'
            >= MoneyInWallets + MoneyInTransit - deposited
      BY <2>0, <2>2, <3>1, NextLosesNothing DEF Next, MoneyNotLess
    <3>7. MoneyInWallets' + MoneyInTransit' >= SumFunction(InitialBalance) + deposited'
      <4>1. MoneyInWallets + MoneyInTransit - deposited >= SumFunction(InitialBalance)
        BY <3>3, <3>4, <3>5
      <4>2. MoneyInWallets' + MoneyInTransit' - deposited' >= SumFunction(InitialBalance)
        <5>1. /\ MoneyInWallets + MoneyInTransit - deposited \in Int
              /\ MoneyInWallets' + MoneyInTransit' - deposited' \in Int
              /\ SumFunction(InitialBalance) \in Int
          BY <3>4, <3>5
        <5> QED
          BY ONLY <3>6, <4>1, <5>1, AtLeastTransitive
      <4> QED
        BY <3>4, <3>5, <4>2
    <3> QED
      BY <3>7 DEF MoneyPaidIn
  <2> QED
    BY <2>1, <2>2
<1> QED
  BY <1>1, <1>2, BiddingInvariant, PTL DEF Spec
=============================================================================
