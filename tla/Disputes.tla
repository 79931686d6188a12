------------------------------ MODULE Disputes ------------------------------
(***************************************************************************)
(* handle_file_dispute and handle_resolve_dispute of server/dispute.c,     *)
(* run by concurrent worker threads over disputes.dat, auctions.dat and    *)
(* users.dat.  The auctions are closed and settled when a behaviour        *)
(* starts; some were sold, some had no bid or stayed below the reserve.    *)
(* Every access to a file is a step of its own, and so is every wallet     *)
(* call (WalletLocks shows that wallet calls are atomic).                  *)
(***************************************************************************)
EXTENDS Wallet, Sequences, FiniteSets, Functions

CONSTANTS
  Filers,             \* sessions with ROLE_BIDDER
  Moderators,         \* sessions with ROLE_MODERATOR or ROLE_ADMIN
  Sellers,
  Auctions,
  WinnerOf,           \* highest_bidder_id of each auction, NoBidder for none
  PriceOf,            \* current_bid
  SellerOf,
  NoBidder,
  InitialBalance,     \* users.dat after the settlements
  MaxDisputes         \* bound: the disputes in disputes.dat

Users == Filers \cup Sellers
Threads == Filers \cup Moderators

ASSUME DisputesAssumption ==
  /\ IsFiniteSet(Filers) /\ IsFiniteSet(Sellers) /\ IsFiniteSet(Auctions)
  /\ Filers \cap Moderators = {}
  /\ NoBidder \notin Users
  /\ WinnerOf \in [Auctions -> Filers \cup {NoBidder}]
  /\ PriceOf \in [Auctions -> Nat \ {0}]
  /\ SellerOf \in [Auctions -> Sellers]
  /\ InitialBalance \in [Users -> Nat]
  /\ MaxDisputes \in Nat
  /\ Auctions # {}

VARIABLES
  status,             \* auctions.dat: the status of each auction
  disputes,           \* disputes.dat: [auction, status], by dispute id
  wallet,             \* users.dat
  anomalies,          \* txn.log: the auctions of the REFUND_ANOMALY lines
  pc,
  doc,                \* each thread's local "Dispute d", with its id
  refunds,            \* history: how often each winner was refunded
  raced               \* history: see Overlap

vars == <<status, disputes, wallet, anomalies, pc, doc, refunds, raced>>

AuctionClosed == "closed"
AuctionDisputed == "disputed"
DisputeStatus == {"open", "resolved", "rejected"}
DisputeRecord == [auction : Auctions, status : DisputeStatus]
Local == [id : Nat, auction : Auctions, status : DisputeStatus]

FilerLabels == {"idle", "number", "write", "mark"}
ModeratorLabels == {"idle", "decide", "credit", "check", "debit", "restore"}

TypeOK ==
  /\ status \in [Auctions -> {AuctionClosed, AuctionDisputed}]
  /\ disputes \in Seq(DisputeRecord)
  /\ wallet \in [Users -> WalletRecord]
  /\ anomalies \subseteq Auctions
  /\ pc \in [Threads -> FilerLabels \cup ModeratorLabels]
  /\ doc \in [Threads -> Local]
  /\ refunds \in [Auctions -> Nat]
  /\ raced \in BOOLEAN

NoDoc == [id |-> 0, auction |-> CHOOSE a \in Auctions : TRUE, status |-> "open"]

Init ==
  /\ status = [a \in Auctions |-> AuctionClosed]
  /\ disputes = <<>>
  /\ wallet = [u \in Users |-> [balance |-> InitialBalance[u], hold |-> 0]]
  /\ anomalies = {}
  /\ pc = [t \in Threads |-> "idle"]
  /\ doc = [t \in Threads |-> NoDoc]
  /\ refunds = [a \in Auctions |-> 0]
  /\ raced = FALSE

Goto(t, label) == pc' = [pc EXCEPT ![t] = label]
Return(t) == Goto(t, "idle") /\ doc' = [doc EXCEPT ![t] = NoDoc]

\* write_dispute: the record lands at its id, at the end or over another.
WriteDispute(d) ==
  LET record == [auction |-> d.auction, status |-> d.status] IN
  disputes' = IF d.id = Len(disputes) + 1 THEN Append(disputes, record)
              ELSE [disputes EXCEPT ![d.id] = record]

\* A call on user 0, the "no bidder" of an auction, finds no record and fails.
WalletCall(op, user, amount) ==
  wallet' = [u \in Users |->
               IF u = user THEN Outcome(op, wallet[u], amount) ELSE wallet[u]]

-----------------------------------------------------------------------------
(* handle_file_dispute *)

\* Mutant: a disputed auction may be disputed again.
FileReadUnchecked(f) ==
  /\ pc[f] = "idle"
  /\ \E a \in Auctions : doc' = [doc EXCEPT ![f] = [NoDoc EXCEPT !.auction = a]]
  /\ Goto(f, "number")
  /\ UNCHANGED <<status, disputes, wallet, anomalies, refunds>>

\* "Only allow disputes on CLOSED auctions": any bidder, any such auction.
FileRead(f) ==
  /\ pc[f] = "idle"
  /\ \E a \in Auctions :
       /\ status[a] = AuctionClosed
       /\ doc' = [doc EXCEPT ![f] = [NoDoc EXCEPT !.auction = a]]
  /\ Goto(f, "number")
  /\ UNCHANGED <<status, disputes, wallet, anomalies, refunds>>

\* next_dispute_id, from the size of the file.
FileNumber(f) ==
  /\ pc[f] = "number"
  /\ Len(disputes) < MaxDisputes
  /\ doc' = [doc EXCEPT ![f].id = Len(disputes) + 1]
  /\ Goto(f, "write")
  /\ UNCHANGED <<status, disputes, wallet, anomalies, refunds>>

FileWrite(f) ==
  /\ pc[f] = "write"
  /\ WriteDispute(doc[f])
  /\ Goto(f, "mark")
  /\ UNCHANGED <<status, wallet, anomalies, doc, refunds>>

\* Mutant: the auction is not marked.
FileMarkForgotten(f) ==
  /\ pc[f] = "mark"
  /\ Return(f)
  /\ UNCHANGED <<status, disputes, wallet, anomalies, refunds>>

\* The copy of the auction, now DISPUTED, is written back.
FileMark(f) ==
  /\ pc[f] = "mark"
  /\ status' = [status EXCEPT ![doc[f].auction] = AuctionDisputed]
  /\ Return(f)
  /\ UNCHANGED <<disputes, wallet, anomalies, refunds>>

-----------------------------------------------------------------------------
(* handle_resolve_dispute *)

\* The dispute must be open; the moderator's verdict goes into the copy.
ResolveRead(m) ==
  /\ pc[m] = "idle"
  /\ \E i \in 1..Len(disputes), verdict \in {"resolved", "rejected"} :
       /\ disputes[i].status = "open"
       /\ doc' = [doc EXCEPT ![m] =
            [id |-> i, auction |-> disputes[i].auction, status |-> verdict]]
  /\ Goto(m, "decide")
  /\ UNCHANGED <<status, disputes, wallet, anomalies, refunds>>

\* write_dispute and the reading of the auction.  Winner, price and seller
\* do not change any more, so only the status of that copy could be old,
\* and it is overwritten.
ResolveWrite(m) ==
  /\ pc[m] = "decide"
  /\ WriteDispute(doc[m])
  /\ Goto(m, IF doc[m].status = "resolved" THEN "credit" ELSE "restore")
  /\ UNCHANGED <<status, wallet, anomalies, doc, refunds>>

\* "refund winner"
RefundWinner(m) ==
  LET a == doc[m].auction IN
  /\ pc[m] = "credit"
  /\ WalletCall("credit", WinnerOf[a], PriceOf[a])
  /\ refunds' = [refunds EXCEPT ![a] = @ + 1]
  /\ Goto(m, "check")
  /\ UNCHANGED <<status, disputes, anomalies, doc>>

\* Mutant: the seller's balance is not checked, credit_wallet checks anyway.
CheckSellerDropped(m) ==
  /\ pc[m] = "check"
  /\ Goto(m, "debit")
  /\ UNCHANGED <<status, disputes, wallet, anomalies, doc, refunds>>

\* "We check they have enough; if not, we flag it".
CheckSeller(m) ==
  LET a == doc[m].auction IN
  /\ pc[m] = "check"
  /\ IF wallet[SellerOf[a]].balance >= PriceOf[a]
     THEN Goto(m, "debit") /\ UNCHANGED <<doc, anomalies>>
     ELSE Return(m) /\ anomalies' = anomalies \cup {a}
  /\ UNCHANGED <<status, disputes, wallet, refunds>>

\* "apply_wallet_delta via a negative credit"; the return code is ignored.
DebitSeller(m) ==
  LET a == doc[m].auction IN
  /\ pc[m] = "debit"
  /\ WalletCall("credit", SellerOf[a], -PriceOf[a])
  /\ Return(m)
  /\ UNCHANGED <<status, disputes, anomalies, refunds>>

\* REJECTED: the auction goes back to CLOSED.
Restore(m) ==
  /\ pc[m] = "restore"
  /\ status' = [status EXCEPT ![doc[m].auction] = AuctionClosed]
  /\ Return(m)
  /\ UNCHANGED <<disputes, wallet, anomalies, refunds>>

-----------------------------------------------------------------------------
(* Nothing in the code orders two threads at work on the disputes of one   *)
(* auction, two that number disputes, or two that debit one seller; raced  *)
(* records that it has happened.                                           *)

Busy(t) == pc[t] # "idle"
SameSubject(s, t) ==
  \/ doc[s].auction = doc[t].auction
  \/ {s, t} \subseteq Filers
  \/ /\ {s, t} \subseteq Moderators
     /\ SellerOf[doc[s].auction] = SellerOf[doc[t].auction]

Overlap ==
  \E s, t \in Threads : s # t /\ Busy(s) /\ Busy(t) /\ SameSubject(s, t)

FileStep(f) == FileRead(f) \/ FileNumber(f) \/ FileWrite(f) \/ FileMark(f)
ResolveStep(m) ==
  \/ ResolveRead(m) \/ ResolveWrite(m) \/ RefundWinner(m) \/ CheckSeller(m)
  \/ DebitSeller(m) \/ Restore(m)

Next ==
  /\ \/ \E f \in Filers : FileStep(f)
     \/ \E m \in Moderators : ResolveStep(m)
  /\ raced' = (raced \/ Overlap')

Spec == Init /\ [][Next]_vars

-----------------------------------------------------------------------------
(* Properties *)

\* What one auction's disputes say about its status, between requests:
\* it is DISPUTED exactly when one of them is open or was granted.
Pending(a) ==
  \E i \in 1..Len(disputes) :
    disputes[i].auction = a /\ disputes[i].status \in {"open", "resolved"}

DisputedIffPending ==
  ~raced =>
    \A a \in Auctions :
      (\A t \in Threads : Busy(t) => doc[t].auction # a) =>
        (status[a] = AuctionDisputed <=> Pending(a))

\* The winner of an auction is refunded at most once, however many bidders
\* file disputes over it one after the other.
RefundedOnce == ~raced => \A a \in Auctions : refunds[a] <= 1

\* Refunds conserve money, but for those flagged in txn.log and those of
\* auctions that had no bidder, where only the seller is debited.
Balances == SumFunction([u \in Users |-> wallet[u].balance])
Credited(a) == IF WinnerOf[a] = NoBidder THEN 0 ELSE PriceOf[a] * refunds[a]
Debited(a) ==
  IF a \in anomalies
     \/ \E m \in Moderators : doc[m].auction = a /\ pc[m] \in {"check", "debit"}
  THEN 0 ELSE PriceOf[a] * refunds[a]

RefundsAccounted ==
  ~raced =>
    Balances = SumFunction(InitialBalance)
               + SumFunction([a \in Auctions |-> Credited(a) - Debited(a)])
=============================================================================
