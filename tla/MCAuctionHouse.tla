--------------------------- MODULE MCAuctionHouse ---------------------------
(***************************************************************************)
(* Small instances of AuctionHouse.  Bidders and auctioneers are model     *)
(* values; auctions are the ids 1..n.                                      *)
(***************************************************************************)
EXTENDS AuctionHouse

CONSTANTS alice, bob, seller, admin

MCBidders == {alice, bob}
MCSeller == {seller}
MCNobody == {}
MCAdmin == {admin}
MCSellerAndAdmin == {seller, admin}

MCOne == {1}
MCTwo == {1, 2}
MCSellerOf == [a \in Auctions |-> seller]
\* The last auction has a reserve, the others have none.
MCReserve == [a \in Auctions |-> IF \E x \in Auctions : x > a THEN 0 ELSE 3]
MCNoReserve == [a \in Auctions |-> 0]
MCStart == [a \in Auctions |-> 1]
MCBalance == [u \in Users |-> IF u = alice THEN 3 ELSE IF u = bob THEN 2 ELSE 0]
\* Enough for alice to lead two auctions, not if one of her bids is 3.
MCFunds == [u \in Users |-> IF u = alice THEN 4 ELSE IF u = bob THEN 2 ELSE 0]

\* For properties of behaviours without overlaps: an overlap ends a behaviour.
WithoutOverlap == Alone

\* Overlaps, torn bids, deposits and the admin's closes (the latter two not in
\* one behaviour) are explored on the last auction only; what is orderly is
\* explored on all of them, and after a kill with the timer's closes.
Untouched(a) ==
  /\ a \notin expired /\ auction[a] = FirstListing(a)
  /\ \A t \in Threads : pc[t] = "idle" \/ req[t].auction # a
OrderlyOrOneAuction ==
  \/ /\ Orderly /\ deposited = 0 /\ pc[admin] = "idle"
     /\ crashes = 0 \/ pc[seller] = "idle"
  \/ /\ \A a \in Auctions : (\E x \in Auctions : x > a) => Untouched(a)
     /\ deposited = 0 \/ pc[admin] = "idle"
=============================================================================
