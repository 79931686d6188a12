----------------------------- MODULE MCDisputes -----------------------------
(***************************************************************************)
(* Small instance of Disputes: auction 1 went to alice, auction 2 closed   *)
(* without a bid; both are the seller's.                                   *)
(***************************************************************************)
EXTENDS Disputes

CONSTANTS alice, bob, seller, mod1, mod2

MCFilers == {alice, bob}
MCSellers == {seller}
MCTwo == {1, 2}
MCWinnerOf == [a \in Auctions |-> IF a = 1 THEN alice ELSE NoBidder]
MCPriceOf == [a \in Auctions |-> a]
MCSellerOf == [a \in Auctions |-> seller]

\* The seller can return either price, but not both.
MCBalance == [u \in Users |-> IF u = seller THEN 2 ELSE 1]
=============================================================================
