CONSTANTS
  alice = alice
  bob = bob
  seller = seller
  mod1 = mod1
  mod2 = mod2
  NoBidder = NoBidder
  Filers <- MCFilers
  Moderators = {mod1, mod2}
  Sellers <- MCSellers
  Auctions <- MCTwo
  WinnerOf <- MCWinnerOf
  PriceOf <- MCPriceOf
  SellerOf <- MCSellerOf
  InitialBalance <- MCBalance
  MaxDisputes = 2
SPECIFICATION Spec
INVARIANTS TypeOK DisputedIffPending RefundedOnce RefundsAccounted
CHECK_DEADLOCK FALSE
