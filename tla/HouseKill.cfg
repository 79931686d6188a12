CONSTANTS
  alice = alice
  bob = bob
  seller = seller
  admin = admin
  Bidders <- MCBidders
  Auctioneers <- MCSeller
  Admins <- MCNobody
  Timer = Timer
  NoBidder = NoBidder
  Auctions <- MCTwo
  SellerOf <- MCSellerOf
  ReserveOf <- MCNoReserve
  StartPrice <- MCStart
  Semaphores = 1024
  ExpiredCap = 64
  Amounts = {2, 3}
  InitialBalance <- MCBalance
  MaxDeposits = 0
  MaxCrashes = 1
SPECIFICATION Spec
INVARIANT NoMoneyCreated
CONSTRAINT WithoutOverlap
CHECK_DEADLOCK FALSE
