CONSTANTS
  alice = alice
  bob = bob
  seller = seller
  admin = admin
  Bidders <- MCBidders
  Auctioneers <- MCSeller
  Admins <- MCNobody
  Timer = Timer
  NoBidder = NoBidder
  Auctions <- MCOne
  SellerOf <- MCSellerOf
  ReserveOf <- MCReserve
  StartPrice <- MCStart
  Semaphores = 1024
  ExpiredCap = 64
  Amounts = {2, 3}
  InitialBalance <- MCBalance
  MaxDeposits = 0
  MaxCrashes = 0
SPECIFICATION Spec
PROPERTY NoBidWhileSettling
CHECK_DEADLOCK FALSE
