CONSTANTS
  alice = alice
  bob = bob
  seller = seller
  admin = admin
  Bidders <- MCBidders
  Auctioneers <- MCSeller
  Admins <- MCNobody
  Timer = Timer
  NoBidder = NoBidder
  Auctions <- MCTwo
  SellerOf <- MCSellerOf
  ReserveOf <- MCReserve
  StartPrice <- MCStart
  Semaphores = 1
  ExpiredCap = 1
  Amounts = {2}
  InitialBalance <- MCBalance
  MaxDeposits = 0
  MaxCrashes = 0
SPECIFICATION TimerSpec
PROPERTIES ExpiredIsClosed BidsReturn
CHECK_DEADLOCK FALSE
