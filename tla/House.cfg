CONSTANTS
  alice = alice
  bob = bob
  seller = seller
  admin = admin
  Bidders <- MCBidders
  Auctioneers <- MCSellerAndAdmin
  Admins <- MCAdmin
  Timer = Timer
  NoBidder = NoBidder
  Auctions <- MCTwo
  SellerOf <- MCSellerOf
  ReserveOf <- MCReserve
  StartPrice <- MCStart
  Semaphores = 1024
  ExpiredCap = 64
  Amounts = {2, 3}
  InitialBalance <- MCFunds
  MaxDeposits = 2
  MaxCrashes = 1
SPECIFICATION Spec
INVARIANTS TypeOK NoMoneyLost BidsRise HoldsExact HoldNeverRefused SettlementFunded MoneyConservedUndisturbed NoMoneyCreatedByKill
PROPERTIES PriceNeverFallsWhileOpen ClosedIsFinal
CONSTRAINT OrderlyOrOneAuction
CHECK_DEADLOCK FALSE
