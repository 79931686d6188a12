CONSTANTS
  Threads = {t1, t2, t3}
  NoThread = NoThread
  Users <- MCUsers
  Jobs <- MCJobs
  Buckets = 2
  InitialWallet <- MCInitialWallet
  MaxCalls = 3
SPECIFICATION FairSpec
INVARIANTS WalletsSound
PROPERTIES CallsAreAtomic CallsReturn
CHECK_DEADLOCK FALSE
