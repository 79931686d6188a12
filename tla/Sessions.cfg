CONSTANTS
  Users = {u1, u2, u3}
  Conns = {c1, c2, c3}
  NoUser = NoUser
  NoConn = NoConn
  NoSlot = NoSlot
  Slots <- MCSlots
  Entries <- MCEntries
  Relogins = FALSE
  MaxCrashes = 1
SPECIFICATION Spec
INVARIANTS TypeOK OneSlotPerUser RegistryFresh LoggedInHasSession SessionHasConnection
SYMMETRY Symmetry
