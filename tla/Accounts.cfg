CONSTANTS
  c1 = c1
  c2 = c2
  root = root
  ann = ann
  bob = bob
  Conns = {c1, c2}
  Timer = Timer
  Names <- MCNames
  Secrets = {"old", "new"}
  Seeded <- MCSeeded
  NewRoles <- MCNewRoles
  Amounts = {1}
  MaxWrites = 5
SYMMETRY MCSymmetry
SPECIFICATION Spec
INVARIANTS TypeOK WalletsSound NoDecisionLost AdminRemains NamesUnique
CHECK_DEADLOCK FALSE
