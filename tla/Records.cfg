CONSTANTS
  Threads = {t1, t2, t3}
  Items = {lamp, vase}
  NoItem = NoItem
  Capacity = 2
  MaxListings = 2
  MaxFeedback = 3
SPECIFICATION Spec
INVARIANTS TypeOK ListingsKept
PROPERTY QuietIsListed
SYMMETRY Symmetry
CHECK_DEADLOCK FALSE
