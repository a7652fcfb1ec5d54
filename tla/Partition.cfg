CONSTANTS
  p1 = p1
  p2 = p2
  d1 = d1
  d2 = d2
  n1 = n1
  Paths = {p1, p2}
  Dirs = {d1, d2}
  Names = {n1}
  NoDir = NoDir
  NoPending = NoPending
  Batch = 1
  MaxHistory = 4
  MaxTurns = 5
SPECIFICATION Spec
SYMMETRY MCSymmetry
INVARIANTS TypeOK PartitionLoads
PROPERTIES SuppressionKept ChoiceFollowsIdentity NothingSuppressedListed LastGoodKept
CHECK_DEADLOCK FALSE
