SPECIFICATION MCTakeoverSpec
CONSTANTS
  a1 = a1
  a2 = a2
  p1 = p1
  p2 = p2
  c1 = c1
  c2 = c2
  NoActor = NoActor
  BadActor = BadActor
  NoExpiry = NoExpiry
  BadExpiry = BadExpiry
  NoBody = NoBody
  Actors = {a1, a2}
  Strict = FALSE
  Clones = {c1}
  PlainActors = {a1}
  Procs = {p1, p2}
  CloneOf <- MCOneClone
  LeaseTicks = {0, 1}
  Flags = {"work.punchin"}
  OwnBodies <- MCRawBodies
  OwnActors = {BadActor}
  MaxSeq = 2
  MaxClock = 3
INVARIANTS
  LeaseMatchesHistory
PROPERTIES
  MCTakeoverServed
