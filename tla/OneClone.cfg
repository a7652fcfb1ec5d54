SPECIFICATION Spec
CONSTANTS
  a1 = a1
  a2 = a2
  p1 = p1
  p2 = p2
  c1 = c1
  c2 = c2
  NoActor = NoActor
  BadActor = BadActor
  NoExpiry = NoExpiry
  BadExpiry = BadExpiry
  NoBody = NoBody
  Actors = {a1, a2}
  Strict = TRUE
  Clones = {c1}
  PlainActors = {a1, a2}
  Procs = {p1, p2}
  CloneOf <- MCOneClone
  LeaseTicks = {1}
  Flags = {"work.punchin", "work.heartbeat", "work.punchout"}
  OwnBodies <- MCNoRawBodies
  OwnActors = {a1, a2, BadActor}
  MaxSeq = 2
  MaxClock = 3
INVARIANTS
  TypeOK
PROPERTIES
  ImplementsLog
SYMMETRY MCOneCloneSymmetry
