SPECIFICATION Spec
CONSTANTS
  a1 = a1
  a2 = a2
  p1 = p1
  p2 = p2
  c1 = c1
  c2 = c2
  NoActor = NoActor
  BadActor = BadActor
  NoExpiry = NoExpiry
  BadExpiry = BadExpiry
  NoBody = NoBody
  Actors = {a1, a2}
  Strict = FALSE
  Clones = {c1, c2}
  PlainActors = {}
  Procs = {p1, p2}
  CloneOf <- MCTwoClones
  LeaseTicks = {1}
  Flags = {"work.takeover", "work.handoff"}
  OwnBodies <- MCNoRawBodies
  OwnActors = {a1, a2}
  MaxSeq = 2
  MaxClock = 3
INVARIANTS
  NeverBroken
  NoToeStepping
  LawfulHistory
  
SYMMETRY MCTwoClonesSymmetry
