SPECIFICATION Spec
CONSTANTS
  Procs = {p1, p2, p3}
  Rids = {r1, r2, r3}
  NoRid = NoRid
INVARIANTS
  RemedyAvailable
