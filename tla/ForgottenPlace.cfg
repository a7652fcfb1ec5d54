CONSTANTS
  p1 = p1
  p2 = p2
  p3 = p3
  d1 = d1
  d2 = d2
  g1 = g1
  Paths = {p1, p2}
  Dirs = {d1, d2}
  Groups = {g1}
  NoDir = NoDir
  NoPath = NoPath
  NoPointer = NoPointer
SPECIFICATION MCPlainSpec
PROPERTY ForgottenPlaceKept
