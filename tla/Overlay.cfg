CONSTANTS
  root = root
  g1 = g1
  g2 = g2
  w1 = w1
  w2 = w2
  shared = shared
  home = home
  d1 = d1
  d2 = d2
  inside = inside
  Groups = {root, g1, g2}
  Root = root
  Pointers = {w1, w2}
  Legacy = {w1}
  NameOf <- MCNameOf
  Labels <- MCLabels
  Files = {"estate", "a", "A", "b"}
  KeyOf <- MCKeyOf
  MainFile = "estate"
  MaxViews = 2
  Dirs = {home, d1, d2, inside}
  Manager = home
  Around = {inside}
  Recorded <- MCRecorded
  Native = {d1}
  Nil = Nil
SPECIFICATION Spec
INVARIANTS TypeOK TreeShowsSelection FocusedViewsExact OverlayLoads
PROPERTY FocusKept
