CONSTANTS
  p1 = p1
  p2 = p2
  p3 = p3
  e1 = e1
  e2 = e2
  n1 = n1
  n2 = n2
  Procs = {p1, p2, p3}
  InitProcs = {p1}
  Founder = Founder
  Edits = {e1, e2}
  Names = {n1, n2}
  EditorView = n1
  None = None
  Free = Free
SPECIFICATION FairSpec
INVARIANTS TypeOK NeverAhead
PROPERTIES NoLostUpdate SuccessIsCurrent NotBusyForever
