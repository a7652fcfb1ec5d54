CONSTANTS
  j1 = j1
  j2 = j2
  o1 = o1
  o2 = o2
  p1 = p1
  p2 = p2
  v1 = v1
  v2 = v2
  k1 = k1

  Jobs = {j1, j2}
  Operations = {o1, o2}
  Checkouts = {k1}
  Policies = {p1, p2}
  Asked = {p1}
  FormsOf <- MCFormsOf
  Strategies = {"adaptive"}
  Resolved = {0}
  Views = {v1, v2}
  All = All
  Focuses = {All}
  None = None
  MaxFrames = 5
  MaxEdits = 1
  MaxFaults = 1
SPECIFICATION FairSpec
INVARIANTS TypeOK OneDecision AdoptedLawfully SeedKept
PROPERTIES AdoptedAsApproved ViewsFresh ImplementsRegister ViewsRestored
CHECK_DEADLOCK FALSE
