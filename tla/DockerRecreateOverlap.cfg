SPECIFICATION Spec
CONSTANTS
  w1 = w1
  w2 = w2
  w3 = w3
  c1 = c1
  c2 = c2
  c3 = c3
  c4 = c4
  Worker = {w1, w2, w3}
  Id = {c1, c2, c3, c4}
  First = c1
  AutoRemove = {FALSE}
  FaultKinds = {}
  MaxRequests = 3
  MaxFaults = 0
  MaxRelease = 0
SYMMETRY Symmetry
INVARIANT
  RollbackSparesOriginal
CHECK_DEADLOCK FALSE
