SPECIFICATION Spec
CONSTANTS
  w1 = w1
  w2 = w2
  c1 = c1
  c2 = c2
  c3 = c3
  Worker = {w1, w2}
  Id = {c1, c2, c3}
  First = c1
  AutoRemove = {TRUE, FALSE}
  FaultKinds = {"refused", "lost"}
  MaxRequests = 2
  MaxFaults = 2
  MaxRelease = 1
SYMMETRY Symmetry
INVARIANTS
  TypeOK
  SomeCopySurvives
  OneInstance
  OriginalRecoverable
  RollbackRestores
  UpdateIsReal
CHECK_DEADLOCK FALSE
