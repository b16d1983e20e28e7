SPECIFICATION Spec
CONSTANTS
  t1 = t1
  t2 = t2
  t3 = t3
  a1 = a1
  a2 = a2
  n1 = n1
  n2 = n2
  NoName = NoName
  Task = {t1, t2, t3}
  Addr = {a1, a2}
  Name = {n1, n2}
  MaxFailures = 2
  Lockout = 2
  Cap = 3
SYMMETRY Symmetry
INVARIANTS
  TypeOK
  FailuresBounded
  TableBounded
PROPERTY
  LockSpec
