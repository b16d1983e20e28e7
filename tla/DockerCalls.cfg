SPECIFICATION CallsSpec
CONSTANTS
  t1 = t1
  t2 = t2
  t3 = t3
  t4 = t4
  h1 = h1
  h2 = h2
  Task = {t1, t2, t3, t4}
  Host = {h1, h2}
  Global = 3
  PerHost = 2
INVARIANTS
  CallsTypeOK
  PermitsConserved
  NoLostWakeup
  SomeCallProceeds
PROPERTY
  EveryCallRuns
