SPECIFICATION Spec
CONSTANTS
  t1 = t1
  t2 = t2
  t3 = t3
  h1 = h1
  Task = {t1, t2, t3}
  Host = {h1}
  Global = 2
  PerHost = 2
  View = {"all", "running"}
  NoEntry = NoEntry
  MaxVersion = 2
SYMMETRY Symmetry
INVARIANTS
  TypeOK
  StaleOnlyIfRaced
