SPECIFICATION Spec
CONSTANTS
  alice = alice
  bob = bob
  Nobody = Nobody
  a1 = a1
  a2 = a2
  r1 = r1
  r2 = r2
  q1 = q1
  User = {alice, bob}
  Principal = alice
  Attempt = {a1, a2}
  Renewal = {r1, r2}
  Query = {q1}
  MaxToken = 2
  MaxActs = 2
INVARIANTS
  TypeOK
  OneSession
  CacheIsOwn
  RenewalNeverUndoesLogout
PROPERTY
  FlagIsReleased
