SPECIFICATION Spec
CONSTANTS
  r1 = r1
  r2 = r2
  r3 = r3
  page = page
  random = random
  alice = alice
  bob = bob
  NoIdentity = NoIdentity
  NoRequest = NoRequest
  Request = {r1, r2, r3}
  Resource = {page, random}
  Volatile = {random}
  Identity = {alice, bob}
  TTL = 2
  MaxTime = 3
SYMMETRY Alike
INVARIANTS
  ServedWithinTTL
  SharedOnlyAlike
  BypassIsPrivate
