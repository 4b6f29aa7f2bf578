\* Joined lookups, bypassed entries, expiry and eviction.
SPECIFICATION Spec
CONSTANTS
  c1 = c1  c2 = c2   k1 = k1  k2 = k2  k3 = k3
  Nobody = Nobody
  Calls = {c1, c2}
  Keys = {k1, k2, k3}
  MaxEntries = 2
  MaxChanges = 1
INVARIANTS
  MemoryIsBounded
  CachedReadsNeverGoBack
  FlightsAreLookups
