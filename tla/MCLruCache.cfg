SPECIFICATION CacheSpec
CONSTANTS
  k1 = k1  k2 = k2  k3 = k3
  v1 = v1  v2 = v2
  Key <- MCKey
  Value <- MCValue
  Capacity = 2
  Ttl = 2
INVARIANTS
  IndexMatchesEntries
  EntriesInRecencyOrder
PROPERTIES
  ImplementsTtlMap
