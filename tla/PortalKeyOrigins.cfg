CONSTANTS
  d1 = d1
  d2 = d2
  k1 = k1
  k2 = k2
  r1 = r1
  r2 = r2
  Dealers = {d1, d2}
  Keys = {k1, k2}
  Origins = {"o1", "o2"}
  Local = {"dev"}
  Modules = {"quote"}
  Owner <- MCOwner
  Requests = {r1, r2}
  TTL = 2
  Timeout = 1
  MaxVersion = 1
  MaxEdits = 2
  MaxFaults = 1
  MaxTime = 1
  Orgs = {d1, d2}
  FirstOrg = d1
  Tokens = {"t1", "t2"}
  Visited = {"clients", "settings", "portal"}
  MaxCalls = 2
  MaxIssued = 2
  MaxFailures = 1
  Casts = {"gate"}
SPECIFICATION MCSpec
INVARIANT KeyOnlyRestricts
CHECK_DEADLOCK FALSE
