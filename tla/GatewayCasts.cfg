CONSTANTS
  c = c
  a = a
  r1 = r1
  r2 = r2
  w1 = w1
  w2 = w2
  p1 = p1
  p2 = p2
  partner = partner
  Clients = {c}
  Addresses = {a}
  Ceiling <- MCCeiling
  Window = 2
  Pruned = TRUE
  MaxTime = 4
  MaxCalls = 5
  Windows = {w1, w2}
  Polls = {p1, p2}
  Mappings = {partner}
  Settings = {"objects"}
  MaxSaves = 3
  MaxRows = 2
  MaxRuns = 2
  MaxTrips = 1
  Handlers = {r1, r2}
  Scopes = {"s1", "s2"}
  ObjectsPart = "objects"
  Exposed <- MCExposed
  MaxRequests = 2
  MaxPatches = 1
  Casts = {"limits", "requests", "objects", "windows", "creation"}
SPECIFICATION MCSpec
INVARIANTS AllTypesOK LimitExact SingleContext EditsKept AccessJustified DenialJustified LedgersTrue
PROPERTIES OutdatedDropped
CHECK_DEADLOCK FALSE
