CONSTANTS
  Orgs = {o1}
  Resources = {quote}
  HubResources = {quote}
  PortalResources = {quote}
  Cycles = {c1, c2}
  Admins = {a1}
  Casts = {{c1, c2}, {c1, a1}}
  MaxRetries = 2
  Limit = 2
  MaxRows = 2
  MaxFaults = 1
  MaxRequeues = 1
SPECIFICATION MCSpec
INVARIANTS StatusEarned StampsTrue CronBoundsRetry
PROPERTIES EventuallySettled CronKeepsLedger
