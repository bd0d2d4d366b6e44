CONSTANTS
  Orgs = {o1, o2}
  Resources = {push}
  HubResources = {push}
  PortalResources = {}
  Cycles = {c1}
  Admins = {}
  MaxRetries = 2
  Limit = 1
  MaxRows = 2
  MaxFaults = 0
  MaxRequeues = 0
SPECIFICATION FairSpec
PROPERTY DueRowsProcessed
