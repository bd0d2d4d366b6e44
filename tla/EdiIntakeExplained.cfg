CONSTANTS
  r1 = r1
  Docs = {"explained"}
  Content <- MCContent
  Malformed = {}
  Requests = {r1}
  Connected = TRUE
  Resend = FALSE
  MaxRequests = 2
  MaxFaults = 0
  Casts = {{r1}}
  Alone = {r1}
  Shared = {}
SPECIFICATION MCSpec
INVARIANT VerdictRecorded
