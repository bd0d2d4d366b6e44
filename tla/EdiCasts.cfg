CONSTANTS
  r1 = r1
  r2 = r2
  Docs = {"answer", "accept", "reject", "garbage", "mixed"}
  Content <- MCContent
  Malformed = {"garbage"}
  Requests = {r1, r2}
  Connected = TRUE
  Resend = TRUE
  MaxRequests = 4
  MaxFaults = 1
  Casts = {{}, {r1}, {r1, r2}}
  Alone = {r1}
  Shared = {"answer", "mixed"}
  IdWidth = 1
  Numerals <- MCNumerals
  Orders <- MCOrders
  Rows <- MCRows
  Received <- MCReceived
  Us <- MCUs
  Partner <- MCPartner
  ControlNumbers <- MCControlNumbers
  Separators <- MCSeparators
SPECIFICATION EdiSpec
INVARIANTS AnsweredRightly VerdictRecorded AloneControlUnique AloneNoLinelessOrder ReadBack AckMatches
PROPERTIES AloneFinishes
