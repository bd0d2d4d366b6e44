CONSTANTS
  r1 = r1
  Docs = {"garbage"}
  Content <- MCContent
  Malformed = {"garbage"}
  Requests = {r1}
  Connected = TRUE
  Resend = FALSE
  MaxRequests = 1
  MaxFaults = 0
  Casts = {{}}
  Alone = {r1}
  Shared = {}
  IdWidth = 1
  Numerals <- MCNumerals
  Orders = {}
  Rows = {}
  Received <- MCReceived
  Us <- MCUs
  Partner <- MCPartner
  ControlNumbers <- MCControlNumbers
  Separators <- MCSeparators
SPECIFICATION EdiSpec
INVARIANT EveryTransactionAnswered
