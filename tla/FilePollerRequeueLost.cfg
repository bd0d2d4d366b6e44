CONSTANTS
  Files = {f1, f2}
  Https = FALSE
  Pollers = {cron}
  Editors = {op}
  MaxRetries = 2
  Keep = 2
  MaxEdits = 1
  MaxPollFaults = 0
SPECIFICATION PollSpec
INVARIANT DeadLetterEarned
