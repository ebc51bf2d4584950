SPECIFICATION Spec
CONSTANTS
  Calls = {c1}
  Asks = {0, 1, 4}
  Timeout = 2
  MaxTimeout = 3
  Slack = 4
  InstallerPatience = 1
  Lag = 1
  MaxOutput = 2
  MaxWrites = 3
  MaxSend = 1
  MaxCrashes = 1
INVARIANT StartReturned
