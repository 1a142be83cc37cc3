SPECIFICATION NbcSpec
CONSTANTS
  NumHosts = 2
  MaxAddrs = 2
  Timeouts = 3
PROPERTY RemainingTimedOut
