SPECIFICATION FairSpec
CONSTANTS
  OpenAttempts = 10
  BackoffCap = 10
  PollSleep = 4
  RegisterTime = 165
  RestartSec = 40
  WdTimeout = 300
  MaxFaults = 3
INVARIANTS BootTypeOK WatchdogStaysFed NeverDeaf
PROPERTIES HungIsReset LinkComesUp
