SPECIFICATION ClientFairSpec
CONSTANTS
  Udp = FALSE
  Connections = 1
  MaxPending = 1
  Unlimited = Unlimited
  MaxEchoes = 3
  MaxProbes = 0
  Failures = TRUE
  Seqs = {1, 2, 3}
  ECHO = ECHO
  STATUS = STATUS
  NotSent = NotSent
  Timeout = 1
  Remember = 2
  MaxTime = 0
  MaxDup = 3
INVARIANT OverrunByOne
PROPERTIES StopReturns WindDown
