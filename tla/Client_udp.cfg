SPECIFICATION ClientSpec
CONSTANTS
  Udp = TRUE
  Connections = 1
  MaxPending = 1
  Unlimited = Unlimited
  MaxEchoes = 1
  MaxProbes = 1
  Failures = TRUE
  Seqs = {1, 2}
  ECHO = ECHO
  STATUS = STATUS
  NotSent = NotSent
  Timeout = 1
  Remember = 2
  MaxTime = 1
  MaxDup = 2
INVARIANTS FinalAccounting ClientTypeOK WireAccounting
PROPERTIES UsesBook
