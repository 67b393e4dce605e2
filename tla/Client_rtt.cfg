SPECIFICATION ClientSpec
CONSTANTS
  Udp = FALSE
  Connections = 1
  MaxPending = 1
  Unlimited = Unlimited
  MaxEchoes = 2
  MaxProbes = 0
  Failures = TRUE
  Seqs = {1, 2}
  ECHO = ECHO
  STATUS = STATUS
  NotSent = NotSent
  Timeout = 1
  Remember = 2
  MaxTime = 1
  MaxDup = 2
INVARIANT RttNonNegative
