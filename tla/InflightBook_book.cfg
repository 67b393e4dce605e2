SPECIFICATION FairSpec
CONSTANTS
  Seqs = {1, 2, 3}
  ECHO = ECHO
  STATUS = STATUS
  NotSent = NotSent
  Timeout = 1
  Remember = 1
  MaxTime = 1
  MaxDup = 0
INVARIANTS CountersExact TablesBounded ForgetOldest
PROPERTIES NoEarlyLoss SentSettles ImplementsLedger
