SPECIFICATION Spec
CONSTANTS
  Seqs = {1, 2, 3}
  ECHO = ECHO
  STATUS = STATUS
  NotSent = NotSent
  Timeout = 1
  Remember = 1
  MaxTime = 2
  MaxDup = 0
INVARIANT ReorderMeansOvertaken

