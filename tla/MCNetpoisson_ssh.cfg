SPECIFICATION MainSpec
CONSTANTS
  CommandLines <- MCCommandLines
  None = None
  NotANumber = NotANumber
  Missing = Missing
  MaxEchoes = 1
  MaxProbes = 1
  Sizes = {"fits", "grows", "long", "huge"}
  RequestCap = 1
  ResponseCap = 2
  MaxStray = 1
  Strays = {"noise"}
  Failures = TRUE
  Seqs = {1, 2}
  ECHO = ECHO
  STATUS = STATUS
INVARIANTS MainTypeOK LinesIntact AnsweredInOrder FinalAccounting
INVARIANTS OptionsKeepMeaning TargetAsWritten OrderlyExit
PROPERTIES SignalEnds BurstDrains
