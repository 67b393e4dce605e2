SPECIFICATION FairSpec
CONSTANTS
  Modes = {TRUE, FALSE}
  Links = {c1, c2}
  Socket = Socket
  MaxReqs = 5
  Status = {4}
  Junk = {3, 5}
  Unsealed = {3}
  Long = {2}
  WritesFail = TRUE
  StopModes = {TRUE}
INVARIANTS TypeOK SnapshotCoherent CountersExact AnsweredOnceInOrder
PROPERTIES DatagramsAnswered StopReturns
