SPECIFICATION FairSpec
CONSTANTS
  Conns = {c1}
  NoConn = NoConn
  MaxReqs = 4
  Status = {3}
  Junk = {2}
  Long = {4}
  Tls = TRUE
  HandshakesFail = TRUE
  WritesFail = FALSE
INVARIANTS TypeOK InOrder TotalsBalance
PROPERTIES DrainAfterClose EveryRequestAnswered StopClosesAll
