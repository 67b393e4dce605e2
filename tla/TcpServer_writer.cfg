SPECIFICATION FairSpec
CONSTANTS
  Conns = {c1}
  NoConn = NoConn
  MaxReqs = 2
  Status = {}
  Junk = {}
  Long = {}
  Tls = FALSE
  HandshakesFail = FALSE
  WritesFail = TRUE
PROPERTY EveryRequestAnswered
