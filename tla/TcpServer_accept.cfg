SPECIFICATION Spec
CONSTANTS
  Conns = {c1}
  NoConn = NoConn
  MaxReqs = 1
  Status = {}
  Junk = {}
  Long = {}
  Tls = TRUE
  HandshakesFail = TRUE
  WritesFail = TRUE
INVARIANT KeepsListening
