CONSTANTS
  Callers = {r1, r2, ping}
  PrimaryCallers = {r1, r2}
  Conns = {c1, c2, c3}
  NoConn = NoConn
  Versions = {1, 2}
  ConnPoolSize = 1
  MaxBreaks = 2
SPECIFICATION Spec
PROPERTY
  SentAuthenticated
