CONSTANTS
  keep = keep
  stale = stale
  ckeep = ckeep
  find = find
  n1 = n1
  n2 = n2
  k1 = k1
  k2 = k2
  Updaters <- MCUpdaters
  Keeper = keep
  MaxVersion = 3
  MaxStaleCalls = 2
  MaxRestarts = 1
  Broken = {2}
  DbsOf <- MCDbsOf
  MaxUsers = 2
  CUpdaters <- MCCUpdaters
  Ctor = ctor
  CKeeper = ckeep
  Finder = find
  DbOrder <- MCDbOrder
  UserDocs <- MCUserDocs
  AuthOn = TRUE
  NonceSeq <- MCNonceSeq
  Logins <- MCLogins
  Docs <- MCDocs
  MaxCmds = 4
  Callers <- MCUpdaters
  Conns <- MCConns
  ConnOf <- MCConnOf
SPECIFICATION CSpec
PROPERTY
  MonotonicInstall
