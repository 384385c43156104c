CONSTANTS
  Servers = {s1, s2}
  NoServer = NoServer
  InfMs = InfMs
  MaxVersion = 3
SPECIFICATION Spec
INVARIANT TypeOK
PROPERTIES
  AbsSpec
  FetchTerminates
