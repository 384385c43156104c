CONSTANTS
  Backends = {b1, b2}
  NoBackend = NoBackend
  InfMs = InfMs
  UIntMaxMs = 3
SPECIFICATION Spec
INVARIANTS
  TypeOK
  ReplyNotOvertaken
PROPERTIES
  TalkTerminates
