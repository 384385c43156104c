CONSTANTS
  b1 = b1
  b2 = b2
  b3 = b3
  rd = rd
  None = None
  BackendSeq <- MCBackendSeq
  Readers <- MCReaders
  MaxElections = 1
SPECIFICATION SpecReading
INVARIANT
  SyncReadsAlive
