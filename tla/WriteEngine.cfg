CONSTANTS
  s1 = s1
  s2 = s2
  cs = cs
  ShardSeq <- MCShardSeq
  Batches <- MCBatches
  WriteAttempts = 2
  SessionAttempts = 2
  MaxTries = 2
  MaxMigrations = 4
  MaxStepDowns = 1
  W = 6
  P = 3
SPECIFICATION Spec
INVARIANTS
  PlanCorrect
  TypeOK
  OkMeansRemoved
  RouterConsistent
  HashCorrect
