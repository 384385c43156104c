CONSTANTS
  Sessions = {c1}
  Global = FALSE
  Counts <- MCCounts
  Skips = {0, 1}
  MaxDocs = 5
  ServerBatch = 2
  MaxQueries = 3
  MaxIds = 8
  Slots <- MCSlots
SPECIFICATION Spec
INVARIANT PartialMergeDropsFailures
