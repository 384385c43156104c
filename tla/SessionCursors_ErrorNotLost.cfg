CONSTANTS
  Sessions = {c1}
  Global = FALSE
  Counts <- MCCounts
  Skips = {0, 1}
  MaxDocs = 3
  ServerBatch = 2
  MaxQueries = 2
  MaxIds = 6
  Slots <- MCSlots
SPECIFICATION Spec
INVARIANT ErrorNotLost
