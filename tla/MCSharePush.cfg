SPECIFICATION FairPushSpec
CONSTANTS
  MaxVersion = 3
  MaxSeq = 4
  MaxCalls = 2
CHECK_DEADLOCK FALSE
INVARIANTS StampsOrderSnapshots
PROPERTIES ChangesArrive
