SPECIFICATION FairSpec
CONSTANTS
  FgJobs = {f1, f2}
  BgJobs = {b1, b2}
  Callers = {c1}
  IdleWaits = {w1}
  MaxSlots = 3
INVARIANTS SlotAccounting NoStrandedSlot IdleWakeupIsReal
PROPERTIES NobodyWaitsForever
