SPECIFICATION FairSpec
CONSTANTS
  k1 = k1
  a1 = a1
  a2 = a2
  Keys = {k1}
  Apps = {a1, a2}
  Worlds <- Mix
CHECK_DEADLOCK FALSE
INVARIANTS FiledIsRemembered StoppedIsForgotten
PROPERTIES HeldIsNeverDropped EventuallyAnnounced
