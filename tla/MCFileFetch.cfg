SPECIFICATION FairSpec
CONSTANTS
  Leaves = {l1, l2}
  MaxFaults = 4
INVARIANTS DoneIsSeeded TornIsMarked
PROPERTIES SavedBitsGrow SeedsAsPromised 
