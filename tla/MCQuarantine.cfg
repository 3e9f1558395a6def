SPECIFICATION FairSpec
CONSTANTS
  wanted = wanted
  other = other
  Peers = {p1, p2}
  Cids <- Blocks
  Handlers = {h1}
  Messages <- Sayings
  Sents <- Calls
  MaxUnnoted = 1
INVARIANTS HeldOffersNothing LinkedIsKnown
PROPERTIES SoleProviderStays StuckIsMoved
