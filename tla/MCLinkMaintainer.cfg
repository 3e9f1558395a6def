SPECIFICATION FairSpec
CONSTANTS
  Conns = {c1, c2}
  NoConn = NoConn
  linkBeatMiss = 3
  Scenes = {"paths","dials"}
INVARIANTS TrustIsEarned TrustIsBrief
PROPERTIES LiveConnKeepsTrust GoodPathIsUsed FriendIsReached
