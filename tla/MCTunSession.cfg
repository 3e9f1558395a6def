SPECIFICATION FairTunSpec
CONSTANTS
  Launches = 2
  Wants <- BothPlanes
  Settings = {"planes", "datagram", "stream"}
CHECK_DEADLOCK FALSE
INVARIANTS NothingLeaks RunningIsExact
PROPERTIES FriendIsHeard
