CONSTANTS
  Stations = {b1, b2}
  Watchers = {w1, w2}
  NoSession = NoSession
  MaxViewers = 1
  MaxShares = 2
SPECIFICATION Spec
CHECK_DEADLOCK FALSE
SYMMETRY Interchangeable
INVARIANTS
  InductiveInv
  PeersFollowViewers
  WatcherHonest
