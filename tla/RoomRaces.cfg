CONSTANTS
  s1 = s1
  s2 = s2
  s3 = s3
  own = own
  demo = demo
  k1 = k1
  k2 = k2
  NoRec = NoRec
  NoRoom = NoRoom
  NoSocket = NoSocket
  Sockets <- ThreeSockets
  Rooms <- OwnRoom
  Owned <- OwnRoom
  Recs <- TwoRecs
  Capacity = 2
  Flaky <- NoSockets
  MaxRestarts = 0
SYMMETRY Symmetry
SPECIFICATION Spec
CHECK_DEADLOCK FALSE
INVARIANTS
  OverbookingBounded
  UsageSettled
  PresenceMetered
  PresenceAgrees
  OccupiedHasRouter
  EndedStaysGone
  DropsRecorded
PROPERTIES
  LiveRoomStays
