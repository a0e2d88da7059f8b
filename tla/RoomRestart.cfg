CONSTANTS
  s1 = s1
  s2 = s2
  s3 = s3
  own = own
  demo = demo
  k1 = k1
  k2 = k2
  NoRec = NoRec
  NoRoom = NoRoom
  NoSocket = NoSocket
  Sockets <- TwoSockets
  Rooms <- BothRooms
  Owned <- OwnRoom
  Recs <- TwoRecs
  Capacity = 2
  Flaky <- OneSocket
  MaxRestarts = 1
SPECIFICATION FairSpec
CHECK_DEADLOCK FALSE
INVARIANTS
  InductiveInv
PROPERTIES
  ImplementsVisits
  VanishedLeaves
