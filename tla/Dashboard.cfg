CONSTANTS
  Keys = {k1, k2}
  Nobody = Nobody
  Ranges = {1, 7}
  Default = 7
  MaxChanges = 2
  MaxFetches = 3
  Absent = Absent
  Undefined = Undefined
  NaN = NaN
  MaxMeetParticipants = 30
  RoomLimit = 1
SPECIFICATION FairSpec
INVARIANTS
  InductiveInv
  SettledIsCurrent
PROPERTIES
  RoomsCatchUp
