CONSTANTS
  Peers = {p1, p2}
  NoPeer = NoPeer
  MaxJoins = 2
SPECIFICATION Spec
CHECK_DEADLOCK FALSE
SYMMETRY Interchangeable
INVARIANTS
  InductiveInv
  JoinExplained
  TilesHonest
