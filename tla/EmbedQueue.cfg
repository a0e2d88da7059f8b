CONSTANTS
  Peers = {p1, p2}
  NoPeer = NoPeer
  Attempts = 2
  MaxConns = 2
SPECIFICATION Spec
CHECK_DEADLOCK FALSE
SYMMETRY Interchangeable
INVARIANTS
  PictureHonest
  PeersAgree
